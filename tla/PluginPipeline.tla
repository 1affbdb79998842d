--------------------------- MODULE PluginPipeline ---------------------------
(***************************************************************************)
(* How verified plugin bytes reach a gateway: three controllers that share *)
(* nothing but cluster objects.                                            *)
(*                                                                         *)
(*   controllers/plugin.rs      pulls an artefact, verifies it, stores it  *)
(*                              as a Secret in the operator's namespace,   *)
(*                              and writes the MCPGPlugin's status;        *)
(*   controllers/plugin_set.rs  resolves the entries of an MCPGPluginSet   *)
(*                              from those statuses, copies the Secrets to *)
(*                              the set's namespace, renders the resolved  *)
(*                              ConfigMap, prunes other copies, and writes *)
(*                              the set's status;                          *)
(*   controllers/gateway.rs     reads the set's status and ConfigMap and   *)
(*                              mounts the Secrets it names.               *)
(*                                                                         *)
(* A pass is split where it talks to the apiserver or the registry, since  *)
(* users and the other controllers act in between.  Passes over one object *)
(* never overlap, passes over different objects do.  A dirty flag says     *)
(* that a watch event or a requeue asks for a pass.  A Secret is the pair  *)
(* of the plugin and the artefact in its name.                             *)
(***************************************************************************)
EXTENDS Naturals, FiniteSets

CONSTANTS
    Plugins,        \* MCPGPlugin objects; the set under study may list any of them
    Artefacts,      \* what a registry may serve, by content
    Genuine,        \* the artefacts whose signatures and provenance verify
    MaxGeneration,  \* spec generations of a plugin
    Events,         \* which of EventKinds may happen
    MaxEvents,      \* and how many of them in one behaviour
    Nothing         \* artefactSecretName is unset; no artefact in hand

EventKinds == {"edit", "repush", "revoke", "entries", "delete plugin",
               "delete set", "crash", "error"}

ASSUME PipelineAssumption ==
    /\ Genuine \subseteq Artefacts
    /\ Nothing \notin Artefacts
    /\ MaxGeneration \in Nat \ {0}
    /\ Events \subseteq EventKinds
    /\ MaxEvents \in Nat

VARIABLES
    generation,   \* MCPGPlugin metadata.generation
    content,      \* what the image of each generation of a plugin resolves to
    phase,        \* lifecycle of each MCPGPlugin
    revoked,      \* the artefacts on the cluster-default MCPGRevocationList
    ready,        \* MCPGPlugin status: condition Ready is True
    secretName,   \*   artefactSecretName
    bySha,        \*   revokedBySha
    opSecrets,    \* Secrets in the operator's namespace
    plugDirty, plugPc,
    pulling,      \* the generation this pass works on
    pulled,       \* the artefact it pulled
    throughout,   \* history: artefacts on the list ever since the pass began
    entries,      \* MCPGPluginSet spec.entries that are enabled
    setPhase,     \* lifecycle of the set
    setReady,     \* its condition Ready is True
    copies,       \* Secrets in the set's namespace
    config,       \* the Secrets the resolved ConfigMap names
    setDirty, setPc,
    todo,         \* entries this pass has still to resolve, then to copy
    resolved,     \* the entries it has resolved
    failed,       \* it has rejected an entry
    gwDirty, gwPc,
    plan,         \* the Secrets this gateway pass will mount
    mounted,      \* the Secrets the gateway's Deployment mounts
    happened      \* how many events so far, and whether a failed request was one

pluginObject == <<generation, content, phase, ready, secretName, bySha>>
pluginPass   == <<plugDirty, plugPc, pulling, pulled, throughout>>
setObject    == <<entries, setPhase, setReady, copies, config>>
setPass      == <<setPc, todo, resolved, failed>>
gateway      == <<gwPc, plan, mounted>>
vars == <<pluginObject, revoked, opSecrets, pluginPass, setObject, setDirty, setPass,
          gwDirty, gateway, happened>>

-----------------------------------------------------------------------------
(* Types *)

Generations == 1 .. MaxGeneration
Secrets     == Plugins \X Artefacts
Phases      == {"new", "live", "deleting", "gone"}   \* "live": has our finalizer

PluginTypes ==
    /\ generation \in [Plugins -> Generations]
    /\ content \in [Plugins -> [Generations -> Artefacts]]
    /\ phase \in [Plugins -> Phases]
    /\ ready \in [Plugins -> BOOLEAN]
    /\ secretName \in [Plugins -> Artefacts \cup {Nothing}]
    /\ bySha \in [Plugins -> BOOLEAN]
    /\ plugDirty \in [Plugins -> BOOLEAN]
    /\ plugPc \in [Plugins -> {"idle", "pull", "verify", "store", "report"}]
    /\ pulling \in [Plugins -> Generations]
    /\ pulled \in [Plugins -> Artefacts \cup {Nothing}]
    /\ throughout \in [Plugins -> SUBSET Artefacts]
    /\ \A p \in Plugins : plugPc[p] \in {"verify", "store", "report"} => pulled[p] \in Artefacts
    /\ revoked \subseteq Artefacts
    /\ opSecrets \subseteq Secrets

SetTypes ==
    /\ entries \subseteq Plugins
    /\ setPhase \in Phases
    /\ copies \subseteq Secrets
    /\ config \subseteq Secrets
    /\ setPc \in {"idle", "resolve", "copy", "prune", "report"}
    /\ todo \subseteq Plugins
    /\ resolved \subseteq Secrets

GatewayTypes ==
    /\ gwPc \in {"idle", "config", "apply"}
    /\ plan \subseteq Secrets
    /\ mounted \subseteq Secrets

FlagTypes == {setReady, setDirty, failed, gwDirty} \subseteq BOOLEAN

\* Every variable keeps its type, and a pass past its pull has an artefact in hand.
TypeOK ==
    /\ PluginTypes /\ SetTypes /\ GatewayTypes /\ FlagTypes
    /\ happened \in [count : 0 .. MaxEvents, erred : BOOLEAN]

\* Every object has been created and no controller has seen any of them.
Init ==
    /\ generation = [p \in Plugins |-> 1]
    /\ content \in [Plugins -> [Generations -> Artefacts]]
    /\ phase = [p \in Plugins |-> "new"]
    /\ revoked = {}
    /\ ready = [p \in Plugins |-> FALSE]
    /\ secretName = [p \in Plugins |-> Nothing]
    /\ bySha = [p \in Plugins |-> FALSE]
    /\ opSecrets = {}
    /\ plugDirty = [p \in Plugins |-> TRUE]
    /\ plugPc = [p \in Plugins |-> "idle"]
    /\ pulling = [p \in Plugins |-> 1]
    /\ pulled = [p \in Plugins |-> Nothing]
    /\ throughout = [p \in Plugins |-> {}]
    /\ entries = Plugins
    /\ setPhase = "new"
    /\ setReady = FALSE
    /\ copies = {}
    /\ config = {}
    /\ setDirty = TRUE
    /\ setPc = "idle"
    /\ todo = {}
    /\ resolved = {}
    /\ failed = FALSE
    /\ gwDirty = TRUE
    /\ gwPc = "idle"
    /\ plan = {}
    /\ mounted = {}
    /\ happened = [count |-> 0, erred |-> FALSE]

-----------------------------------------------------------------------------
(* Helpers *)

Happens(kind) ==
    /\ kind \in Events
    /\ happened.count < MaxEvents
    /\ happened' = [count |-> happened.count + 1, erred |-> happened.erred \/ kind = "error"]

\* Mutant of PatchPluginStatus: the set controller filters status changes out, as
\* every controller does for its own objects.
PatchPluginStatusUnseen(p, isReady, name, isRevoked) ==
    /\ ready' = [ready EXCEPT ![p] = isReady]
    /\ secretName' = [secretName EXCEPT ![p] = name]
    /\ bySha' = [bySha EXCEPT ![p] = isRevoked]
    /\ UNCHANGED setDirty

\* patch_status of an MCPGPlugin: a forced apply, so what it leaves out is cleared.
\* The set controller watches MCPGPlugin unfiltered, so every write asks for a pass
\* over the set.  A pass holds the finalizer, so the object is still there.
PatchPluginStatus(p, isReady, name, isRevoked) ==
    /\ ready' = [ready EXCEPT ![p] = isReady]
    /\ secretName' = [secretName EXCEPT ![p] = name]
    /\ bySha' = [bySha EXCEPT ![p] = isRevoked]
    /\ setDirty' = TRUE

StatusUntouched == UNCHANGED <<ready, secretName, bySha, setDirty>>

\* Status writes are best-effort: a failure is logged and the pass goes on.
WriteStatus(p, isReady, name, isRevoked) ==
    \/ PatchPluginStatus(p, isReady, name, isRevoked) /\ UNCHANGED happened
    \/ Happens("error") /\ StatusUntouched

PluginMoves(p, next, a) ==
    /\ plugPc' = [plugPc EXCEPT ![p] = next]
    /\ pulled' = [pulled EXCEPT ![p] = a]

\* The pass is over; again says whether its requeue comes soon.
PluginDone(p, again) ==
    /\ PluginMoves(p, "idle", Nothing)
    /\ plugDirty' = [plugDirty EXCEPT ![p] = plugDirty[p] \/ again]
    /\ throughout' = [throughout EXCEPT ![p] = {}]

\* What the passes of one controller leave alone.
PluginFrame == UNCHANGED <<generation, content, revoked, setObject, setPass, gwDirty, gateway>>
SetFrame    == UNCHANGED <<pluginObject, revoked, opSecrets, pluginPass, entries, gateway>>
GwFrame     == UNCHANGED <<pluginObject, revoked, opSecrets, pluginPass, setObject, setDirty, setPass>>

-----------------------------------------------------------------------------
(* The plugin controller *)

\* The deletion branch releases the finalizer and does nothing else.
ReleasePlugin(p) ==
    /\ plugDirty[p] /\ plugPc[p] = "idle"
    /\ phase[p] = "deleting"
    /\ phase' = [phase EXCEPT ![p] = "gone"]
    /\ plugDirty' = [plugDirty EXCEPT ![p] = FALSE]
    /\ setDirty' = TRUE
    /\ PluginFrame
    /\ UNCHANGED <<ready, secretName, bySha, opSecrets, plugPc, pulling, pulled, throughout, happened>>

\* ensure_finalizer, which the set controller sees, then record_pulling: the
\* conditions stay, the rest is cleared.
BeginPull(p) ==
    /\ plugDirty[p] /\ plugPc[p] = "idle"
    /\ phase[p] \in {"new", "live"}
    /\ phase' = [phase EXCEPT ![p] = "live"]
    /\ \/ PatchPluginStatus(p, ready[p], Nothing, FALSE) /\ UNCHANGED happened
       \/ /\ Happens("error")
          /\ setDirty' = (setDirty \/ phase[p] = "new")
          /\ UNCHANGED <<ready, secretName, bySha>>
    /\ plugDirty' = [plugDirty EXCEPT ![p] = FALSE]
    /\ plugPc' = [plugPc EXCEPT ![p] = "pull"]
    /\ pulling' = [pulling EXCEPT ![p] = generation[p]]
    /\ throughout' = [throughout EXCEPT ![p] = revoked]
    /\ PluginFrame
    /\ UNCHANGED <<opSecrets, pulled>>

\* pull_and_unpack gets whatever the image serves by now.
Pull(p) ==
    /\ plugPc[p] = "pull"
    /\ PluginMoves(p, "verify", content[p][pulling[p]])
    /\ StatusUntouched
    /\ PluginFrame
    /\ UNCHANGED <<phase, opSecrets, plugDirty, pulling, throughout, happened>>

\* record_pull_failure and record_mirror_failure: not Ready, retry in a minute.
PullFails(p) ==
    /\ plugPc[p] = "pull"
    /\ Happens("error")
    /\ PatchPluginStatus(p, FALSE, Nothing, FALSE) \/ StatusUntouched
    /\ PluginDone(p, TRUE)
    /\ PluginFrame
    /\ UNCHANGED <<phase, opSecrets, pulling>>

\* Mutants of VerifyPasses: the verdict is ignored; the list is not consulted; the
\* placeholder that stood in for the artefact during the check is kept.
VerifyPassesAnything(p) ==
    /\ plugPc[p] = "verify"
    /\ pulled[p] \notin revoked
    /\ PluginMoves(p, "store", pulled[p])
    /\ StatusUntouched
    /\ PluginFrame
    /\ UNCHANGED <<phase, opSecrets, plugDirty, pulling, throughout, happened>>

VerifyPassesRevoked(p) ==
    /\ plugPc[p] = "verify"
    /\ pulled[p] \in Genuine
    /\ PluginMoves(p, "store", pulled[p])
    /\ StatusUntouched
    /\ PluginFrame
    /\ UNCHANGED <<phase, opSecrets, plugDirty, pulling, throughout, happened>>

VerifyPassesPlaceholder(p) ==
    /\ plugPc[p] = "verify"
    /\ pulled[p] \in Genuine
    /\ pulled[p] \notin revoked
    /\ PluginMoves(p, "store", Nothing)
    /\ StatusUntouched
    /\ PluginFrame
    /\ UNCHANGED <<phase, opSecrets, plugDirty, pulling, throughout, happened>>

\* Signing key, revocation list, signature, cosign and SLSA all agree.
VerifyPasses(p) ==
    /\ plugPc[p] = "verify"
    /\ pulled[p] \in Genuine
    /\ pulled[p] \notin revoked
    /\ PluginMoves(p, "store", pulled[p])
    /\ StatusUntouched
    /\ PluginFrame
    /\ UNCHANGED <<phase, opSecrets, plugDirty, pulling, throughout, happened>>

\* Mutant of VerifyRevoked: the hit is logged and the last good status restored.
VerifyRevokedLogged(p) ==
    /\ plugPc[p] = "verify"
    /\ pulled[p] \in revoked
    /\ WriteStatus(p, ready[p], pulled[p], FALSE)
    /\ PluginDone(p, FALSE)
    /\ PluginFrame
    /\ UNCHANGED <<phase, opSecrets, pulling>>

\* record_revoked.
VerifyRevoked(p) ==
    /\ plugPc[p] = "verify"
    /\ pulled[p] \in revoked
    /\ WriteStatus(p, FALSE, Nothing, TRUE)
    /\ PluginDone(p, FALSE)
    /\ PluginFrame
    /\ UNCHANGED <<phase, opSecrets, pulling>>

\* record_verify_failure: no retry before the next resync, also when it was only
\* the signing key or the provenance that could not be read.
VerifyRejects(p) ==
    /\ plugPc[p] = "verify"
    /\ \/ pulled[p] \notin Genuine /\ WriteStatus(p, FALSE, Nothing, FALSE)
       \/ Happens("error") /\ PatchPluginStatus(p, FALSE, Nothing, FALSE)
    /\ PluginDone(p, FALSE)
    /\ PluginFrame
    /\ UNCHANGED <<phase, opSecrets, pulling>>

\* The verified bytes become a Secret in the operator's namespace.
Store(p) ==
    /\ plugPc[p] = "store"
    /\ opSecrets' = opSecrets \cup {<<p, pulled[p]>>}
    /\ PluginMoves(p, "report", pulled[p])
    /\ StatusUntouched
    /\ PluginFrame
    /\ UNCHANGED <<phase, plugDirty, pulling, throughout, happened>>

\* Mutant of ReportPlugin: the name of the Secret is left out.
ReportPluginNameless(p) ==
    /\ plugPc[p] = "report"
    /\ WriteStatus(p, TRUE, Nothing, FALSE)
    /\ PluginDone(p, FALSE)
    /\ PluginFrame
    /\ UNCHANGED <<phase, opSecrets, pulling>>

\* Ready, with the Secret's name.
ReportPlugin(p) ==
    /\ plugPc[p] = "report"
    /\ WriteStatus(p, TRUE, pulled[p], FALSE)
    /\ PluginDone(p, FALSE)
    /\ PluginFrame
    /\ UNCHANGED <<phase, opSecrets, pulling>>

\* Any other apiserver error leaves the pass through error_policy.
PluginPassErrs(p) ==
    /\ plugPc[p] \in {"pull", "verify", "store"}
    /\ Happens("error")
    /\ PluginDone(p, TRUE)
    /\ StatusUntouched
    /\ PluginFrame
    /\ UNCHANGED <<phase, opSecrets, pulling>>

PluginStep(p) ==
    \/ ReleasePlugin(p) \/ BeginPull(p) \/ Pull(p) \/ VerifyPasses(p)
    \/ VerifyRevoked(p) \/ VerifyRejects(p) \/ Store(p) \/ ReportPlugin(p)

PluginFault(p) == PullFails(p) \/ PluginPassErrs(p)

-----------------------------------------------------------------------------
(* The plugin-set controller *)

\* The deletion branch; the copies and the ConfigMap are left to the garbage
\* collector.
ReleaseSet ==
    /\ setDirty /\ setPc = "idle"
    /\ setPhase = "deleting"
    /\ setPhase' = "gone"
    /\ setDirty' = FALSE
    /\ gwDirty' = TRUE
    /\ SetFrame
    /\ UNCHANGED <<setReady, copies, config, setPass, happened>>

\* ensure_finalizer; the entries are those of the object this pass was given.
BeginSet ==
    /\ setDirty /\ setPc = "idle"
    /\ setPhase \in {"new", "live"}
    /\ setPhase' = "live"
    /\ setDirty' = FALSE
    /\ gwDirty' = (gwDirty \/ setPhase = "new")
    /\ setPc' = "resolve"
    /\ todo' = entries
    /\ resolved' = {}
    /\ failed' = FALSE
    /\ SetFrame
    /\ UNCHANGED <<setReady, copies, config, happened>>

Resolvable(p) == phase[p] # "gone" /\ ~ bySha[p] /\ ready[p] /\ secretName[p] # Nothing

\* resolve_entry reads the MCPGPlugin as it is now.
ResolveEntry(p) ==
    /\ setPc = "resolve"
    /\ p \in todo
    /\ todo' = todo \ {p}
    /\ IF Resolvable(p)
       THEN resolved' = resolved \cup {<<p, secretName[p]>>} /\ UNCHANGED failed
       ELSE failed' = TRUE /\ UNCHANGED resolved
    /\ SetFrame
    /\ UNCHANGED <<setPhase, setReady, copies, config, setDirty, setPc, gwDirty, happened>>

\* A lookup error counts as an entry whose plugin does not exist.
LookupFails(p) ==
    /\ setPc = "resolve"
    /\ p \in todo
    /\ Happens("error")
    /\ todo' = todo \ {p}
    /\ failed' = TRUE
    /\ SetFrame
    /\ UNCHANGED <<setPhase, setReady, copies, config, setDirty, setPc, resolved, gwDirty>>

\* ensure_tenant_secret_binding, before the first Secret is written.
EnsureBinding ==
    /\ setPc = "resolve"
    /\ todo = {}
    /\ setPc' = "copy"
    /\ todo' = {s[1] : s \in resolved}
    /\ SetFrame
    /\ UNCHANGED <<setPhase, setReady, copies, config, setDirty, resolved, failed, gwDirty, happened>>

\* build_namespace_copy; an entry whose source is gone is skipped.  The set owns
\* its copies and its ConfigMap, so changing one asks for another pass.
CopyEntry(p) ==
    /\ setPc = "copy"
    /\ p \in todo
    /\ todo' = todo \ {p}
    /\ copies' = copies \cup {s \in resolved \cap opSecrets : s[1] = p}
    /\ setDirty' = (setDirty \/ copies' # copies)
    /\ SetFrame
    /\ UNCHANGED <<setPhase, setReady, config, setPc, resolved, failed, gwDirty, happened>>

\* Mutant of Render: the ConfigMap is written before the copies.
RenderEarly ==
    /\ setPc = "copy"
    /\ config' = resolved
    /\ setDirty' = (setDirty \/ config' # config)
    /\ setPc' = "prune"
    /\ SetFrame
    /\ UNCHANGED <<setPhase, setReady, copies, todo, resolved, failed, gwDirty, happened>>

\* render_resolved_set and build_resolved_configmap.
Render ==
    /\ setPc = "copy"
    /\ todo = {}
    /\ config' = resolved
    /\ setDirty' = (setDirty \/ config' # config)
    /\ setPc' = "prune"
    /\ SetFrame
    /\ UNCHANGED <<setPhase, setReady, copies, todo, resolved, failed, gwDirty, happened>>

\* prune_stale_secrets: best-effort.
Prune ==
    /\ setPc = "prune"
    /\ \/ copies' = copies \cap resolved /\ UNCHANGED happened
       \/ /\ Happens("error")
          /\ \E kept \in SUBSET (copies \ resolved) : copies' = (copies \cap resolved) \cup kept
    /\ setDirty' = (setDirty \/ copies' # copies)
    /\ setPc' = "report"
    /\ SetFrame
    /\ UNCHANGED <<setPhase, setReady, config, todo, resolved, failed, gwDirty>>

\* Mutant of ReportSet: gateways are only told when the set is Ready.
ReportSetQuietly ==
    /\ setPc = "report"
    /\ \/ setReady' = ~ failed /\ gwDirty' = (gwDirty \/ ~ failed) /\ UNCHANGED happened
       \/ Happens("error") /\ UNCHANGED <<setReady, gwDirty>>
    /\ setPc' = "idle"
    /\ resolved' = {}
    /\ failed' = FALSE
    /\ SetFrame
    /\ UNCHANGED <<setPhase, copies, config, setDirty, todo>>

\* The status write, which asks for a pass over the gateways that use the set.
ReportSet ==
    /\ setPc = "report"
    /\ \/ setReady' = ~ failed /\ gwDirty' = TRUE /\ UNCHANGED happened
       \/ Happens("error") /\ UNCHANGED <<setReady, gwDirty>>
    /\ setPc' = "idle"
    /\ resolved' = {}
    /\ failed' = FALSE
    /\ SetFrame
    /\ UNCHANGED <<setPhase, copies, config, setDirty, todo>>

\* Any other apiserver error leaves the pass through error_policy.
SetPassErrs ==
    /\ setPc \in {"resolve", "copy"}
    /\ Happens("error")
    /\ setPc' = "idle"
    /\ todo' = {}
    /\ resolved' = {}
    /\ failed' = FALSE
    /\ setDirty' = TRUE
    /\ SetFrame
    /\ UNCHANGED <<setPhase, setReady, copies, config, gwDirty>>

SetStep ==
    \/ ReleaseSet \/ BeginSet \/ EnsureBinding \/ Render \/ Prune \/ ReportSet
    \/ \E p \in Plugins : ResolveEntry(p) \/ CopyEntry(p)

SetFault == SetPassErrs \/ \E p \in Plugins : LookupFails(p)

\* The garbage collector removes what the deleted set owned.
CollectGarbage ==
    /\ setPhase = "gone"
    /\ copies \cup config # {}
    /\ copies' = {}
    /\ config' = {}
    /\ SetFrame
    /\ UNCHANGED <<setPhase, setReady, setDirty, setPass, gwDirty, happened>>

-----------------------------------------------------------------------------
(* The gateway controller *)

\* resolve_plugin_set, first read: a set that is missing or not Ready yields no
\* view, and the gateway is rendered without plugins.
BeginGateway ==
    /\ gwDirty /\ gwPc = "idle"
    /\ gwDirty' = FALSE
    /\ gwPc' = IF setPhase # "gone" /\ setReady THEN "config" ELSE "apply"
    /\ plan' = {}
    /\ GwFrame
    /\ UNCHANGED <<mounted, happened>>

\* Second read: the resolved ConfigMap, if it is there.
ReadConfig ==
    /\ gwPc = "config"
    /\ gwPc' = "apply"
    /\ plan' = config
    /\ GwFrame
    /\ UNCHANGED <<gwDirty, mounted, happened>>

\* The ConfigMap and the Deployment are applied; the gateway owns them.
ApplyGateway ==
    /\ gwPc = "apply"
    /\ gwPc' = "idle"
    /\ mounted' = plan
    /\ gwDirty' = (gwDirty \/ mounted' # mounted)
    /\ plan' = {}
    /\ GwFrame
    /\ UNCHANGED happened

GatewayErrs ==
    /\ gwPc \in {"config", "apply"}
    /\ Happens("error")
    /\ gwPc' = "idle"
    /\ plan' = {}
    /\ gwDirty' = TRUE
    /\ GwFrame
    /\ UNCHANGED mounted

GatewayStep == BeginGateway \/ ReadConfig \/ ApplyGateway

-----------------------------------------------------------------------------
(* Users, the registry and time *)

\* A spec edit passes the spec_changes filter of the plugin controller and the
\* unfiltered watch of the set controller.
EditPlugin(p) ==
    /\ Happens("edit")
    /\ phase[p] \in {"new", "live"}
    /\ generation[p] < MaxGeneration
    /\ generation' = [generation EXCEPT ![p] = generation[p] + 1]
    /\ plugDirty' = [plugDirty EXCEPT ![p] = TRUE]
    /\ setDirty' = TRUE
    /\ UNCHANGED <<content, phase, revoked, ready, secretName, bySha, opSecrets, plugPc, pulling,
                   pulled, throughout, setObject, setPass, gwDirty, gateway>>

\* A tag moves: nobody is told.
Repush(p, g, a) ==
    /\ Happens("repush")
    /\ content[p][g] # a
    /\ content' = [content EXCEPT ![p] = [content[p] EXCEPT ![g] = a]]
    /\ UNCHANGED <<generation, phase, revoked, ready, secretName, bySha, opSecrets, pluginPass,
                   setObject, setDirty, setPass, gwDirty, gateway>>

\* The cluster-default list changes, also to or from one that does not parse, which
\* counts as empty.  The plugin controller does not watch it.
EditRevocations(list) ==
    /\ Happens("revoke")
    /\ list # revoked
    /\ revoked' = list
    /\ throughout' = [p \in Plugins |-> throughout[p] \cap list]
    /\ UNCHANGED <<pluginObject, opSecrets, plugDirty, plugPc, pulling, pulled,
                   setObject, setDirty, setPass, gwDirty, gateway>>

EditEntries(listed) ==
    /\ Happens("entries")
    /\ setPhase \in {"new", "live"}
    /\ listed # entries
    /\ entries' = listed
    /\ setDirty' = TRUE
    /\ gwDirty' = TRUE
    /\ UNCHANGED <<pluginObject, revoked, opSecrets, pluginPass, setPhase, setReady, copies, config,
                   setPass, gateway>>

\* An object without our finalizer disappears at once.
Deleted(ph) == IF ph = "new" THEN "gone" ELSE "deleting"

DeletePlugin(p) ==
    /\ Happens("delete plugin")
    /\ phase[p] \in {"new", "live"}
    /\ phase' = [phase EXCEPT ![p] = Deleted(phase[p])]
    /\ plugDirty' = [plugDirty EXCEPT ![p] = TRUE]
    /\ setDirty' = TRUE
    /\ UNCHANGED <<generation, content, revoked, ready, secretName, bySha, opSecrets, plugPc,
                   pulling, pulled, throughout, setObject, setPass, gwDirty, gateway>>

DeleteSet ==
    /\ Happens("delete set")
    /\ setPhase \in {"new", "live"}
    /\ setPhase' = Deleted(setPhase)
    /\ setDirty' = TRUE
    /\ gwDirty' = TRUE
    /\ UNCHANGED <<pluginObject, revoked, opSecrets, pluginPass, entries, setReady, copies, config,
                   setPass, gateway>>

\* The operator restarts: every pass is forgotten, every object is listed anew.
Crash ==
    /\ Happens("crash")
    /\ plugPc' = [p \in Plugins |-> "idle"]
    /\ pulled' = [p \in Plugins |-> Nothing]
    /\ throughout' = [p \in Plugins |-> {}]
    /\ plugDirty' = [p \in Plugins |-> TRUE]
    /\ setPc' = "idle" /\ todo' = {} /\ resolved' = {} /\ failed' = FALSE /\ setDirty' = TRUE
    /\ gwPc' = "idle" /\ plan' = {} /\ gwDirty' = TRUE
    /\ UNCHANGED <<pluginObject, revoked, opSecrets, pulling, setObject, mounted>>

\* Nothing is left to do.  A resync takes minutes and a pass seconds, so it finds
\* the controllers at rest.
PluginRests(p) == plugPc[p] = "idle" /\ (phase[p] = "gone" \/ ~ plugDirty[p])
SetRests == setPc = "idle" /\ (setPhase = "gone" \/ ~ setDirty)
Quiet == (\A p \in Plugins : PluginRests(p)) /\ SetRests /\ gwPc = "idle" /\ ~ gwDirty

ResyncPlugin(p) ==
    /\ Quiet
    /\ phase[p] = "live"
    /\ plugDirty' = [plugDirty EXCEPT ![p] = TRUE]
    /\ UNCHANGED <<pluginObject, revoked, opSecrets, plugPc, pulling, pulled, throughout,
                   setObject, setDirty, setPass, gwDirty, gateway, happened>>

ResyncSet ==
    /\ Quiet
    /\ setPhase = "live"
    /\ setDirty' = TRUE
    /\ UNCHANGED <<pluginObject, revoked, opSecrets, pluginPass, setObject, setPass, gwDirty, gateway,
                   happened>>

ResyncGateway ==
    /\ Quiet
    /\ gwDirty' = TRUE
    /\ UNCHANGED <<pluginObject, revoked, opSecrets, pluginPass, setObject, setDirty, setPass, gateway,
                   happened>>

-----------------------------------------------------------------------------
(* The specification *)

UserStep ==
    \/ \E p \in Plugins : EditPlugin(p) \/ DeletePlugin(p)
    \/ \E p \in Plugins, g \in Generations, a \in Artefacts : Repush(p, g, a)
    \/ \E list \in SUBSET Artefacts : EditRevocations(list)
    \/ \E listed \in SUBSET Plugins : EditEntries(listed)
    \/ DeleteSet

Resync == ResyncSet \/ ResyncGateway \/ \E p \in Plugins : ResyncPlugin(p)

Next ==
    \/ \E p \in Plugins : PluginStep(p) \/ PluginFault(p)
    \/ SetStep \/ SetFault \/ CollectGarbage
    \/ GatewayStep \/ GatewayErrs
    \/ UserStep \/ Crash \/ Resync

Spec == Init /\ [][Next]_vars

\* kube-runtime runs every pass it has scheduled, and every requeue comes due.
Fairness ==
    /\ \A p \in Plugins : WF_vars(PluginStep(p)) /\ SF_vars(ResyncPlugin(p))
    /\ WF_vars(SetStep)
    /\ WF_vars(GatewayStep)
    /\ WF_vars(CollectGarbage)
    /\ SF_vars(ResyncSet)

FairSpec == Spec /\ Fairness

-----------------------------------------------------------------------------
(* Properties *)

\* "Pulls, verifies, materialises": whatever the registry serves and whoever crashes
\* in between, no gateway mounts bytes that did not pass every trust gate.
OnlyVerifiedMounted == mounted \subseteq Plugins \X Genuine

\* "A fresh revocation blocks the very next reconcile" (README, Plugin trust): a pass
\* that began with an artefact on the list, where it stayed, never stores it.
RevokedNeverStored ==
    \A p \in Plugins : plugPc[p] \in {"store", "report"} => pulled[p] \notin throughout[p]

\* The order copy, render, prune of the set controller: the resolved ConfigMap never
\* names a Secret that is missing from the namespace, wherever a pass breaks off.
ConfigRefsExist == config \subseteq copies

\* As long as no request fails, no resync is needed to finish what an event began: at
\* rest, the namespace holds exactly the Secrets of entries that resolve now, the set
\* is Ready exactly when they all do, and the gateway mounts them exactly then.
AtRestConsistent ==
    LET resolvable == {p \in entries : Resolvable(p)}
    IN  Quiet /\ setPhase = "live" /\ ~ happened.erred =>
          /\ config = {<<p, secretName[p]>> : p \in resolvable}
          /\ copies = config
          /\ setReady <=> resolvable = entries
          /\ mounted = IF setReady THEN config ELSE {}

\* What makes OnlyVerifiedMounted inductive: only verified artefacts are stored, and
\* every reference on the way to the gateway is to a stored Secret.
TrustInv ==
    /\ opSecrets \subseteq Plugins \X Genuine
    /\ \A p \in Plugins :
          /\ plugPc[p] \in {"store", "report"} => pulled[p] \in Genuine
          /\ plugPc[p] = "report" => <<p, pulled[p]>> \in opSecrets
          /\ secretName[p] # Nothing => <<p, secretName[p]>> \in opSecrets
    /\ resolved \subseteq opSecrets
    /\ config \subseteq opSecrets
    /\ plan \subseteq opSecrets
    /\ mounted \subseteq opSecrets

\* What makes ConfigRefsExist inductive: how far a pass over the set has come.
MaterialisedInv ==
    /\ ConfigRefsExist
    /\ setPhase \in {"new", "gone"} => setPc = "idle"
    /\ setPc = "copy" => \A s \in resolved : s[1] \in todo \/ s \in copies
    /\ setPc = "prune" => config = resolved

\* What makes RevokedNeverStored inductive.
RevocationInv == RevokedNeverStored /\ \A p \in Plugins : throughout[p] \subseteq revoked

\* A plugin whose artefact stays revoked is eventually unmounted for good.
RevokedUnmounted ==
    \A p \in Plugins, a \in Artefacts :
        <>[](a \in revoked) => <>[](<<p, a>> \notin mounted)

Healthy ==
    /\ setPhase = "live"
    /\ \A p \in entries : /\ phase[p] = "live"
                          /\ content[p][generation[p]] \in Genuine \ revoked

\* Once every listed plugin is sound, the gateway mounts what their images serve,
\* again and again, after any finite number of faults.
HealthyMounted ==
    <>[]Healthy => []<>(mounted = {<<p, content[p][generation[p]]>> : p \in entries})

\* A Deployment may name a Secret that has just been pruned, never for long.
DanglingMountsHeal == []<>(mounted \subseteq copies)
=============================================================================
