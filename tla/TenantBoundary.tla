--------------------------- MODULE TenantBoundary ---------------------------
(***************************************************************************)
(* The boundary an MCPGTenant draws around its namespaces.                 *)
(*                                                                         *)
(*   controllers/tenant.rs      binds each declared namespace: RoleBinding *)
(*                              label, ResourceQuota; tears them down when *)
(*                              the tenant is deleted;                     *)
(*   admission/validators       keep two tenants from claiming one         *)
(*                              namespace;                                 *)
(*   admission/tenant_guard.rs  refuses gateways above the replica cap and *)
(*                              plugin sets outside the allowlist.         *)
(*                                                                         *)
(* Admission judges every write of an object, the finalizer patches of the *)
(* operator too, against the tenants as they are at that moment.           *)
(***************************************************************************)
EXTENDS Naturals, FiniteSets

CONSTANTS
    Tenants,         \* MCPGTenant names
    Namespaces,
    Hosts,           \* the namespaces that may hold a governed object, one each
    TenantSpecs,     \* the specs users may submit for a tenant
    WorkloadSpecs,   \* and for a gateway or a plugin set
    BoundaryEvents,  \* which of BoundaryEventKinds may happen
    MaxBoundaryEvents,
    NoTenant         \* labels no namespace

BoundaryEventKinds == {"edit tenant", "delete tenant", "namespace", "edit workload",
                       "delete workload", "crash", "error"}

\* spec.namespaces; whether spec.quotas declares a count; maxReplicasPerGateway (2
\* where there is none); the plugins allowedPlugins matches; whether the rest of the
\* spec is well formed.
Plugins == {"listed", "unlisted"}
TenantSpecType ==
    [namespaces : SUBSET Namespaces, counts : BOOLEAN, cap : 1 .. 2,
     allowed : SUBSET Plugins, tidy : BOOLEAN]

\* A gateway has an effective replica ceiling, a plugin set refers to plugins.
WorkloadSpecType ==
    [kind : {"gateway"}, ceiling : 1 .. 2, tidy : BOOLEAN]
        \cup [kind : {"plugin set"}, uses : SUBSET Plugins, tidy : BOOLEAN]

ASSUME BoundaryAssumption ==
    /\ TenantSpecs \subseteq TenantSpecType /\ TenantSpecs # {}
    /\ WorkloadSpecs \subseteq WorkloadSpecType /\ WorkloadSpecs # {}
    /\ Hosts \subseteq Namespaces
    /\ NoTenant \notin Tenants
    /\ BoundaryEvents \subseteq BoundaryEventKinds
    /\ MaxBoundaryEvents \in Nat

VARIABLES
    tenant,      \* each MCPGTenant: phase, spec, condition Ready is True
    review,      \* the write of a tenant that admission has allowed and the apiserver
                 \* has not stored yet
    tnDirty, tnPass,
    exists,      \* the namespaces that exist
    label,       \* mcpg.dev/tenant of each namespace
    quotas,      \* the ResourceQuotas of each namespace, by the tenant they are named for
    bindings,    \* namespaces with the Secret-write RoleBinding
    work,        \* the governed object of each host: phase and spec
    wkDirty,
    happened,    \* events so far
    \* History, read by properties only:
    raced,       \* pairs of tenants whose reviews overlapped, or that no list has compared
    abandoned    \* <<tenant, namespace>> a tenant stopped listing or could not tear down

boundaryVars == <<tenant, review, tnDirty, tnPass, exists, label, quotas, bindings,
                  work, wkDirty, happened, raced, abandoned>>

-----------------------------------------------------------------------------
(* Types *)

LifePhases == {"absent", "new", "live", "deleting"}   \* "live": has our finalizer
NoReview   == [open |-> FALSE, creates |-> FALSE, spec |-> CHOOSE s \in TenantSpecs : TRUE]
TenantIdle == [pc |-> "idle", spec |-> NoReview.spec, todo |-> {}, complete |-> TRUE]

TenantType == [phase : LifePhases, spec : TenantSpecs, ready : BOOLEAN]
ReviewType == [open : BOOLEAN, creates : BOOLEAN, spec : TenantSpecs]
PassType   == [pc : {"idle", "bind", "teardown"}, spec : TenantSpecs,
               todo : SUBSET Namespaces, complete : BOOLEAN]
WorkType   == [phase : LifePhases, spec : WorkloadSpecs]

\* Every variable keeps its type.
BoundaryTypeOK ==
    /\ tenant \in [Tenants -> TenantType]
    /\ review \in [Tenants -> ReviewType]
    /\ tnDirty \in [Tenants -> BOOLEAN]
    /\ tnPass \in [Tenants -> PassType]
    /\ exists \subseteq Namespaces
    /\ label \in [Namespaces -> Tenants \cup {NoTenant}]
    /\ quotas \in [Namespaces -> SUBSET Tenants]
    /\ bindings \subseteq Namespaces
    /\ work \in [Hosts -> WorkType]
    /\ wkDirty \in [Hosts -> BOOLEAN]
    /\ happened \in 0 .. MaxBoundaryEvents

BoundaryInit ==
    /\ tenant = [t \in Tenants |-> [phase |-> "absent", spec |-> NoReview.spec, ready |-> FALSE]]
    /\ review = [t \in Tenants |-> NoReview]
    /\ tnDirty = [t \in Tenants |-> FALSE]
    /\ tnPass = [t \in Tenants |-> TenantIdle]
    /\ exists = Namespaces
    /\ label = [n \in Namespaces |-> NoTenant]
    /\ quotas = [n \in Namespaces |-> {}]
    /\ bindings = {}
    /\ work = [n \in Hosts |-> [phase |-> "absent", spec |-> CHOOSE w \in WorkloadSpecs : TRUE]]
    /\ wkDirty = [n \in Hosts |-> FALSE]
    /\ happened = 0
    /\ raced = {}
    /\ abandoned = {}

Happens(kind) ==
    /\ kind \in BoundaryEvents
    /\ happened < MaxBoundaryEvents
    /\ happened' = happened + 1

-----------------------------------------------------------------------------
(* Admission *)

Owns(t, n) == tenant[t].phase # "absent" /\ n \in tenant[t].spec.namespaces

\* validate_spec of the tenant webhook.
ValidateTenant(s) == s.namespaces # {} /\ s.tidy

\* Mutant of CheckNamespaceExclusivity: a tenant on its way out no longer counts.
CheckLivingExclusivity(t, s) ==
    \A u \in Tenants \ {t} :
        tenant[u].phase # "deleting" => \A n \in s.namespaces : ~ Owns(u, n)

\* check_namespace_exclusivity, over the tenants listed now.
CheckNamespaceExclusivity(t, s) == \A u \in Tenants \ {t}, n \in s.namespaces : ~ Owns(u, n)

AdmitTenant(t, s) == ValidateTenant(s) /\ CheckNamespaceExclusivity(t, s)

EnforceReplicaCap(t, w) == w.ceiling <= tenant[t].spec.cap
EnforceAllowlist(t, w)  == w.uses \subseteq tenant[t].spec.allowed

\* The webhooks of gateway and plugin set.  owning_tenant takes the first tenant of the
\* list that owns the namespace; a namespace without one is unconstrained.
AdmitWorkload(n, w) ==
    LET owners == {t \in Tenants : Owns(t, n)}
    IN  /\ w.tidy
        /\ \/ owners = {}
           \/ \E t \in owners : IF w.kind = "gateway" THEN EnforceReplicaCap(t, w)
                                                      ELSE EnforceAllowlist(t, w)

\* Whoever is judged while another verdict waits to be stored has not been compared with it.
Overtaking(t) == {{t, u} : u \in {v \in Tenants \ {t} : review[v].open}}

\* A user submits a tenant.  It is admitted without a comparison when the list fails.
JudgeTenant(t, s) ==
    /\ ~ review[t].open
    /\ CASE tenant[t].phase = "absent" -> UNCHANGED happened
         [] OTHER -> s # tenant[t].spec /\ Happens("edit tenant")
    /\ AdmitTenant(t, s)
    /\ raced' = raced \cup Overtaking(t)
    /\ review' = [review EXCEPT ![t] = [open |-> TRUE, creates |-> tenant[t].phase = "absent",
                                        spec |-> s]]
    /\ UNCHANGED <<tenant, tnDirty, tnPass, exists, label, quotas, bindings, work, wkDirty,
                   abandoned>>

JudgeTenantBlindly(t, s) ==
    /\ ~ review[t].open
    /\ tenant[t].phase = "absent"
    /\ Happens("error")
    /\ ValidateTenant(s)
    /\ raced' = raced \cup {{t, u} : u \in Tenants \ {t}}
    /\ review' = [review EXCEPT ![t] = [open |-> TRUE, creates |-> TRUE, spec |-> s]]
    /\ UNCHANGED <<tenant, tnDirty, tnPass, exists, label, quotas, bindings, work, wkDirty,
                   abandoned>>

\* The apiserver stores what was admitted, unless the object has come or gone meanwhile.
StoreTenant(t) ==
    /\ review[t].open
    /\ review' = [review EXCEPT ![t] = NoReview]
    /\ IF review[t].creates <=> tenant[t].phase = "absent"
       THEN /\ tenant' = [tenant EXCEPT ![t].spec = review[t].spec,
                            ![t].phase = IF @ = "absent" THEN "new" ELSE @]
            /\ tnDirty' = [tnDirty EXCEPT ![t] = TRUE]
            /\ abandoned' = IF review[t].creates THEN abandoned
                            ELSE abandoned \cup {<<t, n>> : n \in tenant[t].spec.namespaces
                                                                  \ review[t].spec.namespaces}
       ELSE UNCHANGED <<tenant, tnDirty, abandoned>>
    /\ UNCHANGED <<tnPass, exists, label, quotas, bindings, work, wkDirty, happened, raced>>

-----------------------------------------------------------------------------
(* The tenant controller *)

Ended(t) == tnPass' = [tnPass EXCEPT ![t] = TenantIdle]

BoundaryFrame == UNCHANGED <<review, exists, work, wkDirty, raced>>

\* ensure_finalizer: a no-op on an object that has the finalizer.
EnsureFinalizer(phase) == IF phase = "new" THEN "live" ELSE phase

\* What binding a namespace writes: the Secret-write RoleBinding, the label, and a quota
\* under the tenant's name, which goes when the tenant declares no count.
EnsureTenantSecretBinding(n)  == bindings \cup {n}
EnsureNamespaceLabel(t, n)    == [label EXCEPT ![n] = t]
EnsureResourceQuota(t, n, s)  == [quotas EXCEPT ![n] = IF s.counts THEN @ \cup {t} ELSE @ \ {t}]

\* reconcile_inner: the deletion branch, or ensure_finalizer, which admission judges
\* like any other write.
BeginTenant(t) ==
    /\ tnDirty[t] /\ tnPass[t].pc = "idle"
    /\ tenant[t].phase # "absent"
    /\ tenant[t].phase = "new" => AdmitTenant(t, tenant[t].spec)
    /\ tnDirty' = [tnDirty EXCEPT ![t] = FALSE]
    /\ tenant' = [tenant EXCEPT ![t].phase = EnsureFinalizer(@)]
    /\ tnPass' = [tnPass EXCEPT ![t] =
                    [pc |-> IF tenant[t].phase = "deleting" THEN "teardown" ELSE "bind",
                     spec |-> tenant[t].spec, todo |-> tenant[t].spec.namespaces,
                     complete |-> TRUE]]
    /\ BoundaryFrame
    /\ UNCHANGED <<label, quotas, bindings, happened, abandoned>>

\* A finalizer patch that admission refuses is retried with a growing delay, and leaves
\* everything as it is.
RefusedTenant(t) ==
    /\ tnDirty[t] /\ tnPass[t].pc = "idle"
    /\ tenant[t].phase = "new" /\ ~ AdmitTenant(t, tenant[t].spec)
    /\ UNCHANGED boundaryVars

\* Mutant of BindNamespace: a quota that is no longer declared is left behind.
BindNamespaceAddingOnly(t, n) ==
    /\ tnPass[t].pc = "bind" /\ n \in tnPass[t].todo
    /\ tnPass' = [tnPass EXCEPT ![t].todo = @ \ {n}, ![t].complete = @ /\ n \in exists]
    /\ IF n \notin exists THEN UNCHANGED <<label, quotas, bindings>> ELSE
       /\ bindings' = bindings \cup {n}
       /\ label' = [label EXCEPT ![n] = t]
       /\ quotas' = [quotas EXCEPT ![n] = IF tnPass[t].spec.counts THEN @ \cup {t} ELSE @]
    /\ BoundaryFrame
    /\ UNCHANGED <<tenant, tnDirty, happened, abandoned>>

\* One declared namespace.  A missing one is skipped, a failed write is logged.
BindNamespace(t, n) ==
    /\ tnPass[t].pc = "bind" /\ n \in tnPass[t].todo
    /\ tnPass' = [tnPass EXCEPT ![t].todo = @ \ {n}, ![t].complete = @ /\ n \in exists]
    /\ LET bound    == EnsureTenantSecretBinding(n)
           labelled == EnsureNamespaceLabel(t, n)
           capped   == EnsureResourceQuota(t, n, tnPass[t].spec)
       IN  \/ /\ n \notin exists
              /\ UNCHANGED <<label, quotas, bindings, happened>>
           \/ /\ n \in exists
              /\ bindings' = bound /\ label' = labelled /\ quotas' = capped
              /\ UNCHANGED happened
           \/ /\ n \in exists
              /\ Happens("error")
              /\ bindings' \in {bindings, bound}
              /\ label' \in {label, labelled}
              /\ quotas' \in {quotas, capped}
    /\ BoundaryFrame
    /\ UNCHANGED <<tenant, tnDirty, abandoned>>

\* count_resources, the conditions and the status, best-effort.  Ready says that every
\* namespace was there, not that its writes succeeded.
ReportTenant(t) ==
    /\ tnPass[t].pc = "bind" /\ tnPass[t].todo = {}
    /\ \/ /\ tenant' = [tenant EXCEPT ![t].ready = tnPass[t].complete]
          /\ UNCHANGED happened
       \/ Happens("error") /\ UNCHANGED tenant
    /\ Ended(t)
    /\ BoundaryFrame
    /\ UNCHANGED <<tnDirty, label, quotas, bindings, abandoned>>

\* Mutant of TeardownNamespace: the label is emptied instead of removed.
TeardownNamespaceBlank(t, n) ==
    /\ tnPass[t].pc = "teardown" /\ n \in tnPass[t].todo
    /\ tnPass' = [tnPass EXCEPT ![t].todo = @ \ {n}]
    /\ label' = [label EXCEPT ![n] = "blank"]
    /\ quotas' = [quotas EXCEPT ![n] = @ \ {t}]
    /\ BoundaryFrame
    /\ UNCHANGED <<tenant, tnDirty, bindings, happened, abandoned>>

\* teardown_namespace: both writes are tried once.  The label goes whichever tenant it
\* names, for all tenants write it under one field manager.  The RoleBinding stays.
TeardownNamespace(t, n) ==
    /\ tnPass[t].pc = "teardown" /\ n \in tnPass[t].todo
    /\ tnPass' = [tnPass EXCEPT ![t].todo = @ \ {n}]
    /\ LET bare   == [label EXCEPT ![n] = NoTenant]
           lifted == [quotas EXCEPT ![n] = @ \ {t}]
       IN  \/ /\ quotas' = lifted /\ label' = bare
              /\ UNCHANGED <<happened, abandoned>>
           \/ /\ Happens("error")
              /\ quotas' \in {quotas, lifted} /\ label' \in {label, bare}
              /\ abandoned' = abandoned \cup {<<t, n>>}
    /\ BoundaryFrame
    /\ UNCHANGED <<tenant, tnDirty, bindings>>

\* Mutant of ReleaseTenant: the finalizer goes before the namespaces are clean.
ReleaseTenantEarly(t) ==
    /\ tnPass[t].pc = "teardown"
    /\ AdmitTenant(t, tenant[t].spec)
    /\ tenant' = [tenant EXCEPT ![t].phase = "absent", ![t].ready = FALSE]
    /\ tnDirty' = [tnDirty EXCEPT ![t] = FALSE]
    /\ Ended(t)
    /\ BoundaryFrame
    /\ UNCHANGED <<label, quotas, bindings, happened, abandoned>>

\* remove_finalizer; a refusal of admission ends the pass through error_policy.
ReleaseTenant(t) ==
    /\ tnPass[t].pc = "teardown" /\ tnPass[t].todo = {}
    /\ Ended(t)
    /\ IF AdmitTenant(t, tenant[t].spec)
       THEN /\ tenant' = [tenant EXCEPT ![t].phase = "absent", ![t].ready = FALSE]
            /\ tnDirty' = [tnDirty EXCEPT ![t] = FALSE]
       ELSE /\ tnDirty' = [tnDirty EXCEPT ![t] = TRUE]
            /\ UNCHANGED tenant
    /\ BoundaryFrame
    /\ UNCHANGED <<label, quotas, bindings, happened, abandoned>>

\* Any other apiserver error.
TenantPassErrs(t) ==
    /\ tnPass[t].pc # "idle"
    /\ Happens("error")
    /\ Ended(t)
    /\ tnDirty' = [tnDirty EXCEPT ![t] = TRUE]
    /\ BoundaryFrame
    /\ UNCHANGED <<tenant, label, quotas, bindings, abandoned>>

TenantStep(t) ==
    \/ BeginTenant(t) \/ RefusedTenant(t) \/ ReportTenant(t) \/ ReleaseTenant(t)
    \/ \E n \in Namespaces : BindNamespace(t, n) \/ TeardownNamespace(t, n)

\* Only the resync looks at the namespaces again: they are not watched.
ResyncTenant(t) ==
    /\ tenant[t].phase # "absent"
    /\ tnPass[t].pc = "idle" /\ ~ tnDirty[t]
    /\ tnDirty' = [tnDirty EXCEPT ![t] = TRUE]
    /\ BoundaryFrame
    /\ UNCHANGED <<tenant, tnPass, label, quotas, bindings, happened, abandoned>>

-----------------------------------------------------------------------------
(* Governed objects, users and the cluster *)

WorkFrame == UNCHANGED <<tenant, review, tnDirty, tnPass, exists, label, quotas, bindings,
                         raced, abandoned>>

\* Mutant of PassWorkload: a refused finalizer patch is not tried again.
PassWorkloadOnce(n) ==
    /\ wkDirty[n]
    /\ wkDirty' = [wkDirty EXCEPT ![n] = FALSE]
    /\ work' = IF AdmitWorkload(n, work[n].spec)
               THEN [work EXCEPT ![n].phase = IF @ = "deleting" THEN "absent" ELSE "live"]
               ELSE work
    /\ WorkFrame
    /\ UNCHANGED happened

\* What a pass of the gateway or plugin-set controller does to its object: it adds the
\* finalizer, or releases it.  Admission judges that write too, and a refusal is retried.
PassWorkload(n) ==
    /\ wkDirty[n]
    /\ IF work[n].phase = "live" \/ AdmitWorkload(n, work[n].spec)
       THEN /\ work' = [work EXCEPT ![n].phase = IF @ = "deleting" THEN "absent" ELSE "live"]
            /\ wkDirty' = [wkDirty EXCEPT ![n] = FALSE]
       ELSE UNCHANGED <<work, wkDirty>>
    /\ WorkFrame
    /\ UNCHANGED happened

\* A tenant that is edited between the verdict on an object and its storage might as well
\* be edited just after, for no verdict on a tenant looks at these objects.
SubmitWorkload(n, w) ==
    /\ n \in exists
    /\ work[n].phase # "deleting"
    /\ w # work[n].spec \/ work[n].phase = "absent"
    /\ \/ AdmitWorkload(n, w) /\ work[n].phase = "absent" /\ UNCHANGED happened
       \/ AdmitWorkload(n, w) /\ work[n].phase # "absent" /\ Happens("edit workload")
       \/ w.tidy /\ Happens("error")                  \* the list of tenants failed
    /\ work' = [work EXCEPT ![n] = [phase |-> IF work[n].phase = "absent" THEN "new" ELSE @.phase,
                                    spec |-> w]]
    /\ wkDirty' = [wkDirty EXCEPT ![n] = TRUE]
    /\ WorkFrame

DeleteWorkload(n) ==
    /\ work[n].phase = "live"
    /\ Happens("delete workload")
    /\ work' = [work EXCEPT ![n].phase = "deleting"]
    /\ wkDirty' = [wkDirty EXCEPT ![n] = TRUE]
    /\ WorkFrame

DeleteTenant(t) ==
    /\ tenant[t].phase = "live"
    /\ Happens("delete tenant")
    /\ tenant' = [tenant EXCEPT ![t].phase = "deleting"]
    /\ tnDirty' = [tnDirty EXCEPT ![t] = TRUE]
    /\ UNCHANGED <<review, tnPass, exists, label, quotas, bindings, work, wkDirty, raced, abandoned>>

\* A namespace goes with everything in it, or is created anew.
ToggleNamespace(n) ==
    /\ Happens("namespace")
    /\ n \in Hosts => work[n].phase = "absent"
    /\ IF n \in exists
       THEN /\ exists' = exists \ {n}
            /\ label' = [label EXCEPT ![n] = NoTenant]
            /\ quotas' = [quotas EXCEPT ![n] = {}]
            /\ bindings' = bindings \ {n}
       ELSE /\ exists' = exists \cup {n}
            /\ UNCHANGED <<label, quotas, bindings>>
    /\ UNCHANGED <<tenant, review, tnDirty, tnPass, work, wkDirty, raced, abandoned>>

\* The operator restarts and lists every object anew.
BoundaryCrash ==
    /\ Happens("crash")
    /\ tnPass' = [t \in Tenants |-> TenantIdle]
    /\ tnDirty' = [t \in Tenants |-> tenant[t].phase # "absent"]
    /\ wkDirty' = [n \in Hosts |-> work[n].phase # "absent"]
    /\ UNCHANGED <<tenant, review, exists, label, quotas, bindings, work, raced, abandoned>>

-----------------------------------------------------------------------------
(* The specification *)

BoundaryNext ==
    \/ \E t \in Tenants :
          \/ \E s \in TenantSpecs : JudgeTenant(t, s) \/ JudgeTenantBlindly(t, s)
          \/ StoreTenant(t) \/ DeleteTenant(t)
          \/ TenantStep(t) \/ TenantPassErrs(t) \/ ResyncTenant(t)
    \/ \E n \in Hosts :
          \/ \E w \in WorkloadSpecs : SubmitWorkload(n, w)
          \/ DeleteWorkload(n) \/ PassWorkload(n)
    \/ \E n \in Namespaces : ToggleNamespace(n)
    \/ BoundaryCrash

BoundarySpec == BoundaryInit /\ [][BoundaryNext]_boundaryVars

\* kube-runtime runs what is scheduled and retries what failed; resyncs come due.
BoundaryFairness ==
    /\ \A t \in Tenants : WF_boundaryVars(TenantStep(t)) /\ WF_boundaryVars(ResyncTenant(t))
    /\ \A n \in Hosts : WF_boundaryVars(PassWorkload(n))

BoundaryFairSpec == BoundarySpec /\ BoundaryFairness

-----------------------------------------------------------------------------
(* Properties *)

\* "A namespace belongs to at most one tenant" (validators/tenant.rs), as far as a list
\* before the write can see to it: two tenants share a namespace only if their reviews
\* overlapped or a list failed.
SharedOnlyByRace ==
    \A t, u \in Tenants, n \in Namespaces :
        t # u /\ Owns(t, n) /\ Owns(u, n) => {t, u} \in raced

\* What a deleted tenant wrote into its namespaces is gone, whatever passes, restarts
\* and other tenants came between, unless it stopped listing the namespace earlier or a
\* write of the teardown failed.
TeardownLeavesNothing ==
    \A t \in Tenants, n \in Namespaces :
        /\ tenant[t].phase = "absent"
        /\ label[n] = t \/ t \in quotas[n]
        => <<t, n>> \in abandoned

Alone(t) ==
    /\ tenant[t].phase \in {"new", "live"}
    /\ tenant[t].spec.namespaces \subseteq exists
    /\ \A u \in Tenants \ {t}, n \in tenant[t].spec.namespaces : ~ Owns(u, n)

\* A tenant that nobody disputes its namespaces becomes Ready, and they carry its label,
\* the RoleBinding, and its quota exactly when it declares one, whatever stale passes and
\* teardowns of other tenants wrote there meanwhile.
UndisputedIsBound ==
    \A t \in Tenants :
        <>[]Alone(t) =>
            <>[](/\ tenant[t].ready
                 /\ \A n \in tenant[t].spec.namespaces :
                       /\ label[n] = t
                       /\ n \in bindings
                       /\ t \in quotas[n] <=> tenant[t].spec.counts)

\* An object that is being deleted goes, once the tenants permit what it already is.
ReleasedOncePermitted ==
    \A n \in Hosts :
        <>[](AdmitWorkload(n, work[n].spec)) =>
            (work[n].phase = "deleting" ~> work[n].phase = "absent")
=============================================================================
