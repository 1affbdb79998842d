------------------------ MODULE TenantBoundaryProofs ------------------------
(***************************************************************************)
(* What the tenant boundary guarantees for every set of tenants,           *)
(* namespaces and specs and every number of events: type correctness, that *)
(* two tenants come to share a namespace only through overlapping reviews  *)
(* or a failed list, that a deleted tenant leaves nothing it was still     *)
(* answerable for, and that no deletion or edit is forgotten.              *)
(***************************************************************************)
EXTENDS TenantBoundary, TLAPS

-----------------------------------------------------------------------------
(* Types *)

\* No review and no pass are records of the right type: some spec can be submitted.
LEMMA RestTypes ==
    /\ NoReview \in ReviewType /\ NoReview.open = FALSE
    /\ TenantIdle \in PassType /\ TenantIdle.pc = "idle" /\ TenantIdle.todo = {}
<1>1. (CHOOSE s \in TenantSpecs : TRUE) \in TenantSpecs
  BY BoundaryAssumption
<1>2. NoReview \in ReviewType /\ NoReview.open = FALSE
  BY <1>1 DEF NoReview, ReviewType
<1> QED BY <1>2 DEF TenantIdle, PassType, ReviewType

\* A spec lists namespaces.
LEMMA SpecNamespaces ==
    ASSUME NEW s \in TenantSpecs
    PROVE  s.namespaces \subseteq Namespaces
BY BoundaryAssumption DEF TenantSpecType

\* An event that happens stays within the bound.
LEMMA HappensType ==
    ASSUME NEW kind, Happens(kind), happened \in 0 .. MaxBoundaryEvents
    PROVE  happened' \in 0 .. MaxBoundaryEvents
BY BoundaryAssumption DEF Happens

\* The specification starts in its types.
LEMMA BoundaryInitTypes == BoundaryInit => BoundaryTypeOK
<1> SUFFICES ASSUME BoundaryInit PROVE BoundaryTypeOK
  OBVIOUS
<1>1. (CHOOSE w \in WorkloadSpecs : TRUE) \in WorkloadSpecs
  BY BoundaryAssumption
<1>2. tenant \in [Tenants -> TenantType] /\ review \in [Tenants -> ReviewType]
      /\ tnPass \in [Tenants -> PassType]
  BY RestTypes DEF BoundaryInit, TenantType, ReviewType, LifePhases
<1>3. work \in [Hosts -> WorkType]
  BY <1>1 DEF BoundaryInit, LifePhases, WorkType
<1>4. tnDirty \in [Tenants -> BOOLEAN] /\ wkDirty \in [Hosts -> BOOLEAN]
  BY DEF BoundaryInit
<1>5. happened \in 0 .. MaxBoundaryEvents
  BY BoundaryAssumption DEF BoundaryInit
<1>6. /\ exists \subseteq Namespaces /\ bindings \subseteq Namespaces
      /\ label \in [Namespaces -> Tenants \cup {NoTenant}]
      /\ quotas \in [Namespaces -> SUBSET Tenants]
  BY DEF BoundaryInit
<1> QED BY <1>2, <1>3, <1>4, <1>5, <1>6
        DEF BoundaryTypeOK

\* Every step of admission, of the controllers and of the cluster keeps the types.
LEMMA BoundaryTypesStep == BoundaryTypeOK /\ [BoundaryNext]_boundaryVars => BoundaryTypeOK'
<1> SUFFICES ASSUME BoundaryTypeOK, [BoundaryNext]_boundaryVars PROVE BoundaryTypeOK'
  OBVIOUS
<1> USE DEF BoundaryTypeOK
<1>1. ASSUME NEW t \in Tenants, NEW s \in TenantSpecs, JudgeTenant(t, s) \/ JudgeTenantBlindly(t, s)
      PROVE  BoundaryTypeOK'
  <2>1. PICK r \in ReviewType : review' = [review EXCEPT ![t] = r]
    BY <1>1 DEF JudgeTenant, JudgeTenantBlindly, ReviewType
  <2>2. happened' \in 0 .. MaxBoundaryEvents
    BY <1>1, HappensType DEF JudgeTenant, JudgeTenantBlindly
  <2> QED BY <1>1, <2>1, <2>2 DEF JudgeTenant, JudgeTenantBlindly
<1>2. ASSUME NEW t \in Tenants, StoreTenant(t) PROVE BoundaryTypeOK'
  <2> DEFINE stored == [tenant[t] EXCEPT !.spec = review[t].spec,
                          !.phase = IF @ = "absent" THEN "new" ELSE @]
  <2>1. stored \in TenantType
    <3>1. review[t].spec \in TenantSpecs /\ tenant[t] \in TenantType
      BY DEF ReviewType
    <3>2. (IF tenant[t].phase = "absent" THEN "new" ELSE tenant[t].phase) \in LifePhases
      BY <3>1 DEF TenantType, LifePhases
    <3> QED BY <3>1, <3>2 DEF TenantType
  <2>2. tenant' = tenant \/ tenant' = [tenant EXCEPT ![t] = stored]
    BY <1>2 DEF StoreTenant
  <2> HIDE DEF stored
  <2>3. tenant' \in [Tenants -> TenantType]
    BY <2>1, <2>2
  <2>4. tnDirty' \in [Tenants -> BOOLEAN]
    BY <1>2 DEF StoreTenant
  <2> QED BY <1>2, <2>3, <2>4, RestTypes DEF StoreTenant
<1>3. ASSUME NEW t \in Tenants, DeleteTenant(t) PROVE BoundaryTypeOK'
  <2>1. [tenant[t] EXCEPT !.phase = "deleting"] \in TenantType
    BY DEF TenantType, LifePhases
  <2>2. tenant' \in [Tenants -> TenantType]
    BY <1>3, <2>1 DEF DeleteTenant
  <2> QED BY <1>3, <2>2, HappensType DEF DeleteTenant
<1>4. ASSUME NEW t \in Tenants, TenantStep(t) \/ TenantPassErrs(t) \/ ResyncTenant(t)
      PROVE  BoundaryTypeOK'
  <2> USE DEF BoundaryFrame, Ended
  <2>1. CASE BeginTenant(t)
    <3>1. [tenant[t] EXCEPT !.phase = EnsureFinalizer(tenant[t].phase)] \in TenantType
      BY DEF TenantType, EnsureFinalizer, LifePhases
    <3>2. tenant' = [tenant EXCEPT ![t] = [tenant[t] EXCEPT !.phase = EnsureFinalizer(tenant[t].phase)]]
      BY <2>1 DEF BeginTenant
    <3>3. PICK pass \in PassType : tnPass' = [tnPass EXCEPT ![t] = pass]
      BY <2>1, SpecNamespaces DEF BeginTenant, PassType, TenantType
    <3>4. tenant' \in [Tenants -> TenantType]
      BY <3>1, <3>2
    <3> QED BY <2>1, <3>3, <3>4, ZenonT(90) DEF BeginTenant
  <2>2. CASE RefusedTenant(t)
    BY <2>2 DEF RefusedTenant, boundaryVars
  <2>3. CASE ReportTenant(t)
    <3>1. [tenant[t] EXCEPT !.ready = tnPass[t].complete] \in TenantType
      BY DEF TenantType, PassType
    <3>2. tenant' \in [Tenants -> TenantType]
      BY <2>3, <3>1 DEF ReportTenant
    <3> QED BY <2>3, <3>2, HappensType, RestTypes DEF ReportTenant
  <2>4. CASE ReleaseTenant(t)
    <3>1. [tenant[t] EXCEPT !.phase = "absent", !.ready = FALSE] \in TenantType
      BY ZenonT(90) DEF TenantType, LifePhases
    <3>2. tenant' = tenant
          \/ tenant' = [tenant EXCEPT ![t] = [tenant[t] EXCEPT !.phase = "absent", !.ready = FALSE]]
      BY <2>4 DEF ReleaseTenant
    <3>3. tenant' \in [Tenants -> TenantType]
      BY <3>1, <3>2
    <3>4. tnDirty' \in [Tenants -> BOOLEAN]
      BY <2>4 DEF ReleaseTenant
    <3> QED BY <2>4, <3>3, <3>4, RestTypes DEF ReleaseTenant
  <2>5. ASSUME NEW n \in Namespaces, BindNamespace(t, n) PROVE BoundaryTypeOK'
    <3>1. [tnPass[t] EXCEPT !.todo = @ \ {n}, !.complete = @ /\ n \in exists] \in PassType
      BY ZenonT(90) DEF PassType
    <3>2. tnPass' = [tnPass EXCEPT ![t] =
                       [tnPass[t] EXCEPT !.todo = @ \ {n}, !.complete = @ /\ n \in exists]]
      BY <2>5 DEF BindNamespace
    <3>3. tnPass' \in [Tenants -> PassType]
      BY <3>1, <3>2
    <3>4. /\ EnsureTenantSecretBinding(n) \subseteq Namespaces
          /\ EnsureNamespaceLabel(t, n) \in [Namespaces -> Tenants \cup {NoTenant}]
          /\ EnsureResourceQuota(t, n, tnPass[t].spec) \in [Namespaces -> SUBSET Tenants]
      BY DEF EnsureTenantSecretBinding, EnsureNamespaceLabel, EnsureResourceQuota
    <3>5. /\ bindings' \subseteq Namespaces
          /\ label' \in [Namespaces -> Tenants \cup {NoTenant}]
          /\ quotas' \in [Namespaces -> SUBSET Tenants]
          /\ happened' \in 0 .. MaxBoundaryEvents
      BY <2>5, <3>4, HappensType DEF BindNamespace
    <3> QED BY <2>5, <3>3, <3>5 DEF BindNamespace
  <2>6. ASSUME NEW n \in Namespaces, TeardownNamespace(t, n) PROVE BoundaryTypeOK'
    <3>1. [tnPass[t] EXCEPT !.todo = @ \ {n}] \in PassType
      BY DEF PassType
    <3>2. tnPass' \in [Tenants -> PassType]
      BY <2>6, <3>1 DEF TeardownNamespace
    <3>3. /\ [label EXCEPT ![n] = NoTenant] \in [Namespaces -> Tenants \cup {NoTenant}]
          /\ [quotas EXCEPT ![n] = @ \ {t}] \in [Namespaces -> SUBSET Tenants]
      OBVIOUS
    <3>4. /\ label' \in [Namespaces -> Tenants \cup {NoTenant}]
          /\ quotas' \in [Namespaces -> SUBSET Tenants]
      BY <2>6, <3>3, Zenon DEF TeardownNamespace
    <3>5. happened' \in 0 .. MaxBoundaryEvents
      BY <2>6, HappensType DEF TeardownNamespace
    <3> QED BY <2>6, <3>2, <3>4, <3>5 DEF TeardownNamespace
  <2>7. CASE TenantPassErrs(t)
    BY <2>7, HappensType, RestTypes DEF TenantPassErrs
  <2>8. CASE ResyncTenant(t)
    BY <2>8 DEF ResyncTenant
  <2> QED BY <1>4, <2>1, <2>2, <2>3, <2>4, <2>5, <2>6, <2>7, <2>8 DEF TenantStep
<1>5. ASSUME NEW n \in Hosts, NEW w \in WorkloadSpecs, SubmitWorkload(n, w) PROVE BoundaryTypeOK'
  <2>1. PICK stored \in WorkType : work' = [work EXCEPT ![n] = stored]
    BY <1>5 DEF SubmitWorkload, WorkType, LifePhases
  <2>2. wkDirty' \in [Hosts -> BOOLEAN]
    BY <1>5 DEF SubmitWorkload
  <2> QED BY <1>5, <2>1, <2>2, HappensType, ZenonT(90) DEF SubmitWorkload, WorkFrame
<1>6. ASSUME NEW n \in Hosts, DeleteWorkload(n) \/ PassWorkload(n) PROVE BoundaryTypeOK'
  <2>1. \A phase \in LifePhases : [work[n] EXCEPT !.phase = phase] \in WorkType
    BY DEF WorkType
  <2>2. work' = work
        \/ \E phase \in LifePhases : work' = [work EXCEPT ![n] = [work[n] EXCEPT !.phase = phase]]
    BY <1>6 DEF DeleteWorkload, PassWorkload, LifePhases
  <2>3. work' \in [Hosts -> WorkType]
    BY <2>1, <2>2
  <2>4. wkDirty' \in [Hosts -> BOOLEAN]
    BY <1>6 DEF DeleteWorkload, PassWorkload
  <2> QED BY <1>6, <2>3, <2>4, HappensType DEF DeleteWorkload, PassWorkload, WorkFrame
<1>7. ASSUME NEW n \in Namespaces, ToggleNamespace(n) PROVE BoundaryTypeOK'
  <2>1. /\ exists' \subseteq Namespaces /\ bindings' \subseteq Namespaces
        /\ label' \in [Namespaces -> Tenants \cup {NoTenant}]
    BY <1>7 DEF ToggleNamespace
  <2>2. quotas' \in [Namespaces -> SUBSET Tenants]
    BY <1>7 DEF ToggleNamespace
  <2> QED BY <1>7, <2>1, <2>2, HappensType DEF ToggleNamespace
<1>8. CASE BoundaryCrash
  BY <1>8, HappensType, RestTypes DEF BoundaryCrash
<1>9. CASE UNCHANGED boundaryVars
  BY <1>9 DEF boundaryVars
<1> QED BY <1>1, <1>2, <1>3, <1>4, <1>5, <1>6, <1>7, <1>8, <1>9 DEF BoundaryNext

\* Admission, the tenant controller and the governed objects keep their types, for any
\* tenants, namespaces and specs.
THEOREM BoundaryTypeCorrect == BoundarySpec => []BoundaryTypeOK
BY BoundaryInitTypes, BoundaryTypesStep, PTL DEF BoundarySpec

-----------------------------------------------------------------------------
(* Namespaces are shared only through a race *)

\* Two tenants whose verdicts have always been compared: at most one of them waits to be
\* stored, it does not ask for what the other owns, and what they own is disjoint.
ComparedApart ==
    \A t, u \in Tenants :
        t # u /\ {t, u} \notin raced =>
            /\ ~ (review[t].open /\ review[u].open)
            /\ \A n \in Namespaces : ~ (Owns(t, n) /\ Owns(u, n))
            /\ review[t].open => \A n \in review[t].spec.namespaces : ~ Owns(u, n)

\* The apiserver stores the spec under review, and only where the object is as the review
\* found it.
LEMMA StoredTenant ==
    ASSUME BoundaryTypeOK, NEW t \in Tenants, StoreTenant(t), tenant' # tenant
    PROVE  /\ review[t].creates <=> tenant[t].phase = "absent"
           /\ \E stored : /\ tenant' = [tenant EXCEPT ![t] = stored]
                          /\ stored.spec = review[t].spec
                          /\ stored.phase # "absent"
<1> DEFINE stored == [tenant[t] EXCEPT !.spec = review[t].spec,
                        !.phase = IF @ = "absent" THEN "new" ELSE @]
<1>1. /\ tenant' = [tenant EXCEPT ![t] = stored]
      /\ review[t].creates <=> tenant[t].phase = "absent"
  BY DEF StoreTenant
<1>2. stored.spec = review[t].spec /\ stored.phase # "absent"
  <2>1. tenant[t] \in TenantType
    BY DEF BoundaryTypeOK
  <2> QED BY ONLY <2>1 DEF TenantType
<1> HIDE DEF stored
<1> QED BY <1>1, <1>2

\* Only the storage of an admitted review changes what a tenant owns to its advantage.
LEMMA OwnershipGrows ==
    ASSUME BoundaryTypeOK, [BoundaryNext]_boundaryVars,
           NEW t \in Tenants, NEW n \in Namespaces, Owns(t, n)', ~ Owns(t, n)
    PROVE  StoreTenant(t) /\ n \in review[t].spec.namespaces
<1> USE DEF Owns, BoundaryTypeOK
<1>1. CASE UNCHANGED tenant
  BY <1>1
<1>2. ASSUME NEW u \in Tenants, StoreTenant(u)
      PROVE  StoreTenant(t) /\ n \in review[t].spec.namespaces
  <2>1. PICK stored : /\ tenant' = [tenant EXCEPT ![u] = stored]
                      /\ stored.spec = review[u].spec
    BY <1>2, StoredTenant
  <2> QED BY <1>2, <2>1
<1>3. ASSUME NEW u \in Tenants,
             DeleteTenant(u) \/ BeginTenant(u) \/ ReportTenant(u) \/ ReleaseTenant(u)
      PROVE  FALSE
  <2>1. tenant'[t].spec = tenant[t].spec
        /\ (tenant'[t].phase # "absent" => tenant[t].phase # "absent")
    <3>1. CASE DeleteTenant(u)  BY <3>1 DEF DeleteTenant, TenantType
    <3>2. CASE BeginTenant(u)
      <4>1. PICK phase : tenant' = [tenant EXCEPT ![u] = [tenant[u] EXCEPT !.phase = phase]]
        BY <3>2 DEF BeginTenant
      <4>2. tenant[u].phase # "absent"
        BY <3>2 DEF BeginTenant
      <4> QED BY <4>1, <4>2 DEF TenantType
    <3>3. CASE ReportTenant(u)  BY <3>3 DEF ReportTenant, TenantType
    <3>4. CASE ReleaseTenant(u)
      <4> DEFINE gone == [tenant[u] EXCEPT !.phase = "absent", !.ready = FALSE]
      <4>1. \/ tenant' = tenant
            \/ tenant' = [tenant EXCEPT ![u] = gone]
        BY <3>4 DEF ReleaseTenant
      <4>2. gone.spec = tenant[u].spec /\ gone.phase = "absent"
        <5>1. tenant[u] \in TenantType
          OBVIOUS
        <5> QED BY ONLY <5>1 DEF TenantType
      <4> HIDE DEF gone
      <4> QED BY <4>1, <4>2
    <3> QED BY <1>3, <3>1, <3>2, <3>3, <3>4
  <2> QED BY <2>1
<1> QED BY <1>1, <1>2, <1>3, ZenonT(90)
        DEF BoundaryNext, JudgeTenant, JudgeTenantBlindly, TenantStep, RefusedTenant,
            BindNamespace, TeardownNamespace, TenantPassErrs, ResyncTenant, SubmitWorkload,
            DeleteWorkload, PassWorkload, WorkFrame, ToggleNamespace, BoundaryCrash, boundaryVars

\* Reviews are opened by a verdict, which records whom it overtakes, and closed by the
\* storage.
LEMMA ReviewsChange ==
    ASSUME [BoundaryNext]_boundaryVars
    PROVE  \/ UNCHANGED <<review, raced>>
           \/ \E t \in Tenants : StoreTenant(t)
           \/ \E t \in Tenants, s \in TenantSpecs : JudgeTenant(t, s) \/ JudgeTenantBlindly(t, s)
BY ZenonT(90) DEF BoundaryNext, DeleteTenant, TenantStep, BeginTenant, ReportTenant, ReleaseTenant,
       RefusedTenant, BindNamespace, TeardownNamespace, TenantPassErrs, ResyncTenant,
       BoundaryFrame, SubmitWorkload, DeleteWorkload, PassWorkload, WorkFrame, ToggleNamespace,
       BoundaryCrash, boundaryVars

\* Verdicts that were compared stay apart, whatever is stored and judged in between.
LEMMA ComparedApartStep ==
    BoundaryTypeOK /\ ComparedApart /\ [BoundaryNext]_boundaryVars => ComparedApart'
<1> SUFFICES ASSUME BoundaryTypeOK, ComparedApart, [BoundaryNext]_boundaryVars,
                    NEW t \in Tenants, NEW u \in Tenants, t # u, {t, u} \notin raced'
             PROVE  /\ ~ (review'[t].open /\ review'[u].open)
                    /\ \A n \in Namespaces : ~ (Owns(t, n)' /\ Owns(u, n)')
                    /\ review'[t].open => \A n \in review'[t].spec.namespaces : ~ Owns(u, n)'
  BY DEF ComparedApart
<1> HIDE DEF Owns
<1>0. {t, u} = {u, t}
  OBVIOUS
<1>1. ASSUME NEW v \in Tenants, review'[v].spec \in TenantSpecs
      PROVE  review'[v].spec.namespaces \subseteq Namespaces
  BY <1>1, SpecNamespaces
<1>2. review' \in [Tenants -> ReviewType]
  BY BoundaryTypesStep DEF BoundaryTypeOK
<1>3. ASSUME NEW v \in Tenants PROVE review'[v].spec.namespaces \subseteq Namespaces
  BY <1>1, <1>2 DEF ReviewType
<1>4. CASE UNCHANGED <<review, raced>> /\ ~ (\E v \in Tenants : StoreTenant(v))
  <2>1. ASSUME NEW v \in Tenants, NEW n \in Namespaces, Owns(v, n)' PROVE Owns(v, n)
    BY <1>4, <2>1, OwnershipGrows
  <2> QED BY <1>3, <1>4, <2>1 DEF ComparedApart
<1>5. ASSUME NEW v \in Tenants, StoreTenant(v)
      PROVE  /\ ~ (review'[t].open /\ review'[u].open)
             /\ \A n \in Namespaces : ~ (Owns(t, n)' /\ Owns(u, n)')
             /\ review'[t].open => \A n \in review'[t].spec.namespaces : ~ Owns(u, n)'
  <2>1. raced' = raced /\ review' = [review EXCEPT ![v] = NoReview] /\ review[v].open
    BY <1>5 DEF StoreTenant
  <2>2. \A w \in Tenants : review'[w].open => w # v /\ review'[w] = review[w]
    BY <2>1, RestTypes DEF BoundaryTypeOK
  <2>3. ASSUME NEW w \in Tenants, NEW n \in Namespaces, Owns(w, n)', ~ Owns(w, n)
        PROVE  review[w].open /\ n \in review[w].spec.namespaces
    BY <2>3, OwnershipGrows DEF StoreTenant
  <2>4. {t, u} \notin raced /\ {u, t} \notin raced
    BY <1>0, <2>1
  <2>5. ~ (review[t].open /\ review[u].open)
    BY <2>4 DEF ComparedApart
  <2>6. \A n \in Namespaces : ~ (Owns(t, n)' /\ Owns(u, n)')
    BY <2>3, <2>4, <2>5 DEF ComparedApart
  <2>7. review'[t].open => \A n \in review'[t].spec.namespaces : ~ Owns(u, n)'
    BY <1>3, <2>2, <2>3, <2>4, <2>5 DEF ComparedApart
  <2> QED BY <2>2, <2>5, <2>6, <2>7
<1>6. ASSUME NEW v \in Tenants, NEW s \in TenantSpecs, JudgeTenant(v, s) \/ JudgeTenantBlindly(v, s)
      PROVE  /\ ~ (review'[t].open /\ review'[u].open)
             /\ \A n \in Namespaces : ~ (Owns(t, n)' /\ Owns(u, n)')
             /\ review'[t].open => \A n \in review'[t].spec.namespaces : ~ Owns(u, n)'
  <2>1. \A w \in Tenants, n \in Namespaces : Owns(w, n)' <=> Owns(w, n)
    BY <1>6 DEF JudgeTenant, JudgeTenantBlindly, Owns
  <2>2. \A w \in Tenants \ {v} : review'[w] = review[w]
    BY <1>6 DEF JudgeTenant, JudgeTenantBlindly, BoundaryTypeOK
  <2>3. {t, u} \notin raced /\ {u, t} \notin raced
    BY <1>0, <1>6 DEF JudgeTenant, JudgeTenantBlindly
  <2>4. \A n \in Namespaces : ~ (Owns(t, n)' /\ Owns(u, n)')
    BY <2>1, <2>3 DEF ComparedApart
  <2>5. CASE v # t /\ v # u
    BY <1>3, <2>1, <2>2, <2>3, <2>4, <2>5 DEF ComparedApart
  <2>6. ASSUME NEW w \in Tenants, w # v, {v, w} \notin raced'
        PROVE  /\ ~ review[w].open
               /\ \A n \in Namespaces : n \in s.namespaces => ~ Owns(w, n)
               /\ review'[v].spec = s
    <3>1. CASE JudgeTenantBlindly(v, s)
      BY <2>6, <3>1 DEF JudgeTenantBlindly
    <3>2. CASE JudgeTenant(v, s)
      <4>1. ~ review[w].open
        BY <2>6, <3>2 DEF JudgeTenant, Overtaking
      <4>2. CheckNamespaceExclusivity(v, s)
        BY <3>2 DEF JudgeTenant, AdmitTenant
      <4>3. review'[v].spec = s
        BY <3>2 DEF JudgeTenant, BoundaryTypeOK
      <4> QED BY <2>6, <4>1, <4>2, <4>3 DEF CheckNamespaceExclusivity
    <3> QED BY <1>6, <3>1, <3>2
  <2>7. CASE v = t
    BY <1>3, <2>1, <2>2, <2>4, <2>6, <2>7
  <2>8. CASE v = u
    <3>1. ~ review[t].open /\ review'[t] = review[t]
      BY <1>0, <2>2, <2>6, <2>8
    <3> QED BY <2>4, <3>1
  <2> QED BY <2>5, <2>7, <2>8
<1> QED BY <1>4, <1>5, <1>6, ReviewsChange

\* A list before the write keeps namespaces exclusive as far as it can: two tenants share
\* a namespace only if their reviews overlapped or a list failed, for any number of
\* tenants, edits, deletions and restarts.
THEOREM SharingNeedsRace == BoundarySpec => []SharedOnlyByRace
<1>1. BoundaryInit => BoundaryTypeOK /\ ComparedApart
  <2> SUFFICES ASSUME BoundaryInit PROVE ComparedApart
    BY BoundaryInitTypes
  <2> QED BY RestTypes DEF BoundaryInit, ComparedApart, Owns
<1>2. (BoundaryTypeOK /\ ComparedApart) /\ [BoundaryNext]_boundaryVars
      => (BoundaryTypeOK /\ ComparedApart)'
  BY BoundaryTypesStep, ComparedApartStep
<1>3. BoundaryTypeOK /\ ComparedApart => SharedOnlyByRace
  BY DEF ComparedApart, SharedOnlyByRace
<1> QED BY <1>1, <1>2, <1>3, PTL DEF BoundarySpec

-----------------------------------------------------------------------------
(* What a deleted tenant leaves *)

\* The label or the quota of tenant t is on namespace n.
Marked(t, n) == label[n] = t \/ t \in quotas[n]

\* A namespace that still carries a tenant's mark, and that the tenant has not abandoned,
\* is one it lists, and one that a teardown under way has still to visit.
MarksAccounted ==
    \A t \in Tenants, n \in Namespaces :
        Marked(t, n) /\ <<t, n>> \notin abandoned =>
            /\ Owns(t, n)
            /\ tnPass[t].pc = "teardown" => n \in tnPass[t].todo

\* What a pass has still to visit is listed by its tenant, or was given up after the pass
\* began.
TodoAccounted ==
    \A t \in Tenants :
        tnPass[t].pc # "idle" =>
            \A n \in tnPass[t].todo : Owns(t, n) \/ <<t, n>> \in abandoned

MarksInv == BoundaryTypeOK /\ MarksAccounted /\ TodoAccounted

\* A tenant stops owning a namespace only by an edit, which abandons it, or by the release
\* of its finalizer.
LEMMA OwnershipShrinks ==
    ASSUME BoundaryTypeOK, [BoundaryNext]_boundaryVars,
           NEW t \in Tenants, NEW n \in Namespaces, Owns(t, n), ~ Owns(t, n)'
    PROVE  \/ StoreTenant(t) /\ <<t, n>> \in abandoned'
           \/ ReleaseTenant(t)
<1> USE DEF Owns, BoundaryTypeOK
<1>1. CASE UNCHANGED tenant
  BY <1>1
<1>2. ASSUME NEW u \in Tenants, StoreTenant(u)
      PROVE  StoreTenant(t) /\ <<t, n>> \in abandoned'
  <2>1. tenant' # tenant
    OBVIOUS
  <2>2. PICK stored : /\ tenant' = [tenant EXCEPT ![u] = stored]
                      /\ stored.spec = review[u].spec /\ stored.phase # "absent"
    BY <1>2, <2>1, StoredTenant
  <2>3. t = u /\ n \notin review[t].spec.namespaces /\ tenant' # tenant
    BY <2>1, <2>2
  <2>4. ~ review[t].creates
    BY <1>2, <2>3, StoredTenant
  <2>5. abandoned' = abandoned \cup {<<t, m>> : m \in tenant[t].spec.namespaces
                                                      \ review[t].spec.namespaces}
    BY <1>2, <2>3, <2>4 DEF StoreTenant
  <2> QED BY <1>2, <2>3, <2>5
<1>3. ASSUME NEW u \in Tenants, ReleaseTenant(u) PROVE ReleaseTenant(t)
  <2>1. CASE u = t
    BY <1>3, <2>1
  <2>2. CASE u # t
    BY <1>3, <2>2 DEF ReleaseTenant
  <2> QED BY <2>1, <2>2
<1>4. ASSUME NEW u \in Tenants, DeleteTenant(u) \/ BeginTenant(u) \/ ReportTenant(u)
      PROVE  FALSE
  <2>1. CASE DeleteTenant(u)  BY <2>1, ZenonT(90) DEF DeleteTenant, TenantType
  <2>2. CASE BeginTenant(u)
    <3>1. PICK phase \in LifePhases \ {"absent"} :
             tenant' = [tenant EXCEPT ![u] = [tenant[u] EXCEPT !.phase = phase]]
      <4>1. EnsureFinalizer(tenant[u].phase) \in LifePhases \ {"absent"}
        BY <2>2 DEF BeginTenant, EnsureFinalizer, TenantType, LifePhases
      <4> QED BY <2>2, <4>1 DEF BeginTenant
    <3> QED BY <3>1 DEF TenantType
  <2>3. CASE ReportTenant(u)  BY <2>3 DEF ReportTenant, TenantType
  <2> QED BY <1>4, <2>1, <2>2, <2>3
<1> QED BY <1>1, <1>2, <1>3, <1>4, ZenonT(90)
        DEF BoundaryNext, JudgeTenant, JudgeTenantBlindly, TenantStep, RefusedTenant,
            BindNamespace, TeardownNamespace, TenantPassErrs, ResyncTenant, SubmitWorkload,
            DeleteWorkload, PassWorkload, WorkFrame, ToggleNamespace, BoundaryCrash, boundaryVars

\* Nothing that was abandoned is forgotten.
LEMMA AbandonedGrows == [BoundaryNext]_boundaryVars => abandoned \subseteq abandoned'
BY ZenonT(90) DEF BoundaryNext, JudgeTenant, JudgeTenantBlindly, StoreTenant, DeleteTenant, TenantStep,
       BeginTenant, ReportTenant, ReleaseTenant, RefusedTenant, BindNamespace,
       TeardownNamespace, TenantPassErrs, ResyncTenant, SubmitWorkload, DeleteWorkload,
       PassWorkload, WorkFrame, ToggleNamespace, BoundaryCrash, boundaryVars

\* A mark appears only where a pass of its tenant binds a namespace, and a teardown that
\* passes a namespace removes it or abandons it.
LEMMA MarksChange ==
    ASSUME BoundaryTypeOK, [BoundaryNext]_boundaryVars,
           NEW t \in Tenants, NEW n \in Namespaces, Marked(t, n)'
    PROVE  /\ Marked(t, n) \/ (BindNamespace(t, n) /\ tnPass[t].pc = "bind")
           /\ TeardownNamespace(t, n) => <<t, n>> \in abandoned'
<1> USE BoundaryAssumption DEF Marked, BoundaryTypeOK
<1>1. CASE UNCHANGED <<label, quotas>> /\ ~ TeardownNamespace(t, n)
  BY <1>1
<1>2. ASSUME NEW u \in Tenants, NEW m \in Namespaces, BindNamespace(u, m)
      PROVE  Marked(t, n) \/ (BindNamespace(t, n) /\ tnPass[t].pc = "bind")
  <2>1. label' = label \/ label' = [label EXCEPT ![m] = u]
    BY <1>2 DEF BindNamespace, EnsureNamespaceLabel
  <2>2. quotas' = quotas \/ quotas' = [quotas EXCEPT ![m] = @ \cup {u}]
        \/ quotas' = [quotas EXCEPT ![m] = @ \ {u}]
    BY <1>2 DEF BindNamespace, EnsureResourceQuota
  <2>3. tnPass[u].pc = "bind"
    BY <1>2 DEF BindNamespace
  <2> QED BY <1>2, <2>1, <2>2, <2>3
<1>3. ASSUME NEW u \in Tenants, NEW m \in Namespaces, TeardownNamespace(u, m)
      PROVE  /\ Marked(t, n)
             /\ u = t /\ m = n => <<t, n>> \in abandoned'
  <2>1. label' = label \/ label' = [label EXCEPT ![m] = NoTenant]
    BY <1>3 DEF TeardownNamespace
  <2>2. quotas' = quotas \/ quotas' = [quotas EXCEPT ![m] = @ \ {u}]
    BY <1>3 DEF TeardownNamespace
  <2>3. \/ label' = [label EXCEPT ![m] = NoTenant] /\ quotas' = [quotas EXCEPT ![m] = @ \ {u}]
        \/ abandoned' = abandoned \cup {<<u, m>>}
    BY <1>3 DEF TeardownNamespace
  <2> QED BY <2>1, <2>2, <2>3
<1>4. ASSUME NEW m \in Namespaces, ToggleNamespace(m) PROVE Marked(t, n)
  <2>1. label' = label \/ label' = [label EXCEPT ![m] = NoTenant]
    BY <1>4 DEF ToggleNamespace
  <2>2. quotas' = quotas \/ quotas' = [quotas EXCEPT ![m] = {}]
    BY <1>4 DEF ToggleNamespace
  <2> QED BY <2>1, <2>2
<1>5. \/ UNCHANGED <<label, quotas>>
      \/ \E m \in Namespaces :
            ToggleNamespace(m) \/ \E u \in Tenants : BindNamespace(u, m) \/ TeardownNamespace(u, m)
  BY ZenonT(90) DEF BoundaryNext, JudgeTenant, JudgeTenantBlindly, StoreTenant, DeleteTenant, TenantStep,
         BeginTenant, ReportTenant, ReleaseTenant, RefusedTenant, TenantPassErrs, ResyncTenant,
         SubmitWorkload, DeleteWorkload, PassWorkload, WorkFrame, BoundaryCrash, boundaryVars
<1>6. TeardownNamespace(t, n) => <<t, n>> \in abandoned'
  BY <1>3
<1> QED BY <1>1, <1>2, <1>3, <1>4, <1>5, <1>6

\* How a pass over a tenant may move: it begins on everything the tenant lists, ends, or
\* takes the one namespace it binds or tears down off its list.
LEMMA PassChange ==
    ASSUME BoundaryTypeOK, [BoundaryNext]_boundaryVars, NEW t \in Tenants
    PROVE  \/ tnPass'[t] = tnPass[t]
           \/ tnPass'[t].pc = "idle"
           \/ /\ BeginTenant(t)
              /\ tnPass'[t].todo = tenant[t].spec.namespaces
           \/ \E n \in Namespaces :
                 /\ tnPass'[t].pc = tnPass[t].pc
                 /\ tnPass'[t].todo = tnPass[t].todo \ {n}
                 /\ BindNamespace(t, n) \/ TeardownNamespace(t, n)
<1> USE DEF BoundaryTypeOK
<1>1. CASE UNCHANGED tnPass
  BY <1>1
<1>2. CASE BoundaryCrash
  BY <1>2, RestTypes DEF BoundaryCrash
<1>3. ASSUME NEW u \in Tenants, tnPass' = [tnPass EXCEPT ![u] = TenantIdle]
      PROVE  tnPass'[t] = tnPass[t] \/ tnPass'[t].pc = "idle"
  BY <1>3, RestTypes
<1>4. ASSUME NEW u \in Tenants, BeginTenant(u)
      PROVE  tnPass'[t] = tnPass[t]
             \/ (BeginTenant(t) /\ tnPass'[t].todo = tenant[t].spec.namespaces)
  BY <1>4 DEF BeginTenant
<1>5. ASSUME NEW u \in Tenants, NEW n \in Namespaces, BindNamespace(u, n)
      PROVE  tnPass'[t] = tnPass[t]
             \/ (u = t /\ tnPass'[t].pc = tnPass[t].pc /\ tnPass'[t].todo = tnPass[t].todo \ {n})
  <2>1. tnPass' = [tnPass EXCEPT ![u] =
                     [tnPass[u] EXCEPT !.todo = @ \ {n}, !.complete = @ /\ n \in exists]]
    BY <1>5 DEF BindNamespace
  <2> DEFINE done == [tnPass[u] EXCEPT !.todo = @ \ {n}, !.complete = @ /\ n \in exists]
  <2>2. done.pc = tnPass[u].pc /\ done.todo = tnPass[u].todo \ {n}
    BY DEF PassType
  <2> HIDE DEF done
  <2> QED BY <2>1, <2>2
<1>6. ASSUME NEW u \in Tenants, NEW n \in Namespaces, TeardownNamespace(u, n)
      PROVE  tnPass'[t] = tnPass[t]
             \/ (u = t /\ tnPass'[t].pc = tnPass[t].pc /\ tnPass'[t].todo = tnPass[t].todo \ {n})
  BY <1>6 DEF TeardownNamespace, PassType
<1>7. \/ UNCHANGED tnPass \/ BoundaryCrash
      \/ \E u \in Tenants :
            \/ tnPass' = [tnPass EXCEPT ![u] = TenantIdle] \/ BeginTenant(u)
            \/ \E n \in Namespaces : BindNamespace(u, n) \/ TeardownNamespace(u, n)
  BY DEF BoundaryNext, JudgeTenant, JudgeTenantBlindly, StoreTenant, DeleteTenant, TenantStep,
         ReportTenant, ReleaseTenant, RefusedTenant, TenantPassErrs, ResyncTenant, Ended,
         SubmitWorkload, DeleteWorkload, PassWorkload, WorkFrame, ToggleNamespace, boundaryVars
<1> QED BY <1>1, <1>2, <1>3, <1>4, <1>5, <1>6, <1>7

\* Every step keeps the marks of tenants accounted for.
LEMMA MarksInvStep == MarksInv /\ [BoundaryNext]_boundaryVars => MarksInv'
<1> SUFFICES ASSUME MarksInv, [BoundaryNext]_boundaryVars PROVE MarksInv'
  OBVIOUS
<1>0. BoundaryTypeOK /\ BoundaryTypeOK' /\ abandoned \subseteq abandoned'
  BY BoundaryTypesStep, AbandonedGrows DEF MarksInv
<1>1. ASSUME NEW t \in Tenants, ReleaseTenant(t)
      PROVE  tnPass[t].pc = "teardown" /\ tnPass[t].todo = {} /\ tnPass'[t].pc = "idle"
  BY <1>0, <1>1, RestTypes DEF ReleaseTenant, Ended, BoundaryTypeOK
<1>2. ASSUME NEW t \in Tenants, BeginTenant(t)
      PROVE  tnPass[t].pc = "idle" /\ tenant[t].phase # "absent"
  BY <1>2 DEF BeginTenant
<1>3. ASSUME NEW t \in Tenants, NEW n \in Namespaces
      PROVE  /\ BindNamespace(t, n) => tnPass[t].pc = "bind" /\ n \in tnPass[t].todo
             /\ TeardownNamespace(t, n) => tnPass[t].pc = "teardown"
  BY DEF BindNamespace, TeardownNamespace
<1>4. ASSUME NEW t \in Tenants, NEW n \in Namespaces, Owns(t, n), ~ Owns(t, n)'
      PROVE  <<t, n>> \in abandoned' \/ ReleaseTenant(t)
  BY <1>0, <1>4, OwnershipShrinks
<1>5. ASSUME NEW t \in Tenants
      PROVE  tnPass[t].todo \subseteq Namespaces /\ tenant[t].spec.namespaces \subseteq Namespaces
  BY <1>0, SpecNamespaces DEF BoundaryTypeOK, PassType, TenantType
<1>6. MarksAccounted'
  <2> SUFFICES ASSUME NEW t \in Tenants, NEW n \in Namespaces,
                      Marked(t, n)', <<t, n>> \notin abandoned'
               PROVE  Owns(t, n)' /\ (tnPass'[t].pc = "teardown" => n \in tnPass'[t].todo)
    BY DEF MarksAccounted
  <2>1. /\ Marked(t, n) \/ (BindNamespace(t, n) /\ tnPass[t].pc = "bind")
        /\ ~ TeardownNamespace(t, n)
    BY <1>0, MarksChange
  <2>2. /\ Owns(t, n)
        /\ tnPass[t].pc = "teardown" => n \in tnPass[t].todo
    BY <1>0, <1>3, <2>1 DEF MarksInv, MarksAccounted, TodoAccounted
  <2>3. Owns(t, n)'
    BY <1>1, <1>4, <2>2
  <2>4. tnPass'[t].pc = "teardown" => n \in tnPass'[t].todo
    <3>1. CASE tnPass'[t] = tnPass[t] \/ tnPass'[t].pc = "idle"
      BY <2>2, <3>1
    <3>2. CASE BeginTenant(t) /\ tnPass'[t].todo = tenant[t].spec.namespaces
      BY <2>2, <3>2 DEF Owns
    <3>3. ASSUME NEW m \in Namespaces,
                 /\ tnPass'[t].pc = tnPass[t].pc
                 /\ tnPass'[t].todo = tnPass[t].todo \ {m}
                 /\ BindNamespace(t, m) \/ TeardownNamespace(t, m)
          PROVE  tnPass'[t].pc = "teardown" => n \in tnPass'[t].todo
      BY <1>3, <2>1, <2>2, <3>3
    <3> QED BY <1>0, <3>1, <3>2, <3>3, PassChange
  <2> QED BY <2>3, <2>4
<1>7. TodoAccounted'
  <2> SUFFICES ASSUME NEW t \in Tenants, tnPass'[t].pc # "idle", NEW n \in tnPass'[t].todo
               PROVE  Owns(t, n)' \/ <<t, n>> \in abandoned'
    BY DEF TodoAccounted
  <2>1. n \in Namespaces /\ (Owns(t, n) \/ <<t, n>> \in abandoned)
    <3>1. CASE tnPass'[t] = tnPass[t]
      BY <1>5, <3>1 DEF MarksInv, TodoAccounted
    <3>2. CASE BeginTenant(t) /\ tnPass'[t].todo = tenant[t].spec.namespaces
      BY <1>2, <1>5, <3>2 DEF Owns
    <3>3. ASSUME NEW m \in Namespaces,
                 /\ tnPass'[t].pc = tnPass[t].pc
                 /\ tnPass'[t].todo = tnPass[t].todo \ {m}
          PROVE  n \in Namespaces /\ (Owns(t, n) \/ <<t, n>> \in abandoned)
      BY <1>5, <3>3 DEF MarksInv, TodoAccounted
    <3> QED BY <1>0, <3>1, <3>2, <3>3, PassChange
  <2> QED BY <1>0, <1>1, <1>4, <2>1
<1> QED BY <1>0, <1>6, <1>7 DEF MarksInv

\* Once a tenant is gone, no namespace carries its label or its quota, unless the tenant
\* stopped listing the namespace earlier or a write of the teardown failed: finalizer and
\* teardown suffice for any interleaving of edits, passes, restarts and other tenants.
THEOREM TeardownComplete == BoundarySpec => []TeardownLeavesNothing
<1>1. BoundaryInit => MarksInv
  <2> SUFFICES ASSUME BoundaryInit PROVE MarksAccounted /\ TodoAccounted
    BY BoundaryInitTypes DEF MarksInv
  <2> QED BY BoundaryAssumption, RestTypes
          DEF BoundaryInit, MarksAccounted, TodoAccounted, Marked
<1>2. MarksInv /\ [BoundaryNext]_boundaryVars => MarksInv'
  BY MarksInvStep
<1>3. MarksInv => TeardownLeavesNothing
  BY DEF MarksInv, MarksAccounted, Marked, Owns, TeardownLeavesNothing
<1> QED BY <1>1, <1>2, <1>3, PTL DEF BoundarySpec

-----------------------------------------------------------------------------
(* Nothing waits on a pass that nobody will run *)

\* A tenant without the finalizer is queued and no pass is under way; one that is being
\* deleted is queued or being torn down; a pass that binds what the tenant no longer says
\* has another one queued behind it; and no pass outlives its tenant.
TenantPending(t) ==
    /\ tenant[t].phase = "new" => tnDirty[t] /\ tnPass[t].pc = "idle"
    /\ tenant[t].phase = "deleting" => tnDirty[t] \/ tnPass[t].pc = "teardown"
    /\ tnPass[t].pc = "bind" => tnDirty[t] \/ tnPass[t].spec = tenant[t].spec
    /\ tnPass[t].pc = "teardown" => tenant[t].phase = "deleting"
    /\ tnPass[t].pc # "idle" => tenant[t].phase # "absent"

\* A governed object without the finalizer, or being deleted, is queued; one that is gone
\* is not, so that no pass brings it back.
WorkPending(n) ==
    /\ work[n].phase \in {"new", "deleting"} => wkDirty[n]
    /\ work[n].phase = "absent" => ~ wkDirty[n]

NothingForgotten ==
    /\ \A t \in Tenants : TenantPending(t)
    /\ \A n \in Hosts : WorkPending(n)

\* Which steps reach a tenant: its own, and the restart.
LEMMA TenantTouched ==
    ASSUME BoundaryTypeOK, [BoundaryNext]_boundaryVars, NEW t \in Tenants
    PROVE  \/ /\ tenant'[t] = tenant[t]
              /\ tnDirty'[t] = tnDirty[t]
              /\ tnPass'[t] = tnPass[t]
           \/ StoreTenant(t) \/ DeleteTenant(t) \/ TenantStep(t) \/ TenantPassErrs(t)
           \/ ResyncTenant(t) \/ BoundaryCrash
<1> USE DEF BoundaryTypeOK
<1>1. CASE UNCHANGED <<tenant, tnDirty, tnPass>>
  BY <1>1
<1>2. ASSUME NEW u \in Tenants, u # t,
             StoreTenant(u) \/ DeleteTenant(u) \/ TenantPassErrs(u) \/ ResyncTenant(u)
      PROVE  tenant'[t] = tenant[t] /\ tnDirty'[t] = tnDirty[t] /\ tnPass'[t] = tnPass[t]
  BY <1>2 DEF StoreTenant, DeleteTenant, TenantPassErrs, ResyncTenant, Ended
<1>3. ASSUME NEW u \in Tenants, u # t, TenantStep(u)
      PROVE  tenant'[t] = tenant[t] /\ tnDirty'[t] = tnDirty[t] /\ tnPass'[t] = tnPass[t]
  <2>1. CASE BeginTenant(u)    BY <1>3, <2>1 DEF BeginTenant
  <2>2. CASE RefusedTenant(u)  BY <2>2 DEF RefusedTenant, boundaryVars
  <2>3. CASE ReportTenant(u)   BY <1>3, <2>3 DEF ReportTenant, Ended
  <2>4. CASE ReleaseTenant(u)  BY <1>3, <2>4 DEF ReleaseTenant, Ended
  <2>5. ASSUME NEW n \in Namespaces, BindNamespace(u, n) \/ TeardownNamespace(u, n)
        PROVE  tenant'[t] = tenant[t] /\ tnDirty'[t] = tnDirty[t] /\ tnPass'[t] = tnPass[t]
    BY <1>3, <2>5 DEF BindNamespace, TeardownNamespace
  <2> QED BY <1>3, <2>1, <2>2, <2>3, <2>4, <2>5 DEF TenantStep
<1>4. \/ UNCHANGED <<tenant, tnDirty, tnPass>> \/ BoundaryCrash
      \/ \E u \in Tenants : \/ StoreTenant(u) \/ DeleteTenant(u) \/ TenantStep(u)
                            \/ TenantPassErrs(u) \/ ResyncTenant(u)
  BY DEF BoundaryNext, JudgeTenant, JudgeTenantBlindly, SubmitWorkload, DeleteWorkload,
         PassWorkload, WorkFrame, ToggleNamespace, boundaryVars
<1> QED BY <1>1, <1>2, <1>3, <1>4

\* A tenant's own steps leave nothing about it forgotten.
LEMMA TenantPendingStep ==
    ASSUME BoundaryTypeOK, [BoundaryNext]_boundaryVars, NEW t \in Tenants, TenantPending(t)
    PROVE  TenantPending(t)'
<1> USE DEF TenantPending
<1>0. /\ tenant \in [Tenants -> TenantType] /\ tenant[t] \in TenantType
      /\ tnPass \in [Tenants -> PassType] /\ tnPass[t] \in PassType
      /\ tnDirty \in [Tenants -> BOOLEAN]
      /\ tenant[t].phase \in LifePhases
  BY DEF BoundaryTypeOK, TenantType
<1>1. CASE /\ tenant'[t] = tenant[t]
           /\ tnDirty'[t] = tnDirty[t]
           /\ tnPass'[t] = tnPass[t]
  BY <1>1
<1>2. CASE StoreTenant(t)
  <2> DEFINE stored == [tenant[t] EXCEPT !.spec = review[t].spec,
                          !.phase = IF @ = "absent" THEN "new" ELSE @]
  <2>1. stored.phase = IF tenant[t].phase = "absent" THEN "new" ELSE tenant[t].phase
    BY ONLY <1>0 DEF TenantType
  <2>2. \/ UNCHANGED <<tenant, tnDirty>>
        \/ tenant' = [tenant EXCEPT ![t] = stored] /\ tnDirty' = [tnDirty EXCEPT ![t] = TRUE]
    BY <1>2 DEF StoreTenant
  <2>3. tnPass' = tnPass
    BY <1>2 DEF StoreTenant
  <2> HIDE DEF stored
  <2>4. CASE UNCHANGED <<tenant, tnDirty>>
    BY <2>3, <2>4
  <2>5. CASE tenant' = [tenant EXCEPT ![t] = stored] /\ tnDirty' = [tnDirty EXCEPT ![t] = TRUE]
    <3>1. tenant'[t].phase = stored.phase /\ tnDirty'[t]
      BY <1>0, <2>5
    <3>2. tenant[t].phase = "new" \/ tenant[t].phase = "absent" => tnPass[t].pc = "idle"
      OBVIOUS
    <3> QED BY <2>1, <2>3, <3>1, <3>2
  <2> QED BY <2>2, <2>4, <2>5
<1>3. CASE DeleteTenant(t)
  <2>1. tenant'[t].phase = "deleting" /\ tnDirty'[t] /\ tnPass' = tnPass
    BY <1>0, <1>3 DEF DeleteTenant, TenantType
  <2> QED BY <2>1
<1>4. CASE BeginTenant(t)
  <2>1. tenant'[t] = [tenant[t] EXCEPT !.phase = EnsureFinalizer(tenant[t].phase)]
    BY <1>0, <1>4 DEF BeginTenant
  <2>2. tenant'[t].phase = EnsureFinalizer(tenant[t].phase) /\ tenant'[t].spec = tenant[t].spec
    BY ONLY <1>0, <2>1 DEF TenantType
  <2>3. /\ tnPass'[t].pc = IF tenant[t].phase = "deleting" THEN "teardown" ELSE "bind"
        /\ tnPass'[t].spec = tenant[t].spec
        /\ tenant[t].phase # "absent"
    BY <1>0, <1>4 DEF BeginTenant
  <2> QED BY <2>2, <2>3 DEF EnsureFinalizer
<1>5. CASE RefusedTenant(t)
  BY <1>1, <1>5 DEF RefusedTenant, boundaryVars
<1>6. CASE ReportTenant(t)
  <2>1. tenant'[t].phase = tenant[t].phase
    <3>1. \/ tenant' = tenant
          \/ tenant'[t] = [tenant[t] EXCEPT !.ready = tnPass[t].complete]
      BY <1>0, <1>6 DEF ReportTenant
    <3> QED BY ONLY <1>0, <3>1 DEF TenantType
  <2>2. tnPass[t].pc = "bind" /\ tnPass'[t].pc = "idle" /\ tnDirty' = tnDirty
    BY <1>0, <1>6, RestTypes DEF ReportTenant, Ended
  <2> QED BY <2>1, <2>2
<1>7. CASE ReleaseTenant(t)
  <2>1. tnPass[t].pc = "teardown" /\ tnPass'[t].pc = "idle"
    BY <1>0, <1>7, RestTypes DEF ReleaseTenant, Ended
  <2>2. CASE tenant' = tenant /\ tnDirty' = [tnDirty EXCEPT ![t] = TRUE]
    BY <1>0, <2>1, <2>2
  <2>3. CASE tenant' = [tenant EXCEPT ![t] = [tenant[t] EXCEPT !.phase = "absent", !.ready = FALSE]]
    <3> DEFINE gone == [tenant[t] EXCEPT !.phase = "absent", !.ready = FALSE]
    <3>1. gone.phase = "absent"
      BY ONLY <1>0 DEF TenantType
    <3> HIDE DEF gone
    <3>2. tenant'[t] = gone
      BY <1>0, <2>3 DEF gone
    <3> QED BY <2>1, <3>1, <3>2
  <2> QED BY <1>7, <2>2, <2>3 DEF ReleaseTenant
<1>8. ASSUME NEW n \in Namespaces, BindNamespace(t, n) \/ TeardownNamespace(t, n)
      PROVE  TenantPending(t)'
  <2>1. tenant' = tenant /\ tnDirty' = tnDirty
    BY <1>8 DEF BindNamespace, TeardownNamespace
  <2>2. tnPass'[t].pc = tnPass[t].pc /\ tnPass'[t].spec = tnPass[t].spec
    <3>1. \/ tnPass'[t] = [tnPass[t] EXCEPT !.todo = @ \ {n}, !.complete = @ /\ n \in exists]
          \/ tnPass'[t] = [tnPass[t] EXCEPT !.todo = @ \ {n}]
      BY <1>0, <1>8 DEF BindNamespace, TeardownNamespace
    <3> QED BY ONLY <1>0, <3>1 DEF PassType
  <2> QED BY <2>1, <2>2
<1>9. CASE TenantPassErrs(t)
  <2>1. tnPass[t].pc # "idle" /\ tnPass'[t].pc = "idle" /\ tnDirty'[t] /\ tenant' = tenant
    BY <1>0, <1>9, RestTypes DEF TenantPassErrs, Ended
  <2> QED BY <2>1
<1>10. CASE ResyncTenant(t)
  <2>1. tnDirty'[t] /\ UNCHANGED <<tenant, tnPass>>
    BY <1>0, <1>10 DEF ResyncTenant
  <2> QED BY <2>1
<1>11. CASE BoundaryCrash
  <2>1. /\ tnPass'[t].pc = "idle" /\ tenant' = tenant
        /\ tenant[t].phase # "absent" => tnDirty'[t]
    BY <1>11, RestTypes DEF BoundaryCrash
  <2> QED BY <2>1
<1> QED BY <1>1, <1>2, <1>3, <1>4, <1>5, <1>6, <1>7, <1>8, <1>9, <1>10, <1>11, TenantTouched
        DEF TenantStep

\* Governed objects are queued until admission lets the controller finish with them.
LEMMA WorkPendingStep ==
    ASSUME BoundaryTypeOK, [BoundaryNext]_boundaryVars, NEW n \in Hosts, WorkPending(n)
    PROVE  WorkPending(n)'
<1> USE DEF WorkPending
<1>0. /\ work \in [Hosts -> WorkType] /\ work[n] \in WorkType
      /\ wkDirty \in [Hosts -> BOOLEAN] /\ work[n].phase \in LifePhases
  BY DEF BoundaryTypeOK, WorkType
<1>1. CASE UNCHANGED <<work, wkDirty>>
  BY <1>1
<1>2. ASSUME NEW m \in Hosts, NEW w \in WorkloadSpecs, SubmitWorkload(m, w)
      PROVE  WorkPending(n)'
  <2>1. CASE m = n
    <3>1. /\ wkDirty'[n]
          /\ work'[n].phase = IF work[n].phase = "absent" THEN "new" ELSE work[n].phase
      BY <1>0, <1>2, <2>1 DEF SubmitWorkload
    <3> QED BY <3>1
  <2>2. CASE m # n
    BY <1>0, <1>2, <2>2 DEF SubmitWorkload
  <2> QED BY <2>1, <2>2
<1>3. ASSUME NEW m \in Hosts, DeleteWorkload(m) PROVE WorkPending(n)'
  <2>1. CASE m = n
    <3>1. wkDirty'[n] /\ work'[n].phase = "deleting"
      BY <1>0, <1>3, <2>1 DEF DeleteWorkload, WorkType
    <3> QED BY <3>1
  <2>2. CASE m # n
    BY <1>0, <1>3, <2>2 DEF DeleteWorkload
  <2> QED BY <2>1, <2>2
<1>4. ASSUME NEW m \in Hosts, PassWorkload(m) PROVE WorkPending(n)'
  <2>1. CASE m # n
    BY <1>0, <1>4, <2>1 DEF PassWorkload
  <2>2. CASE m = n /\ work' # work
    <3> DEFINE passed == [work[n] EXCEPT !.phase = IF @ = "deleting" THEN "absent" ELSE "live"]
    <3>1. passed.phase \in {"absent", "live"}
      BY ONLY <1>0 DEF WorkType
    <3>2. work' = [work EXCEPT ![n] = passed] /\ wkDirty' = [wkDirty EXCEPT ![n] = FALSE]
      BY <1>4, <2>2 DEF PassWorkload
    <3> HIDE DEF passed
    <3>3. work'[n] = passed /\ ~ wkDirty'[n]
      BY <1>0, <3>2
    <3> QED BY <3>1, <3>3
  <2>3. CASE m = n /\ work' = work
    <3>1. CASE wkDirty' = wkDirty
      BY <2>3, <3>1
    <3>2. CASE wkDirty' # wkDirty
      <4> DEFINE passed == [work[n] EXCEPT !.phase = IF @ = "deleting" THEN "absent" ELSE "live"]
      <4>1. passed.phase \in {"absent", "live"} /\ (passed.phase = "absent" => work[n].phase = "deleting")
        BY ONLY <1>0 DEF WorkType
      <4>2. work' = [work EXCEPT ![n] = passed] /\ wkDirty' = [wkDirty EXCEPT ![n] = FALSE]
        BY <1>4, <2>3, <3>2 DEF PassWorkload
      <4> HIDE DEF passed
      <4>3. work'[n] = passed /\ ~ wkDirty'[n]
        BY <1>0, <4>2
      <4> QED BY <4>1, <4>3
    <3> QED BY <3>1, <3>2
  <2> QED BY <2>1, <2>2, <2>3
<1>5. CASE BoundaryCrash
  <2>1. work' = work /\ (wkDirty'[n] <=> work[n].phase # "absent")
    BY <1>5 DEF BoundaryCrash
  <2> QED BY <2>1
<1>6. \/ UNCHANGED <<work, wkDirty>> \/ BoundaryCrash
      \/ \E m \in Hosts : \/ DeleteWorkload(m) \/ PassWorkload(m)
                          \/ \E w \in WorkloadSpecs : SubmitWorkload(m, w)
  BY ZenonT(90)
     DEF BoundaryNext, JudgeTenant, JudgeTenantBlindly, StoreTenant, DeleteTenant, TenantStep,
         BeginTenant, ReportTenant, ReleaseTenant, RefusedTenant, BindNamespace,
         TeardownNamespace, TenantPassErrs, ResyncTenant, BoundaryFrame, ToggleNamespace,
         boundaryVars
<1> QED BY <1>1, <1>2, <1>3, <1>4, <1>5, <1>6

\* No deletion, no edit and no missing finalizer is ever left without a pass that will see
\* to it, through refusals of admission, failures, restarts and edits during a pass: the
\* part of ReleasedOncePermitted and UndisputedIsBound that does not rest on fairness.
THEOREM DeletionsNeverForgotten == BoundarySpec => []NothingForgotten
<1>1. BoundaryInit => BoundaryTypeOK /\ NothingForgotten
  <2> SUFFICES ASSUME BoundaryInit PROVE NothingForgotten
    BY BoundaryInitTypes
  <2>1. \A t \in Tenants : tenant[t].phase = "absent" /\ tnPass[t].pc = "idle"
    BY RestTypes DEF BoundaryInit
  <2>2. \A n \in Hosts : work[n].phase = "absent" /\ ~ wkDirty[n]
    BY DEF BoundaryInit
  <2> QED BY <2>1, <2>2 DEF NothingForgotten, TenantPending, WorkPending
<1>2. (BoundaryTypeOK /\ NothingForgotten) /\ [BoundaryNext]_boundaryVars
      => (BoundaryTypeOK /\ NothingForgotten)'
  <2> SUFFICES ASSUME BoundaryTypeOK, NothingForgotten, [BoundaryNext]_boundaryVars
               PROVE  (BoundaryTypeOK /\ NothingForgotten)'
    OBVIOUS
  <2>1. BoundaryTypeOK'
    BY BoundaryTypesStep
  <2>2. \A t \in Tenants : TenantPending(t)'
    BY TenantPendingStep DEF NothingForgotten
  <2>3. \A n \in Hosts : WorkPending(n)'
    BY WorkPendingStep DEF NothingForgotten
  <2> QED BY <2>1, <2>2, <2>3 DEF NothingForgotten
<1> QED BY <1>1, <1>2, PTL DEF BoundarySpec

=============================================================================
