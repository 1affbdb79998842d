SPECIFICATION BoundaryFairSpec
CONSTANTS
    Tenants = {t1, t2}
    n1 = n1
    n2 = n2
    Namespaces = {n1, n2}
    Hosts = {n1}
    TenantSpecs <- MCTenantSpecs
    WorkloadSpecs <- MCWorkloadSpecs
    BoundaryEvents = {"edit tenant", "delete tenant", "namespace", "edit workload", "delete workload", "crash", "error"}
    MaxBoundaryEvents = 2
    NoTenant = NoTenant
INVARIANTS BoundaryTypeOK SharedOnlyByRace TeardownLeavesNothing
PROPERTIES UndisputedIsBound ReleasedOncePermitted
