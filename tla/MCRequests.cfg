SPECIFICATION RequestsSpec
CONSTANTS
    c1 = c1
    c2 = c2
    k1 = k1
    k2 = k2
    k3 = k3
    g1 = g1
    x = x
    y = y
    Tenants = {t1, t2}
    AuthorizedTenants = {t1}
    Keys = {k1}
    Packs <- ThreePacks
    Requests = {c1, c2}
    RerenderKeys = {k2, k3}
    RegenerateKeys = {g1}
    Sources <- SomeSources
    Calls = {c1, c2}
    None = None
    Absent = Absent
SYMMETRY RequestsSymmetry
CONSTRAINT Bounded
INVARIANTS
    AcknowledgedIntakeSurvives
    ReceiptNamesItsEvidence
    OneDocumentPerKey
    ReportedReplacementIsLinked
