SPECIFICATION Spec
CONSTANTS
    e1 = e1
    b1 = b1
    v1 = v1
    v2 = v2
    svc = svc
    f = f
    g = g
    s1 = s1
    s2 = s2
    NoF = NoF
    o1 = o1
    Identities = {e1, b1, v1, v2, svc}
    Features = {f, g}
    Definitions <- MCDefinitions
    Manifests <- MCManifests
    Owners = {o1}
    NoOwner = NoOwner
    NoFeature = NoF
    None = None
    NoRow = NoRow
    Managed <- MCManaged
    Described <- MCDescribed
    Sessions = {s1, s2}
    AdminSets <- MCAdminSets
INVARIANTS
    TypeOK
    NoDanglingReference
    ReplacementActive
    DeprecationAnnounced
PROPERTIES
    DefinitionsImmutable
    MetadataAndStatusApart
