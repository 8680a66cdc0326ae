\* Two spellings of one name; the PDS is configured without a scheme.
CONSTANTS
    Requests = {r1, r2, r3}
    Usernames = {u1, u2}
    u1 = u1
    u2 = u2
    SessionKeys = {k1}
    Passwords = {p1, p2}
    Dids = {d1, d2}
    Codes = {c1, c2, c3}
    Canon <- FoldedCanon
    PdsServer <- BareServer
    Responsive = {}
    RefusalsName = FALSE
    None = None
SYMMETRY Symmetry
SPECIFICATION Spec
INVARIANTS
    RowOpensAccount
    FaultFreeNotStranded
    FoundRowLogsIn
PROPERTIES
    RegisteredCanLogIn
    OrphanIsPermanent
    ImplementsLifecycle
CHECK_DEADLOCK FALSE
