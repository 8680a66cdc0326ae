\* Three concurrent requests over two users with distinct handles.
CONSTANTS
    Requests = {r1, r2, r3}
    Usernames = {u1, u2}
    u1 = u1
    u2 = u2
    SessionKeys = {k1}
    Passwords = {p1, p2}
    Dids = {d1, d2}
    Codes = {c1, c2, c3}
    Canon <- PlainCanon
    PdsServer <- HttpsServer
    Responsive = {}
    RefusalsName = FALSE
    None = None
SYMMETRY Symmetry
SPECIFICATION Spec
INVARIANTS
    TypeOK
    NoAccountWithoutUser
    SuccessIsDurable
    LoginOpensOwnAccount
CHECK_DEADLOCK FALSE
