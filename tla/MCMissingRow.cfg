\* A login of a user whose registration stopped half way.
CONSTANTS
    Requests = {r1, r2}
    Usernames = {u1, u2}
    u1 = u1
    u2 = u2
    SessionKeys = {k1}
    Passwords = {p1}
    Dids = {d1, d2}
    Codes = {c1, c2}
    Canon <- PlainCanon
    PdsServer <- BareServer
    Responsive = {}
    RefusalsName = FALSE
    None = None
SPECIFICATION Spec
INVARIANT MissingRowIsNotFound
CHECK_DEADLOCK FALSE
