\* A login that has outlived aliveSessionHours.
CONSTANTS
    Users = {u1}
    u1 = u1
    u2 = u2
    Canon <- PlainCanon
    Tokens = {t1}
    Jwts = {j1, j2}
    Requests = {r1, r2}
    None = None
SPECIFICATION Spec
INVARIANT OldLoginsEnd
CHECK_DEADLOCK FALSE
