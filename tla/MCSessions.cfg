\* Two accounts under three names, two tokens and the sessions to mix them up with:
\* a request in all interleavings with registrations, logins, expiries and a crash.
CONSTANTS
    Users = {u1, u2, u3}
    u1 = u1
    u2 = u2
    Canon <- FoldedCanon
    Tokens = {t1, t2}
    Jwts = {j1, j2, j3}
    Requests = {r1}
    None = None
SYMMETRY Symmetry
SPECIFICATION Spec
INVARIANTS
    TypeOK
    SessionIsOwn
    ServedWasLoggedIn
    EndedSessionNotReturned
    RecordedGetsSession
PROPERTY RenewedOnlyIfNeeded
CHECK_DEADLOCK FALSE
