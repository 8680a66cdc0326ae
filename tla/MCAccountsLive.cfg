\* Two requests, one of which may hang at any call; a refusal may carry token
\* and user.
CONSTANTS
    Requests = {r1, r2}
    Usernames = {u1, u2}
    u1 = u1
    u2 = u2
    SessionKeys = {k1}
    Passwords = {p1}
    Dids = {d1, d2}
    Codes = {c1, c2}
    Canon <- FoldedCanon
    PdsServer <- BareServer
    Responsive = {r1}
    RefusalsName = TRUE
    None = None
SPECIFICATION FairSpec
PROPERTY NoRequestStuck
CHECK_DEADLOCK FALSE
