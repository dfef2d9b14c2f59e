\* Two requests of one user at once, with failures, expiry and cleanup.
CONSTANTS
    Users = {u1}
    Tokens = {t1, t2, t3}
    Reqs = {r1, r2}
    NoToken = NoToken
    NoUser = NoUser
    NoRow = NoRow
    Lifetime = 1
    MaxTime = 2
    MayFail = TRUE
SPECIFICATION Spec
SYMMETRY Symmetry
INVARIANTS
    TypeOK
    SpentTokenIsDead
    ReplacedLinkIsChild
PROPERTIES
    DeadFamilyStaysDead
    SessionEndsForAReason
    ImplementsRotation
