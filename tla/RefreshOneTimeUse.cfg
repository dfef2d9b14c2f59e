\* Two refreshes of one token at once.
CONSTANTS
    Users = {u1}
    Tokens = {t1, t2, t3}
    Reqs = {r1, r2}
    NoToken = NoToken
    NoUser = NoUser
    NoRow = NoRow
    Lifetime = 1
    MaxTime = 0
    MayFail = FALSE
SPECIFICATION Spec
INVARIANTS
    OneTimeUse
