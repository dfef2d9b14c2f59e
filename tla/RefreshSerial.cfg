\* One request at a time, no failures; users are removed, rows expire and are
\* cleaned up at every await.
CONSTANTS
    Users = {u1, u2}
    Tokens = {t1, t2, t3}
    Reqs = {r1}
    NoToken = NoToken
    NoUser = NoUser
    NoRow = NoRow
    Lifetime = 1
    MaxTime = 2
    MayFail = FALSE
SPECIFICATION FairSpec
INVARIANTS
    OneTimeUse
    OneLiveTokenPerFamily
    ExchangedRowPointsOn
    FamilyHasOneUser
PROPERTIES
    AcceptedTokenDies
