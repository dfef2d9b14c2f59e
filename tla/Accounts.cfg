\* Three requests about two users, all at once, on every table that fits.
CONSTANTS
    Ids = {i1, i2}
    Emails = {e1, e2}
    Passwords = {p1, p2}
    Handlers = {h1, h2, h3}
    None = None
    Null = Null
    MaxRequests = 3
SPECIFICATION Spec
SYMMETRY Symmetry
CHECK_DEADLOCK FALSE
INVARIANTS
    TypeOK
    PasswordSetOpensTheAccount
PROPERTIES
    UndoesOnlyWhatItMissed
    RemovalIsFinal
