\* One request after the other, each at a later time, all in one window.
CONSTANTS
    Reqs = {r1}
    Skews <- NoSkew
    Points = 2
    Window = 3
    Block = 3
    MaxDelay = 0
    MaxTime = 2
SPECIFICATION AdmissionSpec
INVARIANTS
    AdmittedWithinLimit
