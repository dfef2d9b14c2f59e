\* Two requests at once from instances whose clocks differ; Redis stops and comes
\* back at any time.  The block is longer than the window by the longest delay
\* and the largest skew.
CONSTANTS
    Reqs = {r1, r2}
    Skews <- SomeSkew
    Points = 2
    Window = 3
    Block = 5
    MaxDelay = 1
    MaxTime = 5
SPECIFICATION FairSpec
INVARIANTS
    TypeOK
    StoredWithinLimit
    RecordedWithinLimit
PROPERTIES
    EntriesOutliveTheirWindow
    EveryRequestIsDecided
