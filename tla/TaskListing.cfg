\* Walks over up to four tasks with two changes, and pages of one to three tasks.
CONSTANTS
    DefaultLimit = 2
    MaxLimit = 3
    Undefined = Undefined
    NaN = NaN
    Tasks = {t1, t2, t3, t4}
    RawPages <- SomePages
    RawLimits <- SomeLimits
    None = None
    MaxChanges = 2
SPECIFICATION Spec
SYMMETRY Symmetry
CHECK_DEADLOCK FALSE
INVARIANTS
    TypeOK
    WalkOfOneStateIsTheList
    CreationsHideNothing
    RemovalsRepeatNothing
