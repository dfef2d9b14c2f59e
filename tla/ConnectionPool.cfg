\* More handlers than connections, as many updates as connections or fewer.
CONSTANTS
    Conns = {c1, c2}
    Handlers = {h1, h2, h3}
    None = None
    Lost = Lost
SPECIFICATION FairSpec
INVARIANTS
    TypeOK
    StuckOnlyByUpdates
PROPERTIES
    LeaksOnlyAtTheStart
    EveryRequestEnds
