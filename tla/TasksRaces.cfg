\* Two clients and the worker, every request, every service failing.
CONSTANTS
    Tasks = {t1}
    u1 = u1
    Users = {u1}
    Owner <- OneOwner
    Statuses = {pending, completed}
    Pending = pending
    Texts = {x}
    Clients = {c1, c2}
    Workers = {w1}
    None = None
    Ops = {"create", "findOne", "update", "remove", "batchUpdate", "batchDelete", "list", "stats",
           "adminBatchUpdate", "adminBatchDelete"}
    Faults = {"redis", "queue", "db"}
    Backlog = 1
    MaxRequests = 2
SPECIFICATION Spec
SYMMETRY Symmetry
CHECK_DEADLOCK FALSE
INVARIANTS
    TypeOK
    RolledBackCreateLeavesNothing
PROPERTIES
    StaleTaskIsExplained
    StaleStatsAreExplained
    ImplementsTaskStore
    GoneTasksStayGone
