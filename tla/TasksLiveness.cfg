\* Requests are answered and the queue drains.
CONSTANTS
    Tasks = {t1}
    u1 = u1
    Users = {u1}
    Owner <- OneOwner
    Statuses = {pending, completed}
    Pending = pending
    Texts = {x}
    Clients = {c1}
    Workers = {w1}
    None = None
    Ops = {"create", "findOne", "update", "remove", "batchUpdate", "batchDelete", "list", "stats", "adminBatchUpdate", "adminBatchDelete"}
    Faults = {"db"}
    Backlog = 1
    MaxRequests = 2
SPECIFICATION FairSpec
CHECK_DEADLOCK FALSE
PROPERTIES
    EveryRequestEnds
    QueueDrains
