\* A list is cached and a task is created.
CONSTANTS
    Tasks = {t1}
    u1 = u1
    Users = {u1}
    Owner <- OneOwner
    Statuses = {pending, completed}
    Pending = pending
    Texts = {x}
    Clients = {c1}
    Workers = {}
    None = None
    Ops = {"create", "list"}
    Faults = {}
    Backlog = 0
    MaxRequests = 2
SPECIFICATION Spec
CHECK_DEADLOCK FALSE
INVARIANTS
    CachedListIsCurrent
