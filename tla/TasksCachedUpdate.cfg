\* A task is read and then updated.
CONSTANTS
    Tasks = {t1}
    u1 = u1
    Users = {u1}
    Owner <- OneOwner
    Statuses = {pending, completed}
    Pending = pending
    Texts = {x, y}
    Clients = {c1}
    Workers = {}
    None = None
    Ops = {"findOne", "update"}
    Faults = {}
    Backlog = 0
    MaxRequests = 2
SPECIFICATION Spec
CHECK_DEADLOCK FALSE
INVARIANTS
    UpdateOfExistingTaskSucceeds
