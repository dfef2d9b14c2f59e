------------------------------ MODULE TaskStore ------------------------------
(***************************************************************************)
(* What TasksService promises of its table, without requests, jobs,        *)
(* transactions or keys.  A task is given an id, and may then be born.     *)
(* Rows are changed and deleted.  Copies are made of rows and of copies,   *)
(* and whoever has kept one may put a deleted task back.  A task of which  *)
(* there is neither a row nor a copy is gone for good.                     *)
(***************************************************************************)
CONSTANTS Tasks,
          Row,      \* what a row may hold
          None      \* no row

VARIABLES row,      \* the row of each task, or None
          life,     \* has the task an id, and was it born
          copied    \* tasks of which somebody keeps a copy

vars == <<row, life, copied>>

Init ==
    /\ row \in [Tasks -> Row \cup {None}]
    /\ life = [t \in Tasks |-> IF row[t] = None THEN "never" ELSE "born"]
    /\ copied = {}

\* Any copies may be lost, and new ones made of what is there.
Copy == copied' \subseteq copied \cup {t \in Tasks : row[t] # None}

\* The first copy of a task is the entity that is going to be its row.
Give(t) ==
    /\ life[t] = "never"
    /\ life' = [life EXCEPT ![t] = "given"]
    /\ copied' = copied \cup {t}
    /\ UNCHANGED row

Put(t) == t \in copied /\ \E r \in Row : row' = [row EXCEPT ![t] = r]

Bear(t) ==
    /\ life[t] = "given"
    /\ life' = [life EXCEPT ![t] = "born"]
    /\ Put(t)
    /\ Copy

\* Somebody who has kept a copy saves it after the task was deleted.
Return(t) ==
    /\ life[t] = "born"
    /\ row[t] = None
    /\ Put(t)
    /\ Copy
    /\ UNCHANGED life

\* The rows of the tasks in S are written or deleted.
Change(S) ==
    /\ \A t \in S : row[t] # None
    /\ \E after \in [S -> Row \cup {None}] :
          row' = [t \in Tasks |-> IF t \in S THEN after[t] ELSE row[t]]
    /\ Copy
    /\ UNCHANGED life

Next ==
    \/ \E t \in Tasks : Give(t) \/ Bear(t) \/ Return(t)
    \/ \E S \in SUBSET Tasks : Change(S)

Spec == Init /\ [][Next]_vars

-----------------------------------------------------------------------------
\* The id is taken, and nothing is left of the task.
Gone(t) == life[t] # "never" /\ row[t] = None /\ t \notin copied

GoneStaysGone == [][\A t \in Tasks : Gone(t) => Gone(t)']_vars
=============================================================================
