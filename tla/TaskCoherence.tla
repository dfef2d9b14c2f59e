---------------------------- MODULE TaskCoherence ----------------------------
(***************************************************************************)
(* When may the cache of TasksService disagree with the table?  A reader   *)
(* that queried before a write may fill its key after the writer deleted   *)
(* it, Redis may lose a delete, and an administrator's batch deletes the   *)
(* keys of the tasks but not of their owners.  The code promises no more   *)
(* than that every other stale key is about to be deleted by the handler   *)
(* that made it stale.                                                     *)
(***************************************************************************)
EXTENDS TasksService

Entry(k) == IF k[1] = "task" THEN taskCache[k[2]] ELSE statsCache[k[2]]
Truth(k) == IF k[1] = "task" THEN row[k[2]] ELSE StatsOf(k[2])

Stale(k) == Entry(k) # None /\ Entry(k) # Truth(k)
Owed(k) == \E s \in Slots : k \in slot[s].owes
Coherent(k) == Stale(k) => Owed(k)

\* The accidents after which a key may stay stale.
FilledLate(k) == Entry(k)' # Entry(k) /\ Entry(k)' # Truth(k)
DeleteLost(k) == /\ \E s \in Slots : k \in slot[s].owes /\ k \notin slot'[s].owes
                 /\ Entry(k)' # None
\* An administrator's batch does not know whose tasks it changes.
OwnerUnknown(k) == /\ k[1] = "user"
                   /\ \E c \in Clients : slot'[c].op \in AdminOps /\ slot[c].op \notin AdminOps

StaysCoherent(k) ==
    Coherent(k) => Coherent(k)' \/ FilledLate(k) \/ DeleteLost(k) \/ OwnerUnknown(k)

\* A stale task:<id> is about to be deleted, unless a late fill or a lost
\* delete is to blame: every write invalidates, and after its commit.
StaleTaskIsExplained == [][\A t \in Tasks : StaysCoherent(<<"task", t>>)]_vars

\* The same of task:stats:<user>, but for the batches of administrators.
StaleStatsAreExplained == [][\A u \in Users : StaysCoherent(<<"user", u>>)]_vars
=============================================================================
