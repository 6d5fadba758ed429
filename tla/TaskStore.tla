------------------------------ MODULE TaskStore ------------------------------
(***************************************************************************)
(* The library's task files (src/src/task); TaskGraph has the algorithms   *)
(* on their dependencies.                                                  *)
(* Each operation runs under the directory's file lock, so operations are  *)
(* atomic against one another; the cascade that unblocks dependents writes *)
(* one file at a time and may be cut short by a crash or a write error.    *)
(* Left out: subject, description, metadata and the `blocks' list, which   *)
(* no operation reads back, and the owner of a task that is not pending    *)
(* (only get_next_available_task asks, and no task is pending again).      *)
(***************************************************************************)
EXTENDS Naturals, FiniteSets

CONSTANTS MaxId,      \* bound on the task ids that are created
          MaxEdges,   \* bound on the dependencies recorded at once
          MaxCuts     \* bound on cascades cut short

ASSUME TaskConstants == MaxId \in Nat /\ MaxCuts \in Nat

VARIABLES tasks,      \* id -> task, for the files {id}.json present
          cascade,    \* the finished id and the files still to visit
          late,       \* ghost: edges no cascade will ever remove
          cuts

taskVars == <<tasks, cascade, late, cuts>>

TaskIds == 1..MaxId
TaskStatus == {"pending", "in_progress", "completed", "deleted"}
TaskFile == [status : TaskStatus, owned : BOOLEAN, blocked_by : SUBSET TaskIds]
NoCascade == [id |-> 0, left |-> {}]

StoreIdle == cascade = NoCascade
Edges == {e \in TaskIds \X TaskIds : e[1] \in DOMAIN tasks /\ e[2] \in tasks[e[1]].blocked_by}

TaskInit ==
    /\ tasks = <<>>
    /\ cascade = NoCascade
    /\ late = {}
    /\ cuts = 0

-----------------------------------------------------------------------------
(* The store's operations.                                                 *)

CanTransition(from, to) ==
    \/ to = "deleted"
    \/ <<from, to>> \in {<<"pending", "in_progress">>, <<"in_progress", "completed">>}

NextTaskId == IF DOMAIN tasks = {} THEN 1 ELSE 1 + CHOOSE i \in DOMAIN tasks : \A j \in DOMAIN tasks : j <= i

CreateTask ==
    /\ StoreIdle
    /\ NextTaskId \in TaskIds
    /\ tasks' = [i \in DOMAIN tasks \cup {NextTaskId} |->
                    IF i = NextTaskId THEN [status |-> "pending", owned |-> FALSE, blocked_by |-> {}]
                    ELSE tasks[i]]
    /\ UNCHANGED <<cascade, late, cuts>>

\* Mutant: the cascade is forgotten.
NoDependents(id, files) == NoCascade

\* cascade_completion visits every other file; one that names `id' is rewritten.
CascadeFrom(id, files) ==
    LET naming == {i \in DOMAIN files : i # id /\ id \in files[i].blocked_by}
    IN  IF naming = {} THEN NoCascade ELSE [id |-> id, left |-> naming]

\* An edge recorded onto a task that is already over or absent.
LateEdges(id, deps) ==
    {id} \X {d \in deps : d \notin DOMAIN tasks \/ tasks[d].status = "completed" \/ d = id}

\* apply_update: an accepted transition, an owner and more dependencies.
UpdatedBy(task, status, owned, deps) ==
    [status |-> status, owned |-> status = "pending" /\ (owned \/ task.owned),
     blocked_by |-> task.blocked_by \cup deps]

UpdateTask(id, status, owned, deps) ==
    /\ StoreIdle
    /\ id \in DOMAIN tasks
    /\ status = tasks[id].status \/ CanTransition(tasks[id].status, status)
    /\ LET files == [tasks EXCEPT ![id] = UpdatedBy(@, status, owned, deps)]
       IN  /\ tasks' = files
           /\ cascade' = IF tasks[id].status # "completed" /\ status = "completed"
                         THEN CascadeFrom(id, files) ELSE NoCascade
           /\ late' = late \cup LateEdges(id, deps \ tasks[id].blocked_by)
    /\ Cardinality(Edges') <= MaxEdges
    /\ UNCHANGED cuts

DeleteTask(id) ==
    /\ StoreIdle
    /\ id \in DOMAIN tasks
    /\ LET files == [i \in DOMAIN tasks \ {id} |-> tasks[i]]
       IN  /\ tasks' = files
           /\ cascade' = CascadeFrom(id, files)
    /\ late' = {e \in late : e[1] # id}
    /\ UNCHANGED cuts

\* One file of the cascade; read_dir gives the files in any order.
CascadeStep(i) ==
    /\ i \in cascade.left
    /\ tasks' = [tasks EXCEPT ![i].blocked_by = @ \ {cascade.id}]
    /\ cascade' = IF cascade.left = {i} THEN NoCascade ELSE [cascade EXCEPT !.left = @ \ {i}]
    /\ late' = late \ {<<i, cascade.id>>}
    /\ UNCHANGED cuts

\* A crash or a failed write ends the operation between two files.
CutCascade ==
    /\ ~StoreIdle
    /\ cuts < MaxCuts
    /\ cuts' = cuts + 1
    /\ late' = late \cup (cascade.left \X {cascade.id})
    /\ cascade' = NoCascade
    /\ UNCHANGED tasks

TaskNext ==
    \/ CreateTask
    \/ \E id \in TaskIds, s \in TaskStatus, o \in BOOLEAN, d \in {{}} \cup {{x} : x \in TaskIds} :
          UpdateTask(id, s, o, d)
    \/ \E id \in TaskIds : DeleteTask(id)
    \/ \E i \in TaskIds : CascadeStep(i)
    \/ CutCascade

TaskSpec == TaskInit /\ [][TaskNext]_taskVars

-----------------------------------------------------------------------------
(* list_tasks and get_next_available_task.                                 *)

Unblocked == {i \in DOMAIN tasks : tasks[i].blocked_by = {}}

NextAvailable ==
    LET open == {i \in Unblocked : tasks[i].status = "pending" /\ ~tasks[i].owned}
    IN  IF open = {} THEN 0 ELSE CHOOSE i \in open : \A j \in open : i <= j

\* What a task waits for; it is ready when all of that is over.
Deps(i) == IF i \in DOMAIN tasks THEN tasks[i].blocked_by ELSE {}

IsReady(i) ==
    \A d \in Deps(i) : d \in DOMAIN tasks /\ tasks[d].status \in {"completed", "deleted"}

-----------------------------------------------------------------------------
(* Properties.                                                             *)

TaskTypeOK ==
    /\ DOMAIN tasks \subseteq TaskIds
    /\ \A i \in DOMAIN tasks : tasks[i] \in TaskFile
    /\ cascade.id \in 0..MaxId /\ cascade.left \subseteq DOMAIN tasks
    /\ late \subseteq TaskIds \X TaskIds
    /\ cuts \in 0..MaxCuts

\* Outside a cascade a task waits only for tasks that are still open, but for
\* edges recorded onto a task that was over, absent or itself, and those a cut
\* cascade left behind (update_task, delete_task, cascade_completion).
WaitsAreExplained ==
    StoreIdle => \A e \in Edges \ late : e[2] \in DOMAIN tasks /\ tasks[e[2]].status # "completed"

\* A pending, unowned task that the graph calls ready is offered to an agent, or
\* a smaller one is, unless it waits for a deleted task or has a late edge
\* (get_next_available_task against is_ready).
ReadyIsOffered ==
    \A i \in DOMAIN tasks :
        /\ StoreIdle /\ IsReady(i) /\ tasks[i].status = "pending" /\ ~tasks[i].owned
        /\ \A d \in Deps(i) : <<i, d>> \notin late /\ tasks[d].status # "deleted"
        => NextAvailable \in 1..i
=============================================================================
