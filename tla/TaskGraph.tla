------------------------------ MODULE TaskGraph ------------------------------
(***************************************************************************)
(* The dependency graph over the library's task files                      *)
(* (src/src/task/graph.rs), and the command that shows it: whether a       *)
(* dependency would close a cycle, an order of the tasks, their levels and *)
(* the critical path.                                                      *)
(***************************************************************************)
EXTENDS TaskStore, Sequences, SequencesExt

-----------------------------------------------------------------------------
(* DependencyGraph over the task files; ids that are no task may occur.    *)

Rdeps(i) == {j \in DOMAIN tasks : i \in tasks[j].blocked_by}
Nodes == DOMAIN tasks \cup UNION {tasks[i].blocked_by : i \in DOMAIN tasks}
Sorted(S) == SetToSortSeq(S, LAMBDA a, b : a < b)

\* The command's own reading of the directory, and `dag next'.
LoadTasks == Sorted(DOMAIN tasks)
DagNext == SelectSeq(LoadTasks, LAMBDA i : tasks[i].status = "pending" /\ IsReady(i))

RECURSIVE Reaches(_, _, _)
Reaches(seen, queue, target) ==
    IF queue = <<>> THEN FALSE
    ELSE LET next == Deps(Head(queue))
         IN  target \in next \/ Reaches(seen \cup next, Tail(queue) \o Sorted(next \ seen), target)

\* Mutant: the search ends with the new dependency's own dependencies.
CycleOfTwo(id, depends_on) == id = depends_on \/ id \in Deps(depends_on)

WouldCreateCycle(id, depends_on) == id = depends_on \/ Reaches({depends_on}, <<depends_on>>, id)

\* Kahn's loop, shared by topological_sort and critical_path.
RECURSIVE Kahn(_, _, _, _)
Kahn(queue, degree, result, among) ==
    IF queue = <<>> THEN result
    ELSE LET node == Head(queue)
             next == Rdeps(node) \cap among
             after == [i \in among |-> IF i \in next THEN degree[i] - 1 ELSE degree[i]]
         IN  Kahn(Tail(queue) \o Sorted({i \in next : after[i] = 0}), after, Append(result, node), among)

InDegree(i) == Cardinality(Deps(i))

\* The order of topological_sort, or <<>> with a cycle (CycleDetected).
TopologicalSort ==
    LET degree == [i \in Nodes |-> InDegree(i)]
        result == Kahn(Sorted({i \in Nodes : degree[i] = 0}), degree, <<>>, Nodes)
    IN  IF Len(result) = Cardinality(Nodes) THEN result ELSE <<>>

\* `dag validate'; no tasks at all are valid.
DagIsValid == Nodes = {} \/ TopologicalSort # <<>>

LevelOf(levels, i) ==
    LET known == {levels[d] : d \in Deps(i) \cap DOMAIN levels}
    IN  IF known = {} THEN 0 ELSE 1 + CHOOSE n \in known : \A k \in known : n >= k

ComputeLevels ==
    FoldLeft(LAMBDA levels, i : [j \in DOMAIN levels \cup {i} |->
                                    IF j = i THEN LevelOf(levels, i) ELSE levels[j]],
             <<>>, TopologicalSort)

Undeleted == {i \in DOMAIN tasks : tasks[i].status # "deleted"}

\* The longest chain ending at each node and its predecessor, in Kahn's order.
RECURSIVE Longest(_, _)
Longest(order, best) ==
    IF order = <<>> THEN best
    ELSE LET n == Head(order)
             better == {d \in Rdeps(n) \cap Undeleted : best[n].len + 1 > best[d].len}
         IN  Longest(Tail(order), [i \in Undeleted |->
                 IF i \in better THEN [len |-> best[n].len + 1, prev |-> n] ELSE best[i]])

RECURSIVE Backtrack(_, _)
Backtrack(best, i) == IF best[i].prev = 0 THEN <<i>> ELSE Append(Backtrack(best, best[i].prev), i)

\* The paths critical_path may return: max_by_key takes one of the longest.
CriticalPaths ==
    LET degree == [i \in Undeleted |-> Cardinality(Deps(i) \cap Undeleted)]
        order == Kahn(Sorted({i \in Undeleted : degree[i] = 0}), degree, <<>>, Undeleted)
        best == Longest(order, [i \in Undeleted |->
                    [len |-> IF i \in ToSet(order) THEN 1 ELSE 0, prev |-> 0]])
    IN  {Backtrack(best, i) : i \in {j \in Undeleted : best[j].len > 0
                                      /\ \A k \in Undeleted : best[k].len <= best[j].len}}

-----------------------------------------------------------------------------
(* Properties.                                                             *)

\* The chains of at most Cardinality(Nodes) edges from i to j: reachability by definition.
Reachable(i, j, among) ==
    \E n \in 1..Cardinality(among) : \E p \in [0..n -> among] :
        p[0] = i /\ p[n] = j /\ \A k \in 0..n - 1 : p[k + 1] \in Deps(p[k])

\* add_dependency refuses exactly the edges that would close a cycle.
CycleCheckIsExact ==
    \A i, j \in Nodes : WouldCreateCycle(i, j) <=> i = j \/ Reachable(j, i, Nodes)

\* topological_sort fails exactly on a cycle, and otherwise puts every dependency
\* first; the levels drawn by to_terminal grow along every dependency.
OrderIsSound ==
    LET order == TopologicalSort
        cyclic == \E i \in Nodes : Reachable(i, i, Nodes)
        place(i) == CHOOSE k \in DOMAIN order : order[k] = i
    IN  IF cyclic \/ Nodes = {} THEN order = <<>>
        ELSE /\ ToSet(order) = Nodes /\ Len(order) = Cardinality(Nodes)
             /\ \A i \in Nodes : \A d \in Deps(i) :
                    place(d) < place(i) /\ ComputeLevels[d] < ComputeLevels[i]

\* A team is not stuck: when validate finds no cycle and no task waits for one
\* that is not there, a pending task means work in progress or a ready task that
\* `dag next' shows (handle_dag).
WorkCanGoOn ==
    LET with(s) == {i \in DOMAIN tasks : tasks[i].status = s}
    IN  DagIsValid /\ Nodes = DOMAIN tasks /\ with("pending") # {} =>
            with("in_progress") # {} \/ DagNext # <<>>

\* A critical path is a chain of dependencies through tasks that are not
\* deleted, and without cycles no chain is longer.
CriticalPathIsLongest ==
    \A p \in CriticalPaths :
        /\ \A k \in DOMAIN p : tasks[p[k]].status # "deleted"
        /\ \A k \in 1..Len(p) - 1 : p[k] \in Deps(p[k + 1])
        /\ (\A i \in Undeleted : ~Reachable(i, i, Undeleted))
             => ~\E q \in [1..Len(p) + 1 -> Undeleted] : \A k \in 1..Len(p) : q[k] \in Deps(q[k + 1])
=============================================================================
