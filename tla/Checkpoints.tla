----------------------------- MODULE Checkpoints -----------------------------
(***************************************************************************)
(* Checkpoints kept as git notes (src/src/checkpoint/).  A completed task  *)
(* makes update_task collect a checkpoint -- HEAD and its diff, the team's *)
(* members, the tasks -- and save it as the note of the commit that was    *)
(* HEAD when it looked.  Callers run in parallel, and the repository, the  *)
(* team and the tasks move between the reads.  The history is one branch.  *)
(***************************************************************************)
EXTENDS Integers, FiniteSets, Sequences, SequencesExt

CONSTANTS Paths,        \* files of the repository
          Tasks,        \* task ids
          Names,        \* members
          Triggers,     \* callers of update_task
          MaxCommits,   \* bound on the commits
          MaxChanges    \* bound on changes of the team and its notes

ASSUME CheckpointConstants == MaxCommits \in Nat

VARIABLES history,      \* the commits' trees, oldest first
          board,        \* the status of every task
          crew,         \* the members in the team's config file
          notes,        \* commit -> its note
          trigger,      \* where each caller is, and what it has collected
          clock,        \* checkpoints begun, for created_at
          changes,
          onRecord,     \* (commit, task): completions a checkpoint was saved for
          crossed       \* history: two callers have collected at the same time

checkpointVars == <<history, board, crew, notes, trigger, clock, changes, onRecord, crossed>>

Absent == 0
Trees == [Paths -> 0..2]
NoNote == [kind |-> "none"]
Broken == [kind |-> "broken"]

-----------------------------------------------------------------------------

\* The files of a commit and the hash it leaves each of: its diff with its
\* parent, or with the empty tree.
CollectFiles(c) ==
    LET parent == IF c = 1 THEN [p \in Paths |-> Absent] ELSE history[c - 1]
        changed == {p \in Paths : history[c][p] # parent[p]}
    IN  [p \in changed |-> history[c][p]]

Readable(c) == notes[c].kind = "checkpoint"

\* CheckpointQuery::list without a filter: notes that do not parse are skipped.
List(limit) ==
    LET all == {notes[c] : c \in {d \in DOMAIN notes : Readable(d)}}
        newest == CHOOSE s \in [1..Cardinality(all) -> all] :
                      \A j, k \in DOMAIN s : j < k => s[j].created > s[k].created
    IN  SubSeq(newest, 1, IF limit < Len(newest) THEN limit ELSE Len(newest))

\* Mutant: the walk ends at the first commit that has no checkpoint.
WalkToFirstGap(c) == {d \in 1..c : \A e \in d..c : notes[e].kind # "none"}

\* The commits by_branch asks for from commit c on: one without a note is skipped.
Walk(c) == {d \in 1..c : notes[d].kind # "none"}

\* by_branch with no limit: one note that does not parse fails it.
ByBranch(c) ==
    IF \E d \in Walk(c) : ~Readable(d) THEN [ok |-> FALSE, found |-> {}]
    ELSE [ok |-> TRUE, found |-> {notes[d] : d \in Walk(c)}]

-----------------------------------------------------------------------------
(* compute_diff *)

Present(note) == {t \in Tasks : note.tasks[t] # "absent"}

TasksChanged(from, to) == [t \in {u \in Tasks : from.tasks[u] # to.tasks[u]} |-> to.tasks[t]]

ComputeDiff(from, to) ==
    [added    |-> DOMAIN to.files \ DOMAIN from.files,
     removed  |-> DOMAIN from.files \ DOMAIN to.files,
     modified |-> {p \in DOMAIN from.files \cap DOMAIN to.files : from.files[p] # to.files[p]},
     tasks    |-> TasksChanged(from, to),
     joined   |-> to.members \ from.members,
     left     |-> from.members \ to.members]

\* The command prints the lists of a diff, or that there are no differences.
NoDifferences(diff) ==
    diff.added \cup diff.removed \cup diff.modified \cup diff.joined \cup diff.left = {} /\ diff.tasks = <<>>

-----------------------------------------------------------------------------

CheckpointInit ==
    /\ history = <<>> /\ notes = <<>>
    /\ board = [t \in Tasks |-> "absent"] /\ crew = {}
    /\ trigger = [x \in Triggers |-> [pc |-> "idle"]]
    /\ clock = 0 /\ changes = 0 /\ onRecord = {} /\ crossed = FALSE

\* git: a commit, with whatever it leaves in the files.
Commit(tree) ==
    /\ Len(history) < MaxCommits
    /\ history # <<>> => Last(history) # tree
    /\ history' = Append(history, tree)
    /\ notes' = Append(notes, NoNote)
    /\ UNCHANGED <<board, crew, trigger, clock, changes, onRecord, crossed>>

Change ==
    /\ changes < MaxChanges
    /\ changes' = changes + 1
    /\ UNCHANGED <<history, trigger, clock, crossed>>

AddTask(t) ==
    /\ board[t] = "absent" /\ Change
    /\ board' = [board EXCEPT ![t] = "pending"]
    /\ UNCHANGED <<crew, notes, onRecord>>

Join(n) ==
    /\ n \notin crew /\ Change
    /\ crew' = crew \cup {n}
    /\ UNCHANGED <<board, notes, onRecord>>

\* CheckpointStore::delete.
DeleteNote(c) ==
    /\ c \in DOMAIN notes /\ notes[c] # NoNote /\ Change
    /\ notes' = [notes EXCEPT ![c] = NoNote]
    /\ onRecord' = {r \in onRecord : r[1] # c}
    /\ UNCHANGED <<board, crew>>

\* Somebody edits the note: it no longer parses.
BreakNote(c) ==
    /\ c \in DOMAIN notes /\ Readable(c) /\ Change
    /\ notes' = [notes EXCEPT ![c] = Broken]
    /\ onRecord' = {r \in onRecord : r[1] # c}
    /\ UNCHANGED <<board, crew>>

\* update_task to completed, and the first reads of the collector: it fails,
\* and no more than a warning is logged, while HEAD has no commit.
Complete(x, t) ==
    /\ trigger[x].pc = "idle" /\ board[t] = "pending"
    /\ board' = [board EXCEPT ![t] = "completed"]
    /\ IF history = <<>>
       THEN UNCHANGED <<trigger, clock>>
       ELSE /\ clock' = clock + 1
            /\ trigger' = [trigger EXCEPT ![x] =
                  [pc |-> "team", task |-> t,
                   ckpt |-> [kind |-> "checkpoint", commit |-> Len(history), created |-> clock',
                             files |-> CollectFiles(Len(history))]]]
    /\ crossed' = (crossed \/ \E y \in Triggers \ {x} : trigger[y].pc # "idle")
    /\ UNCHANGED <<history, crew, notes, changes, onRecord>>

CollectTeamState(x) ==
    /\ trigger[x].pc = "team"
    /\ trigger' = [trigger EXCEPT ![x] =
          [pc |-> "tasks", task |-> @.task, ckpt |-> @.ckpt, members |-> crew]]
    /\ UNCHANGED <<history, board, crew, notes, clock, changes, onRecord, crossed>>

CollectTasks(x) ==
    /\ trigger[x].pc = "tasks"
    /\ trigger' = [trigger EXCEPT ![x] =
          [pc |-> "save", task |-> @.task,
           ckpt |-> [kind |-> "checkpoint", commit |-> @.ckpt.commit, created |-> @.ckpt.created,
                     files |-> @.ckpt.files, members |-> @.members, tasks |-> board]]]
    /\ UNCHANGED <<history, board, crew, notes, clock, changes, onRecord, crossed>>

\* Repository::note with force: an older note of the commit is replaced.
Note(old, ckpt) == ckpt

SaveNote(x) ==
    /\ trigger[x].pc = "save"
    /\ LET ckpt == trigger[x].ckpt
       IN  /\ notes' = [notes EXCEPT ![ckpt.commit] = Note(@, ckpt)]
           /\ onRecord' = onRecord \cup {<<ckpt.commit, trigger[x].task>>}
    /\ trigger' = [trigger EXCEPT ![x] = [pc |-> "idle"]]
    /\ UNCHANGED <<history, board, crew, clock, changes, crossed>>

CheckpointNext ==
    \/ \E tree \in Trees : Commit(tree)
    \/ \E t \in Tasks : AddTask(t)
    \/ \E n \in Names : Join(n)
    \/ \E c \in DOMAIN notes : DeleteNote(c) \/ BreakNote(c)
    \/ \E x \in Triggers :
          \/ \E t \in Tasks : Complete(x, t)
          \/ CollectTeamState(x) \/ CollectTasks(x) \/ SaveNote(x)

CheckpointSpec == CheckpointInit /\ [][CheckpointNext]_checkpointVars

-----------------------------------------------------------------------------

CheckpointTypeOK ==
    /\ \A c \in DOMAIN history : history[c] \in Trees
    /\ DOMAIN notes = DOMAIN history
    /\ board \in [Tasks -> {"absent", "pending", "completed"}] /\ crew \subseteq Names
    /\ \A c \in DOMAIN notes : Readable(c) => notes[c].commit = c /\ notes[c].created \in 1..clock
    /\ \A x \in Triggers : trigger[x].pc \in {"idle", "team", "tasks", "save"}

\* A checkpoint that was saved for a completed task still shows that task as
\* completed when later completions have overwritten the note of the commit,
\* as long as callers do not collect at the same time (when they do, the one
\* that collected first may save last and take the other's completion away).
CompletionsOnRecord ==
    ~crossed => \A r \in onRecord : Readable(r[1]) /\ notes[r[1]].tasks[r[2]] = "completed"

\* What a diff reports turns the first checkpoint into the second: its tasks,
\* its members, and the files with their hashes; and no differences are printed
\* only when these agree.
DiffReplays ==
    \A c, d \in DOMAIN notes : Readable(c) /\ Readable(d) =>
        LET from == notes[c]
            to   == notes[d]
            diff == ComputeDiff(from, to)
        IN  /\ [t \in Tasks |-> IF t \in DOMAIN diff.tasks THEN diff.tasks[t] ELSE from.tasks[t]] = to.tasks
            /\ (from.members \ diff.left) \cup diff.joined = to.members
            /\ (DOMAIN from.files \ diff.removed) \cup diff.added = DOMAIN to.files
            /\ \A p \in DOMAIN to.files \ (diff.added \cup diff.modified) : from.files[p] = to.files[p]
            /\ NoDifferences(diff) <=>
                  <<from.files, from.tasks, from.members>> = <<to.files, to.tasks, to.members>>

\* The walk along the branch and the timeline show the same checkpoints, and
\* the timeline cut to n shows the n newest; a note that does not parse fails
\* the walk and is left out of the timeline.
QueriesAgree ==
    LET all == List(MaxCommits)
    IN  /\ ByBranch(Len(history)).ok =>
              ByBranch(Len(history)).found = {all[k] : k \in DOMAIN all}
        /\ \A n \in 0..Len(all) : \A k \in 1..Len(List(n)), j \in n + 1..Len(all) :
              List(n)[k].created > all[j].created
=============================================================================
