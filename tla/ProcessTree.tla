----------------------------- MODULE ProcessTree -----------------------------
(***************************************************************************)
(* MCP server processes and the Claude Code they belong to                 *)
(* (src/src/bin/team_mode_mcp.rs, src/src/util/mod.rs), on a system that   *)
(* gives the numbers of ended processes to new ones.  A starting server    *)
(* finds its Claude Code past shell wrappers, kills servers without a      *)
(* living ancestor, and ends when its Claude Code is gone.  A process      *)
(* keeps its parent's number after the parent has ended.                   *)
(***************************************************************************)
EXTENDS Naturals

CONSTANTS Pids,      \* process numbers
          MaxDepth,  \* of a walk to the ancestors
          MaxSeconds,\* bound on the clock, in seconds
          MaxSpawns  \* bound on processes

\* A process number of 0 is no process's (a root's parent).
ASSUME TreeConstants == 0 \notin Pids /\ MaxDepth \in Nat

NoProcess == [name |-> "none"]
ProcessNames == {"node", "codex", "cmd", "mcp"}

\* TRUSTED_OWNER_STEMS: what a server may belong to
Trusted == {"node", "codex"}

VARIABLES table,     \* the process at every number, NoProcess if there is none
          seconds,   \* the clock
          spawns,
          wrongKill, \* ghost: a sweep killed a server whose ancestors live
          wrongSpare,\* ghost: a sweep spared one without, for no reason
          wrongExit, \* ghost: a server ended though its Claude Code lives
          wrongStay  \* ghost: a server stayed though it is gone, for no reason

treeVars == <<table, seconds, spawns, wrongKill, wrongSpare, wrongExit, wrongStay>>

Alive(t) == {p \in Pids : t[p].name # "none"}

TreeInit ==
    /\ table = [p \in Pids |-> NoProcess] /\ seconds = 0 /\ spawns = 0
    /\ wrongKill = FALSE /\ wrongSpare = FALSE /\ wrongExit = FALSE /\ wrongStay = FALSE

\* "real": the process that has the parent's number is the parent.  A server
\* goes through "new", "resolved" and "swept" to "watch", with the Claude Code
\* it watches; a worker's relay, below codex, neither sweeps nor watches.
Process(name, parent) ==
    [name |-> name, parent |-> parent, real |-> TRUE, start |-> seconds,
     stage |-> IF parent # 0 /\ table[parent].name = "codex" THEN "relay" ELSE "new",
     cc |-> 0, ccStart |-> 0, gone |-> FALSE]

\* Those that end: their numbers are free, what was theirs is no longer real.
Without(t, dead) ==
    [p \in Pids |->
        IF p \in dead \/ t[p].name = "none" THEN NoProcess
        ELSE [t[p] EXCEPT !.real = @ /\ t[p].parent \notin dead, !.gone = @ \/ t[p].cc \in dead]]

-----------------------------------------------------------------------------
(* The walks                                                               *)

\* Mutant: any process at the parent's number will do.
AnyParent(parent, child) == TRUE

\* A parent is not younger than its child.
BornBefore(parent, child) == parent.start <= child.start

\* The next process up from c, the d-th of the walk: it stays at a trusted name
\* and fails, with 0, at a number nobody has and at a parent younger than its child.
PeerHop(d, c) ==
    IF c = 0 THEN 0
    ELSE IF d > 1 /\ table[c].name \in Trusted THEN c
    ELSE LET q == table[c].parent
         IN  IF q \in Alive(table) /\ BornBefore(table[q], table[c]) THEN q ELSE 0

PeerWalk(p) == LET walk[d \in 0..MaxDepth] == IF d = 0 THEN p ELSE PeerHop(d, walk[d - 1]) IN walk

\* peer_trusted_ancestor: 0 if the walk comes to none.
PeerTrustedAncestor(p) ==
    LET top == PeerWalk(p)[MaxDepth]
    IN  IF top # 0 /\ table[top].name \in Trusted THEN top ELSE 0

\* resolve_cc_pid_from: past the wrappers, to a number nobody has at worst.
ResolveCcPid(p) ==
    LET walk[d \in 0..MaxDepth] ==
          IF d = 0 THEN table[p].parent
          ELSE LET c == walk[d - 1]
               IN  IF c \in Alive(table) /\ table[c].name = "cmd" /\ table[c].parent # 0
                   THEN table[c].parent ELSE c
    IN  walk[MaxDepth]

\* The ancestors that really are: up to a trusted name along real links.
RealHop(d, c) ==
    IF c = 0 THEN 0
    ELSE IF d > 1 /\ table[c].name \in Trusted THEN c
    ELSE IF table[c].parent \in Alive(table) /\ table[c].real THEN table[c].parent
    ELSE 0

RealWalk(p) == LET up[d \in 0..MaxDepth] == IF d = 0 THEN p ELSE RealHop(d, up[d - 1]) IN up

ReallyOwned(p) == RealWalk(p)[MaxDepth] # 0 /\ table[RealWalk(p)[MaxDepth]].name \in Trusted

\* A number was given away within the second its child started in.
SameSecond == \E p \in Alive(table) : ~table[p].real /\ table[p].parent \in Alive(table)
                                      /\ table[table[p].parent].start = table[p].start

-----------------------------------------------------------------------------
(* The system                                                              *)

Spawn ==
    /\ spawns < MaxSpawns /\ spawns' = spawns + 1
    /\ \E p \in Pids \ Alive(table) :
         \/ \E name \in Trusted : table' = [table EXCEPT ![p] = Process(name, 0)]
         \/ \E q \in Alive(table), name \in {"cmd", "mcp"} :
              /\ table[q].name # "mcp"
              /\ table' = [table EXCEPT ![p] = Process(name, q)]
    /\ UNCHANGED <<seconds, wrongKill, wrongSpare, wrongExit, wrongStay>>

Exit ==
    /\ \E p \in Alive(table) : table' = Without(table, {p})
    /\ UNCHANGED <<seconds, spawns, wrongKill, wrongSpare, wrongExit, wrongStay>>

SecondPasses == seconds < MaxSeconds /\ seconds' = seconds + 1 /\ UNCHANGED <<table, spawns, wrongKill, wrongSpare, wrongExit, wrongStay>>

-----------------------------------------------------------------------------
(* The server                                                              *)

McpProcesses == {p \in Alive(table) : table[p].name = "mcp"}

\* main: current_cc_pid
Resolve(p) ==
    /\ p \in McpProcesses /\ table[p].stage = "new"
    /\ table' = [table EXCEPT ![p].stage = "resolved", ![p].cc = ResolveCcPid(p),
                              ![p].gone = ResolveCcPid(p) \notin Alive(table)]
    /\ UNCHANGED <<seconds, spawns, wrongKill, wrongSpare, wrongExit, wrongStay>>

\* sweep_zombie_mcp_peers; a kill may fail.
Sweep(p) ==
    /\ p \in McpProcesses /\ table[p].stage = "resolved"
    /\ LET zombies == {q \in McpProcesses \ {p} : PeerTrustedAncestor(q) = 0}
       IN  \E killed \in SUBSET zombies :
              /\ table' = Without([table EXCEPT ![p].stage = "swept"], killed)
              /\ wrongKill' = (wrongKill \/ \E q \in killed : ReallyOwned(q))
              /\ wrongSpare' = (wrongSpare \/
                 (~SameSecond /\ \E q \in McpProcesses \ (zombies \cup {p}) : ~ReallyOwned(q)))
    /\ UNCHANGED <<seconds, spawns, wrongExit, wrongStay>>

\* spawn_parent_liveness_watchdog takes the start time, or ends at once.
WatchStart(p) ==
    /\ p \in McpProcesses /\ table[p].stage = "swept"
    /\ LET cc == table[p].cc
       IN  IF cc \in Alive(table)
           THEN table' = [table EXCEPT ![p].stage = "watch", ![p].ccStart = table[cc].start]
           ELSE table' = Without(table, {p})
    /\ UNCHANGED <<seconds, spawns, wrongKill, wrongSpare, wrongExit, wrongStay>>

\* The start time tells a recycled number.
SameProcess(proc, start) == proc.start = start

\* cc_pid_alive
CcPidAlive(p) ==
    LET cc == table[p].cc
    IN  cc \in Alive(table) /\ table[cc].name = "node" /\ SameProcess(table[cc], table[p].ccStart)

WatchTick(p) ==
    /\ p \in McpProcesses /\ table[p].stage = "watch"
    /\ IF CcPidAlive(p) THEN UNCHANGED table ELSE table' = Without(table, {p})
    /\ wrongExit' = (wrongExit \/ (~CcPidAlive(p) /\ ~table[p].gone /\ table[table[p].cc].name = "node"))
    /\ wrongStay' = (wrongStay \/ (CcPidAlive(p) /\ table[p].gone /\ table[table[p].cc].start # table[p].ccStart))
    /\ UNCHANGED <<seconds, spawns, wrongKill, wrongSpare>>

TreeNext ==
    \/ Spawn \/ Exit \/ SecondPasses
    \/ \E p \in Pids : Sweep(p) \/ Resolve(p) \/ WatchStart(p) \/ WatchTick(p)

TreeSpec == TreeInit /\ [][TreeNext]_treeVars

-----------------------------------------------------------------------------

TreeTypeOK ==
    \A p \in Alive(table) :
        /\ table[p].name \in ProcessNames /\ table[p].start \in 0..seconds /\ table[p].parent \in Pids \cup {0}
        /\ table[p].stage \in {"new", "resolved", "swept", "watch", "relay"}

\* A starting server kills no server whose ancestors live up to a Claude Code or codex,
\* and spares one without only when a number was given away within a second:
\* a recycled number is otherwise known by its later start.
SweepIsRight == ~wrongKill /\ ~wrongSpare

\* A server ends only when the Claude Code it resolved is gone, and a recycled
\* number of it, of a process with the same name, does not keep it.
WatchdogIsRight == ~wrongExit /\ ~wrongStay

\* A starting server kills no server whose ancestors live up to a Claude Code or
\* codex and spares one without only when a number was given away within a
\* second; a server ends when the Claude Code it resolved is gone and not before,
\* recycled numbers included (spawn_cc_liveness_watchdog).
OnlyOrphansEnd == TreeTypeOK /\ SweepIsRight /\ WatchdogIsRight
=============================================================================
