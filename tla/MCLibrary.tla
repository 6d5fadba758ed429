------------------------------ MODULE MCLibrary ------------------------------
(***************************************************************************)
(* Small instances of the components of the agent-teams library.  They     *)
(* share no state in the code, so a behaviour is one of "which" of them,   *)
(* the others resting in their initial states.  Those LibraryParts holds   *)
(* are extended, their instances are the configuration's.                  *)
(***************************************************************************)
EXTENDS TLC, LibraryParts, TaskGraph

VARIABLES which,
  logs, chars,
  hook, wrote, exposed, calls, taken, usedUp, recent,
  disk, app, before, shrunk, unread, moves

\* Keywords that overlap themselves, hold a blank, begin another, or are empty.
MCKeywords == {<<>>, <<"a">>, <<"a", "b">>, <<"a", " ", "a">>, <<"b", "b">>}

\* Two logs of one agent, one of another.
SC == INSTANCE SessionCosts WITH LogFiles <- {1, 2, 3}, AgentOf <- (1 :> "a" @@ 2 :> "b" @@ 3 :> "a"),
        MaxLogLines <- 4, MaxChars <- 5, MaxLen <- 5

\* The hook file by itself, and commits with it in place or not.
HF == INSTANCE CommandLine WITH notes <- taken, logs <- usedUp, Logs <- {1, 2}, Agents <- {"me"},
        MaxLines <- 3, MaxCalls <- 4, MaxCommits <- 0, MaxUsage <- 0
CL == INSTANCE CommandLine WITH notes <- taken, logs <- usedUp, Logs <- {1, 2}, Agents <- {"me"},
        MaxLines <- 1, MaxCalls <- 2, MaxCommits <- 2, MaxUsage <- 2

\* Two teams, of which the one listed first comes later.
TU == INSTANCE Terminal WITH changes <- moves, DirOrder <- <<"t1", "t2">>, WithUsage <- {1, 3},
        Period <- 2, MaxTasks <- 2, MaxChanges <- 3

Components == {"tasks", "orchestrator", "inboxes", "memory", "consensus", "routers", "checkpoints", "costs",
               "hook", "cost", "terminal"}

LibraryInit ==
  /\ which \in Components
  /\ TaskInit /\ OrchInit /\ InboxInit /\ MemoryInit /\ ConsensusInit /\ RouterInit /\ CheckpointInit /\ SC!Init
  /\ CL!Init /\ TU!Init
  /\ which # "terminal" => app.asked = <<>>

costVars       == <<logs, chars>>
commandVars    == <<hook, wrote, exposed, calls, taken, usedUp, recent>>
terminalVars   == <<disk, app, before, shrunk, unread, moves>>

\* All but component c rest.
Rest(c) ==
  /\ which = c /\ UNCHANGED which
  /\ (c # "tasks" => UNCHANGED taskVars) /\ (c # "orchestrator" => UNCHANGED orchVars)
  /\ (c # "inboxes" => UNCHANGED inboxVars) /\ (c # "memory" => UNCHANGED memoryVars)
  /\ (c # "consensus" => UNCHANGED responses) /\ (c # "routers" => UNCHANGED routerVars)
  /\ (c # "checkpoints" => UNCHANGED checkpointVars) /\ (c # "costs" => UNCHANGED costVars)
  /\ (c \notin {"hook", "cost"} => UNCHANGED commandVars) /\ (c # "terminal" => UNCHANGED terminalVars)

LibraryNext ==
  \/ Rest("tasks") /\ TaskNext
  \/ Rest("orchestrator") /\ OrchNext
  \/ Rest("inboxes") /\ InboxNext
  \/ Rest("memory") /\ MemoryNext
  \/ Rest("consensus") /\ ConsensusNext
  \/ Rest("routers") /\ RouterNext
  \/ Rest("checkpoints") /\ CheckpointNext
  \/ Rest("costs") /\ SC!Next
  \/ Rest("hook") /\ HF!Next
  \/ Rest("cost") /\ CL!Next
  \/ Rest("terminal") /\ TU!Next

-----------------------------------------------------------------------------
(* The properties of the components that are instances, and of TaskGraph   *)

\* The agent-teams command says what is so.  The cycle check, the order with its
\* levels and the critical path are those of the dependencies, and work that is
\* open and has no cycle can go on (TaskGraph, handle_dag).  The agents' costs add
\* up to the total in whatever order the logs are found, and a summary is whole
\* characters that fit (aggregate_cost, truncate_string).  Installing and removing
\* the hook keeps the user's lines in order, but those the removal takes for ours;
\* the reported cost is covered by the logs unless one is counted twice
\* (handle_hook, checkpoint cost).  The dashboard's cursor, its open checkpoint and
\* its panes stay with what was last read (App).
CommandsAreSound ==
  /\ which = "tasks" => CycleCheckIsExact /\ OrderIsSound /\ CriticalPathIsLongest /\ WorkCanGoOn
  /\ which = "costs" => SC!CostTypeOK /\ SC!AgentsAddUp /\ SC!SummariesFit
  /\ which = "hook" => HF!CommandTypeOK /\ HF!HookIsTidy
  /\ which = "cost" => CL!CommandTypeOK /\ CL!CostIsCovered
  /\ which = "terminal" => /\ TU!TerminalTypeOK /\ TU!CursorIsOnList
                           /\ TU!DetailSlipsForward /\ TU!PanesAgree
=============================================================================
