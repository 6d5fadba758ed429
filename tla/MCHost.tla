-------------------------------- MODULE MCHost --------------------------------
(***************************************************************************)
(* Small instances of the components around the teams: how the service and *)
(* its relays start, how the product is installed, the processes and their *)
(* sessions, how a message is routed, and what the web UI reads and shows. *)
(* Each is checked on its own: a behaviour is one of "which" of them, the  *)
(* others resting in an initial state.                                     *)
(***************************************************************************)
EXTENDS TLC, ServiceStart, Sessions, Routing, GlobalInstall, Conversations,
        EventFeed, ProcessTree, McpServer, ConversationPanel

VARIABLE which

\* Handles in capitals, of the lead, and of nobody.
MCLower == "A" :> "a"

\* Paths with a percent sign, one that reads as an escape, one beyond ASCII.
MCPaths == {<<47, 97>>, <<97, 37>>, <<37, 50, 53>>, <<200>>}

\* The parts of a conversation's reading that touch each other's state in nothing.
Conversing == {"claude", "codex", "reading"}

Components == Conversing \cup {"start", "install", "feed", "sessions", "routing", "mcp", "tree",
                               "turns", "panel"}

\* Where an initial state is a choice, only the component that runs makes it.
Init ==
  /\ which \in Components
  /\ StartInit /\ InstallInit /\ ConversationInit /\ FeedInit /\ TreeInit /\ TurnInit /\ PanelInit
  /\ SessionInit /\ (which # "sessions" => backend = "codex")
  /\ RoutingInit /\ (which # "routing" => up = {})
  /\ McpInit /\ (which # "mcp" => \A c \in Clients : conn[c].root = <<47, 97>>)

\* All but component c rest.
Rest(c) ==
  /\ which = c /\ UNCHANGED which
  /\ (c # "start" => UNCHANGED startVars) /\ (c # "install" => UNCHANGED installVars)
  /\ (c \notin Conversing => UNCHANGED conversationVars) /\ (c # "feed" => UNCHANGED feedVars)
  /\ (c # "sessions" => UNCHANGED sessionVars) /\ (c # "routing" => UNCHANGED routingVars)
  /\ (c # "mcp" => UNCHANGED mcpVars) /\ (c # "tree" => UNCHANGED treeVars)
  /\ (c # "turns" => UNCHANGED items) /\ (c # "panel" => UNCHANGED panelVars)

Next ==
  \/ Rest("start") /\ StartNext
  \/ Rest("install") /\ InstallNext
  \/ Rest("claude") /\ Claude
  \/ Rest("codex") /\ Codex
  \/ Rest("reading") /\ Reading
  \/ Rest("feed") /\ FeedNext
  \/ Rest("sessions") /\ SessionNext
  \/ Rest("routing") /\ RoutingNext
  \/ Rest("mcp") /\ McpNext
  \/ Rest("tree") /\ TreeNext
  \/ Rest("turns") /\ TurnNext
  \/ Rest("panel") /\ PanelNext

=============================================================================
