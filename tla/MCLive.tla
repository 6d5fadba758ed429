-------------------------------- MODULE MCLive --------------------------------
(***************************************************************************)
(* Small instances of the components that promise something will happen:   *)
(* the teams and their lead watchdog, the daemon and its clients, the web  *)
(* UI's page.  Each is checked on its own: a behaviour is one of "which"   *)
(* of them, the others resting in their initial states.                    *)
(***************************************************************************)
EXTENDS Teams, Daemon, Dashboard

VARIABLE which

\* Two teams, the user goes from one to the other.
MCShown == <<"A", "B">>

Components == {"teams", "daemon", "dashboard"}

LiveInit == which \in Components /\ Init /\ DaemonInit /\ DashboardInit

liveVars == <<which, vars, daemonVars, dashboardVars>>

\* All but component c rest.
Rest(c) ==
  /\ which = c /\ UNCHANGED which
  /\ (c # "teams" => UNCHANGED vars) /\ (c # "daemon" => UNCHANGED daemonVars) /\ (c # "dashboard" => UNCHANGED dashboardVars)

LiveNext ==
  \/ Rest("teams") /\ Next
  \/ Rest("daemon") /\ DaemonNext
  \/ Rest("dashboard") /\ DashboardNext

\* The fairness of each component, where it runs: calls that were accepted are
\* served and timers fire, a client's waits have deadlines, the server answers
\* the page.
LiveSpec ==
  /\ LiveInit /\ [][LiveNext]_liveVars
  /\ WF_liveVars(Rest("teams") /\ ToolServes) /\ WF_liveVars(Rest("teams") /\ Watchdog)
  /\ \A c \in Clients : WF_liveVars(Rest("daemon") /\ (EnsureDaemon(c) \/ CallMethod(c)))
  /\ WF_liveVars(Rest("dashboard") /\ RefreshTimer)
  /\ WF_liveVars(Rest("dashboard") /\ reqs # <<>> /\ Answer(1))

-----------------------------------------------------------------------------
(* The components' properties                                              *)

\* Every component's variables have their types, and the lead watchdog's count
\* of a team's dead ticks stays below the grace.
LiveTypeOK ==
  /\ which \in Components
  /\ which = "teams" => TypeOK
  /\ which = "daemon" => DaemonTypeOK
  /\ which = "dashboard" => DashboardTypeOK
=============================================================================
