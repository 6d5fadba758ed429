------------------------------ MODULE Dashboard ------------------------------
(***************************************************************************)
(* The web page's view of a team (src/web/team-mode/app.js and             *)
(* app-dashboard.js, in a browser with EventSource): the selected team,    *)
(* what is shown of its members, and the dashboard kept up to date by a    *)
(* stream, by polling once the stream failed, and by a refresh every two   *)
(* seconds.  Requests overlap and are answered in any order; what a team   *)
(* looks like is a version number, and an answer holds a version between   *)
(* the request's and the present one.                                      *)
(***************************************************************************)
EXTENDS Naturals, FiniteSets, Sequences, SequencesExt

CONSTANTS Shown,        \* teams, in the order of the server's list
          Unselected,
          ErrorLimit,   \* stream errors in a row (DASHBOARD_SSE_RUNTIME_ERROR_LIMIT, 3)
          RefreshLimit, \* failed refreshes in a row (3)
          MaxSelects,   \* bound on what the user does
          MaxVersions,  \* bound on the changes of all teams
          MaxFailures,  \* bound on failed requests, stream errors and deleted teams
          MaxOverlap    \* bound on requests of one kind in flight

ASSUME DashboardConstants == ErrorLimit \in Nat /\ RefreshLimit \in Nat

VARIABLES truth,        \* team -> its version on the server
          gone,         \* teams deleted on the server
          teamId,       \* state.teamId
          loading,      \* which of loadingTeams, loadingTeam are set
          members,      \* state.members with the room: of which team, which version
          dashboard,    \* the dashboard's workers: of which team, which version
          connection,   \* the team the dashboard is connected to, and its cursor
          source,       \* the EventSource: team, generation, errors, state
          streams,      \* streams the browser may still deliver frames of
          generation,
          polling,      \* the poll timer is set
          refreshFailures,
          reqs,         \* requests in flight, oldest first
          selects, failed

dashboardVars == <<truth, gone, teamId, loading, members, dashboard, connection, source, streams,
                   generation, polling, refreshFailures, reqs, selects, failed>>

TeamIds == ToSet(Shown)
Nothing == [team |-> Unselected, v |-> 0]
NoSource == [team |-> Unselected, gen |-> 0, errors |-> 0, connected |-> FALSE, before |-> FALSE]

Request(kind, t) == [kind |-> kind, team |-> t, gen |-> 0, from |-> IF t = Unselected THEN 0 ELSE truth[t]]
InFlight(kind) == Cardinality({k \in DOMAIN reqs : reqs[k].kind = kind})
Versions(req) == req.from..truth[req.team]

pageVars == <<teamId, loading, members, refreshFailures>>
feedVars == <<dashboard, connection, source, streams, generation, polling>>

DashboardInit ==
    /\ truth = [t \in TeamIds |-> 1] /\ gone = {}
    /\ teamId = Unselected /\ loading = {"teams"} /\ members = Nothing
    /\ dashboard = Nothing /\ connection = [team |-> Unselected, cursor |-> 0]
    /\ source = NoSource /\ streams = {} /\ generation = 0 /\ polling = FALSE
    /\ refreshFailures = 0
    /\ reqs = <<[kind |-> "teams", team |-> Unselected, gen |-> 0, from |-> 0]>>
    /\ selects = 0 /\ failed = 0

-----------------------------------------------------------------------------
(* The server and the user                                                 *)

Change(t) ==
    /\ \A u \in TeamIds : truth[u] < MaxVersions
    /\ t \notin gone
    /\ truth' = [truth EXCEPT ![t] = @ + 1]
    /\ UNCHANGED <<gone, pageVars, feedVars, reqs, selects, failed>>

DeleteTeam(t) ==
    /\ t \notin gone /\ failed < MaxFailures
    /\ gone' = gone \cup {t} /\ failed' = failed + 1
    /\ UNCHANGED <<truth, pageVars, feedVars, reqs, selects>>

\* The team list: the selection moves at once, its data when it is loaded.
SelectTeam(t) ==
    /\ selects < MaxSelects /\ t # teamId
    /\ selects' = selects + 1
    /\ teamId' = t /\ loading' = loading \cup {"team"}
    /\ reqs' = Append(reqs, Request("load", t))
    /\ UNCHANGED <<truth, gone, members, refreshFailures, feedVars, failed>>

\* The reload button.
Reload ==
    /\ selects < MaxSelects /\ teamId # Unselected
    /\ selects' = selects + 1
    /\ loading' = loading \cup {"team"}
    /\ reqs' = Append(reqs, Request("load", teamId))
    /\ UNCHANGED <<truth, gone, teamId, members, refreshFailures, feedVars, failed>>

-----------------------------------------------------------------------------
(* The dashboard's connection                                              *)

\* closeTeamEvents, with the stream's generation moved on.
CloseTeamEvents ==
    /\ source' = NoSource /\ generation' = generation + 1 /\ polling' = FALSE

\* openTeamEvents: a snapshot of what was loaded, and a stream with no cursor,
\* which begins at the present version.
OpenTeamEvents(t, v) ==
    /\ dashboard' = [team |-> t, v |-> v]
    /\ connection' = [team |-> t, cursor |-> 0]
    /\ generation' = generation + 1 /\ polling' = FALSE
    /\ source' = [NoSource EXCEPT !.team = t, !.gen = generation + 1]
    /\ streams' = streams \cup {[team |-> t, gen |-> generation + 1, at |-> truth[t]]}

\* dashboardRequestIsCurrent
IsCurrent(t) == t = teamId /\ t = connection.team
SseIsCurrent(s) == s.team = source.team /\ s.gen = source.gen /\ IsCurrent(s.team)

\* Mutant: the members refreshed are not brought to the dashboard.
NotReconciled(t, v) == dashboard

\* reconcileDashboardWorkersFromMembers
Reconciled(t, v) == IF connection.team = t THEN [team |-> t, v |-> v] ELSE dashboard

\* A frame of the open stream, or of one closed while it was on its way.
Frame(s) ==
    /\ s \in streams /\ s.at < truth[s.team]
    /\ streams' = (streams \ {s}) \cup {[s EXCEPT !.at = @ + 1]}
    /\ IF SseIsCurrent(s)
       THEN /\ dashboard' = [dashboard EXCEPT !.v = s.at + 1]
            /\ connection' = [connection EXCEPT !.cursor = s.at + 1]
            /\ source' = [source EXCEPT !.errors = 0, !.connected = TRUE, !.before = TRUE]
            /\ reqs' = IF source.before /\ ~source.connected
                       THEN Append(reqs, [Request("resnapshot", s.team) EXCEPT !.gen = s.gen]) ELSE reqs
       ELSE UNCHANGED <<dashboard, connection, source, reqs>>
    /\ UNCHANGED <<truth, gone, pageVars, generation, polling, selects, failed>>

\* onopen; after an error the members are read again.
Opened(s) ==
    /\ s \in streams /\ SseIsCurrent(s) /\ ~source.connected
    /\ source' = [source EXCEPT !.errors = 0, !.connected = TRUE, !.before = TRUE]
    /\ reqs' = IF source.before THEN Append(reqs, [Request("resnapshot", s.team) EXCEPT !.gen = s.gen]) ELSE reqs
    /\ UNCHANGED <<truth, gone, pageVars, dashboard, connection, streams, generation, polling, selects, failed>>

\* onerror: the browser reconnects by itself; at the limit polling takes over.
StreamError(s) ==
    /\ s \in streams /\ SseIsCurrent(s)
    /\ failed < MaxFailures /\ failed' = failed + 1
    /\ IF source.errors + 1 < ErrorLimit
       THEN /\ source' = [source EXCEPT !.errors = @ + 1, !.connected = FALSE]
            /\ UNCHANGED <<streams, generation, polling, reqs>>
       ELSE /\ source' = NoSource /\ generation' = generation + 1 /\ polling' = TRUE
            /\ streams' = streams \ {s}
            /\ reqs' = Append(reqs, Request("resnapshot", s.team))
    /\ UNCHANGED <<truth, gone, pageVars, dashboard, connection, selects>>

PollTimer ==
    /\ polling /\ connection.team # Unselected /\ InFlight("poll") < MaxOverlap
    /\ reqs' = Append(reqs, [Request("poll", connection.team) EXCEPT !.gen = connection.cursor])
    /\ UNCHANGED <<truth, gone, pageVars, feedVars, selects, failed>>

RefreshTimer ==
    /\ loading = {} /\ teamId # Unselected /\ InFlight("refresh") < MaxOverlap
    /\ reqs' = Append(reqs, Request("refresh", teamId))
    /\ UNCHANGED <<truth, gone, pageVars, feedVars, selects, failed>>

-----------------------------------------------------------------------------
(* Answers, to the k-th request                                            *)

Fails(req) == req.team \in gone
Remaining(k) == RemoveAt(reqs, k)

\* loadTeams opens the selected team if it is still there, else the first.
Opens(t) ==
    /\ t \notin gone
    /\ \/ t = teamId
       \/ /\ teamId \notin TeamIds \ gone
          /\ \E i \in DOMAIN Shown : t = Shown[i] /\ \A j \in 1..(i - 1) : Shown[j] \in gone

TeamsAnswered(k) ==
    /\ reqs[k].kind = "teams"
    /\ \/ \E t \in TeamIds : /\ Opens(t)
                             /\ teamId' = t /\ loading' = loading \cup {"team"}
                             /\ reqs' = Append(Remaining(k), [Request("load", t) EXCEPT !.gen = 1])
                             /\ UNCHANGED <<members, source, generation, polling>>
       \/ /\ TeamIds \subseteq gone
          /\ teamId' = Unselected /\ loading' = loading \ {"teams"}
          /\ members' = Nothing /\ reqs' = Remaining(k)
          /\ CloseTeamEvents
    /\ UNCHANGED <<truth, gone, refreshFailures, dashboard, connection, streams, selects, failed>>

\* loadTeam sets the team with its data; the flags go down after diagnostics.
LoadAnswered(k) ==
    /\ reqs[k].kind = "load" /\ ~Fails(reqs[k])
    /\ \E v \in Versions(reqs[k]) :
        /\ teamId' = reqs[k].team
        /\ members' = [team |-> reqs[k].team, v |-> v]
        /\ OpenTeamEvents(reqs[k].team, v)
    /\ reqs' = Append(Remaining(k), [Request("diagnostics", reqs[k].team) EXCEPT !.gen = reqs[k].gen])
    /\ UNCHANGED <<truth, gone, loading, refreshFailures, selects, failed>>

LoadFails(k) ==
    /\ reqs[k].kind = "load" /\ Fails(reqs[k])
    /\ members' = Nothing
    /\ loading' = loading \ (IF reqs[k].gen = 1 THEN {"teams", "team"} ELSE {"team"})
    /\ CloseTeamEvents
    /\ reqs' = Remaining(k)
    /\ UNCHANGED <<truth, gone, teamId, refreshFailures, dashboard, connection, streams, selects, failed>>

DiagnosticsAnswered(k) ==
    /\ reqs[k].kind = "diagnostics"
    /\ loading' = loading \ (IF reqs[k].gen = 1 THEN {"teams", "team"} ELSE {"team"})
    /\ reqs' = Remaining(k)
    /\ UNCHANGED <<truth, gone, teamId, members, refreshFailures, feedVars, selects, failed>>

\* Mutant: the answer is taken whatever team is selected by now.
TakenAnyway(req) == TRUE

\* The team of the request is still the selected one.
StillSelected(req) == req.team = teamId

RefreshAnswered(k) ==
    /\ reqs[k].kind = "refresh" /\ ~Fails(reqs[k])
    /\ IF StillSelected(reqs[k])
       THEN \E v \in Versions(reqs[k]) :
              /\ members' = [team |-> reqs[k].team, v |-> v]
              /\ dashboard' = Reconciled(reqs[k].team, v)
              /\ refreshFailures' = 0
       ELSE UNCHANGED <<members, dashboard, refreshFailures>>
    /\ reqs' = Remaining(k)
    /\ UNCHANGED <<truth, gone, teamId, loading, connection, source, streams, generation, polling, selects, failed>>

\* Not found: the page lets go of the team at once.  Another error counts.
RefreshFails(k) ==
    /\ reqs[k].kind = "refresh"
    /\ Fails(reqs[k]) \/ failed < MaxFailures
    /\ failed' = IF Fails(reqs[k]) THEN failed ELSE failed + 1
    /\ IF ~StillSelected(reqs[k])
       THEN UNCHANGED <<teamId, members, loading, refreshFailures, source, generation, polling>> /\ reqs' = Remaining(k)
       ELSE IF Fails(reqs[k]) \/ refreshFailures + 1 >= RefreshLimit
       THEN /\ teamId' = Unselected /\ members' = Nothing /\ refreshFailures' = 0
            /\ loading' = loading \cup {"teams"}
            /\ reqs' = Append(Remaining(k), Request("teams", Unselected))
            /\ IF Fails(reqs[k]) THEN CloseTeamEvents ELSE UNCHANGED <<source, generation, polling>>
       ELSE /\ refreshFailures' = refreshFailures + 1 /\ reqs' = Remaining(k)
            /\ UNCHANGED <<teamId, members, loading, source, generation, polling>>
    /\ UNCHANGED <<truth, gone, dashboard, connection, streams, selects>>

\* After the stream's limit a poll follows at once (gen is 0), else none.
ResnapshotAnswered(k) ==
    /\ reqs[k].kind = "resnapshot"
    /\ IF ~Fails(reqs[k]) /\ StillSelected(reqs[k])
          /\ (reqs[k].gen # 0 => SseIsCurrent(reqs[k]))
       THEN \E v \in Versions(reqs[k]) :
              members' = [team |-> reqs[k].team, v |-> v] /\ dashboard' = Reconciled(reqs[k].team, v)
       ELSE UNCHANGED <<members, dashboard>>
    /\ reqs' = IF reqs[k].gen = 0 /\ connection.team # Unselected
               THEN Append(Remaining(k), [Request("poll", connection.team) EXCEPT !.gen = connection.cursor])
               ELSE Remaining(k)
    /\ UNCHANGED <<truth, gone, teamId, loading, refreshFailures, connection, source, streams, generation,
                   polling, selects, failed>>

\* Events after the request's cursor; an error only delays the next poll.
PollAnswered(k) ==
    /\ reqs[k].kind = "poll"
    /\ IF ~Fails(reqs[k]) /\ IsCurrent(reqs[k].team)
       THEN \E v \in Versions(reqs[k]) :
              /\ connection' = [connection EXCEPT !.cursor = v]
              /\ dashboard' = IF reqs[k].gen # 0 /\ v > reqs[k].gen THEN [dashboard EXCEPT !.v = v] ELSE dashboard
       ELSE UNCHANGED <<connection, dashboard>>
    /\ reqs' = Remaining(k)
    /\ UNCHANGED <<truth, gone, pageVars, source, streams, generation, polling, selects, failed>>

Answer(k) ==
    \/ TeamsAnswered(k) \/ LoadAnswered(k) \/ LoadFails(k) \/ DiagnosticsAnswered(k)
    \/ RefreshAnswered(k) \/ RefreshFails(k) \/ ResnapshotAnswered(k) \/ PollAnswered(k)

DashboardNext ==
    \/ \E t \in TeamIds : Change(t) \/ DeleteTeam(t) \/ SelectTeam(t)
    \/ Reload
    \/ \E s \in streams : Frame(s) \/ Opened(s) \/ StreamError(s)
    \/ PollTimer \/ RefreshTimer
    \/ \E k \in DOMAIN reqs : Answer(k)

\* The timers run and the server answers every request.
DashboardFairness ==
    /\ WF_dashboardVars(RefreshTimer)
    /\ WF_dashboardVars(reqs # <<>> /\ Answer(1))

DashboardSpec == DashboardInit /\ [][DashboardNext]_dashboardVars /\ DashboardFairness

-----------------------------------------------------------------------------

DashboardTypeOK ==
    /\ teamId \in TeamIds \cup {Unselected}
    /\ loading \subseteq {"teams", "team"}
    /\ members.team \in TeamIds \cup {Unselected} /\ dashboard.team \in TeamIds \cup {Unselected}
    /\ refreshFailures \in 0..RefreshLimit
    /\ source.errors \in 0..ErrorLimit

\* No answer of a team the user has left changes what is shown of the one he
\* went to: members of another team are shown only until the load of the
\* selected one is answered, and the dashboard's workers are always those of
\* the team it is connected to (loadTeam, refreshCurrentTeam,
\* resnapshotDashboardMembers, dashboardRequestIsCurrent).
NoCrossTalk ==
    /\ members.team \in {Unselected, teamId}
         \/ \E k \in DOMAIN reqs : reqs[k].kind \in {"load", "teams"} /\ reqs[k].team \in {Unselected, teamId}
    /\ dashboard.team = connection.team

\* When the server stops changing, the page comes to show it as it is, whatever
\* was lost or came in the wrong order (startAutoRefresh).
PageSettles ==
    <>[](teamId \in TeamIds \ gone
           => /\ members = [team |-> teamId, v |-> truth[teamId]]
              /\ connection.team = teamId => dashboard = members)
=============================================================================
