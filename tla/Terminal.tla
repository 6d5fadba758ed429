------------------------------- MODULE Terminal -------------------------------
(***************************************************************************)
(* The terminal dashboard (src/src/tui): three tabs over what was last     *)
(* read of the teams' files, the repository's checkpoints and the session  *)
(* logs.  Keys and ticks arrive through one channel; each is handled and   *)
(* then the screen is drawn.  The disk moves on between two refreshes.     *)
(* Left out: scroll_offset, which nothing reads, resizes and wording.      *)
(***************************************************************************)
EXTENDS Integers, FiniteSets, Sequences, SequencesExt

CONSTANTS DirOrder,     \* the team directories there may be, as read_dir lists them
          WithUsage,    \* checkpoints (numbered by age) that carry token usage
          Period,       \* ticks from one refresh to the next (16)
          MaxTasks,     \* bound on the tasks of a team
          MaxChanges    \* bound on what happens on disk

VARIABLES disk,         \* teams with their files, checkpoints, logs
          app,          \* App: what was read, and where the user is
          before,       \* history: the list a detail was opened from
          shrunk,       \* history: the active list has got shorter under the cursor
          unread,       \* history: no config was read at the last refresh
          changes

terminalVars == <<disk, app, before, shrunk, unread, changes>>

Tabs == <<"TeamStatus", "Checkpoints", "TokenCosts">>
List == 0                       \* CheckpointView: the list, or the row of a detail
NoData == [team |-> "none", tasks |-> 0]

-----------------------------------------------------------------------------
(* refresh_all                                                             *)

Discovered == SelectSeq(DirOrder, LAMBDA t : t \in DOMAIN disk.teams)

\* The team asked for, or the first directory.
Focus(asked, teams) == IF asked # <<>> \/ teams = <<>> THEN asked ELSE <<Head(teams)>>

\* What refresh_teams leaves: a config that cannot be read keeps the old data.
TeamRead(name) == name # <<>> /\ name[1] \in DOMAIN disk.teams /\ disk.teams[name[1]].config = "good"

RefreshTeams(a) ==
    LET name == Focus(a.asked, Discovered)
    IN  [a EXCEPT !.teams = Discovered,
                  !.data = IF TeamRead(name)
                           THEN [team |-> name[1], tasks |-> disk.teams[name[1]].tasks]
                           ELSE @]

NewestFirst(ids) == SetToSortSeq(ids, LAMBDA x, y : x > y)

RefreshCheckpoints(a) ==
    CASE disk.repo = "open"   -> [a EXCEPT !.list = NewestFirst(disk.notes), !.error = FALSE]
      [] disk.repo = "broken" -> [a EXCEPT !.error = TRUE]
      [] disk.repo = "absent" -> [a EXCEPT !.list = <<>>, !.error = TRUE]

\* The usage of the checkpoints read: no breakdown by agent.
AggregateCheckpointCosts(list) ==
    LET used == SelectSeq(list, LAMBDA c : c \in WithUsage)
    IN  [from |-> IF used = <<>> THEN "nothing" ELSE "checkpoints", count |-> Len(used), agents |-> 0]

RefreshCosts(a) ==
    [a EXCEPT !.costs = IF disk.agents = 0 THEN AggregateCheckpointCosts(a.list)
                        ELSE [from |-> "logs", count |-> disk.agents, agents |-> disk.agents]]

RefreshAll(a) == RefreshCosts(RefreshCheckpoints(RefreshTeams(a)))

\* Mutant: the costs are read before the checkpoints they come from.
RefreshCostsFirst(a) == RefreshCheckpoints(RefreshCosts(RefreshTeams(a)))

-----------------------------------------------------------------------------
(* What is drawn                                                           *)

\* The rows of each tab as they are drawn; an error hides the checkpoints.
TaskRows(a) == a.data.tasks
CheckpointRows(a) == IF a.error THEN 0 ELSE Len(a.list)
CostRows(a) == a.costs.agents

Drawn(a) == <<TaskRows(a), CheckpointRows(a), CostRows(a)>>[a.tab]

\* list_len, which the cursor moves in: a hidden list counts.
Rows(a) == IF a.tab = 2 THEN Len(a.list) ELSE Drawn(a)

\* The checkpoint in the detail, or 0: "Checkpoint not found".
Shown(a) == IF a.view \in DOMAIN a.list THEN a.list[a.view] ELSE 0

StatusBar(a) == Focus(a.asked, a.teams)
Header(a) == a.data.team

\* What the cost summary is of: checkpoints or logs, and how many.
Summary(a) == a.costs

-----------------------------------------------------------------------------

Empty(asked) ==
    [tab |-> 1, quit |-> FALSE, asked |-> asked, teams |-> <<>>, data |-> NoData,
     list |-> <<>>, error |-> FALSE, view |-> List, selected |-> 1, ticks |-> 0,
     costs |-> [from |-> "nothing", count |-> 0, agents |-> 0]]

\* App::new reads everything once.
Init ==
    /\ disk = [teams |-> [t \in {Last(DirOrder)} |-> [config |-> "good", tasks |-> MaxTasks]],
               repo |-> "open", notes |-> {1, 2}, created |-> 2, agents |-> 0]
    /\ \E asked \in {<<>>, <<Last(DirOrder)>>} : app = RefreshAll(Empty(asked))
    /\ before = <<>> /\ shrunk = FALSE /\ unread = FALSE /\ changes = 0

Running == ~app.quit

\* A key that does not refresh.
Key(after) ==
    /\ Running /\ app' = after
    /\ UNCHANGED <<disk, unread, changes>>

SwitchTab(tab) ==
    IF app.tab = tab THEN app ELSE [app EXCEPT !.tab = tab, !.selected = 1, !.view = List]

\* Mutant: the cursor stays where it was.
KeepCursor(tab) == [app EXCEPT !.tab = tab, !.view = List]

ChangeTab(tab) ==
    /\ Key(SwitchTab(tab))
    /\ shrunk' = (shrunk /\ app.tab = tab)
    /\ before' = IF app.tab = tab THEN before ELSE <<>>

NextTab == ChangeTab(1 + (app.tab % Len(Tabs)))
PrevTab == ChangeTab(1 + ((app.tab + Len(Tabs) - 2) % Len(Tabs)))

MoveDown ==
    /\ app.selected < Rows(app)
    /\ Key([app EXCEPT !.selected = @ + 1])
    /\ UNCHANGED <<before, shrunk>>

MoveUp ==
    /\ app.selected > 1
    /\ Key([app EXCEPT !.selected = @ - 1])
    /\ UNCHANGED <<before, shrunk>>

\* Enter opens the row of the cursor, of the list an error hides too.
SelectItem ==
    /\ app.tab = 2 /\ app.view = List /\ app.selected \in DOMAIN app.list
    /\ Key([app EXCEPT !.view = app.selected])
    /\ before' = app.list
    /\ UNCHANGED shrunk

Back ==
    /\ app.tab = 2 /\ app.view # List
    /\ Key([app EXCEPT !.view = List])
    /\ before' = <<>>
    /\ UNCHANGED shrunk

Quit ==
    /\ Key([app EXCEPT !.quit = TRUE])
    /\ UNCHANGED <<before, shrunk>>

Refresh ==
    /\ Running
    /\ app' = RefreshAll(app)
    /\ shrunk' = (shrunk \/ Rows(app') < Rows(app))
    /\ unread' = ~TeamRead(Focus(app.asked, Discovered))
    /\ UNCHANGED <<disk, before, changes>>

\* The reader sends a tick when no key came for 250 ms.
Tick ==
    /\ Running
    /\ LET counted == [app EXCEPT !.ticks = (@ + 1) % Period]
       IN  \/ /\ counted.ticks # 0
              /\ app' = counted
              /\ UNCHANGED <<shrunk, unread>>
           \/ /\ counted.ticks = 0
              /\ app' = RefreshAll(counted)
              /\ shrunk' = (shrunk \/ Rows(app') < Rows(app))
              /\ unread' = ~TeamRead(Focus(app.asked, Discovered))
    /\ UNCHANGED <<disk, before, changes>>

\* Agents, commits and users at work beside the dashboard.
DiskChanges ==
    /\ Running /\ changes < MaxChanges
    /\ changes' = changes + 1
    /\ \/ \E t \in ToSet(DirOrder), c \in {"good", "bad"}, n \in 0..MaxTasks :
             disk' = [disk EXCEPT !.teams =
                [u \in DOMAIN @ \cup {t} |-> IF u = t THEN [config |-> c, tasks |-> n] ELSE @[u]]]
       \/ \E t \in DOMAIN disk.teams :
             disk' = [disk EXCEPT !.teams = [u \in DOMAIN @ \ {t} |-> @[u]]]
       \/ disk' = [disk EXCEPT !.notes = @ \cup {disk.created + 1}, !.created = @ + 1]
       \/ \E c \in disk.notes : disk' = [disk EXCEPT !.notes = @ \ {c}]
       \/ \E s \in {"open", "broken", "absent"} : disk' = [disk EXCEPT !.repo = s]
       \/ \E n \in 0..2 : disk' = [disk EXCEPT !.agents = n]
    /\ disk' # disk
    /\ UNCHANGED <<app, before, shrunk, unread>>

Next ==
    \/ \E tab \in DOMAIN Tabs : ChangeTab(tab)
    \/ NextTab \/ PrevTab \/ MoveDown \/ MoveUp \/ SelectItem \/ Back \/ Quit
    \/ Refresh \/ Tick \/ DiskChanges

-----------------------------------------------------------------------------

TerminalTypeOK ==
    /\ app.tab \in DOMAIN Tabs /\ app.view \in Nat /\ app.selected \in Nat \ {0}
    /\ app.teams \in Seq(ToSet(DirOrder)) /\ app.list \in Seq(1..disk.created)
    /\ app.ticks \in 0..Period - 1 /\ changes \in 0..MaxChanges

\* The cursor is on a row that is drawn, or at the top, until a refresh makes the
\* list shorter (selected is never clamped) or an error hides the checkpoints.
CursorIsOnList ==
    ~shrunk => app.selected = 1 \/ app.selected <= Drawn(app) \/ (app.tab = 2 /\ app.error)

\* A detail stays open by its row: what it shows was opened or has come since,
\* and it slips to an older checkpoint only when one of those listed down to the
\* opened row is gone (CheckpointView::Detail holds an index).
DetailSlipsForward ==
    app.view # List =>
        /\ app.tab = 2 /\ app.view \in DOMAIN before
        /\ Shown(app) # 0 /\ Shown(app) < before[app.view] =>
              \E k \in 1..app.view : before[k] \notin ToSet(app.list)

\* The header's team is the one the status bar names, whatever teams come and
\* go, unless that team's config could not be read; and costs taken from the
\* checkpoints are those of the checkpoints in the list.
PanesAgree ==
    /\ ~unread => <<Header(app)>> = StatusBar(app)
    /\ Summary(app).from = "checkpoints" =>
          Summary(app).count = Len(SelectSeq(app.list, LAMBDA c : c \in WithUsage))
=============================================================================
