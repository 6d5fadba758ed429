------------------------------- MODULE Daemon -------------------------------
(***************************************************************************)
(* The stdio deployment: every team_mode_mcp process is a client of one    *)
(* team_mode_daemon per data directory, found through runtime/daemon.json. *)
(* A client that finds no live daemon starts one under the daemon-start    *)
(* lock and waits for its file; a tool call is tried twice, whatever the   *)
(* error of the first try was.  The daemon ends itself when its watchdog   *)
(* finds no live lead, and leaves daemon.json behind.                      *)
(***************************************************************************)
EXTENDS Naturals, FiniteSets

CONSTANTS Clients,     \* team_mode_mcp processes
          MaxDaemons,  \* bound on daemon processes
          MaxDeaths,   \* bound on daemons that end
          MaxTries     \* tries of one call (2 in call_method)

\* Nobody is no client's name, and a call is tried.
ASSUME DaemonConstants ==
  /\ MaxDaemons \in Nat /\ MaxDeaths \in Nat /\ MaxTries \in Nat \ {0}
  /\ "nobody" \notin Clients

VARIABLES
  daemons,    \* the daemon processes
  endpoint,   \* daemon.json: the daemon it names, 0 if absent
  startLock,  \* the holder of the daemon-start lock
  client,     \* the clients, each with one call to make
  runs,       \* how often the toolset executed each client's call
  deaths,     \* daemons that ended
  patience    \* TRUE until a start was given up after its five seconds

daemonVars == <<daemons, endpoint, startLock, client, runs, deaths, patience>>

Ids == 1..MaxDaemons
Nobody == "nobody"
Starting == {"prune2", "remove2", "read2", "await"}   \* inside the lock
Serving(g) == g # 0 /\ daemons[g] = "serving"
PidAlive(g) == g # 0 /\ daemons[g] \in {"starting", "serving"}

DaemonInit ==
  /\ daemons = [g \in Ids |-> "unborn"] /\ endpoint = 0 /\ startLock = Nobody
  /\ client = [c \in Clients |-> [pc |-> "new", cached |-> 0, mine |-> 0, tries |-> 0]]
  /\ runs = [c \in Clients |-> 0] /\ deaths = 0 /\ patience = TRUE

At(c, pc) == client[c].pc = pc
Goto(c, pc) == client' = [client EXCEPT ![c].pc = pc]
Files == <<daemons, endpoint, deaths>>

-----------------------------------------------------------------------------
(* DaemonToolClient::ensure_daemon *)

\* main prunes a stale endpoint before the first call.
Begin(c) ==
  /\ At(c, "new") /\ Goto(c, "cached")
  /\ UNCHANGED <<Files, startLock, runs, patience>>

\* The cached endpoint is used while its daemon answers the ping.
UseCached(c) ==
  /\ At(c, "cached")
  /\ Goto(c, IF Serving(client[c].cached) THEN "send" ELSE "prune")
  /\ UNCHANGED <<Files, startLock, runs, patience>>

\* prune_stale_endpoint: the file is read and its pid asked for ...
PruneRead(c) ==
  /\ client[c].pc \in {"prune", "prune2"}
  /\ LET stale == endpoint # 0 /\ ~PidAlive(endpoint)
         outer == At(c, "prune")
     IN Goto(c, IF stale THEN IF outer THEN "remove" ELSE "remove2"
                ELSE IF outer THEN "read" ELSE "read2")
  /\ UNCHANGED <<Files, startLock, runs, patience>>

\* ... and then removed by its path, whatever it names by now.
PruneRemove(c) ==
  /\ client[c].pc \in {"remove", "remove2"}
  /\ endpoint' = 0 /\ Goto(c, IF At(c, "remove") THEN "read" ELSE "read2")
  /\ UNCHANGED <<daemons, deaths, startLock, runs, patience>>

ReadInfo(c) ==
  /\ At(c, "read")
  /\ client' = IF Serving(endpoint)
               THEN [client EXCEPT ![c].cached = endpoint, ![c].pc = "send"]
               ELSE [client EXCEPT ![c].pc = "lock"]
  /\ UNCHANGED <<Files, startLock, runs, patience>>

\* Mutant: the start lock is not waited for.
StartUnlocked(c) ==
  /\ At(c, "lock") /\ startLock' = c /\ Goto(c, "prune2")
  /\ UNCHANGED <<Files, runs, patience>>

LockStart(c) ==
  /\ At(c, "lock") /\ startLock = Nobody /\ startLock' = c /\ Goto(c, "prune2")
  /\ UNCHANGED <<Files, runs, patience>>

\* Inside the lock the file is asked again before a daemon is spawned.
ReadLocked(c) ==
  /\ At(c, "read2") /\ Serving(endpoint) /\ startLock' = Nobody
  /\ client' = [client EXCEPT ![c].cached = endpoint, ![c].pc = "send"]
  /\ UNCHANGED <<Files, runs, patience>>

SpawnDaemon(c) ==
  /\ At(c, "read2") /\ ~Serving(endpoint)
  /\ \E g \in Ids :
       /\ daemons[g] = "unborn" /\ \A h \in Ids : daemons[h] = "unborn" => g <= h
       /\ daemons' = [daemons EXCEPT ![g] = "starting"]
       /\ client' = [client EXCEPT ![c].pc = "await", ![c].mine = g]
  /\ UNCHANGED <<endpoint, startLock, runs, deaths, patience>>

\* The token in the file is the spawned daemon's and it answers.
AwaitDaemon(c) ==
  /\ At(c, "await") /\ endpoint = client[c].mine /\ Serving(endpoint)
  /\ startLock' = Nobody
  /\ client' = [client EXCEPT ![c].cached = endpoint, ![c].pc = "send"]
  /\ UNCHANGED <<Files, runs, patience>>

\* Mutant: the lock is kept when the wait ends in an error.
GiveUpLocked(c) ==
  /\ At(c, "await") /\ patience' = FALSE /\ Goto(c, "error")
  /\ UNCHANGED <<Files, startLock, runs>>

\* Five seconds passed: the call fails, the daemon is left to itself.
GiveUpStart(c) ==
  /\ At(c, "await") /\ patience' = FALSE /\ startLock' = Nobody /\ Goto(c, "error")
  /\ UNCHANGED <<Files, runs>>

-----------------------------------------------------------------------------
(* call_method and call_existing *)

\* Any error forgets the endpoint and uses up a try.
Retry(c) ==
  client' = IF client[c].tries + 1 < MaxTries
            THEN [client EXCEPT ![c].cached = 0, ![c].tries = @ + 1, ![c].pc = "cached"]
            ELSE [client EXCEPT ![c].cached = 0, ![c].tries = @ + 1, ![c].pc = "error"]

\* The daemon reads the frame and runs the tool in a thread of its own.
Execute(c) ==
  /\ At(c, "send") /\ Serving(client[c].cached)
  /\ runs' = [runs EXCEPT ![c] = @ + 1] /\ Goto(c, "reply")
  /\ UNCHANGED <<Files, startLock, patience>>

ConnectFails(c) ==
  /\ At(c, "send") /\ ~Serving(client[c].cached) /\ Retry(c)
  /\ UNCHANGED <<Files, startLock, runs, patience>>

Answered(c) ==
  /\ At(c, "reply") /\ Serving(client[c].cached) /\ Goto(c, "done")
  /\ UNCHANGED <<Files, startLock, runs, patience>>

\* The tool's own error, a lost answer and the 30 second read timeout all look
\* the same to call_method.
CallFails(c) ==
  /\ At(c, "reply") /\ Retry(c)
  /\ UNCHANGED <<Files, startLock, runs, patience>>

-----------------------------------------------------------------------------
(* serve_daemon *)

\* The listener is bound, then write_info renames the file into place.
DaemonUp(g) ==
  /\ daemons[g] = "starting"
  /\ daemons' = [daemons EXCEPT ![g] = "serving"] /\ endpoint' = g
  /\ UNCHANGED <<startLock, client, runs, deaths, patience>>

\* run_lead_watchdog: no team or no live lead for three rounds; or the process
\* is killed.  The endpoint file stays.
DaemonExits(g) ==
  /\ PidAlive(g) /\ deaths < MaxDeaths
  /\ daemons' = [daemons EXCEPT ![g] = "dead"] /\ deaths' = deaths + 1
  /\ UNCHANGED <<endpoint, startLock, client, runs, patience>>

EnsureDaemon(c) ==
  \/ UseCached(c) \/ PruneRead(c) \/ PruneRemove(c) \/ ReadInfo(c) \/ LockStart(c)
  \/ ReadLocked(c) \/ SpawnDaemon(c) \/ AwaitDaemon(c) \/ GiveUpStart(c)
CallMethod(c) == Execute(c) \/ ConnectFails(c) \/ Answered(c) \/ CallFails(c)

DaemonNext ==
  \/ \E c \in Clients : Begin(c) \/ EnsureDaemon(c) \/ CallMethod(c)
  \/ \E g \in Ids : DaemonUp(g) \/ DaemonExits(g)

DaemonSpec == DaemonInit /\ [][DaemonNext]_daemonVars

\* The client's waits all have deadlines, and a client that was started runs.
Fairness == \A c \in Clients : WF_daemonVars(EnsureDaemon(c) \/ CallMethod(c))

-----------------------------------------------------------------------------
(* Properties *)

DaemonTypeOK ==
  /\ daemons \in [Ids -> {"unborn", "starting", "serving", "dead"}]
  /\ endpoint \in 0..MaxDaemons /\ startLock \in Clients \cup {Nobody}
  /\ client \in [Clients -> [pc : Starting \cup {"new", "cached", "prune", "remove",
                   "read", "lock", "send", "reply", "done", "error"},
                   cached : 0..MaxDaemons, mine : 0..MaxDaemons, tries : 0..MaxTries]]
  /\ runs \in [Clients -> 0..(MaxTries + 1)]
  /\ deaths \in 0..MaxDeaths /\ patience \in BOOLEAN

\* As long as no daemon ended and no start was given up, clients that find no
\* daemon at the same time end up with one between them (the daemon-start lock
\* and the second look inside it).
ClientsAgree ==
  (deaths = 0 /\ patience) => Cardinality({g \in Ids : PidAlive(g)}) <= 1

\* A call the client reports as done was executed, and no call is executed more
\* often than call_method tries it.
TriesBoundRuns ==
  \A c \in Clients : /\ runs[c] <= MaxTries
                     /\ client[c].pc = "done" => runs[c] >= 1

\* Clients that start at once share one daemon; a call reported as done was
\* executed, and none is executed more often than call_method tries it.
OneDaemon == ClientsAgree /\ TriesBoundRuns

\* Every call ends in an answer or an error: the start lock is given back on
\* every path and no wait is without a deadline.
CallsEnd ==
  \A c \in Clients : client[c].pc = "cached" ~> client[c].pc \in {"done", "error"}
=============================================================================
