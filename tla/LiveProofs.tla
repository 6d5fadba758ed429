------------------------------ MODULE LiveProofs ------------------------------
(***************************************************************************)
(* Proofs about the components MCLive composes.                            *)
(*                                                                         *)
(* Teams, for every set of names and leads, any grace and any number of    *)
(* calls: the teams lock covers one read or one write, so what a call or a *)
(* tick decides on may be stale when it writes, and the invariants say how *)
(* stale it can be.                                                        *)
(*                                                                         *)
(* Daemon, for every set of clients, any number of daemons, deaths and     *)
(* tries: the daemon-start lock covers the second look at daemon.json, the *)
(* start and the wait for the new daemon's file; the endpoint file is read *)
(* and removed without it.                                                 *)
(*                                                                         *)
(* Dashboard, for every set of teams, any limits and number of requests:   *)
(* answers come in any order, also after the user has gone to another team.*)
(***************************************************************************)
EXTENDS MCLive, FiniteSetTheorems, SequenceTheorems, TLAPS

-----------------------------------------------------------------------------
(* Teams and the lead watchdog                                             *)

(* A call that decides has listed the teams; since then only the watchdog  *)
(* changed a team, and all it does is archive it.                          *)
CallIsCurrent ==
  tool.pc \in {"decide", "save"} =>
    /\ tool.name \in Names
    /\ \A n \in Names : dir[n] = tool.seen[n] \/ dir[n].status = "archived"

(* A call that is about to save has found a team nobody alive owns, and    *)
(* leads only die.                                                         *)
SaveIsEarned ==
  tool.pc = "save" =>
    LET t == tool.seen[tool.name] IN t.status = "active" => t.owner \notin alive

(* A lead that was missing from the tick's process list is still missing.  *)
TickIsRight ==
  /\ watch.pc \in {"teams", "archive"} => alive \subseteq watch.procs
  /\ watch.pc = "archive" => watch.name \in Names /\ Missing(watch.seen[watch.name], watch.procs)

TeamsInv == TypeOK /\ CallIsCurrent /\ SaveIsEarned /\ TickIsRight

-----------------------------------------------------------------------------

LEMMA NoTeamIsTeam == NoTeam \in Team /\ [n \in Names |-> NoTeam] \in Dirs
BY DEF Team, Dirs

LEMMA IdleTyped ==
  /\ IdleTool \in [pc : {"idle", "decide", "save", "delete"}, name : Names \cup {NoName},
                   owner : Owners, seen : Dirs, keep : BOOLEAN]
  /\ IdleWatch \in [pc : {"idle", "teams", "archive"}, todo : SUBSET Names,
                    name : Names \cup {NoName}, seen : Dirs, procs : SUBSET Pids]
BY NoTeamIsTeam DEF IdleTool, IdleWatch, Owners

(* Deleting a team archives it, or removes it, and leaves the others.      *)
LEMMA DeletedDirs ==
  ASSUME dir \in Dirs, NEW n \in Names, NEW keep \in BOOLEAN
  PROVE  /\ Deleted(n, keep) \in Dirs
         /\ \A m \in Names : m # n => Deleted(n, keep)[m] = dir[m]
         /\ Deleted(n, keep)[n].status # "active"
         /\ keep => Deleted(n, keep)[n] = dir[n] \/ Deleted(n, keep)[n].status = "archived"
<1>1. dir[n] \in Team /\ (dir[n] = NoTeam => dir[n].status = "absent")
  BY DEF Dirs, NoTeam
<1>2. dir[n] # NoTeam => [dir[n] EXCEPT !.status = "archived"] \in Team
                         /\ [dir[n] EXCEPT !.status = "archived"].status = "archived"
  BY <1>1 DEF Team
<1>3. NoTeam.status = "absent"
  BY DEF NoTeam
<1>4. CASE dir[n] = NoTeam
  BY <1>1, <1>4 DEF Deleted
<1>5. CASE dir[n] # NoTeam
  BY <1>2, <1>3, <1>5, NoTeamIsTeam DEF Deleted, Dirs
<1> QED
  BY <1>4, <1>5

LEMMA TeamsInvInit == Init => TeamsInv
BY TeamsAssumption, NoTeamIsTeam, IdleTyped
   DEF Init, TeamsInv, TypeOK, CallIsCurrent, SaveIsEarned, TickIsRight, IdleTool, IdleWatch

LEMMA TeamsTypeStep ==
  ASSUME TypeOK, TickIsRight, CallIsCurrent, [Next]_vars
  PROVE  TypeOK'
<1> USE TeamsAssumption
<1>1. /\ alive \subseteq Pids /\ \A p \in Callers : p \in Owners
      /\ \A n \in Names, keep \in BOOLEAN : Deleted(n, keep) \in Dirs
  BY DeletedDirs DEF TypeOK, Callers, Owners
<1>2. ASSUME NEW n \in Names, NEW p \in Owners, CreateOverwriting(n, p) PROVE TypeOK'
  <2>1. dir' \in Dirs
    BY <1>2 DEF CreateOverwriting, Dirs, Team
  <2>2. creates' \in 0..MaxCreates
    BY <1>2 DEF CreateOverwriting, TypeOK
  <2> QED
    BY <1>2, <2>1, <2>2 DEF CreateOverwriting, TypeOK
<1>3. ASSUME NEW n \in Names, NEW p \in Owners, Create(n, p) PROVE TypeOK'
  <2>1. creates' \in 0..MaxCreates
    BY <1>3 DEF Create, TypeOK
  <2> QED
    BY <1>3, <2>1 DEF Create, TypeOK
<1>4. ASSUME NEW n \in Names, NEW keep \in BOOLEAN, Delete(n, keep) PROVE TypeOK'
  <2>1. deletes' \in 0..MaxDeletes
    BY <1>4 DEF Delete, TypeOK
  <2>2. tool' \in [pc : {"idle", "decide", "save", "delete"}, name : Names \cup {NoName},
                   owner : Owners, seen : Dirs, keep : BOOLEAN]
    BY <1>4, IdleTyped DEF Delete
  <2> QED
    BY <1>4, <2>1, <2>2 DEF Delete, TypeOK
<1>5. CASE Decide
  <2>1. tool' \in [pc : {"idle", "decide", "save", "delete"}, name : Names \cup {NoName},
                   owner : Owners, seen : Dirs, keep : BOOLEAN]
    BY <1>5, IdleTyped DEF Decide, TypeOK
  <2> QED
    BY <1>5, <2>1 DEF Decide, TypeOK
<1>6. CASE Save
  <2>1. [status |-> "active", owner |-> tool.owner] \in Team
    BY DEF Team, TypeOK
  <2>2. dir' \in Dirs
    BY <1>6, <2>1 DEF Save, TypeOK, Dirs
  <2> QED
    BY <1>6, <2>2, IdleTyped DEF Save, TypeOK
<1>7. CASE FinishDelete
  <2>1. dir' \in Dirs
    <3>1. CASE tool.name \in Names
      BY <1>1, <1>7, <3>1 DEF FinishDelete, TypeOK
    <3>2. CASE tool.name \notin Names
      BY <1>7, <3>2 DEF FinishDelete, Deleted, TypeOK, Dirs
    <3> QED
      BY <3>1, <3>2
  <2> QED
    BY <1>7, <2>1, IdleTyped DEF FinishDelete, TypeOK
<1>8. CASE TickList
  <2>1. strikes' \in [Names -> 0..(Grace - 1)]
    BY <1>8 DEF TickList, Retain, TypeOK
  <2> QED
    BY <1>8, <2>1 DEF TickList, TypeOK
<1>9. ASSUME NEW n \in Names, TickTeam(n) PROVE TypeOK'
  <2>1. strikes[n] \in 0..(Grace - 1)
    BY DEF TypeOK
  <2>2. ~LastStrike(n) => strikes[n] + 1 \in 0..(Grace - 1)
    BY <2>1 DEF LastStrike
  <2>3. strikes' \in [Names -> 0..(Grace - 1)]
    BY <1>9, <2>1, <2>2 DEF TickTeam, TypeOK
  <2>4. watch' \in [pc : {"idle", "teams", "archive"}, todo : SUBSET Names,
                    name : Names \cup {NoName}, seen : Dirs, procs : SUBSET Pids]
    BY <1>9 DEF TickTeam, TypeOK
  <2> QED
    BY <1>9, <2>3, <2>4 DEF TickTeam, TypeOK
<1>10. CASE TickArchive
  <2>1. dir' \in Dirs
    BY <1>1, <1>10 DEF TickArchive, TickIsRight
  <2> QED
    BY <1>10, <2>1 DEF TickArchive, TypeOK
<1>11. CASE TickEnds
  BY <1>11, IdleTyped DEF TickEnds, TypeOK
<1>12. ASSUME NEW p \in Pids, LeadDies(p) PROVE TypeOK'
  BY <1>12 DEF LeadDies, TypeOK
<1>13. CASE UNCHANGED vars
  BY <1>13 DEF vars, TypeOK
<1> QED
  BY <1>2, <1>3, <1>4, <1>5, <1>6, <1>7, <1>8, <1>9, <1>10, <1>11, <1>12, <1>13
     DEF Next, ToolCalls, ToolServes, Watchdog

(* What the watchdog and a dying lead do to the teams and the call.        *)
LEMMA OthersArchive ==
  ASSUME TypeOK, TickIsRight, Watchdog \/ \E p \in Pids : LeadDies(p)
  PROVE  /\ tool' = tool /\ alive' \subseteq alive
         /\ \A n \in Names : dir'[n] = dir[n] \/ dir'[n].status = "archived"
<1>1. CASE TickArchive
  <2>1. watch.name \in Names /\ dir \in Dirs /\ dir' = Deleted(watch.name, TRUE)
    BY <1>1 DEF TickArchive, TickIsRight, TypeOK
  <2>2. \A n \in Names : dir'[n] = dir[n] \/ dir'[n].status = "archived"
    BY <2>1, DeletedDirs
  <2> QED
    BY <1>1, <2>2 DEF TickArchive
<1>2. CASE TickList \/ (\E n \in Names : TickTeam(n)) \/ TickEnds \/ \E p \in Pids : LeadDies(p)
  BY <1>2 DEF TickList, TickTeam, TickEnds, LeadDies
<1> QED
  BY <1>1, <1>2 DEF Watchdog

LEMMA CurrentStep ==
  ASSUME TeamsInv, [Next]_vars
  PROVE  CallIsCurrent' /\ SaveIsEarned'
<1>1. CASE tool' = IdleTool
  BY <1>1 DEF IdleTool, CallIsCurrent, SaveIsEarned
<1>2. CASE Watchdog \/ \E p \in Pids : LeadDies(p)
  BY <1>2, OthersArchive DEF TeamsInv, CallIsCurrent, SaveIsEarned
<1>3. ASSUME NEW n \in Names, NEW p \in Owners, Create(n, p)
      PROVE  CallIsCurrent' /\ SaveIsEarned'
  BY <1>3 DEF Create, CallIsCurrent, SaveIsEarned
<1>4. ASSUME NEW n \in Names, NEW p \in Owners, CreateOverwriting(n, p)
      PROVE  CallIsCurrent' /\ SaveIsEarned'
  BY <1>4 DEF CreateOverwriting, CallIsCurrent, SaveIsEarned
<1>5. ASSUME NEW n \in Names, NEW keep \in BOOLEAN, Delete(n, keep)
      PROVE  CallIsCurrent' /\ SaveIsEarned'
  BY <1>5 DEF Delete, IdleTool, CallIsCurrent, SaveIsEarned
<1>6. CASE Decide /\ tool' # IdleTool
  <2>1. LET t == tool.seen[tool.name]
        IN  t.status # "active" \/ t.owner \notin alive
    BY <1>6 DEF Decide, Rebinds, Revives, MayOwnNew
  <2>2. tool' = [tool EXCEPT !.pc = "save"] /\ UNCHANGED <<dir, alive>> /\ tool.pc = "decide"
    BY <1>6 DEF Decide
  <2>3. tool'.name = tool.name /\ tool'.seen = tool.seen
    BY <2>2 DEF TeamsInv, TypeOK
  <2>4. CallIsCurrent'
    BY <2>2, <2>3 DEF TeamsInv, CallIsCurrent
  <2>5. SaveIsEarned'
    BY <2>1, <2>2, <2>3 DEF SaveIsEarned
  <2> QED
    BY <2>4, <2>5
<1>7. Save \/ FinishDelete => tool' = IdleTool
  BY DEF Save, FinishDelete
<1>8. CASE UNCHANGED vars
  BY <1>8 DEF vars, TeamsInv, CallIsCurrent, SaveIsEarned
<1> QED
  BY <1>1, <1>2, <1>3, <1>4, <1>5, <1>6, <1>7, <1>8 DEF Next, ToolCalls, ToolServes

LEMMA TickStep ==
  ASSUME TeamsInv, [Next]_vars
  PROVE  TickIsRight'
<1>1. CASE watch' = IdleWatch
  BY <1>1 DEF IdleWatch, TickIsRight
<1>2. CASE TickList
  BY <1>2 DEF TickList, TickIsRight
<1>3. ASSUME NEW n \in Names, TickTeam(n) PROVE TickIsRight'
  <2>1. watch'.procs = watch.procs /\ watch'.seen = watch.seen /\ watch.pc = "teams" /\ alive' = alive
    BY <1>3 DEF TickTeam, TeamsInv, TypeOK
  <2>2. watch'.pc = "archive" => watch'.name = n /\ Missing(watch.seen[n], watch.procs)
    BY <1>3 DEF TickTeam, TeamsInv, TypeOK
  <2> QED
    BY <2>1, <2>2 DEF TeamsInv, TickIsRight
<1>4. CASE TickArchive
  BY <1>4 DEF TickArchive, TeamsInv, TypeOK, TickIsRight
<1>5. CASE UNCHANGED <<watch, alive>>
  BY <1>5 DEF TeamsInv, TickIsRight
<1>6. ASSUME NEW p \in Pids, LeadDies(p) PROVE TickIsRight'
  BY <1>6 DEF LeadDies, TeamsInv, TickIsRight
<1>7. ToolCalls \/ ToolServes \/ UNCHANGED vars => UNCHANGED <<watch, alive>>
  BY DEF ToolCalls, ToolServes, Create, CreateOverwriting, Delete, Decide, Save, FinishDelete, vars
<1>8. TickEnds => watch' = IdleWatch
  BY DEF TickEnds
<1> QED
  BY <1>1, <1>2, <1>3, <1>4, <1>5, <1>6, <1>7, <1>8 DEF Next, Watchdog

LEMMA TeamsInvStep == TeamsInv /\ [Next]_vars => TeamsInv'
BY TeamsTypeStep, CurrentStep, TickStep DEF TeamsInv

(* Every record keeps its shape and no strike count reaches the grace.     *)
THEOREM TypeCorrect == Spec => []TypeOK
<1>1. TeamsInv => TypeOK
  BY DEF TeamsInv
<1> QED
  BY <1>1, TeamsInvInit, TeamsInvStep, PTL DEF Spec

-----------------------------------------------------------------------------
(* The two promises to a living lead, as steps.                            *)

TakesOver(n) ==
  /\ dir[n].status = "active" /\ dir[n].owner \in alive
  /\ dir'[n].status = "active" /\ dir'[n].owner # dir[n].owner

LEMMA OnlyOverwritingTakes ==
  ASSUME TeamsInv, [Next]_vars, NEW n \in Names, TakesOver(n)
  PROVE  \E p \in Owners : CreateOverwriting(n, p)
<1>1. dir'[n] # dir[n] /\ dir'[n].status = "active"
  BY DEF TakesOver
<1>2. ~(Watchdog \/ \E p \in Pids : LeadDies(p))
  BY <1>1, OthersArchive DEF TeamsInv
<1>3. ~FinishDelete
  <2> SUFFICES ASSUME FinishDelete
               PROVE  FALSE
    OBVIOUS
  <2>1. tool.name \in Names \/ dir' = dir
    BY DEF FinishDelete, Deleted, TeamsInv, TypeOK, Dirs
  <2>2. tool.name \in Names
    BY <1>1, <2>1
  <2>3. dir'[n] = dir[n] \/ dir'[n].status # "active"
    BY <2>2, DeletedDirs DEF FinishDelete, TeamsInv, TypeOK
  <2> QED
    BY <1>1, <2>3
<1>4. ~Save
  <2> SUFFICES ASSUME Save
               PROVE  FALSE
    OBVIOUS
  <2>1. n = tool.name /\ dir[n] = tool.seen[n]
    BY <1>1 DEF Save, TakesOver, TeamsInv, CallIsCurrent, TypeOK, Dirs
  <2> QED
    BY <2>1 DEF Save, TakesOver, TeamsInv, SaveIsEarned
<1>5. \A m \in Names, p \in Owners : CreateOverwriting(m, p) => m = n
  <2> SUFFICES ASSUME NEW m \in Names, NEW p \in Owners, CreateOverwriting(m, p), m # n
               PROVE  FALSE
    OBVIOUS
  <2>1. dir'[n] = NoTeam
    BY DEF CreateOverwriting
  <2> QED
    BY <1>1, <2>1 DEF NoTeam
<1>6. /\ ~(UNCHANGED vars) /\ ~Decide
      /\ \A m \in Names, p \in Owners : ~Create(m, p)
      /\ \A m \in Names, keep \in BOOLEAN : ~Delete(m, keep)
  BY <1>1 DEF vars, Decide, Create, Delete
<1>7. PICK m \in Names, p \in Owners : CreateOverwriting(m, p)
  BY <1>2, <1>3, <1>4, <1>6 DEF Next, ToolCalls, ToolServes
<1> QED
  BY <1>5, <1>7

LEMMA ArchiveIsStale ==
  ASSUME TeamsInv, NEW n \in Names, TickArchive, dir'[n] # dir[n], dir[n].owner \in alive
  PROVE  watch.seen[n] # dir[n]
<1>1. watch.name \in Names /\ watch.pc = "archive" /\ dir' = Deleted(watch.name, TRUE)
  BY DEF TickArchive, TeamsInv, TickIsRight
<1>2. n = watch.name
  BY <1>1, DeletedDirs DEF TeamsInv, TypeOK
<1>3. watch.seen[n].owner \notin watch.procs /\ alive \subseteq watch.procs
  BY <1>1, <1>2 DEF TeamsInv, TickIsRight, Missing
<1> QED
  BY <1>3

(* No living lead loses an active team to another lead's team_create, and  *)
(* the watchdog archives it only when it changed hands after the tick      *)
(* listed it, for any number of leads, teams and calls.                    *)
THEOREM LeadsKeepTeams == Spec => OwnersKeepTheirTeams
<1>1. TeamsInv /\ [Next]_vars =>
        [\A n \in Names :
           (/\ dir[n].status = "active" /\ dir[n].owner \in alive
            /\ dir'[n].status = "active" /\ dir'[n].owner # dir[n].owner)
           => \E p \in Owners : CreateOverwriting(n, p)]_vars
  BY OnlyOverwritingTakes DEF TakesOver
<1>2. TeamsInv /\ [Next]_vars =>
        [\A n \in Names :
           (TickArchive /\ dir'[n] # dir[n] /\ dir[n].owner \in alive)
           => watch.seen[n] # dir[n]]_vars
  BY ArchiveIsStale
<1> QED
  BY <1>1, <1>2, TeamsInvInit, TeamsInvStep, PTL DEF Spec, OwnersKeepTheirTeams, NoTakeover, LiveLeadsAreSpared

-----------------------------------------------------------------------------
(* The daemon and its clients                                              *)

Steps == Starting \cup {"new", "cached", "prune", "remove", "read", "lock", "send",
                        "reply", "done", "error"}
Client == [pc : Steps, cached : 0..MaxDaemons, mine : 0..MaxDaemons, tries : 0..MaxTries]

Typed ==
  /\ daemons \in [Ids -> {"unborn", "starting", "serving", "dead"}]
  /\ endpoint \in 0..MaxDaemons /\ startLock \in Clients \cup {Nobody}
  /\ client \in [Clients -> Client] /\ runs \in [Clients -> 0..(MaxTries + 1)]
  /\ deaths \in 0..MaxDeaths /\ patience \in BOOLEAN

(* A client is between prune_stale_endpoint's second look and the end of   *)
(* its wait for the daemon exactly while it holds the daemon-start lock.   *)
LockIsHeld == \A c \in Clients : client[c].pc \in Starting <=> startLock = c

(* The file names a daemon that came to serve; a client that is about to   *)
(* remove it has seen that daemon dead.                                    *)
FileNamesServer ==
  /\ endpoint # 0 => daemons[endpoint] \in {"serving", "dead"}
  /\ deaths = 0 => \A g \in Ids : daemons[g] # "dead"
  /\ deaths = 0 => \A c \in Clients : client[c].pc \notin {"remove", "remove2"}

(* While nothing died and nobody gave up, a daemon that lives is the one   *)
(* the file names, or is waited for by the holder of the lock and there is *)
(* no file.                                                                *)
AwaitedBy(g) == \E c \in Clients : client[c].pc = "await" /\ client[c].mine = g
LiveIsKnown ==
  (deaths = 0 /\ patience) =>
    \A g \in Ids : /\ daemons[g] = "serving" => endpoint = g
                   /\ daemons[g] = "starting" => endpoint = 0 /\ AwaitedBy(g)

(* What was executed was tried, and only a call that failed has no try left. *)
RunsAreTried ==
  \A c \in Clients :
    /\ client[c].pc # "error" => client[c].tries < MaxTries
    /\ runs[c] <= IF client[c].pc \in {"reply", "done"} THEN client[c].tries + 1 ELSE client[c].tries
    /\ client[c].pc \in {"reply", "done"} => runs[c] >= 1

DaemonInv == DaemonTypeOK /\ LockIsHeld /\ FileNamesServer /\ LiveIsKnown /\ RunsAreTried

-----------------------------------------------------------------------------
(* The lemmas about records and the lock                                   *)

LEMMA ClientsTyped == DaemonTypeOK <=> Typed
BY DEF DaemonTypeOK, Typed, Client, Steps

(* A client that has started a daemon.                                     *)
LEMMA StarterTyped ==
  ASSUME NEW f \in [Clients -> Client], NEW c \in Clients, NEW g \in 0..MaxDaemons
  PROVE  [f EXCEPT ![c].pc = "await", ![c].mine = g] \in [Clients -> Client]
BY DEF Client, Steps, Starting

-----------------------------------------------------------------------------
(* The invariant                                                           *)

LEMMA DaemonInvInit == DaemonInit => DaemonInv
<1> SUFFICES ASSUME DaemonInit PROVE DaemonInv
  OBVIOUS
<1>1. client \in [Clients -> Client]
  BY DaemonConstants DEF DaemonInit, Client, Steps
<1>2. DaemonTypeOK
  BY <1>1, ClientsTyped, DaemonConstants DEF Typed, DaemonInit, Ids
<1>3. LockIsHeld
  BY DaemonConstants DEF DaemonInit, LockIsHeld, Starting, Nobody
<1> QED
  BY <1>2, <1>3, DaemonConstants DEF DaemonInit, DaemonInv, FileNamesServer, LiveIsKnown, RunsAreTried, Ids

-----------------------------------------------------------------------------
(* The steps, one invariant at a time                                      *)

(* A client enters by taking the lock, and every way out gives it back.      *)
LEMMA LockStep ==
  ASSUME DaemonInv, [DaemonNext]_daemonVars
  PROVE  LockIsHeld'
<1>0. Typed
  BY ClientsTyped DEF DaemonInv
<1>1. ASSUME NEW c \in Clients, Begin(c) PROVE LockIsHeld'
  BY <1>0, <1>1, DaemonConstants DEF Begin, Files, At, Goto, Typed, Client, DaemonInv, LockIsHeld,
     Starting, Nobody
<1>2. ASSUME NEW c \in Clients, UseCached(c) PROVE LockIsHeld'
  BY <1>0, <1>2, DaemonConstants DEF UseCached, Files, At, Goto, Serving, Typed, Client, DaemonInv,
     LockIsHeld, Starting, Nobody
<1>3. ASSUME NEW c \in Clients, PruneRead(c) PROVE LockIsHeld'
  BY <1>0, <1>3, DaemonConstants DEF PruneRead, Files, At, Goto, PidAlive, Typed, Client, DaemonInv,
     LockIsHeld, Starting, Nobody
<1>4. ASSUME NEW c \in Clients, PruneRemove(c) PROVE LockIsHeld'
  BY <1>0, <1>4, DaemonConstants DEF PruneRemove, At, Goto, Typed, Client, DaemonInv, LockIsHeld,
     Starting, Nobody
<1>5. ASSUME NEW c \in Clients, ReadInfo(c) PROVE LockIsHeld'
  BY <1>0, <1>5, DaemonConstants DEF ReadInfo, Files, At, Serving, Typed, Client, DaemonInv, LockIsHeld,
     Starting, Nobody
<1>6. ASSUME NEW c \in Clients, LockStart(c) PROVE LockIsHeld'
  BY <1>0, <1>6, DaemonConstants DEF LockStart, Files, At, Goto, Typed, Client, DaemonInv, LockIsHeld,
     Starting, Nobody
<1>7. ASSUME NEW c \in Clients, ReadLocked(c) PROVE LockIsHeld'
  BY <1>0, <1>7, DaemonConstants DEF ReadLocked, Files, At, Serving, Typed, Client, DaemonInv, LockIsHeld,
     Starting, Nobody
<1>8. ASSUME NEW c \in Clients, SpawnDaemon(c) PROVE LockIsHeld'
  BY <1>0, <1>8, DaemonConstants DEF SpawnDaemon, At, Serving, Typed, Client, DaemonInv, LockIsHeld,
     Starting, Nobody
<1>9. ASSUME NEW c \in Clients, AwaitDaemon(c) PROVE LockIsHeld'
  BY <1>0, <1>9, DaemonConstants DEF AwaitDaemon, Files, At, Serving, Typed, Client, DaemonInv,
     LockIsHeld, Starting, Nobody
<1>10. ASSUME NEW c \in Clients, GiveUpStart(c) PROVE LockIsHeld'
  BY <1>0, <1>10, DaemonConstants DEF GiveUpStart, Files, At, Goto, Typed, Client, DaemonInv, LockIsHeld,
     Starting, Nobody
<1>11. ASSUME NEW c \in Clients, Execute(c) PROVE LockIsHeld'
  BY <1>0, <1>11, DaemonConstants DEF Execute, Files, At, Goto, Serving, Typed, Client, DaemonInv,
     LockIsHeld, Starting, Nobody
<1>12. ASSUME NEW c \in Clients, ConnectFails(c) PROVE LockIsHeld'
  BY <1>0, <1>12, DaemonConstants DEF ConnectFails, Files, At, Retry, Serving, Typed, Client, DaemonInv,
     LockIsHeld, Starting, Nobody
<1>13. ASSUME NEW c \in Clients, Answered(c) PROVE LockIsHeld'
  BY <1>0, <1>13, DaemonConstants DEF Answered, Files, At, Goto, Serving, Typed, Client, DaemonInv,
     LockIsHeld, Starting, Nobody
<1>14. ASSUME NEW c \in Clients, CallFails(c) PROVE LockIsHeld'
  BY <1>0, <1>14, DaemonConstants DEF CallFails, Files, At, Retry, Typed, Client, DaemonInv, LockIsHeld,
     Starting, Nobody
<1>15. ASSUME NEW g \in Ids, DaemonUp(g) PROVE LockIsHeld'
  BY <1>0, <1>15, DaemonConstants DEF DaemonUp, Typed, Client, DaemonInv, LockIsHeld, Starting, Nobody,
     Ids
<1>16. ASSUME NEW g \in Ids, DaemonExits(g) PROVE LockIsHeld'
  BY <1>0, <1>16, DaemonConstants DEF DaemonExits, PidAlive, Typed, Client, DaemonInv, LockIsHeld,
     Starting, Nobody, Ids
<1>17. CASE UNCHANGED daemonVars
  BY <1>17 DEF daemonVars, DaemonInv, LockIsHeld
<1> QED
  BY <1>1, <1>2, <1>3, <1>4, <1>5, <1>6, <1>7, <1>8, <1>9, <1>10, <1>11, <1>12,
     <1>13, <1>14, <1>15, <1>16, <1>17
  DEF DaemonNext, EnsureDaemon, CallMethod

(* The file is written by a daemon that serves from then on, and a client   *)
(* decides to remove it only after a death.                                 *)
LEMMA FileStep ==
  ASSUME DaemonInv, [DaemonNext]_daemonVars
  PROVE  FileNamesServer'
<1>0. Typed
  BY ClientsTyped DEF DaemonInv
<1>1. ASSUME NEW c \in Clients, Begin(c) PROVE FileNamesServer'
  BY <1>0, <1>1
  DEF Begin, Files, At, Goto, Typed, Client, DaemonInv, FileNamesServer, Ids
<1>2. ASSUME NEW c \in Clients, UseCached(c) PROVE FileNamesServer'
  BY <1>0, <1>2
  DEF UseCached, Files, At, Goto, Serving, Typed, Client, DaemonInv, FileNamesServer, Ids
<1>3. ASSUME NEW c \in Clients, PruneRead(c) PROVE FileNamesServer'
  BY <1>0, <1>3
  DEF PruneRead, Files, At, Goto, PidAlive, Typed, Client, DaemonInv, FileNamesServer, Ids
<1>4. ASSUME NEW c \in Clients, PruneRemove(c) PROVE FileNamesServer'
  BY <1>0, <1>4
  DEF PruneRemove, At, Goto, Typed, Client, DaemonInv, FileNamesServer, Ids
<1>5. ASSUME NEW c \in Clients, ReadInfo(c) PROVE FileNamesServer'
  BY <1>0, <1>5
  DEF ReadInfo, Files, At, Serving, Typed, Client, DaemonInv, FileNamesServer, Ids
<1>6. ASSUME NEW c \in Clients, LockStart(c) PROVE FileNamesServer'
  BY <1>0, <1>6
  DEF LockStart, Files, At, Goto, Typed, Client, DaemonInv, FileNamesServer, Ids
<1>7. ASSUME NEW c \in Clients, ReadLocked(c) PROVE FileNamesServer'
  BY <1>0, <1>7
  DEF ReadLocked, Files, At, Serving, Typed, Client, DaemonInv, FileNamesServer, Ids
<1>8. ASSUME NEW c \in Clients, SpawnDaemon(c) PROVE FileNamesServer'
  BY <1>0, <1>8
  DEF SpawnDaemon, At, Serving, Typed, Client, DaemonInv, FileNamesServer, Ids
<1>9. ASSUME NEW c \in Clients, AwaitDaemon(c) PROVE FileNamesServer'
  BY <1>0, <1>9
  DEF AwaitDaemon, Files, At, Serving, Typed, Client, DaemonInv, FileNamesServer, Ids
<1>10. ASSUME NEW c \in Clients, GiveUpStart(c) PROVE FileNamesServer'
  BY <1>0, <1>10
  DEF GiveUpStart, Files, At, Goto, Typed, Client, DaemonInv, FileNamesServer, Ids
<1>11. ASSUME NEW c \in Clients, Execute(c) PROVE FileNamesServer'
  BY <1>0, <1>11
  DEF Execute, Files, At, Goto, Serving, Typed, Client, DaemonInv, FileNamesServer, Ids
<1>12. ASSUME NEW c \in Clients, ConnectFails(c) PROVE FileNamesServer'
  BY <1>0, <1>12
  DEF ConnectFails, Files, At, Retry, Serving, Typed, Client, DaemonInv, FileNamesServer,
      Ids
<1>13. ASSUME NEW c \in Clients, Answered(c) PROVE FileNamesServer'
  BY <1>0, <1>13
  DEF Answered, Files, At, Goto, Serving, Typed, Client, DaemonInv, FileNamesServer, Ids
<1>14. ASSUME NEW c \in Clients, CallFails(c) PROVE FileNamesServer'
  BY <1>0, <1>14
  DEF CallFails, Files, At, Retry, Typed, Client, DaemonInv, FileNamesServer, Ids
<1>15. ASSUME NEW g \in Ids, DaemonUp(g) PROVE FileNamesServer'
  BY <1>0, <1>15
  DEF DaemonUp, Typed, Client, DaemonInv, FileNamesServer, Ids
<1>16. ASSUME NEW g \in Ids, DaemonExits(g) PROVE FileNamesServer'
  BY <1>0, <1>16
  DEF DaemonExits, PidAlive, Typed, Client, DaemonInv, FileNamesServer, Ids
<1>17. CASE UNCHANGED daemonVars
  BY <1>17 DEF daemonVars, DaemonInv, FileNamesServer
<1> QED
  BY <1>1, <1>2, <1>3, <1>4, <1>5, <1>6, <1>7, <1>8, <1>9, <1>10, <1>11, <1>12,
     <1>13, <1>14, <1>15, <1>16, <1>17
  DEF DaemonNext, EnsureDaemon, CallMethod

(* The holder of the lock starts a daemon only when it sees none serve; none *)
(* starts either, as its starter would hold the lock.                       *)
LEMMA LiveStep ==
  ASSUME DaemonInv, [DaemonNext]_daemonVars
  PROVE  LiveIsKnown'
<1>0. Typed
  BY ClientsTyped DEF DaemonInv
<1>1. ASSUME NEW c \in Clients, Begin(c) PROVE LiveIsKnown'
  BY <1>0, <1>1
  DEF Begin, Files, At, Goto, Typed, Client, DaemonInv, LiveIsKnown, AwaitedBy,
      FileNamesServer, LockIsHeld, Starting, Ids
<1>2. ASSUME NEW c \in Clients, UseCached(c) PROVE LiveIsKnown'
  BY <1>0, <1>2
  DEF UseCached, Files, At, Goto, Serving, Typed, Client, DaemonInv, LiveIsKnown,
      AwaitedBy, FileNamesServer, LockIsHeld, Starting, Ids
<1>3. ASSUME NEW c \in Clients, PruneRead(c) PROVE LiveIsKnown'
  BY <1>0, <1>3
  DEF PruneRead, Files, At, Goto, PidAlive, Typed, Client, DaemonInv, LiveIsKnown,
      AwaitedBy, FileNamesServer, LockIsHeld, Starting, Ids
<1>4. ASSUME NEW c \in Clients, PruneRemove(c) PROVE LiveIsKnown'
  BY <1>0, <1>4
  DEF PruneRemove, At, Goto, Typed, Client, DaemonInv, LiveIsKnown, AwaitedBy,
      FileNamesServer, LockIsHeld, Starting, Ids
<1>5. ASSUME NEW c \in Clients, ReadInfo(c) PROVE LiveIsKnown'
  BY <1>0, <1>5
  DEF ReadInfo, Files, At, Serving, Typed, Client, DaemonInv, LiveIsKnown, AwaitedBy,
      FileNamesServer, LockIsHeld, Starting, Ids
<1>6. ASSUME NEW c \in Clients, LockStart(c) PROVE LiveIsKnown'
  BY <1>0, <1>6
  DEF LockStart, Files, At, Goto, Typed, Client, DaemonInv, LiveIsKnown, AwaitedBy,
      FileNamesServer, LockIsHeld, Starting, Ids
<1>7. ASSUME NEW c \in Clients, ReadLocked(c) PROVE LiveIsKnown'
  BY <1>0, <1>7
  DEF ReadLocked, Files, At, Serving, Typed, Client, DaemonInv, LiveIsKnown, AwaitedBy,
      FileNamesServer, LockIsHeld, Starting, Ids
<1>8. ASSUME NEW c \in Clients, SpawnDaemon(c), deaths = 0, patience PROVE LiveIsKnown'
  <2>1. PICK g \in Ids :
          /\ daemons' = [daemons EXCEPT ![g] = "starting"]
          /\ client' = [client EXCEPT ![c].pc = "await", ![c].mine = g]
    BY <1>8 DEF SpawnDaemon
  <2>2. endpoint = 0
    BY <1>0, <1>8 DEF SpawnDaemon, Serving, DaemonInv, FileNamesServer, Typed, Ids
  <2>3. \A h \in Ids : daemons[h] \notin {"serving", "starting"}
    <3>1. client[c].pc = "read2" /\ startLock = c
      BY <1>8 DEF SpawnDaemon, At, DaemonInv, LockIsHeld, Starting
    <3> QED
      BY <1>8, <2>2, <3>1 DEF DaemonInv, LiveIsKnown, AwaitedBy, LockIsHeld, Starting, Ids
  <2>4. /\ daemons'[g] = "starting" /\ client'[c].pc = "await" /\ client'[c].mine = g
        /\ \A h \in Ids : h # g => daemons'[h] = daemons[h]
    BY <1>0, <2>1 DEF Typed, Client
  <2> QED
    BY <1>8, <2>2, <2>3, <2>4 DEF SpawnDaemon, LiveIsKnown, AwaitedBy
<1>9. ASSUME NEW c \in Clients, AwaitDaemon(c) PROVE LiveIsKnown'
  BY <1>0, <1>9
  DEF AwaitDaemon, Files, At, Serving, Typed, Client, DaemonInv, LiveIsKnown, AwaitedBy,
      FileNamesServer, LockIsHeld, Starting, Ids
<1>10. ASSUME NEW c \in Clients, GiveUpStart(c) PROVE LiveIsKnown'
  BY <1>0, <1>10
  DEF GiveUpStart, Files, At, Goto, Typed, Client, DaemonInv, LiveIsKnown, AwaitedBy,
      FileNamesServer, LockIsHeld, Starting, Ids
<1>11. ASSUME NEW c \in Clients, Execute(c) PROVE LiveIsKnown'
  BY <1>0, <1>11
  DEF Execute, Files, At, Goto, Serving, Typed, Client, DaemonInv, LiveIsKnown,
      AwaitedBy, FileNamesServer, LockIsHeld, Starting, Ids
<1>12. ASSUME NEW c \in Clients, ConnectFails(c) PROVE LiveIsKnown'
  BY <1>0, <1>12
  DEF ConnectFails, Files, At, Retry, Serving, Typed, Client, DaemonInv, LiveIsKnown,
      AwaitedBy, FileNamesServer, LockIsHeld, Starting, Ids
<1>13. ASSUME NEW c \in Clients, Answered(c) PROVE LiveIsKnown'
  BY <1>0, <1>13
  DEF Answered, Files, At, Goto, Serving, Typed, Client, DaemonInv, LiveIsKnown,
      AwaitedBy, FileNamesServer, LockIsHeld, Starting, Ids
<1>14. ASSUME NEW c \in Clients, CallFails(c) PROVE LiveIsKnown'
  BY <1>0, <1>14
  DEF CallFails, Files, At, Retry, Typed, Client, DaemonInv, LiveIsKnown, AwaitedBy,
      FileNamesServer, LockIsHeld, Starting, Ids
<1>15. ASSUME NEW g \in Ids, DaemonUp(g) PROVE LiveIsKnown'
  BY <1>0, <1>15
  DEF DaemonUp, Typed, Client, DaemonInv, LiveIsKnown, AwaitedBy, FileNamesServer,
      LockIsHeld, Starting, Ids
<1>16. ASSUME NEW g \in Ids, DaemonExits(g) PROVE LiveIsKnown'
  BY <1>0, <1>16
  DEF DaemonExits, PidAlive, Typed, Client, DaemonInv, LiveIsKnown, AwaitedBy,
      FileNamesServer, LockIsHeld, Starting, Ids
<1>17. CASE UNCHANGED daemonVars
  BY <1>17 DEF daemonVars, DaemonInv, LiveIsKnown, AwaitedBy, FileNamesServer, LockIsHeld
<1> QED
  BY <1>1, <1>2, <1>3, <1>4, <1>5, <1>6, <1>7, <1>8, <1>9, <1>10, <1>11, <1>12,
     <1>13, <1>14, <1>15, <1>16, <1>17
  DEF DaemonNext, EnsureDaemon, CallMethod, SpawnDaemon, LiveIsKnown

(* Whatever ended a try, the next one counts it.                             *)
LEMMA RunsStep ==
  ASSUME DaemonInv, [DaemonNext]_daemonVars
  PROVE  RunsAreTried'
<1>0. Typed
  BY ClientsTyped DEF DaemonInv
<1>1. ASSUME NEW c \in Clients, Begin(c) PROVE RunsAreTried'
  BY <1>0, <1>1, DaemonConstants DEF Begin, Files, At, Goto, Typed, Client, DaemonInv, RunsAreTried
<1>2. ASSUME NEW c \in Clients, UseCached(c) PROVE RunsAreTried'
  BY <1>0, <1>2, DaemonConstants DEF UseCached, Files, At, Goto, Serving, Typed, Client, DaemonInv,
     RunsAreTried
<1>3. ASSUME NEW c \in Clients, PruneRead(c) PROVE RunsAreTried'
  BY <1>0, <1>3, DaemonConstants DEF PruneRead, Files, At, Goto, PidAlive, Typed, Client, DaemonInv,
     RunsAreTried
<1>4. ASSUME NEW c \in Clients, PruneRemove(c) PROVE RunsAreTried'
  BY <1>0, <1>4, DaemonConstants DEF PruneRemove, At, Goto, Typed, Client, DaemonInv, RunsAreTried
<1>5. ASSUME NEW c \in Clients, ReadInfo(c) PROVE RunsAreTried'
  BY <1>0, <1>5, DaemonConstants DEF ReadInfo, Files, At, Serving, Typed, Client, DaemonInv, RunsAreTried
<1>6. ASSUME NEW c \in Clients, LockStart(c) PROVE RunsAreTried'
  BY <1>0, <1>6, DaemonConstants DEF LockStart, Files, At, Goto, Typed, Client, DaemonInv, RunsAreTried
<1>7. ASSUME NEW c \in Clients, ReadLocked(c) PROVE RunsAreTried'
  BY <1>0, <1>7, DaemonConstants DEF ReadLocked, Files, At, Serving, Typed, Client, DaemonInv,
     RunsAreTried
<1>8. ASSUME NEW c \in Clients, SpawnDaemon(c) PROVE RunsAreTried'
  BY <1>0, <1>8, DaemonConstants DEF SpawnDaemon, At, Serving, Typed, Client, DaemonInv, RunsAreTried
<1>9. ASSUME NEW c \in Clients, AwaitDaemon(c) PROVE RunsAreTried'
  BY <1>0, <1>9, DaemonConstants DEF AwaitDaemon, Files, At, Serving, Typed, Client, DaemonInv,
     RunsAreTried
<1>10. ASSUME NEW c \in Clients, GiveUpStart(c) PROVE RunsAreTried'
  BY <1>0, <1>10, DaemonConstants DEF GiveUpStart, Files, At, Goto, Typed, Client, DaemonInv, RunsAreTried
<1>11. ASSUME NEW c \in Clients, Execute(c) PROVE RunsAreTried'
  BY <1>0, <1>11, DaemonConstants DEF Execute, Files, At, Goto, Serving, Typed, Client, DaemonInv,
     RunsAreTried
<1>12. ASSUME NEW c \in Clients, ConnectFails(c) PROVE RunsAreTried'
  BY <1>0, <1>12, DaemonConstants DEF ConnectFails, Files, At, Retry, Serving, Typed, Client, DaemonInv,
     RunsAreTried
<1>13. ASSUME NEW c \in Clients, Answered(c) PROVE RunsAreTried'
  BY <1>0, <1>13, DaemonConstants DEF Answered, Files, At, Goto, Serving, Typed, Client, DaemonInv,
     RunsAreTried
<1>14. ASSUME NEW c \in Clients, CallFails(c) PROVE RunsAreTried'
  BY <1>0, <1>14, DaemonConstants DEF CallFails, Files, At, Retry, Typed, Client, DaemonInv, RunsAreTried
<1>15. ASSUME NEW g \in Ids, DaemonUp(g) PROVE RunsAreTried'
  BY <1>0, <1>15, DaemonConstants DEF DaemonUp, Typed, Client, DaemonInv, RunsAreTried, Ids
<1>16. ASSUME NEW g \in Ids, DaemonExits(g) PROVE RunsAreTried'
  BY <1>0, <1>16, DaemonConstants DEF DaemonExits, PidAlive, Typed, Client, DaemonInv, RunsAreTried, Ids
<1>17. CASE UNCHANGED daemonVars
  BY <1>17 DEF daemonVars, DaemonInv, RunsAreTried
<1> QED
  BY <1>1, <1>2, <1>3, <1>4, <1>5, <1>6, <1>7, <1>8, <1>9, <1>10, <1>11, <1>12,
     <1>13, <1>14, <1>15, <1>16, <1>17
  DEF DaemonNext, EnsureDaemon, CallMethod

(* Every step leaves the variables their types; a try is counted only while *)
(* there is one left.                                                       *)
LEMMA DaemonTypeStep ==
  ASSUME DaemonInv, [DaemonNext]_daemonVars
  PROVE  Typed'
<1>0. Typed
  BY ClientsTyped DEF DaemonInv
<1>1. ASSUME NEW c \in Clients, Begin(c) PROVE Typed'
  BY <1>0, <1>1, DaemonConstants DEF Begin, Files, At, Goto, Typed, Client, Steps, Starting, DaemonInv,
     RunsAreTried
<1>2. ASSUME NEW c \in Clients, UseCached(c) PROVE Typed'
  BY <1>0, <1>2, DaemonConstants DEF UseCached, Files, At, Goto, Serving, Typed, Client, Steps,
     Starting, DaemonInv, RunsAreTried
<1>3. ASSUME NEW c \in Clients, PruneRead(c) PROVE Typed'
  BY <1>0, <1>3, DaemonConstants DEF PruneRead, Files, At, Goto, PidAlive, Typed, Client, Steps,
     Starting, DaemonInv, RunsAreTried
<1>4. ASSUME NEW c \in Clients, PruneRemove(c) PROVE Typed'
  BY <1>0, <1>4, DaemonConstants DEF PruneRemove, At, Goto, Typed, Client, Steps, Starting, DaemonInv,
     RunsAreTried
<1>5. ASSUME NEW c \in Clients, ReadInfo(c) PROVE Typed'
  BY <1>0, <1>5, DaemonConstants DEF ReadInfo, Files, At, Serving, Typed, Client, Steps, Starting,
     DaemonInv, RunsAreTried
<1>6. ASSUME NEW c \in Clients, LockStart(c) PROVE Typed'
  BY <1>0, <1>6, DaemonConstants DEF LockStart, Files, At, Goto, Typed, Client, Steps, Starting,
     DaemonInv, RunsAreTried
<1>7. ASSUME NEW c \in Clients, ReadLocked(c) PROVE Typed'
  BY <1>0, <1>7, DaemonConstants DEF ReadLocked, Files, At, Serving, Typed, Client, Steps, Starting,
     DaemonInv, RunsAreTried
<1>8. ASSUME NEW c \in Clients, SpawnDaemon(c) PROVE Typed'
  <2>1. PICK g \in Ids :
          /\ daemons' = [daemons EXCEPT ![g] = "starting"]
          /\ client' = [client EXCEPT ![c].pc = "await", ![c].mine = g]
    BY <1>8 DEF SpawnDaemon
  <2>2. g \in 0..MaxDaemons
    BY DaemonConstants DEF Ids
  <2>3. client' \in [Clients -> Client]
    BY <1>0, <2>1, <2>2, StarterTyped DEF Typed
  <2> QED
    BY <1>0, <1>8, <2>1, <2>3 DEF SpawnDaemon, Typed
<1>9. ASSUME NEW c \in Clients, AwaitDaemon(c) PROVE Typed'
  BY <1>0, <1>9, DaemonConstants DEF AwaitDaemon, Files, At, Serving, Typed, Client, Steps,
     Starting, DaemonInv, RunsAreTried
<1>10. ASSUME NEW c \in Clients, GiveUpStart(c) PROVE Typed'
  BY <1>0, <1>10, DaemonConstants DEF GiveUpStart, Files, At, Goto, Typed, Client, Steps, Starting,
     DaemonInv, RunsAreTried
<1>11. ASSUME NEW c \in Clients, Execute(c) PROVE Typed'
  BY <1>0, <1>11, DaemonConstants DEF Execute, Files, At, Goto, Serving, Typed, Client, Steps,
     Starting, DaemonInv, RunsAreTried
<1>12. ASSUME NEW c \in Clients, ConnectFails(c) PROVE Typed'
  BY <1>0, <1>12, DaemonConstants DEF ConnectFails, Files, At, Retry, Serving, Typed, Client, Steps,
     Starting, DaemonInv, RunsAreTried
<1>13. ASSUME NEW c \in Clients, Answered(c) PROVE Typed'
  BY <1>0, <1>13, DaemonConstants DEF Answered, Files, At, Goto, Serving, Typed, Client, Steps,
     Starting, DaemonInv, RunsAreTried
<1>14. ASSUME NEW c \in Clients, CallFails(c) PROVE Typed'
  BY <1>0, <1>14, DaemonConstants DEF CallFails, Files, At, Retry, Typed, Client, Steps, Starting,
     DaemonInv, RunsAreTried
<1>15. ASSUME NEW g \in Ids, DaemonUp(g) PROVE Typed'
  BY <1>0, <1>15, DaemonConstants DEF DaemonUp, Typed, Client, Steps, Starting, DaemonInv, RunsAreTried,
     Ids
<1>16. ASSUME NEW g \in Ids, DaemonExits(g) PROVE Typed'
  BY <1>0, <1>16, DaemonConstants DEF DaemonExits, PidAlive, Typed, Client, Steps, Starting, DaemonInv,
     RunsAreTried, Ids
<1>17. CASE UNCHANGED daemonVars
  BY <1>0, <1>17 DEF daemonVars, Typed
<1> QED
  BY <1>1, <1>2, <1>3, <1>4, <1>5, <1>6, <1>7, <1>8, <1>9, <1>10, <1>11, <1>12,
     <1>13, <1>14, <1>15, <1>16, <1>17
  DEF DaemonNext, EnsureDaemon, CallMethod

LEMMA DaemonInvStep == DaemonInv /\ [DaemonNext]_daemonVars => DaemonInv'
<1> SUFFICES ASSUME DaemonInv, [DaemonNext]_daemonVars PROVE DaemonInv'
  OBVIOUS
<1>1. ClientsTyped'
  BY ClientsTyped, PTL
<1> QED
  BY <1>1, LockStep, FileStep, LiveStep, RunsStep, DaemonTypeStep DEF DaemonInv

-----------------------------------------------------------------------------
(* The theorems                                                            *)

LEMMA AtMostOne ==
  ASSUME NEW S, \A x, y \in S : x = y
  PROVE  Cardinality(S) <= 1
<1>1. CASE S = {}
  BY <1>1, FS_EmptySet
<1>2. ASSUME NEW x \in S PROVE Cardinality(S) <= 1
  <2>1. S = {x}
    BY <1>2
  <2> QED
    BY <2>1, FS_Singleton
<1> QED
  BY <1>1, <1>2

(* Two living daemons are both named by the file, or both awaited by the   *)
(* client that holds the lock.                                             *)
LEMMA InvClientsAgree == DaemonInv => ClientsAgree
<1> SUFFICES ASSUME DaemonInv, deaths = 0, patience,
                    NEW g \in Ids, NEW h \in Ids, PidAlive(g), PidAlive(h)
             PROVE  g = h
  BY AtMostOne DEF ClientsAgree
<1>1. CASE daemons[g] = "serving"
  BY <1>1 DEF DaemonInv, LiveIsKnown, PidAlive
<1>2. CASE daemons[h] = "serving"
  BY <1>2 DEF DaemonInv, LiveIsKnown, PidAlive
<1>3. CASE daemons[g] = "starting" /\ daemons[h] = "starting"
  BY <1>3 DEF DaemonInv, LiveIsKnown, AwaitedBy, LockIsHeld, Starting
<1> QED
  BY <1>1, <1>2, <1>3 DEF PidAlive

LEMMA InvTries == DaemonInv => TriesBoundRuns
BY ClientsTyped, DaemonConstants DEF DaemonInv, RunsAreTried, TriesBoundRuns, Typed, Client

(* As long as no daemon ended and no start was given up there is one       *)
(* daemon, however many clients look for it at once; and call_method       *)
(* executes a call no more often than it tries it, and answers no call     *)
(* that was not executed, for any number of clients, tries and deaths.     *)
THEOREM ClientsShareOneDaemon == DaemonSpec => [](DaemonTypeOK /\ OneDaemon)
<1>1. DaemonInv => DaemonTypeOK /\ OneDaemon
  BY InvClientsAgree, InvTries DEF DaemonInv, OneDaemon
<1>2. DaemonInit => DaemonInv
  BY DaemonInvInit
<1>3. DaemonInv /\ [DaemonNext]_daemonVars => DaemonInv'
  BY DaemonInvStep
<1> QED
  BY <1>1, <1>2, <1>3, PTL DEF DaemonSpec

-----------------------------------------------------------------------------
(* The page: an answer, an event or a timer finds the page as the user left*)
(* it, and what it writes must be of the team he is at.                    *)

Selection == TeamIds \cup {Unselected}
Kinds == {"load", "diagnostics", "refresh", "resnapshot", "poll"}
Req == [kind : {"teams"}, team : {Unselected}, gen : Nat, from : Nat]
         \cup [kind : Kinds, team : TeamIds, gen : Nat, from : Nat]
Snapshot == [team : Selection, v : Nat]
Source == [team : Selection, gen : Nat, errors : 0..ErrorLimit, connected : BOOLEAN, before : BOOLEAN]

PageTyped ==
  /\ truth \in [TeamIds -> Nat] /\ gone \subseteq TeamIds
  /\ teamId \in Selection /\ loading \subseteq {"teams", "team"}
  /\ members \in Snapshot /\ dashboard \in Snapshot
  /\ connection \in [team : Selection, cursor : Nat]
  /\ source \in Source
  /\ streams \subseteq [team : TeamIds, gen : Nat, at : Nat]
  /\ generation \in Nat
  /\ refreshFailures \in 0..RefreshLimit

PageInv == PageTyped /\ reqs \in Seq(Req) /\ NoCrossTalk

-----------------------------------------------------------------------------
(* The requests in flight: an answer takes its own request out of the      *)
(* sequence and leaves the others, wherever it stands.                     *)

LEMMA Asks ==
  ASSUME NEW s \in Seq(Req), NEW r \in Req
  PROVE  /\ Append(s, r) \in Seq(Req)
         /\ \A i \in DOMAIN s : \E j \in DOMAIN Append(s, r) : Append(s, r)[j] = s[i]
         /\ \E j \in DOMAIN Append(s, r) : Append(s, r)[j] = r
<1>1. Append(s, r) \in Seq(Req) /\ Len(Append(s, r)) = Len(s) + 1 /\ Append(s, r)[Len(s) + 1] = r
  OBVIOUS
<1>2. \A i \in 1..Len(s) : Append(s, r)[i] = s[i]
  OBVIOUS
<1> QED BY <1>1, <1>2

LEMMA RemovedAt ==
  ASSUME NEW S, NEW s \in Seq(S), NEW k \in 1..Len(s)
  PROVE  /\ RemoveAt(s, k) \in Seq(S)
         /\ \A i \in DOMAIN s : i # k => \E j \in DOMAIN RemoveAt(s, k) : RemoveAt(s, k)[j] = s[i]
<1>0. PICK n \in Nat : n = Len(s) BY LenProperties
<1> DEFINE a == SubSeq(s, 1, k - 1)
           b == SubSeq(s, k + 1, n)
           w == a \o b
<1>1. k \in Int /\ 1 <= k /\ k <= n /\ DOMAIN s = 1..n /\ \A i \in 1..n : s[i] \in S
  BY <1>0, LenProperties, ElementOfSeq
<1>2. a \in Seq(S) /\ Len(a) = k - 1 /\ \A i \in 1..(k - 1) : a[i] = s[i]
  <2>1. \A i \in 1..(k - 1) : s[i] \in S BY <1>1
  <2>2. 1 \in Int /\ k - 1 \in Int BY <1>1
  <2> QED BY <1>1, <2>1, <2>2, SubSeqProperties
<1>3. b \in Seq(S) /\ Len(b) = n - k /\ \A i \in 1..(n - k) : b[i] = s[k + i]
  <2>1. \A i \in (k + 1)..n : s[i] \in S BY <1>1
  <2>2. k + 1 \in Int /\ n \in Int BY <1>1
  <2>3. /\ b \in Seq(S) /\ Len(b) = IF k + 1 <= n THEN n - (k + 1) + 1 ELSE 0
        /\ \A i \in 1..(n - (k + 1) + 1) : b[i] = s[(k + 1) + i - 1]
    BY <2>1, <2>2, SubSeqProperties
  <2>4. n - (k + 1) + 1 = n - k /\ \A i \in Int : (k + 1) + i - 1 = k + i BY <1>1
  <2>5. k + 1 <= n \/ n - k = 0 BY <1>1
  <2> HIDE DEF b
  <2> QED BY <1>1, <2>3, <2>4, <2>5
<1>4. RemoveAt(s, k) = w BY <1>0 DEF RemoveAt
<1> HIDE DEF a, b
<1>5. /\ w \in Seq(S) /\ Len(w) = n - 1
      /\ \A i \in 1..(n - 1) : w[i] = IF i <= k - 1 THEN a[i] ELSE b[i - (k - 1)]
  <2>1. Len(a) + Len(b) = n - 1 BY <1>1, <1>2, <1>3
  <2>2. /\ w \in Seq(S) /\ Len(w) = Len(a) + Len(b)
        /\ \A i \in 1..(Len(a) + Len(b)) : w[i] = IF i <= Len(a) THEN a[i] ELSE b[i - Len(a)]
    BY <1>2, <1>3, ConcatProperties
  <2> HIDE DEF w
  <2> QED BY <1>1, <1>2, <2>1, <2>2
<1> HIDE DEF w
<1>6. DOMAIN w = 1..(n - 1) BY <1>5, LenProperties
<1>7. ASSUME NEW i \in 1..n, i < k PROVE i \in DOMAIN w /\ w[i] = s[i]
  <2>1. i \in 1..(n - 1) /\ i <= k - 1 /\ i \in 1..(k - 1) BY <1>1, <1>7
  <2> QED BY <1>1, <1>2, <1>5, <1>6, <2>1
<1>8. ASSUME NEW i \in 1..n, i > k PROVE i - 1 \in DOMAIN w /\ w[i - 1] = s[i]
  <2>1. i - 1 \in 1..(n - 1) /\ ~(i - 1 <= k - 1) /\ (i - 1) - (k - 1) = i - k
    BY <1>1, <1>8
  <2>2. w[i - 1] = b[i - k] BY <1>5, <2>1
  <2>3. i - k \in 1..(n - k) /\ k + (i - k) = i BY <1>1, <1>8
  <2> QED BY <1>3, <1>6, <2>1, <2>2, <2>3
<1>9. \A i \in DOMAIN s : i # k => \E j \in DOMAIN w : w[j] = s[i]
  <2> SUFFICES ASSUME NEW i \in 1..n, i # k PROVE \E j \in DOMAIN w : w[j] = s[i]
    BY <1>1
  <2>1. i < k \/ i > k BY <1>1
  <2> QED BY <1>7, <1>8, <2>1
<1> QED BY <1>4, <1>5, <1>9

LEMMA RequestTyped ==
  ASSUME truth \in [TeamIds -> Nat], NEW kind \in Kinds, NEW t \in TeamIds, NEW g \in Nat
  PROVE  /\ Request(kind, t) \in Req /\ Request(kind, t).kind = kind /\ Request(kind, t).team = t
         /\ [Request(kind, t) EXCEPT !.gen = g] \in Req
         /\ [Request(kind, t) EXCEPT !.gen = g].kind = kind
         /\ [Request(kind, t) EXCEPT !.gen = g].team = t
<1>1. (IF t = Unselected THEN 0 ELSE truth[t]) \in Nat OBVIOUS
<1> QED BY <1>1 DEF Request, Req, Kinds

(* The requests after a step.                                              *)
Kept == \A i \in DOMAIN reqs : \E j \in DOMAIN reqs' : reqs'[j] = reqs[i]
KeptBut(k) == \A i \in DOMAIN reqs : i # k => \E j \in DOMAIN reqs' : reqs'[j] = reqs[i]
Asked(r) == \E j \in DOMAIN reqs' : reqs'[j] = r

LEMMA AskStep ==
  ASSUME reqs \in Seq(Req), NEW r \in Req, reqs' = Append(reqs, r)
  PROVE  reqs' \in Seq(Req) /\ Kept /\ Asked(r)
BY Asks DEF Kept, Asked

LEMMA AnswerStep ==
  ASSUME reqs \in Seq(Req), NEW k \in DOMAIN reqs, reqs' = Remaining(k)
  PROVE  reqs' \in Seq(Req) /\ KeptBut(k)
<1>1. k \in 1..Len(reqs) OBVIOUS
<1> QED BY <1>1, RemovedAt DEF Remaining, KeptBut

LEMMA AnswerAskStep ==
  ASSUME reqs \in Seq(Req), NEW k \in DOMAIN reqs, NEW r \in Req, reqs' = Append(Remaining(k), r)
  PROVE  reqs' \in Seq(Req) /\ KeptBut(k) /\ Asked(r)
<1>1. k \in 1..Len(reqs) OBVIOUS
<1>2. /\ Remaining(k) \in Seq(Req)
      /\ \A i \in DOMAIN reqs : i # k => \E j \in DOMAIN Remaining(k) : Remaining(k)[j] = reqs[i]
  BY <1>1, RemovedAt DEF Remaining
<1>3. /\ reqs' \in Seq(Req) /\ Asked(r)
      /\ \A i \in DOMAIN Remaining(k) : \E j \in DOMAIN reqs' : reqs'[j] = Remaining(k)[i]
  BY <1>2, Asks DEF Asked
<1> QED BY <1>2, <1>3 DEF KeptBut

(* What is shown stays, or becomes that of the selected team, or nothing.  *)
LEMMA ShownStays ==
  ASSUME NoCrossTalk, Kept \/ \E k \in DOMAIN reqs : KeptBut(k) /\ reqs[k].kind \notin {"load", "teams"},
         teamId' = teamId, members'.team \in {members.team, teamId, Unselected},
         dashboard'.team = connection'.team
  PROVE  NoCrossTalk'
BY DEF NoCrossTalk, Kept, KeptBut

LEMMA SourceMarked ==
  ASSUME NEW r \in Source
  PROVE  /\ [r EXCEPT !.errors = 0, !.connected = TRUE, !.before = TRUE] \in Source
         /\ r.errors + 1 < ErrorLimit => [r EXCEPT !.errors = @ + 1, !.connected = FALSE] \in Source
<1>1. 0 \in 0..ErrorLimit BY DashboardConstants
<1>2. r.errors + 1 < ErrorLimit => r.errors + 1 \in 0..ErrorLimit BY DashboardConstants DEF Source
<1>3. [r EXCEPT !.errors = 0, !.connected = TRUE, !.before = TRUE] \in Source
  BY <1>1, Zenon DEF Source
<1>4. r.errors + 1 \in 0..ErrorLimit => [r EXCEPT !.errors = @ + 1, !.connected = FALSE] \in Source
  BY Zenon DEF Source
<1> QED BY <1>2, <1>3, <1>4

LEMMA NoSourceTyped == NoSource \in Source
BY DashboardConstants DEF NoSource, Source, Selection

LEMMA ChangeKeeps == ASSUME PageInv, NEW t \in TeamIds, Change(t) PROVE PageInv'
<1> USE DEF PageInv
<1>1. PageTyped' BY DEF PageTyped, Selection, Snapshot, Source, Change, pageVars, feedVars
<1>2. reqs' \in Seq(Req) /\ Kept BY DEF Change, Kept
<1>3. NoCrossTalk' BY DEF Change, pageVars, feedVars, NoCrossTalk
<1> QED BY <1>1, <1>2, <1>3

LEMMA DeleteTeamKeeps == ASSUME PageInv, NEW t \in TeamIds, DeleteTeam(t) PROVE PageInv'
<1> USE DEF PageInv
<1>1. PageTyped' BY DEF PageTyped, Selection, Snapshot, Source, DeleteTeam, pageVars, feedVars
<1>2. reqs' \in Seq(Req) /\ Kept BY DEF DeleteTeam, Kept
<1>3. NoCrossTalk' BY DEF DeleteTeam, pageVars, feedVars, NoCrossTalk
<1> QED BY <1>1, <1>2, <1>3

LEMMA SelectTeamKeeps == ASSUME PageInv, NEW t \in TeamIds, SelectTeam(t) PROVE PageInv'
<1> USE DEF PageInv
<1>1. PageTyped' BY DEF PageTyped, Selection, Snapshot, Source, SelectTeam, feedVars
<1>2. reqs' \in Seq(Req) /\ Asked(Request("load", t))
  BY AskStep, RequestTyped DEF SelectTeam, PageTyped, Kinds
<1>3. NoCrossTalk'
  <2>1. Request("load", t).kind = "load" /\ Request("load", t).team = t BY DEF Request
  <2> QED BY <2>1 DEF NoCrossTalk, SelectTeam, feedVars
<1> QED BY <1>1, <1>2, <1>3

LEMMA ReloadKeeps == ASSUME PageInv, Reload PROVE PageInv'
<1> USE DEF PageInv
<1>1. PageTyped' BY DEF PageTyped, Selection, Snapshot, Source, Reload, feedVars
<1>2. reqs' \in Seq(Req) /\ Kept
  <2>1. teamId \in TeamIds /\ Request("load", teamId) \in Req
    BY RequestTyped DEF Reload, PageTyped, Selection, Kinds
  <2> QED BY <2>1, AskStep DEF Reload
<1>3. NoCrossTalk' BY DEF Reload, feedVars, NoCrossTalk
<1> QED BY <1>1, <1>2, <1>3

LEMMA FrameKeeps == ASSUME PageInv, NEW st \in streams, Frame(st) PROVE PageInv'
<1> USE DEF PageInv
<1>0. st \in [team : TeamIds, gen : Nat, at : Nat] /\ [st EXCEPT !.at = @ + 1] \in [team : TeamIds, gen : Nat, at : Nat]
  BY DEF PageTyped
<1>1. PageTyped'
  <2>1. dashboard' \in Snapshot /\ connection' \in [team : Selection, cursor : Nat] /\ source' \in Source
    <3>1. source' = source \/ source' = [source EXCEPT !.errors = 0, !.connected = TRUE, !.before = TRUE]
      BY DEF Frame
    <3>2. source' \in Source BY <3>1, SourceMarked DEF PageTyped
    <3>3. dashboard' = dashboard \/ dashboard' = [dashboard EXCEPT !.v = st.at + 1] BY DEF Frame
    <3>4. dashboard' \in Snapshot BY <3>3 DEF PageTyped, Snapshot
    <3>5. connection' = connection \/ connection' = [connection EXCEPT !.cursor = st.at + 1]
      BY DEF Frame
    <3>6. connection' \in [team : Selection, cursor : Nat] BY <3>5 DEF PageTyped
    <3> QED BY <3>2, <3>4, <3>6
  <2> QED BY <2>1 DEF PageTyped, Frame, pageVars
<1>2. reqs' \in Seq(Req) /\ Kept
  <2>1. [Request("resnapshot", st.team) EXCEPT !.gen = st.gen] \in Req
    BY RequestTyped DEF PageTyped, Kinds
  <2>2. reqs' = reqs \/ reqs' = Append(reqs, [Request("resnapshot", st.team) EXCEPT !.gen = st.gen])
    BY DEF Frame
  <2> QED BY <2>1, <2>2, AskStep DEF Kept
<1>3. NoCrossTalk'
  <2>1. dashboard'.team = dashboard.team /\ connection'.team = connection.team
    BY DEF Frame, PageTyped, Snapshot
  <2> QED BY <2>1, ShownStays DEF Frame, pageVars, NoCrossTalk
<1> QED BY <1>1, <1>2, <1>3

LEMMA OpenedKeeps == ASSUME PageInv, NEW st \in streams, Opened(st) PROVE PageInv'
<1> USE DEF PageInv
<1>0. st \in [team : TeamIds, gen : Nat, at : Nat]
  BY DEF PageTyped
<1>1. PageTyped'
  <2>1. source' \in Source BY SourceMarked DEF Opened, PageTyped
  <2> QED BY <2>1 DEF PageTyped, Opened, pageVars
<1>2. reqs' \in Seq(Req) /\ Kept
  <2>1. [Request("resnapshot", st.team) EXCEPT !.gen = st.gen] \in Req
    BY RequestTyped DEF PageTyped, Kinds
  <2>2. reqs' = reqs \/ reqs' = Append(reqs, [Request("resnapshot", st.team) EXCEPT !.gen = st.gen])
    BY DEF Opened
  <2> QED BY <2>1, <2>2 DEF Kept
<1>3. NoCrossTalk' BY <1>2 DEF Opened, pageVars, NoCrossTalk
<1> QED BY <1>1, <1>2, <1>3

LEMMA StreamErrorKeeps == ASSUME PageInv, NEW st \in streams, StreamError(st) PROVE PageInv'
<1> USE DEF PageInv
<1>0. st \in [team : TeamIds, gen : Nat, at : Nat]
  BY DEF PageTyped
<1>1. PageTyped'
  <2>1. source' \in Source /\ generation' \in Nat /\ streams' \subseteq streams
    <3>1. CASE source.errors + 1 < ErrorLimit
      BY <3>1, SourceMarked DEF StreamError, PageTyped
    <3>2. CASE ~(source.errors + 1 < ErrorLimit)
      BY <3>2, NoSourceTyped DEF StreamError, PageTyped
    <3> QED BY <3>1, <3>2
  <2> QED BY <2>1 DEF PageTyped, StreamError, pageVars
<1>2. reqs' \in Seq(Req) /\ Kept
  <2>1. Request("resnapshot", st.team) \in Req
    BY <1>0, RequestTyped DEF PageTyped, Kinds
  <2>2. reqs' = reqs \/ reqs' = Append(reqs, Request("resnapshot", st.team))
    BY DEF StreamError
  <2> QED BY <2>1, <2>2, AskStep DEF Kept
<1>3. NoCrossTalk' BY DEF StreamError, pageVars, NoCrossTalk
<1> QED BY <1>1, <1>2, <1>3

LEMMA PollTimerKeeps == ASSUME PageInv, PollTimer PROVE PageInv'
<1> USE DEF PageInv
<1>1. PageTyped' BY DEF PageTyped, Selection, Snapshot, Source, PollTimer, pageVars, feedVars
<1>2. reqs' \in Seq(Req) /\ Kept
  <2>1. connection.team \in TeamIds /\ [Request("poll", connection.team) EXCEPT !.gen = connection.cursor] \in Req
    BY RequestTyped DEF PollTimer, PageTyped, Selection, Kinds
  <2> QED BY <2>1, AskStep DEF PollTimer
<1>3. NoCrossTalk' BY <1>2 DEF PollTimer, pageVars, feedVars, NoCrossTalk
<1> QED BY <1>1, <1>2, <1>3

LEMMA RefreshTimerKeeps == ASSUME PageInv, RefreshTimer PROVE PageInv'
<1> USE DEF PageInv
<1>1. PageTyped' BY DEF PageTyped, Selection, Snapshot, Source, RefreshTimer, pageVars, feedVars
<1>2. reqs' \in Seq(Req) /\ Kept
  <2>1. teamId \in TeamIds /\ Request("refresh", teamId) \in Req
    BY RequestTyped DEF RefreshTimer, PageTyped, Selection, Kinds
  <2> QED BY <2>1, AskStep DEF RefreshTimer
<1>3. NoCrossTalk' BY DEF RefreshTimer, pageVars, feedVars, NoCrossTalk
<1> QED BY <1>1, <1>2, <1>3

LEMMA TeamsAnsweredKeeps == ASSUME PageInv, NEW k \in DOMAIN reqs, TeamsAnswered(k) PROVE PageInv'
<1> USE DEF PageInv
<1>1. PageTyped'
  <2>1. ASSUME NEW t \in TeamIds, teamId' = t, loading' = loading \cup {"team"},
               UNCHANGED <<members, source, generation, polling>>
        PROVE  PageTyped'
    BY <2>1 DEF PageTyped, Selection, TeamsAnswered
  <2>2. ASSUME teamId' = Unselected, loading' = loading \ {"teams"}, members' = Nothing, CloseTeamEvents
        PROVE  PageTyped'
    BY <2>2, DashboardConstants DEF PageTyped, Selection, Snapshot, Source, TeamsAnswered, CloseTeamEvents, Nothing, NoSource
  <2> QED BY <2>1, <2>2 DEF TeamsAnswered
<1>2. CASE \E t \in TeamIds : teamId' = t /\ reqs' = Append(Remaining(k), [Request("load", t) EXCEPT !.gen = 1])
  <2>1. PICK t \in TeamIds : teamId' = t /\ reqs' = Append(Remaining(k), [Request("load", t) EXCEPT !.gen = 1])
    BY <1>2
  <2> DEFINE r == [Request("load", t) EXCEPT !.gen = 1]
  <2>0. "load" \in Kinds /\ 1 \in Nat /\ truth \in [TeamIds -> Nat] BY DEF Kinds, PageTyped
  <2>2. r \in Req /\ r.kind = "load" /\ r.team = t
    BY <2>0, RequestTyped
  <2> HIDE DEF r
  <2>3. reqs' \in Seq(Req) /\ Asked(r)
    BY <2>1, <2>2, AnswerAskStep DEF r
  <2>4. NoCrossTalk'
    BY <2>1, <2>2, <2>3 DEF Asked, NoCrossTalk, TeamsAnswered
  <2> QED BY <1>1, <2>3, <2>4
<1>3. CASE members' = Nothing /\ reqs' = Remaining(k)
  <2>1. reqs' \in Seq(Req) BY <1>3, AnswerStep
  <2>2. NoCrossTalk' BY <1>3 DEF NoCrossTalk, TeamsAnswered, Nothing
  <2> QED BY <1>1, <2>1, <2>2
<1>4. (\E t \in TeamIds : teamId' = t /\ reqs' = Append(Remaining(k), [Request("load", t) EXCEPT !.gen = 1]))
        \/ (members' = Nothing /\ reqs' = Remaining(k))
  BY DEF TeamsAnswered
<1> QED BY <1>2, <1>3, <1>4

LEMMA LoadAnsweredKeeps == ASSUME PageInv, NEW k \in DOMAIN reqs, LoadAnswered(k) PROVE PageInv'
<1> USE DEF PageInv
<1>0. reqs[k] \in Req /\ reqs[k].team \in TeamIds /\ reqs[k].from \in Nat /\ reqs[k].gen \in Nat
  BY DEF LoadAnswered, Req
<1>1. PageTyped'
  <2>1. PICK v \in Versions(reqs[k]) : /\ teamId' = reqs[k].team
                                       /\ members' = [team |-> reqs[k].team, v |-> v]
                                       /\ OpenTeamEvents(reqs[k].team, v)
    BY DEF LoadAnswered
  <2>2. v \in Nat /\ truth[reqs[k].team] \in Nat BY <1>0 DEF Versions, PageTyped
  <2>3. /\ source' \in Source /\ dashboard' \in Snapshot /\ connection' \in [team : Selection, cursor : Nat]
        /\ generation' \in Nat
    <3>1. source' = [NoSource EXCEPT !.team = reqs[k].team, !.gen = generation + 1]
      BY <2>1 DEF OpenTeamEvents
    <3>2. 0 \in 0..ErrorLimit /\ generation + 1 \in Nat /\ reqs[k].team \in Selection
      BY <1>0, DashboardConstants DEF PageTyped, Selection
    <3>5. source' \in Source BY <3>1, <3>2 DEF NoSource, Source
    <3> QED BY <1>0, <2>1, <2>2, <3>5 DEF OpenTeamEvents, PageTyped, Selection, Snapshot
  <2>4. streams' \subseteq [team : TeamIds, gen : Nat, at : Nat]
    BY <1>0, <2>1 DEF OpenTeamEvents, PageTyped
  <2> QED BY <1>0, <2>1, <2>2, <2>3, <2>4 DEF PageTyped, Selection, Snapshot, LoadAnswered
<1>2. reqs' \in Seq(Req)
  <2>1. [Request("diagnostics", reqs[k].team) EXCEPT !.gen = reqs[k].gen] \in Req
    BY <1>0, RequestTyped DEF PageTyped, Kinds
  <2> QED BY <2>1, AnswerAskStep DEF LoadAnswered
<1>3. NoCrossTalk' BY DEF NoCrossTalk, LoadAnswered, OpenTeamEvents
<1> QED BY <1>1, <1>2, <1>3

LEMMA LoadFailsKeeps == ASSUME PageInv, NEW k \in DOMAIN reqs, LoadFails(k) PROVE PageInv'
<1> USE DEF PageInv
<1>1. PageTyped'
  BY DashboardConstants DEF PageTyped, Selection, Snapshot, Source, LoadFails, CloseTeamEvents,
     Nothing, NoSource
<1>2. reqs' \in Seq(Req) BY AnswerStep DEF LoadFails
<1>3. NoCrossTalk' BY DEF NoCrossTalk, LoadFails, Nothing
<1> QED BY <1>1, <1>2, <1>3

LEMMA DiagnosticsAnsweredKeeps == ASSUME PageInv, NEW k \in DOMAIN reqs, DiagnosticsAnswered(k) PROVE PageInv'
<1> USE DEF PageInv
<1>1. PageTyped' BY DEF PageTyped, Selection, Snapshot, Source, DiagnosticsAnswered, feedVars
<1>2. reqs' \in Seq(Req) /\ KeptBut(k) BY AnswerStep DEF DiagnosticsAnswered
<1>3. NoCrossTalk' BY <1>2, ShownStays DEF DiagnosticsAnswered, feedVars, NoCrossTalk
<1> QED BY <1>1, <1>2, <1>3

LEMMA RefreshAnsweredKeeps == ASSUME PageInv, NEW k \in DOMAIN reqs, RefreshAnswered(k) PROVE PageInv'
<1> USE DEF PageInv
<1>0. reqs[k] \in Req /\ reqs[k].team \in TeamIds /\ reqs[k].from \in Nat
  BY DEF RefreshAnswered, Req
<1>1. PageTyped'
  <2>1. \A v \in Versions(reqs[k]) : v \in Nat BY <1>0 DEF Versions
  <2>2. /\ members' \in Snapshot /\ dashboard' \in Snapshot /\ refreshFailures' \in 0..RefreshLimit
    BY <1>0, <2>1, DashboardConstants DEF PageTyped, Selection, Snapshot, Source, RefreshAnswered, Reconciled
  <2> QED BY <2>2 DEF PageTyped, RefreshAnswered
<1>2. reqs' \in Seq(Req) /\ KeptBut(k) BY AnswerStep DEF RefreshAnswered
<1>3. NoCrossTalk'
  <2>1. members'.team \in {members.team, teamId} /\ dashboard'.team = connection.team
    BY DEF RefreshAnswered, Reconciled, StillSelected, NoCrossTalk
  <2> QED BY <1>2, <2>1, ShownStays DEF RefreshAnswered
<1> QED BY <1>1, <1>2, <1>3

LEMMA RefreshFailsKeeps == ASSUME PageInv, NEW k \in DOMAIN reqs, RefreshFails(k) PROVE PageInv'
<1> USE DEF PageInv
<1>0. [kind |-> "teams", team |-> Unselected, gen |-> 0, from |-> 0] \in Req
  BY DEF Req
<1>1. PageTyped'
  <2>1. source' \in Source /\ generation' \in Nat
    <3>1. UNCHANGED <<source, generation>> \/ (source' = NoSource /\ generation' = generation + 1)
      BY DEF RefreshFails, CloseTeamEvents
    <3> QED BY <3>1, NoSourceTyped DEF PageTyped
  <2>2. /\ teamId' \in Selection /\ members' \in Snapshot /\ refreshFailures' \in 0..RefreshLimit
        /\ loading' \subseteq {"teams", "team"}
    <3>1. CASE ~StillSelected(reqs[k]) BY <3>1 DEF RefreshFails, PageTyped
    <3>2. CASE StillSelected(reqs[k]) /\ (Fails(reqs[k]) \/ refreshFailures + 1 >= RefreshLimit)
      <4>1. teamId' = Unselected /\ members' = Nothing /\ refreshFailures' = 0 /\ loading' = loading \cup {"teams"}
        BY <3>2 DEF RefreshFails
      <4> QED BY <4>1, DashboardConstants DEF PageTyped, Selection, Snapshot, Nothing
    <3>3. CASE StillSelected(reqs[k]) /\ ~(Fails(reqs[k]) \/ refreshFailures + 1 >= RefreshLimit)
      <4>1. UNCHANGED <<teamId, members, loading>> /\ refreshFailures' = refreshFailures + 1
        BY <3>3 DEF RefreshFails
      <4> QED BY <3>3, <4>1, DashboardConstants DEF PageTyped
    <3> QED BY <3>1, <3>2, <3>3
  <2> QED BY <2>1, <2>2 DEF PageTyped, RefreshFails
<1>2. reqs' \in Seq(Req) /\ KeptBut(k)
  <2>1. reqs' = Remaining(k) \/ reqs' = Append(Remaining(k), Request("teams", Unselected))
    BY DEF RefreshFails
  <2>2. Request("teams", Unselected) \in Req BY <1>0 DEF Request
  <2> QED BY <2>1, <2>2, AnswerStep, AnswerAskStep
<1>3. NoCrossTalk'
  <2>1. CASE teamId' = teamId /\ members' = members
    BY <1>2, <2>1, ShownStays DEF RefreshFails, NoCrossTalk
  <2>2. CASE members' = Nothing
    BY <2>2 DEF RefreshFails, NoCrossTalk, Nothing
  <2> QED BY <2>1, <2>2 DEF RefreshFails
<1> QED BY <1>1, <1>2, <1>3

LEMMA ResnapshotAnsweredKeeps == ASSUME PageInv, NEW k \in DOMAIN reqs, ResnapshotAnswered(k) PROVE PageInv'
<1> USE DEF PageInv
<1>0. reqs[k] \in Req /\ reqs[k].team \in TeamIds /\ reqs[k].from \in Nat
  BY DEF ResnapshotAnswered, Req
<1>1. PageTyped'
  <2>1. \A v \in Versions(reqs[k]) : v \in Nat BY <1>0 DEF Versions
  <2>2. /\ members' \in Snapshot /\ dashboard' \in Snapshot
    BY <1>0, <2>1 DEF PageTyped, Selection, Snapshot, ResnapshotAnswered, Reconciled
  <2> QED BY <2>2 DEF PageTyped, ResnapshotAnswered
<1>2. reqs' \in Seq(Req) /\ KeptBut(k)
  <2> DEFINE r == [Request("poll", connection.team) EXCEPT !.gen = connection.cursor]
  <2>1. connection.team # Unselected => r \in Req
    BY RequestTyped DEF PageTyped, Selection, Kinds
  <2> HIDE DEF r
  <2>2. reqs' = Remaining(k) \/ (connection.team # Unselected /\ reqs' = Append(Remaining(k), r))
    BY DEF ResnapshotAnswered, r
  <2> QED BY <2>1, <2>2, AnswerStep, AnswerAskStep
<1>3. NoCrossTalk'
  <2>1. members'.team \in {members.team, teamId} /\ dashboard'.team = connection.team
    BY DEF ResnapshotAnswered, Reconciled, StillSelected, NoCrossTalk
  <2> QED BY <1>2, <2>1, ShownStays DEF ResnapshotAnswered
<1> QED BY <1>1, <1>2, <1>3

LEMMA PollAnsweredKeeps == ASSUME PageInv, NEW k \in DOMAIN reqs, PollAnswered(k) PROVE PageInv'
<1> USE DEF PageInv
<1>0. reqs[k] \in Req /\ reqs[k].team \in TeamIds /\ reqs[k].from \in Nat
  BY DEF PollAnswered, Req
<1>1. PageTyped'
  <2>1. \A v \in Versions(reqs[k]) : v \in Nat BY <1>0 DEF Versions
  <2>2. connection' \in [team : Selection, cursor : Nat] /\ dashboard' \in Snapshot
    BY <2>1 DEF PageTyped, Selection, Snapshot, Source, PollAnswered
  <2> QED BY <2>2 DEF PageTyped, PollAnswered, pageVars
<1>2. reqs' \in Seq(Req) /\ KeptBut(k) BY AnswerStep DEF PollAnswered
<1>3. NoCrossTalk'
  <2>1. connection'.team = connection.team /\ dashboard'.team = dashboard.team
    BY DEF PollAnswered, PageTyped, Snapshot
  <2> QED BY <1>2, <2>1, ShownStays DEF PollAnswered, pageVars, NoCrossTalk
<1> QED BY <1>1, <1>2, <1>3

LEMMA PageInvInit == DashboardInit => PageInv
<1> SUFFICES ASSUME DashboardInit PROVE PageInv OBVIOUS
<1>1. PageTyped
  BY DashboardConstants DEF DashboardInit, PageTyped, Selection, Snapshot, Source, Nothing, NoSource
<1>2. [kind |-> "teams", team |-> Unselected, gen |-> 0, from |-> 0] \in Req BY DEF Req
<1>3. reqs \in Seq(Req) BY <1>2 DEF DashboardInit
<1>4. NoCrossTalk BY DEF DashboardInit, NoCrossTalk, Nothing
<1> QED BY <1>1, <1>3, <1>4 DEF PageInv

LEMMA PageInvStep == PageInv /\ [DashboardNext]_dashboardVars => PageInv'
<1> SUFFICES ASSUME PageInv, [DashboardNext]_dashboardVars PROVE PageInv' OBVIOUS
<1>1. ASSUME NEW t \in TeamIds, Change(t) \/ DeleteTeam(t) \/ SelectTeam(t) PROVE PageInv'
  BY <1>1, ChangeKeeps, DeleteTeamKeeps, SelectTeamKeeps
<1>2. ASSUME NEW st \in streams, Frame(st) \/ Opened(st) \/ StreamError(st) PROVE PageInv'
  BY <1>2, FrameKeeps, OpenedKeeps, StreamErrorKeeps
<1>3. CASE Reload \/ PollTimer \/ RefreshTimer
  BY <1>3, ReloadKeeps, PollTimerKeeps, RefreshTimerKeeps
<1>4. ASSUME NEW k \in DOMAIN reqs, Answer(k) PROVE PageInv'
  BY <1>4, TeamsAnsweredKeeps, LoadAnsweredKeeps, LoadFailsKeeps, DiagnosticsAnsweredKeeps,
     RefreshAnsweredKeeps, RefreshFailsKeeps, ResnapshotAnsweredKeeps, PollAnsweredKeeps DEF Answer
<1>5. CASE UNCHANGED dashboardVars
  BY <1>5 DEF dashboardVars, PageInv, PageTyped, NoCrossTalk
<1> QED BY <1>1, <1>2, <1>3, <1>4, <1>5 DEF DashboardNext

(* Whatever order answers, events and timers come in, for any teams, any   *)
(* limits and number of requests: the members of a team the user has left  *)
(* are shown only while the load of the selected one is in flight, and the *)
(* dashboard's workers are those of the team it is connected to.           *)
THEOREM TeamsStayApart == DashboardSpec => [](DashboardTypeOK /\ NoCrossTalk)
<1>1. PageInv => DashboardTypeOK /\ NoCrossTalk
  BY DEF PageInv, PageTyped, Selection, Snapshot, Source, DashboardTypeOK
<1> QED BY <1>1, PageInvInit, PageInvStep, PTL DEF DashboardSpec

-----------------------------------------------------------------------------
(* The composition: one component runs, and the others rest where they     *)
(* began, so all three keep their invariants.                              *)

LiveInv == which \in Components /\ TeamsInv /\ DaemonInv /\ PageInv

LEMMA LiveInvStep == LiveInv /\ [LiveNext]_liveVars => LiveInv'
<1> SUFFICES ASSUME LiveInv, [LiveNext]_liveVars PROVE LiveInv' OBVIOUS
<1>1. which' = which /\ [Next]_vars /\ [DaemonNext]_daemonVars /\ [DashboardNext]_dashboardVars
  BY Zenon DEF LiveNext, Rest, liveVars
<1>2. TeamsInv' /\ DaemonInv' /\ PageInv'
  BY <1>1, TeamsInvStep, DaemonInvStep, PageInvStep DEF LiveInv
<1> QED BY <1>1, <1>2 DEF LiveInv

(* The records of teams, daemons, clients and requests keep their shapes   *)
(* in every behaviour of the composition, and no team's count of ticks     *)
(* without its lead reaches the grace: the tick that would reach it        *)
(* archives the team and forgets the count, whatever was decided on a list *)
(* of teams that is stale by then.                                         *)
THEOREM ComponentsKeepTheirTypes == LiveSpec => []LiveTypeOK
<1>1. LiveInit => LiveInv
  BY TeamsInvInit, DaemonInvInit, PageInvInit DEF LiveInit, LiveInv
<1>2. LiveInv => LiveTypeOK
  <2> SUFFICES ASSUME LiveInv PROVE LiveTypeOK OBVIOUS
  <2>1. TypeOK
    BY DEF LiveInv, TeamsInv
  <2>2. DaemonTypeOK
    BY DEF LiveInv, DaemonInv
  <2>3. DashboardTypeOK
    BY DEF LiveInv, PageInv, PageTyped, Selection, Snapshot, Source, DashboardTypeOK
  <2> QED BY <2>1, <2>2, <2>3 DEF LiveInv, LiveTypeOK
<1> QED BY <1>1, <1>2, LiveInvStep, PTL DEF LiveSpec
=============================================================================
