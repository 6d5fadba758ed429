----------------------------- MODULE HostProofs -----------------------------
(***************************************************************************)
(* Proofs about how the service is started, its sessions with the agents,  *)
(* the routing of their messages, the installation, its processes and its  *)
(* MCP endpoint, each for every value of its component's constants: any    *)
(* relays and runtime directories, services and crashes; any capacity of   *)
(* the channel, inputs and lines; any workers, handles, texts and          *)
(* messages; any skills, commands and interruptions; any process numbers   *)
(* and depth of a walk; any clients, paths, payloads and restarts.         *)
(***************************************************************************)
EXTENDS ServiceStart, Sessions, Routing, GlobalInstall, ProcessTree, McpServer,
        FiniteSetTheorems, SequenceTheorems, WellFoundedInduction, TLAPS

-----------------------------------------------------------------------------
(* ServiceStart. service.lock keeps two services of a directory apart, but *)
(* the runtime file is written and the token created before the shared     *)
(* port is bound: what a relay reads there may belong to a service that    *)
(* never came to serve.                                                    *)

Pcs == Live \cup {"unborn", "exited", "failed", "crashed"}
Service == [pc : Pcs, dir : RunDirs \cup {NoDir}]
Reasons == {"none", "mismatch", "timeout", "token", "forward"}
RelayPcs == {"new", "look", "spawn", "waitinfo", "waithealth", "headers", "connected", "failed"}
Relay == [pc : RelayPcs, dir : RunDirs \cup {NoDir}, pid : 0..MaxServices, why : Reasons]

StartTyped ==
  /\ svc \in [Services -> Service] /\ relay \in [Relays -> Relay]
  /\ holder \in [RunDirs -> 0..MaxServices] /\ info \in [RunDirs -> 0..MaxServices]
  /\ tokenFile \in [RunDirs -> {"none", "empty", "good"}] /\ port \in 0..MaxServices
  /\ crashes \in 0..MaxCrashes

(* A service that was started has a directory, and is past the directory's *)
(* lock exactly while it holds it.                                         *)
LockIsHeld ==
  \A g \in Services :
    /\ svc[g].pc # "unborn" => svc[g].dir \in RunDirs
    /\ \A d \in RunDirs : (svc[g].pc \in Past /\ svc[g].dir = d) <=> holder[d] = g

(* The port is the serving process's, and only a crash made one crash.     *)
PortIsServed ==
  \A g \in Services : /\ svc[g].pc = "serving" <=> port = g
                      /\ svc[g].pc = "crashed" => crashes > 0

(* A service fails to bind only for a service of another directory, as its *)
(* own is locked.                                                          *)
Rival(d) == \E h \in Services : svc[h].pc # "unborn" /\ svc[h].dir # d
FailedHasRival == \A g \in Services : svc[g].pc = "failed" => Rival(svc[g].dir)

(* Whoever is past the token has a whole one, but for a crash.             *)
TokenIsWhole ==
  crashes = 0 =>
    \A g \in Services :
      svc[g].pc \in {"info", "bind", "serving", "failed"} => tokenFile[svc[g].dir] = "good"

(* No one but a service past the lock creates the token.                   *)
TokenIsMade ==
  crashes = 0 =>
    \A d \in RunDirs : tokenFile[d] = "empty" =>
      holder[d] # 0 /\ svc[holder[d]].pc = "write"

(* A process number in the runtime file, or taken from it, is of a service *)
(* of that directory that had come to bind the port.                       *)
Announced(p, d) ==
  /\ p \in Services /\ svc[p].dir = d
  /\ svc[p].pc \in {"bind", "serving", "failed", "crashed"}
RelayKnows(r) ==
  /\ relay[r].pc # "new" => relay[r].dir \in RunDirs
  /\ relay[r].pc = "waithealth" => Announced(relay[r].pid, relay[r].dir)
  /\ relay[r].pc \in {"headers", "connected"} =>
       /\ Announced(relay[r].pid, relay[r].dir)
       /\ svc[relay[r].pid].pc \in {"serving", "crashed"}
FileNamesService ==
  /\ \A d \in RunDirs : info[d] # 0 => Announced(info[d], d)
  /\ \A r \in Relays : RelayKnows(r)

(* Why a relay has failed.                                                 *)
HasCause(r) ==
  relay[r].pc = "failed" =>
    relay[r].why = "timeout" \/ crashes > 0 \/ Rival(relay[r].dir)
FailuresAreCaused == \A r \in Relays : HasCause(r)

StartInv == /\ StartTypeOK /\ LockIsHeld /\ PortIsServed /\ FailedHasRival
       /\ TokenIsWhole /\ TokenIsMade /\ FileNamesService /\ FailuresAreCaused

-----------------------------------------------------------------------------
(* The invariant                                                           *)

LEMMA AllStartTyped == StartTypeOK <=> StartTyped
BY DEF StartTypeOK, StartTyped, Service, Relay, RelayPcs, Reasons, Pcs

LEMMA StartInvInit == StartInit => StartInv
<1> SUFFICES ASSUME StartInit PROVE StartInv
  OBVIOUS
<1>1. StartTyped
  BY StartConstants DEF StartInit, StartTyped, Service, Relay, RelayPcs, Reasons, Pcs
<1> QED
  BY <1>1, AllStartTyped DEF StartInit, StartInv, LockIsHeld, PortIsServed, FailedHasRival, TokenIsWhole,
     TokenIsMade, FileNamesService, FailuresAreCaused, RelayKnows, HasCause, Past, Services

-----------------------------------------------------------------------------
(* What each step does, entry by entry                                     *)

Moves(g, p) == /\ svc'[g].pc = p /\ svc'[g].dir = svc[g].dir
               /\ \A h \in Services : h # g => svc'[h] = svc[h]
Holds(d, g) == holder'[d] = g /\ \A e \in RunDirs : e # d => holder'[e] = holder[e]
Token(d, t) == tokenFile'[d] = t /\ \A e \in RunDirs : e # d => tokenFile'[e] = tokenFile[e]
Others(r) == \A q \in Relays : q # r => relay'[q] = relay[q]

TakesLock(g, d) ==
  /\ svc[g].pc = "start" /\ holder[d] = 0 /\ Moves(g, "token") /\ Holds(d, g)
  /\ UNCHANGED <<info, tokenFile, port, relay, crashes>>
LosesLock(g, d) ==
  /\ svc[g].pc = "start" /\ holder[d] # 0 /\ Moves(g, "exited")
  /\ UNCHANGED <<holder, info, tokenFile, port, relay, crashes>>
CreatesToken(g, d) ==
  /\ svc[g].pc = "token" /\ tokenFile[d] = "none" /\ Moves(g, "write") /\ Token(d, "empty")
  /\ UNCHANGED <<holder, info, port, relay, crashes>>
FindsToken(g, d) ==
  /\ svc[g].pc = "token" /\ tokenFile[d] # "none" /\ Moves(g, "info")
  /\ UNCHANGED <<holder, info, tokenFile, port, relay, crashes>>
WritesToken(g, d) ==
  /\ svc[g].pc = "write" /\ Moves(g, "info") /\ Token(d, "good")
  /\ UNCHANGED <<holder, info, port, relay, crashes>>
WritesInfo(g, d) ==
  /\ svc[g].pc = "info" /\ Moves(g, "bind")
  /\ info'[d] = g /\ \A e \in RunDirs : e # d => info'[e] = info[e]
  /\ UNCHANGED <<holder, tokenFile, port, relay, crashes>>
BindsPort(g, d) ==
  /\ svc[g].pc = "bind" /\ port = 0 /\ Moves(g, "serving") /\ port' = g
  /\ UNCHANGED <<holder, info, tokenFile, relay, crashes>>
FindsPortTaken(g, d) ==
  /\ svc[g].pc = "bind" /\ port # 0 /\ Moves(g, "failed") /\ Holds(d, 0)
  /\ UNCHANGED <<info, tokenFile, port, relay, crashes>>
Crashes(g, d) ==
  /\ svc[g].pc \in Live /\ Moves(g, "crashed") /\ crashes' = crashes + 1
  /\ \A e \in RunDirs : holder'[e] = IF holder[e] = g THEN 0 ELSE holder[e]
  /\ port' = IF port = g THEN 0 ELSE port
  /\ UNCHANGED <<info, tokenFile, relay>>

ServiceMoves(g, d) ==
  \/ TakesLock(g, d) \/ LosesLock(g, d) \/ CreatesToken(g, d) \/ FindsToken(g, d)
  \/ WritesToken(g, d) \/ WritesInfo(g, d) \/ BindsPort(g, d) \/ FindsPortTaken(g, d)
  \/ Crashes(g, d)

Spawns(r, g) ==
  /\ svc[g].pc = "unborn" /\ svc'[g].pc = "start" /\ svc'[g].dir = relay[r].dir
  /\ \A h \in Services : h # g => svc'[h] = svc[h]
  /\ relay[r].pc = "spawn" /\ relay'[r] = [relay[r] EXCEPT !.pc = "waitinfo"] /\ Others(r)
  /\ UNCHANGED <<holder, info, tokenFile, port, crashes>>

LEMMA MovesEntries ==
  ASSUME StartTyped, NEW g \in Services, NEW p, Step(g, p)
  PROVE  Moves(g, p)
BY DEF StartTyped, Service, Step, Moves

LEMMA ServiceSteps ==
  ASSUME StartTyped, LockIsHeld, NEW g \in Services, ServiceStep(g) \/ Crash(g)
  PROVE  \E d \in RunDirs : svc[g].dir = d /\ ServiceMoves(g, d)
<1>1. svc[g].pc # "unborn"
  BY DEF ServiceStep, TryLock, ReadToken, WriteToken, WriteRuntimeInfo, Bind, Crash, At, Live, Past
<1>2. PICK d \in RunDirs : svc[g].dir = d
  BY <1>1 DEF LockIsHeld
<1>3. ASSUME TryLock(g) PROVE TakesLock(g, d) \/ LosesLock(g, d)
  BY <1>2, <1>3, MovesEntries DEF TryLock, At, TakesLock, LosesLock, Holds, StartTyped
<1>4. ASSUME ReadToken(g) PROVE CreatesToken(g, d) \/ FindsToken(g, d)
  BY <1>2, <1>4, MovesEntries DEF ReadToken, At, CreatesToken, FindsToken, Token, StartTyped
<1>5. ASSUME WriteToken(g) PROVE WritesToken(g, d)
  BY <1>2, <1>5, MovesEntries DEF WriteToken, At, WritesToken, Token, StartTyped
<1>6. ASSUME WriteRuntimeInfo(g) PROVE WritesInfo(g, d)
  BY <1>2, <1>6, MovesEntries DEF WriteRuntimeInfo, At, WritesInfo, StartTyped
<1>7. ASSUME Bind(g) PROVE BindsPort(g, d) \/ FindsPortTaken(g, d)
  BY <1>2, <1>7, MovesEntries DEF Bind, At, BindsPort, FindsPortTaken, Holds, StartTyped
<1>8. ASSUME Crash(g) PROVE Crashes(g, d)
  BY <1>2, <1>8, MovesEntries DEF Crash, At, Crashes, StartTyped
<1> QED
  BY <1>2, <1>3, <1>4, <1>5, <1>6, <1>7, <1>8 DEF ServiceStep, ServiceMoves

LEMMA SpawnSteps ==
  ASSUME StartTyped, NEW r \in Relays, SpawnService(r)
  PROVE  \E g \in Services : Spawns(r, g)
BY DEF StartTyped, Service, Relay, SpawnService, At, RelayAt, Spawns, Others

Leaves == UNCHANGED <<svc, holder, info, tokenFile, port, crashes>>
Goes(r, pc, pid) ==
  relay'[r].pc = pc /\ relay'[r].dir = relay[r].dir /\ relay'[r].pid = pid /\ Others(r)
Fails(r, why) ==
  /\ relay'[r].pc = "failed" /\ relay'[r].why = why /\ relay'[r].dir = relay[r].dir
  /\ Others(r)
Serves(p, d) == port # 0 /\ port = p /\ svc[p].dir = d
OtherServes(p, d) == port # 0 /\ (port = p => svc[p].dir # d)

Starts(r) ==
  /\ relay[r].pc = "new" /\ relay'[r].pc = "look" /\ relay'[r].dir \in RunDirs /\ Others(r)
FindsHealthy(r, d) ==
  /\ relay[r].pc = "look" /\ info[d] # 0 /\ Serves(info[d], d)
  /\ Goes(r, "headers", info[d])
FindsNone(r) == relay[r].pc = "look" /\ Goes(r, "spawn", relay[r].pid)
Mismatches(r, d) ==
  /\ \/ relay[r].pc = "look" /\ info[d] # 0 /\ OtherServes(info[d], d)
     \/ relay[r].pc = "waithealth" /\ OtherServes(relay[r].pid, d)
  /\ Fails(r, "mismatch")
SeesInfo(r, d) ==
  relay[r].pc = "waitinfo" /\ info[d] # 0 /\ Goes(r, "waithealth", info[d])
SeesHealth(r, d) ==
  /\ relay[r].pc = "waithealth" /\ Serves(relay[r].pid, d)
  /\ Goes(r, "headers", relay[r].pid)
TimesOut(r) == relay[r].pc \in {"waitinfo", "waithealth"} /\ Fails(r, "timeout")
Connects(r) == relay[r].pc = "headers" /\ Goes(r, "connected", relay[r].pid)
LacksToken(r, d) == relay[r].pc = "headers" /\ tokenFile[d] # "good" /\ Fails(r, "token")
LosesService(r) == relay[r].pc = "connected" /\ port # relay[r].pid /\ Fails(r, "forward")

RelayMoves(r, d) ==
  \/ Starts(r) \/ FindsHealthy(r, d) \/ FindsNone(r) \/ Mismatches(r, d) \/ SeesInfo(r, d)
  \/ SeesHealth(r, d) \/ TimesOut(r) \/ Connects(r) \/ LacksToken(r, d) \/ LosesService(r)

LEMMA ProbeSays ==
  ASSUME NEW p, NEW d
  PROVE  /\ Probe(d, p) = "ok" => Serves(p, d)
         /\ Probe(d, p) = "mismatch" => OtherServes(p, d)
BY DEF Probe, Serves, OtherServes

(* The ways a step changes the record of a relay.                          *)
LEMMA GoesEntries ==
  ASSUME StartTyped, NEW r \in Relays, NEW pc, NEW pid, NEW why
  PROVE  /\ relay' = [relay EXCEPT ![r].pc = pc] => Goes(r, pc, relay[r].pid)
         /\ relay' = [relay EXCEPT ![r].pc = pc, ![r].pid = pid] => Goes(r, pc, pid)
         /\ RelayFails(r, why) => Fails(r, why)
BY DEF StartTyped, Relay, Goes, Fails, RelayFails, Others

LEMMA StartSteps ==
  ASSUME StartTyped, NEW r \in Relays, NEW d \in RunDirs, RelayStart(r, d)
  PROVE  Leaves /\ Starts(r)
BY DEF StartTyped, Relay, RelayStart, RelayAt, Leaves, Starts, Others

LEMMA RelaySteps ==
  ASSUME StartTyped, NEW r \in Relays, RelayStep(r), ~SpawnService(r)
  PROVE  Leaves /\ RelayMoves(r, relay[r].dir)
<1> DEFINE d == relay[r].dir
<1>1. ASSUME FindHealthyRuntime(r)
      PROVE  Leaves /\ (FindsHealthy(r, d) \/ FindsNone(r) \/ Mismatches(r, d))
  <2>1. Leaves /\ relay[r].pc = "look"
    BY <1>1 DEF FindHealthyRuntime, Leaves, RelayAt
  <2>2. CASE info[d] = 0
    BY <1>1, <2>1, <2>2, GoesEntries DEF FindHealthyRuntime, FindsNone
  <2>3. CASE info[d] # 0
    <3>1. CASE Probe(d, info[d]) = "ok"
      BY <1>1, <2>1, <2>3, <3>1, GoesEntries, ProbeSays DEF FindHealthyRuntime, FindsHealthy
    <3>2. CASE Probe(d, info[d]) = "transient"
      BY <1>1, <2>1, <2>3, <3>2, GoesEntries DEF FindHealthyRuntime, FindsNone
    <3>3. CASE Probe(d, info[d]) = "mismatch"
      BY <1>1, <2>1, <2>3, <3>3, GoesEntries, ProbeSays DEF FindHealthyRuntime, Mismatches
    <3> QED
      BY <3>1, <3>2, <3>3 DEF Probe
  <2> QED
    BY <2>2, <2>3
<1>2. ASSUME WaitForRuntimeInfo(r) PROVE Leaves /\ SeesInfo(r, d)
  BY <1>2, GoesEntries DEF WaitForRuntimeInfo, RelayAt, Leaves, SeesInfo
<1>3. ASSUME WaitForHealthz(r) PROVE Leaves /\ (SeesHealth(r, d) \/ Mismatches(r, d))
  BY <1>3, GoesEntries, ProbeSays DEF WaitForHealthz, RelayAt, Leaves, SeesHealth, Mismatches
<1>4. ASSUME WaitTimesOut(r) PROVE Leaves /\ TimesOut(r)
  BY <1>4, GoesEntries DEF WaitTimesOut, Leaves, TimesOut
<1>5. ASSUME BuildHttpHeaders(r) PROVE Leaves /\ (Connects(r) \/ LacksToken(r, d))
  BY <1>5, GoesEntries DEF BuildHttpHeaders, RelayAt, Leaves, Connects, LacksToken
<1>6. ASSUME ForwardFails(r) PROVE Leaves /\ LosesService(r)
  BY <1>6, GoesEntries DEF ForwardFails, RelayAt, Leaves, LosesService
<1> QED
  BY <1>1, <1>2, <1>3, <1>4, <1>5, <1>6 DEF RelayStep, RelayMoves

(* A step is of a service, the start of one, or of a relay alone.          *)
LEMMA NextCases ==
  ASSUME StartInv, [StartNext]_startVars
  PROVE  \/ \E g \in Services, d \in RunDirs : svc[g].dir = d /\ ServiceMoves(g, d)
         \/ \E r \in Relays, g \in Services : Spawns(r, g)
         \/ \E r \in Relays : Leaves /\ RelayMoves(r, relay[r].dir)
         \/ UNCHANGED startVars
<1>1. StartTyped /\ LockIsHeld
  BY AllStartTyped DEF StartInv
<1>2. ASSUME NEW g \in Services, ServiceStep(g) \/ Crash(g)
      PROVE  \E d \in RunDirs : svc[g].dir = d /\ ServiceMoves(g, d)
  BY <1>1, <1>2, ServiceSteps
<1>3. ASSUME NEW r \in Relays, SpawnService(r) PROVE \E g \in Services : Spawns(r, g)
  BY <1>1, <1>3, SpawnSteps
<1>4. ASSUME NEW r \in Relays, RelayStep(r), ~SpawnService(r)
      PROVE  Leaves /\ RelayMoves(r, relay[r].dir)
  BY <1>1, <1>4, RelaySteps
<1>5. ASSUME NEW r \in Relays, NEW d \in RunDirs, RelayStart(r, d)
      PROVE  Leaves /\ RelayMoves(r, relay[r].dir)
  BY <1>1, <1>5, StartSteps DEF RelayMoves
<1> QED
  BY <1>2, <1>3, <1>4, <1>5 DEF StartNext

(* A service keeps its directory; a process number of one that came to     *)
(* bind the port, or to serve, is of none that did not.                    *)
PastBind == {"bind", "serving", "failed", "crashed"}
Ages(h) ==
  svc[h].pc # "unborn" =>
    /\ svc'[h].dir = svc[h].dir /\ svc'[h].pc # "unborn"
    /\ svc[h].pc \in PastBind => svc'[h].pc \in PastBind
    /\ svc[h].pc \in {"serving", "crashed"} => svc'[h].pc \in {"serving", "crashed"}
    /\ svc[h].pc = "failed" => svc'[h].pc = "failed"

LEMMA ServicesAge ==
  ASSUME StartInv, [StartNext]_startVars
  PROVE  /\ \A h \in Services : Ages(h)
         /\ crashes > 0 => crashes' > 0
<1>0. StartTyped
  BY AllStartTyped DEF StartInv
<1>1. ASSUME NEW g \in Services, NEW d \in RunDirs, ServiceMoves(g, d)
      PROVE  /\ \A h \in Services : Ages(h)
             /\ crashes > 0 => crashes' > 0
  <2>1. CASE TakesLock(g, d)
    BY <1>0, <2>1 DEF TakesLock, Moves, Holds, Ages, PastBind, StartTyped
  <2>2. CASE LosesLock(g, d)
    BY <1>0, <2>2 DEF LosesLock, Moves, Ages, PastBind, StartTyped
  <2>3. CASE CreatesToken(g, d)
    BY <1>0, <2>3 DEF CreatesToken, Moves, Token, Ages, PastBind, StartTyped
  <2>4. CASE FindsToken(g, d)
    BY <1>0, <2>4 DEF FindsToken, Moves, Ages, PastBind, StartTyped
  <2>5. CASE WritesToken(g, d)
    BY <1>0, <2>5 DEF WritesToken, Moves, Token, Ages, PastBind, StartTyped
  <2>6. CASE WritesInfo(g, d)
    BY <1>0, <2>6 DEF WritesInfo, Moves, Ages, PastBind, StartTyped
  <2>7. CASE BindsPort(g, d)
    BY <1>0, <2>7 DEF BindsPort, Moves, Ages, PastBind, StartTyped
  <2>8. CASE FindsPortTaken(g, d)
    BY <1>0, <2>8 DEF FindsPortTaken, Moves, Holds, Ages, PastBind, StartTyped
  <2>9. CASE Crashes(g, d)
    BY <1>0, <2>9 DEF Crashes, Moves, Live, Past, Ages, PastBind, StartTyped
  <2> QED
    BY <1>1, <2>1, <2>2, <2>3, <2>4, <2>5, <2>6, <2>7, <2>8, <2>9 DEF ServiceMoves
<1>2. ASSUME NEW r \in Relays, NEW g \in Services, Spawns(r, g)
      PROVE  /\ \A h \in Services : Ages(h)
             /\ crashes > 0 => crashes' > 0
  BY <1>2 DEF Spawns, Ages, PastBind
<1>3. ASSUME UNCHANGED <<svc, crashes>>
      PROVE  /\ \A h \in Services : Ages(h)
             /\ crashes > 0 => crashes' > 0
  BY <1>3 DEF Ages, PastBind
<1> QED
  BY <1>1, <1>2, <1>3, NextCases DEF Leaves, startVars

LEMMA RivalStays ==
  ASSUME StartInv, [StartNext]_startVars, NEW d
  PROVE  Rival(d) => Rival(d)'
BY ServicesAge DEF Rival, Ages

LEMMA AnnouncedStays ==
  ASSUME StartInv, [StartNext]_startVars, NEW p, NEW d, Announced(p, d)
  PROVE  /\ Announced(p, d)'
         /\ svc[p].pc \in {"serving", "crashed"} => svc'[p].pc \in {"serving", "crashed"}
BY ServicesAge DEF Announced, Ages, PastBind

-----------------------------------------------------------------------------
(* The steps, one invariant at a time                                      *)

(* The lock is taken when nobody has it and left with the process.         *)
LEMMA LockStep ==
  ASSUME StartInv, [StartNext]_startVars
  PROVE  LockIsHeld'
<1>0. StartTyped /\ LockIsHeld /\ FileNamesService
  BY AllStartTyped DEF StartInv
<1>1. ASSUME NEW g \in Services, NEW d \in RunDirs, svc[g].dir = d, ServiceMoves(g, d)
      PROVE  LockIsHeld'
  <2>1. CASE TakesLock(g, d)
    BY <1>0, <1>1, <2>1
    DEF TakesLock, Moves, Holds, LockIsHeld, Past, Services
  <2>2. CASE LosesLock(g, d)
    BY <1>0, <1>1, <2>2
    DEF LosesLock, Moves, LockIsHeld, Past, Services
  <2>3. CASE CreatesToken(g, d)
    BY <1>0, <1>1, <2>3
    DEF CreatesToken, Moves, Token, LockIsHeld, Past, Services
  <2>4. CASE FindsToken(g, d)
    BY <1>0, <1>1, <2>4
    DEF FindsToken, Moves, LockIsHeld, Past, Services
  <2>5. CASE WritesToken(g, d)
    BY <1>0, <1>1, <2>5
    DEF WritesToken, Moves, Token, LockIsHeld, Past, Services
  <2>6. CASE WritesInfo(g, d)
    BY <1>0, <1>1, <2>6
    DEF WritesInfo, Moves, LockIsHeld, Past, Services
  <2>7. CASE BindsPort(g, d)
    BY <1>0, <1>1, <2>7
    DEF BindsPort, Moves, LockIsHeld, Past, Services
  <2>8. CASE FindsPortTaken(g, d)
    BY <1>0, <1>1, <2>8
    DEF FindsPortTaken, Moves, Holds, LockIsHeld, Past, Services
  <2>9. CASE Crashes(g, d)
    BY <1>0, <1>1, <2>9
    DEF Crashes, Moves, Live, LockIsHeld, Past, Services
  <2> QED
    BY <1>1, <2>1, <2>2, <2>3, <2>4, <2>5, <2>6, <2>7, <2>8, <2>9 DEF ServiceMoves
<1>2. ASSUME NEW r \in Relays, NEW g \in Services, Spawns(r, g) PROVE LockIsHeld'
  BY <1>0, <1>2
  DEF Spawns, StartTyped, FileNamesService, RelayKnows, LockIsHeld, Past, Services
<1>3. ASSUME NEW r \in Relays, Leaves PROVE LockIsHeld'
  BY <1>0, <1>3 DEF Leaves, LockIsHeld
<1>4. CASE UNCHANGED startVars
  BY <1>0, <1>4 DEF startVars, LockIsHeld
<1> QED
  BY <1>1, <1>2, <1>3, <1>4, NextCases

(* The port is bound when it is free.                                      *)
LEMMA PortStep ==
  ASSUME StartInv, [StartNext]_startVars
  PROVE  PortIsServed'
<1>0. StartTyped /\ PortIsServed
  BY AllStartTyped DEF StartInv
<1>1. ASSUME NEW g \in Services, NEW d \in RunDirs, svc[g].dir = d, ServiceMoves(g, d)
      PROVE  PortIsServed'
  <2>1. CASE TakesLock(g, d)
    BY <1>0, <1>1, <2>1
    DEF TakesLock, Moves, Holds, StartTyped, PortIsServed, Services
  <2>2. CASE LosesLock(g, d)
    BY <1>0, <1>1, <2>2
    DEF LosesLock, Moves, StartTyped, PortIsServed, Services
  <2>3. CASE CreatesToken(g, d)
    BY <1>0, <1>1, <2>3
    DEF CreatesToken, Moves, Token, StartTyped, PortIsServed, Services
  <2>4. CASE FindsToken(g, d)
    BY <1>0, <1>1, <2>4
    DEF FindsToken, Moves, StartTyped, PortIsServed, Services
  <2>5. CASE WritesToken(g, d)
    BY <1>0, <1>1, <2>5
    DEF WritesToken, Moves, Token, StartTyped, PortIsServed, Services
  <2>6. CASE WritesInfo(g, d)
    BY <1>0, <1>1, <2>6
    DEF WritesInfo, Moves, StartTyped, PortIsServed, Services
  <2>7. CASE BindsPort(g, d)
    BY <1>0, <1>1, <2>7
    DEF BindsPort, Moves, StartTyped, PortIsServed, Services
  <2>8. CASE FindsPortTaken(g, d)
    BY <1>0, <1>1, <2>8
    DEF FindsPortTaken, Moves, Holds, StartTyped, PortIsServed, Services
  <2>9. CASE Crashes(g, d)
    BY <1>0, <1>1, <2>9
    DEF Crashes, Moves, Live, Past, StartTyped, PortIsServed, Services
  <2> QED
    BY <1>1, <2>1, <2>2, <2>3, <2>4, <2>5, <2>6, <2>7, <2>8, <2>9 DEF ServiceMoves
<1>2. ASSUME NEW r \in Relays, NEW g \in Services, Spawns(r, g) PROVE PortIsServed'
  BY <1>0, <1>2
  DEF Spawns, StartTyped, PortIsServed, Services
<1>3. ASSUME NEW r \in Relays, Leaves PROVE PortIsServed'
  BY <1>0, <1>3 DEF Leaves, PortIsServed
<1>4. CASE UNCHANGED startVars
  BY <1>0, <1>4 DEF startVars, PortIsServed
<1> QED
  BY <1>1, <1>2, <1>3, <1>4, NextCases

(* The port is taken by a serving process, past the lock of its directory: *)
(* it is another directory's, or the locks were one.                       *)
LEMMA FailedStep ==
  ASSUME StartInv, [StartNext]_startVars
  PROVE  FailedHasRival'
<1>0. StartTyped /\ FailedHasRival /\ LockIsHeld /\ PortIsServed
  BY AllStartTyped DEF StartInv
<1> SUFFICES ASSUME NEW g \in Services, svc'[g].pc = "failed", NEW e, e = svc'[g].dir
             PROVE  Rival(e)'
  BY DEF FailedHasRival
<1>1. CASE svc[g].pc = "failed"
  BY <1>0, <1>1, ServicesAge, RivalStays DEF FailedHasRival, Ages
<1>2. CASE svc[g].pc # "failed"
  <2>1. PICK d \in RunDirs : svc[g].dir = d /\ FindsPortTaken(g, d)
    <3>1. ASSUME NEW h \in Services, NEW d \in RunDirs, svc[h].dir = d, ServiceMoves(h, d)
          PROVE  h = g /\ FindsPortTaken(h, d)
      BY <1>2, <3>1 DEF ServiceMoves, TakesLock, LosesLock, CreatesToken, FindsToken, WritesToken,
         WritesInfo, BindsPort, Crashes, Moves, FindsPortTaken
    <3>2. \A r \in Relays, h \in Services : ~Spawns(r, h)
      BY <1>2 DEF Spawns
    <3> QED
      BY <1>2, <3>1, <3>2, NextCases DEF Leaves, startVars
  <2>2. svc[port].pc = "serving" /\ port \in Services /\ port # g
    BY <1>0, <2>1 DEF FindsPortTaken, PortIsServed, StartTyped, Services
  <2>3. svc[port].dir # d
    BY <1>0, <2>1, <2>2 DEF LockIsHeld, Past, FindsPortTaken
  <2>4. Rival(d)
    BY <2>2, <2>3 DEF Rival
  <2>5. svc'[g].dir = d
    BY <2>1 DEF FindsPortTaken, Moves
  <2> QED
    BY <2>4, <2>5, RivalStays
<1> QED
  BY <1>1, <1>2

(* Only the holder of the lock creates the token, and it is the one that   *)
(* writes it.                                                              *)
LEMMA MadeStep ==
  ASSUME StartInv, [StartNext]_startVars
  PROVE  TokenIsMade'
<1>0. StartTyped /\ TokenIsMade /\ LockIsHeld
  BY AllStartTyped DEF StartInv
<1>1. ASSUME NEW g \in Services, NEW d \in RunDirs, svc[g].dir = d, ServiceMoves(g, d)
      PROVE  TokenIsMade'
  <2>1. CASE TakesLock(g, d)
    BY <1>0, <1>1, <2>1
    DEF TakesLock, Moves, Holds, StartTyped, TokenIsMade, LockIsHeld, Past, Services
  <2>2. CASE LosesLock(g, d)
    BY <1>0, <1>1, <2>2
    DEF LosesLock, Moves, StartTyped, TokenIsMade, LockIsHeld, Past, Services
  <2>3. CASE CreatesToken(g, d)
    BY <1>0, <1>1, <2>3
    DEF CreatesToken, Moves, Token, StartTyped, TokenIsMade, LockIsHeld, Past, Services
  <2>4. CASE FindsToken(g, d)
    BY <1>0, <1>1, <2>4
    DEF FindsToken, Moves, StartTyped, TokenIsMade, LockIsHeld, Past, Services
  <2>5. CASE WritesToken(g, d)
    BY <1>0, <1>1, <2>5
    DEF WritesToken, Moves, Token, StartTyped, TokenIsMade, LockIsHeld, Past, Services
  <2>6. CASE WritesInfo(g, d)
    BY <1>0, <1>1, <2>6
    DEF WritesInfo, Moves, StartTyped, TokenIsMade, LockIsHeld, Past, Services
  <2>7. CASE BindsPort(g, d)
    BY <1>0, <1>1, <2>7
    DEF BindsPort, Moves, StartTyped, TokenIsMade, LockIsHeld, Past, Services
  <2>8. CASE FindsPortTaken(g, d)
    BY <1>0, <1>1, <2>8
    DEF FindsPortTaken, Moves, Holds, StartTyped, TokenIsMade, LockIsHeld, Past, Services
  <2>9. CASE Crashes(g, d)
    BY <1>0, <1>1, <2>9
    DEF Crashes, Moves, Live, StartTyped, TokenIsMade, LockIsHeld, Past, Services
  <2> QED
    BY <1>1, <2>1, <2>2, <2>3, <2>4, <2>5, <2>6, <2>7, <2>8, <2>9 DEF ServiceMoves
<1>2. ASSUME NEW r \in Relays, NEW g \in Services, Spawns(r, g) PROVE TokenIsMade'
  BY <1>0, <1>2
  DEF Spawns, StartTyped, TokenIsMade, LockIsHeld, Past, Services
<1>3. ASSUME NEW r \in Relays, Leaves PROVE TokenIsMade'
  BY <1>0, <1>3 DEF Leaves, TokenIsMade, LockIsHeld
<1>4. CASE UNCHANGED startVars
  BY <1>0, <1>4 DEF startVars, TokenIsMade, LockIsHeld
<1> QED
  BY <1>1, <1>2, <1>3, <1>4, NextCases

(* A token that is found was written, as its maker would hold the lock.    *)
LEMMA WholeStep ==
  ASSUME StartInv, [StartNext]_startVars
  PROVE  TokenIsWhole'
<1>0. StartTyped /\ TokenIsWhole /\ TokenIsMade /\ LockIsHeld
  BY AllStartTyped DEF StartInv
<1>1. ASSUME NEW g \in Services, NEW d \in RunDirs, svc[g].dir = d, ServiceMoves(g, d)
      PROVE  TokenIsWhole'
  <2>1. CASE TakesLock(g, d)
    BY <1>0, <1>1, <2>1
    DEF TakesLock, Moves, Holds, StartTyped, TokenIsWhole, TokenIsMade, LockIsHeld,
        Past, Services
  <2>2. CASE LosesLock(g, d)
    BY <1>0, <1>1, <2>2
    DEF LosesLock, Moves, StartTyped, TokenIsWhole, TokenIsMade, LockIsHeld, Past,
        Services
  <2>3. CASE CreatesToken(g, d)
    BY <1>0, <1>1, <2>3
    DEF CreatesToken, Moves, Token, StartTyped, TokenIsWhole, TokenIsMade, LockIsHeld,
        Past, Services
  <2>4. CASE FindsToken(g, d)
    BY <1>0, <1>1, <2>4
    DEF FindsToken, Moves, StartTyped, TokenIsWhole, TokenIsMade, LockIsHeld, Past,
        Services
  <2>5. CASE WritesToken(g, d)
    BY <1>0, <1>1, <2>5
    DEF WritesToken, Moves, Token, StartTyped, TokenIsWhole, TokenIsMade, LockIsHeld,
        Past, Services
  <2>6. CASE WritesInfo(g, d)
    BY <1>0, <1>1, <2>6
    DEF WritesInfo, Moves, StartTyped, TokenIsWhole, TokenIsMade, LockIsHeld, Past,
        Services
  <2>7. CASE BindsPort(g, d)
    BY <1>0, <1>1, <2>7
    DEF BindsPort, Moves, StartTyped, TokenIsWhole, TokenIsMade, LockIsHeld, Past,
        Services
  <2>8. CASE FindsPortTaken(g, d)
    BY <1>0, <1>1, <2>8
    DEF FindsPortTaken, Moves, Holds, StartTyped, TokenIsWhole, TokenIsMade, LockIsHeld,
        Past, Services
  <2>9. CASE Crashes(g, d)
    BY <1>0, <1>1, <2>9
    DEF Crashes, Moves, Live, StartTyped, TokenIsWhole, TokenIsMade, LockIsHeld, Past,
        Services
  <2> QED
    BY <1>1, <2>1, <2>2, <2>3, <2>4, <2>5, <2>6, <2>7, <2>8, <2>9 DEF ServiceMoves
<1>2. ASSUME NEW r \in Relays, NEW g \in Services, Spawns(r, g) PROVE TokenIsWhole'
  BY <1>0, <1>2
  DEF Spawns, StartTyped, TokenIsWhole, TokenIsMade, LockIsHeld, Past, Services
<1>3. ASSUME NEW r \in Relays, Leaves PROVE TokenIsWhole'
  BY <1>0, <1>3 DEF Leaves, TokenIsWhole, TokenIsMade, LockIsHeld
<1>4. CASE UNCHANGED startVars
  BY <1>0, <1>4 DEF startVars, TokenIsWhole, TokenIsMade, LockIsHeld
<1> QED
  BY <1>1, <1>2, <1>3, <1>4, NextCases

(* The runtime file is written by a service about to bind the port, and a  *)
(* relay goes on with the number it read there.                            *)
LEMMA FileStep ==
  ASSUME StartInv, [StartNext]_startVars
  PROVE  FileNamesService'
<1>0. StartTyped /\ FileNamesService /\ PortIsServed
  BY AllStartTyped DEF StartInv
<1>1. ASSUME NEW e \in RunDirs, NEW p, p # 0, p = info'[e] PROVE Announced(p, e)'
  <2>1. ASSUME info'[e] = info[e]
        PROVE  Announced(p, e)'
    BY <1>0, <1>1, <2>1, AnnouncedStays DEF FileNamesService
  <2>2. ASSUME NEW g \in Services, NEW d \in RunDirs, svc[g].dir = d, WritesInfo(g, d)
        PROVE  Announced(p, e)'
    BY <1>1, <2>1, <2>2 DEF WritesInfo, Moves, Announced
  <2>3. CASE UNCHANGED info
    BY <1>1, <2>1, <2>3
  <2> QED
    BY <2>2, <2>3, NextCases DEF ServiceMoves, TakesLock, LosesLock, CreatesToken, FindsToken,
       WritesToken, BindsPort, FindsPortTaken, Crashes, Spawns, Leaves, startVars
<1>2. ASSUME NEW q \in Relays, relay'[q] = relay[q]
      PROVE  RelayKnows(q)'
  BY <1>0, <1>2, AnnouncedStays DEF FileNamesService, RelayKnows
<1>3. ASSUME NEW r \in Relays, Leaves, RelayMoves(r, relay[r].dir)
      PROVE  \A q \in Relays : RelayKnows(q)'
  <2> DEFINE d == relay[r].dir
  <2> SUFFICES RelayKnows(r)'
    BY <1>2, <1>3 DEF RelayMoves, Starts, FindsHealthy, FindsNone, Mismatches, SeesInfo,
       SeesHealth, TimesOut, Connects, LacksToken, LosesService, Goes, Fails, Others
  <2>1. CASE Starts(r)
    BY <1>0, <1>3, <2>1
    DEF Starts, Leaves, RelayKnows, FileNamesService
  <2>2. CASE FindsHealthy(r, d)
    BY <1>0, <1>3, <2>2
    DEF FindsHealthy, Leaves, RelayKnows, Goes, Serves, PortIsServed, Announced,
        FileNamesService, Services, StartTyped
  <2>3. CASE FindsNone(r)
    BY <1>0, <1>3, <2>3
    DEF FindsNone, Leaves, RelayKnows, Goes, FileNamesService
  <2>4. CASE Mismatches(r, d)
    BY <1>0, <1>3, <2>4
    DEF Mismatches, Leaves, RelayKnows, Fails, FileNamesService
  <2>5. CASE SeesInfo(r, d)
    BY <1>0, <1>3, <2>5
    DEF SeesInfo, Leaves, RelayKnows, Goes, FileNamesService, Announced
  <2>6. CASE SeesHealth(r, d)
    BY <1>0, <1>3, <2>6
    DEF SeesHealth, Leaves, RelayKnows, Goes, Serves, PortIsServed, Announced,
        Services, StartTyped, FileNamesService
  <2>7. CASE TimesOut(r)
    BY <1>0, <1>3, <2>7
    DEF TimesOut, Leaves, RelayKnows, Fails, FileNamesService
  <2>8. CASE Connects(r)
    BY <1>0, <1>3, <2>8
    DEF Connects, Leaves, RelayKnows, Goes, Announced, FileNamesService
  <2>9. CASE LacksToken(r, d)
    BY <1>0, <1>3, <2>9
    DEF LacksToken, Leaves, RelayKnows, Fails, FileNamesService
  <2>10. CASE LosesService(r)
    BY <1>0, <1>3, <2>10
    DEF LosesService, Leaves, RelayKnows, Fails, FileNamesService
  <2> QED
    BY <1>3, <2>1, <2>2, <2>3, <2>4, <2>5, <2>6, <2>7, <2>8, <2>9, <2>10 DEF RelayMoves
<1>4. ASSUME NEW r \in Relays, NEW g \in Services, Spawns(r, g)
      PROVE  \A q \in Relays : RelayKnows(q)'
  <2>1. RelayKnows(r)'
    BY <1>0, <1>4 DEF Spawns, RelayKnows, FileNamesService, StartTyped, Relay
  <2> QED
    BY <1>2, <1>4, <2>1 DEF Spawns, Others
<1>5. ASSUME UNCHANGED relay PROVE \A q \in Relays : RelayKnows(q)'
  BY <1>2, <1>5
<1>6. \A q \in Relays : RelayKnows(q)'
  BY <1>3, <1>4, <1>5, NextCases DEF ServiceMoves, TakesLock, LosesLock, CreatesToken,
     FindsToken, WritesToken, WritesInfo, BindsPort, FindsPortTaken, Crashes, startVars
<1> QED
  BY <1>1, <1>6 DEF FileNamesService

(* A probe that answers for another process, without a crash: the service  *)
(* the relay looks for never came to serve, or the one that answers is of  *)
(* another directory; a token is missing only after a crash.               *)
LEMMA MismatchHasRival ==
  ASSUME StartInv, NEW p, NEW d \in RunDirs, Announced(p, d), OtherServes(p, d)
  PROVE  crashes > 0 \/ Rival(d)
<1>0. StartTyped /\ LockIsHeld /\ PortIsServed /\ FailedHasRival
  BY AllStartTyped DEF StartInv
<1>1. port \in Services /\ svc[port].pc = "serving"
  BY <1>0 DEF OtherServes, PortIsServed, StartTyped, Services
<1>2. CASE svc[port].dir # d
  BY <1>1, <1>2 DEF Rival
<1>3. CASE svc[port].dir = d
  <2>1. p \in Services /\ p # port /\ svc[p].dir = d /\ holder[d] = port
    BY <1>0, <1>1, <1>3 DEF OtherServes, Announced, LockIsHeld, Past
  <2>2. svc[p].pc \notin Past
    BY <1>0, <2>1 DEF LockIsHeld
  <2>3. svc[p].pc \in {"failed", "crashed"}
    BY <2>1, <2>2 DEF Announced, Past
  <2> QED
    BY <1>0, <2>1, <2>3 DEF FailedHasRival, PortIsServed
<1> QED
  BY <1>2, <1>3

LEMMA CauseStep ==
  ASSUME StartInv, [StartNext]_startVars
  PROVE  FailuresAreCaused'
<1>0. StartTyped /\ FailuresAreCaused /\ FileNamesService /\ PortIsServed /\ TokenIsWhole
  BY AllStartTyped DEF StartInv
<1>1. ASSUME NEW q \in Relays, relay'[q] = relay[q] PROVE HasCause(q)'
  BY <1>0, <1>1, ServicesAge, RivalStays DEF FailuresAreCaused, HasCause
<1>2. ASSUME NEW r \in Relays, Leaves, RelayMoves(r, relay[r].dir)
      PROVE  \A q \in Relays : HasCause(q)'
  <2> DEFINE d == relay[r].dir
  <2> SUFFICES HasCause(r)'
    BY <1>1, <1>2 DEF RelayMoves, Starts, FindsHealthy, FindsNone, Mismatches, SeesInfo,
       SeesHealth, TimesOut, Connects, LacksToken, LosesService, Goes, Fails, Others
  <2>1. CASE Mismatches(r, d)
    <3>1. crashes > 0 \/ Rival(d)
      BY <1>0, <2>1, MismatchHasRival DEF Mismatches, FileNamesService, RelayKnows
    <3> QED
      BY <1>2, <2>1, <3>1, RivalStays DEF Mismatches, Fails, HasCause, Leaves
  <2>2. CASE LacksToken(r, d)
    BY <1>0, <1>2, <2>2
    DEF LacksToken, Fails, HasCause, Leaves, FileNamesService, RelayKnows, Announced,
        TokenIsWhole, PortIsServed, StartTyped
  <2>3. CASE LosesService(r)
    BY <1>0, <1>2, <2>3
    DEF LosesService, Fails, HasCause, Leaves, FileNamesService, RelayKnows, Announced,
        PortIsServed
  <2>4. CASE TimesOut(r)
    BY <2>4 DEF TimesOut, Fails, HasCause
  <2> QED
    BY <1>2, <2>1, <2>2, <2>3, <2>4 DEF RelayMoves, Starts, FindsHealthy, FindsNone, SeesInfo,
       SeesHealth, Connects, Goes, HasCause
<1>3. ASSUME NEW r \in Relays, NEW g \in Services, Spawns(r, g)
      PROVE  \A q \in Relays : HasCause(q)'
  <2>1. HasCause(r)'
    BY <1>3 DEF Spawns, HasCause, Relay, StartTyped
  <2> QED
    BY <1>1, <1>3, <2>1 DEF Spawns, Others
<1>4. CASE UNCHANGED relay
  BY <1>1, <1>4 DEF FailuresAreCaused
<1> QED
  BY <1>2, <1>3, <1>4, NextCases
  DEF FailuresAreCaused, ServiceMoves, TakesLock, LosesLock, CreatesToken, FindsToken,
      WritesToken, WritesInfo, BindsPort, FindsPortTaken, Crashes, startVars

LEMMA StartStepTyped ==
  ASSUME StartTyped, NEW g \in Services, NEW p \in Pcs, Step(g, p)
  PROVE  svc' \in [Services -> Service]
BY DEF StartTyped, Service, Step

LEMMA FilesAreTyped ==
  ASSUME StartTyped, NEW d \in RunDirs, NEW g \in 0..MaxServices, NEW t \in {"none", "empty", "good"}
  PROVE  /\ [holder EXCEPT ![d] = g] \in [RunDirs -> 0..MaxServices]
         /\ [info EXCEPT ![d] = g] \in [RunDirs -> 0..MaxServices]
         /\ [tokenFile EXCEPT ![d] = t] \in [RunDirs -> {"none", "empty", "good"}]
BY DEF StartTyped

LEMMA RelayTyped ==
  ASSUME NEW f \in [Relays -> Relay], NEW r \in Relays, NEW pc \in RelayPcs
  PROVE  [f EXCEPT ![r].pc = pc] \in [Relays -> Relay]
BY DEF Relay

LEMMA RelayPidTyped ==
  ASSUME NEW f \in [Relays -> Relay], NEW r \in Relays, NEW pc \in RelayPcs,
         NEW pid \in 0..MaxServices
  PROVE  [f EXCEPT ![r].pc = pc, ![r].pid = pid] \in [Relays -> Relay]
BY DEF Relay

LEMMA RelayWhyTyped ==
  ASSUME NEW f \in [Relays -> Relay], NEW r \in Relays, NEW why \in Reasons
  PROVE  [f EXCEPT ![r].pc = "failed", ![r].why = why] \in [Relays -> Relay]
BY DEF Relay, RelayPcs

LEMMA RelayDirTyped ==
  ASSUME NEW f \in [Relays -> Relay], NEW r \in Relays, NEW d \in RunDirs
  PROVE  [f EXCEPT ![r].pc = "look", ![r].dir = d] \in [Relays -> Relay]
BY DEF Relay, RelayPcs

LEMMA FailTyped ==
  ASSUME StartTyped, NEW r \in Relays, NEW why \in Reasons, RelayFails(r, why)
  PROVE  relay' \in [Relays -> Relay]
BY RelayWhyTyped DEF StartTyped, RelayFails

LEMMA StartTypeStep ==
  ASSUME StartInv, [StartNext]_startVars
  PROVE  StartTyped'
<1>0. StartTyped /\ LockIsHeld /\ FileNamesService
  BY AllStartTyped DEF StartInv
<1>1. ASSUME NEW g \in Services, ServiceStep(g) \/ Crash(g) PROVE StartTyped'
  <2>1. PICK d \in RunDirs : svc[g].dir = d
    BY <1>0, <1>1, ServiceSteps
  <2>2. g \in 0..MaxServices /\ 0 \in 0..MaxServices
    BY StartConstants DEF Services
  <2>3. CASE TryLock(g)
    <3>1. svc' \in [Services -> Service]
      BY <1>0, <2>3, StartStepTyped DEF TryLock, Pcs, Live, Past
    <3> QED
      BY <1>0, <2>1, <2>2, <2>3, <3>1, FilesAreTyped DEF TryLock, StartTyped
  <2>4. CASE ReadToken(g)
    <3>1. svc' \in [Services -> Service]
      BY <1>0, <2>4, StartStepTyped DEF ReadToken, Pcs, Live, Past
    <3> QED
      BY <1>0, <2>1, <2>4, <3>1, FilesAreTyped DEF ReadToken, StartTyped
  <2>5. CASE WriteToken(g)
    <3>1. svc' \in [Services -> Service]
      BY <1>0, <2>5, StartStepTyped DEF WriteToken, Pcs, Live, Past
    <3> QED
      BY <1>0, <2>1, <2>5, <3>1, FilesAreTyped DEF WriteToken, StartTyped
  <2>6. CASE WriteRuntimeInfo(g)
    <3>1. svc' \in [Services -> Service]
      BY <1>0, <2>6, StartStepTyped DEF WriteRuntimeInfo, Pcs, Live, Past
    <3> QED
      BY <1>0, <2>1, <2>2, <2>6, <3>1, FilesAreTyped DEF WriteRuntimeInfo, StartTyped
  <2>7. CASE Bind(g)
    <3>1. svc' \in [Services -> Service]
      BY <1>0, <2>7, StartStepTyped DEF Bind, Pcs, Live, Past
    <3> QED
      BY <1>0, <2>1, <2>2, <2>7, <3>1, FilesAreTyped DEF Bind, StartTyped
  <2>8. CASE Crash(g)
    <3>1. svc' \in [Services -> Service]
      BY <1>0, <2>8, StartStepTyped DEF Crash, Pcs
    <3>2. holder' \in [RunDirs -> 0..MaxServices] /\ port' \in 0..MaxServices
      BY <1>0, <2>2, <2>8 DEF Crash, StartTyped
    <3> QED
      BY <1>0, <2>8, <3>1, <3>2, StartConstants DEF Crash, StartTyped
  <2> QED
    BY <1>1, <2>3, <2>4, <2>5, <2>6, <2>7, <2>8 DEF ServiceStep
<1>2. ASSUME NEW r \in Relays, RelayStep(r), ~SpawnService(r) PROVE StartTyped'
  <2>1. Leaves
    BY <1>0, <1>2, RelaySteps
  <2> SUFFICES relay' \in [Relays -> Relay]
    BY <1>0, <2>1 DEF Leaves, StartTyped
  <2>2. relay \in [Relays -> Relay]
    BY <1>0 DEF StartTyped
  <2>3. relay[r].pc # "new" => info[relay[r].dir] \in 0..MaxServices
    BY <1>0 DEF FileNamesService, RelayKnows, StartTyped
  <2>4. CASE FindHealthyRuntime(r)
    <3>1. CASE relay' = [relay EXCEPT ![r].pc = "headers", ![r].pid = info[relay[r].dir]]
      <4>1. info[relay[r].dir] \in 0..MaxServices
        BY <2>3, <2>4 DEF FindHealthyRuntime, RelayAt
      <4> QED
        BY <2>2, <3>1, <4>1, RelayPidTyped DEF RelayPcs
    <3>2. CASE relay' = [relay EXCEPT ![r].pc = "spawn"]
      BY <1>0, <3>2, RelayTyped DEF RelayPcs, StartTyped
    <3>3. CASE RelayFails(r, "mismatch")
      BY <1>0, <3>3, FailTyped DEF Reasons
    <3> QED
      BY <2>4, <3>1, <3>2, <3>3 DEF FindHealthyRuntime
  <2>5. CASE WaitForRuntimeInfo(r)
    <3>1. info[relay[r].dir] \in 0..MaxServices
      BY <2>3, <2>5 DEF WaitForRuntimeInfo, RelayAt
    <3> QED
      BY <2>2, <2>5, <3>1, RelayPidTyped DEF WaitForRuntimeInfo, RelayPcs
  <2>6. CASE WaitForHealthz(r)
    <3>1. CASE relay' = [relay EXCEPT ![r].pc = "headers"]
      BY <1>0, <3>1, RelayTyped DEF RelayPcs, StartTyped
    <3>2. CASE RelayFails(r, "mismatch")
      BY <1>0, <3>2, FailTyped DEF Reasons
    <3> QED
      BY <2>6, <3>1, <3>2 DEF WaitForHealthz
  <2>7. CASE WaitTimesOut(r)
    BY <1>0, <2>7, FailTyped DEF WaitTimesOut, Reasons
  <2>8. CASE BuildHttpHeaders(r)
    <3>1. CASE relay' = [relay EXCEPT ![r].pc = "connected"]
      BY <1>0, <3>1, RelayTyped DEF RelayPcs, StartTyped
    <3>2. CASE RelayFails(r, "token")
      BY <1>0, <3>2, FailTyped DEF Reasons
    <3> QED
      BY <2>8, <3>1, <3>2 DEF BuildHttpHeaders
  <2>9. CASE ForwardFails(r)
    BY <1>0, <2>9, FailTyped DEF ForwardFails, Reasons
  <2> QED
    BY <1>2, <2>4, <2>5, <2>6, <2>7, <2>8, <2>9 DEF RelayStep
<1>3. ASSUME NEW r \in Relays, SpawnService(r) PROVE StartTyped'
  <2>1. PICK g \in Services : /\ svc' = [svc EXCEPT ![g] = [pc |-> "start", dir |-> relay[r].dir]]
                              /\ relay' = [relay EXCEPT ![r].pc = "waitinfo"]
    BY <1>3 DEF SpawnService
  <2>2. [pc |-> "start", dir |-> relay[r].dir] \in Service
    BY <1>0 DEF StartTyped, Relay, Service, Pcs, Live
  <2>3. svc' \in [Services -> Service]
    BY <1>0, <2>1, <2>2 DEF StartTyped
  <2>4. relay' \in [Relays -> Relay]
    BY <1>0, <2>1, RelayTyped DEF StartTyped, RelayPcs
  <2> QED
    BY <1>0, <1>3, <2>3, <2>4 DEF SpawnService, StartTyped
<1>4. ASSUME NEW r \in Relays, NEW d \in RunDirs, RelayStart(r, d) PROVE StartTyped'
  BY <1>0, <1>4, RelayDirTyped DEF RelayStart, StartTyped
<1>5. CASE UNCHANGED startVars
  BY <1>0, <1>5 DEF startVars, StartTyped
<1> QED
  BY <1>1, <1>2, <1>3, <1>4, <1>5 DEF StartNext

LEMMA StartInvStep == StartInv /\ [StartNext]_startVars => StartInv'
<1> SUFFICES ASSUME StartInv, [StartNext]_startVars PROVE StartInv'
  OBVIOUS
<1>1. AllStartTyped'
  BY AllStartTyped, PTL
<1> QED
  BY <1>1, LockStep, PortStep, FailedStep, MadeStep, WholeStep, FileStep, CauseStep, StartTypeStep
  DEF StartInv

-----------------------------------------------------------------------------
(* The theorem                                                             *)

LEMMA AtMostOne ==
  ASSUME NEW S, \A x, y \in S : x = y
  PROVE  Cardinality(S) <= 1
<1>1. CASE S = {}
  BY <1>1, FS_EmptySet
<1>2. ASSUME NEW x \in S PROVE Cardinality(S) <= 1
  <2>1. S = {x}
    BY <1>2
  <2> QED
    BY <2>1, FS_Singleton
<1> QED
  BY <1>1, <1>2

LEMMA StartInvMeets == StartInv => RelaysFindTheirs
<1> SUFFICES ASSUME StartInv PROVE RelaysFindTheirs
  OBVIOUS
<1>1. ASSUME NEW d \in RunDirs
      PROVE  Cardinality({g \in Services : svc[g].dir = d /\ svc[g].pc \in Past}) <= 1
  BY AtMostOne DEF StartInv, LockIsHeld
<1>2. ASSUME NEW r \in Relays, relay[r].pc = "headers"
      PROVE  svc[relay[r].pid].dir = relay[r].dir /\ svc[relay[r].pid].pc \in {"serving", "crashed"}
  BY <1>2 DEF StartInv, FileNamesService, RelayKnows, Announced
<1> QED
  BY <1>1, <1>2 DEF RelaysFindTheirs

(* However many relays and services start at once, and whichever of them   *)
(* crash, a runtime directory has one service past its lock, a relay that  *)
(* was let through talks to a service of its directory, and one fails only *)
(* for a timeout, a crash or a service of another directory.               *)
THEOREM RelaysAreServed == StartSpec => []RelaysMeetTheirService
<1>1. StartInv => RelaysMeetTheirService
  BY StartInvMeets
  DEF StartInv, FailuresAreCaused, HasCause, FailuresHaveACause, Rival, RelaysMeetTheirService
<1>2. StartInit => StartInv
  BY StartInvInit
<1>3. StartInv /\ [StartNext]_startVars => StartInv'
  BY StartInvStep
<1> QED
  BY <1>1, <1>2, <1>3, PTL DEF StartSpec

-----------------------------------------------------------------------------
(* Sessions. The gate, the notification, the flag and the channel are      *)
(* separate pieces of state that the sender, the child and the reader      *)
(* change one at a time; the invariants say how far each may be behind the *)
(* others.                                                                 *)

FlagsTyped ==
    /\ alive \in BOOLEAN /\ receiver \in BOOLEAN /\ idle \in BOOLEAN /\ woken \in BOOLEAN
StatesTyped ==
    /\ backend \in {"claude", "codex", "gemini"}
    /\ stage \in {"initialize", "thread", "ready", "failed", "shut"}
    /\ reader \in {"on", "off", "held"} /\ sender \in {"none", "armed", "looked", "asleep"}
CountsTyped ==
    /\ procs \in Nat /\ turns \in Nat
    /\ ends \in Nat /\ told \in Nat /\ dropped \in Nat /\ inputs \in Nat /\ texts \in Nat
QueuesTyped ==
    /\ stdout \in Seq({"text", "end"})
    /\ channel \in Seq({"data", "control"}) /\ Len(channel) <= Capacity
SessionTyped == FlagsTyped /\ StatesTyped /\ CountsTyped /\ QueuesTyped

(* Only codex has a handshake, and nothing is read before it is over.      *)
NothingReadBefore ==
    stage \in {"initialize", "thread"} => backend = "codex" /\ reader = "off"

(* Claude has one turn on its way at most, begun or with its result still  *)
(* to be read, and none while the gate is open or the process is gone.     *)
IsEnd(i) == i \in 1..Len(stdout) /\ stdout[i] = "end"
OneTurn ==
    backend = "claude" =>
      /\ turns <= 1 /\ (procs = 0 => turns = 0)
      /\ \A i \in Nat : IsEnd(i) => turns = 0 /\ ~idle
      /\ \A i, j \in Nat : IsEnd(i) /\ IsEnd(j) => i = j
      /\ idle => turns = 0

(* A sender that has found the gate closed has been notified since, or the *)
(* gate is closed still.                                                   *)
WaitIsSound == sender \in {"looked", "asleep"} /\ ~woken => ~idle

SessionInv == SessionTyped /\ NothingReadBefore /\ OneTurn /\ WaitIsSound /\ EndsDelivered /\ ProcessesEnd

-----------------------------------------------------------------------------
(* The invariant                                                           *)

(* What can happen to the child's output and to the channel.               *)
LEMMA StdoutMoves ==
  ASSUME QueuesTyped,
         \/ UNCHANGED stdout \/ stdout' = <<>>
         \/ stdout # <<>> /\ stdout' = Tail(stdout)
         \/ stdout' = Append(stdout, "text") \/ stdout' = Append(stdout, "end")
  PROVE  stdout' \in Seq({"text", "end"})
<1>1. CASE UNCHANGED stdout
  BY <1>1 DEF QueuesTyped
<1>2. CASE stdout' = <<>>
  BY <1>2, EmptySeq
<1>3. CASE stdout # <<>> /\ stdout' = Tail(stdout)
  BY <1>3 DEF QueuesTyped
<1>4. CASE stdout' = Append(stdout, "text") \/ stdout' = Append(stdout, "end")
  BY <1>4 DEF QueuesTyped
<1> QED
  BY <1>1, <1>2, <1>3, <1>4

LEMMA ChannelMoves ==
  ASSUME QueuesTyped,
         \/ UNCHANGED channel \/ channel' = <<>> \/ channel' = <<"control">>
         \/ channel # <<>> /\ channel' = Tail(channel)
         \/ Room /\ (channel' = Append(channel, "data") \/ channel' = Append(channel, "control"))
  PROVE  channel' \in Seq({"data", "control"}) /\ Len(channel') <= Capacity
<1>1. CASE channel' = <<"control">>
  <2>1. channel' \in Seq({"data", "control"}) /\ Len(channel') = 1
    BY <1>1
  <2> QED
    BY <2>1, SessionConstants
<1>2. CASE UNCHANGED channel
  BY <1>2 DEF QueuesTyped
<1>3. CASE channel' = <<>>
  BY <1>3, EmptySeq, SessionConstants
<1>4. CASE channel # <<>> /\ channel' = Tail(channel)
  BY <1>4, SessionConstants DEF QueuesTyped
<1>5. CASE Room /\ channel' = Append(channel, "data")
  BY <1>5, SessionConstants DEF QueuesTyped, Room
<1>6. CASE Room /\ channel' = Append(channel, "control")
  BY <1>6, SessionConstants DEF QueuesTyped, Room
<1> QED
  BY <1>1, <1>2, <1>3, <1>4, <1>5, <1>6

LEMMA SessionInvInit == SessionInit => SessionInv
<1> SUFFICES ASSUME SessionInit PROVE SessionInv
  OBVIOUS
<1>1. QueuesTyped
  <2>1. stdout = <<>>
    BY DEF SessionInit
  <2>2. CASE channel = <<>>
    BY <2>1, <2>2, EmptySeq, SessionConstants DEF QueuesTyped
  <2>3. CASE channel = <<"control">>
    <3>1. channel \in Seq({"data", "control"}) /\ Len(channel) = 1
      BY <2>3
    <3> QED
      BY <2>1, <3>1, EmptySeq, SessionConstants DEF QueuesTyped
  <2> QED
    BY <2>2, <2>3 DEF SessionInit, FirstEvents
<1>2. SessionTyped
  BY <1>1, SessionConstants DEF SessionInit, SessionTyped, FlagsTyped, StatesTyped, CountsTyped, SpawnChild,
     FirstTurns
<1>3. NothingReadBefore /\ OneTurn /\ WaitIsSound /\ EndsDelivered /\ ProcessesEnd
  BY SessionConstants DEF SessionInit, NothingReadBefore, OneTurn, WaitIsSound, EndsDelivered,
     ProcessesEnd, IsEnd, SpawnChild, FirstTurns, Unsent
<1> QED
  BY <1>2, <1>3 DEF SessionInv

-----------------------------------------------------------------------------
(* The steps, one invariant at a time                                      *)

(* The reader starts with the thread.                                      *)
LEMMA BeforeStep ==
  ASSUME SessionInv, [SessionNext]_sessionVars
  PROVE  NothingReadBefore'
<1>0. SessionTyped /\ NothingReadBefore
  BY DEF SessionInv
<1>1. CASE UNCHANGED <<backend, stage, reader>>
  BY <1>0, <1>1 DEF NothingReadBefore
<1>2. CASE Initialized
  BY <1>0, <1>2
  DEF Initialized, gateVars, countVars, SessionTyped, StatesTyped, NothingReadBefore
<1>3. CASE ThreadStarted
  BY <1>0, <1>3
  DEF ThreadStarted, gateVars, countVars, SessionTyped, StatesTyped, NothingReadBefore
<1>4. CASE HandshakeFails
  BY <1>0, <1>4
  DEF HandshakeFails, gateVars, countVars, SessionTyped, StatesTyped, NothingReadBefore
<1>5. CASE GeminiSend
  BY <1>0, <1>5
  DEF GeminiSend, gateVars, Calls, KillCurrent, SpawnChild, Unsent, SessionTyped,
      StatesTyped, NothingReadBefore
<1>6. CASE ReadText
  BY <1>0, <1>6
  DEF ReadText, gateVars, countVars, Room, SessionTyped, StatesTyped, NothingReadBefore
<1>7. CASE ReadEnd
  BY <1>0, <1>7
  DEF ReadEnd, NotifyWaiters, SendControl, Room, SessionTyped, StatesTyped,
      NothingReadBefore
<1>8. CASE ReadEof
  BY <1>0, <1>8
  DEF ReadEof, Room, NotifyWaiters, SessionTyped, StatesTyped, NothingReadBefore
<1>9. CASE SendHeld
  BY <1>0, <1>9
  DEF SendHeld, gateVars, Room, SessionTyped, StatesTyped, NothingReadBefore
<1>10. CASE HeldFails
  BY <1>0, <1>10
  DEF HeldFails, gateVars, countVars, SessionTyped, StatesTyped, NothingReadBefore
<1>11. CASE Shutdown
  BY <1>0, <1>11
  DEF Shutdown, gateVars, countVars, KillCurrent, SessionTyped, StatesTyped,
      NothingReadBefore
<1> QED
  BY <1>1, <1>2, <1>3, <1>4, <1>5, <1>6, <1>7, <1>8, <1>9, <1>10, <1>11
  DEF SessionNext, sessionVars, gateVars, countVars, CodexSend, Arm, Look, Sleep,
      GiveUpWaiting, Text, EndTurn, Die, Recv, CloseReceiver

(* An input is written at an open gate only, and the gate opens when the   *)
(* one result there can be is read.                                        *)
LEMMA TurnStep ==
  ASSUME SessionInv, [SessionNext]_sessionVars
  PROVE  OneTurn'
<1>0. SessionTyped /\ OneTurn /\ NothingReadBefore
  BY DEF SessionInv
<1>1. CASE UNCHANGED <<backend, turns, procs, stdout, idle>>
  BY <1>0, <1>1 DEF OneTurn, IsEnd, NothingReadBefore
<1>2. CASE HandshakeFails
  BY <1>0, <1>2
  DEF HandshakeFails, gateVars, countVars, SessionTyped, FlagsTyped, StatesTyped,
      CountsTyped, QueuesTyped, OneTurn, IsEnd, NothingReadBefore
<1>3. CASE CodexSend
  BY <1>0, <1>3
  DEF CodexSend, gateVars, countVars, Delivered, Calls, SessionTyped, FlagsTyped,
      StatesTyped, CountsTyped, QueuesTyped, OneTurn, IsEnd, NothingReadBefore
<1>4. CASE Look
  BY <1>0, <1>4
  DEF Look, countVars, Delivered, Gate, SessionTyped, FlagsTyped, StatesTyped,
      CountsTyped, QueuesTyped, OneTurn, IsEnd, NothingReadBefore
<1>5. CASE GeminiSend
  BY <1>0, <1>5
  DEF GeminiSend, gateVars, Calls, KillCurrent, SpawnChild, Unsent, SessionTyped,
      FlagsTyped, StatesTyped, CountsTyped, QueuesTyped, OneTurn, IsEnd,
      NothingReadBefore
<1>6. CASE Text
  BY <1>0, <1>6
  DEF Text, gateVars, countVars, SessionTyped, FlagsTyped, StatesTyped, CountsTyped,
      QueuesTyped, OneTurn, IsEnd, NothingReadBefore
<1>7. CASE EndTurn
  BY <1>0, <1>7
  DEF EndTurn, gateVars, countVars, SessionTyped, FlagsTyped, StatesTyped, CountsTyped,
      QueuesTyped, OneTurn, IsEnd, NothingReadBefore
<1>8. CASE Die
  BY <1>0, <1>8
  DEF Die, gateVars, countVars, SessionTyped, FlagsTyped, StatesTyped, CountsTyped,
      QueuesTyped, OneTurn, IsEnd, NothingReadBefore
<1>9. CASE ReadText
  BY <1>0, <1>9
  DEF ReadText, gateVars, countVars, Room, SessionTyped, FlagsTyped, StatesTyped,
      CountsTyped, QueuesTyped, OneTurn, IsEnd, NothingReadBefore
<1>10. CASE ReadEnd
  BY <1>0, <1>10
  DEF ReadEnd, NotifyWaiters, SendControl, Room, SessionTyped, FlagsTyped, StatesTyped,
      CountsTyped, QueuesTyped, OneTurn, IsEnd, NothingReadBefore
<1>11. CASE ReadEof
  BY <1>0, <1>11
  DEF ReadEof, Room, NotifyWaiters, SessionTyped, FlagsTyped, StatesTyped, CountsTyped,
      QueuesTyped, OneTurn, IsEnd, NothingReadBefore
<1>12. CASE Shutdown
  BY <1>0, <1>12
  DEF Shutdown, gateVars, countVars, KillCurrent, SessionTyped, FlagsTyped, StatesTyped,
      CountsTyped, QueuesTyped, OneTurn, IsEnd, NothingReadBefore
<1> QED
  BY <1>1, <1>2, <1>3, <1>4, <1>5, <1>6, <1>7, <1>8, <1>9, <1>10, <1>11, <1>12
  DEF SessionNext, sessionVars, gateVars, countVars, Initialized, ThreadStarted, Arm,
      Sleep, GiveUpWaiting, SendHeld, HeldFails, Recv, CloseReceiver

(* The sender is armed before it looks, and whoever opens the gate         *)
(* notifies all that are armed.                                            *)
LEMMA WaitStep ==
  ASSUME SessionInv, [SessionNext]_sessionVars
  PROVE  WaitIsSound'
<1>0. SessionTyped /\ WaitIsSound
  BY DEF SessionInv
<1>1. CASE UNCHANGED <<sender, woken, idle>>
  BY <1>0, <1>1 DEF WaitIsSound
<1>2. CASE Arm
  BY <1>0, <1>2
  DEF Arm, countVars, Calls, SessionTyped, FlagsTyped, StatesTyped, WaitIsSound
<1>3. CASE Look
  BY <1>0, <1>3
  DEF Look, countVars, Delivered, Gate, SessionTyped, FlagsTyped, StatesTyped, WaitIsSound
<1>4. CASE Sleep
  BY <1>0, <1>4
  DEF Sleep, countVars, SessionTyped, FlagsTyped, StatesTyped, WaitIsSound
<1>5. CASE GiveUpWaiting
  BY <1>0, <1>5
  DEF GiveUpWaiting, countVars, SessionTyped, FlagsTyped, StatesTyped, WaitIsSound
<1>6. CASE ReadEnd
  BY <1>0, <1>6
  DEF ReadEnd, NotifyWaiters, SendControl, Room, SessionTyped, FlagsTyped, StatesTyped,
      WaitIsSound
<1>7. CASE ReadEof
  BY <1>0, <1>7
  DEF ReadEof, Room, NotifyWaiters, SessionTyped, FlagsTyped, StatesTyped, WaitIsSound
<1> QED
  BY <1>1, <1>2, <1>3, <1>4, <1>5, <1>6, <1>7
  DEF SessionNext, sessionVars, gateVars, countVars, Initialized, ThreadStarted,
      HandshakeFails, CodexSend, GeminiSend, Text, EndTurn, Die, ReadText,
      SendHeld, HeldFails, Recv, CloseReceiver, Shutdown

(* An end that was read is in the channel or in the reader's hand.         *)
LEMMA EndsStep ==
  ASSUME SessionInv, [SessionNext]_sessionVars
  PROVE  EndsDelivered'
<1>0. SessionTyped /\ EndsDelivered /\ NothingReadBefore
  BY DEF SessionInv
<1>1. CASE UNCHANGED <<alive, ends, told, dropped, reader>>
  BY <1>0, <1>1 DEF EndsDelivered, NothingReadBefore, Unsent
<1>2. CASE ThreadStarted
  BY <1>0, <1>2
  DEF ThreadStarted, gateVars, countVars, SessionTyped, FlagsTyped, StatesTyped,
      CountsTyped, QueuesTyped, EndsDelivered, NothingReadBefore, Unsent
<1>3. CASE HandshakeFails
  BY <1>0, <1>3
  DEF HandshakeFails, gateVars, countVars, SessionTyped, FlagsTyped, StatesTyped,
      CountsTyped, QueuesTyped, EndsDelivered, NothingReadBefore, Unsent
<1>4. CASE GeminiSend
  BY <1>0, <1>4
  DEF GeminiSend, gateVars, Calls, KillCurrent, SpawnChild, SessionTyped, FlagsTyped,
      StatesTyped, CountsTyped, QueuesTyped, EndsDelivered, NothingReadBefore,
      Unsent
<1>5. CASE ReadText
  BY <1>0, <1>5
  DEF ReadText, gateVars, countVars, Room, SessionTyped, FlagsTyped, StatesTyped,
      CountsTyped, QueuesTyped, EndsDelivered, NothingReadBefore, Unsent
<1>6. CASE ReadEnd
  BY <1>0, <1>6
  DEF ReadEnd, NotifyWaiters, SendControl, Room, SessionTyped, FlagsTyped, StatesTyped,
      CountsTyped, QueuesTyped, EndsDelivered, NothingReadBefore, Unsent
<1>7. CASE ReadEof
  <2> SUFFICES ASSUME alive' PROVE ends' = told' + dropped' + Unsent'
    BY DEF EndsDelivered
  <2>1. backend = "gemini" /\ receiver /\ ends' = ends + 1 /\ dropped' = dropped
    BY <1>7 DEF ReadEof, SessionTyped, FlagsTyped
  <2>2. ends = told + dropped
    BY <1>0, <1>7 DEF ReadEof, EndsDelivered, Unsent, SessionTyped, CountsTyped
  <2>3. CASE Room
    <3>1. told' = told + 1 /\ reader' = "off"
      BY <1>7, <2>1, <2>3 DEF ReadEof
    <3> QED
      BY <1>0, <2>1, <2>2, <3>1 DEF Unsent, SessionTyped, CountsTyped
  <2>4. CASE ~Room
    <3>1. told' = told /\ reader' = "held"
      BY <1>7, <2>1, <2>4 DEF ReadEof
    <3> QED
      BY <1>0, <2>1, <2>2, <3>1 DEF Unsent, SessionTyped, CountsTyped
  <2> QED
    BY <2>3, <2>4
<1>8. CASE SendHeld
  BY <1>0, <1>8
  DEF SendHeld, gateVars, Room, SessionTyped, FlagsTyped, StatesTyped, CountsTyped,
      QueuesTyped, EndsDelivered, NothingReadBefore, Unsent
<1>9. CASE HeldFails
  BY <1>0, <1>9
  DEF HeldFails, gateVars, countVars, SessionTyped, FlagsTyped, StatesTyped, CountsTyped,
      QueuesTyped, EndsDelivered, NothingReadBefore, Unsent
<1>10. CASE Shutdown
  BY <1>0, <1>10
  DEF Shutdown, gateVars, countVars, KillCurrent, SessionTyped, FlagsTyped, StatesTyped,
      CountsTyped, QueuesTyped, EndsDelivered, NothingReadBefore, Unsent
<1> QED
  BY <1>1, <1>2, <1>3, <1>4, <1>5, <1>6, <1>7, <1>8, <1>9, <1>10
  DEF SessionNext, sessionVars, gateVars, countVars, Initialized, CodexSend, Arm, Look,
      Sleep, GiveUpWaiting, Text, EndTurn, Die, Recv, CloseReceiver

(* A process is started where there is none.                               *)
LEMMA ProcessStep ==
  ASSUME SessionInv, [SessionNext]_sessionVars
  PROVE  ProcessesEnd'
<1>0. SessionTyped /\ ProcessesEnd
  BY DEF SessionInv
<1>1. CASE UNCHANGED <<procs, stage>>
  BY <1>0, <1>1 DEF ProcessesEnd
<1>2. CASE Initialized
  BY <1>0, <1>2
  DEF Initialized, gateVars, countVars, SessionTyped, StatesTyped, CountsTyped,
      ProcessesEnd
<1>3. CASE ThreadStarted
  BY <1>0, <1>3
  DEF ThreadStarted, gateVars, countVars, SessionTyped, StatesTyped, CountsTyped,
      ProcessesEnd
<1>4. CASE HandshakeFails
  BY <1>0, <1>4
  DEF HandshakeFails, gateVars, countVars, SessionTyped, StatesTyped, CountsTyped,
      ProcessesEnd
<1>5. CASE GeminiSend
  BY <1>0, <1>5
  DEF GeminiSend, gateVars, Calls, KillCurrent, SpawnChild, Unsent, SessionTyped,
      StatesTyped, CountsTyped, ProcessesEnd
<1>6. CASE EndTurn
  BY <1>0, <1>6
  DEF EndTurn, gateVars, countVars, SessionTyped, StatesTyped, CountsTyped, ProcessesEnd
<1>7. CASE Die
  BY <1>0, <1>7
  DEF Die, gateVars, countVars, SessionTyped, StatesTyped, CountsTyped, ProcessesEnd
<1>8. CASE Shutdown
  BY <1>0, <1>8
  DEF Shutdown, gateVars, countVars, KillCurrent, SessionTyped, StatesTyped, CountsTyped,
      ProcessesEnd
<1> QED
  BY <1>1, <1>2, <1>3, <1>4, <1>5, <1>6, <1>7, <1>8
  DEF SessionNext, sessionVars, gateVars, countVars, CodexSend, Arm, Look, Sleep,
      GiveUpWaiting, Text, ReadText, ReadEnd, ReadEof, SendHeld, HeldFails, Recv,
      CloseReceiver

(* Nothing but the flags' own conditions is written to them.               *)
LEMMA FlagsStep ==
  ASSUME SessionInv, [SessionNext]_sessionVars
  PROVE  FlagsTyped'
<1>0. SessionTyped
  BY DEF SessionInv
<1>1. CASE UNCHANGED <<alive, receiver, idle, woken>>
  BY <1>0, <1>1 DEF SessionTyped, FlagsTyped
<1>2. CASE HandshakeFails
  BY <1>0, <1>2
  DEF HandshakeFails, gateVars, countVars, SessionTyped, FlagsTyped
<1>3. CASE Arm
  BY <1>0, <1>3
  DEF Arm, countVars, Calls, SessionTyped, FlagsTyped
<1>4. CASE Look
  BY <1>0, <1>4
  DEF Look, countVars, Delivered, Gate, SessionTyped, FlagsTyped
<1>5. CASE ReadText
  BY <1>0, <1>5
  DEF ReadText, gateVars, countVars, Room, SessionTyped, FlagsTyped
<1>6. CASE ReadEnd
  BY <1>0, <1>6
  DEF ReadEnd, NotifyWaiters, SendControl, Room, SessionTyped, FlagsTyped
<1>7. CASE ReadEof
  BY <1>0, <1>7
  DEF ReadEof, Room, NotifyWaiters, SessionTyped, FlagsTyped
<1>8. CASE HeldFails
  BY <1>0, <1>8
  DEF HeldFails, gateVars, countVars, SessionTyped, FlagsTyped
<1>9. CASE CloseReceiver
  BY <1>0, <1>9
  DEF CloseReceiver, gateVars, countVars, SessionTyped, FlagsTyped
<1>10. CASE Shutdown
  BY <1>0, <1>10
  DEF Shutdown, gateVars, countVars, KillCurrent, SessionTyped, FlagsTyped
<1> QED
  BY <1>1, <1>2, <1>3, <1>4, <1>5, <1>6, <1>7, <1>8, <1>9, <1>10
  DEF SessionNext, sessionVars, gateVars, countVars, Initialized, ThreadStarted,
      CodexSend, Sleep, GiveUpWaiting, GeminiSend, Text, EndTurn, Die, SendHeld,
      Recv

(* The reader and the sender stay among their states.                      *)
LEMMA StatesStep ==
  ASSUME SessionInv, [SessionNext]_sessionVars
  PROVE  StatesTyped'
<1>0. SessionTyped
  BY DEF SessionInv
<1>1. CASE UNCHANGED <<backend, stage, reader, sender>>
  BY <1>0, <1>1 DEF SessionTyped, StatesTyped
<1>2. CASE Initialized
  BY <1>0, <1>2
  DEF Initialized, gateVars, countVars, SessionTyped, StatesTyped
<1>3. CASE ThreadStarted
  BY <1>0, <1>3
  DEF ThreadStarted, gateVars, countVars, SessionTyped, StatesTyped
<1>4. CASE HandshakeFails
  BY <1>0, <1>4
  DEF HandshakeFails, gateVars, countVars, SessionTyped, StatesTyped
<1>5. CASE Arm
  BY <1>0, <1>5
  DEF Arm, countVars, Calls, SessionTyped, StatesTyped
<1>6. CASE Look
  BY <1>0, <1>6
  DEF Look, countVars, Delivered, Gate, SessionTyped, StatesTyped
<1>7. CASE Sleep
  BY <1>0, <1>7
  DEF Sleep, countVars, SessionTyped, StatesTyped
<1>8. CASE GiveUpWaiting
  BY <1>0, <1>8
  DEF GiveUpWaiting, countVars, SessionTyped, StatesTyped
<1>9. CASE GeminiSend
  BY <1>0, <1>9
  DEF GeminiSend, gateVars, Calls, KillCurrent, SpawnChild, Unsent, SessionTyped,
      StatesTyped
<1>10. CASE ReadText
  BY <1>0, <1>10
  DEF ReadText, gateVars, countVars, Room, SessionTyped, StatesTyped
<1>11. CASE ReadEnd
  BY <1>0, <1>11
  DEF ReadEnd, NotifyWaiters, SendControl, Room, SessionTyped, StatesTyped
<1>12. CASE ReadEof
  BY <1>0, <1>12
  DEF ReadEof, Room, NotifyWaiters, SessionTyped, StatesTyped
<1>13. CASE SendHeld
  BY <1>0, <1>13
  DEF SendHeld, gateVars, Room, SessionTyped, StatesTyped
<1>14. CASE HeldFails
  BY <1>0, <1>14
  DEF HeldFails, gateVars, countVars, SessionTyped, StatesTyped
<1>15. CASE Shutdown
  BY <1>0, <1>15
  DEF Shutdown, gateVars, countVars, KillCurrent, SessionTyped, StatesTyped
<1> QED
  BY <1>1, <1>2, <1>3, <1>4, <1>5, <1>6, <1>7, <1>8, <1>9, <1>10, <1>11, <1>12,
     <1>13, <1>14, <1>15
  DEF SessionNext, sessionVars, gateVars, countVars, CodexSend, Text, EndTurn, Die, Recv,
      CloseReceiver

(* A count is lowered only above zero.                                     *)
LEMMA CountsStep ==
  ASSUME SessionInv, [SessionNext]_sessionVars
  PROVE  CountsTyped'
<1>0. SessionTyped
  BY DEF SessionInv
<1>1. CASE UNCHANGED <<procs, turns, ends, told, dropped, inputs, texts>>
  BY <1>0, <1>1 DEF SessionTyped, CountsTyped
<1>2. CASE HandshakeFails
  BY <1>0, <1>2
  DEF HandshakeFails, gateVars, countVars, SessionTyped, CountsTyped
<1>3. CASE CodexSend
  BY <1>0, <1>3
  DEF CodexSend, gateVars, countVars, Delivered, Calls, SessionTyped, CountsTyped
<1>4. CASE Look
  BY <1>0, <1>4
  DEF Look, countVars, Delivered, Gate, SessionTyped, CountsTyped
<1>5. CASE GeminiSend
  BY <1>0, <1>5
  DEF GeminiSend, gateVars, Calls, KillCurrent, SpawnChild, Unsent, SessionTyped,
      CountsTyped
<1>6. CASE Text
  BY <1>0, <1>6
  DEF Text, gateVars, countVars, SessionTyped, CountsTyped
<1>7. CASE EndTurn
  BY <1>0, <1>7
  DEF EndTurn, gateVars, countVars, SessionTyped, CountsTyped
<1>8. CASE Die
  BY <1>0, <1>8
  DEF Die, gateVars, countVars, SessionTyped, CountsTyped
<1>9. CASE ReadEnd
  <2>1. told' = told \/ told' = told + 1
    BY <1>9 DEF ReadEnd, SendControl
  <2> QED
    BY <1>0, <1>9, <2>1 DEF ReadEnd, SessionTyped, CountsTyped
<1>10. CASE ReadEof
  BY <1>0, <1>10
  DEF ReadEof, Room, NotifyWaiters, SessionTyped, CountsTyped
<1>11. CASE SendHeld
  BY <1>0, <1>11
  DEF SendHeld, gateVars, Room, SessionTyped, CountsTyped
<1>12. CASE Shutdown
  BY <1>0, <1>12
  DEF Shutdown, gateVars, countVars, KillCurrent, SessionTyped, CountsTyped
<1> QED
  BY <1>1, <1>2, <1>3, <1>4, <1>5, <1>6, <1>7, <1>8, <1>9, <1>10, <1>11, <1>12
  DEF SessionNext, sessionVars, gateVars, countVars, Initialized, ThreadStarted, Arm,
      Sleep, GiveUpWaiting, ReadText, HeldFails, Recv, CloseReceiver

(* An event is put where there is room.                                    *)
LEMMA QueuesStep ==
  ASSUME SessionInv, [SessionNext]_sessionVars
  PROVE  QueuesTyped'
<1>0. QueuesTyped
  BY DEF SessionInv, SessionTyped
<1>1. CASE UNCHANGED <<stdout, channel>>
  BY <1>0, StdoutMoves, ChannelMoves, <1>1 DEF QueuesTyped
<1>2. CASE ThreadStarted
  BY <1>0, StdoutMoves, ChannelMoves, <1>2
  DEF ThreadStarted, gateVars, countVars, QueuesTyped
<1>3. CASE GeminiSend
  BY <1>0, StdoutMoves, ChannelMoves, <1>3
  DEF GeminiSend, gateVars, Calls, KillCurrent, SpawnChild, Unsent, QueuesTyped
<1>4. CASE Text
  BY <1>0, StdoutMoves, ChannelMoves, <1>4
  DEF Text, gateVars, countVars, QueuesTyped
<1>5. CASE EndTurn
  BY <1>0, StdoutMoves, ChannelMoves, <1>5
  DEF EndTurn, gateVars, countVars, QueuesTyped
<1>6. CASE ReadText
  BY <1>0, StdoutMoves, ChannelMoves, <1>6
  DEF ReadText, gateVars, countVars, QueuesTyped
<1>7. CASE ReadEnd
  BY <1>0, StdoutMoves, ChannelMoves, <1>7
  DEF ReadEnd, NotifyWaiters, SendControl, QueuesTyped
<1>8. CASE ReadEof
  BY <1>0, StdoutMoves, ChannelMoves, <1>8
  DEF ReadEof, NotifyWaiters, QueuesTyped
<1>9. CASE SendHeld
  BY <1>0, StdoutMoves, ChannelMoves, <1>9
  DEF SendHeld, gateVars, QueuesTyped
<1>10. CASE Recv
  BY <1>0, StdoutMoves, ChannelMoves, <1>10
  DEF Recv, gateVars, countVars, QueuesTyped
<1>11. CASE CloseReceiver
  BY <1>0, StdoutMoves, ChannelMoves, <1>11
  DEF CloseReceiver, gateVars, countVars, QueuesTyped
<1>12. CASE Shutdown
  BY <1>0, StdoutMoves, ChannelMoves, <1>12
  DEF Shutdown, gateVars, countVars, KillCurrent, QueuesTyped
<1> QED
  BY <1>1, <1>2, <1>3, <1>4, <1>5, <1>6, <1>7, <1>8, <1>9, <1>10, <1>11, <1>12
  DEF SessionNext, sessionVars, gateVars, countVars, Initialized, HandshakeFails,
      CodexSend, Arm, Look, Sleep, GiveUpWaiting, Die, HeldFails

LEMMA SessionInvStep == SessionInv /\ [SessionNext]_sessionVars => SessionInv'
<1> SUFFICES ASSUME SessionInv, [SessionNext]_sessionVars PROVE SessionInv'
  OBVIOUS
<1> QED
  BY BeforeStep, TurnStep, WaitStep, EndsStep, ProcessStep, FlagsStep, StatesStep, CountsStep,
     QueuesStep
  DEF SessionInv, SessionTyped

-----------------------------------------------------------------------------
(* The theorem                                                             *)

LEMMA SessionInvGate == SessionInv => GateHolds
<1> SUFFICES ASSUME SessionInv, backend = "claude" PROVE turns + Unread <= 1
  BY DEF GateHolds
<1> DEFINE Ends == {i \in DOMAIN stdout : stdout[i] = "end"}
<1>1. Ends = {i \in Nat : IsEnd(i)} /\ turns \in 0..1
  BY DEF SessionInv, SessionTyped, QueuesTyped, CountsTyped, OneTurn, IsEnd
<1>2. CASE Ends = {}
  BY <1>1, <1>2, FS_EmptySet DEF Unread
<1>3. ASSUME NEW i \in Ends PROVE turns + Unread <= 1
  <2>1. turns = 0
    BY <1>1 DEF SessionInv, OneTurn
  <2>2. Ends = {i}
    BY <1>1 DEF SessionInv, OneTurn
  <2>3. Unread = Cardinality({i})
    BY <2>2, Zenon DEF Unread
  <2>4. Cardinality({i}) = 1
    BY FS_Singleton, Zenon
  <2> QED
    BY <2>1, <2>3, <2>4
<1> QED
  BY <1>2, <1>3

(* For any capacity of the channel and however the child, the reader, the  *)
(* consumer and the callers meet: claude is given an input only after the  *)
(* result of the one before was read, no sender sleeps at an open gate,    *)
(* the end of a turn reaches the consumer of a session that passes for     *)
(* alive, and no process outlives its session.                             *)
THEOREM TurnsAreDelivered == SessionSpec => []TurnsReachTheirEnd
<1>1. SessionInv => TurnsReachTheirEnd
  BY SessionInvGate
  DEF SessionInv, SessionTyped, CountsTyped, StatesTyped, QueuesTyped, WaitIsSound, NoLostWakeup,
      TurnsReachTheirEnd, SessionTypeOK
<1>2. SessionInit => SessionInv
  BY SessionInvInit
<1>3. SessionInv /\ [SessionNext]_sessionVars => SessionInv'
  BY SessionInvStep
<1> QED
  BY <1>1, <1>2, <1>3, PTL DEF SessionSpec

-----------------------------------------------------------------------------
(* Routing. Members leave, join and die between the steps of a call, so    *)
(* what the probe found is old when the notices and the message are sent.  *)

Sent == [sender : Names, kind : {"dispatch", "reply", "status", "discussion"}, to : SUBSET Names,
         dropped : SUBSET (Handles \cup Names), asked : SUBSET (Handles \cup {Lead}),
         status : {"pending", "delivered", "partial"}]
Call == [pc : {"probe", "notify", "preempt", "done"}, caller : Workers \cup {Lead},
         asked : SUBSET (Handles \cup {Lead}), body : SUBSET Handles, preempt : BOOLEAN,
         todo : SUBSET Names, live : SUBSET Names, dead : SUBSET Names, noticed : SUBSET Names,
         interrupted : SUBSET Names, sent : Sent \cup {{}}]

RoutingTyped ==
  /\ roster \in [Names -> {"absent", "active", "removed"}]
  /\ up \subseteq Workers /\ posts \in 0..MaxPosts
  /\ msgs \subseteq Sent
  /\ call \in Call \cup {NoCall}

(* A notice that tells the lead of a death.                                *)
Noticed(n) == \E m \in msgs : m.sender = n /\ m.kind = "status" /\ Lead \in m.to

(* Where the handles of a call stand: each names its caller or a member    *)
(* that was in the book, to be probed still, or found alive or dead.       *)
HandlesPlaced ==
  call.pc \in {"probe", "notify"} =>
    LET seen == call.todo \cup call.live \cup call.dead
    IN  /\ \A h \in call.asked : LowerCase(h) \in seen \cup {call.caller}
        /\ seen \subseteq {LowerCase(h) : h \in call.asked} \ {call.caller}
        /\ call.pc = "notify" => call.todo = {}

(* Who is found dead is told of, unless he is removed first; the lead is   *)
(* never found dead, and nobody removes the web user.                      *)
DeathsTold ==
  call.pc # "none" =>
    /\ Lead \notin call.dead /\ call.noticed \subseteq call.dead
    /\ User \in call.todo \cup call.dead => roster[User] = "active"
    /\ \A n \in call.noticed : roster[n] = "active" => Noticed(n)

(* Once the message is sent every handle is accounted for, also while the  *)
(* recipients are interrupted.                                             *)
AllAccounted ==
  call.pc \in {"preempt", "done"} =>
    \A h \in call.asked :
      LET n == LowerCase(h)
      IN  \/ n = call.caller
          \/ n \in call.sent.to \/ n \in call.sent.dropped
          \/ n \in call.dead /\ (roster[n] = "active" => Noticed(n))

RoutingInv == RoutingTyped /\ HandlesPlaced /\ DeathsTold /\ AllAccounted /\ ProseRoutesNothing /\ NoMailToSelf

-----------------------------------------------------------------------------
(* A name is its own lower-case form; what is addressed was named.         *)
LEMMA NamesAreLower == \A n \in Names : LowerCase(n) = n
BY RoutingConstants DEF LowerCase

LEMMA AddressedAmong ==
  ASSUME NEW H \in SUBSET Names, NEW status
  PROVE  Addressed(H, status) \subseteq H /\ Dropped(H) \subseteq H
BY NamesAreLower DEF Addressed, Dropped

LEMMA MessageTyped ==
  ASSUME NEW s \in Names, NEW kind \in {"dispatch", "reply", "status", "discussion"},
         NEW H \in SUBSET (Handles \cup Names), NEW asked \in SUBSET (Handles \cup {Lead})
  PROVE  Message(s, kind, H, asked) \in Sent
<1>1. Recipients(s, H) \subseteq Names BY DEF Recipients, Addressed, Observers, Names
<1>2. Dropped(H) \subseteq Handles \cup Names BY DEF Dropped
<1>3. DeriveDeliveryStatus(Recipients(s, H), Dropped(H)) \in {"pending", "delivered", "partial"}
  BY DEF DeriveDeliveryStatus
<1> QED BY <1>1, <1>2, <1>3 DEF Message, Sent

LEMMA HeadNamesHandles ==
  ASSUME NEW text \in Texts
  PROVE  ExtractDispatchHandles(text) \subseteq Handles
<1>1. PICK n \in 0..MaxText : text \in [1..n -> Handles \cup {"word", "nl"}] BY DEF Texts
<1>2. ASSUME NEW i \in DOMAIN text, \A k \in 1..i : text[k] \in Handles PROVE text[i] \in Handles
  <2>1. i \in 1..i BY <1>1
  <2> QED BY <1>2, <2>1
<1> QED BY <1>2 DEF ExtractDispatchHandles

(* A message that is accepted has other recipients than its sender.        *)
LEMMA AcceptedNotToSelf ==
  ASSUME NEW s, NEW kind, NEW H, NEW asked, Accepts(s, kind, H)
  PROVE  LET m == Message(s, kind, H, asked)
         IN  m.sender = s /\ m.kind = kind /\ m.asked = asked /\ s \notin m.to
BY DEF Accepts, Message, Recipients, Observers

(* What one more message does to the properties of all.                    *)
LEMMA MoreMessages ==
  ASSUME RoutingInv, NEW m \in Sent, m.sender \notin m.to,
         m.kind \in {"dispatch", "reply"} => m.to \subseteq {LowerCase(h) : h \in m.asked} \cup Observers(m.sender),
         msgs' = msgs \/ msgs' = msgs \cup {m}
  PROVE  /\ msgs' \subseteq Sent /\ ProseRoutesNothing' /\ NoMailToSelf'
         /\ \A n : Noticed(n) => Noticed(n)'
<1>1. msgs' \subseteq Sent BY DEF RoutingInv, RoutingTyped
<1>2. ProseRoutesNothing' BY DEF RoutingInv, ProseRoutesNothing
<1>3. NoMailToSelf' BY DEF RoutingInv, NoMailToSelf
<1>4. \A n : Noticed(n) => Noticed(n)' BY DEF Noticed
<1> QED BY <1>1, <1>2, <1>3, <1>4

(* The call's part of the invariant, when the call and the roster stay.    *)
LEMMA CallRests ==
  ASSUME RoutingInv, UNCHANGED call, \A n : Noticed(n) => Noticed(n)',
         \A n \in Names : roster'[n] = "active" => roster[n] = "active" \/ n = User,
         roster[User] = "active" => roster'[User] = "active", roster' \in [Names -> {"absent", "active", "removed"}]
  PROVE  HandlesPlaced' /\ DeathsTold' /\ AllAccounted'
<1>0. call \in Call \cup {NoCall} BY DEF RoutingInv, RoutingTyped
<1>1. HandlesPlaced' BY DEF RoutingInv, HandlesPlaced
<1>2. DeathsTold'
  <2> SUFFICES ASSUME call.pc # "none" PROVE DeathsTold' BY DEF DeathsTold
  <2>1. call \in Call BY <1>0 DEF NoCall
  <2>2. call.noticed \subseteq Names BY <2>1 DEF Call
  <2> QED BY <2>2 DEF RoutingInv, DeathsTold
<1>3. AllAccounted'
  <2> SUFFICES ASSUME call.pc \in {"preempt", "done"} PROVE AllAccounted' BY DEF AllAccounted
  <2>1. call \in Call BY <1>0 DEF NoCall
  <2>2. call.dead \subseteq Names BY <2>1 DEF Call
  <2>3. \A n \in call.dead : roster'[n] = "active" => roster[n] = "active"
    BY <2>2 DEF RoutingInv, DeathsTold
  <2> QED BY <2>3 DEF RoutingInv, AllAccounted
<1> QED BY <1>1, <1>2, <1>3

-----------------------------------------------------------------------------
(* The send_message tool                                                   *)

LEMMA SendMessageKeeps == ASSUME RoutingInv, SendMessage PROVE RoutingInv'
<1> USE DEF RoutingInv
<1>1. PICK caller \in Workers \cup {Lead}, text \in Texts, mentions \in {{}} \cup {{h} : h \in Handles},
           preempt \in BOOLEAN :
        LET asked == Asked(caller, mentions, text)
            resolved == ({LowerCase(h) : h \in asked} \cap Book) \ {caller}
        IN  /\ Unmatched(asked) = {}
            /\ call' = [pc |-> "probe", caller |-> caller, asked |-> asked, body |-> ParseMentionsFromBody(text),
                        preempt |-> preempt, todo |-> resolved, live |-> {}, dead |-> {},
                        noticed |-> {}, interrupted |-> {}, sent |-> {}]
  BY DEF SendMessage
<1> DEFINE asked == Asked(caller, mentions, text)
           resolved == ({LowerCase(h) : h \in asked} \cap Book) \ {caller}
<1>2. asked \subseteq Handles \cup {Lead}
  <2>1. ExtractDispatchHandles(text) \subseteq Handles BY HeadNamesHandles
  <2>2. mentions \subseteq Handles OBVIOUS
  <2> QED BY <2>1, <2>2 DEF Asked, Lead
<1>3. \A h \in asked : LowerCase(h) \in Book BY <1>1 DEF Unmatched
<1>4. resolved \subseteq Names /\ (User \in resolved => roster[User] = "active")
  BY DEF Book, Names, Lead, User
<1>5. ParseMentionsFromBody(text) \subseteq Handles BY DEF ParseMentionsFromBody
<1> HIDE DEF asked, resolved
<1>6. /\ call'.pc = "probe" /\ call'.caller = caller /\ call'.asked = asked /\ call'.todo = resolved
      /\ call'.live = {} /\ call'.dead = {} /\ call'.noticed = {}
  BY <1>1 DEF asked, resolved
<1>7. call' \in Call
  BY <1>1, <1>2, <1>4, <1>5, Zenon DEF Call, asked, resolved
<1>8. RoutingTyped' BY <1>7, RoutingConstants DEF RoutingTyped, SendMessage
<1>9. HandlesPlaced'
  <2>1. \A h \in asked : LowerCase(h) \in resolved \cup {caller} BY <1>3 DEF resolved
  <2>2. resolved \subseteq {LowerCase(h) : h \in asked} \ {caller} BY DEF resolved
  <2> QED BY <1>6, <2>1, <2>2 DEF HandlesPlaced
<1>10. DeathsTold' BY <1>4, <1>6 DEF DeathsTold, SendMessage
<1>11. AllAccounted' BY <1>6 DEF AllAccounted
<1>12. ProseRoutesNothing' /\ NoMailToSelf' BY DEF SendMessage, ProseRoutesNothing, NoMailToSelf
<1> QED BY <1>8, <1>9, <1>10, <1>11, <1>12

LEMMA ProbeKeeps == ASSUME RoutingInv, ProbeRecipient PROVE RoutingInv'
<1> USE DEF RoutingInv
<1>1. PICK r \in call.todo :
        call' = [call EXCEPT !.todo = @ \ {r},
                             !.live = IF r = Lead \/ r \in up THEN @ \cup {r} ELSE @,
                             !.dead = IF r = Lead \/ r \in up THEN @ ELSE @ \cup {r},
                             !.pc = IF call.todo = {r} THEN "notify" ELSE "probe"]
  BY DEF ProbeRecipient
<1>2. call \in Call /\ call.pc = "probe" BY DEF ProbeRecipient, RoutingTyped, NoCall
<1> DEFINE lives == r = Lead \/ r \in up
           todo == call.todo \ {r}
           live == IF lives THEN call.live \cup {r} ELSE call.live
           dead == IF lives THEN call.dead ELSE call.dead \cup {r}
           pc == IF call.todo = {r} THEN "notify" ELSE "probe"
<1>3. todo \subseteq Names /\ live \subseteq Names /\ dead \subseteq Names /\ pc \in {"probe", "notify"}
  BY <1>2 DEF Call
<1>4. todo \cup live \cup dead = call.todo \cup call.live \cup call.dead
  OBVIOUS
<1>5. User \in todo \cup dead => User \in call.todo \cup call.dead OBVIOUS
<1>6. Lead \notin call.dead => Lead \notin dead OBVIOUS
<1>7. call.dead \subseteq dead /\ (pc = "notify" => todo = {}) OBVIOUS
<1>8. call' = [call EXCEPT !.todo = todo, !.live = live, !.dead = dead, !.pc = pc] BY <1>1
<1> HIDE DEF lives, todo, live, dead, pc
<1>9. call' \in Call BY <1>2, <1>3, <1>8, Zenon DEF Call
<1>10. /\ call'.todo = todo /\ call'.live = live /\ call'.dead = dead /\ call'.pc = pc
       /\ call'.asked = call.asked /\ call'.caller = call.caller /\ call'.noticed = call.noticed
  BY <1>2, <1>8 DEF Call
<1>11. RoutingTyped' BY <1>9 DEF RoutingTyped, ProbeRecipient
<1>12. HandlesPlaced' BY <1>2, <1>4, <1>7, <1>10 DEF HandlesPlaced
<1>13. DeathsTold' BY <1>2, <1>5, <1>6, <1>7, <1>10 DEF DeathsTold, ProbeRecipient, Noticed
<1>14. AllAccounted' BY <1>3, <1>10 DEF AllAccounted
<1>15. ProseRoutesNothing' /\ NoMailToSelf' BY DEF ProbeRecipient, ProseRoutesNothing, NoMailToSelf
<1> QED BY <1>11, <1>12, <1>13, <1>14, <1>15

LEMMA NoticeKeeps == ASSUME RoutingInv, Notice PROVE RoutingInv'
<1> USE DEF RoutingInv
<1>1. PICK d \in ToReport \ call.noticed :
        /\ call' = [call EXCEPT !.noticed = @ \cup {d}]
        /\ msgs' = IF Accepts(d, "status", {}) THEN msgs \cup {Message(d, "status", {}, {})} ELSE msgs
  BY DEF Notice
<1>2. call \in Call /\ call.pc = "notify" BY DEF Notice, RoutingTyped, NoCall
<1>3. d \in Names /\ d \in call.dead /\ d # Lead BY <1>2 DEF ToReport, Call, DeathsTold
<1> DEFINE m == Message(d, "status", {}, {})
<1>4. m \in Sent BY <1>3, MessageTyped
<1>5. m.sender = d /\ m.kind = "status" /\ m.to = {Lead}
  BY <1>3 DEF Message, Recipients, Addressed, Observers
<1> HIDE DEF m
<1>6. msgs' = msgs \/ msgs' = msgs \cup {m} BY <1>1 DEF m
<1>7. /\ msgs' \subseteq Sent /\ ProseRoutesNothing' /\ NoMailToSelf'
      /\ \A n : Noticed(n) => Noticed(n)'
  BY <1>3, <1>4, <1>5, <1>6, MoreMessages
<1>8. roster[d] = "active" => Noticed(d)'
  <2>1. Addressed({}, "active") = {} BY DEF Addressed
  <2>2. roster[d] = "active" => msgs' = msgs \cup {m} BY <1>1, <2>1 DEF Accepts, m
  <2> QED BY <1>5, <2>2 DEF Noticed
<1>9. call' \in Call BY <1>1, <1>2, <1>3, Zenon DEF Call
<1>10. /\ call'.todo = call.todo /\ call'.live = call.live /\ call'.dead = call.dead /\ call'.pc = "notify"
       /\ call'.asked = call.asked /\ call'.caller = call.caller /\ call'.noticed = call.noticed \cup {d}
  BY <1>1, <1>2 DEF Call
<1>11. RoutingTyped' BY <1>7, <1>9 DEF RoutingTyped, Notice
<1>12. HandlesPlaced' BY <1>2, <1>10 DEF HandlesPlaced
<1>13. DeathsTold'
  <2>1. roster' = roster BY DEF Notice
  <2>2. \A n \in call'.noticed : roster[n] = "active" => Noticed(n)'
    BY <1>2, <1>7, <1>8, <1>10 DEF DeathsTold
  <2> QED BY <1>2, <1>3, <1>10, <2>1, <2>2 DEF DeathsTold
<1>14. AllAccounted' BY <1>10 DEF AllAccounted
<1> QED BY <1>7, <1>11, <1>12, <1>13, <1>14

LEMMA DispatchKeeps == ASSUME RoutingInv, Dispatch PROVE RoutingInv'
<1> USE DEF RoutingInv
<1>1. call \in Call /\ call.pc = "notify" /\ call.dead \subseteq call.noticed
  BY DEF Dispatch, RoutingTyped, NoCall, ToReport
<1> DEFINE kind == IF call.caller = Lead THEN "dispatch" ELSE "reply"
           m == Message(call.caller, kind, call.live, call.asked)
<1>2. CASE ~(call.live # {} /\ Accepts(call.caller, kind, call.live))
  <2>1. call' = NoCall /\ UNCHANGED <<roster, up, msgs, posts>>
    BY <1>2 DEF Dispatch, DispatchMentions
  <2>2. call'.pc = "none" BY <2>1 DEF NoCall
  <2>3. RoutingTyped' BY <2>1 DEF RoutingTyped
  <2>4. HandlesPlaced' /\ DeathsTold' /\ AllAccounted'
    BY <2>2 DEF HandlesPlaced, DeathsTold, AllAccounted
  <2>5. ProseRoutesNothing' /\ NoMailToSelf' BY <2>1 DEF ProseRoutesNothing, NoMailToSelf
  <2> QED BY <2>3, <2>4, <2>5
<1>3. CASE call.live # {} /\ Accepts(call.caller, kind, call.live)
  <2>1. /\ msgs' = msgs \cup {m} /\ UNCHANGED <<roster, up, posts>>
        /\ call' = [call EXCEPT !.pc = IF call.preempt THEN "preempt" ELSE "done", !.sent = m]
    BY <1>3 DEF Dispatch, DispatchMentions
  <2>2. /\ call.live \subseteq Names /\ call.caller \in Names /\ kind \in {"dispatch", "reply"}
        /\ call.asked \in SUBSET (Handles \cup {Lead})
    BY <1>1 DEF Call, Names
  <2>3. m \in Sent BY <2>2, MessageTyped
  <2>4. m.sender = call.caller /\ m.asked = call.asked /\ m.sender \notin m.to
    BY <1>3, AcceptedNotToSelf
  <2>5. /\ m.to = Addressed(call.live, "active") \cup Observers(call.caller)
        /\ m.dropped = Dropped(call.live)
    BY DEF Message, Recipients
  <2> HIDE DEF m
  <2>6. m.to \subseteq {LowerCase(h) : h \in m.asked} \cup Observers(m.sender)
    <3>1. Addressed(call.live, "active") \subseteq call.live BY <2>2, AddressedAmong
    <3>2. call.live \subseteq {LowerCase(h) : h \in call.asked} BY <1>1 DEF HandlesPlaced
    <3> QED BY <2>4, <2>5, <3>1, <3>2
  <2>7. /\ msgs' \subseteq Sent /\ ProseRoutesNothing' /\ NoMailToSelf'
        /\ \A n : Noticed(n) => Noticed(n)'
    BY <2>1, <2>3, <2>4, <2>6, MoreMessages
  <2>8. (IF call.preempt THEN "preempt" ELSE "done") \in {"preempt", "done"} OBVIOUS
  <2>9. call' \in Call BY <1>1, <2>1, <2>3, <2>8, Zenon DEF Call
  <2>10. /\ call'.todo = call.todo /\ call'.dead = call.dead /\ call'.pc \in {"preempt", "done"}
         /\ call'.asked = call.asked /\ call'.caller = call.caller /\ call'.noticed = call.noticed
         /\ call'.sent = m
    BY <1>1, <2>1, <2>8 DEF Call
  <2>11. RoutingTyped' BY <2>1, <2>7, <2>9 DEF RoutingTyped
  <2>12. HandlesPlaced' BY <2>10 DEF HandlesPlaced
  <2>13. DeathsTold' BY <1>1, <2>1, <2>7, <2>10 DEF DeathsTold
  <2>14. ASSUME NEW h \in call.asked, LowerCase(h) # call.caller
         PROVE  \/ LowerCase(h) \in m.to \cup m.dropped
                \/ LowerCase(h) \in call.dead /\ (roster[LowerCase(h)] = "active" => Noticed(LowerCase(h))')
    <3> DEFINE n == LowerCase(h)
    <3>1. n \in call.live \/ n \in call.dead BY <1>1, <2>14 DEF HandlesPlaced
    <3>2. CASE n \in call.live
      <4>1. LowerCase(n) = n BY <2>2, <3>2, NamesAreLower
      <4> QED BY <2>5, <3>2, <4>1 DEF Dropped
    <3>3. CASE n \in call.dead BY <1>1, <2>7, <3>3 DEF DeathsTold
    <3> QED BY <3>1, <3>2, <3>3
  <2>15. AllAccounted' BY <2>1, <2>10, <2>14 DEF AllAccounted
  <2> QED BY <2>7, <2>11, <2>12, <2>13, <2>15
<1> QED BY <1>2, <1>3

LEMMA PreemptKeeps == ASSUME RoutingInv, Preempt PROVE RoutingInv'
<1> USE DEF RoutingInv
<1>1. /\ call \in Call /\ call.pc = "preempt" /\ UNCHANGED <<roster, up, msgs, posts>>
      /\ call' = [call EXCEPT !.pc = "done", !.interrupted = (call.live \ {Lead}) \cap up]
  BY DEF Preempt, RoutingTyped, NoCall
<1>2. (call.live \ {Lead}) \cap up \subseteq Names BY <1>1 DEF Call
<1>3. call' \in Call BY <1>1, <1>2, Zenon DEF Call
<1>4. /\ call'.todo = call.todo /\ call'.dead = call.dead /\ call'.pc = "done"
      /\ call'.asked = call.asked /\ call'.caller = call.caller /\ call'.noticed = call.noticed
      /\ call'.sent = call.sent
  BY <1>1 DEF Call
<1>5. RoutingTyped' BY <1>1, <1>3 DEF RoutingTyped
<1>6. HandlesPlaced' BY <1>4 DEF HandlesPlaced
<1>7. DeathsTold' BY <1>1, <1>4 DEF DeathsTold, Noticed
<1>8. AllAccounted' BY <1>1, <1>4 DEF AllAccounted, Noticed
<1>9. ProseRoutesNothing' /\ NoMailToSelf' BY <1>1 DEF ProseRoutesNothing, NoMailToSelf
<1> QED BY <1>5, <1>6, <1>7, <1>8, <1>9

LEMMA AnsweredKeeps == ASSUME RoutingInv, Answered PROVE RoutingInv'
<1> USE DEF RoutingInv
<1>1. call' = NoCall /\ call'.pc = "none" /\ UNCHANGED <<roster, up, msgs, posts>>
  BY DEF Answered, NoCall
<1>2. RoutingTyped' BY <1>1 DEF RoutingTyped
<1>3. HandlesPlaced' /\ DeathsTold' /\ AllAccounted'
  BY <1>1 DEF HandlesPlaced, DeathsTold, AllAccounted
<1>4. ProseRoutesNothing' /\ NoMailToSelf' BY <1>1 DEF ProseRoutesNothing, NoMailToSelf
<1> QED BY <1>2, <1>3, <1>4

-----------------------------------------------------------------------------
(* The other senders, and the members that come and go                     *)

LEMMA PostKeeps ==
  ASSUME RoutingInv, NEW s \in Names, NEW kind \in {"status", "discussion"},
         NEW H \in SUBSET Handles, Accepts(s, kind, H), posts < MaxPosts,
         msgs' = msgs \cup {Message(s, kind, H, H)}, posts' = posts + 1, UNCHANGED <<roster, up, call>>
  PROVE  RoutingInv'
<1> USE DEF RoutingInv
<1> DEFINE m == Message(s, kind, H, H)
<1>1. m \in Sent /\ m.sender \notin m.to /\ m.kind = kind BY MessageTyped, AcceptedNotToSelf
<1> HIDE DEF m
<1>2. msgs' = msgs \cup {m} BY DEF m
<1>3. /\ msgs' \subseteq Sent /\ ProseRoutesNothing' /\ NoMailToSelf'
      /\ \A n : Noticed(n) => Noticed(n)'
  BY <1>1, <1>2, MoreMessages
<1>4. RoutingTyped' BY <1>3, RoutingConstants DEF RoutingTyped
<1>5. HandlesPlaced' /\ DeathsTold' /\ AllAccounted' BY <1>3, CallRests DEF RoutingTyped
<1> QED BY <1>3, <1>4, <1>5

LEMMA MembersKeep ==
  ASSUME RoutingInv, UNCHANGED <<call, msgs, posts>>, up' \subseteq Workers,
         \/ UNCHANGED roster \/ roster' = [roster EXCEPT ![User] = "active"]
         \/ \E w \in Workers : roster' = [roster EXCEPT ![w] = "removed"]
  PROVE  RoutingInv'
<1> USE DEF RoutingInv
<1>1. /\ roster' \in [Names -> {"absent", "active", "removed"}]
      /\ \A n \in Names : roster'[n] = "active" => roster[n] = "active" \/ n = User
      /\ roster[User] = "active" => roster'[User] = "active"
  BY RoutingConstants DEF RoutingTyped, Names
<1>2. \A n : Noticed(n) => Noticed(n)' BY DEF Noticed
<1>3. RoutingTyped' BY <1>1 DEF RoutingTyped
<1>4. HandlesPlaced' /\ DeathsTold' /\ AllAccounted' BY <1>1, <1>2, CallRests
<1>5. ProseRoutesNothing' /\ NoMailToSelf' BY DEF ProseRoutesNothing, NoMailToSelf
<1> QED BY <1>3, <1>4, <1>5

LEMMA ReviveKeeps == ASSUME RoutingInv, NEW w \in Workers, Revive(w) PROVE RoutingInv'
<1> USE DEF RoutingInv
<1>1. call.pc = "none" /\ UNCHANGED <<call, msgs, posts>> BY DEF Revive
<1>2. RoutingTyped' BY <1>1 DEF RoutingTyped, Revive, Names
<1>3. HandlesPlaced' /\ DeathsTold' /\ AllAccounted'
  BY <1>1 DEF HandlesPlaced, DeathsTold, AllAccounted
<1>4. ProseRoutesNothing' /\ NoMailToSelf' BY <1>1 DEF ProseRoutesNothing, NoMailToSelf
<1> QED BY <1>2, <1>3, <1>4

-----------------------------------------------------------------------------

LEMMA RoutingInvInit == RoutingInit => RoutingInv
<1> SUFFICES ASSUME RoutingInit PROVE RoutingInv OBVIOUS
<1>1. call.pc = "none" BY DEF RoutingInit, NoCall
<1>2. RoutingTyped BY RoutingConstants DEF RoutingInit, RoutingTyped
<1>3. HandlesPlaced /\ DeathsTold /\ AllAccounted
  BY <1>1 DEF HandlesPlaced, DeathsTold, AllAccounted
<1>4. ProseRoutesNothing /\ NoMailToSelf BY DEF RoutingInit, ProseRoutesNothing, NoMailToSelf
<1> QED BY <1>2, <1>3, <1>4 DEF RoutingInv

LEMMA RoutingInvStep == RoutingInv /\ [RoutingNext]_routingVars => RoutingInv'
<1> SUFFICES ASSUME RoutingInv, [RoutingNext]_routingVars PROVE RoutingInv' OBVIOUS
<1>0. \A text : ParseMentionsFromBody(text) \in SUBSET Handles BY DEF ParseMentionsFromBody
<1>1. CASE SendMessage \/ ProbeRecipient \/ Notice \/ Dispatch \/ Preempt \/ Answered
  BY <1>1, SendMessageKeeps, ProbeKeeps, NoticeKeeps, DispatchKeeps, PreemptKeeps, AnsweredKeeps
<1>2. CASE WebUserJoins
  <2>1. UNCHANGED <<call, msgs, posts, up>> /\ roster' = [roster EXCEPT ![User] = "active"]
    BY <1>2 DEF WebUserJoins
  <2> QED BY <2>1, MembersKeep DEF RoutingInv, RoutingTyped
<1>3. CASE PostMainRoomMessage
  <2>1. PICK text \in Texts : /\ Accepts(User, "discussion", ParseMentionsFromBody(text))
                             /\ msgs' = msgs \cup {Message(User, "discussion", ParseMentionsFromBody(text),
                                                           ParseMentionsFromBody(text))}
    BY <1>3 DEF PostMainRoomMessage
  <2>2. posts < MaxPosts /\ posts' = posts + 1 /\ UNCHANGED <<roster, up, call>>
    BY <1>3 DEF PostMainRoomMessage
  <2>3. User \in Names BY DEF Names
  <2> QED BY <1>0, <2>1, <2>2, <2>3, PostKeeps
<1>4. ASSUME NEW w \in Workers, LoopNotice(w) PROVE RoutingInv'
  <2>1. PICK text \in Texts : /\ Accepts(w, "status", ParseMentionsFromBody(text))
                             /\ msgs' = msgs \cup {Message(w, "status", ParseMentionsFromBody(text),
                                                           ParseMentionsFromBody(text))}
    BY <1>4 DEF LoopNotice
  <2>2. posts < MaxPosts /\ posts' = posts + 1 /\ UNCHANGED <<roster, up, call>>
    BY <1>4 DEF LoopNotice
  <2>3. w \in Names BY DEF Names
  <2> QED BY <1>0, <2>1, <2>2, <2>3, PostKeeps
<1>5. ASSUME NEW w \in Workers, WorkerDies(w) \/ MarkRemoved(w) PROVE RoutingInv'
  <2>1. UNCHANGED <<call, msgs, posts>> /\ up' = up \ {w} BY <1>5 DEF WorkerDies, MarkRemoved
  <2>2. UNCHANGED roster \/ roster' = [roster EXCEPT ![w] = "removed"]
    BY <1>5 DEF WorkerDies, MarkRemoved
  <2> QED BY <2>1, <2>2, MembersKeep DEF RoutingInv, RoutingTyped
<1>6. CASE UNCHANGED routingVars
  <2>1. UNCHANGED <<call, msgs, posts, up, roster>> BY <1>6 DEF routingVars
  <2> QED BY <2>1, MembersKeep DEF RoutingInv, RoutingTyped
<1> QED BY <1>1, <1>2, <1>3, <1>4, <1>5, <1>6, ReviveKeeps DEF RoutingNext

(* For any workers, handles, texts and number of calls, whoever dies, joins*)
(* or leaves in between: every handle a caller named is accounted for in   *)
(* its answer, and a message reaches those it names and the lead only, and *)
(* never its sender.                                                       *)
THEOREM MessagesArrive == RoutingSpec => []MessagesGoWhereNamed
<1>1. RoutingInv => MessagesGoWhereNamed
  <2> SUFFICES ASSUME RoutingInv PROVE MessagesGoWhereNamed OBVIOUS
  <2> USE DEF RoutingInv
  <2>1. RoutingTypeOK BY DEF RoutingTyped, Sent, RoutingTypeOK
  <2>2. EveryHandleAccounted BY DEF AllAccounted, Noticed, EveryHandleAccounted
  <2> QED BY <2>1, <2>2 DEF MessagesGoWhereNamed
<1> QED BY <1>1, RoutingInvInit, RoutingInvStep, PTL DEF RoutingSpec

-----------------------------------------------------------------------------
(* GlobalInstall. A command may be interrupted between two files, and a    *)
(* user edits or tears them between two commands: what a command promises  *)
(* of each file must follow from that file alone.                          *)

Project == [scripts : BOOLEAN, mcp : McpFile, settings : SettingsFile, ignored : BOOLEAN]
GivenFiles == [mcp : McpFile, settings : SettingsFile, skills : [SkillFiles -> SkillStates]]

InstallTyped ==
  /\ mcp \in McpFile /\ settings \in SettingsFile /\ skills \in [SkillFiles -> SkillStates]
  /\ project \in Project /\ given \in GivenFiles
  /\ commands \in 0..MaxCommands /\ breaks \in 0..MaxBreaks

(* The places of each command; it keeps its name until the next begins.    *)
InstallAt == {"install-mcp", "install-settings", "install-skill"}
UninstallAt == {"uninstall-mcp", "uninstall-settings", "uninstall-skill"}
InitAt == {"init-check", "init-scripts", "init-mcp", "init-settings"}
AtRest == {"idle", "done", "refused"}

CommandNamed ==
  /\ cmd \in [name : {"setup", "none", "install", "uninstall", "init"},
              at : InstallAt \cup UninstallAt \cup InitAt \cup AtRest \cup {"setup"}]
  /\ cmd.at \in InstallAt => cmd.name = "install"
  /\ cmd.at \in UninstallAt => cmd.name = "uninstall"
  /\ cmd.at \in InitAt => cmd.name = "init"

(* No event holds a hook of ours twice, or one beside an entry we share.   *)
OnceEach(f) == \A e \in {f.stop, f.post} : e.ours \in {0, 1} /\ (e.mixed => e.ours = 0)
HooksAreOnce ==
  /\ OnceEach(settings)
  /\ \A e \in {project.settings.stop, project.settings.post} : e.v2 \in {0, 1}
  /\ cmd.at \in InitAt \ {"init-check"} =>
        \A e \in {project.settings.stop, project.settings.post} : e.v2 = 0

(* What a command has done when it gets where it is.                       *)
Installed(f) == \A e \in {f.stop, f.post} : HasOurs(e)
DoneSoFar ==
  /\ cmd.name = "install" /\ cmd.at \in {"install-settings", "install-skill", "done"} => mcp.server = "ours"
  /\ cmd.name = "install" /\ cmd.at \in {"install-skill", "done"} => Installed(settings)
  /\ Finished("install") => \A f \in SkillFiles : skills[f] = "ours"
  /\ cmd.name = "uninstall" /\ cmd.at \in {"uninstall-settings", "uninstall-skill", "done"} => mcp.server = "none"
  /\ cmd.name = "uninstall" /\ cmd.at \in {"uninstall-skill", "done"} =>
        ~HasOurs(settings.stop) /\ ~HasOurs(settings.post)
  /\ Finished("uninstall") => \A f \in SkillFiles : skills[f] # "ours"

(* Unless a write was torn, what stands in an install's way is the user's. *)
WholeFiles ==
  ~tornWrite =>
    /\ mcp.kind # "garbage" /\ settings.kind # "garbage"
    /\ mcp.server = "other" => given.mcp.server = "other"
    /\ \A f \in SkillFiles : skills[f] = "edited" => given.skills[f] = "edited"

InstallInv ==
  /\ InstallTyped /\ CommandNamed /\ HooksAreOnce /\ DoneSoFar
  /\ WholeFiles /\ UsersFilesKept /\ RefusalsAreTheUsers /\ DoubleHooksWarned

-----------------------------------------------------------------------------
(* What the merges make of an event and of a file.                         *)

LEMMA AppendedEvent ==
  ASSUME NEW e \in Event, e.ours \in {0, 1}, e.mixed => e.ours = 0
  PROVE  /\ Appended(e) \in Event /\ Appended(e).user = e.user /\ HasOurs(Appended(e))
         /\ Appended(e).ours \in {0, 1} /\ (Appended(e).mixed => Appended(e).ours = 0)
<1>1. CASE HasOurs(e) BY <1>1 DEF Appended
<1>2. CASE ~HasOurs(e)
  <2>1. e.ours = 0 /\ ~e.mixed BY <1>2 DEF HasOurs
  <2>2. e.ours + 1 = 1 /\ 1 \in 0..(MaxCommands + 1) BY <2>1, InstallConstants
  <2>3. Appended(e) = [e EXCEPT !.ours = 1] BY <1>2, <2>2, Zenon DEF Appended
  <2>4. [e EXCEPT !.ours = 1] \in Event BY <2>2, Zenon DEF Event
  <2>5. [e EXCEPT !.ours = 1].ours = 1 /\ [e EXCEPT !.ours = 1].user = e.user /\ [e EXCEPT !.ours = 1].mixed = e.mixed
    BY DEF Event
  <2> QED BY <2>1, <2>3, <2>4, <2>5 DEF HasOurs
<1> QED BY <1>1, <1>2

LEMMA RemovedEvent ==
  ASSUME NEW e \in Event
  PROVE  /\ Removed(e) \in Event /\ Removed(e).user = e.user /\ ~HasOurs(Removed(e))
         /\ Removed(e).ours = 0 /\ ~Removed(e).mixed
<1>1. 0 \in 0..(MaxCommands + 1) BY InstallConstants
<1>2. Removed(e) \in Event BY <1>1, Zenon DEF Removed, Event
<1>3. Removed(e).ours = 0 /\ Removed(e).mixed = FALSE /\ Removed(e).user = e.user
  BY Zenon DEF Removed, Event
<1> QED BY <1>2, <1>3 DEF HasOurs

LEMMA V2Event ==
  ASSUME NEW e \in Event, e.v2 = 0
  PROVE  WithV2Hook(e) \in Event /\ WithV2Hook(e).v2 = 1
<1>1. e.v2 + 1 = 1 /\ 1 \in 0..(MaxCommands + 1) BY InstallConstants
<1>2. WithV2Hook(e) = [e EXCEPT !.v2 = 1] BY <1>1, Zenon DEF WithV2Hook
<1> QED BY <1>1, <1>2, Zenon DEF Event

LEMMA NoneTyped ==
  /\ NoHooks \in Event /\ NoMcp \in McpFile /\ NoSettings \in SettingsFile /\ NoProject \in Project
  /\ Empty \in GivenFiles
<1>1. 0 \in 0..(MaxCommands + 1) BY InstallConstants
<1>2. NoHooks \in Event BY <1>1, Zenon DEF NoHooks, Event
<1>3. NoMcp \in McpFile BY Zenon DEF NoMcp, McpFile, Kinds, Servers
<1>4. NoSettings \in SettingsFile BY <1>2, Zenon DEF NoSettings, SettingsFile, Kinds
<1>5. NoProject \in Project BY <1>3, <1>4, Zenon DEF NoProject, Project
<1>6. [f \in SkillFiles |-> "absent"] \in [SkillFiles -> SkillStates] BY DEF SkillStates
<1>7. Empty \in GivenFiles BY <1>3, <1>4, <1>6, Zenon DEF Empty, GivenFiles
<1> QED BY <1>2, <1>3, <1>4, <1>5, <1>7

LEMMA McpMerges ==
  ASSUME NEW f \in McpFile
  PROVE  /\ MergedMcp(f) \in McpFile /\ MergedMcp(f).kind = "object" /\ MergedMcp(f).server = "ours"
         /\ MergedMcp(f).rest = f.rest
         /\ McpWithout(f) \in McpFile /\ McpWithout(f).server = "none"
         /\ McpWithout(f).kind \in {f.kind, "absent"}
         /\ f.rest => McpWithout(f).kind = f.kind /\ McpWithout(f).rest
<1>1. "object" \in Kinds /\ "ours" \in Servers /\ "none" \in Servers BY DEF Kinds, Servers
<1>2. /\ MergedMcp(f) \in McpFile /\ MergedMcp(f).kind = "object" /\ MergedMcp(f).server = "ours"
      /\ MergedMcp(f).rest = f.rest
  BY <1>1, Zenon DEF MergedMcp, McpFile
<1>3. /\ [f EXCEPT !.server = "none"] \in McpFile /\ [f EXCEPT !.server = "none"].server = "none"
      /\ [f EXCEPT !.server = "none"].kind = f.kind /\ [f EXCEPT !.server = "none"].rest = f.rest
  BY <1>1, Zenon DEF McpFile
<1>4. NoMcp \in McpFile /\ NoMcp.server = "none" /\ NoMcp.kind = "absent"
  BY NoneTyped, Zenon DEF NoMcp
<1>5. CASE f.rest BY <1>2, <1>3, <1>5 DEF McpWithout
<1>6. CASE ~f.rest BY <1>2, <1>4, <1>6 DEF McpWithout
<1> QED BY <1>5, <1>6

LEMMA SettingsMerge ==
  ASSUME NEW f \in SettingsFile, OnceEach(f)
  PROVE  LET g == MergedSettings(f)
         IN  /\ g \in SettingsFile /\ g.kind = "object" /\ g.rest = f.rest /\ g.stop.user = f.stop.user
             /\ OnceEach(g) /\ Installed(g)
<1> DEFINE g == MergedSettings(f)
<1>1. f.stop \in Event /\ f.post \in Event BY DEF SettingsFile
<1>2. /\ Appended(f.stop) \in Event /\ Appended(f.post) \in Event /\ Appended(f.stop).user = f.stop.user
      /\ \A e \in {Appended(f.stop), Appended(f.post)} :
            HasOurs(e) /\ e.ours \in {0, 1} /\ (e.mixed => e.ours = 0)
  BY <1>1, AppendedEvent DEF OnceEach
<1>3. "object" \in Kinds BY DEF Kinds
<1>4. /\ g \in SettingsFile /\ g.kind = "object" /\ g.rest = f.rest
      /\ g.stop = Appended(f.stop) /\ g.post = Appended(f.post)
  BY <1>2, <1>3, Zenon DEF MergedSettings, SettingsFile
<1> HIDE DEF g
<1>5. OnceEach(g) /\ Installed(g) BY <1>2, <1>4 DEF OnceEach, Installed
<1> QED BY <1>2, <1>4, <1>5 DEF g

LEMMA SettingsLose ==
  ASSUME NEW f \in SettingsFile
  PROVE  LET g == SettingsWithout(f)
         IN  /\ g \in SettingsFile /\ g.kind \in {f.kind, "absent"}
             /\ f.rest => g.kind = f.kind /\ g.rest
             /\ f.stop.user => g.stop.user
             /\ OnceEach(g) /\ ~HasOurs(g.stop) /\ ~HasOurs(g.post)
<1> DEFINE w == [f EXCEPT !.stop = Removed(@), !.post = Removed(@)]
<1>1. f.stop \in Event /\ f.post \in Event BY DEF SettingsFile
<1>2. /\ Removed(f.stop) \in Event /\ Removed(f.post) \in Event /\ Removed(f.stop).user = f.stop.user
      /\ \A e \in {Removed(f.stop), Removed(f.post)} : ~HasOurs(e) /\ e.ours = 0 /\ ~e.mixed
  BY <1>1, RemovedEvent
<1>3. /\ w \in SettingsFile /\ w.kind = f.kind /\ w.rest = f.rest
      /\ w.stop = Removed(f.stop) /\ w.post = Removed(f.post)
  BY <1>2, Zenon DEF SettingsFile
<1>4. SettingsWithout(f) = IF w.rest \/ w.stop # NoHooks \/ w.post # NoHooks THEN w ELSE NoSettings
  BY DEF SettingsWithout
<1> HIDE DEF w
<1>5. OnceEach(w) /\ ~HasOurs(w.stop) /\ ~HasOurs(w.post) BY <1>2, <1>3 DEF OnceEach
<1>6. CASE w.rest \/ w.stop # NoHooks \/ w.post # NoHooks
  <2>1. SettingsWithout(f) = w BY <1>4, <1>6
  <2> QED BY <1>2, <1>3, <1>5, <2>1
<1>7. CASE ~(w.rest \/ w.stop # NoHooks \/ w.post # NoHooks)
  <2>1. SettingsWithout(f) = NoSettings BY <1>4, <1>7
  <2>2. NoSettings.kind = "absent" /\ NoSettings.stop = NoHooks /\ NoSettings.post = NoHooks
    BY Zenon DEF NoSettings
  <2>3. NoHooks.ours = 0 /\ NoHooks.mixed = FALSE /\ NoHooks.user = FALSE BY Zenon DEF NoHooks
  <2>4. ~f.stop.user /\ ~f.rest BY <1>2, <1>3, <1>7, <2>3
  <2>5. OnceEach(NoSettings) /\ ~HasOurs(NoSettings.stop) /\ ~HasOurs(NoSettings.post)
    BY <2>2, <2>3 DEF OnceEach, HasOurs
  <2> QED BY <2>1, <2>2, <2>4, <2>5, NoneTyped
<1> QED BY <1>6, <1>7

LEMMA InitedTyped ==
  ASSUME NEW f \in SettingsFile, f.stop.v2 = 0, f.post.v2 = 0
  PROVE  /\ InitedSettings(f) \in SettingsFile
         /\ InitedSettings(f).stop.v2 = 1 /\ InitedSettings(f).post.v2 = 1
<1>1. f.stop \in Event /\ f.post \in Event /\ "object" \in Kinds BY DEF SettingsFile, Kinds
<1>2. /\ WithV2Hook(f.stop) \in Event /\ WithV2Hook(f.stop).v2 = 1
      /\ WithV2Hook(f.post) \in Event /\ WithV2Hook(f.post).v2 = 1
  BY <1>1, V2Event
<1>3. /\ InitedSettings(f) \in SettingsFile
      /\ InitedSettings(f).stop = WithV2Hook(f.stop) /\ InitedSettings(f).post = WithV2Hook(f.post)
  BY <1>1, <1>2, Zenon DEF InitedSettings, SettingsFile
<1> QED BY <1>2, <1>3
-----------------------------------------------------------------------------
(* The command goes on, under its name.                                    *)

CommandPlaces == InstallAt \cup UninstallAt \cup InitAt \cup AtRest \cup {"setup"}

LEMMA GotoView ==
  ASSUME CommandNamed, NEW at \in CommandPlaces, Goto(at)
  PROVE  cmd' = [name |-> cmd.name, at |-> at] /\ cmd'.name = cmd.name /\ cmd'.at = at
BY DEF CommandNamed, CommandPlaces, Goto

(* Where the files and what the user gave are unchanged, so is the rest.   *)
LEMMA FilesRest ==
  ASSUME InstallInv, UNCHANGED <<mcp, settings, skills, given, tornWrite>>
  PROVE  WholeFiles' /\ UsersFilesKept'
BY DEF InstallInv, WholeFiles, UsersFilesKept

LEMMA InstallMcpKeeps == ASSUME InstallInv, InstallMcp PROVE InstallInv'
<1> USE DEF InstallInv
<1>1. cmd.at = "install-mcp" /\ cmd.name = "install" /\ UNCHANGED <<settings, skills, project, warned, given, commands, breaks, tornWrite>>
  BY DEF InstallMcp, CommandAt, Keep, CommandNamed, InstallAt, UninstallAt
<1>2. CASE McpRefused(mcp)
  <2>1. UNCHANGED mcp /\ cmd' = [name |-> cmd.name, at |-> "refused"] /\ cmd'.name = cmd.name /\ cmd'.at = "refused"
    BY <1>2, GotoView DEF InstallMcp, CommandPlaces, AtRest
  <2>2. WholeFiles' /\ UsersFilesKept' BY <1>1, <2>1, FilesRest DEF InstallMcp
  <2>3. InstallTyped' BY <1>1, <2>1 DEF InstallTyped
  <2>4. CommandNamed' BY <1>1, <2>1 DEF CommandNamed, UninstallAt, InitAt, AtRest
  <2>5. HooksAreOnce' BY <1>1, <2>1 DEF HooksAreOnce, InitAt
  <2>6. DoneSoFar' BY <2>1 DEF DoneSoFar, Finished
  <2>7. RefusalsAreTheUsers' BY <1>1, <1>2 DEF RefusalsAreTheUsers, WholeFiles, McpRefused
  <2>8. DoubleHooksWarned' BY <2>1 DEF DoubleHooksWarned, Finished
  <2> QED BY <2>2, <2>3, <2>4, <2>5, <2>6, <2>7, <2>8 DEF InstallInv
<1>3. CASE ~(McpRefused(mcp))
  <2>1. mcp' = MergedMcp(mcp) /\ cmd' = [name |-> cmd.name, at |-> "install-settings"] /\ cmd'.name = cmd.name /\ cmd'.at = "install-settings"
    BY <1>3, GotoView DEF InstallMcp, CommandPlaces, InstallAt
  <2>2. /\ mcp' \in McpFile /\ mcp'.kind = "object" /\ mcp'.server = "ours" /\ mcp'.rest = mcp.rest
    BY <2>1, McpMerges DEF InstallTyped
  <2>3. InstallTyped' BY <1>1, <2>2 DEF InstallTyped
  <2>4. CommandNamed' BY <1>1, <2>1 DEF CommandNamed, InstallAt, UninstallAt, InitAt
  <2>5. HooksAreOnce' BY <1>1, <2>1 DEF HooksAreOnce, InitAt
  <2>6. DoneSoFar' BY <2>1, <2>2 DEF DoneSoFar, Finished
  <2>7. WholeFiles' BY <1>1, <2>2 DEF WholeFiles
  <2>8. UsersFilesKept' BY <1>1, <2>2 DEF UsersFilesKept
  <2>9. RefusalsAreTheUsers' BY <2>1 DEF RefusalsAreTheUsers
  <2>10. DoubleHooksWarned' BY <2>1 DEF DoubleHooksWarned, Finished
  <2> QED BY <2>3, <2>4, <2>5, <2>6, <2>7, <2>8, <2>9, <2>10 DEF InstallInv
<1> QED BY <1>2, <1>3

LEMMA InstallSettingsKeeps == ASSUME InstallInv, InstallSettings PROVE InstallInv'
<1> USE DEF InstallInv
<1>1. cmd.at = "install-settings" /\ cmd.name = "install" /\ UNCHANGED <<mcp, skills, project, warned, given, commands, breaks, tornWrite>>
  BY DEF InstallSettings, CommandAt, Keep, CommandNamed, InstallAt, UninstallAt
<1>2. CASE settings.kind = "garbage"
  <2>1. UNCHANGED settings /\ cmd' = [name |-> cmd.name, at |-> "refused"] /\ cmd'.name = cmd.name /\ cmd'.at = "refused"
    BY <1>2, GotoView DEF InstallSettings, CommandPlaces, AtRest
  <2>2. WholeFiles' /\ UsersFilesKept' BY <1>1, <2>1, FilesRest DEF InstallSettings
  <2>3. InstallTyped' BY <1>1, <2>1 DEF InstallTyped
  <2>4. CommandNamed' BY <1>1, <2>1 DEF CommandNamed, UninstallAt, InitAt, AtRest
  <2>5. HooksAreOnce' BY <1>1, <2>1 DEF HooksAreOnce, InitAt
  <2>6. DoneSoFar' BY <2>1 DEF DoneSoFar, Finished
  <2>7. RefusalsAreTheUsers' BY <1>1, <1>2 DEF RefusalsAreTheUsers, WholeFiles
  <2>8. DoubleHooksWarned' BY <2>1 DEF DoubleHooksWarned, Finished
  <2> QED BY <2>2, <2>3, <2>4, <2>5, <2>6, <2>7, <2>8 DEF InstallInv
<1>3. CASE ~(settings.kind = "garbage")
  <2>1. settings' = MergedSettings(settings) /\ cmd' = [name |-> cmd.name, at |-> "install-skill"] /\ cmd'.name = cmd.name /\ cmd'.at = "install-skill"
    BY <1>3, GotoView DEF InstallSettings, CommandPlaces, InstallAt
  <2>2. /\ settings' \in SettingsFile /\ settings'.kind = "object" /\ settings'.rest = settings.rest
        /\ settings'.stop.user = settings.stop.user /\ OnceEach(settings') /\ Installed(settings')
    BY <2>1, SettingsMerge DEF InstallTyped, HooksAreOnce
  <2>3. InstallTyped' BY <1>1, <2>2 DEF InstallTyped
  <2>4. CommandNamed' BY <1>1, <2>1 DEF CommandNamed, InstallAt, UninstallAt, InitAt
  <2>5. HooksAreOnce' BY <1>1, <2>1, <2>2 DEF HooksAreOnce, InitAt
  <2>6. DoneSoFar' BY <1>1, <2>1, <2>2 DEF DoneSoFar, Finished
  <2>7. WholeFiles' BY <1>1, <2>2 DEF WholeFiles
  <2>8. UsersFilesKept' BY <1>1, <2>2 DEF UsersFilesKept
  <2>9. RefusalsAreTheUsers' BY <2>1 DEF RefusalsAreTheUsers
  <2>10. DoubleHooksWarned' BY <2>1 DEF DoubleHooksWarned, Finished
  <2> QED BY <2>3, <2>4, <2>5, <2>6, <2>7, <2>8, <2>9, <2>10 DEF InstallInv
<1> QED BY <1>2, <1>3

LEMMA UninstallMcpKeeps == ASSUME InstallInv, UninstallMcp PROVE InstallInv'
<1> USE DEF InstallInv
<1>1. cmd.at = "uninstall-mcp" /\ cmd.name = "uninstall" /\ UNCHANGED <<settings, skills, project, warned, given, commands, breaks, tornWrite>>
  BY DEF UninstallMcp, CommandAt, Keep, CommandNamed, InstallAt, UninstallAt
<1>2. CASE mcp.kind = "garbage"
  <2>1. UNCHANGED mcp /\ cmd' = [name |-> cmd.name, at |-> "refused"] /\ cmd'.name = cmd.name /\ cmd'.at = "refused"
    BY <1>2, GotoView DEF UninstallMcp, CommandPlaces, AtRest
  <2>2. WholeFiles' /\ UsersFilesKept' BY <1>1, <2>1, FilesRest DEF UninstallMcp
  <2>3. InstallTyped' BY <1>1, <2>1 DEF InstallTyped
  <2>4. CommandNamed' BY <1>1, <2>1 DEF CommandNamed, InstallAt, InitAt, AtRest
  <2>5. HooksAreOnce' BY <1>1, <2>1 DEF HooksAreOnce, InitAt
  <2>6. DoneSoFar' BY <2>1 DEF DoneSoFar, Finished
  <2>7. RefusalsAreTheUsers' BY <1>1, <2>1 DEF RefusalsAreTheUsers
  <2>8. DoubleHooksWarned' BY <2>1 DEF DoubleHooksWarned, Finished
  <2> QED BY <2>2, <2>3, <2>4, <2>5, <2>6, <2>7, <2>8 DEF InstallInv
<1>3. CASE ~(mcp.kind = "garbage")
  <2>1. mcp' = McpWithout(mcp) /\ cmd' = [name |-> cmd.name, at |-> "uninstall-settings"] /\ cmd'.name = cmd.name /\ cmd'.at = "uninstall-settings"
    BY <1>3, GotoView DEF UninstallMcp, CommandPlaces, UninstallAt
  <2>2. /\ mcp' \in McpFile /\ mcp'.server = "none" /\ mcp'.kind \in {mcp.kind, "absent"}
        /\ mcp.rest => mcp'.kind = mcp.kind /\ mcp'.rest
    BY <2>1, McpMerges DEF InstallTyped
  <2>3. InstallTyped' BY <1>1, <2>2 DEF InstallTyped
  <2>4. CommandNamed' BY <1>1, <2>1 DEF CommandNamed, InstallAt, UninstallAt, InitAt
  <2>5. HooksAreOnce' BY <1>1, <2>1 DEF HooksAreOnce, InitAt
  <2>6. DoneSoFar' BY <2>1, <2>2 DEF DoneSoFar, Finished
  <2>7. WholeFiles' BY <1>1, <2>2 DEF WholeFiles
  <2>8. UsersFilesKept' BY <1>1, <2>2 DEF UsersFilesKept
  <2>9. RefusalsAreTheUsers' BY <2>1 DEF RefusalsAreTheUsers
  <2>10. DoubleHooksWarned' BY <2>1 DEF DoubleHooksWarned, Finished
  <2> QED BY <2>3, <2>4, <2>5, <2>6, <2>7, <2>8, <2>9, <2>10 DEF InstallInv
<1> QED BY <1>2, <1>3

LEMMA UninstallSettingsKeeps == ASSUME InstallInv, UninstallSettings PROVE InstallInv'
<1> USE DEF InstallInv
<1>1. cmd.at = "uninstall-settings" /\ cmd.name = "uninstall" /\ UNCHANGED <<mcp, skills, project, warned, given, commands, breaks, tornWrite>>
  BY DEF UninstallSettings, CommandAt, Keep, CommandNamed, InstallAt, UninstallAt
<1>2. CASE settings.kind = "garbage"
  <2>1. UNCHANGED settings /\ cmd' = [name |-> cmd.name, at |-> "refused"] /\ cmd'.name = cmd.name /\ cmd'.at = "refused"
    BY <1>2, GotoView DEF UninstallSettings, CommandPlaces, AtRest
  <2>2. WholeFiles' /\ UsersFilesKept' BY <1>1, <2>1, FilesRest DEF UninstallSettings
  <2>3. InstallTyped' BY <1>1, <2>1 DEF InstallTyped
  <2>4. CommandNamed' BY <1>1, <2>1 DEF CommandNamed, InstallAt, InitAt, AtRest
  <2>5. HooksAreOnce' BY <1>1, <2>1 DEF HooksAreOnce, InitAt
  <2>6. DoneSoFar' BY <2>1 DEF DoneSoFar, Finished
  <2>7. RefusalsAreTheUsers' BY <1>1, <2>1 DEF RefusalsAreTheUsers
  <2>8. DoubleHooksWarned' BY <2>1 DEF DoubleHooksWarned, Finished
  <2> QED BY <2>2, <2>3, <2>4, <2>5, <2>6, <2>7, <2>8 DEF InstallInv
<1>3. CASE ~(settings.kind = "garbage")
  <2>1. settings' = SettingsWithout(settings) /\ cmd' = [name |-> cmd.name, at |-> "uninstall-skill"] /\ cmd'.name = cmd.name /\ cmd'.at = "uninstall-skill"
    BY <1>3, GotoView DEF UninstallSettings, CommandPlaces, UninstallAt
  <2>2. /\ settings' \in SettingsFile /\ settings'.kind \in {settings.kind, "absent"}
        /\ settings.rest => settings'.kind = settings.kind /\ settings'.rest
        /\ settings.stop.user => settings'.stop.user
        /\ OnceEach(settings') /\ ~HasOurs(settings'.stop) /\ ~HasOurs(settings'.post)
    BY <2>1, SettingsLose DEF InstallTyped
  <2>3. InstallTyped' BY <1>1, <2>2 DEF InstallTyped
  <2>4. CommandNamed' BY <1>1, <2>1 DEF CommandNamed, InstallAt, UninstallAt, InitAt
  <2>5. HooksAreOnce' BY <1>1, <2>1, <2>2 DEF HooksAreOnce, InitAt
  <2>6. DoneSoFar' BY <1>1, <2>1, <2>2 DEF DoneSoFar, Finished
  <2>7. WholeFiles' BY <1>1, <2>2 DEF WholeFiles
  <2>8. UsersFilesKept' BY <1>1, <2>2 DEF UsersFilesKept
  <2>9. RefusalsAreTheUsers' BY <2>1 DEF RefusalsAreTheUsers
  <2>10. DoubleHooksWarned' BY <2>1 DEF DoubleHooksWarned, Finished
  <2> QED BY <2>3, <2>4, <2>5, <2>6, <2>7, <2>8, <2>9, <2>10 DEF InstallInv
<1> QED BY <1>2, <1>3

LEMMA InstallSkillKeeps == ASSUME InstallInv, InstallSkill PROVE InstallInv'
<1> USE DEF InstallInv
<1>1. cmd.at = "install-skill" /\ cmd.name = "install" /\ UNCHANGED <<mcp, settings, project, given, commands, breaks, tornWrite>>
  BY DEF InstallSkill, CommandAt, Keep, CommandNamed, InstallAt
<1>2. CASE \E f \in SkillFiles : skills[f] = "edited"
  <2>1. /\ cmd' = [name |-> cmd.name, at |-> "refused"] /\ cmd'.name = cmd.name /\ cmd'.at = "refused"
        /\ UNCHANGED warned
    BY <1>2, GotoView DEF InstallSkill, CommandPlaces, AtRest
  <2>2. PICK done \in SUBSET {f \in SkillFiles : skills[f] = "absent"} :
          skills' = [f \in SkillFiles |-> IF f \in done THEN "ours" ELSE skills[f]]
    BY <1>2 DEF InstallSkill
  <2>3. /\ skills' \in [SkillFiles -> SkillStates]
        /\ \A f \in SkillFiles : skills'[f] = "edited" <=> skills[f] = "edited"
    BY <2>2 DEF InstallTyped, SkillStates
  <2>4. InstallTyped' BY <1>1, <2>3 DEF InstallTyped
  <2>5. CommandNamed' BY <1>1, <2>1 DEF CommandNamed, UninstallAt, InitAt, AtRest
  <2>6. HooksAreOnce' BY <1>1, <2>1 DEF HooksAreOnce, InitAt
  <2>7. DoneSoFar' BY <2>1 DEF DoneSoFar, Finished
  <2>8. WholeFiles' BY <1>1, <2>3 DEF WholeFiles
  <2>9. UsersFilesKept' BY <1>1, <2>3 DEF UsersFilesKept
  <2>10. RefusalsAreTheUsers' BY <1>1, <1>2 DEF RefusalsAreTheUsers, WholeFiles
  <2>11. DoubleHooksWarned' BY <2>1 DEF DoubleHooksWarned, Finished
  <2> QED BY <2>4, <2>5, <2>6, <2>7, <2>8, <2>9, <2>10, <2>11 DEF InstallInv
<1>3. CASE \A f \in SkillFiles : skills[f] # "edited"
  <2>1. /\ cmd' = [name |-> cmd.name, at |-> "done"] /\ cmd'.name = cmd.name /\ cmd'.at = "done"
        /\ warned' = LegacyV2Hooks
    BY <1>3, GotoView DEF InstallSkill, CommandPlaces, AtRest
  <2>2. skills' = [f \in SkillFiles |-> "ours"] /\ skills' \in [SkillFiles -> SkillStates]
    BY <1>3 DEF InstallSkill, SkillStates
  <2>3. InstallTyped' BY <1>1, <2>2 DEF InstallTyped
  <2>4. CommandNamed' BY <1>1, <2>1 DEF CommandNamed, UninstallAt, InitAt, AtRest
  <2>5. HooksAreOnce' BY <1>1, <2>1 DEF HooksAreOnce, InitAt
  <2>6. DoneSoFar' BY <1>1, <2>1, <2>2 DEF DoneSoFar, Finished
  <2>7. WholeFiles' BY <1>1, <2>2 DEF WholeFiles
  <2>8. UsersFilesKept' BY <1>1, <1>3 DEF UsersFilesKept
  <2>9. RefusalsAreTheUsers' BY <2>1 DEF RefusalsAreTheUsers
  <2>10. DoubleHooksWarned' BY <1>1, <2>1 DEF DoubleHooksWarned, LegacyV2Hooks
  <2> QED BY <2>3, <2>4, <2>5, <2>6, <2>7, <2>8, <2>9, <2>10 DEF InstallInv
<1> QED BY <1>2, <1>3

LEMMA UninstallSkillKeeps == ASSUME InstallInv, UninstallSkill PROVE InstallInv'
<1> USE DEF InstallInv
<1>1. cmd.at = "uninstall-skill" /\ cmd'.name = cmd.name /\ cmd'.at = "done" /\ cmd' = [name |-> cmd.name, at |-> "done"]
  BY GotoView DEF UninstallSkill, CommandAt, CommandPlaces, AtRest
<1>2. /\ skills' \in [SkillFiles -> SkillStates] /\ UNCHANGED <<mcp, settings, project, warned, given, commands, breaks, tornWrite>>
      /\ \A f \in SkillFiles : skills'[f] # "ours" /\ (skills'[f] = "edited" <=> skills[f] = "edited")
  BY DEF UninstallSkill, Keep, InstallTyped, SkillStates
<1>3. cmd.name = "uninstall" BY <1>1 DEF CommandNamed, UninstallAt
<1>4. InstallTyped' BY <1>2 DEF InstallTyped
<1>5. CommandNamed' BY <1>1 DEF CommandNamed, InstallAt, InitAt, AtRest
<1>6. HooksAreOnce' BY <1>1, <1>2 DEF HooksAreOnce, InitAt
<1>7. DoneSoFar' BY <1>1, <1>2, <1>3 DEF DoneSoFar, Finished
<1>8. WholeFiles' BY <1>2 DEF WholeFiles
<1>9. UsersFilesKept' BY <1>2 DEF UsersFilesKept
<1>10. RefusalsAreTheUsers' BY <1>1 DEF RefusalsAreTheUsers
<1>11. DoubleHooksWarned' BY <1>1, <1>3 DEF DoubleHooksWarned, Finished
<1> QED BY <1>4, <1>5, <1>6, <1>7, <1>8, <1>9, <1>10, <1>11 DEF InstallInv

LEMMA InitCheckKeeps == ASSUME InstallInv, InitCheck PROVE InstallInv'
<1> USE DEF InstallInv
<1>1. cmd.at = "init-check" /\ UNCHANGED <<mcp, settings, skills, project, warned, given, commands, breaks, tornWrite>>
  BY DEF InitCheck, CommandAt, Keep
<1> DEFINE at == IF InitRefused THEN "refused" ELSE "init-scripts"
<1>2. at \in {"refused", "init-scripts"} OBVIOUS
<1>3. cmd' = [name |-> cmd.name, at |-> at] /\ cmd'.name = cmd.name /\ cmd'.at = at
  <2>1. at \in CommandPlaces BY DEF CommandPlaces, InitAt, AtRest
  <2>2. Goto(at) BY DEF InitCheck
  <2> HIDE DEF at
  <2> QED BY <2>1, <2>2, GotoView
<1>4. at = "init-scripts" => project.settings.stop.v2 = 0 /\ project.settings.post.v2 = 0
  BY DEF InitRefused, InstallTyped, Project, SettingsFile, Event, HooksAreOnce
<1>5. cmd.name = "init" BY <1>1 DEF CommandNamed, InitAt
<1> HIDE DEF at
<1>6. WholeFiles' /\ UsersFilesKept' BY <1>1, FilesRest DEF InitCheck
<1>7. InstallTyped' BY <1>1 DEF InstallTyped
<1>8. CommandNamed' BY <1>2, <1>3, <1>5 DEF CommandNamed, InstallAt, UninstallAt, InitAt, AtRest
<1>9. HooksAreOnce' BY <1>1, <1>2, <1>3, <1>4 DEF HooksAreOnce, InitAt
<1>10. DoneSoFar' BY <1>3, <1>5 DEF DoneSoFar, Finished
<1>11. RefusalsAreTheUsers' BY <1>3, <1>5 DEF RefusalsAreTheUsers
<1>12. DoubleHooksWarned' BY <1>3, <1>5 DEF DoubleHooksWarned, Finished
<1> QED BY <1>6, <1>7, <1>8, <1>9, <1>10, <1>11, <1>12 DEF InstallInv

LEMMA InitScriptsKeeps == ASSUME InstallInv, InitScripts PROVE InstallInv'
<1> USE DEF InstallInv
<1>1. cmd.at = "init-scripts" /\ cmd'.name = cmd.name /\ cmd'.at = "init-mcp" /\ cmd' = [name |-> cmd.name, at |-> "init-mcp"]
  BY GotoView DEF InitScripts, CommandAt, CommandPlaces, InitAt
<1>2. UNCHANGED <<mcp, settings, skills, warned, given, commands, breaks, tornWrite>> /\ cmd.name = "init"
  BY <1>1 DEF InitScripts, Keep, CommandNamed, InitAt
<1>3. project.mcp \in McpFile /\ project.settings \in SettingsFile BY DEF InstallTyped, Project
<1>4. TRUE \in BOOLEAN BY <1>3, McpMerges
<1>5. project' \in Project /\ project'.settings = project.settings
  BY DEF InitScripts, InstallTyped, Project
<1>6. WholeFiles' /\ UsersFilesKept' BY <1>2, FilesRest DEF InitScripts
<1>7. InstallTyped' BY <1>2, <1>5 DEF InstallTyped
<1>8. CommandNamed' BY <1>1 DEF CommandNamed, InstallAt, UninstallAt, InitAt
<1>9. HooksAreOnce' BY <1>1, <1>2, <1>5 DEF HooksAreOnce, InitAt
<1>10. DoneSoFar' BY <1>1 DEF DoneSoFar, Finished
<1>11. RefusalsAreTheUsers' BY <1>1 DEF RefusalsAreTheUsers
<1>12. DoubleHooksWarned' BY <1>1 DEF DoubleHooksWarned, Finished
<1> QED BY <1>6, <1>7, <1>8, <1>9, <1>10, <1>11, <1>12 DEF InstallInv

LEMMA InitMcpKeeps == ASSUME InstallInv, InitMcp PROVE InstallInv'
<1> USE DEF InstallInv
<1>1. cmd.at = "init-mcp" /\ cmd'.name = cmd.name /\ cmd'.at = "init-settings" /\ cmd' = [name |-> cmd.name, at |-> "init-settings"]
  BY GotoView DEF InitMcp, CommandAt, CommandPlaces, InitAt
<1>2. UNCHANGED <<mcp, settings, skills, warned, given, commands, breaks, tornWrite>> /\ cmd.name = "init"
  BY <1>1 DEF InitMcp, Keep, CommandNamed, InitAt
<1>3. project.mcp \in McpFile /\ project.settings \in SettingsFile BY DEF InstallTyped, Project
<1>4. MergedMcp(project.mcp) \in McpFile BY <1>3, McpMerges
<1>5. project' \in Project /\ project'.settings = project.settings
  BY <1>4 DEF InitMcp, InstallTyped, Project
<1>6. WholeFiles' /\ UsersFilesKept' BY <1>2, FilesRest DEF InitMcp
<1>7. InstallTyped' BY <1>2, <1>5 DEF InstallTyped
<1>8. CommandNamed' BY <1>1 DEF CommandNamed, InstallAt, UninstallAt, InitAt
<1>9. HooksAreOnce' BY <1>1, <1>2, <1>5 DEF HooksAreOnce, InitAt
<1>10. DoneSoFar' BY <1>1 DEF DoneSoFar, Finished
<1>11. RefusalsAreTheUsers' BY <1>1 DEF RefusalsAreTheUsers
<1>12. DoubleHooksWarned' BY <1>1 DEF DoubleHooksWarned, Finished
<1> QED BY <1>6, <1>7, <1>8, <1>9, <1>10, <1>11, <1>12 DEF InstallInv

LEMMA InitSettingsKeeps == ASSUME InstallInv, InitSettings PROVE InstallInv'
<1> USE DEF InstallInv
<1>1. cmd.at = "init-settings" /\ cmd'.name = cmd.name /\ cmd'.at = "done" /\ cmd' = [name |-> cmd.name, at |-> "done"]
  BY GotoView DEF InitSettings, CommandAt, CommandPlaces, AtRest
<1>2. UNCHANGED <<mcp, settings, skills, warned, given, commands, breaks, tornWrite>> /\ cmd.name = "init"
  BY <1>1 DEF InitSettings, Keep, CommandNamed, InitAt
<1>3. project.mcp \in McpFile /\ project.settings \in SettingsFile BY DEF InstallTyped, Project
<1>4. /\ InitedSettings(project.settings) \in SettingsFile
      /\ InitedSettings(project.settings).stop.v2 = 1 /\ InitedSettings(project.settings).post.v2 = 1
  BY <1>1, <1>3, InitedTyped DEF HooksAreOnce, InitAt
<1>5. project' \in Project /\ project'.settings = InitedSettings(project.settings)
  BY <1>4 DEF InitSettings, InstallTyped, Project
<1>6. WholeFiles' /\ UsersFilesKept' BY <1>2, FilesRest DEF InitSettings
<1>7. InstallTyped' BY <1>2, <1>5 DEF InstallTyped
<1>8. CommandNamed' BY <1>1 DEF CommandNamed, InstallAt, UninstallAt, AtRest
<1>9. HooksAreOnce' BY <1>1, <1>2, <1>4, <1>5 DEF HooksAreOnce, InitAt
<1>10. DoneSoFar' BY <1>1, <1>2 DEF DoneSoFar, Finished
<1>11. RefusalsAreTheUsers' BY <1>1 DEF RefusalsAreTheUsers
<1>12. DoubleHooksWarned' BY <1>1, <1>2 DEF DoubleHooksWarned, Finished
<1> QED BY <1>6, <1>7, <1>8, <1>9, <1>10, <1>11, <1>12 DEF InstallInv

LEMMA InterruptKeeps == ASSUME InstallInv, Interrupt PROVE InstallInv'
<1> USE DEF InstallInv
<1>1. cmd' = [name |-> cmd.name, at |-> "idle"] /\ cmd'.name = cmd.name /\ cmd'.at = "idle"
  BY GotoView DEF Interrupt, CommandPlaces, AtRest
<1>2. UNCHANGED <<mcp, settings, skills, project, given, warned, commands, tornWrite>> /\ breaks' \in 0..MaxBreaks
  BY InstallConstants DEF Interrupt, InstallTyped
<1>3. WholeFiles' /\ UsersFilesKept' BY FilesRest DEF Interrupt
<1>4. InstallTyped' BY <1>2 DEF InstallTyped
<1>5. CommandNamed' BY <1>1 DEF CommandNamed, InstallAt, UninstallAt, InitAt, AtRest
<1>6. HooksAreOnce' BY <1>1, <1>2 DEF HooksAreOnce, InitAt
<1>7. DoneSoFar' BY <1>1 DEF DoneSoFar, Finished
<1>8. RefusalsAreTheUsers' BY <1>1 DEF RefusalsAreTheUsers
<1>9. DoubleHooksWarned' BY <1>1 DEF DoubleHooksWarned, Finished
<1> QED BY <1>3, <1>4, <1>5, <1>6, <1>7, <1>8, <1>9 DEF InstallInv

LEMMA TearWriteKeeps == ASSUME InstallInv, TearWrite PROVE InstallInv'
<1> USE DEF InstallInv
<1>1. cmd' = [name |-> cmd.name, at |-> "idle"] /\ cmd'.name = cmd.name /\ cmd'.at = "idle"
  BY GotoView DEF TearWrite, CommandPlaces, AtRest
<1>2. UNCHANGED <<project, given, warned, commands>> /\ breaks' \in 0..MaxBreaks /\ tornWrite'
  BY InstallConstants DEF TearWrite, InstallTyped
<1>3. "garbage" \in Kinds /\ "edited" \in SkillStates BY DEF Kinds, SkillStates
<1>4. mcp' \in McpFile /\ settings' \in SettingsFile /\ skills' \in [SkillFiles -> SkillStates] /\ OnceEach(settings')
  <2>1. [mcp EXCEPT !.kind = "garbage"] \in McpFile BY <1>3 DEF InstallTyped, McpFile
  <2>2. [settings EXCEPT !.kind = "garbage"] \in SettingsFile BY <1>3 DEF InstallTyped, SettingsFile
  <2>3. /\ [settings EXCEPT !.kind = "garbage"].stop = settings.stop
        /\ [settings EXCEPT !.kind = "garbage"].post = settings.post
    BY DEF InstallTyped, SettingsFile
  <2>4. OnceEach([settings EXCEPT !.kind = "garbage"]) BY DEF OnceEach, HooksAreOnce
  <2>5. \A f \in SkillFiles : [skills EXCEPT ![f] = "edited"] \in [SkillFiles -> SkillStates]
    BY <1>3 DEF InstallTyped
  <2>6. \/ mcp' = [mcp EXCEPT !.kind = "garbage"] /\ UNCHANGED <<settings, skills>>
        \/ settings' = [settings EXCEPT !.kind = "garbage"] /\ UNCHANGED <<mcp, skills>>
        \/ UNCHANGED <<mcp, settings>> /\ \E f \in SkillFiles : skills' = [skills EXCEPT ![f] = "edited"]
    BY DEF TearWrite
  <2>7. OnceEach(settings) BY DEF HooksAreOnce
  <2> QED BY <2>1, <2>2, <2>4, <2>5, <2>6, <2>7 DEF InstallTyped
<1>5. InstallTyped' BY <1>2, <1>4 DEF InstallTyped
<1>6. CommandNamed' BY <1>1 DEF CommandNamed, InstallAt, UninstallAt, InitAt, AtRest
<1>7. HooksAreOnce' BY <1>1, <1>2, <1>4 DEF HooksAreOnce, InitAt
<1>8. DoneSoFar' BY <1>1 DEF DoneSoFar, Finished
<1>9. WholeFiles' BY <1>2 DEF WholeFiles
<1>10. UsersFilesKept' BY <1>2 DEF UsersFilesKept
<1>11. RefusalsAreTheUsers' BY <1>2 DEF RefusalsAreTheUsers
<1>12. DoubleHooksWarned' BY <1>1 DEF DoubleHooksWarned, Finished
<1> QED BY <1>5, <1>6, <1>7, <1>8, <1>9, <1>10, <1>11, <1>12 DEF InstallInv

LEMMA StartKeeps ==
  ASSUME InstallInv, NEW name \in {"install", "uninstall", "init"},
         NEW at \in {"install-mcp", "uninstall-mcp", "init-check"},
         <<name, at>> \in {<<"install", "install-mcp">>, <<"uninstall", "uninstall-mcp">>, <<"init", "init-check">>},
         StartCommand(name, at)
  PROVE  InstallInv'
<1> USE DEF InstallInv
<1>1. /\ cmd' = [name |-> name, at |-> at] /\ cmd'.name = name /\ cmd'.at = at
      /\ UNCHANGED <<mcp, settings, skills, project, given, warned, breaks, tornWrite>>
      /\ commands' \in 0..MaxCommands
  BY InstallConstants DEF StartCommand, InstallTyped
<1>2. WholeFiles' /\ UsersFilesKept' BY FilesRest DEF StartCommand
<1>3. InstallTyped' BY <1>1 DEF InstallTyped
<1>4. CommandNamed' BY <1>1 DEF CommandNamed, InstallAt, UninstallAt, InitAt
<1>5. HooksAreOnce' BY <1>1 DEF HooksAreOnce, InitAt
<1>6. DoneSoFar' BY <1>1 DEF DoneSoFar, Finished
<1>7. RefusalsAreTheUsers' BY <1>1 DEF RefusalsAreTheUsers
<1>8. DoubleHooksWarned' BY <1>1 DEF DoubleHooksWarned, Finished
<1> QED BY <1>2, <1>3, <1>4, <1>5, <1>6, <1>7, <1>8 DEF InstallInv

LEMMA UserFilesKeep ==
  ASSUME InstallInv, NEW m \in McpFile, NEW s \in SettingsFile, NEW k \in [SkillFiles -> {"absent", "edited"}],
         NEW post \in {0, 1}, OnceEach(s), m.kind # "garbage", s.kind # "garbage",
         m.rest => m.kind = "object", s.rest => s.kind = "object", UserFiles(m, s, k, post)
  PROVE  InstallInv'
<1> USE DEF InstallInv
<1>1. /\ mcp' = m /\ settings' = s /\ skills' = k /\ given' = [mcp |-> m, settings |-> s, skills |-> k]
      /\ cmd' = [name |-> "none", at |-> "idle"] /\ cmd'.name = "none" /\ cmd'.at = "idle"
      /\ UNCHANGED <<warned, commands, breaks, tornWrite>>
  BY DEF UserFiles
<1>2. k \in [SkillFiles -> SkillStates] /\ \A f \in SkillFiles : k[f] # "ours" BY DEF SkillStates
<1>3. given' \in GivenFiles /\ given'.mcp = m /\ given'.settings = s /\ given'.skills = k
  BY <1>1, <1>2 DEF GivenFiles
<1>4. post \in 0..(MaxCommands + 1) BY InstallConstants
<1> DEFINE e == [NoHooks EXCEPT !.v2 = post]
           f == [NoSettings EXCEPT !.post = e]
<1>5. project' = [project EXCEPT !.settings = f] BY DEF UserFiles
<1>6. e \in Event /\ e.v2 = post BY <1>4, NoneTyped DEF Event
<1> HIDE DEF e
<1>7. f \in SettingsFile /\ f.stop = NoSettings.stop /\ f.post = e
  BY <1>6, NoneTyped DEF SettingsFile
<1>8. f.stop.v2 = 0 BY DEF NoSettings, NoHooks
<1> HIDE DEF f
<1>9. project' \in Project /\ project'.settings = f BY <1>5, <1>7 DEF InstallTyped, Project
<1>10. InstallTyped' BY <1>1, <1>2, <1>3, <1>9 DEF InstallTyped
<1>11. CommandNamed' BY <1>1 DEF CommandNamed, InstallAt, UninstallAt, InitAt, AtRest
<1>12. HooksAreOnce' BY <1>1, <1>6, <1>7, <1>8, <1>9 DEF HooksAreOnce, InitAt
<1>13. DoneSoFar' BY <1>1 DEF DoneSoFar, Finished
<1>14. WholeFiles' BY <1>1 DEF WholeFiles
<1>15. UsersFilesKept' BY <1>1 DEF UsersFilesKept
<1>16. RefusalsAreTheUsers' BY <1>1 DEF RefusalsAreTheUsers
<1>17. DoubleHooksWarned' BY <1>1 DEF DoubleHooksWarned, Finished
<1> QED BY <1>10, <1>11, <1>12, <1>13, <1>14, <1>15, <1>16, <1>17 DEF InstallInv

LEMMA SetupsKeep == ASSUME InstallInv, Setups PROVE InstallInv'
<1>1. PICK m \in {NoMcp, [kind |-> "object", server |-> "none", rest |-> TRUE],
                 [kind |-> "object", server |-> "other", rest |-> FALSE]},
           e \in {NoHooks, [NoHooks EXCEPT !.user = TRUE], [NoHooks EXCEPT !.mixed = TRUE]},
           k \in [SkillFiles -> {"absent", "edited"}], post \in {0, 1} :
        UserFiles(m, IF e = NoHooks THEN NoSettings
                     ELSE [NoSettings EXCEPT !.kind = "object", !.stop = e, !.rest = e.user], k, post)
  BY DEF Setups
<1> DEFINE s == IF e = NoHooks THEN NoSettings ELSE [NoSettings EXCEPT !.kind = "object", !.stop = e, !.rest = e.user]
<1>2. m \in McpFile /\ m.kind # "garbage" /\ (m.rest => m.kind = "object")
  <2>1. NoMcp.kind = "absent" /\ ~NoMcp.rest BY DEF NoMcp
  <2>4. CASE m = NoMcp BY <2>1, <2>4, NoneTyped
  <2>5. CASE m = [kind |-> "object", server |-> "none", rest |-> TRUE]
    BY <2>5, Zenon DEF McpFile, Kinds, Servers
  <2>6. CASE m = [kind |-> "object", server |-> "other", rest |-> FALSE]
    BY <2>6, Zenon DEF McpFile, Kinds, Servers
  <2> QED BY <2>4, <2>5, <2>6
<1>3. e \in Event /\ e.ours = 0
  <2>1. NoHooks \in Event BY NoneTyped
  <2>2. [NoHooks EXCEPT !.user = TRUE] \in Event /\ [NoHooks EXCEPT !.mixed = TRUE] \in Event
    BY <2>1, Zenon DEF Event
  <2>3. NoHooks.ours = 0 /\ [NoHooks EXCEPT !.user = TRUE].ours = 0 /\ [NoHooks EXCEPT !.mixed = TRUE].ours = 0
    BY DEF NoHooks
  <2> QED BY <2>1, <2>2, <2>3
<1>4. s \in SettingsFile /\ OnceEach(s) /\ s.kind # "garbage" /\ (s.rest => s.kind = "object")
  <2>1. /\ NoSettings \in SettingsFile /\ NoSettings.kind = "absent" /\ ~NoSettings.rest
        /\ NoSettings.stop.ours = 0 /\ NoSettings.post.ours = 0
    BY NoneTyped DEF NoSettings, NoHooks
  <2>2. CASE e = NoHooks BY <2>1, <2>2 DEF OnceEach
  <2>3. CASE e # NoHooks
    <3> DEFINE g == [NoSettings EXCEPT !.kind = "object", !.stop = e, !.rest = e.user]
    <3>1. "object" \in Kinds /\ e.user \in BOOLEAN BY <1>3 DEF Kinds, Event
    <3>2. g \in SettingsFile /\ g.kind = "object" /\ g.stop = e /\ g.post = NoSettings.post
      BY <1>3, <2>1, <3>1, Zenon DEF SettingsFile
    <3>3. s = g BY <2>3
    <3> HIDE DEF g, s
    <3> QED BY <1>3, <2>1, <3>2, <3>3 DEF OnceEach
  <2> QED BY <2>2, <2>3
<1>5. UserFiles(m, s, k, post) BY <1>1
<1> HIDE DEF s
<1> QED BY <1>2, <1>4, <1>5, UserFilesKeep

-----------------------------------------------------------------------------

LEMMA InstallInvInit == InstallInit => InstallInv
<1> SUFFICES ASSUME InstallInit PROVE InstallInv OBVIOUS
<1>1. cmd = [name |-> "setup", at |-> "setup"] /\ cmd.name = "setup" /\ cmd.at = "setup"
  BY DEF InstallInit
<1>2. /\ NoHooks.ours = 0 /\ NoHooks.v2 = 0
      /\ NoSettings.stop = NoHooks /\ NoSettings.post = NoHooks /\ NoSettings.kind = "absent"
      /\ NoMcp.kind = "absent" /\ NoMcp.server = "none" /\ NoProject.settings = NoSettings
  BY DEF NoHooks, NoSettings, NoMcp, NoProject
<1>3. Empty.mcp = NoMcp /\ Empty.settings = NoSettings /\ ~NoMcp.rest /\ ~NoSettings.rest /\ ~NoHooks.user
  BY DEF Empty, NoMcp, NoSettings, NoHooks
<1>4. Empty.skills = [f \in SkillFiles |-> "absent"] /\ Empty.skills \in [SkillFiles -> SkillStates]
  BY DEF Empty, SkillStates
<1>5. InstallTyped BY <1>4, NoneTyped, InstallConstants DEF InstallInit, InstallTyped
<1>6. CommandNamed BY <1>1 DEF CommandNamed, InstallAt, UninstallAt, InitAt, AtRest
<1>7. HooksAreOnce BY <1>1, <1>2 DEF InstallInit, HooksAreOnce, OnceEach, InitAt
<1>8. DoneSoFar BY <1>1 DEF DoneSoFar, Finished
<1>9. WholeFiles BY <1>2, <1>4 DEF InstallInit, WholeFiles
<1>10. UsersFilesKept BY <1>2, <1>3, <1>4 DEF InstallInit, UsersFilesKept
<1>11. RefusalsAreTheUsers /\ DoubleHooksWarned
  BY <1>1 DEF RefusalsAreTheUsers, DoubleHooksWarned, Finished
<1> QED BY <1>5, <1>6, <1>7, <1>8, <1>9, <1>10, <1>11 DEF InstallInv

LEMMA InstallInvStep == InstallInv /\ [InstallNext]_installVars => InstallInv'
<1> SUFFICES ASSUME InstallInv, [InstallNext]_installVars PROVE InstallInv' OBVIOUS
<1>1. CASE Setups BY <1>1, SetupsKeep
<1>2. CASE Commands
  <2>1. PICK c \in {<<"install", "install-mcp">>, <<"uninstall", "uninstall-mcp">>, <<"init", "init-check">>} :
          StartCommand(c[1], c[2])
    BY <1>2 DEF Commands
  <2> QED BY <2>1, StartKeeps
<1>3. CASE Steps
  BY <1>3, InstallMcpKeeps, InstallSettingsKeeps, InstallSkillKeeps, UninstallMcpKeeps, UninstallSettingsKeeps,
     UninstallSkillKeeps, InitCheckKeeps, InitScriptsKeeps, InitMcpKeeps, InitSettingsKeeps DEF Steps
<1>4. CASE Interrupt \/ TearWrite BY <1>4, InterruptKeeps, TearWriteKeeps
<1>5. CASE UNCHANGED installVars
  BY <1>5 DEF installVars, InstallInv, InstallTyped, CommandNamed, HooksAreOnce, OnceEach, DoneSoFar, Finished,
     Installed, WholeFiles, UsersFilesKept, RefusalsAreTheUsers, DoubleHooksWarned
<1> QED BY <1>1, <1>2, <1>3, <1>4, <1>5 DEF InstallNext

(* However many commands run, whole or interrupted, on whatever the user   *)
(* had and with any skill files: success is complete, refusals are for     *)
(* what the user had, and his files are kept unless a write was torn.      *)
THEOREM InstallsAreKept == InstallSpec => []InstallKeepsItsWord
<1>1. InstallInv => InstallKeepsItsWord
  <2> SUFFICES ASSUME InstallInv PROVE InstallKeepsItsWord OBVIOUS
  <2> USE DEF InstallInv
  <2>1. InstallTypeOK BY DEF InstallTyped, Project, InstallTypeOK
  <2>2. ASSUME NEW e \in Event, e.ours \in {0, 1}, e.mixed => e.ours = 0, HasOurs(e)
        PROVE  e.ours = IF e.mixed THEN 0 ELSE 1
    BY <2>2 DEF HasOurs
  <2>3. settings.stop \in Event /\ settings.post \in Event BY DEF InstallTyped, SettingsFile
  <2>4. Finished("install") => \A e \in {settings.stop, settings.post} : e.ours = IF e.mixed THEN 0 ELSE 1
    BY <2>2, <2>3 DEF DoneSoFar, Finished, Installed, HooksAreOnce, OnceEach
  <2>5. SuccessIsComplete BY <2>4 DEF SuccessIsComplete, DoneSoFar, Finished, Registered
  <2> QED BY <2>1, <2>5 DEF InstallKeepsItsWord
<1> QED BY <1>1, InstallInvInit, InstallInvStep, PTL DEF InstallSpec

-----------------------------------------------------------------------------
(* Functions that are defined by recursion, in the two modules below.      *)

(* Induction, as a fact about sets.                                        *)
LEMMA NatsFrom ==
  ASSUME NEW S, 0 \in S, \A n \in Nat : n \in S => n + 1 \in S
  PROVE  \A n \in Nat : n \in S
<1> SUFFICES ASSUME NEW k \in Nat, k \notin S PROVE FALSE
  OBVIOUS
<1> DEFINE T == {n \in Nat : n \notin S}
<1>1. T \subseteq Nat /\ T # {}
  OBVIOUS
<1>2. PICK x \in T : \A y \in T : ~ (<<y, x>> \in OpToRel(<, Nat))
  <2> HIDE DEF T
  <2> QED
    BY WFMin, NatLessThanWellFounded, <1>1, Zenon
<1>3. \A y \in T : ~ (y < x)
  BY <1>2, <1>1, Zenon DEF OpToRel
<1>4. x # 0 /\ x \in Nat /\ x \notin S
  OBVIOUS
<1>5. x - 1 \in Nat /\ x - 1 < x
  BY <1>4
<1>6. x - 1 \in S
  BY <1>3, <1>5
<1> QED
  BY <1>4, <1>5, <1>6

(* A function on 0..n whose values are each made from the one before.      *)
Recursion(f, n, V, v0, step) ==
  f \in [0..n -> V] /\ f[0] = v0 /\ \A d \in 1..n : f[d] = step[d][f[d - 1]]

LEMMA RecursionExists ==
  ASSUME NEW n \in Nat, NEW V, NEW v0 \in V, NEW step \in [1..n -> [V -> V]]
  PROVE  \E f : Recursion(f, n, V, v0, step)
<1> DEFINE Follows(f, k) == f[0] = v0 /\ \A d \in 1..k : f[d] = step[d][f[d - 1]]
           S == {k \in Nat : k <= n => \E f \in [0..k -> V] : Follows(f, k)}
<1>1. 0 \in S
  <2>1. [d \in 0..0 |-> v0] \in [0..0 -> V] /\ Follows([d \in 0..0 |-> v0], 0)
    OBVIOUS
  <2> QED
    BY <2>1
<1>2. ASSUME NEW k \in Nat, k \in S PROVE k + 1 \in S
  <2> SUFFICES ASSUME k + 1 <= n PROVE \E f \in [0..k + 1 -> V] : Follows(f, k + 1)
    OBVIOUS
  <2>1. PICK f \in [0..k -> V] : Follows(f, k)
    BY <1>2
  <2> DEFINE g == [d \in 0..k + 1 |-> IF d = k + 1 THEN step[k + 1][f[k]] ELSE f[d]]
  <2>2. step[k + 1][f[k]] \in V
    OBVIOUS
  <2>3. g \in [0..k + 1 -> V]
    BY <2>2
  <2>4. ASSUME NEW d \in 1..k + 1 PROVE g[d] = step[d][g[d - 1]]
    <3>1. CASE d = k + 1
      <4>1. g[d] = step[k + 1][f[k]] /\ g[d - 1] = f[k]
        BY <3>1
      <4> QED
        BY <3>1, <4>1
    <3>2. CASE d # k + 1
      <4>1. d \in 1..k /\ g[d] = f[d]
        BY <3>2
      <4>2. g[d - 1] = f[d - 1]
        BY <3>2
      <4> QED
        BY <2>1, <4>1, <4>2
    <3> QED
      BY <3>1, <3>2
  <2>5. g[0] = v0
    BY <2>1
  <2> QED
    BY <2>3, <2>4, <2>5
<1>3. n \in S
  <2> HIDE DEF S
  <2> QED
    BY <1>1, <1>2, NatsFrom
<1> QED
  BY <1>3 DEF Recursion

(* A function on 1..n + 1 whose values are made from one further on.       *)
Backward(f, n, V, v0, op, next) ==
  f \in [1..n + 1 -> V] /\ f[n + 1] = v0 /\ \A i \in 1..n : f[i] = op[i][f[next[i]]]

LEMMA BackwardExists ==
  ASSUME NEW n \in Nat, NEW V, NEW v0 \in V, NEW op \in [1..n -> [V -> V]], NEW next \in [1..n -> Nat],
         \A i \in 1..n : i < next[i] /\ next[i] <= n + 1
  PROVE  \E f : Backward(f, n, V, v0, op, next)
<1> DEFINE Follows(f, k) == f[n + 1] = v0 /\ \A i \in (n + 1 - k)..n : f[i] = op[i][f[next[i]]]
           S == {k \in Nat : k <= n => \E f \in [1..n + 1 -> V] : Follows(f, k)}
<1>1. 0 \in S
  <2>1. [i \in 1..n + 1 |-> v0] \in [1..n + 1 -> V] /\ Follows([i \in 1..n + 1 |-> v0], 0)
    OBVIOUS
  <2> QED
    BY <2>1
<1>2. ASSUME NEW k \in Nat, k \in S PROVE k + 1 \in S
  <2> SUFFICES ASSUME k + 1 <= n PROVE \E f \in [1..n + 1 -> V] : Follows(f, k + 1)
    OBVIOUS
  <2>1. PICK f \in [1..n + 1 -> V] : Follows(f, k)
    BY <1>2
  <2> DEFINE m == n - k
  <2>2. m \in 1..n /\ next[m] \in 1..n + 1 /\ next[m] # m /\ n + 1 - (k + 1) = m
    OBVIOUS
  <2> DEFINE v == op[m][f[next[m]]]
             g == [f EXCEPT ![m] = v]
  <2>3. v \in V
    <3>1. f[next[m]] \in V /\ op[m] \in [V -> V]
      BY <2>2
    <3> QED
      BY <3>1
  <2>4. g \in [1..n + 1 -> V] /\ g[m] = v /\ \A i \in 1..n + 1 : i # m => g[i] = f[i]
    BY <2>2, <2>3
  <2>5. ASSUME NEW i \in m..n PROVE g[i] = op[i][g[next[i]]]
    <3>1. CASE i = m
      BY <3>1, <2>2, <2>4
    <3>2. CASE i # m
      <4>1. i \in (n + 1 - k)..n /\ i \in 1..n /\ next[i] \in 1..n + 1 /\ next[i] # m
        BY <3>2, <2>2
      <4> QED
        BY <4>1, <2>1, <2>4, <3>2
    <3> QED
      BY <3>1, <3>2
  <2>6. g[n + 1] = v0
    BY <2>1, <2>2, <2>4
  <2> QED
    BY <2>2, <2>4, <2>5, <2>6
<1>3. n \in S
  <2> HIDE DEF S
  <2> QED
    BY <1>1, <1>2, NatsFrom
<1>4. PICK f \in [1..n + 1 -> V] : Follows(f, n)
  BY <1>3
<1> QED
  BY <1>4 DEF Backward

-----------------------------------------------------------------------------
(* ProcessTree. A number that was given away again is told from its first  *)
(* process by the start: a real parent is not younger than its child, and  *)
(* one that only has its number is not older.                              *)

Server == [name : ProcessNames, parent : Pids \cup {0}, real : BOOLEAN, start : Nat,
           stage : {"new", "resolved", "swept", "watch", "relay"}, cc : Pids \cup {0}, ccStart : Nat,
           gone : BOOLEAN]

Typed(t) ==
  /\ t \in [Pids -> {NoProcess} \cup Server]
  /\ \A p \in Alive(t) : t[p].start \in 0..seconds

(* A process at a parent's number was there before the child if the link   *)
(* is real, and came later if it is not.                                   *)
Ordered(t) ==
  \A p \in Alive(t) :
    IF t[p].real
    THEN t[p].parent # 0 => t[p].parent \in Alive(t) /\ t[t[p].parent].start <= t[p].start
    ELSE t[p].parent \in Alive(t) => t[p].start <= t[t[p].parent].start

(* The Claude Code of the server p is there as it was resolved, unless it  *)
(* is gone.                                                                *)
WatchedAt(t, p) ==
  t[p].stage \in {"resolved", "swept", "watch"} /\ ~t[p].gone =>
    t[p].cc \in Alive(t) /\ (t[p].stage = "watch" => t[t[p].cc].start = t[p].ccStart)

Watched(t) == \A p \in Alive(t) : WatchedAt(t, p)

TreeTyped == seconds \in Nat /\ Typed(table)

LinksAreOrdered == Ordered(table)

WatchedIsThere == Watched(table)

TreeInv == TreeTyped /\ LinksAreOrdered /\ WatchedIsThere /\ SweepIsRight /\ WatchdogIsRight

-----------------------------------------------------------------------------
LEMMA AliveTyped ==
  ASSUME TreeTyped
  PROVE  /\ Alive(table) \subseteq Pids
         /\ \A p \in Alive(table) : table[p] \in Server
         /\ \A p \in Pids \ Alive(table) : table[p] = NoProcess
BY DEF TreeTyped, Typed, Alive, NoProcess, Server, ProcessNames

LEMMA PeerWalkIs ==
  ASSUME TreeTyped, NEW p \in Pids
  PROVE  /\ PeerWalk(p) \in [0..MaxDepth -> Pids \cup {0}]
         /\ PeerWalk(p)[0] = p
         /\ \A d \in 1..MaxDepth : PeerWalk(p)[d] = PeerHop(d, PeerWalk(p)[d - 1])
<1> DEFINE V == Pids \cup {0}
           step == [d \in 1..MaxDepth |-> [c \in V |-> PeerHop(d, c)]]
           W(f) == [d \in 0..MaxDepth |-> IF d = 0 THEN p ELSE PeerHop(d, f[d - 1])]
<1>0. MaxDepth \in Nat
  BY TreeConstants
<1>1. \A d \in 1..MaxDepth, c \in V : PeerHop(d, c) \in V
  BY AliveTyped DEF PeerHop
<1>2. step \in [1..MaxDepth -> [V -> V]]
  BY <1>1
<1>3. PICK f : Recursion(f, MaxDepth, V, p, step)
  <2>1. p \in V
    OBVIOUS
  <2> HIDE DEF V, step
  <2> QED
    BY <1>0, <1>2, <2>1, RecursionExists
<1>4. f \in [0..MaxDepth -> V] /\ f[0] = p /\ \A d \in 1..MaxDepth : f[d] = step[d][f[d - 1]]
  BY <1>3 DEF Recursion
<1>5. f = W(f)
  <2>1. ASSUME NEW d \in 1..MaxDepth PROVE f[d] = PeerHop(d, f[d - 1])
    <3>1. d - 1 \in 0..MaxDepth
      BY <1>0
    <3>2. f[d - 1] \in V
      BY <1>4, <3>1
    <3>3. f[d] = step[d][f[d - 1]]
      BY <1>4, <3>1
    <3> QED
      BY <3>2, <3>3
  <2>2. f[0] = p
    BY <1>0, <1>4
  <2>3. \A d \in 0..MaxDepth : f[d] = IF d = 0 THEN p ELSE PeerHop(d, f[d - 1])
    BY <2>1, <2>2, <1>0
  <2> QED
    BY <1>4, <2>3
<1>6. PeerWalk(p) = W(PeerWalk(p))
  <2>1. PeerWalk(p) = CHOOSE g : g = W(g)
    BY DEF PeerWalk
  <2> HIDE DEF W
  <2> QED
    BY <1>5, <2>1
<1>7. PeerWalk(p)[0] = p /\ \A d \in 1..MaxDepth : PeerWalk(p)[d] = PeerHop(d, PeerWalk(p)[d - 1])
  BY <1>0, <1>6
<1>8. \A d \in 0..MaxDepth : PeerWalk(p)[d] \in V
  <2> DEFINE S == {d \in Nat : d <= MaxDepth => PeerWalk(p)[d] \in V}
  <2>1. 0 \in S
    BY <1>7
  <2>2. ASSUME NEW d \in Nat, d \in S PROVE d + 1 \in S
    <3> SUFFICES ASSUME d + 1 <= MaxDepth PROVE PeerWalk(p)[d + 1] \in V
      OBVIOUS
    <3>1. PeerWalk(p)[d] \in V /\ d + 1 \in 1..MaxDepth
      BY <1>0, <2>2
    <3> QED
      BY <1>1, <1>7, <3>1
  <2>3. \A d \in Nat : d \in S
    <3> HIDE DEF S
    <3> QED
      BY <2>1, <2>2, NatsFrom
  <2> QED
    BY <1>0, <2>3
<1> QED
  BY <1>6, <1>7, <1>8

LEMMA RealWalkIs ==
  ASSUME TreeTyped, NEW p \in Pids
  PROVE  /\ RealWalk(p) \in [0..MaxDepth -> Pids \cup {0}]
         /\ RealWalk(p)[0] = p
         /\ \A d \in 1..MaxDepth : RealWalk(p)[d] = RealHop(d, RealWalk(p)[d - 1])
<1> DEFINE V == Pids \cup {0}
           step == [d \in 1..MaxDepth |-> [c \in V |-> RealHop(d, c)]]
           W(f) == [d \in 0..MaxDepth |-> IF d = 0 THEN p ELSE RealHop(d, f[d - 1])]
<1>0. MaxDepth \in Nat
  BY TreeConstants
<1>1. \A d \in 1..MaxDepth, c \in V : RealHop(d, c) \in V
  BY AliveTyped DEF RealHop
<1>2. step \in [1..MaxDepth -> [V -> V]]
  BY <1>1
<1>3. PICK f : Recursion(f, MaxDepth, V, p, step)
  <2>1. p \in V
    OBVIOUS
  <2> HIDE DEF V, step
  <2> QED
    BY <1>0, <1>2, <2>1, RecursionExists
<1>4. f \in [0..MaxDepth -> V] /\ f[0] = p /\ \A d \in 1..MaxDepth : f[d] = step[d][f[d - 1]]
  BY <1>3 DEF Recursion
<1>5. f = W(f)
  <2>1. ASSUME NEW d \in 1..MaxDepth PROVE f[d] = RealHop(d, f[d - 1])
    <3>1. d - 1 \in 0..MaxDepth
      BY <1>0
    <3>2. f[d - 1] \in V
      BY <1>4, <3>1
    <3>3. f[d] = step[d][f[d - 1]]
      BY <1>4, <3>1
    <3> QED
      BY <3>2, <3>3
  <2>2. f[0] = p
    BY <1>0, <1>4
  <2>3. \A d \in 0..MaxDepth : f[d] = IF d = 0 THEN p ELSE RealHop(d, f[d - 1])
    BY <2>1, <2>2, <1>0
  <2> QED
    BY <1>4, <2>3
<1>6. RealWalk(p) = W(RealWalk(p))
  <2>1. RealWalk(p) = CHOOSE g : g = W(g)
    BY DEF RealWalk
  <2> HIDE DEF W
  <2> QED
    BY <1>5, <2>1
<1>7. RealWalk(p)[0] = p /\ \A d \in 1..MaxDepth : RealWalk(p)[d] = RealHop(d, RealWalk(p)[d - 1])
  BY <1>0, <1>6
<1>8. \A d \in 0..MaxDepth : RealWalk(p)[d] \in V
  <2> DEFINE S == {d \in Nat : d <= MaxDepth => RealWalk(p)[d] \in V}
  <2>1. 0 \in S
    BY <1>7
  <2>2. ASSUME NEW d \in Nat, d \in S PROVE d + 1 \in S
    <3> SUFFICES ASSUME d + 1 <= MaxDepth PROVE RealWalk(p)[d + 1] \in V
      OBVIOUS
    <3>1. RealWalk(p)[d] \in V /\ d + 1 \in 1..MaxDepth
      BY <1>0, <2>2
    <3> QED
      BY <1>1, <1>7, <3>1
  <2>3. \A d \in Nat : d \in S
    <3> HIDE DEF S
    <3> QED
      BY <2>1, <2>2, NatsFrom
  <2> QED
    BY <1>0, <2>3
<1> QED
  BY <1>6, <1>7, <1>8

(* A walk along real links is one the code takes, and without a number     *)
(* given away within a second the code takes no other.                     *)
LEMMA RealIsTaken ==
  ASSUME TreeTyped, LinksAreOrdered, NEW d \in 1..MaxDepth, NEW c \in Pids \cup {0}, c # 0 => c \in Alive(table)
  PROVE  /\ RealHop(d, c) # 0 => PeerHop(d, c) = RealHop(d, c)
         /\ ~SameSecond => PeerHop(d, c) = RealHop(d, c)
         /\ PeerHop(d, c) # 0 => PeerHop(d, c) \in Alive(table)
<1>1. CASE c = 0 \/ (d > 1 /\ table[c].name \in Trusted)
  BY <1>1 DEF RealHop, PeerHop
<1>2. CASE c # 0 /\ ~(d > 1 /\ table[c].name \in Trusted)
  <2>1. c \in Alive(table) /\ table[c] \in Server
    BY <1>2, AliveTyped
  <2> DEFINE q == table[c].parent
  <2>2. CASE q \notin Alive(table)
    BY <1>2, <2>2 DEF RealHop, PeerHop
  <2>3. CASE q \in Alive(table)
    <3>1. q # 0 /\ table[q].start \in Nat /\ table[c].start \in Nat /\ table[c].real \in BOOLEAN
      <4>1. table[q] \in Server /\ q \in Pids
        BY <2>3, AliveTyped
      <4> QED
        BY <4>1, <2>1, TreeConstants DEF Server
    <3>2. table[c].real => BornBefore(table[q], table[c])
      BY <2>1, <3>1 DEF LinksAreOrdered, Ordered, BornBefore
    <3>3. ~table[c].real /\ BornBefore(table[q], table[c]) => SameSecond
      BY <2>1, <2>3, <3>1 DEF LinksAreOrdered, Ordered, BornBefore, SameSecond
    <3> QED
      BY <1>2, <2>3, <3>2, <3>3 DEF RealHop, PeerHop
  <2> QED
    BY <2>2, <2>3
<1> QED
  BY <1>1, <1>2

LEMMA WalksAgree ==
  ASSUME TreeTyped, LinksAreOrdered, NEW p \in Alive(table)
  PROVE  \A d \in 0..MaxDepth : /\ RealWalk(p)[d] # 0 => PeerWalk(p)[d] = RealWalk(p)[d]
                                /\ ~SameSecond => PeerWalk(p)[d] = RealWalk(p)[d]
<1> DEFINE Agree(d) == /\ RealWalk(p)[d] # 0 => PeerWalk(p)[d] = RealWalk(p)[d]
                       /\ ~SameSecond => PeerWalk(p)[d] = RealWalk(p)[d]
                       /\ PeerWalk(p)[d] # 0 => PeerWalk(p)[d] \in Alive(table)
           S == {d \in Nat : d <= MaxDepth => Agree(d)}
<1>0. p \in Pids /\ MaxDepth \in Nat
  BY AliveTyped, TreeConstants
<1>1. 0 \in S
  BY <1>0, PeerWalkIs, RealWalkIs
<1>2. ASSUME NEW d \in Nat, d \in S PROVE d + 1 \in S
  <2> SUFFICES ASSUME d + 1 <= MaxDepth PROVE Agree(d + 1)
    OBVIOUS
  <2>1. Agree(d) /\ d + 1 \in 1..MaxDepth /\ d \in 0..MaxDepth
    BY <1>0, <1>2
  <2> DEFINE w == PeerWalk(p)[d]
             u == RealWalk(p)[d]
  <2>2. w \in Pids \cup {0} /\ u \in Pids \cup {0}
    BY <1>0, <2>1, PeerWalkIs, RealWalkIs
  <2>3. PeerWalk(p)[d + 1] = PeerHop(d + 1, w) /\ RealWalk(p)[d + 1] = RealHop(d + 1, u)
    BY <1>0, <2>1, PeerWalkIs, RealWalkIs
  <2>4. RealHop(d + 1, 0) = 0
    BY DEF RealHop
  <2>5. /\ RealHop(d + 1, w) # 0 => PeerHop(d + 1, w) = RealHop(d + 1, w)
        /\ ~SameSecond => PeerHop(d + 1, w) = RealHop(d + 1, w)
        /\ PeerHop(d + 1, w) # 0 => PeerHop(d + 1, w) \in Alive(table)
    BY <2>1, <2>2, RealIsTaken
  <2> HIDE DEF w, u
  <2>6. (u # 0 => w = u) /\ (~SameSecond => w = u)
    BY <2>1 DEF w, u
  <2> QED
    BY <2>3, <2>4, <2>5, <2>6
<1>3. \A d \in Nat : d \in S
  <2> HIDE DEF S
  <2> QED
    BY <1>1, <1>2, NatsFrom
<1> QED
  BY <1>0, <1>3

(* Whoever is owned is found, and without a number given away within a     *)
(* second whoever is found is owned.                                       *)
LEMMA OwnedIsFound ==
  ASSUME TreeTyped, LinksAreOrdered, NEW p \in Alive(table)
  PROVE  /\ ReallyOwned(p) => PeerTrustedAncestor(p) # 0
         /\ ~SameSecond /\ PeerTrustedAncestor(p) # 0 => ReallyOwned(p)
<1>1. MaxDepth \in 0..MaxDepth
  BY TreeConstants
<1> QED
  BY <1>1, WalksAgree DEF ReallyOwned, PeerTrustedAncestor

-----------------------------------------------------------------------------
(* Resolving                                                               *)

LEMMA ResolvedIsTyped ==
  ASSUME TreeTyped, NEW p \in Alive(table)
  PROVE  ResolveCcPid(p) \in Pids \cup {0}
<1> DEFINE V == Pids \cup {0}
           Up(c) == IF c \in Alive(table) /\ table[c].name = "cmd" /\ table[c].parent # 0 THEN table[c].parent ELSE c
           step == [d \in 1..MaxDepth |-> [c \in V |-> Up(c)]]
           W(f) == [d \in 0..MaxDepth |-> IF d = 0 THEN table[p].parent ELSE Up(f[d - 1])]
<1>0. MaxDepth \in Nat /\ table[p].parent \in V
  BY TreeConstants, AliveTyped DEF Server
<1>1. \A c \in V : Up(c) \in V
  BY AliveTyped DEF Server
<1>2. step \in [1..MaxDepth -> [V -> V]]
  BY <1>1
<1>3. PICK f : Recursion(f, MaxDepth, V, table[p].parent, step)
  <2> HIDE DEF V, step
  <2> QED
    BY <1>0, <1>2, RecursionExists
<1>4. f \in [0..MaxDepth -> V] /\ f[0] = table[p].parent /\ \A d \in 1..MaxDepth : f[d] = step[d][f[d - 1]]
  BY <1>3 DEF Recursion
<1>5. f = W(f)
  <2>1. ASSUME NEW d \in 1..MaxDepth PROVE f[d] = Up(f[d - 1])
    <3>1. d - 1 \in 0..MaxDepth
      BY <1>0
    <3>2. f[d - 1] \in V
      BY <1>4, <3>1
    <3> HIDE DEF Up
    <3>3. f[d] = step[d][f[d - 1]]
      BY <1>4, <3>1
    <3> QED
      BY <3>2, <3>3
  <2> HIDE DEF Up
  <2>0. f[0] = table[p].parent
    BY <1>4
  <2>2. \A d \in 0..MaxDepth : f[d] = IF d = 0 THEN table[p].parent ELSE Up(f[d - 1])
    BY <1>0, <2>0, <2>1
  <2> QED
    BY <1>4, <2>2
<1> DEFINE walk == CHOOSE g : g = W(g)
<1>6. walk = W(walk)
  <2> HIDE DEF W
  <2> QED
    BY <1>5
<1>7. ResolveCcPid(p) = walk[MaxDepth]
  BY DEF ResolveCcPid
<1>8. walk[0] = table[p].parent /\ \A d \in 1..MaxDepth : walk[d] = Up(walk[d - 1])
  <2> HIDE DEF walk, Up
  <2> QED
    BY <1>0, <1>6
<1>9. \A d \in Nat : d <= MaxDepth => walk[d] \in V
  <2> HIDE DEF walk, Up, V
  <2> DEFINE S == {d \in Nat : d <= MaxDepth => walk[d] \in V}
  <2>1. 0 \in S
    BY <1>0, <1>8
  <2>2. ASSUME NEW d \in Nat, d \in S PROVE d + 1 \in S
    <3> SUFFICES ASSUME d + 1 <= MaxDepth PROVE walk[d + 1] \in V
      OBVIOUS
    <3>1. walk[d] \in V /\ d + 1 \in 1..MaxDepth /\ (d + 1) - 1 = d
      BY <1>0, <2>2
    <3> QED
      BY <1>1, <1>8, <3>1
  <2>3. \A d \in Nat : d \in S
    <3> HIDE DEF S
    <3> QED
      BY <2>1, <2>2, NatsFrom
  <2> QED
    BY <2>3
<1> QED
  BY <1>0, <1>7, <1>9

-----------------------------------------------------------------------------
(* The steps                                                               *)

LEMMA TreeInvInit == TreeInit => TreeInv
<1> SUFFICES ASSUME TreeInit PROVE TreeInv
  OBVIOUS
<1>1. Alive(table) = {}
  BY DEF TreeInit, Alive, NoProcess
<1> QED
  BY <1>1 DEF TreeInit, TreeInv, TreeTyped, Typed, LinksAreOrdered, Ordered, WatchedIsThere, Watched,
              SweepIsRight, WatchdogIsRight

Sound(t) == Typed(t) /\ Ordered(t) /\ Watched(t)

LEMMA AliveOf ==
  ASSUME NEW t, Typed(t)
  PROVE  /\ Alive(t) \subseteq Pids
         /\ \A p \in Alive(t) : t[p] \in Server
         /\ \A p \in Pids \ Alive(t) : t[p] = NoProcess
BY DEF Typed, Alive, NoProcess, Server, ProcessNames

(* What an end leaves of a process.                                        *)
Left(r, dead) == [r EXCEPT !.real = @ /\ r.parent \notin dead, !.gone = @ \/ r.cc \in dead]

LEMMA LeftIs ==
  ASSUME NEW r \in Server, NEW dead
  PROVE  /\ Left(r, dead) \in Server
         /\ Left(r, dead).real <=> r.real /\ r.parent \notin dead
         /\ Left(r, dead).gone <=> r.gone \/ r.cc \in dead
         /\ Left(r, dead).name = r.name /\ Left(r, dead).parent = r.parent
         /\ Left(r, dead).start = r.start /\ Left(r, dead).stage = r.stage
         /\ Left(r, dead).cc = r.cc /\ Left(r, dead).ccStart = r.ccStart
<1>1. (r.real /\ r.parent \notin dead) \in BOOLEAN /\ (r.gone \/ r.cc \in dead) \in BOOLEAN
  OBVIOUS
<1> DEFINE a == r.real /\ r.parent \notin dead
           b == r.gone \/ r.cc \in dead
<1>2. a \in BOOLEAN /\ b \in BOOLEAN
  BY <1>1
<1>3. Left(r, dead) = [r EXCEPT !.real = a, !.gone = b]
  BY DEF Left
<1> HIDE DEF a, b
<1>4. /\ [r EXCEPT !.real = a, !.gone = b] \in Server
      /\ [r EXCEPT !.real = a, !.gone = b].real = a
      /\ [r EXCEPT !.real = a, !.gone = b].gone = b
      /\ [r EXCEPT !.real = a, !.gone = b].name = r.name
      /\ [r EXCEPT !.real = a, !.gone = b].parent = r.parent
      /\ [r EXCEPT !.real = a, !.gone = b].start = r.start
      /\ [r EXCEPT !.real = a, !.gone = b].stage = r.stage
      /\ [r EXCEPT !.real = a, !.gone = b].cc = r.cc
      /\ [r EXCEPT !.real = a, !.gone = b].ccStart = r.ccStart
  BY <1>2 DEF Server
<1> QED
  BY <1>3, <1>4 DEF a, b

(* Processes that end leave the rest as they were, but for what was theirs. *)
LEMMA WithoutKeeps ==
  ASSUME NEW t, Sound(t), NEW dead \in SUBSET Pids
  PROVE  Sound(Without(t, dead))
<1> DEFINE u == Without(t, dead)
<1>0. Typed(t)
  BY DEF Sound
<1>1. Alive(u) = Alive(t) \ dead
  <2>1. ASSUME NEW p \in Pids, p \notin dead, t[p].name # "none" PROVE u[p].name = t[p].name
    <3>1. t[p] \in Server /\ u[p] = Left(t[p], dead)
      BY <1>0, <2>1, AliveOf DEF Without, Alive, Left
    <3> QED
      BY <3>1, LeftIs
  <2>2. ASSUME NEW p \in Pids, p \in dead \/ t[p].name = "none" PROVE u[p].name = "none"
    BY <2>2 DEF Without, NoProcess
  <2> HIDE DEF u
  <2> QED
    BY <2>1, <2>2 DEF Alive
<1>2. ASSUME NEW p \in Alive(u)
      PROVE  p \in Alive(t) /\ p \notin dead /\ p \in Pids /\ t[p] \in Server /\ u[p] = Left(t[p], dead)
  <2>1. p \in Alive(t) /\ p \notin dead
    BY <1>1, <1>2
  <2> QED
    BY <2>1, <1>0, AliveOf DEF Without, Alive, Left
<1>3. ASSUME NEW p \in Alive(u)
      PROVE  /\ u[p] \in Server
             /\ u[p].real <=> t[p].real /\ t[p].parent \notin dead
             /\ u[p].gone <=> t[p].gone \/ t[p].cc \in dead
             /\ u[p].parent = t[p].parent /\ u[p].start = t[p].start
             /\ u[p].stage = t[p].stage /\ u[p].cc = t[p].cc /\ u[p].ccStart = t[p].ccStart
  BY <1>2, LeftIs
<1>4. Typed(u)
  <2>1. ASSUME NEW p \in Pids PROVE u[p] \in {NoProcess} \cup Server
    <3>1. CASE p \in Alive(u)
      BY <1>3, <3>1
    <3>2. CASE p \notin Alive(u)
      <4>1. p \in dead \/ p \notin Alive(t)
        BY <1>1, <3>2
      <4> QED
        BY <4>1 DEF Without, Alive
    <3> QED
      BY <3>1, <3>2
  <2>2. u \in [Pids -> {NoProcess} \cup Server]
    BY <2>1 DEF Without
  <2>3. \A p \in Alive(u) : u[p].start \in 0..seconds
    BY <1>0, <1>2, <1>3 DEF Typed
  <2> QED
    BY <2>2, <2>3 DEF Typed
<1> HIDE DEF u
<1>5. Ordered(u)
  <2> SUFFICES ASSUME NEW p \in Alive(u)
               PROVE  IF u[p].real
                      THEN u[p].parent # 0 => u[p].parent \in Alive(u) /\ u[u[p].parent].start <= u[p].start
                      ELSE u[p].parent \in Alive(u) => u[p].start <= u[u[p].parent].start
    BY DEF Ordered
  <2>1. p \in Alive(t) /\ u[p].parent = t[p].parent /\ u[p].start = t[p].start
    BY <1>2, <1>3
  <2> DEFINE q == t[p].parent
  <2>2. q \in Alive(u) => q \in Alive(t) /\ q \notin dead /\ u[q].start = t[q].start
    BY <1>1, <1>3
  <2>3. CASE u[p].real
    <3>1. t[p].real /\ q \notin dead
      BY <1>3, <2>3
    <3>2. q # 0 => q \in Alive(t) /\ t[q].start <= t[p].start
      BY <3>1, <2>1 DEF Sound, Ordered
    <3>3. q # 0 => q \in Alive(u)
      BY <3>1, <3>2, <1>1
    <3> QED
      BY <2>1, <2>2, <2>3, <3>2, <3>3
  <2>4. CASE ~u[p].real
    <3>1. q \in Alive(u) => ~t[p].real
      BY <1>3, <2>2, <2>4
    <3>2. q \in Alive(u) => t[p].start <= t[q].start
      BY <2>1, <2>2, <3>1 DEF Sound, Ordered
    <3> QED
      BY <2>1, <2>2, <2>4, <3>2
  <2> QED
    BY <2>3, <2>4
<1>6. Watched(u)
  <2> SUFFICES ASSUME NEW p \in Alive(u), u[p].stage \in {"resolved", "swept", "watch"}, ~u[p].gone
               PROVE  u[p].cc \in Alive(u) /\ (u[p].stage = "watch" => u[u[p].cc].start = u[p].ccStart)
    BY DEF Watched, WatchedAt
  <2>1. p \in Alive(t) /\ ~t[p].gone /\ t[p].cc \notin dead
    BY <1>2, <1>3
  <2>2. t[p].cc \in Alive(t) /\ (t[p].stage = "watch" => t[t[p].cc].start = t[p].ccStart)
    BY <1>3, <2>1 DEF Sound, Watched, WatchedAt
  <2>3. t[p].cc \in Alive(u)
    BY <2>1, <2>2, <1>1
  <2> QED
    BY <1>3, <2>2, <2>3
<1> QED
  BY <1>4, <1>5, <1>6 DEF Sound, u

(* A process that changes what it watches.                                 *)
LEMMA ChangedKeeps ==
  ASSUME NEW t, Sound(t), NEW p \in Alive(t), NEW r \in Server,
         r.name = t[p].name, r.parent = t[p].parent, r.real = t[p].real, r.start = t[p].start,
         r.stage \in {"resolved", "swept", "watch"} /\ ~r.gone =>
            r.cc \in Alive(t) /\ (r.stage = "watch" => t[r.cc].start = r.ccStart)
  PROVE  Sound([t EXCEPT ![p] = r])
<1> DEFINE u == [t EXCEPT ![p] = r]
<1>1. Typed(t) /\ p \in Pids /\ t \in [Pids -> {NoProcess} \cup Server]
  BY AliveOf DEF Sound, Typed
<1>2. u[p] = r /\ \A q \in Pids : q # p => u[q] = t[q]
  BY <1>1
<1>3. Alive(u) = Alive(t) /\ \A q \in Alive(t) :
        u[q].parent = t[q].parent /\ u[q].real = t[q].real /\ u[q].start = t[q].start
  BY <1>1, <1>2 DEF Alive
<1>4. u \in [Pids -> {NoProcess} \cup Server]
  BY <1>1
<1> HIDE DEF u
<1>5. Typed(u)
  BY <1>1, <1>3, <1>4 DEF Typed
<1>6. Ordered(u)
  BY <1>3 DEF Sound, Ordered
<1>7. ASSUME NEW q \in Alive(u) PROVE WatchedAt(u, q)
  <2>1. CASE q = p
    BY <2>1, <1>2, <1>3 DEF WatchedAt
  <2>2. CASE q # p
    <3>1. u[q] = t[q] /\ q \in Alive(t)
      BY <2>2, <1>1, <1>2, <1>3, <1>7, AliveOf
    <3>2. WatchedAt(t, q)
      BY <3>1 DEF Sound, Watched
    <3> QED
      BY <3>1, <3>2, <1>3 DEF WatchedAt
  <2> QED
    BY <2>1, <2>2
<1> QED
  BY <1>5, <1>6, <1>7 DEF Sound, Watched, u

(* A process with a number nobody has.                                     *)
LEMMA SpawnedKeeps ==
  ASSUME NEW t, Sound(t), seconds \in Nat, NEW p \in Pids \ Alive(t), NEW r \in Server,
         r.parent \in Alive(t) \cup {0}, r.real, r.start = seconds, r.stage \in {"new", "relay"}
  PROVE  Sound([t EXCEPT ![p] = r])
<1> DEFINE u == [t EXCEPT ![p] = r]
<1>1. Typed(t) /\ t \in [Pids -> {NoProcess} \cup Server]
  BY DEF Sound, Typed
<1>2. u[p] = r /\ \A q \in Pids : q # p => u[q] = t[q]
  BY <1>1
<1>3. Alive(u) = Alive(t) \cup {p} /\ \A q \in Alive(t) : q # p /\ u[q] = t[q]
  BY <1>1, <1>2 DEF Alive, Server, ProcessNames
<1>4. u \in [Pids -> {NoProcess} \cup Server]
  BY <1>1
<1>5. \A q \in Alive(t) : t[q].start \in Nat /\ t[q].start <= seconds
  BY <1>1 DEF Typed
<1>6. p # 0
  BY TreeConstants
<1> HIDE DEF u
<1>7. Typed(u)
  BY <1>1, <1>2, <1>3, <1>4 DEF Typed
<1>8. Ordered(u)
  <2> SUFFICES ASSUME NEW q \in Alive(u)
               PROVE  IF u[q].real
                      THEN u[q].parent # 0 => u[q].parent \in Alive(u) /\ u[u[q].parent].start <= u[q].start
                      ELSE u[q].parent \in Alive(u) => u[q].start <= u[u[q].parent].start
    BY DEF Ordered
  <2>1. CASE q = p
    BY <2>1, <1>2, <1>3, <1>5
  <2>2. CASE q \in Alive(t)
    <3>1. IF t[q].real
          THEN t[q].parent # 0 => t[q].parent \in Alive(t) /\ t[t[q].parent].start <= t[q].start
          ELSE t[q].parent \in Alive(t) => t[q].start <= t[t[q].parent].start
      BY <2>2 DEF Sound, Ordered
    <3>2. u[q] = t[q] /\ t[q].start <= seconds
      BY <2>2, <1>3, <1>5
    <3>3. CASE t[q].parent = p
      BY <3>1, <3>2, <3>3, <1>2, <1>6
    <3>4. CASE t[q].parent # p
      BY <3>1, <3>2, <3>4, <1>3
    <3> QED
      BY <3>3, <3>4
  <2> QED
    BY <2>1, <2>2, <1>3
<1>9. ASSUME NEW q \in Alive(u) PROVE WatchedAt(u, q)
  <2>1. CASE q = p
    BY <2>1, <1>2 DEF WatchedAt
  <2>2. CASE q \in Alive(t)
    BY <2>2, <1>3 DEF Sound, Watched, WatchedAt
  <2> QED
    BY <2>1, <2>2, <1>3
<1> QED
  BY <1>7, <1>8, <1>9 DEF Sound, Watched, u

-----------------------------------------------------------------------------
(* The actions                                                             *)

LEMMA SoundIs == TreeTyped /\ LinksAreOrdered /\ WatchedIsThere <=> seconds \in Nat /\ Sound(table)
BY DEF TreeTyped, LinksAreOrdered, WatchedIsThere, Sound

LEMMA SpawnSound ==
  ASSUME seconds \in Nat, Sound(table), Spawn PROVE Sound(table')
<1>1. PICK p \in Pids \ Alive(table) :
        \/ \E name \in Trusted : table' = [table EXCEPT ![p] = Process(name, 0)]
        \/ \E q \in Alive(table), name \in {"cmd", "mcp"} : table' = [table EXCEPT ![p] = Process(name, q)]
  BY DEF Spawn
<1>2. ASSUME NEW name \in ProcessNames, NEW q \in Alive(table) \cup {0}
      PROVE  Sound([table EXCEPT ![p] = Process(name, q)])
  <2>1. q \in Pids \cup {0}
    BY AliveOf DEF Sound
  <2>2. /\ Process(name, q) \in Server /\ Process(name, q).parent = q /\ Process(name, q).real
        /\ Process(name, q).start = seconds /\ Process(name, q).stage \in {"new", "relay"}
    BY <2>1 DEF Process, Server
  <2> QED
    BY <2>2, SpawnedKeeps
<1>3. Trusted \subseteq ProcessNames /\ {"cmd", "mcp"} \subseteq ProcessNames
  BY DEF Trusted, ProcessNames
<1> QED
  BY <1>1, <1>2, <1>3

LEMMA ResolveSound ==
  ASSUME TreeTyped, Sound(table), NEW p \in Pids, Resolve(p) PROVE Sound(table')
<1> DEFINE c == ResolveCcPid(p)
           r == [table[p] EXCEPT !.stage = "resolved", !.cc = c, !.gone = c \notin Alive(table)]
<1>1. p \in Alive(table) /\ table[p] \in Server
  BY AliveOf DEF Resolve, McpProcesses, Sound
<1>2. c \in Pids \cup {0}
  BY <1>1, ResolvedIsTyped
<1>3. table' = [table EXCEPT ![p] = r]
  BY DEF Resolve
<1> DEFINE gone == c \notin Alive(table)
<1>4. gone \in BOOLEAN /\ r = [table[p] EXCEPT !.stage = "resolved", !.cc = c, !.gone = gone]
  OBVIOUS
<1> HIDE DEF r, gone, c
<1>5. /\ r \in Server /\ r.name = table[p].name /\ r.parent = table[p].parent /\ r.real = table[p].real
      /\ r.start = table[p].start /\ r.stage = "resolved" /\ r.cc = c /\ r.gone = gone
  BY <1>1, <1>2, <1>4 DEF Server
<1>6. ~r.gone => r.cc \in Alive(table)
  BY <1>5 DEF gone
<1> QED
  BY <1>1, <1>3, <1>5, <1>6, ChangedKeeps

LEMMA SweptSound ==
  ASSUME Sound(table), NEW p \in Alive(table), table[p].stage = "resolved"
  PROVE  Sound([table EXCEPT ![p].stage = "swept"])
<1> DEFINE r == [table[p] EXCEPT !.stage = "swept"]
<1>1. table[p] \in Server
  BY AliveOf DEF Sound
<1>2. /\ r \in Server /\ r.name = table[p].name /\ r.parent = table[p].parent /\ r.real = table[p].real
      /\ r.start = table[p].start /\ r.stage = "swept" /\ r.cc = table[p].cc /\ r.gone = table[p].gone
  BY <1>1 DEF Server
<1>3. ~r.gone => r.cc \in Alive(table)
  BY <1>2 DEF Sound, Watched, WatchedAt
<1>4. Sound([table EXCEPT ![p] = r])
  <2> HIDE DEF r
  <2> QED
    BY <1>2, <1>3, ChangedKeeps
<1> QED
  BY <1>4

LEMMA SweepSound ==
  ASSUME TreeTyped, Sound(table), NEW p \in Pids, Sweep(p), SweepIsRight
  PROVE  Sound(table') /\ SweepIsRight'
<1> DEFINE zombies == {q \in McpProcesses \ {p} : PeerTrustedAncestor(q) = 0}
<1>1. PICK killed \in SUBSET zombies :
        /\ table' = Without([table EXCEPT ![p].stage = "swept"], killed)
        /\ wrongKill' = (wrongKill \/ \E q \in killed : ReallyOwned(q))
        /\ wrongSpare' = (wrongSpare \/
             (~SameSecond /\ \E q \in McpProcesses \ (zombies \cup {p}) : ~ReallyOwned(q)))
  BY DEF Sweep
<1>2. p \in Alive(table) /\ table[p].stage = "resolved"
  BY DEF Sweep, McpProcesses
<1>3. zombies \subseteq Alive(table) /\ Alive(table) \subseteq Pids /\ McpProcesses \subseteq Alive(table)
  BY AliveOf DEF McpProcesses, Sound
<1>4. Sound(table')
  <2>1. killed \in SUBSET Pids
    BY <1>3
  <2> QED
    BY <1>1, <1>2, <2>1, SweptSound, WithoutKeeps
<1>5. LinksAreOrdered
  BY DEF Sound, LinksAreOrdered
<1>6. \A q \in zombies : ~ReallyOwned(q)
  BY <1>3, <1>5, OwnedIsFound
<1>7. ~SameSecond => \A q \in McpProcesses \ (zombies \cup {p}) : ReallyOwned(q)
  BY <1>3, <1>5, OwnedIsFound
<1> HIDE DEF zombies
<1> QED
  BY <1>1, <1>4, <1>6, <1>7 DEF SweepIsRight

LEMMA WatchStartSound ==
  ASSUME Sound(table), NEW p \in Pids, WatchStart(p) PROVE Sound(table')
<1> DEFINE cc == table[p].cc
           r == [table[p] EXCEPT !.stage = "watch", !.ccStart = table[cc].start]
<1>1. p \in Alive(table) /\ table[p] \in Server
  BY AliveOf DEF WatchStart, McpProcesses, Sound
<1>2. CASE cc \notin Alive(table)
  BY <1>2, WithoutKeeps DEF WatchStart
<1>3. CASE cc \in Alive(table)
  <2>1. table' = [table EXCEPT ![p] = r]
    BY <1>3 DEF WatchStart
  <2>2. table[cc].start \in Nat
    BY <1>3, AliveOf DEF Sound, Server
  <2>3. /\ r \in Server /\ r.name = table[p].name /\ r.parent = table[p].parent /\ r.real = table[p].real
        /\ r.start = table[p].start /\ r.stage = "watch" /\ r.cc = cc /\ r.ccStart = table[cc].start
    <3> DEFINE s == table[cc].start
    <3>1. s \in Nat
      BY <2>2
    <3> HIDE DEF s
    <3>2. /\ [table[p] EXCEPT !.stage = "watch", !.ccStart = s] \in Server
          /\ [table[p] EXCEPT !.stage = "watch", !.ccStart = s].name = table[p].name
          /\ [table[p] EXCEPT !.stage = "watch", !.ccStart = s].parent = table[p].parent
          /\ [table[p] EXCEPT !.stage = "watch", !.ccStart = s].real = table[p].real
          /\ [table[p] EXCEPT !.stage = "watch", !.ccStart = s].start = table[p].start
          /\ [table[p] EXCEPT !.stage = "watch", !.ccStart = s].stage = "watch"
          /\ [table[p] EXCEPT !.stage = "watch", !.ccStart = s].cc = table[p].cc
          /\ [table[p] EXCEPT !.stage = "watch", !.ccStart = s].ccStart = s
      BY <1>1, <3>1 DEF Server
    <3> QED
      BY <3>2 DEF s
  <2> HIDE DEF r
  <2> QED
    BY <1>1, <1>3, <2>1, <2>3, ChangedKeeps
<1> QED
  BY <1>2, <1>3

LEMMA WatchTickSound ==
  ASSUME Sound(table), NEW p \in Pids, WatchTick(p), WatchdogIsRight
  PROVE  Sound(table') /\ WatchdogIsRight'
<1>1. Sound(table')
  <2>1. CASE CcPidAlive(p)
    BY <2>1 DEF WatchTick
  <2>2. CASE ~CcPidAlive(p)
    BY <2>2, WithoutKeeps DEF WatchTick
  <2> QED
    BY <2>1, <2>2
<1>2. p \in Alive(table) /\ table[p].stage = "watch" /\ Watched(table)
  BY DEF WatchTick, McpProcesses, Sound
<1>3. ~table[p].gone /\ table[table[p].cc].name = "node" => CcPidAlive(p)
  BY <1>2 DEF Watched, WatchedAt, CcPidAlive, SameProcess
<1>4. CcPidAlive(p) => table[table[p].cc].start = table[p].ccStart
  BY DEF CcPidAlive, SameProcess
<1>5. ~wrongExit'
  BY <1>3 DEF WatchTick, WatchdogIsRight
<1>6. ~wrongStay'
  BY <1>4 DEF WatchTick, WatchdogIsRight
<1> QED
  BY <1>1, <1>5, <1>6 DEF WatchdogIsRight

(* Time passes, and what started before it still did.                      *)
LEMMA TickSound ==
  ASSUME seconds \in Nat, Sound(table), seconds' \in Nat, seconds <= seconds', table' = table
  PROVE  Sound(table)'
<1>1. Typed(table)'
  <2>1. table' \in [Pids -> {NoProcess} \cup Server]
    BY DEF Sound, Typed
  <2>2. \A p \in Alive(table)' : table'[p].start \in 0..seconds'
    BY DEF Sound, Typed, Alive
  <2> QED
    BY <2>1, <2>2 DEF Typed
<1>2. Ordered(table)' /\ Watched(table)'
  BY DEF Sound, Ordered, Watched, WatchedAt, Alive
<1> QED
  BY <1>1, <1>2 DEF Sound

LEMMA TreeInvStep == TreeInv /\ [TreeNext]_treeVars => TreeInv'
<1> SUFFICES ASSUME TreeInv, [TreeNext]_treeVars PROVE TreeInv'
  OBVIOUS
<1>0. TreeTyped /\ seconds \in Nat /\ Sound(table) /\ SweepIsRight /\ WatchdogIsRight
  BY SoundIs DEF TreeInv
<1> SUFFICES seconds' \in Nat /\ Sound(table)' /\ SweepIsRight' /\ WatchdogIsRight'
  BY DEF TreeInv, TreeTyped, LinksAreOrdered, WatchedIsThere, Sound
<1>1. ASSUME seconds' = seconds, Sound(table') PROVE seconds' \in Nat /\ Sound(table)'
  BY <1>0, <1>1 DEF Sound, Typed, Ordered, Watched, WatchedAt, Alive
<1>2. CASE Spawn
  BY <1>0, <1>1, <1>2, SpawnSound DEF Spawn, SweepIsRight, WatchdogIsRight
<1>3. CASE Exit
  <2>1. Sound(table')
    BY <1>0, <1>3, WithoutKeeps, AliveOf DEF Exit, Sound
  <2> QED
    BY <1>0, <1>1, <1>3, <2>1 DEF Exit, SweepIsRight, WatchdogIsRight
<1>4. CASE SecondPasses
  BY <1>0, <1>4, TickSound DEF SecondPasses, SweepIsRight, WatchdogIsRight
<1>5. ASSUME NEW p \in Pids, Sweep(p) PROVE seconds' \in Nat /\ Sound(table)' /\ SweepIsRight' /\ WatchdogIsRight'
  BY <1>0, <1>1, <1>5, SweepSound DEF Sweep, WatchdogIsRight
<1>6. ASSUME NEW p \in Pids, Resolve(p) PROVE seconds' \in Nat /\ Sound(table)' /\ SweepIsRight' /\ WatchdogIsRight'
  BY <1>0, <1>1, <1>6, ResolveSound DEF Resolve, SweepIsRight, WatchdogIsRight
<1>7. ASSUME NEW p \in Pids, WatchStart(p) PROVE seconds' \in Nat /\ Sound(table)' /\ SweepIsRight' /\ WatchdogIsRight'
  BY <1>0, <1>1, <1>7, WatchStartSound DEF WatchStart, SweepIsRight, WatchdogIsRight
<1>8. ASSUME NEW p \in Pids, WatchTick(p) PROVE seconds' \in Nat /\ Sound(table)' /\ SweepIsRight' /\ WatchdogIsRight'
  BY <1>0, <1>1, <1>8, WatchTickSound DEF WatchTick, SweepIsRight
<1>9. CASE UNCHANGED treeVars
  BY <1>0, <1>1, <1>9 DEF treeVars, SweepIsRight, WatchdogIsRight
<1> QED
  BY <1>2, <1>3, <1>4, <1>5, <1>6, <1>7, <1>8, <1>9 DEF TreeNext

(* A starting server kills no server whose ancestors live, and no number,  *)
(* however it is given away, misleads a watchdog: for every set of process *)
(* numbers, depth of the walks and number of processes.                    *)
THEOREM OrphansEnd == TreeSpec => []OnlyOrphansEnd
<1>1. TreeInv => OnlyOrphansEnd
  <2> SUFFICES ASSUME TreeInv PROVE TreeTypeOK
    BY DEF TreeInv, OnlyOrphansEnd
  <2> QED
    BY AliveTyped DEF TreeInv, TreeTyped, Typed, TreeTypeOK, Server
<1> QED
  BY <1>1, TreeInvInit, TreeInvStep, PTL DEF TreeSpec

-----------------------------------------------------------------------------
(* McpServer. A worker's path survives its encoding whatever bytes it has, *)
(* and each payload is at every moment answered as far as it is handled.   *)

(* The header's path                                                       *)

Chunk(b) == IF b \in Unreserved THEN <<b>> ELSE <<37, HexDigit(b \div 16), HexDigit(b % 16)>>

LEMMA ChunkTyped == \A b \in Int : Chunk(b) \in Seq(Int) /\ Len(Chunk(b)) \in 1..3
BY DEF Chunk, HexDigit, Unreserved

Encoding(path, e) ==
  /\ e \in [0..Len(path) -> Seq(Int)] /\ e[0] = <<>>
  /\ \A i \in 1..Len(path) : e[i] = e[i - 1] \o Chunk(path[i])

LEMMA EncodeIs ==
  ASSUME NEW path \in Seq(Int)
  PROVE  \E e : Encoding(path, e) /\ PercentEncode(path) = e[Len(path)]
<1> DEFINE n == Len(path)
           V == Seq(Int)
           step == [i \in 1..n |-> [s \in V |-> s \o Chunk(path[i])]]
           W(f) == [i \in 0..n |-> IF i = 0 THEN <<>> ELSE f[i - 1] \o Chunk(path[i])]
<1>0. n \in Nat /\ <<>> \in V
  OBVIOUS
<1>1. step \in [1..n -> [V -> V]]
  <2>1. ASSUME NEW i \in 1..n, NEW s \in V PROVE s \o Chunk(path[i]) \in V
    <3>1. path[i] \in Int
      OBVIOUS
    <3>2. Chunk(path[i]) \in V
      BY <3>1, ChunkTyped
    <3> QED
      BY <3>2
  <2> HIDE DEF V
  <2> QED
    BY <2>1
<1>2. PICK f : Recursion(f, n, V, <<>>, step)
  <2> HIDE DEF n, V, step
  <2> QED
    BY <1>0, <1>1, RecursionExists
<1>3. f \in [0..n -> V] /\ f[0] = <<>> /\ \A i \in 1..n : f[i] = step[i][f[i - 1]]
  BY <1>2 DEF Recursion
<1> HIDE DEF V
<1>4. \A i \in 1..n : f[i] = f[i - 1] \o Chunk(path[i])
  <2> TAKE i \in 1..n
  <2>1. i - 1 \in 0..n
    BY <1>0
  <2>2. f[i - 1] \in V
    BY <1>3, <2>1
  <2>3. f[i] = step[i][f[i - 1]]
    BY <1>3
  <2> QED
    BY <2>2, <2>3
<1>5. f = W(f)
  <2> HIDE DEF n
  <2>1. \A i \in 0..n : f[i] = IF i = 0 THEN <<>> ELSE f[i - 1] \o Chunk(path[i])
    <3>1. \A i \in 0..n : i # 0 => i \in 1..n
      BY <1>0
    <3> QED
      BY <3>1, <1>3, <1>4
  <2> QED
    BY <1>3, <2>1
<1> DEFINE e == CHOOSE g : g = W(g)
<1>6. e = W(e)
  <2> HIDE DEF W
  <2> QED
    BY <1>5
<1>7. PercentEncode(path) = e[n]
  BY DEF PercentEncode, Chunk
<1>8. e[0] = <<>> /\ \A i \in 1..n : e[i] = e[i - 1] \o Chunk(path[i])
  <2> HIDE DEF e
  <2> QED
    BY <1>0, <1>6
<1>9. \A i \in 0..n : e[i] \in V
  <2> HIDE DEF e, n
  <2> DEFINE S == {i \in Nat : i <= n => e[i] \in V}
  <2>1. 0 \in S
    BY <1>0, <1>8
  <2>2. ASSUME NEW i \in Nat, i \in S PROVE i + 1 \in S
    <3> SUFFICES ASSUME i + 1 <= n PROVE e[i + 1] \in V
      OBVIOUS
    <3>1. e[i] \in V /\ i + 1 \in 1..n /\ (i + 1) - 1 = i
      BY <1>0, <2>2
    <3>2. path[i + 1] \in Int
      BY <3>1 DEF n
    <3>3. Chunk(path[i + 1]) \in V
      BY <3>2, ChunkTyped DEF V
    <3>4. e[i + 1] = e[i] \o Chunk(path[i + 1])
      BY <1>8, <3>1
    <3> QED
      BY <3>1, <3>3, <3>4 DEF V
  <2>3. \A i \in Nat : i \in S
    <3> HIDE DEF S
    <3> QED
      BY <2>1, <2>2, NatsFrom
  <2> QED
    BY <1>0, <2>3
<1>10. e \in [0..n -> V]
  <2> HIDE DEF e
  <2> QED
    BY <1>6, <1>9
<1>11. Encoding(path, e)
  BY <1>8, <1>10 DEF Encoding, V
<1> QED
  BY <1>7, <1>11

(* An escape at byte i of a text of n bytes, and the byte it stands for.   *)
IsEscape(text, i) ==
  text[i] = 37 /\ EscapeFits(i, Len(text)) /\ IsHex(text[i + 1]) /\ IsHex(text[i + 2])
ByteAt(text, i) ==
  IF IsEscape(text, i) THEN 16 * HexValue(text[i + 1]) + HexValue(text[i + 2]) ELSE text[i]
After(text, i) == IF IsEscape(text, i) THEN i + 3 ELSE i + 1

LEMMA HexIsInt == \A b \in Int : HexValue(b) \in Int
BY DEF HexValue

Decoding(text, d) ==
  /\ d \in [1..Len(text) + 1 -> Seq(Int)] /\ d[Len(text) + 1] = <<>>
  /\ \A i \in 1..Len(text) : d[i] = <<ByteAt(text, i)>> \o d[After(text, i)]

LEMMA DecodeIs ==
  ASSUME NEW text \in Seq(Int)
  PROVE  \E d : Decoding(text, d) /\ PercentDecode(text) = d[1]
<1> DEFINE n == Len(text)
           V == Seq(Int)
           op == [i \in 1..n |-> [s \in V |-> <<ByteAt(text, i)>> \o s]]
           next == [i \in 1..n |-> After(text, i)]
           W(f) == [i \in 1..n + 1 |->
                      IF i > n THEN <<>>
                      ELSE IF IsEscape(text, i)
                           THEN <<16 * HexValue(text[i + 1]) + HexValue(text[i + 2])>> \o f[i + 3]
                           ELSE <<text[i]>> \o f[i + 1]]
<1>0. n \in Nat /\ <<>> \in V
  OBVIOUS
<1>1. ASSUME NEW i \in 1..n PROVE ByteAt(text, i) \in Int
  <2>1. CASE IsEscape(text, i)
    <3>1. i + 1 \in 1..n /\ i + 2 \in 1..n
      BY <2>1 DEF IsEscape, EscapeFits
    <3>2. text[i + 1] \in Int /\ text[i + 2] \in Int
      BY <3>1
    <3>3. HexValue(text[i + 1]) \in Int /\ HexValue(text[i + 2]) \in Int
      BY <3>2, HexIsInt
    <3> QED
      BY <2>1, <3>3 DEF ByteAt
  <2>2. CASE ~IsEscape(text, i)
    BY <2>2 DEF ByteAt
  <2> QED
    BY <2>1, <2>2
<1>2. \A i \in 1..n : After(text, i) \in Nat /\ i < After(text, i) /\ After(text, i) <= n + 1
  BY DEF After, IsEscape, EscapeFits
<1>3. op \in [1..n -> [V -> V]]
  BY <1>1
<1>4. next \in [1..n -> Nat] /\ \A i \in 1..n : i < next[i] /\ next[i] <= n + 1
  BY <1>2
<1>5. PICK f : Backward(f, n, V, <<>>, op, next)
  <2> HIDE DEF n, V, op, next
  <2> QED
    BY <1>0, <1>3, <1>4, BackwardExists
<1>6. f \in [1..n + 1 -> V] /\ f[n + 1] = <<>> /\ \A i \in 1..n : f[i] = op[i][f[next[i]]]
  BY <1>5 DEF Backward
<1> HIDE DEF V
<1>7. \A i \in 1..n : f[i] = <<ByteAt(text, i)>> \o f[After(text, i)]
  <2> TAKE i \in 1..n
  <2>1. After(text, i) \in 1..n + 1 /\ next[i] = After(text, i)
    BY <1>0, <1>2
  <2>2. f[After(text, i)] \in V
    BY <1>6, <2>1
  <2> QED
    BY <1>6, <2>1, <2>2
<1>8. f = W(f)
  <2>1. ASSUME NEW i \in 1..n + 1 PROVE f[i] = W(f)[i]
    <3>1. CASE i = n + 1
      BY <3>1, <1>0, <1>6
    <3>2. CASE i # n + 1
      <4>1. i \in 1..n /\ ~(i > n)
        BY <3>2, <1>0
      <4>2. f[i] = <<ByteAt(text, i)>> \o f[After(text, i)]
        BY <4>1, <1>7
      <4>3. f[i] = IF IsEscape(text, i)
                   THEN <<16 * HexValue(text[i + 1]) + HexValue(text[i + 2])>> \o f[i + 3]
                   ELSE <<text[i]>> \o f[i + 1]
        BY <4>2 DEF ByteAt, After
      <4> QED
        BY <4>1, <4>3
    <3> QED
      BY <3>1, <3>2
  <2> QED
    BY <1>6, <2>1
<1> DEFINE d == CHOOSE g : g = W(g)
<1>9. d = W(d)
  <2> HIDE DEF W
  <2> QED
    BY <1>8
<1>10. PercentDecode(text) = d[1]
  BY DEF PercentDecode, IsEscape
<1>11. d[n + 1] = <<>> /\ \A i \in 1..n : d[i] = <<ByteAt(text, i)>> \o d[After(text, i)]
  <2> HIDE DEF d
  <2>1. d[n + 1] = <<>>
    BY <1>0, <1>9
  <2>2. ASSUME NEW i \in 1..n PROVE d[i] = <<ByteAt(text, i)>> \o d[After(text, i)]
    <3>1. i \in 1..n + 1 /\ ~(i > n)
      BY <1>0
    <3>2. d[i] = IF IsEscape(text, i)
                 THEN <<16 * HexValue(text[i + 1]) + HexValue(text[i + 2])>> \o d[i + 3]
                 ELSE <<text[i]>> \o d[i + 1]
      BY <1>9, <3>1
    <3> QED
      BY <3>2 DEF ByteAt, After
  <2> QED
    BY <2>1, <2>2
<1>12. \A i \in 1..n + 1 : d[i] \in V
  <2> HIDE DEF d, n
  <2> DEFINE S == {k \in Nat : \A i \in 1..n + 1 : n + 1 - i <= k => d[i] \in V}
  <2>1. 0 \in S
    BY <1>0, <1>11
  <2>2. ASSUME NEW k \in Nat, k \in S PROVE k + 1 \in S
    <3> SUFFICES ASSUME NEW i \in 1..n + 1, n + 1 - i <= k + 1 PROVE d[i] \in V
      OBVIOUS
    <3>1. CASE i = n + 1
      BY <3>1, <1>0, <1>11
    <3>2. CASE i # n + 1
      <4>1. i \in 1..n
        BY <3>2, <1>0
      <4>2. After(text, i) \in 1..n + 1 /\ n + 1 - After(text, i) <= k
        BY <4>1, <1>0, <1>2
      <4>3. d[After(text, i)] \in V /\ ByteAt(text, i) \in Int
        BY <4>1, <4>2, <2>2, <1>1
      <4>4. d[i] = <<ByteAt(text, i)>> \o d[After(text, i)]
        BY <4>1, <1>11
      <4> QED
        BY <4>3, <4>4 DEF V
    <3> QED
      BY <3>1, <3>2
  <2>3. \A k \in Nat : k \in S
    <3> HIDE DEF S
    <3> QED
      BY <2>1, <2>2, NatsFrom
  <2>4. n + 1 \in Nat
    BY <1>0
  <2>5. n + 1 \in S
    <3> HIDE DEF S
    <3> QED
      BY <2>3, <2>4
  <2> QED
    BY <1>0, <2>5
<1>13. Decoding(text, d)
  <2> HIDE DEF d
  <2> QED
    BY <1>9, <1>11, <1>12 DEF Decoding, V
<1> QED
  BY <1>10, <1>13

LEMMA HighAndLow ==
  ASSUME NEW b \in Int, b \in 0..255, NEW q \in Int, NEW r \in Int, q = b \div 16, r = b % 16
  PROVE  16 * q + r = b /\ q \in 0..15 /\ r \in 0..15
BY Z3

LEMMA HexReads ==
  ASSUME NEW b \in 0..255
  PROVE  /\ IsHex(HexDigit(b \div 16)) /\ IsHex(HexDigit(b % 16))
         /\ 16 * HexValue(HexDigit(b \div 16)) + HexValue(HexDigit(b % 16)) = b
<1>0. b \in Int /\ b \div 16 \in Int /\ b % 16 \in Int
  OBVIOUS
<1> DEFINE q == b \div 16
           m == b % 16
<1>1. q \in 0..15 /\ m \in 0..15 /\ 16 * q + m = b
  <2>1. q \in Int /\ m \in Int /\ q = b \div 16 /\ m = b % 16
    BY <1>0
  <2> HIDE DEF q, m
  <2> QED
    BY <1>0, <2>1, HighAndLow
<1>2. \A d \in 0..15 : IsHex(HexDigit(d)) /\ HexValue(HexDigit(d)) = d
  BY DEF IsHex, HexDigit, HexValue
<1> HIDE DEF q, m
<1>3. IsHex(HexDigit(q)) /\ IsHex(HexDigit(m)) /\ 16 * HexValue(HexDigit(q)) + HexValue(HexDigit(m)) = b
  BY <1>1, <1>2
<1> QED
  BY <1>3 DEF q, m

LEMMA Joined ==
  ASSUME NEW s \in Seq(Int), NEW t \in Seq(Int)
  PROVE  /\ s \o t \in Seq(Int) /\ Len(s \o t) = Len(s) + Len(t) /\ Len(s) <= Len(s \o t)
         /\ \A k \in 1..Len(s) : (s \o t)[k] = s[k]
         /\ \A k \in 1..Len(t) : (s \o t)[Len(s) + k] = t[k]
<1>1. s \o t \in Seq(Int) /\ Len(s \o t) = Len(s) + Len(t)
  OBVIOUS
<1>2. Len(s) \in Nat /\ Len(t) \in Nat
  OBVIOUS
<1>3. Len(s) <= Len(s \o t)
  BY <1>1, <1>2
<1>4. /\ \A k \in 1..Len(s) : (s \o t)[k] = s[k]
      /\ \A k \in 1..Len(t) : (s \o t)[Len(s) + k] = t[k]
  OBVIOUS
<1> QED
  BY <1>1, <1>3, <1>4

(* An encoding so far is the start of every later one.                     *)
LEMMA EncodingGrows ==
  ASSUME NEW path \in Seq(Int), NEW e, Encoding(path, e), NEW i \in 0..Len(path)
  PROVE  \A j \in i..Len(path) : /\ Len(e[i]) <= Len(e[j])
                                 /\ \A k \in 1..Len(e[i]) : e[j][k] = e[i][k]
<1> DEFINE n == Len(path)
           Extends(j) == Len(e[i]) <= Len(e[j]) /\ \A k \in 1..Len(e[i]) : e[j][k] = e[i][k]
           S == {d \in Nat : i + d <= n => Extends(i + d)}
<1>0. n \in Nat /\ i \in 0..n
  OBVIOUS
<1>1. 0 \in S
  <2>1. e[i] \in Seq(Int) /\ i + 0 = i
    BY DEF Encoding
  <2> QED
    BY <2>1
<1>2. ASSUME NEW d \in Nat, d \in S PROVE d + 1 \in S
  <2> SUFFICES ASSUME i + (d + 1) <= n PROVE Extends(i + (d + 1))
    OBVIOUS
  <2> DEFINE j == i + d
  <2>1. j \in 0..n /\ j + 1 \in 1..n /\ Extends(j) /\ i + (d + 1) = j + 1 /\ (j + 1) - 1 = j
    BY <1>0, <1>2
  <2> HIDE DEF j
  <2>2. e[j + 1] = e[j] \o Chunk(path[j + 1])
    BY <2>1 DEF Encoding
  <2>3. path[j + 1] \in Int
    BY <2>1
  <2>4. Chunk(path[j + 1]) \in Seq(Int) /\ e[j] \in Seq(Int) /\ e[i] \in Seq(Int)
    BY <2>1, <2>3, ChunkTyped DEF Encoding
  <2>5. Len(e[j]) <= Len(e[j + 1]) /\ \A k \in 1..Len(e[j]) : e[j + 1][k] = e[j][k]
    <3> DEFINE t == Chunk(path[j + 1])
               u == e[j]
    <3>1. u \in Seq(Int) /\ t \in Seq(Int) /\ e[j + 1] = u \o t
      BY <2>2, <2>4
    <3> HIDE DEF t, u
    <3>2. Len(u) <= Len(e[j + 1]) /\ \A k \in 1..Len(u) : e[j + 1][k] = u[k]
      BY <3>1, Joined
    <3> QED
      BY <3>2 DEF u
  <2>6. Len(e[i]) \in Nat /\ Len(e[j]) \in Nat /\ Len(e[j + 1]) \in Nat
    BY <2>1, <2>4 DEF Encoding
  <2>7. Len(e[i]) <= Len(e[j]) /\ \A k \in 1..Len(e[i]) : e[j][k] = e[i][k]
    BY <2>1
  <2>8. Extends(j + 1)
    BY <2>5, <2>6, <2>7
  <2> QED
    BY <2>1, <2>8
<1>3. \A d \in Nat : d \in S
  <2> HIDE DEF S
  <2> QED
    BY <1>1, <1>2, NatsFrom
<1> QED
  <2> TAKE j \in i..n
  <2>1. j - i \in Nat /\ i + (j - i) = j
    BY <1>0
  <2>2. j - i \in S
    <3> HIDE DEF S
    <3> QED
      BY <1>3, <2>1
  <2> QED
    BY <2>1, <2>2

(* The bytes of an encoded path where its i-th byte's begin: the byte that *)
(* is read there, and where the next one begins.                           *)
LEMMA EncodingReads ==
  ASSUME NEW path \in Seq(0..255), NEW e, Encoding(path, e), NEW i \in 1..Len(path)
  PROVE  LET text == e[Len(path)]
             at == Len(e[i - 1]) + 1
         IN  at \in 1..Len(text) /\ ByteAt(text, at) = path[i] /\ After(text, at) = Len(e[i]) + 1
<1> DEFINE n == Len(path)
           text == e[n]
           l == Len(e[i - 1])
           b == path[i]
<1>0. path \in Seq(Int)
  <2>1. 0..255 \subseteq Int
    OBVIOUS
  <2> QED
    BY <2>1, SeqMonotonic
<1>1. n \in Nat /\ i - 1 \in 0..n /\ i \in 0..n /\ b \in 0..255 /\ b \in Int
  <2>1. b \in 0..255
    BY ElementOfSeq
  <2>2. n \in Nat /\ i \in 1..n
    OBVIOUS
  <2> HIDE DEF n, b
  <2>3. i - 1 \in 0..n /\ i \in 0..n
    BY <2>2
  <2> QED
    BY <2>1, <2>2, <2>3
<1>2. e[i - 1] \in Seq(Int) /\ e[i] \in Seq(Int) /\ text \in Seq(Int) /\ e[i] = e[i - 1] \o Chunk(b)
  <2> HIDE DEF n
  <2>1. e \in [0..n -> Seq(Int)]
    BY DEF Encoding, n
  <2>2. n \in 0..n
    BY <1>1
  <2> QED
    BY <1>1, <2>1, <2>2 DEF Encoding, n
<1> HIDE DEF text, l, b, n
<1>3. l \in Nat /\ Len(e[i]) \in Nat /\ Len(text) \in Nat
  BY <1>2 DEF l
<1>4. Chunk(b) \in Seq(Int) /\ Len(Chunk(b)) \in 1..3
  BY <1>1, ChunkTyped
<1>5. Len(e[i]) = l + Len(Chunk(b)) /\ \A k \in 1..Len(Chunk(b)) : e[i][l + k] = Chunk(b)[k]
  BY <1>2, <1>4, Joined DEF l
<1>6. Len(e[i]) <= Len(text) /\ \A k \in 1..Len(e[i]) : text[k] = e[i][k]
  <2>1. n \in i..n
    BY <1>1
  <2> QED
    BY <1>0, <1>1, <2>1, EncodingGrows DEF text, n
<1>7. \A k \in 1..Len(Chunk(b)) : text[l + k] = Chunk(b)[k] /\ l + k <= Len(text)
  BY <1>3, <1>4, <1>5, <1>6
<1>8. CASE b \in Unreserved
  <2>1. Chunk(b) = <<b>> /\ b # 37
    BY <1>8 DEF Chunk, Unreserved
  <2>2. text[l + 1] = b /\ Len(e[i]) = l + 1 /\ l + 1 <= Len(text)
    BY <2>1, <1>5, <1>7
  <2> QED
    BY <1>3, <2>1, <2>2 DEF ByteAt, After, IsEscape, text, l, b, n
<1>9. CASE b \notin Unreserved
  <2>1. Chunk(b) = <<37, HexDigit(b \div 16), HexDigit(b % 16)>>
    BY <1>9 DEF Chunk
  <2>2. /\ text[l + 1] = 37 /\ text[(l + 1) + 1] = HexDigit(b \div 16) /\ text[(l + 1) + 2] = HexDigit(b % 16)
        /\ Len(e[i]) = l + 3 /\ l + 3 <= Len(text)
    <3>1. /\ Len(Chunk(b)) = 3 /\ Chunk(b)[1] = 37 /\ Chunk(b)[2] = HexDigit(b \div 16)
          /\ Chunk(b)[3] = HexDigit(b % 16) /\ (l + 1) + 1 = l + 2 /\ (l + 1) + 2 = l + 3
      BY <1>3, <2>1
    <3> QED
      BY <3>1, <1>5, <1>7
  <2>3. IsEscape(text, l + 1)
    <3>1. (l + 1) + 2 <= Len(text)
      BY <1>3, <2>2
    <3> QED
      BY <1>1, <2>2, <3>1, HexReads DEF IsEscape, EscapeFits
  <2>4. ByteAt(text, l + 1) = b
    BY <1>1, <2>2, <2>3, HexReads DEF ByteAt
  <2>5. After(text, l + 1) = Len(e[i]) + 1 /\ l + 1 \in 1..Len(text)
    BY <1>3, <2>2, <2>3 DEF After
  <2> QED
    BY <2>4, <2>5 DEF text, l, b, n
<1> QED
  BY <1>8, <1>9

(* A decoded path is the path that was encoded, whatever its bytes.        *)
LEMMA DecodeEncode ==
  ASSUME NEW path \in Seq(0..255)
  PROVE  PercentDecode(PercentEncode(path)) = path
<1> DEFINE n == Len(path)
<1>0. n \in Nat /\ path \in Seq(Int)
  <2>1. 0..255 \subseteq Int
    OBVIOUS
  <2>2. path \in Seq(Int)
    BY <2>1, SeqMonotonic
  <2> QED
    BY <2>2
<1>1. PICK e : Encoding(path, e) /\ PercentEncode(path) = e[n]
  BY <1>0, EncodeIs
<1> DEFINE text == e[n]
<1>2. text \in Seq(Int)
  BY <1>0, <1>1 DEF Encoding
<1>3. PICK d : Decoding(text, d) /\ PercentDecode(text) = d[1]
  BY <1>2, DecodeIs
<1>4. \A i \in 1..n : LET at == Len(e[i - 1]) + 1
                       IN  at \in 1..Len(text) /\ ByteAt(text, at) = path[i] /\ After(text, at) = Len(e[i]) + 1
  BY <1>1, EncodingReads
<1> DEFINE S == {k \in Nat : k <= n => d[Len(e[n - k]) + 1] = SubSeq(path, n - k + 1, n)}
<1>5. 0 \in S
  <2>1. d[Len(e[n]) + 1] = <<>>
    BY <1>3 DEF Decoding
  <2>2. SubSeq(path, n - 0 + 1, n) = <<>> /\ n - 0 = n
    BY <1>0
  <2> QED
    BY <2>1, <2>2
<1>6. ASSUME NEW k \in Nat, k \in S PROVE k + 1 \in S
  <2> SUFFICES ASSUME k + 1 <= n PROVE d[Len(e[n - (k + 1)]) + 1] = SubSeq(path, n - (k + 1) + 1, n)
    OBVIOUS
  <2> DEFINE i == n - k
  <2>1. i \in 1..n /\ n - (k + 1) = i - 1 /\ n - (k + 1) + 1 = i
    BY <1>0
  <2>2. d[Len(e[i]) + 1] = SubSeq(path, i + 1, n)
    BY <1>0, <1>6
  <2> HIDE DEF i
  <2> DEFINE at == Len(e[i - 1]) + 1
  <2>3. at \in 1..Len(text) /\ ByteAt(text, at) = path[i] /\ After(text, at) = Len(e[i]) + 1
    BY <1>4, <2>1
  <2> HIDE DEF at, text
  <2>4. d[at] = <<path[i]>> \o SubSeq(path, i + 1, n)
    <3>1. d[at] = <<ByteAt(text, at)>> \o d[After(text, at)]
      BY <1>3, <2>3 DEF Decoding
    <3> QED
      BY <3>1, <2>2, <2>3
  <2>5. <<path[i]>> \o SubSeq(path, i + 1, n) = SubSeq(path, i, n)
    <3> HIDE DEF n
    <3> DEFINE a == <<path[i]>> \o SubSeq(path, i + 1, n)
               c == SubSeq(path, i, n)
    <3>0. \A j \in 1..n : path[j] \in Int
      BY <1>0 DEF n
    <3>1. SubSeq(path, i + 1, n) \in Seq(Int) /\ Len(SubSeq(path, i + 1, n)) = n - i
      BY <1>0, <2>1, <3>0, SubSeqProperties
    <3>2. c \in Seq(Int) /\ Len(c) = n - i + 1
      BY <1>0, <2>1, <3>0, SubSeqProperties
    <3>3. <<path[i]>> \in Seq(Int)
      BY <2>1, <3>0
    <3>4. a \in Seq(Int) /\ Len(a) = n - i + 1
      BY <1>0, <2>1, <3>1, <3>3
    <3>5. \A j \in 1..n - i + 1 : a[j] = c[j]
      <4> TAKE j \in 1..n - i + 1
      <4>1. c[j] = path[i + j - 1]
        BY <1>0, <2>1, <3>0, SubSeqProperties
      <4>2. CASE j = 1
        BY <1>0, <2>1, <3>1, <3>3, <4>1, <4>2
      <4>3. CASE j # 1
        <5>1. a[j] = SubSeq(path, i + 1, n)[j - 1]
          <6>1. j - 1 \in 1..n - i /\ 1 + (j - 1) = j /\ Len(<<path[i]>>) = 1
            BY <1>0, <2>1, <4>3
          <6> QED
            BY <3>1, <3>3, <6>1, Joined
        <5>2. SubSeq(path, i + 1, n)[j - 1] = path[(i + 1) + (j - 1) - 1]
          BY <1>0, <2>1, <3>0, <4>3, SubSeqProperties
        <5> QED
          BY <1>0, <2>1, <4>1, <5>1, <5>2
      <4> QED
        BY <4>2, <4>3
    <3> HIDE DEF a, c
    <3>6. a = c
      BY <1>0, <2>1, <3>2, <3>4, <3>5, SeqEqual
    <3> QED
      BY <3>6 DEF a, c
  <2> QED
    BY <2>1, <2>4, <2>5 DEF at
<1>7. n \in S
  <2> HIDE DEF S
  <2> QED
    BY <1>0, <1>5, <1>6, NatsFrom
<1>8. e[0] = <<>> /\ n - n = 0
  BY <1>0, <1>1 DEF Encoding
<1>9. d[1] = SubSeq(path, 1, n)
  <2>1. Len(<<>>) + 1 = 1 /\ n - n + 1 = 1
    BY <1>0
  <2> QED
    BY <1>0, <1>7, <1>8, <2>1
<1>10. SubSeq(path, 1, n) = path
  BY <1>0
<1> QED
  BY <1>1, <1>3, <1>9, <1>10

-----------------------------------------------------------------------------
(* The runtime                                                             *)

(* The answers to the first d messages of a payload.                       *)
Requested(sent, d) == {i \in 1..d : sent[i] # "initialized"}
Called(sent, d) == {i \in 1..d : sent[i] = "call"}

Refused(answers) == \E i \in DOMAIN answers : answers[i] = "not initialized"

Answers == {"ok", "not initialized", "parse error"}
Mcp == Methods \cup {"initialize"}

ConnState == [state : {"new", "open", "gone"}, root : Paths, todo : Seq(Mcp), sent : Seq(Mcp),
              answers : Seq(Answers), ran : Nat]

(* How far a client's payload is: d messages of it are done, each request  *)
(* of them is answered and each call has run, or one of its messages was   *)
(* malformed and the payload is given up.                                  *)
DoneOf(todo, sent) == Len(sent) - Len(todo)
Progress(todo, sent, answers, ran) ==
  /\ Len(todo) <= Len(sent)
  /\ \A i \in 1..Len(todo) : todo[i] = sent[DoneOf(todo, sent) + i]
  /\ Len(answers) = Cardinality(Requested(sent, DoneOf(todo, sent)))
  /\ Refused(answers) \/ ran = Cardinality(Called(sent, DoneOf(todo, sent)))

InOrder(k) == Progress(k.todo, k.sent, k.answers, k.ran)

IsMalformed(k) == \E i \in 1..Len(k.sent) : k.sent[i] = "malformed"

GivenUp(k) == IsMalformed(k) /\ k.todo = <<>> /\ Len(k.answers) = 1

Untouched(k) == k.todo = k.sent /\ k.answers = <<>> /\ k.ran = 0

McpInv ==
  /\ lock \in Clients \cup {NoClient}
  /\ handshaken \in BOOLEAN /\ subscribed \in BOOLEAN
  /\ conn \in [Clients -> ConnState]
  /\ lock # NoClient => conn[lock].sent # <<>>
  /\ \A c \in Clients : InOrder(conn[c]) \/ GivenUp(conn[c])
  /\ \A c \in Clients : /\ c # lock => Untouched(conn[c])
                        /\ conn[c].state = "gone" => conn[c].sent = <<>>
  /\ CallsFindTheirProject /\ HandshakeComesFirst
  /\ \A x \in ranFor : x[1] \in Clients

LEMMA FreshIs ==
  ASSUME NEW root \in Paths, NEW state \in {"new", "open", "gone"}
  PROVE  LET k == [Connection(root) EXCEPT !.state = state]
         IN  /\ k \in ConnState /\ k.root = root /\ k.sent = <<>> /\ k.ran = 0
             /\ Untouched(k) /\ InOrder(k)
<1> DEFINE k == [Connection(root) EXCEPT !.state = state]
<1>1. k = [state |-> state, root |-> root, todo |-> <<>>, sent |-> <<>>, answers |-> <<>>, ran |-> 0]
  BY DEF Connection
<1>2. <<>> \in Seq(Mcp) /\ <<>> \in Seq(Answers)
  OBVIOUS
<1>3. k \in ConnState
  <2> HIDE DEF k
  <2>1. 0 \in Nat
    OBVIOUS
  <2> QED
    BY <1>1, <1>2, <2>1 DEF ConnState, Answers
<1>4. k.todo = <<>> /\ k.sent = <<>> /\ k.answers = <<>> /\ k.ran = 0 /\ k.root = root
  BY <1>1
<1>5. DoneOf(k.todo, k.sent) = 0
  BY <1>4 DEF DoneOf
<1>6. Requested(k.sent, 0) = {} /\ Called(k.sent, 0) = {}
  BY DEF Requested, Called
<1>7. InOrder(k)
  <2>1. Len(<<>>) = 0 /\ Cardinality({}) = 0
    BY FS_EmptySet
  <2> HIDE DEF k
  <2>2. k.todo = k.sent /\ Len(k.todo) = 0 /\ Len(k.sent) = 0 /\ Len(k.answers) = 0
    BY <1>4, <2>1
  <2>3. Requested(k.sent, DoneOf(k.todo, k.sent)) = {} /\ Called(k.sent, DoneOf(k.todo, k.sent)) = {}
    BY <1>5, <1>6
  <2>4. \A i \in 1..Len(k.todo) : k.todo[i] = k.sent[DoneOf(k.todo, k.sent) + i]
    BY <2>2
  <2>5. Len(k.todo) <= Len(k.sent)
    BY <2>2
  <2> QED
    BY <1>4, <2>1, <2>2, <2>3, <2>4, <2>5 DEF InOrder, Progress
<1> QED
  BY <1>3, <1>4, <1>7 DEF Untouched

(* One more message done.                                                  *)
LEMMA OneMore ==
  ASSUME NEW sent, NEW d \in Nat
  PROVE  /\ Cardinality(Requested(sent, d + 1)) =
              Cardinality(Requested(sent, d)) + (IF sent[d + 1] # "initialized" THEN 1 ELSE 0)
         /\ Cardinality(Called(sent, d + 1)) =
              Cardinality(Called(sent, d)) + (IF sent[d + 1] = "call" THEN 1 ELSE 0)
         /\ Cardinality(Requested(sent, d)) \in Nat /\ Cardinality(Called(sent, d)) \in Nat
<1>1. IsFiniteSet(1..d)
  BY FS_Interval
<1>2. Requested(sent, d) \subseteq 1..d /\ Called(sent, d) \subseteq 1..d
  BY DEF Requested, Called
<1>3. IsFiniteSet(Requested(sent, d)) /\ IsFiniteSet(Called(sent, d))
  BY <1>1, <1>2, FS_Subset
<1>4. d + 1 \notin Requested(sent, d) /\ d + 1 \notin Called(sent, d)
  BY <1>2
<1>5. /\ Requested(sent, d + 1) = IF sent[d + 1] # "initialized" THEN Requested(sent, d) \cup {d + 1}
                                  ELSE Requested(sent, d)
      /\ Called(sent, d + 1) = IF sent[d + 1] = "call" THEN Called(sent, d) \cup {d + 1} ELSE Called(sent, d)
  BY DEF Requested, Called
<1>6. Cardinality(Requested(sent, d)) \in Nat /\ Cardinality(Called(sent, d)) \in Nat
  BY <1>3, FS_CardinalityType
<1>7. /\ Cardinality(Requested(sent, d) \cup {d + 1}) = Cardinality(Requested(sent, d)) + 1
      /\ Cardinality(Called(sent, d) \cup {d + 1}) = Cardinality(Called(sent, d)) + 1
  BY <1>3, <1>4, FS_AddElement
<1> QED
  BY <1>5, <1>6, <1>7

(* What a message m makes of the answers and the count of calls.           *)
Handled(m, answers, ran, answers2, ran2) ==
  IF m = "initialized" THEN answers2 = answers /\ ran2 = ran
  ELSE \E a \in Answers : /\ answers2 = Append(answers, a)
                          /\ a = "not initialized" \/ ran2 = ran + (IF m = "call" THEN 1 ELSE 0)

LEMMA MessageDone ==
  ASSUME NEW todo \in Seq(Mcp), NEW sent \in Seq(Mcp), NEW answers \in Seq(Answers), NEW ran \in Nat,
         todo # <<>>, Progress(todo, sent, answers, ran), NEW answers2, NEW ran2,
         Handled(Head(todo), answers, ran, answers2, ran2)
  PROVE  Progress(Tail(todo), sent, answers2, ran2)
<1> DEFINE d == DoneOf(todo, sent)
           m == Head(todo)
           todo2 == Tail(todo)
<1>2. Len(todo) \in Nat \ {0} /\ Len(sent) \in Nat /\ Len(answers) \in Nat
  OBVIOUS
<1>3. Len(todo2) = Len(todo) - 1 /\ \A i \in 1..Len(todo2) : todo2[i] = todo[i + 1]
  BY HeadTailProperties
<1>a. Len(todo) <= Len(sent) /\ \A i \in 1..Len(todo) : todo[i] = sent[d + i]
  BY DEF Progress
<1>b. m = todo[1]
  OBVIOUS
<1> HIDE DEF todo2, m
<1>4. d \in Nat /\ DoneOf(todo2, sent) = d + 1
  BY <1>2, <1>3, <1>a DEF DoneOf
<1>5. m = sent[d + 1]
  BY <1>2, <1>a, <1>b
<1>6. Len(todo2) <= Len(sent) /\ \A i \in 1..Len(todo2) : todo2[i] = sent[DoneOf(todo2, sent) + i]
  <2> HIDE DEF d
  <2>1. Len(todo2) <= Len(sent)
    BY <1>2, <1>3, <1>a
  <2>2. ASSUME NEW i \in 1..Len(todo2) PROVE todo2[i] = sent[DoneOf(todo2, sent) + i]
    <3>1. i + 1 \in 1..Len(todo) /\ d + (i + 1) = DoneOf(todo2, sent) + i
      BY <1>2, <1>3, <1>4
    <3> QED
      BY <1>3, <1>a, <3>1
  <2> QED
    BY <2>1, <2>2
<1>7. /\ Cardinality(Requested(sent, d + 1)) =
           Cardinality(Requested(sent, d)) + (IF m # "initialized" THEN 1 ELSE 0)
      /\ Cardinality(Called(sent, d + 1)) = Cardinality(Called(sent, d)) + (IF m = "call" THEN 1 ELSE 0)
      /\ Cardinality(Requested(sent, d)) \in Nat /\ Cardinality(Called(sent, d)) \in Nat
  BY <1>4, <1>5, OneMore
<1>8. ASSUME NEW a \in Answers
      PROVE  /\ Len(Append(answers, a)) = Len(answers) + 1
             /\ Refused(answers) => Refused(Append(answers, a))
             /\ a = "not initialized" => Refused(Append(answers, a))
  <2> DEFINE l == Len(answers)
             n == Append(answers, a)
  <2>1. n \in Seq(Answers) /\ Len(n) = l + 1 /\ n[l + 1] = a /\ \A i \in 1..l : n[i] = answers[i]
    BY AppendProperties
  <2>2. DOMAIN answers = 1..l /\ DOMAIN n = 1..Len(n)
    BY <2>1, LenProperties
  <2> HIDE DEF n, l
  <2>3. l \in Nat
    BY <1>2 DEF l
  <2>6. Len(n) = l + 1
    BY <2>1
  <2>7. l + 1 \in DOMAIN n /\ \A i \in 1..l : i \in DOMAIN n
    BY <2>2, <2>3, <2>6
  <2>4. a = "not initialized" => Refused(n)
    BY <2>1, <2>7, Zenon DEF Refused
  <2>5. Refused(answers) => Refused(n)
    BY <2>1, <2>2, <2>7, Zenon DEF Refused
  <2> QED
    BY <2>1, <2>4, <2>5 DEF n, l
<1>9. Len(answers) = Cardinality(Requested(sent, d)) /\ (Refused(answers) \/ ran = Cardinality(Called(sent, d)))
  BY DEF Progress
<1> HIDE DEF d
<1>10. /\ Len(answers2) = Cardinality(Requested(sent, d + 1))
       /\ Refused(answers2) \/ ran2 = Cardinality(Called(sent, d + 1))
  <2>0. Handled(m, answers, ran, answers2, ran2)
    BY DEF m
  <2>1. CASE m = "initialized"
    <3>1. answers2 = answers /\ ran2 = ran
      BY <2>0, <2>1 DEF Handled
    <3>2. /\ Cardinality(Requested(sent, d + 1)) = Cardinality(Requested(sent, d))
          /\ Cardinality(Called(sent, d + 1)) = Cardinality(Called(sent, d))
      BY <1>7, <2>1
    <3> QED
      BY <1>9, <3>1, <3>2
  <2>2. ASSUME NEW a \in Answers, m # "initialized", answers2 = Append(answers, a),
               a = "not initialized" \/ ran2 = ran + (IF m = "call" THEN 1 ELSE 0)
        PROVE  /\ Len(answers2) = Cardinality(Requested(sent, d + 1))
               /\ Refused(answers2) \/ ran2 = Cardinality(Called(sent, d + 1))
    <3>1. Len(answers2) = Cardinality(Requested(sent, d + 1))
      BY <1>7, <1>8, <1>9, <2>2
    <3>2. CASE Refused(answers) \/ a = "not initialized"
      BY <1>8, <2>2, <3>1, <3>2
    <3>3. CASE ~Refused(answers) /\ a # "not initialized"
      BY <1>7, <1>9, <2>2, <3>1, <3>3
    <3> QED
      BY <3>2, <3>3
  <2> QED
    BY <2>0, <2>1, <2>2 DEF Handled
<1> QED
  BY <1>4, <1>6, <1>10 DEF Progress, todo2

(* A payload that was just sent.                                           *)
LEMMA JustSent ==
  ASSUME NEW k \in ConnState, Untouched(k)
  PROVE  InOrder(k)
<1>1. k.sent \in Seq(Mcp) /\ Len(k.sent) \in Nat
  BY DEF ConnState
<1>2. DoneOf(k.todo, k.sent) = 0 /\ Len(k.answers) = 0
  BY <1>1 DEF DoneOf, Untouched
<1>3. Requested(k.sent, 0) = {} /\ Called(k.sent, 0) = {}
  BY DEF Requested, Called
<1>4. Len(k.todo) <= Len(k.sent) /\ \A i \in 1..Len(k.todo) : k.todo[i] = k.sent[DoneOf(k.todo, k.sent) + i]
  BY <1>1, <1>2 DEF Untouched
<1> QED
  BY <1>2, <1>3, <1>4, FS_EmptySet DEF InOrder, Progress, Untouched

(* One client's payload changes.                                           *)
LEMMA OneChanges ==
  ASSUME McpInv, NEW c \in Clients, NEW k \in ConnState, conn' = [conn EXCEPT ![c] = k],
         k.root = conn[c].root, InOrder(k) \/ GivenUp(k),
         lock' \in {lock, NoClient}, lock' = NoClient => lock \in {c, NoClient},
         IF c = lock' THEN k.sent # <<>> ELSE Untouched(k), k.state = "gone" => k.sent = <<>>,
         handshaken' \in BOOLEAN, subscribed' \in BOOLEAN, handshaken => handshaken',
         subscribed' => handshaken', k.ran > 0 /\ lock' = c => handshaken',
         ranFor' \subseteq ranFor \cup {<<c, PercentDecode(Header(c))>>}
  PROVE  McpInv'
<1>1. conn' \in [Clients -> ConnState] /\ conn'[c] = k /\ \A b \in Clients : b # c => conn'[b] = conn[b]
  BY DEF McpInv
<1>2. \A b \in Clients : conn'[b].root = conn[b].root
  BY <1>1
<1>3. lock' \in Clients \cup {NoClient}
  BY DEF McpInv
<1>4. lock' # NoClient => conn'[lock'].sent # <<>>
  BY <1>1 DEF McpInv
<1>5. \A b \in Clients : InOrder(conn'[b]) \/ GivenUp(conn'[b])
  BY <1>1 DEF McpInv
<1>6. \A b \in Clients : /\ b # lock' => Untouched(conn'[b])
                         /\ conn'[b].state = "gone" => conn'[b].sent = <<>>
  BY <1>1 DEF McpInv
<1>7. \A x \in ranFor' : x[1] \in Clients /\ (x[1] \notin Raw => x[2] = conn'[x[1]].root)
  <2> TAKE x \in ranFor'
  <2>1. CASE x \in ranFor
    BY <2>1, <1>2 DEF McpInv, CallsFindTheirProject
  <2>2. CASE x = <<c, PercentDecode(Header(c))>>
    <3>1. x[1] = c /\ x[2] = PercentDecode(Header(c))
      BY <2>2
    <3>2. conn[c].root \in Paths
      BY DEF McpInv, ConnState
    <3>3. c \notin Raw => PercentDecode(Header(c)) = conn[c].root
      BY <3>2, McpConstants, DecodeEncode DEF Header
    <3> QED
      BY <3>1, <3>3, <1>2
  <2> QED
    BY <2>1, <2>2
<1>8. ASSUME NEW b \in Clients, conn'[b].ran > 0, lock' = b PROVE handshaken'
  <2>1. CASE b = c
    BY <2>1, <1>1, <1>8
  <2>2. CASE b # c
    <3>1. b # NoClient
      BY McpConstants
    <3>2. lock = b
      BY <3>1, <1>8
    <3> QED
      BY <2>2, <3>2, <1>1, <1>8 DEF McpInv, HandshakeComesFirst
  <2> QED
    BY <2>1, <2>2
<1>9. HandshakeComesFirst'
  BY <1>8 DEF HandshakeComesFirst
<1> QED
  BY <1>1, <1>3, <1>4, <1>5, <1>6, <1>7, <1>9 DEF McpInv, CallsFindTheirProject

LEMMA EndedIs ==
  ASSUME NEW k \in ConnState, NEW state \in {"new", "open", "gone"}
  PROVE  LET e == [Connection(k.root) EXCEPT !.state = state]
         IN  e \in ConnState /\ e.root = k.root /\ e.sent = <<>> /\ Untouched(e) /\ InOrder(e)
<1>1. k.root \in Paths
  BY DEF ConnState
<1> QED
  BY <1>1, FreshIs

LEMMA McpInvInit == McpInit => McpInv
<1> SUFFICES ASSUME McpInit PROVE McpInv
  OBVIOUS
<1>1. PICK root \in [Clients -> Paths] : conn = [c \in Clients |-> Connection(root[c])]
  BY DEF McpInit
<1>2. ASSUME NEW c \in Clients 
      PROVE  /\ conn[c] \in ConnState /\ Untouched(conn[c]) /\ InOrder(conn[c])
             /\ conn[c].ran = 0 /\ conn[c].sent = <<>>
  <2>1. conn[c] = [Connection(root[c]) EXCEPT !.state = "new"] /\ root[c] \in Paths
    BY <1>1 DEF Connection
  <2> QED
    BY <2>1, FreshIs
<1>3. conn \in [Clients -> ConnState]
  BY <1>1, <1>2
<1> QED
  <2>1. lock = NoClient /\ handshaken = FALSE /\ subscribed = FALSE /\ ranFor = {}
    BY DEF McpInit
  <2>2. HandshakeComesFirst /\ CallsFindTheirProject
    BY <1>2, <2>1 DEF CallsFindTheirProject, HandshakeComesFirst
  <2> QED
    BY <1>2, <1>3, <2>1, <2>2 DEF McpInv

LEMMA RequestKeeps ==
  ASSUME McpInv, NEW c \in Clients, Post(c)
  PROVE  McpInv'
<1>1. PICK p \in Payloads(c) :
        conn' = [conn EXCEPT ![c] = IF serving THEN [@ EXCEPT !.sent = p, !.todo = p, !.answers = <<>>, !.ran = 0]
                                          ELSE Ended(@)]
  BY DEF Post
<1>2. p \in Seq(Mcp) /\ p # <<>>
  <2>1. \A m \in Mcp, n \in Mcp : /\ <<m>> \in Seq(Mcp) /\ <<m>> # <<>>
                                 /\ <<m, n>> \in Seq(Mcp) /\ <<m, n>> # <<>>
    OBVIOUS
  <2>2. "initialize" \in Mcp /\ Methods \subseteq Mcp /\ {"ping", "call", "malformed"} \subseteq Mcp
    BY DEF Mcp, Methods
  <2> HIDE DEF Mcp
  <2>3. \/ p = <<"initialize">>
        \/ \E m \in Methods : p = <<m>>
        \/ \E m \in Methods, n \in {"ping", "call", "malformed"} : p = <<m, n>>
    BY DEF Payloads
  <2> QED
    BY <2>1, <2>2, <2>3
<1>3. conn[c] \in ConnState /\ c # lock /\ conn[c].state # "gone"
  BY McpConstants DEF McpInv, Post
<1>4. UNCHANGED <<handshaken, subscribed, lock, ranFor>> /\ handshaken \in BOOLEAN /\ subscribed \in BOOLEAN
  BY DEF Post, McpInv
<1>5. subscribed => handshaken
  BY DEF McpInv, HandshakeComesFirst
<1>6. CASE serving
  <2> DEFINE k == [conn[c] EXCEPT !.sent = p, !.todo = p, !.answers = <<>>, !.ran = 0]
  <2>1. <<>> \in Seq(Answers)
    OBVIOUS
  <2>2. /\ k \in ConnState /\ k.root = conn[c].root /\ k.sent = p /\ k.todo = p /\ k.answers = <<>> /\ k.ran = 0
        /\ k.state = conn[c].state
    BY <1>2, <1>3, <2>1 DEF ConnState
  <2>3. conn' = [conn EXCEPT ![c] = k]
    BY <1>1, <1>6
  <2> HIDE DEF k
  <2>4. Untouched(k) /\ InOrder(k)
    BY <2>2, JustSent DEF Untouched
  <2> QED
    BY <1>3, <1>4, <1>5, <2>2, <2>3, <2>4, OneChanges
<1>7. CASE ~serving
  <2> DEFINE k == Ended(conn[c])
  <2>1. k \in ConnState /\ k.root = conn[c].root /\ k.sent = <<>> /\ Untouched(k) /\ InOrder(k)
    BY <1>3, EndedIs DEF Ended
  <2>2. conn' = [conn EXCEPT ![c] = k]
    BY <1>1, <1>7
  <2> HIDE DEF k
  <2> QED
    BY <1>3, <1>4, <1>5, <2>1, <2>2, OneChanges
<1> QED
  BY <1>6, <1>7

LEMMA LockKeeps ==
  ASSUME McpInv, NEW c \in Clients, Lock(c)
  PROVE  McpInv'
<1>1. UNCHANGED <<handshaken, subscribed, ranFor>> /\ handshaken \in BOOLEAN /\ subscribed \in BOOLEAN
  BY DEF Lock, McpInv
<1>2. lock = NoClient /\ conn[c].sent # <<>> /\ conn[c] \in ConnState /\ NoClient \notin Clients
  BY McpConstants DEF Lock, McpInv
<1>3. subscribed => handshaken
  BY DEF McpInv, HandshakeComesFirst
<1>4. CASE poisoned
  <2> DEFINE k == Ended(conn[c])
  <2>1. k \in ConnState /\ k.root = conn[c].root /\ k.sent = <<>> /\ Untouched(k) /\ InOrder(k)
    BY <1>2, EndedIs DEF Ended
  <2>2. conn' = [conn EXCEPT ![c] = k] /\ lock' = lock
    BY <1>4 DEF Lock
  <2> HIDE DEF k
  <2> QED
    BY <1>1, <1>2, <1>3, <2>1, <2>2, OneChanges
<1>5. CASE ~poisoned
  <2>1. lock' = c /\ conn' = conn
    BY <1>5 DEF Lock
  <2>2. \A b \in Clients : Untouched(conn[b])
    BY <1>2 DEF McpInv
  <2>3. conn[c].ran = 0
    BY <2>2 DEF Untouched
  <2>4. HandshakeComesFirst'
    BY <1>1, <1>3, <2>1, <2>3 DEF HandshakeComesFirst
  <2> QED
    BY <1>1, <1>2, <2>1, <2>2, <2>4 DEF McpInv, CallsFindTheirProject
<1> QED
  BY <1>4, <1>5

LEMMA ReplyKeeps ==
  ASSUME McpInv, Reply
  PROVE  McpInv'
<1>1. UNCHANGED <<handshaken, subscribed, ranFor>> /\ handshaken \in BOOLEAN /\ subscribed \in BOOLEAN
  BY DEF Reply, McpInv
<1>2. lock \in Clients /\ conn[lock] \in ConnState /\ NoClient \notin Clients /\ lock' = NoClient
  BY McpConstants DEF Reply, McpInv
<1>3. subscribed => handshaken
  BY DEF McpInv, HandshakeComesFirst
<1> DEFINE k == [Connection(conn[lock].root) EXCEPT !.state = "open"]
<1>4. k \in ConnState /\ k.root = conn[lock].root /\ k.sent = <<>> /\ Untouched(k) /\ InOrder(k)
  BY <1>2, EndedIs
<1>5. conn' = [conn EXCEPT ![lock] = k]
  BY DEF Reply
<1> HIDE DEF k
<1> QED
  BY <1>1, <1>2, <1>3, <1>4, <1>5, OneChanges

LEMMA ReconnectKeeps ==
  ASSUME McpInv, NEW c \in Clients, Reconnect(c)
  PROVE  McpInv'
<1>1. UNCHANGED <<handshaken, subscribed, lock, ranFor>> /\ handshaken \in BOOLEAN /\ subscribed \in BOOLEAN
  BY DEF Reconnect, McpInv
<1>2. c # lock /\ conn[c] \in ConnState
  BY McpConstants DEF McpInv, Reconnect
<1>3. subscribed => handshaken
  BY DEF McpInv, HandshakeComesFirst
<1> DEFINE k == [Connection(conn[c].root) EXCEPT !.state = "new"]
<1>4. k \in ConnState /\ k.root = conn[c].root /\ k.sent = <<>> /\ Untouched(k) /\ InOrder(k)
  BY <1>2, EndedIs
<1>5. conn' = [conn EXCEPT ![c] = k]
  BY DEF Reconnect, Connection
<1> HIDE DEF k
<1> QED
  BY <1>1, <1>2, <1>3, <1>4, <1>5, OneChanges

LEMMA ServiceEndsKeeps ==
  ASSUME McpInv, ServiceEnds
  PROVE  McpInv'
<1>1. ASSUME NEW c \in Clients
      PROVE  /\ conn'[c] \in ConnState /\ conn'[c].root = conn[c].root
             /\ Untouched(conn'[c]) /\ InOrder(conn'[c]) /\ (conn'[c].state = "gone" => conn'[c].sent = <<>>)
  <2>1. conn[c] \in ConnState
    BY DEF McpInv
  <2>2. CASE conn[c].sent # <<>>
    <3>1. conn'[c] = [Connection(conn[c].root) EXCEPT !.state = "gone"]
      BY <2>2 DEF ServiceEnds, Ended
    <3> QED
      BY <2>1, <3>1, EndedIs
  <2>3. CASE conn[c].sent = <<>>
    <3>1. conn'[c] = conn[c]
      BY <2>3 DEF ServiceEnds
    <3>2. c # lock
      BY <2>3, McpConstants DEF McpInv
    <3>3. Untouched(conn[c])
      BY <3>2 DEF McpInv
    <3> QED
      BY <2>1, <2>3, <3>1, <3>3, JustSent
  <2> QED
    BY <2>2, <2>3
<1>2. conn' \in [Clients -> ConnState]
  BY <1>1 DEF ServiceEnds
<1>3. handshaken' = FALSE /\ subscribed' = FALSE /\ lock' = NoClient /\ ranFor' = ranFor
  BY DEF ServiceEnds
<1>4. CallsFindTheirProject' /\ HandshakeComesFirst'
  BY <1>1, <1>3, McpConstants DEF McpInv, CallsFindTheirProject, HandshakeComesFirst
<1> QED
  BY <1>1, <1>2, <1>3, <1>4 DEF McpInv

(* A message of the client that holds the lock.                            *)
LEMMA HandleKeeps ==
  ASSUME McpInv, lock \in Clients, conn[lock].todo # <<>>, NEW k \in ConnState, conn' = [conn EXCEPT ![lock] = k],
         k.root = conn[lock].root, k.state = conn[lock].state, k.sent = conn[lock].sent,
         k.todo = Tail(conn[lock].todo),
         Handled(Head(conn[lock].todo), conn[lock].answers, conn[lock].ran, k.answers, k.ran),
         lock' = lock, handshaken' \in BOOLEAN, subscribed' \in BOOLEAN, handshaken => handshaken',
         subscribed' => handshaken', k.ran > 0 => handshaken',
         ranFor' \subseteq ranFor \cup {<<lock, PercentDecode(Header(lock))>>}
  PROVE  McpInv'
<1> DEFINE o == conn[lock]
<1>1. /\ o.todo \in Seq(Mcp) /\ o.sent \in Seq(Mcp) /\ o.answers \in Seq(Answers) /\ o.ran \in Nat
      /\ (o.state = "gone" => o.sent = <<>>) /\ o.sent # <<>> /\ lock # NoClient
  BY McpConstants DEF McpInv, ConnState
<1>2. InOrder(o)
  BY DEF McpInv, GivenUp
<1>3. InOrder(k)
  <2> HIDE DEF o
  <2>1. Progress(o.todo, o.sent, o.answers, o.ran) /\ o.todo # <<>>
    BY <1>2 DEF InOrder, o
  <2>2. Handled(Head(o.todo), o.answers, o.ran, k.answers, k.ran)
    BY DEF o
  <2>3. Progress(Tail(o.todo), o.sent, k.answers, k.ran)
    BY <1>1, <2>1, <2>2, MessageDone
  <2> QED
    BY <2>3 DEF InOrder, o
<1> QED
  BY <1>1, <1>3, OneChanges

LEMMA HandleOneKeeps ==
  ASSUME McpInv, HandleOne
  PROVE  McpInv'
<1> DEFINE o == conn[lock]
           m == Head(o.todo)
           after == Tail(o.todo)
<1>1. lock \in Clients /\ lock # NoClient /\ o \in ConnState /\ o.todo # <<>> /\ o.sent # <<>>
  BY McpConstants DEF HandleOne, McpInv
<1>2. /\ o.todo \in Seq(Mcp) /\ o.sent \in Seq(Mcp) /\ o.answers \in Seq(Answers) /\ o.ran \in Nat
      /\ o.state \in {"new", "open", "gone"} /\ o.root \in Paths
      /\ m \in Mcp /\ after \in Seq(Mcp)
  BY <1>1, HeadTailProperties DEF ConnState
<1>3. /\ handshaken \in BOOLEAN /\ subscribed \in BOOLEAN /\ (subscribed => handshaken)
      /\ (o.ran > 0 => handshaken) /\ (o.state = "gone" => o.sent = <<>>)
  BY <1>1 DEF McpInv, HandshakeComesFirst
<1>4. ASSUME NEW a \in Answers
      PROVE  Append(o.answers, a) \in Seq(Answers)
  BY <1>2, AppendProperties
<1>5. ASSUME m = "malformed", conn' = [conn EXCEPT ![lock].todo = <<>>, ![lock].answers = <<"parse error">>],
             UNCHANGED <<handshaken, subscribed, ranFor, lock>>
      PROVE  McpInv'
  <2> DEFINE k == [o EXCEPT !.todo = <<>>, !.answers = <<"parse error">>]
  <2>1. <<>> \in Seq(Mcp) /\ <<"parse error">> \in Seq(Answers) /\ Len(<<"parse error">>) = 1
    BY DEF Answers
  <2>2. /\ k \in ConnState /\ k.root = o.root /\ k.state = o.state /\ k.sent = o.sent /\ k.todo = <<>>
        /\ k.answers = <<"parse error">> /\ k.ran = o.ran
    BY <1>1, <2>1 DEF ConnState
  <2>3. InOrder(o)
    BY <1>1 DEF McpInv, GivenUp
  <2>4. IsMalformed(k)
    <3> DEFINE d == DoneOf(o.todo, o.sent)
    <3>1. Len(o.todo) \in Nat \ {0} /\ Len(o.sent) \in Nat /\ m = o.todo[1]
      BY <1>1, <1>2
    <3>2. Len(o.todo) <= Len(o.sent) /\ o.todo[1] = o.sent[d + 1]
      BY <2>3, <3>1 DEF InOrder, Progress
    <3>5. d = Len(o.sent) - Len(o.todo)
      BY DEF DoneOf
    <3> HIDE DEF d
    <3>6. Len(o.todo) \in Nat \ {0} /\ Len(o.sent) \in Nat /\ Len(o.todo) <= Len(o.sent)
      BY <3>1, <3>2
    <3>7. \A t \in Nat \ {0}, l \in Nat : t <= l => (l - t) + 1 \in 1..l
      OBVIOUS
    <3>3. d + 1 \in 1..Len(o.sent)
      <4> HIDE DEF o
      <4> QED
        BY <3>5, <3>6, <3>7
    <3>4. k.sent[d + 1] = "malformed"
      BY <1>5, <2>2, <3>1, <3>2
    <3> QED
      BY <2>2, <3>3, <3>4 DEF IsMalformed
  <2>5. GivenUp(k)
    BY <2>1, <2>2, <2>4 DEF GivenUp
  <2>6. conn' = [conn EXCEPT ![lock] = k]
    BY <1>1, <1>5 DEF McpInv
  <2> HIDE DEF k, o
  <2>7. k.root = conn[lock].root
    BY <2>2 DEF o
  <2> QED
    BY <1>1, <1>3, <1>5, <2>2, <2>5, <2>6, <2>7, OneChanges
<1>6. ASSUME NEW a \in Answers, m # "initialized", NEW ran \in Nat,
             a = "not initialized" \/ ran = o.ran + (IF m = "call" THEN 1 ELSE 0),
             conn' = [conn EXCEPT ![lock].answers = Append(@, a), ![lock].ran = ran, ![lock].todo = after],
             lock' = lock, handshaken' \in BOOLEAN, subscribed' \in BOOLEAN, handshaken => handshaken',
             subscribed' => handshaken', ran > 0 => handshaken',
             ranFor' \subseteq ranFor \cup {<<lock, PercentDecode(Header(lock))>>}
      PROVE  McpInv'
  <2> DEFINE n == Append(o.answers, a)
             k == [o EXCEPT !.answers = n, !.ran = ran, !.todo = after]
  <2>1. n \in Seq(Answers)
    BY <1>4
  <2>2. conn' = [conn EXCEPT ![lock] = k]
    BY <1>1, <1>6
  <2>3. Handled(m, o.answers, o.ran, n, ran)
    BY <1>6 DEF Handled
  <2> HIDE DEF n, after, o, m
  <2>4. /\ k \in ConnState /\ k.root = o.root /\ k.state = o.state /\ k.sent = o.sent /\ k.todo = after
        /\ k.answers = n /\ k.ran = ran
    BY <1>1, <1>2, <1>6, <2>1 DEF ConnState
  <2> HIDE DEF k
  <2>5. Handled(Head(conn[lock].todo), conn[lock].answers, conn[lock].ran, k.answers, k.ran)
    BY <2>3, <2>4 DEF o, m
  <2>6. k.root = conn[lock].root /\ k.state = conn[lock].state /\ k.sent = conn[lock].sent
        /\ k.todo = Tail(conn[lock].todo) /\ conn[lock].todo # <<>> /\ (k.ran > 0 => handshaken')
    BY <1>1, <1>6, <2>4 DEF o, after
  <2> QED
    BY <1>1, <1>6, <2>2, <2>4, <2>5, <2>6, HandleKeeps
<1>7. ASSUME m = "initialized", conn' = [conn EXCEPT ![lock].todo = after], handshaken' = TRUE,
             UNCHANGED <<subscribed, ranFor, lock>>
      PROVE  McpInv'
  <2> DEFINE k == [o EXCEPT !.todo = after]
  <2>1. /\ k \in ConnState /\ k.root = o.root /\ k.state = o.state /\ k.sent = o.sent /\ k.todo = after
        /\ k.answers = o.answers /\ k.ran = o.ran
    BY <1>1, <1>2 DEF ConnState
  <2>2. conn' = [conn EXCEPT ![lock] = k]
    BY <1>1, <1>7 DEF McpInv
  <2> HIDE DEF k
  <2>3. Handled(m, o.answers, o.ran, k.answers, k.ran)
    BY <1>7, <2>1 DEF Handled
  <2> QED
    BY <1>1, <1>3, <1>7, <2>1, <2>2, <2>3, HandleKeeps
<1>8. ASSUME NEW a \in Answers, conn' = [conn EXCEPT ![lock].answers = Append(@, a), ![lock].todo = after]
      PROVE  conn' = [conn EXCEPT ![lock].answers = Append(@, a), ![lock].ran = o.ran, ![lock].todo = after]
  <2> DEFINE n == Append(o.answers, a)
  <2>1. [o EXCEPT !.answers = n, !.todo = after] = [o EXCEPT !.answers = n, !.ran = o.ran, !.todo = after]
    <3> HIDE DEF n, after, o
    <3> QED
      BY <1>1 DEF ConnState
  <2> QED
    BY <1>1, <1>8, <2>1
<1>h. "ok" \in Answers /\ o.ran = o.ran + 0 /\ o.ran + 1 \in Nat /\ (m # "call" => (IF m = "call" THEN 1 ELSE 0) = 0)
  <2>1. "ok" \in Answers
    BY DEF Answers
  <2> DEFINE x == o.ran
  <2>2. x \in Nat
    BY <1>2
  <2> HIDE DEF x
  <2>3. x = x + 0 /\ x + 1 \in Nat
    BY <2>2
  <2> QED
    BY <2>1, <2>3 DEF x
<1> HIDE DEF o, m, after
<1>a. \/ m = "malformed" /\ conn' = [conn EXCEPT ![lock].todo = <<>>, ![lock].answers = <<"parse error">>]
         /\ UNCHANGED <<handshaken, subscribed, ranFor, lock>>
      \/ /\ m # "malformed" /\ Gated(m) /\ ~handshaken /\ Answer(lock, "not initialized", after)
         /\ UNCHANGED <<handshaken, subscribed, ranFor, lock>>
      \/ /\ m \in {"initialize", "initialized"} /\ handshaken' = TRUE
         /\ IF m = "initialize" THEN Answer(lock, "ok", after) ELSE conn' = [conn EXCEPT ![lock].todo = after]
         /\ UNCHANGED <<subscribed, ranFor, lock>>
      \/ /\ m \in {"ping", "subscribe", "unsubscribe"} /\ (Gated(m) => handshaken)
         /\ subscribed' = (IF m = "ping" THEN subscribed ELSE m = "subscribe")
         /\ Answer(lock, "ok", after) /\ UNCHANGED <<handshaken, ranFor, lock>>
      \/ /\ m = "call" /\ (Gated(m) => handshaken)
         /\ conn' = [conn EXCEPT ![lock].answers = Append(@, "ok"), ![lock].ran = @ + 1, ![lock].todo = after]
         /\ ranFor' = ranFor \cup {<<lock, PercentDecode(Header(lock))>>}
         /\ UNCHANGED <<handshaken, subscribed, lock>>
      \/ /\ m = "call" /\ lock' = NoClient /\ conn' = [conn EXCEPT ![lock] = Ended(@)]
         /\ UNCHANGED <<handshaken, subscribed, ranFor>>
  BY DEF HandleOne, RestOfBatch, o, m, after
<1>b. CASE m = "malformed" /\ conn' = [conn EXCEPT ![lock].todo = <<>>, ![lock].answers = <<"parse error">>]
           /\ UNCHANGED <<handshaken, subscribed, ranFor, lock>>
  BY <1>b, <1>5
<1>c. CASE /\ m # "malformed" /\ Gated(m) /\ ~handshaken /\ Answer(lock, "not initialized", after)
           /\ UNCHANGED <<handshaken, subscribed, ranFor, lock>>
  <2>1. "not initialized" \in Answers /\ m # "initialized"
    BY <1>c DEF Answers, Gated
  <2>2. conn' = [conn EXCEPT ![lock].answers = Append(@, "not initialized"), ![lock].ran = o.ran, ![lock].todo = after]
    BY <1>c, <2>1, <1>8 DEF Answer
  <2> QED
    BY <1>2, <1>3, <1>c, <2>1, <2>2, <1>6
<1>d. CASE /\ m \in {"initialize", "initialized"} /\ handshaken' = TRUE
           /\ IF m = "initialize" THEN Answer(lock, "ok", after) ELSE conn' = [conn EXCEPT ![lock].todo = after]
           /\ UNCHANGED <<subscribed, ranFor, lock>>
  <2>1. CASE m = "initialized"
    BY <2>1, <1>d, <1>7
  <2>2. CASE m = "initialize"
    <3>1. "ok" \in Answers /\ o.ran = o.ran + (IF m = "call" THEN 1 ELSE 0)
      <4>1. m # "call"
        BY <2>2
      <4>2. "ok" \in Answers
        BY DEF Answers
      <4> HIDE DEF m
      <4> QED
        BY <1>2, <1>h, <4>1, <4>2
    <3>2. conn' = [conn EXCEPT ![lock].answers = Append(@, "ok"), ![lock].ran = o.ran, ![lock].todo = after]
      BY <1>d, <2>2, <3>1, <1>8 DEF Answer
    <3> QED
      BY <1>2, <1>3, <1>d, <2>2, <3>1, <3>2, <1>6
  <2> QED
    BY <1>d, <2>1, <2>2
<1>e. CASE /\ m \in {"ping", "subscribe", "unsubscribe"} /\ (Gated(m) => handshaken)
           /\ subscribed' = (IF m = "ping" THEN subscribed ELSE m = "subscribe")
           /\ Answer(lock, "ok", after) /\ UNCHANGED <<handshaken, ranFor, lock>>
  <2>0. m # "call" /\ m # "initialized"
    BY <1>e
  <2>1. "ok" \in Answers /\ o.ran = o.ran + (IF m = "call" THEN 1 ELSE 0) /\ m # "initialized"
    BY <1>2, <1>h, <2>0
  <2>2. conn' = [conn EXCEPT ![lock].answers = Append(@, "ok"), ![lock].ran = o.ran, ![lock].todo = after]
    BY <1>e, <2>1, <1>8 DEF Answer
  <2>3. subscribed' \in BOOLEAN /\ handshaken'
    BY <1>3, <1>e DEF Gated
  <2> QED
    BY <1>2, <1>3, <1>e, <2>1, <2>2, <2>3, <1>6
<1>f. CASE /\ m = "call" /\ (Gated(m) => handshaken)
           /\ conn' = [conn EXCEPT ![lock].answers = Append(@, "ok"), ![lock].ran = @ + 1, ![lock].todo = after]
           /\ ranFor' = ranFor \cup {<<lock, PercentDecode(Header(lock))>>}
           /\ UNCHANGED <<handshaken, subscribed, lock>>
  <2>0. m = "call"
    BY <1>f
  <2>1. "ok" \in Answers /\ o.ran + 1 = o.ran + (IF m = "call" THEN 1 ELSE 0) /\ m # "initialized" /\ o.ran + 1 \in Nat
    BY <1>2, <1>h, <2>0
  <2>2. conn' = [conn EXCEPT ![lock].answers = Append(@, "ok"), ![lock].ran = o.ran + 1, ![lock].todo = after]
    BY <1>f DEF o
  <2>3. handshaken
    BY <1>f DEF Gated
  <2> QED
    BY <1>3, <1>f, <2>1, <2>2, <2>3, <1>6
<1>g. CASE /\ m = "call" /\ lock' = NoClient /\ conn' = [conn EXCEPT ![lock] = Ended(@)]
           /\ UNCHANGED <<handshaken, subscribed, ranFor>>
  <2> DEFINE k == Ended(o)
  <2>1. k \in ConnState /\ k.root = o.root /\ k.sent = <<>> /\ Untouched(k) /\ InOrder(k)
    BY <1>1, EndedIs DEF Ended
  <2>2. conn' = [conn EXCEPT ![lock] = k] /\ k.root = conn[lock].root
    BY <1>g, <2>1 DEF o
  <2> HIDE DEF k
  <2> QED
    BY <1>1, <1>3, <1>g, <2>1, <2>2, OneChanges
<1> QED
  BY <1>a, <1>b, <1>c, <1>d, <1>e, <1>f, <1>g

LEMMA McpInvStep == McpInv /\ [McpNext]_mcpVars => McpInv'
<1> SUFFICES ASSUME McpInv, [McpNext]_mcpVars PROVE McpInv'
  OBVIOUS
<1>1. ASSUME NEW c \in Clients, Post(c) \/ Lock(c) \/ Reconnect(c) PROVE McpInv'
  BY <1>1, RequestKeeps, LockKeeps, ReconnectKeeps
<1>2. CASE HandleOne
  BY <1>2, HandleOneKeeps
<1>3. CASE Reply
  BY <1>3, ReplyKeeps
<1>4. CASE ServiceEnds
  BY <1>4, ServiceEndsKeeps
<1>5. CASE ServiceStarts
  BY <1>5 DEF ServiceStarts, McpInv, CallsFindTheirProject, HandshakeComesFirst, Header
<1>6. CASE UNCHANGED mcpVars
  BY <1>6 DEF mcpVars, McpInv, CallsFindTheirProject, HandshakeComesFirst, Header
<1> QED
  BY <1>1, <1>2, <1>3, <1>4, <1>5, <1>6 DEF McpNext

(* What the invariant says of a payload that is done.                      *)
LEMMA DoneIsComplete ==
  ASSUME McpInv
  PROVE  McpTypeOK /\ RepliesAreComplete
<1>1. ASSUME NEW c \in Clients PROVE conn[c] \in ConnState /\ conn[c].sent \in Seq(Mcp) /\ Len(conn[c].sent) \in Nat
  BY <1>1 DEF McpInv, ConnState
<1>2. ASSUME NEW c \in Clients PROVE Len(conn[c].answers) <= Len(conn[c].sent)
  <2> DEFINE n == Len(conn[c].sent)
             d == DoneOf(conn[c].todo, conn[c].sent)
  <2>1. CASE InOrder(conn[c])
    <3>1. Len(conn[c].todo) \in Nat /\ n \in Nat
      BY <1>1 DEF ConnState
    <3>0. Len(conn[c].todo) <= n /\ d = n - Len(conn[c].todo)
      BY <2>1 DEF InOrder, Progress, DoneOf
    <3> HIDE DEF n, d
    <3>2. d \in Nat /\ d <= n
      BY <3>0, <3>1
    <3>3. Requested(conn[c].sent, d) \subseteq 1..d /\ IsFiniteSet(1..d) /\ Cardinality(1..d) = d
      <4>1. Requested(conn[c].sent, d) \subseteq 1..d
        BY DEF Requested
      <4> QED
        BY <3>2, <4>1, FS_Interval
    <3>4. Cardinality(Requested(conn[c].sent, d)) <= d /\ Cardinality(Requested(conn[c].sent, d)) \in Nat
      BY <3>3, FS_Subset, FS_CardinalityType
    <3>5. Len(conn[c].answers) = Cardinality(Requested(conn[c].sent, d))
      BY <2>1 DEF InOrder, Progress, d
    <3>6. Len(conn[c].answers) <= n
      BY <3>1, <3>2, <3>4, <3>5
    <3> QED
      BY <3>6 DEF n
  <2>2. CASE GivenUp(conn[c])
    BY <1>1, <2>2 DEF GivenUp, IsMalformed
  <2> QED
    BY <2>1, <2>2 DEF McpInv
<1>3. McpTypeOK
  BY <1>1, <1>2 DEF McpTypeOK, McpInv, ConnState
<1>4. RepliesAreComplete
  <2> SUFFICES ASSUME lock # NoClient, conn[lock].todo = <<>>, Messages(lock, {"malformed"}) = 0
               PROVE  /\ Len(conn[lock].answers) = Len(conn[lock].sent) - Messages(lock, {"initialized"})
                      /\ "not initialized" \in {conn[lock].answers[i] : i \in DOMAIN conn[lock].answers} \/
                         conn[lock].ran = Messages(lock, {"call"})
    BY DEF RepliesAreComplete
  <2> DEFINE k == conn[lock]
             n == Len(k.sent)
             Of(m) == {i \in DOMAIN k.sent : k.sent[i] \in {m}}
  <2>1. lock \in Clients /\ n \in Nat /\ DOMAIN k.sent = 1..n
    BY <1>1 DEF McpInv
  <2>2. IsFiniteSet(1..n) /\ Cardinality(1..n) = n
    BY <2>1, FS_Interval
  <2>3. ~IsMalformed(k)
    <3>1. Of("malformed") \subseteq 1..n
      BY <2>1
    <3>2. IsFiniteSet(Of("malformed")) /\ Cardinality(Of("malformed")) = 0
      BY <2>2, <3>1, FS_Subset DEF Messages
    <3>3. Of("malformed") = {}
      <4> HIDE DEF Of
      <4> QED
        BY <3>2, FS_EmptySet
    <3> QED
      BY <2>1, <3>3 DEF IsMalformed
  <2>4. InOrder(k)
    BY <2>1, <2>3 DEF McpInv, GivenUp
  <2>5. DoneOf(k.todo, k.sent) = n
    BY <2>1 DEF DoneOf
  <2>6. Len(k.answers) = Cardinality(Requested(k.sent, n)) /\ (Refused(k.answers) \/ k.ran = Cardinality(Called(k.sent, n)))
    BY <2>4, <2>5 DEF InOrder, Progress
  <2>7. Requested(k.sent, n) = 1..n \ Of("initialized") /\ Called(k.sent, n) = Of("call")
    BY <2>1 DEF Requested, Called
  <2>8. Cardinality(1..n \ Of("initialized")) = n - Cardinality(Of("initialized"))
    <3>1. 1..n \cap Of("initialized") = Of("initialized")
      BY <2>1
    <3> HIDE DEF Of
    <3>2. Cardinality(1..n \ Of("initialized")) = Cardinality(1..n) - Cardinality(1..n \cap Of("initialized"))
      BY <2>2, FS_Difference
    <3> QED
      BY <2>2, <3>1, <3>2
  <2>9. Messages(lock, {"initialized"}) = Cardinality(Of("initialized")) /\ Messages(lock, {"call"}) = Cardinality(Of("call"))
    BY DEF Messages
  <2>10. Refused(k.answers) => "not initialized" \in {k.answers[i] : i \in DOMAIN k.answers}
    BY DEF Refused
  <2> HIDE DEF Of
  <2> QED
    BY <2>6, <2>7, <2>8, <2>9, <2>10
<1> QED
  BY <1>3, <1>4

(* The reply to a payload is complete, a worker's call finds its project   *)
(* whatever bytes are in its path, and none runs before a handshake: for   *)
(* every set of clients and paths, payloads of any length, and restarts.   *)
THEOREM CallsServed == McpSpec => []CallsAreServedOnce
<1>1. McpInv => CallsAreServedOnce
  BY DoneIsComplete DEF McpInv, CallsAreServedOnce
<1> QED
  BY <1>1, McpInvInit, McpInvStep, PTL DEF McpSpec

===============================================================================
