---------------------------- MODULE ServiceStart ----------------------------
(***************************************************************************)
(* How a relay finds or starts the Team Mode service.  A relay reads       *)
(* http-mcp.json of its runtime directory, probes /healthz and compares    *)
(* the answer with the file; without a healthy service it spawns one and   *)
(* waits for the file, then for the probe.  A service takes the directory's*)
(* lock, reads or creates the token, writes the file and only then binds   *)
(* the port, which every directory shares by default.  Relays and services *)
(* are separate processes; a service may crash at any step.                *)
(***************************************************************************)
EXTENDS Naturals, FiniteSets

CONSTANTS Relays,      \* relay processes, one per Claude Code
          RunDirs,     \* runtime directories: the global one, or of a --data-dir
          MaxServices, \* bound on service processes
          MaxCrashes   \* bound on crashes of a service

\* No directory is named as none is.
ASSUME StartConstants ==
  MaxServices \in Nat /\ MaxCrashes \in Nat /\ "nodir" \notin RunDirs

VARIABLES
  svc,        \* the service processes
  holder,     \* service.lock of every directory: the process that holds it
  info,       \* http-mcp.json of every directory: the pid it names, 0 if absent
  tokenFile,  \* http-mcp.token: "none", "empty" (created, not written) or "good"
  port,       \* the process that listens on the port, 0 if none
  relay,      \* the relays
  crashes     \* crashes so far

startVars == <<svc, holder, info, tokenFile, port, relay, crashes>>

Services == 1..MaxServices
NoDir == "nodir"
Past == {"token", "write", "info", "bind", "serving"}   \* past the lock
Live == Past \cup {"start"}

StartInit ==
  /\ svc = [g \in Services |-> [pc |-> "unborn", dir |-> NoDir]]
  /\ holder = [d \in RunDirs |-> 0] /\ info = [d \in RunDirs |-> 0]
  /\ tokenFile = [d \in RunDirs |-> "none"] /\ port = 0 /\ crashes = 0
  /\ relay = [r \in Relays |-> [pc |-> "new", dir |-> NoDir, pid |-> 0,
                                why |-> "none"]]

-----------------------------------------------------------------------------
(* run_service *)

At(g, pc) == svc[g].pc = pc
Step(g, pc) == svc' = [svc EXCEPT ![g].pc = pc]

\* try_acquire_service_lock: the loser exits with success.
TryLock(g) ==
  /\ At(g, "start")
  /\ \/ /\ holder[svc[g].dir] = 0
        /\ Step(g, "token") /\ holder' = [holder EXCEPT ![svc[g].dir] = g]
     \/ holder[svc[g].dir] # 0 /\ Step(g, "exited") /\ UNCHANGED holder
  /\ UNCHANGED <<info, tokenFile, port, relay, crashes>>

\* read_or_create_token: an existing file is taken as it is; a new one is
\* created and then written, with a crash possible in between.
ReadToken(g) ==
  /\ At(g, "token")
  /\ \/ /\ tokenFile[svc[g].dir] = "none"
        /\ Step(g, "write") /\ tokenFile' = [tokenFile EXCEPT ![svc[g].dir] = "empty"]
     \/ tokenFile[svc[g].dir] # "none" /\ Step(g, "info") /\ UNCHANGED tokenFile
  /\ UNCHANGED <<holder, info, port, relay, crashes>>

WriteToken(g) ==
  /\ At(g, "write") /\ Step(g, "info")
  /\ tokenFile' = [tokenFile EXCEPT ![svc[g].dir] = "good"]
  /\ UNCHANGED <<holder, info, port, relay, crashes>>

\* write_runtime_info renames a complete file into place.
WriteRuntimeInfo(g) ==
  /\ At(g, "info") /\ Step(g, "bind")
  /\ info' = [info EXCEPT ![svc[g].dir] = g]
  /\ UNCHANGED <<holder, tokenFile, port, relay, crashes>>

\* The workers of the last service are marked dead, the toolset and the
\* watchdogs start, then the port is bound; a taken port ends the process and
\* with it the lock, while the runtime file stays.
Bind(g) ==
  /\ At(g, "bind")
  /\ \/ port = 0 /\ Step(g, "serving") /\ port' = g /\ UNCHANGED holder
     \/ /\ port # 0 /\ UNCHANGED port
        /\ Step(g, "failed") /\ holder' = [holder EXCEPT ![svc[g].dir] = 0]
  /\ UNCHANGED <<info, tokenFile, relay, crashes>>

Crash(g) ==
  /\ svc[g].pc \in Live /\ crashes < MaxCrashes
  /\ Step(g, "crashed") /\ crashes' = crashes + 1
  /\ holder' = [d \in RunDirs |-> IF holder[d] = g THEN 0 ELSE holder[d]]
  /\ port' = IF port = g THEN 0 ELSE port
  /\ UNCHANGED <<info, tokenFile, relay>>

-----------------------------------------------------------------------------
(* ensure_runtime_for_relay *)

\* Mutant: any answer of /healthz will do.
AnyAnswer(d, pid) == IF port = 0 THEN "transient" ELSE "ok"

\* probe_healthz: the runtime directory and the pid must be the file's.
Probe(d, pid) == IF port = 0 THEN "transient"
  ELSE IF svc[port].dir = d /\ port = pid THEN "ok" ELSE "mismatch"

RelayAt(r, pc) == relay[r].pc = pc
RelayFails(r, why) == relay' = [relay EXCEPT ![r].pc = "failed", ![r].why = why]

RelayStart(r, d) ==
  /\ RelayAt(r, "new") /\ relay' = [relay EXCEPT ![r].pc = "look", ![r].dir = d]
  /\ UNCHANGED <<svc, holder, info, tokenFile, port, crashes>>

\* find_healthy_runtime: no file or no answer means spawn; a wrong answer fails.
FindHealthyRuntime(r) ==
  /\ RelayAt(r, "look")
  /\ LET d == relay[r].dir
         seen == IF info[d] = 0 THEN "transient" ELSE Probe(d, info[d])
     IN \/ /\ seen = "ok"
           /\ relay' = [relay EXCEPT ![r].pc = "headers", ![r].pid = info[d]]
        \/ seen = "transient" /\ relay' = [relay EXCEPT ![r].pc = "spawn"]
        \/ seen = "mismatch" /\ RelayFails(r, "mismatch")
  /\ UNCHANGED <<svc, holder, info, tokenFile, port, crashes>>

SpawnService(r) ==
  /\ RelayAt(r, "spawn")
  /\ \E g \in Services :
       /\ At(g, "unborn") /\ \A h \in Services : At(h, "unborn") => g <= h
       /\ svc' = [svc EXCEPT ![g] = [pc |-> "start", dir |-> relay[r].dir]]
       /\ relay' = [relay EXCEPT ![r].pc = "waitinfo"]
  /\ UNCHANGED <<holder, info, tokenFile, port, crashes>>

\* wait_for_runtime_info takes the file that is there, once.
WaitForRuntimeInfo(r) ==
  /\ RelayAt(r, "waitinfo") /\ info[relay[r].dir] # 0
  /\ relay' = [relay EXCEPT ![r].pc = "waithealth", ![r].pid = info[relay[r].dir]]
  /\ UNCHANGED <<svc, holder, info, tokenFile, port, crashes>>

\* wait_for_healthz polls with the pid read before.
WaitForHealthz(r) ==
  /\ RelayAt(r, "waithealth")
  /\ \/ /\ Probe(relay[r].dir, relay[r].pid) = "ok"
        /\ relay' = [relay EXCEPT ![r].pc = "headers"]
     \/ Probe(relay[r].dir, relay[r].pid) = "mismatch" /\ RelayFails(r, "mismatch")
  /\ UNCHANGED <<svc, holder, info, tokenFile, port, crashes>>

\* RELAY_SPAWN_TIMEOUT_SECS passed in one of the two waits.
WaitTimesOut(r) ==
  /\ relay[r].pc \in {"waitinfo", "waithealth"} /\ RelayFails(r, "timeout")
  /\ UNCHANGED <<svc, holder, info, tokenFile, port, crashes>>

\* build_http_headers reads the token; an empty file is an error.
BuildHttpHeaders(r) ==
  /\ RelayAt(r, "headers")
  /\ \/ /\ tokenFile[relay[r].dir] = "good"
        /\ relay' = [relay EXCEPT ![r].pc = "connected"]
     \/ tokenFile[relay[r].dir] # "good" /\ RelayFails(r, "token")
  /\ UNCHANGED <<svc, holder, info, tokenFile, port, crashes>>

\* forward_json_rpc_message fails once the service is gone, and the relay exits.
ForwardFails(r) ==
  /\ RelayAt(r, "connected") /\ port # relay[r].pid /\ RelayFails(r, "forward")
  /\ UNCHANGED <<svc, holder, info, tokenFile, port, crashes>>

ServiceStep(g) ==
  TryLock(g) \/ ReadToken(g) \/ WriteToken(g) \/ WriteRuntimeInfo(g) \/ Bind(g)
RelayStep(r) ==
  \/ FindHealthyRuntime(r) \/ SpawnService(r) \/ WaitForRuntimeInfo(r)
  \/ WaitForHealthz(r) \/ BuildHttpHeaders(r) \/ WaitTimesOut(r) \/ ForwardFails(r)

StartNext ==
  \/ \E g \in Services : ServiceStep(g) \/ Crash(g)
  \/ \E r \in Relays : RelayStep(r) \/ \E d \in RunDirs : RelayStart(r, d)

StartSpec == StartInit /\ [][StartNext]_startVars

-----------------------------------------------------------------------------
(* Properties *)

StartTypeOK ==
  /\ svc \in [Services -> [pc : Live \cup {"unborn", "exited", "failed", "crashed"},
                           dir : RunDirs \cup {NoDir}]]
  /\ holder \in [RunDirs -> 0..MaxServices] /\ info \in [RunDirs -> 0..MaxServices]
  /\ tokenFile \in [RunDirs -> {"none", "empty", "good"}] /\ port \in 0..MaxServices
  /\ relay \in [Relays -> [pc : {"new", "look", "spawn", "waitinfo", "waithealth",
                                 "headers", "connected", "failed"},
                           dir : RunDirs \cup {NoDir}, pid : 0..MaxServices,
                           why : {"none", "mismatch", "timeout", "token", "forward"}]]
  /\ crashes \in 0..MaxCrashes

\* However many relays start at once, a runtime directory has one service past
\* its lock, and a relay that was let through talks to the instance its runtime
\* file named, of its own directory (service.lock and probe_healthz together).
RelaysFindTheirs ==
  /\ \A d \in RunDirs :
       Cardinality({g \in Services : svc[g].dir = d /\ svc[g].pc \in Past}) <= 1
  /\ \A r \in Relays : relay[r].pc = "headers" =>
       /\ svc[relay[r].pid].dir = relay[r].dir
       /\ svc[relay[r].pid].pc \in {"serving", "crashed"}

\* A relay fails only for a reason outside the start protocol: its wait ran out,
\* a service crashed, or a second directory's service holds the shared port.
FailuresHaveACause ==
  \A r \in Relays : relay[r].pc = "failed" =>
    \/ relay[r].why = "timeout" \/ crashes > 0
    \/ \E g \in Services : svc[g].pc # "unborn" /\ svc[g].dir # relay[r].dir

\* However many relays start at once, a runtime directory has one service past
\* its lock, a relay that was let through talks to the instance its runtime file
\* named, and none is turned away but for a timeout, a crash or a service of
\* another directory (service.lock, probe_healthz).
RelaysMeetTheirService == StartTypeOK /\ RelaysFindTheirs /\ FailuresHaveACause
=============================================================================
