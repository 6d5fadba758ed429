------------------------------- MODULE Workers -------------------------------
(***************************************************************************)
(* The life of a team's workers in the Team Mode service: worker_add,      *)
(* worker_remove, team_create and team_delete on the tool thread, the lead *)
(* watchdog that archives the team of a dead lead, the liveness watchdog,  *)
(* the agent loops that write back a session id, and a service restart.    *)
(* Tool calls are serialised by the HTTP layer's mutex; both watchdogs and *)
(* the loops run beside them.  Five pieces of state describe one worker    *)
(* and no lock covers two of them: the record in members.json, the state   *)
(* in the workers.json sidecar, the orchestrator's session, the loop's     *)
(* handle and the child process itself.                                    *)
(***************************************************************************)
EXTENDS Naturals, FiniteSets

CONSTANTS Workers,     \* worker names of one team
          MaxSpawns,   \* bound on child processes
          MaxCalls,    \* bound on tool calls
          MaxFaults    \* bound on failed shutdowns, failed loops, restarts and leads' deaths

ASSUME WorkersAssumption ==
  /\ IsFiniteSet(Workers) /\ "none" \notin Workers
  /\ MaxSpawns \in Nat \ {0} /\ MaxCalls \in Nat /\ MaxFaults \in Nat

VARIABLES
  team,      \* team.json: "none", "active" or "archived"
  owner,     \* TRUE while the lead's Claude Code process lives
  members,   \* members.json: the record of each worker
  sidecar,   \* workers.json: the runtime state of each worker
  session,   \* RuntimeOrchestrator.sessions: the child registered, 0 if none
  handle,    \* loop_handles: the child whose loop the handle stops, 0 if none
  loops,     \* the children whose AgentLoop thread runs
  told,      \* the loops whose shutdown channel fired or was dropped
  child,     \* the child processes
  th,        \* the threads that change records: tool, lead watchdog, loop
  tick,      \* the liveness watchdog's thread
  calls,     \* tool calls made
  faults,    \* faults met
  broken,    \* children whose shutdown or loop failed, or whose team was overwritten
  lost       \* TRUE once a write of members.json undid another one

vars == <<team, owner, members, sidecar, session, handle, loops, told, child,
          th, tick, calls, faults, broken, lost>>

Gens == 1..MaxSpawns
NoWorker == "none"
NoRecord == [status |-> "absent", state |-> "none"]
MemberRecord == {NoRecord} \cup
  [status : {"active"}, state : {"none", "running", "stopped"}] \cup
  [status : {"removed"}, state : {"running", "stopped"}]
SidecarState ==
  {"absent", "starting", "running", "stopped", "failed", "dead"}

\* No snapshot of members.json is held by the thread.
NoFile == [w \in {} |-> NoRecord]

Threads == {"tool", "lead", "loop"}
Modes == {"none", "create", "reuse", "overwrite", "remove", "archive", "purge"}

\* The steps of a thread that end in MemberStore::update or ::upsert.
StoreSteps ==
  {"upsert", "undo", "persist", "relive", "remove", "record", "backfill"}
\* The steps that end in RuntimeWorkerStore::upsert_state, with what they write.
SidecarSteps == [starting |-> "starting", failed |-> "failed",
                 running |-> "running", relabel |-> "running",
                 stopped |-> "stopped"]
Idle == [pc |-> "idle", w |-> NoWorker, g |-> 0, mode |-> "none",
         saved |-> "none", todo |-> {}, file |-> NoFile]

\* A registered session whose child process is alive: orchestrator.is_alive.
IsAlive(w) == session[w] # 0 /\ child[session[w]].alive

\* worker_list: what the lead is told of a worker with an active record.
Reported(w) ==
  IF sidecar[w] = "dead" THEN "dead"
  ELSE IF members[w].state = "running"
       THEN IF IsAlive(w) THEN "running" ELSE "dead"
  ELSE IF sidecar[w] # "absent" THEN sidecar[w]
  ELSE members[w].state

Listed(w) == team # "none" /\ members[w].status = "active"

Init ==
  /\ team = "active" /\ owner = TRUE
  /\ members = [w \in Workers |-> NoRecord]
  /\ sidecar = [w \in Workers |-> "absent"]
  /\ session = [w \in Workers |-> 0] /\ handle = [w \in Workers |-> 0]
  /\ loops = {} /\ told = {} /\ broken = {}
  /\ child = [g \in Gens |-> [of |-> NoWorker, said |-> "none", alive |-> FALSE]]
  /\ th = [a \in Threads |-> Idle]
  /\ tick = [pc |-> "idle", todo |-> {}, w |-> NoWorker]
  /\ calls = 0 /\ faults = 0 /\ lost = FALSE

Files == <<team, owner, members, sidecar, lost>>
Runtime == <<session, handle, loops, told, child, broken>>

Goto(a, pc) == th' = [th EXCEPT ![a].pc = pc]

-----------------------------------------------------------------------------
(* MemberStore: every change loads the file, then locks and writes it back. *)

\* load_file, outside the lock.
Load(a) ==
  /\ th[a].pc \in StoreSteps /\ th[a].file = NoFile
  /\ th' = [th EXCEPT ![a].file = members]
  /\ UNCHANGED <<Files, Runtime, tick, calls, faults>>

\* worker_add upserts a whole record: a reused profile brings the session state
\* read when the call began, a fresh one has none.
Upserted(t) == [status |-> "active", state |-> t.saved]

\* Mutant: mark_removed leaves the session state alone.
StateKept(t, rec) ==
  CASE t.pc = "upsert" -> Upserted(t)
    [] t.pc \in {"undo", "remove"} -> [rec EXCEPT !.status = "removed"]
    [] t.pc \in {"persist", "relive"} -> [rec EXCEPT !.state = "running"]
    [] t.pc = "record" -> [rec EXCEPT !.state = "stopped"]
    [] t.pc = "backfill" -> rec

\* The record a step leaves; all but upsert are update closures.
Changed(t, rec) ==
  CASE t.pc = "upsert" -> Upserted(t)
    [] t.pc \in {"undo", "remove"} -> [status |-> "removed", state |-> "stopped"]
    [] t.pc \in {"persist", "relive"} -> [rec EXCEPT !.state = "running"]
    [] t.pc = "record" -> [rec EXCEPT !.state = "stopped"]
    [] t.pc = "backfill" -> rec

\* Where a thread goes on after its store step.
AfterStore(a) ==
  CASE th[a].pc = "upsert"  -> "starting"
    [] th[a].pc = "undo"    -> "failed"
    [] th[a].pc = "persist" -> "running"
    [] th[a].pc = "relive"  -> "relabel"
    [] th[a].pc = "record"  -> "next"
    [] OTHER                -> "idle"

\* save_file: the whole snapshot, changed in one place, replaces the file.
SaveFile(t) ==
  /\ members' = [t.file EXCEPT ![t.w] = Changed(t, @)]
  /\ lost' = (lost \/ t.file # members)

\* An update of a member the snapshot does not have writes nothing.
Store(a) ==
  LET t == th[a] IN
  /\ t.pc \in StoreSteps /\ t.file # NoFile
  /\ IF t.pc # "upsert" /\ t.file[t.w] = NoRecord
     THEN UNCHANGED <<members, lost>>
     ELSE SaveFile(t)
  /\ th' = IF AfterStore(a) = "idle" THEN [th EXCEPT ![a] = Idle]
           ELSE [th EXCEPT ![a].file = NoFile, ![a].pc = AfterStore(a)]
  /\ UNCHANGED <<team, owner, sidecar, Runtime, tick, calls, faults>>

\* RuntimeWorkerStore::upsert_state, under the sidecar's own lock.
SetSidecar(a) ==
  /\ th[a].pc \in DOMAIN SidecarSteps
  /\ sidecar' = [sidecar EXCEPT ![th[a].w] = SidecarSteps[th[a].pc]]
  /\ th' = CASE th[a].pc = "starting" -> [th EXCEPT ![a].pc = "spawn"]
             [] th[a].pc = "running" /\ th[a].g # 0 ->
                  [th EXCEPT ![a].pc = "loop"]
             [] th[a].pc = "stopped" /\ th[a].mode = "remove" ->
                  [th EXCEPT ![a].pc = "remove"]
             [] th[a].pc = "stopped" /\ th[a].mode # "remove" ->
                  [th EXCEPT ![a].pc = "record"]
             [] OTHER -> [th EXCEPT ![a] = Idle]
  /\ UNCHANGED <<team, owner, members, lost, Runtime, tick, calls, faults>>

-----------------------------------------------------------------------------
(* worker_add.  on_existing = error on a saved profile returns at once and  *)
(* changes nothing.                                                          *)

WorkerAdd(w, onExisting) ==
  /\ th["tool"].pc = "idle" /\ calls < MaxCalls /\ team # "none"
  /\ LET mode == IF members[w] = NoRecord THEN "create" ELSE onExisting
     IN  th' = [th EXCEPT !["tool"] =
                  [Idle EXCEPT !.pc = "probe", !.w = w, !.mode = mode,
                     !.saved = IF mode = "reuse" THEN members[w].state ELSE "none"]]
  /\ calls' = calls + 1
  /\ UNCHANGED <<Files, Runtime, tick, faults>>

\* remove_dead_session_if_any refuses to drop a live session.
DropDead(w) == IF IsAlive(w) THEN session ELSE [session EXCEPT ![w] = 0]

\* The orchestrator check: a dead session is dropped; a live one ends a reuse.
ProbeSession ==
  LET w == th["tool"].w IN
  /\ th["tool"].pc = "probe"
  /\ session' = DropDead(w)
  /\ Goto("tool", IF IsAlive(w) /\ th["tool"].mode = "reuse"
                  THEN "relive" ELSE "upsert")
  /\ UNCHANGED <<Files, handle, loops, told, child, broken, tick, calls, faults>>

\* spawn_managed_member refuses a key that is registered; the backend may fail.
SpawnFails ==
  /\ th["tool"].pc = "spawn"
  /\ Goto("tool", "failed")
  /\ UNCHANGED <<Files, Runtime, tick, calls, faults>>

Spawn ==
  /\ th["tool"].pc = "spawn" /\ session[th["tool"].w] = 0
  /\ \E g \in Gens :
       /\ child[g].of = NoWorker /\ \A h \in 1..(g - 1) : child[h].of # NoWorker
       /\ child' = [child EXCEPT ![g] =
                      [of |-> th["tool"].w, said |-> "none", alive |-> TRUE]]
       /\ session' = [session EXCEPT ![th["tool"].w] = g]
       /\ th' = [th EXCEPT !["tool"].pc = "take", !["tool"].g = g]
  /\ UNCHANGED <<Files, handle, loops, told, broken, tick, calls, faults>>

\* take_output_receiver: nothing to take if the session is gone by now, and
\* then neither the ready check nor the loop takes place.
TakeReceiver ==
  LET t == th["tool"] IN
  /\ t.pc = "take"
  /\ th' = IF session[t.w] = t.g THEN [th EXCEPT !["tool"].pc = "ready"]
           ELSE [th EXCEPT !["tool"].pc = "persist", !["tool"].g = 0]
  /\ UNCHANGED <<Files, Runtime, tick, calls, faults>>

\* The ready check, without a timeout: the first ready signal, error or end of
\* the output decides.  A failed start marks the record removed and the
\* sidecar failed; the session stays registered.
ReadyCheck ==
  LET c == child[th["tool"].g] IN
  /\ th["tool"].pc = "ready"
  /\ c.said # "none" \/ ~c.alive
  /\ Goto("tool", IF c.said = "ready" THEN "persist" ELSE "undo")
  /\ UNCHANGED <<Files, Runtime, tick, calls, faults>>

\* Mutant: the replaced handle is kept alive instead of dropped.
OldLoopKept ==
  LET t == th["tool"] IN
  /\ t.pc = "loop"
  /\ loops' = loops \cup {t.g}
  /\ handle' = [handle EXCEPT ![t.w] = t.g]
  /\ th' = [th EXCEPT !["tool"] = Idle]
  /\ UNCHANGED <<Files, told, session, child, broken, tick, calls, faults>>

\* AgentLoop::start; inserting the handle drops the one it replaces, and a
\* dropped handle stops its loop.
StartLoop ==
  LET t == th["tool"] IN
  /\ t.pc = "loop"
  /\ loops' = loops \cup {t.g}
  /\ told' = told \cup ({handle[t.w]} \ {0})
  /\ handle' = [handle EXCEPT ![t.w] = t.g]
  /\ th' = [th EXCEPT !["tool"] = Idle]
  /\ UNCHANGED <<Files, session, child, broken, tick, calls, faults>>

-----------------------------------------------------------------------------
(* worker_remove, team_delete and the lead watchdog's archive.              *)

WorkerRemove(w) ==
  /\ th["tool"].pc = "idle" /\ calls < MaxCalls
  /\ th' = [th EXCEPT !["tool"] =
              [Idle EXCEPT !.pc = "shutdown", !.w = w, !.mode = "remove"]]
  /\ calls' = calls + 1
  /\ UNCHANGED <<Files, Runtime, tick, faults>>

\* shutdown_managed_member; a failed shutdown puts the session back.
Shutdown(a) ==
  LET w == th[a].w  g == session[w] IN
  /\ th[a].pc = "shutdown"
  /\ session' = [session EXCEPT ![w] = 0]
  /\ child' = IF g = 0 THEN child ELSE [child EXCEPT ![g].alive = FALSE]
  /\ Goto(a, "release")
  /\ UNCHANGED <<Files, handle, loops, told, broken, tick, calls, faults>>

ShutdownFails(a) ==
  LET w == th[a].w IN
  /\ th[a].pc = "shutdown" /\ session[w] # 0 /\ faults < MaxFaults
  /\ broken' = broken \cup {session[w]}
  /\ Goto(a, "release")
  /\ faults' = faults + 1
  /\ UNCHANGED <<Files, session, child, handle, loops, told, tick, calls>>

\* The loop's handle is removed, under another lock, and its loop told to stop.
ReleaseLoop(a) ==
  LET w == th[a].w IN
  /\ th[a].pc = "release"
  /\ told' = told \cup ({handle[w]} \ {0})
  /\ handle' = [handle EXCEPT ![w] = 0]
  /\ Goto(a, "stopped")
  /\ UNCHANGED <<Files, session, child, loops, broken, tick, calls, faults>>

\* Mutant: only workers the sidecar calls running are stopped.
DeleteRunning(a, mode) ==
  th' = [th EXCEPT ![a] = [Idle EXCEPT !.pc = "next", !.mode = mode,
           !.todo = {w \in Workers : team # "none" /\ sidecar[w] = "running"}]]

\* delete_team_with_cleanup lists the members once and skips removed ones.
StartDelete(a, mode) ==
  th' = [th EXCEPT ![a] = [Idle EXCEPT !.pc = "next", !.mode = mode,
           !.todo = {w \in Workers : team # "none" /\ members[w].status = "active"}]]

TeamDelete(mode) ==
  /\ th["tool"].pc = "idle" /\ calls < MaxCalls
  /\ StartDelete("tool", mode)
  /\ calls' = calls + 1
  /\ UNCHANGED <<Files, Runtime, tick, faults>>

\* lead_watchdog_tick found the owner gone often enough.
LeadSweep ==
  /\ th["lead"].pc = "idle" /\ team = "active" /\ ~owner
  /\ StartDelete("lead", "archive")
  /\ UNCHANGED <<Files, Runtime, tick, calls, faults>>

NextMember(a) ==
  /\ th[a].pc = "next"
  /\ \E w \in th[a].todo :
       th' = [th EXCEPT ![a].pc = "shutdown", ![a].w = w,
                        ![a].todo = th[a].todo \ {w}]
  /\ UNCHANGED <<Files, Runtime, tick, calls, faults>>

\* team_service.delete, then runtime_workers.remove_team; without a team the
\* delete fails and the sidecar is left alone.
DeleteTeam(a) ==
  /\ th[a].pc = "next" /\ th[a].todo = {}
  /\ IF team = "none" THEN UNCHANGED <<team, members, sidecar>>
     ELSE /\ team' = IF th[a].mode = "purge" THEN "none" ELSE "archived"
          /\ members' = IF th[a].mode = "purge"
                        THEN [w \in Workers |-> NoRecord] ELSE members
          /\ sidecar' = [w \in Workers |-> "absent"]
  /\ th' = [th EXCEPT ![a] = Idle]
  /\ UNCHANGED <<owner, lost, Runtime, tick, calls, faults>>

\* team_create: a new, revived or rebound team.  With overwrite = TRUE every
\* team directory is deleted first, no worker is stopped, no sidecar cleared.
TeamCreate(overwrite) ==
  /\ th["tool"].pc = "idle" /\ calls < MaxCalls
  /\ overwrite \/ team # "active" \/ ~owner
  /\ team' = "active" /\ owner' = TRUE
  /\ members' = IF overwrite THEN [w \in Workers |-> NoRecord] ELSE members
  /\ broken' = IF overwrite THEN broken \cup ({session[w] : w \in Workers} \ {0})
               ELSE broken
  /\ calls' = calls + 1
  /\ UNCHANGED <<sidecar, lost, session, handle, loops, told, child, th, tick, faults>>

-----------------------------------------------------------------------------
(* The liveness watchdog: a snapshot of the sidecar, one probe per worker   *)
(* that claims to live, and a write for each that does not.                 *)

\* Mutant: only workers being started are probed.
TickStarting ==
  /\ tick.pc = "idle"
  /\ tick' = [tick EXCEPT !.pc = "probe", !.todo =
                {w \in Workers : sidecar[w] = "starting"}]
  /\ UNCHANGED <<Files, Runtime, th, calls, faults>>

TickList ==
  /\ tick.pc = "idle"
  /\ tick' = [tick EXCEPT !.pc = "probe", !.todo =
                {w \in Workers : sidecar[w] \in {"running", "starting"}}]
  /\ UNCHANGED <<Files, Runtime, th, calls, faults>>

TickProbe ==
  /\ tick.pc = "probe"
  /\ \/ /\ tick.todo = {}
        /\ tick' = [pc |-> "idle", todo |-> {}, w |-> NoWorker]
     \/ \E w \in tick.todo :
          tick' = [pc |-> IF IsAlive(w) THEN "probe" ELSE "flip",
                   todo |-> tick.todo \ {w},
                   w |-> IF IsAlive(w) THEN NoWorker ELSE w]
  /\ UNCHANGED <<Files, Runtime, th, calls, faults>>

TickFlip ==
  /\ tick.pc = "flip"
  /\ sidecar' = [sidecar EXCEPT ![tick.w] = "dead"]
  /\ tick' = [tick EXCEPT !.pc = "probe", !.w = NoWorker]
  /\ UNCHANGED <<team, owner, members, lost, Runtime, th, calls, faults>>

-----------------------------------------------------------------------------
(* Children, loops, the lead's process and the service's own restart.       *)

\* A backend's first output: its ready signal, or an error from a live child.
ChildSpeaks(g) ==
  /\ child[g].alive /\ child[g].said = "none"
  /\ \E s \in {"ready", "error"} : child' = [child EXCEPT ![g].said = s]
  /\ UNCHANGED <<Files, session, handle, loops, told, broken, th, tick, calls, faults>>

ChildDies(g) ==
  /\ child[g].alive
  /\ child' = [child EXCEPT ![g].alive = FALSE]
  /\ UNCHANGED <<Files, session, handle, loops, told, broken, th, tick, calls, faults>>

\* The session id written back after a turn: an update of the loop's member.
Backfill(g) ==
  /\ g \in loops /\ th["loop"].pc = "idle" /\ session[child[g].of] # 0
  /\ th' = [th EXCEPT !["loop"] =
              [Idle EXCEPT !.pc = "backfill", !.w = child[g].of]]
  /\ UNCHANGED <<Files, Runtime, tick, calls, faults>>

\* A loop ends once told to, or once its child's output has ended.
LoopExits(g) ==
  /\ g \in loops /\ (g \in told \/ ~child[g].alive)
  /\ loops' = loops \ {g}
  /\ UNCHANGED <<Files, session, handle, told, child, broken, th, tick, calls, faults>>

\* A failed inbox peek ends the loop while the child lives on.
LoopFails(g) ==
  /\ g \in loops /\ faults < MaxFaults
  /\ loops' = loops \ {g} /\ broken' = broken \cup {g}
  /\ faults' = faults + 1
  /\ UNCHANGED <<Files, session, handle, told, child, th, tick, calls>>

OwnerDies ==
  /\ owner /\ faults < MaxFaults
  /\ owner' = FALSE /\ faults' = faults + 1
  /\ UNCHANGED <<team, members, sidecar, lost, Runtime, th, tick, calls>>

\* mark_daemon_restart_dead: whatever claims to live has lost its process.
RestartDead == [w \in Workers |-> IF sidecar[w] \in {"starting", "running"}
                                  THEN "dead" ELSE sidecar[w]]

\* The service dies with its sessions, handles and loops, its children lose
\* their pipes, and the next one marks what claims to live as dead.
ServiceRestart ==
  /\ faults < MaxFaults
  /\ sidecar' = RestartDead
  /\ session' = [w \in Workers |-> 0] /\ handle' = [w \in Workers |-> 0]
  /\ loops' = {} /\ told' = {}
  /\ child' = [g \in Gens |-> [child[g] EXCEPT !.alive = FALSE]]
  /\ th' = [a \in Threads |-> Idle]
  /\ tick' = [pc |-> "idle", todo |-> {}, w |-> NoWorker]
  /\ faults' = faults + 1
  /\ UNCHANGED <<team, owner, members, lost, broken, calls>>

Next ==
  \/ \E w \in Workers, m \in {"reuse", "overwrite"} : WorkerAdd(w, m)
  \/ \E w \in Workers : WorkerRemove(w)
  \/ \E m \in {"archive", "purge"} : TeamDelete(m)
  \/ \E o \in BOOLEAN : TeamCreate(o)
  \/ ProbeSession \/ SpawnFails \/ Spawn \/ TakeReceiver \/ ReadyCheck \/ StartLoop
  \/ \E a \in Threads : \/ Load(a) \/ Store(a) \/ SetSidecar(a)
                        \/ Shutdown(a) \/ ShutdownFails(a) \/ ReleaseLoop(a)
                        \/ NextMember(a) \/ DeleteTeam(a)
  \/ LeadSweep \/ TickList \/ TickProbe \/ TickFlip
  \/ \E g \in Gens : \/ ChildSpeaks(g) \/ ChildDies(g) \/ Backfill(g)
                     \/ LoopExits(g) \/ LoopFails(g)
  \/ OwnerDies \/ ServiceRestart

Fairness == WF_vars(TickList) /\ WF_vars(TickProbe) /\ WF_vars(TickFlip)

Spec == Init /\ [][Next]_vars /\ Fairness

-----------------------------------------------------------------------------
TypeOK ==
  /\ team \in {"none", "active", "archived"} /\ owner \in BOOLEAN
  /\ members \in [Workers -> MemberRecord]
  /\ sidecar \in [Workers -> SidecarState]
  /\ session \in [Workers -> Gens \cup {0}] /\ handle \in [Workers -> Gens \cup {0}]
  /\ loops \subseteq Gens /\ told \subseteq Gens /\ broken \subseteq Gens
  /\ child \in [Gens -> [of : Workers \cup {NoWorker}, alive : BOOLEAN,
                          said : {"none", "ready", "error"}]]
  /\ tick.todo \subseteq Workers /\ tick.pc \in {"idle", "probe", "flip"}
  /\ calls \in 0..MaxCalls /\ faults \in 0..MaxFaults /\ lost \in BOOLEAN
  /\ \A a \in Threads : th[a].todo \subseteq Workers /\ th[a].mode \in Modes

\* A live worker the lead is told is running has a loop that reads its inbox,
\* unless that loop was stopped or failed or the child began with an error:
\* between calls "running" is never a process nobody serves (worker_list,
\* worker_add).
RunningIsServed ==
  th["tool"].pc = "idle" =>
    \A w \in Workers : Listed(w) /\ IsAlive(w) /\ Reported(w) = "running" =>
      \/ session[w] \in loops \cup told \cup broken
      \/ child[session[w]].said = "error"

\* Never two loops of one worker that nobody told to stop: the second would
\* feed the same messages to the same session (loop_handles, AgentLoop::start).
OneLoopPerWorker ==
  \A g, h \in loops \ (told \cup broken) : child[g].of = child[h].of => g = h

\* Between the two of them: whatever worker_add, worker_remove, both watchdogs
\* and the loops do, a worker that is reported as running is read for by one
\* loop, and by no second one.
ServedByOneLoop == RunningIsServed /\ OneLoopPerWorker

\* team_delete stops all workers: when it ends, a live child is one whose
\* shutdown failed, whose team was overwritten or whose start had failed; a
\* lost member record is the other way to escape (delete_team_with_cleanup).
DeleteStopsWorkers ==
  [][th["tool"].pc = "next" /\ th'["tool"].pc = "idle" /\ ~lost =>
       \A w \in Workers : IsAlive(w)' =>
         session[w] \in broken \/ child[session[w]].said = "error"]_vars

\* Only worker_add of that worker turns a removed record active again
\* (mark_removed's promise that a removed worker is no longer shown running).
RemovalIsFinal ==
  [][\A w \in Workers :
       members[w].status = "removed" /\ members'[w].status = "active" =>
         th["tool"].pc = "upsert" /\ th["tool"].w = w]_vars

\* A worker whose child is gone does not stay "running" in the sidecar: the
\* liveness watchdog, which the service runs for ever, sees to it.
DeathIsNoticed ==
  \A w \in Workers : (sidecar[w] = "running" /\ ~IsAlive(w))
                       ~> (sidecar[w] # "running" \/ IsAlive(w))
=============================================================================
