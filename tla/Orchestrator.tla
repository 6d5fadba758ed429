----------------------------- MODULE Orchestrator -----------------------------
(***************************************************************************)
(* TeamOrchestrator (src/src/orchestrator/mod.rs) over FileTeamManager     *)
(* (src/src/team/mod.rs): spawning, shutting down and feeding teammates of *)
(* one team.  Every .await and every mutex release is a step boundary; the *)
(* config file's operations hold its lock from read to write and are one   *)
(* step each.  A session that is dropped dies (kill_on_drop).              *)
(***************************************************************************)
EXTENDS Naturals, FiniteSets

CONSTANTS Agents, Callers,
          MaxSpawns,     \* bound on sessions ever spawned
          MaxFaults      \* bound on failed shutdowns and saves, and on crashes

ASSUME OrchConstants == MaxSpawns \in Nat /\ MaxFaults \in Nat

VARIABLES dir,           \* the team's directory: absent, bare (no config.json) or team
          members,       \* config.json
          saved,         \* sessions/{agent}.json
          sessions,      \* agent -> session, 0 for none
          pending,       \* pending_shutdowns
          live,          \* sessions whose process runs
          call,          \* caller -> the call it is in
          spawns, slips, \* counters of the bounds
          overlap        \* ghost: some call began while another ran

orchVars == <<dir, members, saved, sessions, pending, live, call, spawns, slips, overlap>>

NoCall == [op |-> "none", agent |-> "none", pc |-> "none", s |-> 0, old |-> 0]
Held(c) == {call[c].s, call[c].old} \ {0}

OrchInit ==
    /\ dir = "absent" /\ members = {} /\ saved = {}
    /\ sessions = [a \in Agents |-> 0]
    /\ pending = {} /\ live = {}
    /\ call = [c \in Callers |-> NoCall]
    /\ spawns = 0 /\ slips = 0
    /\ overlap = FALSE

Begin(c, op, a, pc, s) ==
    /\ call[c] = NoCall
    /\ call' = [call EXCEPT ![c] = [op |-> op, agent |-> a, pc |-> pc, s |-> s, old |-> 0]]
    /\ overlap' = (overlap \/ \E d \in Callers : call[d] # NoCall)

At(c, pc) == call[c].pc = pc
Goto(c, pc) == call' = [call EXCEPT ![c] = [@ EXCEPT !.pc = pc]]
GoWith(c, pc, s, old) == call' = [call EXCEPT ![c] = [@ EXCEPT !.pc = pc, !.s = s, !.old = old]]
Return(c) == call' = [call EXCEPT ![c] = NoCall]

-----------------------------------------------------------------------------
(* Teams.                                                                  *)

CreateTeam ==
    /\ dir = "absent"
    /\ dir' = "team" /\ members' = {}
    /\ UNCHANGED <<saved, sessions, pending, live, call, spawns, slips, overlap>>

\* remove_dir_all takes the session files along; teammates forbid it.
DeleteTeam ==
    /\ dir = "team" /\ members = {}
    /\ dir' = "absent" /\ saved' = {}
    /\ UNCHANGED <<members, sessions, pending, live, call, spawns, slips, overlap>>

\* create_dir_all before a write makes the directory, but no config.json.
Stray(d) == IF d = "absent" THEN "bare" ELSE d

\* send_message, memory saves: they need no team.
WriteInbox ==
    /\ dir' = Stray(dir)
    /\ UNCHANGED <<members, saved, sessions, pending, live, call, spawns, slips, overlap>>

-----------------------------------------------------------------------------
(* spawn_teammate; resume_teammates is one such call per saved session.    *)

Launch(c, a, op) ==
    /\ spawns < MaxSpawns
    /\ spawns' = spawns + 1
    /\ live' = live \cup {spawns + 1}
    /\ Begin(c, op, a, "add", spawns + 1)
    /\ UNCHANGED <<dir, members, saved, sessions, pending, slips>>

Spawn(c, a) == Launch(c, a, "spawn")

Resume(c, a) == a \in saved /\ Launch(c, a, "resume")

AddMember(c) ==
    /\ At(c, "add")
    /\ LET a == call[c].agent
       IN  IF dir = "team" /\ a \notin members
           THEN /\ members' = members \cup {a}
                /\ Goto(c, "clear")
                /\ UNCHANGED live
           ELSE /\ Return(c)
                /\ live' = live \ {call[c].s}
                /\ UNCHANGED members
    /\ UNCHANGED <<dir, saved, sessions, pending, spawns, slips, overlap>>

ClearInbox(c) ==
    /\ At(c, "clear")
    /\ dir' = Stray(dir)
    /\ Goto(c, "store")
    /\ UNCHANGED <<members, saved, sessions, pending, live, spawns, slips, overlap>>

ClearInboxFails(c) ==
    /\ At(c, "clear")
    /\ live' = live \ {call[c].s}
    /\ GoWith(c, "undo", 0, 0)
    /\ UNCHANGED <<dir, members, saved, sessions, pending, spawns, slips, overlap>>

UndoMember(c) ==
    /\ At(c, "undo")
    /\ members' = members \ {call[c].agent}
    /\ Return(c)
    /\ UNCHANGED <<dir, saved, sessions, pending, live, spawns, slips, overlap>>

StoreSession(c) ==
    /\ At(c, "store")
    /\ LET a == call[c].agent
       IN  /\ sessions' = [sessions EXCEPT ![a] = call[c].s]
           /\ GoWith(c, "unpend", 0, sessions[a])
    /\ UNCHANGED <<dir, members, saved, pending, live, spawns, slips, overlap>>

\* The agent's entry goes, and those of others older than PENDING_SHUTDOWN_TTL.
ClearPending(c) ==
    /\ At(c, "unpend")
    /\ \E stale \in SUBSET pending : pending' = pending \ (stale \cup {call[c].agent})
    /\ Goto(c, "save")
    /\ UNCHANGED <<dir, members, saved, sessions, live, spawns, slips, overlap>>

\* The replaced session is shut down, the state file written.
SaveState(c) ==
    /\ At(c, "save")
    /\ live' = live \ {call[c].old}
    /\ \/ saved' = saved \cup {call[c].agent} /\ dir' = Stray(dir) /\ UNCHANGED slips
       \/ slips < MaxFaults /\ slips' = slips + 1 /\ UNCHANGED <<saved, dir>>
    /\ Return(c)
    /\ UNCHANGED <<members, sessions, pending, spawns, overlap>>

-----------------------------------------------------------------------------
(* shutdown_teammate and force_kill_teammate: the same steps.              *)

Shutdown(c, a) ==
    /\ Begin(c, "shutdown", a, IF sessions[a] = 0 THEN "mark" ELSE "stop", sessions[a])
    /\ sessions' = [sessions EXCEPT ![a] = 0]
    /\ UNCHANGED <<dir, members, saved, pending, live, spawns, slips>>

StopSession(c) ==
    /\ At(c, "stop")
    /\ live' = live \ {call[c].s}
    /\ \/ GoWith(c, "unmember", 0, 0) /\ UNCHANGED slips
       \/ slips < MaxFaults /\ slips' = slips + 1 /\ Return(c)
    /\ UNCHANGED <<dir, members, saved, sessions, pending, spawns, overlap>>

MarkPending(c) ==
    /\ At(c, "mark")
    /\ pending' = pending \cup {call[c].agent}
    /\ Goto(c, "unmember")
    /\ UNCHANGED <<dir, members, saved, sessions, live, spawns, slips, overlap>>

RemoveMember(c) ==
    /\ At(c, "unmember")
    /\ members' = members \ {call[c].agent}
    /\ Goto(c, "unsave")
    /\ UNCHANGED <<dir, saved, sessions, pending, live, spawns, slips, overlap>>

RemoveState(c) ==
    /\ At(c, "unsave")
    /\ saved' = saved \ {call[c].agent}
    /\ Return(c)
    /\ UNCHANGED <<dir, members, sessions, pending, live, spawns, slips, overlap>>

-----------------------------------------------------------------------------
(* send_input takes the session out of the map while it sends.             *)

\* Mutant: the session stays in the map while it is used.
Borrow(a) == sessions

TakeOut(a) == [sessions EXCEPT ![a] = 0]

SendInput(c, a) ==
    /\ sessions[a] # 0
    /\ Begin(c, "send", a, "check", sessions[a])
    /\ sessions' = TakeOut(a)
    /\ UNCHANGED <<dir, members, saved, pending, live, spawns, slips>>

\* After the send, well or badly: was a shutdown asked for meanwhile?
CheckPending(c) ==
    /\ At(c, "check")
    /\ Goto(c, IF call[c].agent \in pending THEN "honor" ELSE "putback")
    /\ pending' = pending \ {call[c].agent}
    /\ UNCHANGED <<dir, members, saved, sessions, live, spawns, slips, overlap>>

HonorShutdown(c) ==
    /\ At(c, "honor")
    /\ live' = live \ {call[c].s}
    /\ Return(c)
    /\ UNCHANGED <<dir, members, saved, sessions, pending, spawns, slips, overlap>>

\* insert drops, and so kills, a session that is there by now.
PutBack(c) ==
    /\ At(c, "putback")
    /\ live' = live \ {sessions[call[c].agent]}
    /\ sessions' = [sessions EXCEPT ![call[c].agent] = call[c].s]
    /\ Return(c)
    /\ UNCHANGED <<dir, members, saved, pending, spawns, slips, overlap>>

\* The orchestrator's process ends: the maps are gone, the files stay.
Crash ==
    /\ slips < MaxFaults /\ slips' = slips + 1
    /\ call' = [c \in Callers |-> NoCall]
    /\ sessions' = [a \in Agents |-> 0]
    /\ pending' = {} /\ live' = {}
    /\ UNCHANGED <<dir, members, saved, spawns, overlap>>

OrchNext ==
    \/ CreateTeam \/ DeleteTeam \/ WriteInbox \/ Crash
    \/ \E c \in Callers, a \in Agents :
          \/ Spawn(c, a) \/ Resume(c, a) \/ Shutdown(c, a) \/ SendInput(c, a)
    \/ \E c \in Callers :
          \/ AddMember(c) \/ ClearInbox(c) \/ ClearInboxFails(c) \/ UndoMember(c)
          \/ StoreSession(c) \/ ClearPending(c) \/ SaveState(c)
          \/ StopSession(c) \/ MarkPending(c) \/ RemoveMember(c) \/ RemoveState(c)
          \/ CheckPending(c) \/ HonorShutdown(c) \/ PutBack(c)

OrchSpec == OrchInit /\ [][OrchNext]_orchVars

-----------------------------------------------------------------------------
(* Properties.                                                             *)

OrchTypeOK ==
    /\ dir \in {"absent", "bare", "team"}
    /\ members \subseteq Agents /\ saved \subseteq Agents /\ pending \subseteq Agents
    /\ sessions \in [Agents -> 0..MaxSpawns]
    /\ live \subseteq 1..spawns
    /\ spawns \in 0..MaxSpawns /\ slips \in 0..MaxFaults

Places(s) == Cardinality({a \in Agents : sessions[a] = s}) + Cardinality({c \in Callers : s \in Held(c)})

\* Whatever calls overlap, a session is in the map or in the hands of one call,
\* never both: no two inputs are written to one session at once, none is fed
\* while it is shut down (send_input, shutdown_teammate, spawn_teammate).
OneHolder == \A s \in 1..spawns : Places(s) <= 1

\* Calls made one after the other keep the three records of a teammate in step,
\* through every refused or rolled-back spawn: registered in config.json iff it
\* has a running session iff its state is saved for a resume.
RecordsAgree ==
    ~overlap /\ slips = 0 /\ (\A c \in Callers : call[c] = NoCall)
    => \A a \in Agents : /\ a \in members <=> sessions[a] \in live
                         /\ a \in members <=> a \in saved

\* Whatever calls overlap, a session is in the map or in the hands of one call;
\* calls made one after the other keep config.json, the sessions and the saved
\* state in step, through every refused or rolled-back spawn (send_input,
\* shutdown_teammate, spawn_teammate).
TeammatesAreConsistent == OrchTypeOK /\ OneHolder /\ RecordsAgree
=============================================================================
