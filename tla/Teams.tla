-------------------------------- MODULE Teams --------------------------------
(***************************************************************************)
(* Who owns a team.  A team belongs to the Claude Code process (the lead)  *)
(* that created it; team_create creates, rebinds, revives or overwrites,   *)
(* team_delete archives or removes, and the lead watchdog archives a team  *)
(* whose owner is missing from the process list in Grace consecutive       *)
(* ticks.  Tool calls are serialised by the HTTP layer; the watchdog runs  *)
(* beside them.  The teams lock covers one read or one write, never the    *)
(* decision between them.  team_create always passes the name as the id.   *)
(***************************************************************************)
EXTENDS Naturals, FiniteSets

CONSTANTS Names,      \* team names, which are also their ids
          Pids,       \* the leads' process ids
          Grace,      \* LEAD_WATCH_GRACE_CHECKS
          MaxCreates, MaxDeletes   \* bounds on tool calls

ASSUME TeamsAssumption ==
  /\ IsFiniteSet(Names) /\ IsFiniteSet(Pids)
  /\ Grace \in Nat \ {0} /\ MaxCreates \in Nat /\ MaxDeletes \in Nat

VARIABLES
  dir,       \* team.json of every team directory
  alive,     \* the leads in the process list
  strikes,   \* dead_strikes of the watchdog
  tool,      \* the tool call being served
  watch,     \* the watchdog's tick
  creates, deletes   \* calls made

vars == <<dir, alive, strikes, tool, watch, creates, deletes>>

NoPid == "nobody"
Owners == Pids \cup {NoPid}
NoTeam == [status |-> "absent", owner |-> NoPid]
Team == {NoTeam} \cup [status : {"active", "archived"}, owner : Owners]
Dirs == [Names -> Team]

NoName == "unnamed"
IdleTool == [pc |-> "idle", name |-> NoName, owner |-> NoPid,
             seen |-> [n \in Names |-> NoTeam], keep |-> TRUE]
IdleWatch == [pc |-> "idle", todo |-> {}, name |-> NoName,
              seen |-> [n \in Names |-> NoTeam], procs |-> {}]

\* What the call passes as owner_cc_pid: a running lead, or nothing resolvable.
Callers == alive \cup {NoPid}

\* team_list's ownerStatus.
OwnerStatus(t) ==
  CASE t.status = "archived"                    -> "archived"
    [] t.status = "active" /\ t.owner = NoPid   -> "unbound"
    [] t.status = "active" /\ t.owner \in alive -> "alive"
    [] t.status = "active" /\ t.owner \notin alive \cup {NoPid} -> "orphan"
    [] OTHER                                    -> "absent"

Init ==
  /\ dir = [n \in Names |-> NoTeam] /\ alive = Pids
  /\ strikes = [n \in Names |-> 0]
  /\ tool = IdleTool /\ watch = IdleWatch
  /\ creates = 0 /\ deletes = 0

-----------------------------------------------------------------------------
(* team_create *)

\* overwrite=true: every team is removed and the new one written under one lock.
CreateOverwriting(n, p) ==
  /\ tool.pc = "idle" /\ creates < MaxCreates /\ p \in Callers
  /\ dir' = [m \in Names |-> IF m = n THEN [status |-> "active", owner |-> p]
                             ELSE NoTeam]
  /\ creates' = creates + 1
  /\ UNCHANGED <<alive, strikes, tool, watch, deletes>>

\* Otherwise the teams are listed first; the lock is released again.
Create(n, p) ==
  /\ tool.pc = "idle" /\ creates < MaxCreates /\ p \in Callers
  /\ tool' = [pc |-> "decide", name |-> n, owner |-> p, seen |-> dir, keep |-> TRUE]
  /\ creates' = creates + 1
  /\ UNCHANGED <<dir, alive, strikes, watch, deletes>>

\* Mutant: the owner's liveness is not asked for.
RebindsAnyway(t, p) == t.status = "active" /\ p # NoPid /\ t.owner # p

\* rebind_existing_active_team writes only when another owner is dead.
Rebinds(t, p) ==
  /\ t.status = "active" /\ p # NoPid /\ t.owner # p
  /\ t.owner \notin alive

\* revive_archived_team asks for nothing.
Revives(t) == t.status = "archived"

\* The cap: a new team only for a lead that owns no other active one.
MayOwnNew(t, p, seen) ==
  /\ t.status = "absent"
  /\ p = NoPid \/ \A m \in Names : ~(seen[m].status = "active" /\ seen[m].owner = p)

\* The call ends with nothing written (already the owner's, or an error), or
\* goes on to write the team.
Decide ==
  /\ tool.pc = "decide"
  /\ LET t == tool.seen[tool.name] IN
     tool' = IF \/ Rebinds(t, tool.owner) \/ Revives(t)
                \/ MayOwnNew(t, tool.owner, tool.seen)
             THEN [tool EXCEPT !.pc = "save"] ELSE IdleTool
  /\ UNCHANGED <<dir, alive, strikes, watch, creates, deletes>>

Save ==
  /\ tool.pc = "save"
  /\ dir' = [dir EXCEPT ![tool.name] = [status |-> "active", owner |-> tool.owner]]
  /\ tool' = IdleTool
  /\ UNCHANGED <<alive, strikes, watch, creates, deletes>>

-----------------------------------------------------------------------------
(* team_delete: the workers are stopped first, then the team goes. *)

Delete(n, keep) ==
  /\ tool.pc = "idle" /\ deletes < MaxDeletes
  /\ tool' = [IdleTool EXCEPT !.pc = "delete", !.name = n, !.keep = keep]
  /\ deletes' = deletes + 1
  /\ UNCHANGED <<dir, alive, strikes, watch, creates>>

\* TeamStore::delete re-reads the record and keeps its owner.
Deleted(n, keep) ==
  IF dir[n] = NoTeam THEN dir
  ELSE [dir EXCEPT ![n] = IF keep THEN [@ EXCEPT !.status = "archived"] ELSE NoTeam]

FinishDelete ==
  /\ tool.pc = "delete"
  /\ dir' = Deleted(tool.name, tool.keep) /\ tool' = IdleTool
  /\ UNCHANGED <<alive, strikes, watch, creates, deletes>>

-----------------------------------------------------------------------------
(* lead_watchdog_tick *)

\* Mutant: the strikes do not survive a tick.
RetainNone(seen) == [n \in Names |-> 0]

Retain(seen) ==
  [n \in Names |-> IF seen[n] = NoTeam THEN 0 ELSE strikes[n]]

TickList ==
  /\ watch.pc = "idle"
  /\ \E n \in Names : dir[n] # NoTeam \/ strikes[n] # 0
  /\ watch' = [pc |-> "teams", todo |-> {n \in Names : dir[n] # NoTeam},
               name |-> NoName, seen |-> dir, procs |-> alive]
  /\ strikes' = Retain(dir)
  /\ UNCHANGED <<dir, alive, tool, creates, deletes>>

Missing(t, procs) ==
  t.status = "active" /\ t.owner # NoPid /\ t.owner \notin procs

\* Mutant: one tick too many.
LateStrike(n) == strikes[n] >= Grace

LastStrike(n) == strikes[n] + 1 >= Grace

\* One team of the loop: a strike, the last strike, or none.
TickTeam(n) ==
  /\ watch.pc = "teams" /\ n \in watch.todo
  /\ LET missing == Missing(watch.seen[n], watch.procs)
         out == missing /\ LastStrike(n)
     IN /\ strikes' = [strikes EXCEPT ![n] = IF missing /\ ~out THEN @ + 1 ELSE 0]
        /\ watch' = [watch EXCEPT !.todo = @ \ {n},
                                  !.name = IF out THEN n ELSE NoName,
                                  !.pc = IF out THEN "archive" ELSE "teams"]
  /\ UNCHANGED <<dir, alive, tool, creates, deletes>>

\* delete_team_with_cleanup, once the team's workers are stopped.
TickArchive ==
  /\ watch.pc = "archive"
  /\ dir' = Deleted(watch.name, TRUE)
  /\ watch' = [watch EXCEPT !.pc = "teams", !.name = NoName]
  /\ UNCHANGED <<alive, strikes, tool, creates, deletes>>

TickEnds ==
  /\ watch.pc = "teams" /\ watch.todo = {} /\ watch' = IdleWatch
  /\ UNCHANGED <<dir, alive, strikes, tool, creates, deletes>>

LeadDies(p) ==
  /\ p \in alive /\ alive' = alive \ {p}
  /\ UNCHANGED <<dir, strikes, tool, watch, creates, deletes>>

ToolCalls ==
  \/ \E n \in Names, p \in Owners : Create(n, p) \/ CreateOverwriting(n, p)
  \/ \E n \in Names, keep \in BOOLEAN : Delete(n, keep)
ToolServes == Decide \/ Save \/ FinishDelete
Watchdog ==
  TickList \/ (\E n \in Names : TickTeam(n)) \/ TickArchive \/ TickEnds

Next == ToolCalls \/ ToolServes \/ Watchdog \/ \E p \in Pids : LeadDies(p)

\* A call that was accepted is served, and the watchdog's timer keeps firing.
Spec == Init /\ [][Next]_vars /\ WF_vars(ToolServes) /\ WF_vars(Watchdog)

-----------------------------------------------------------------------------
(* Properties *)

\* Every record has its shape and a strike count never reaches Grace: the tick
\* that would record it archives the team instead.
TypeOK ==
  /\ dir \in Dirs /\ alive \subseteq Pids
  /\ strikes \in [Names -> 0..(Grace - 1)]
  /\ tool \in [pc : {"idle", "decide", "save", "delete"}, name : Names \cup {NoName},
               owner : Owners, seen : Dirs, keep : BOOLEAN]
  /\ watch \in [pc : {"idle", "teams", "archive"}, todo : SUBSET Names,
                name : Names \cup {NoName}, seen : Dirs, procs : SUBSET Pids]
  /\ creates \in 0..MaxCreates /\ deletes \in 0..MaxDeletes

\* An active team never passes from a living lead to another one, whatever the
\* watchdog and the other calls do between the list, the decision and the save
\* of team_create (rebind_existing_active_team); only overwrite=true takes it.
NoTakeover ==
  [][\A n \in Names :
       (/\ dir[n].status = "active" /\ dir[n].owner \in alive
        /\ dir'[n].status = "active" /\ dir'[n].owner # dir[n].owner)
       => \E p \in Owners : CreateOverwriting(n, p)]_vars

\* The lead watchdog archives the team of a living lead only when the team
\* changed hands after the tick listed it: the decision is stale, never wrong.
LiveLeadsAreSpared ==
  [][\A n \in Names :
       (TickArchive /\ dir'[n] # dir[n] /\ dir[n].owner \in alive)
       => watch.seen[n] # dir[n]]_vars

\* No living lead loses an active team: not to another lead's team_create, nor
\* to a watchdog whose view of the owner was right when it was taken.
OwnersKeepTheirTeams == NoTakeover /\ LiveLeadsAreSpared

\* A team whose lead is gone does not stay an orphan in team_list: within Grace
\* ticks of the watchdog it is archived, unless a call takes it or removes it.
OrphansGo ==
  \A n \in Names : (OwnerStatus(dir[n]) = "orphan") ~> (OwnerStatus(dir[n]) # "orphan")

=============================================================================
