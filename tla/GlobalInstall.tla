--------------------------- MODULE GlobalInstall ---------------------------
(***************************************************************************)
(* install-global, uninstall-global and init of team_mode_service: edits   *)
(* of files the user owns.  ~/.claude.json gets an MCP server, the user's  *)
(* settings two hooks, ~/.claude/skills the embedded skill; init writes    *)
(* scripts and the older hooks into one project.  Each file is read,       *)
(* merged and rewritten in place, one after the other, so a command that   *)
(* is interrupted leaves a prefix of its writes, or a torn file.           *)
(***************************************************************************)
EXTENDS Naturals, FiniteSets

CONSTANTS SkillFiles,   \* the files of the embedded skill
          MaxCommands,  \* bound on commands run
          MaxBreaks     \* bound on interrupted commands

ASSUME InstallConstants == MaxCommands \in Nat /\ MaxBreaks \in Nat

VARIABLES
  mcp,       \* ~/.claude.json
  settings,  \* ~/.claude/settings.json
  skills,    \* ~/.claude/skills/agent-teams-mcp-setup
  project,   \* one project: its scripts, .mcp.json, settings and .gitignore
  given,     \* what the user had before the first command
  cmd,       \* the command that runs
  warned,    \* the last install-global warned of v2 hooks
  commands, breaks, tornWrite   \* commands run, interrupted, one of them mid-write

installVars == <<mcp, settings, skills, project, given, cmd, warned,
                 commands, breaks, tornWrite>>

\* The hooks of one event: entries of the user's, entries that hold a command of
\* the user's and ours, entries of ours alone, and entries of the v2 scripts.
Event == [user : BOOLEAN, mixed : BOOLEAN, ours : 0..(MaxCommands + 1), v2 : 0..(MaxCommands + 1)]
NoHooks == [user |-> FALSE, mixed |-> FALSE, ours |-> 0, v2 |-> 0]
Kinds == {"absent", "object", "garbage"}   \* garbage: not JSON of the right shape
Servers == {"none", "ours", "other"}       \* mcpServers.team-mode
McpFile == [kind : Kinds, server : Servers, rest : BOOLEAN]
SettingsFile == [kind : Kinds, stop : Event, post : Event, rest : BOOLEAN]
NoMcp == [kind |-> "absent", server |-> "none", rest |-> FALSE]
NoSettings == [kind |-> "absent", stop |-> NoHooks, post |-> NoHooks, rest |-> FALSE]
NoProject == [scripts |-> FALSE, mcp |-> NoMcp, settings |-> NoSettings, ignored |-> FALSE]
SkillStates == {"absent", "ours", "edited"}
Empty == [mcp |-> NoMcp, settings |-> NoSettings, skills |-> [f \in SkillFiles |-> "absent"]]

InstallInit ==
  /\ mcp = NoMcp /\ settings = NoSettings /\ skills = Empty.skills
  /\ project = NoProject /\ given = Empty /\ cmd = [name |-> "setup", at |-> "setup"]
  /\ warned = FALSE /\ commands = 0 /\ breaks = 0 /\ tornWrite = FALSE

\* The files the user may have: with or without content, a server of the same
\* name, hooks in entries of their own or mixed with ours, edited skill files, and one
\* v2 hook left in the project.
UserFiles(m, s, k, post) ==
  /\ cmd.at = "setup"
  /\ mcp' = m /\ settings' = s /\ skills' = k
  /\ project' = [project EXCEPT !.settings = [NoSettings EXCEPT !.post = [NoHooks EXCEPT !.v2 = post]]]
  /\ given' = [mcp |-> m, settings |-> s, skills |-> k]
  /\ cmd' = [name |-> "none", at |-> "idle"]
  /\ UNCHANGED <<warned, commands, breaks, tornWrite>>

-----------------------------------------------------------------------------
(* Merging *)

HasOurs(e) == e.mixed \/ e.ours > 0

\* hook_event_has_command and append_hook_entry.
Appended(e) == IF HasOurs(e) THEN e ELSE [e EXCEPT !.ours = @ + 1]

\* Mutant: an event is dropped as a whole.
EventDropped(e) == NoHooks

\* remove_hook_entry_command drops every entry that mentions the command.
Removed(e) == [e EXCEPT !.mixed = FALSE, !.ours = 0]

\* init writes the v2 hooks, one for each event.
WithV2Hook(e) == [e EXCEPT !.v2 = @ + 1]

MergedMcp(f) == [f EXCEPT !.kind = "object", !.server = "ours"]
MergedSettings(f) ==
  [f EXCEPT !.kind = "object", !.stop = Appended(@), !.post = Appended(@)]
InitedSettings(f) ==
  [f EXCEPT !.kind = "object", !.stop = WithV2Hook(@), !.post = WithV2Hook(@)]

\* merged_global_mcp_json refuses a server of that name with other content.
McpRefused(f) == f.kind = "garbage" \/ f.server = "other"

\* The *_is_empty_shell checks: a file left with nothing in it is removed.
McpWithout(f) ==
  IF f.rest THEN [f EXCEPT !.server = "none"] ELSE NoMcp
SettingsWithout(f) ==
  LET g == [f EXCEPT !.stop = Removed(@), !.post = Removed(@)]
  IN IF g.rest \/ g.stop # NoHooks \/ g.post # NoHooks THEN g ELSE NoSettings

\* project_has_team_registration: the project's own files, else the user's.
Registered ==
  \/ project.mcp.server # "none" \/ project.settings.stop.v2 + project.settings.post.v2 > 0
  \/ mcp.server # "none" \/ HasOurs(settings.stop) \/ HasOurs(settings.post)

\* legacy_v2_hook_warning_section: the projects ~/.claude.json lists.
LegacyV2Hooks ==
  mcp.rest /\ (project.settings.stop.v2 > 0 \/ project.settings.post.v2 > 0)

-----------------------------------------------------------------------------
(* The commands, one file at a time *)

StartCommand(name, at) ==
  /\ cmd.at \in {"idle", "done", "refused"} /\ commands < MaxCommands
  /\ cmd' = [name |-> name, at |-> at] /\ commands' = commands + 1
  /\ UNCHANGED <<mcp, settings, skills, project, given, warned, breaks, tornWrite>>

CommandAt(at) == cmd.at = at
Goto(at) == cmd' = [cmd EXCEPT !.at = at]
Keep == UNCHANGED <<given, commands, breaks, tornWrite>>

InstallMcp ==
  /\ CommandAt("install-mcp")
  /\ IF McpRefused(mcp) THEN Goto("refused") /\ UNCHANGED mcp
     ELSE mcp' = MergedMcp(mcp) /\ Goto("install-settings")
  /\ UNCHANGED <<settings, skills, project, warned>> /\ Keep

InstallSettings ==
  /\ CommandAt("install-settings")
  /\ IF settings.kind = "garbage" THEN Goto("refused") /\ UNCHANGED settings
     ELSE settings' = MergedSettings(settings) /\ Goto("install-skill")
  /\ UNCHANGED <<mcp, skills, project, warned>> /\ Keep

\* install_skill_global_at: a file with other content stops the command.
InstallSkill ==
  /\ CommandAt("install-skill")
  /\ \/ /\ \E f \in SkillFiles : skills[f] = "edited"
        /\ Goto("refused")
        /\ \E done \in SUBSET {f \in SkillFiles : skills[f] = "absent"} :
             skills' = [f \in SkillFiles |-> IF f \in done THEN "ours" ELSE skills[f]]
        /\ UNCHANGED warned
     \/ /\ \A f \in SkillFiles : skills[f] # "edited"
        /\ skills' = [f \in SkillFiles |-> "ours"] /\ Goto("done")
        /\ warned' = LegacyV2Hooks
  /\ UNCHANGED <<mcp, settings, project>> /\ Keep

UninstallMcp ==
  /\ CommandAt("uninstall-mcp")
  /\ IF mcp.kind = "garbage" THEN Goto("refused") /\ UNCHANGED mcp
     ELSE mcp' = McpWithout(mcp) /\ Goto("uninstall-settings")
  /\ UNCHANGED <<settings, skills, project, warned>> /\ Keep

UninstallSettings ==
  /\ CommandAt("uninstall-settings")
  /\ IF settings.kind = "garbage" THEN Goto("refused") /\ UNCHANGED settings
     ELSE settings' = SettingsWithout(settings) /\ Goto("uninstall-skill")
  /\ UNCHANGED <<mcp, skills, project, warned>> /\ Keep

UninstallSkill ==
  /\ CommandAt("uninstall-skill") /\ Goto("done")
  /\ skills' = [f \in SkillFiles |-> IF skills[f] = "ours" THEN "absent" ELSE skills[f]]
  /\ UNCHANGED <<mcp, settings, project, warned>> /\ Keep

\* init_project: every refusal comes before the first write.
InitRefused ==
  \/ project.scripts \/ project.mcp.server # "none" \/ project.mcp.kind = "garbage"
  \/ project.settings.stop.v2 + project.settings.post.v2 > 0
  \/ project.settings.kind = "garbage"
InitCheck ==
  /\ CommandAt("init-check") /\ Goto(IF InitRefused THEN "refused" ELSE "init-scripts")
  /\ UNCHANGED <<mcp, settings, skills, project, warned>> /\ Keep
InitScripts ==
  /\ CommandAt("init-scripts") /\ Goto("init-mcp")
  /\ project' = [project EXCEPT !.scripts = TRUE]
  /\ UNCHANGED <<mcp, settings, skills, warned>> /\ Keep
InitMcp ==
  /\ CommandAt("init-mcp") /\ Goto("init-settings")
  /\ project' = [project EXCEPT !.mcp = MergedMcp(@)]
  /\ UNCHANGED <<mcp, settings, skills, warned>> /\ Keep
InitSettings ==
  /\ CommandAt("init-settings") /\ Goto("done")
  /\ project' = [project EXCEPT !.settings = InitedSettings(@), !.ignored = TRUE]
  /\ UNCHANGED <<mcp, settings, skills, warned>> /\ Keep

\* The process ends between two files.
Interrupt ==
  /\ cmd.at \notin {"setup", "idle", "done", "refused"} /\ breaks < MaxBreaks
  /\ Goto("idle") /\ breaks' = breaks + 1
  /\ UNCHANGED <<mcp, settings, skills, project, given, warned, commands, tornWrite>>

\* ... or inside fs::write, which truncates first.
TearWrite ==
  /\ breaks < MaxBreaks
  /\ \/ /\ CommandAt("install-mcp") /\ ~McpRefused(mcp) /\ mcp.server = "none"
        /\ mcp' = [mcp EXCEPT !.kind = "garbage"] /\ UNCHANGED <<settings, skills>>
     \/ /\ CommandAt("install-settings") /\ settings.kind # "garbage"
        /\ MergedSettings(settings) # settings
        /\ settings' = [settings EXCEPT !.kind = "garbage"] /\ UNCHANGED <<mcp, skills>>
     \/ /\ CommandAt("install-skill")
        /\ \E f \in SkillFiles : /\ skills[f] = "absent"
                                 /\ skills' = [skills EXCEPT ![f] = "edited"]
        /\ UNCHANGED <<mcp, settings>>
  /\ Goto("idle") /\ breaks' = breaks + 1 /\ tornWrite' = TRUE
  /\ UNCHANGED <<project, given, warned, commands>>

Setups ==
  \E m \in {NoMcp, [kind |-> "object", server |-> "none", rest |-> TRUE],
            [kind |-> "object", server |-> "other", rest |-> FALSE]},
     e \in {NoHooks, [NoHooks EXCEPT !.user = TRUE], [NoHooks EXCEPT !.mixed = TRUE]},
     k \in [SkillFiles -> {"absent", "edited"}], post \in {0, 1} :
    UserFiles(m, IF e = NoHooks THEN NoSettings
                 ELSE [NoSettings EXCEPT !.kind = "object", !.stop = e, !.rest = e.user],
              k, post)

Commands ==
  \/ StartCommand("install", "install-mcp") \/ StartCommand("uninstall", "uninstall-mcp")
  \/ StartCommand("init", "init-check")
Steps ==
  \/ InstallMcp \/ InstallSettings \/ InstallSkill
  \/ UninstallMcp \/ UninstallSettings \/ UninstallSkill
  \/ InitCheck \/ InitScripts \/ InitMcp \/ InitSettings

InstallNext == Setups \/ Commands \/ Steps \/ Interrupt \/ TearWrite

InstallSpec == InstallInit /\ [][InstallNext]_installVars

-----------------------------------------------------------------------------
(* Properties *)

InstallTypeOK ==
  /\ mcp \in McpFile /\ settings \in SettingsFile /\ skills \in [SkillFiles -> SkillStates]
  /\ project.mcp \in McpFile /\ project.settings \in SettingsFile
  /\ commands \in 0..MaxCommands /\ breaks \in 0..MaxBreaks

Finished(name) == cmd.at = "done" /\ cmd.name = name

\* A command that reports success did the whole of it, however many earlier runs
\* were interrupted: after install-global server, hooks and skill are there, each
\* hook exactly once, and hooks find the project registered; after
\* uninstall-global nothing of ours is left in the user's files.
SuccessIsComplete ==
  /\ Finished("install") =>
       /\ mcp.server = "ours" /\ Registered /\ \A f \in SkillFiles : skills[f] = "ours"
       /\ \A e \in {settings.stop, settings.post} :
            e.ours = IF e.mixed THEN 0 ELSE 1
  /\ Finished("uninstall") =>
       /\ mcp.server = "none" /\ ~HasOurs(settings.stop) /\ ~HasOurs(settings.post)
       /\ \A f \in SkillFiles : skills[f] # "ours"

\* Whatever sequence of commands ran, whole or interrupted, what the user had in
\* entries of their own is still there: other content, hooks that do not share an
\* entry with ours, edited skill files.
UsersFilesKept ==
  ~tornWrite =>
    /\ given.mcp.rest => mcp.kind = "object" /\ mcp.rest
    /\ given.settings.rest => settings.kind = "object" /\ settings.rest
    /\ given.settings.stop.user => settings.stop.user
    /\ \A f \in SkillFiles : given.skills[f] = "edited" => skills[f] = "edited"

\* A refusal always has its reason in the user's own files: an earlier run that
\* was cut short between two files never makes install-global refuse (for init it
\* does: its own scripts stand in the way of the second run).
RefusalsAreTheUsers ==
  (cmd.at = "refused" /\ cmd.name = "install" /\ ~tornWrite) =>
    \/ given.mcp.server = "other" \/ \E f \in SkillFiles : given.skills[f] = "edited"

\* install-global warns when a listed project still has the v2 hooks, so that a
\* message is not delivered by two sets of hooks unnoticed.
DoubleHooksWarned ==
  Finished("install") /\ mcp.rest /\ project.settings.post.v2 > 0 => warned

\* Whatever sequence of commands ran, whole or interrupted between two files:
\* what the user had is still there, a reported success did the whole of it with
\* every hook there once, a refusal is for what the user's own files held, and
\* the older hooks of a listed project are warned of (install-global and
\* uninstall-global).
InstallKeepsItsWord ==
  /\ InstallTypeOK /\ UsersFilesKept /\ SuccessIsComplete
  /\ RefusalsAreTheUsers /\ DoubleHooksWarned
=============================================================================
