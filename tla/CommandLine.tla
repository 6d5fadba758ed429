----------------------------- MODULE CommandLine -----------------------------
(***************************************************************************)
(* The agent-teams command (src/src/bin/agent_teams.rs): the post-commit   *)
(* hook it installs and removes, the checkpoints the hook or the user then *)
(* creates with the usage of the latest session log, and the cost that is  *)
(* reported from them.  The user edits the same hook file.                 *)
(* A hook file is a sequence of lines; a line is the user's, with a        *)
(* number, or ours.  Left out: tables, colours and the other commands'     *)
(* text; dag is in TaskStore, list and diff in Checkpoints.                *)
(***************************************************************************)
EXTENDS Integers, FiniteSets, Sequences, SequencesExt

CONSTANTS Logs,         \* session logs
          Agents,       \* names given to --agent; the hook says "auto"
          MaxLines,     \* bound on the lines the user writes
          MaxCalls,     \* bound on installs and removals
          MaxCommits,   \* bound on commits
          MaxUsage      \* bound on a log's tokens

VARIABLES hook,         \* .git/hooks/post-commit
          wrote,        \* history: the kinds of the lines the user has written, by number
          exposed,      \* history: the ids written where a removal takes them too
          calls,
          notes,        \* commit -> its checkpoint's agent and usage
          logs,         \* log -> its usage so far
          recent        \* the log touched last, or {}

commandVars == <<hook, wrote, exposed, calls, notes, logs, recent>>

-----------------------------------------------------------------------------
(* handle_hook                                                             *)

NoHook == [kind |-> "absent"]
Ours(kind) == [by |-> "us", kind |-> kind, id |-> 0]
Theirs(kind, id) == [by |-> "user", kind |-> kind, id |-> id]

\* HOOK_SCRIPT, and the section that starts with its marker.
HookScript == <<Ours("shebang"), Ours("marker"), Ours("comment"), Ours("comment"), Ours("blank"),
                Ours("if"), Ours("indent"), Ours("fi")>>

\* read_to_string(..).unwrap_or_default(): bytes that are no text read as nothing.
Content(file) == IF file.text THEN file.lines ELSE <<>>
HasMarker(lines) == \E k \in DOMAIN lines : lines[k].kind = "marker"

\* format!("{content}\n{HOOK_SCRIPT}"): the newline ends an open last line, and
\* is a blank line of its own after one that is ended.
Appended(file) ==
    LET content == Content(file)
        gap == IF content = <<>> \/ file.ended THEN <<Ours("blank")>> ELSE <<>>
    IN  [file EXCEPT !.lines = content \o gap \o HookScript, !.ended = TRUE, !.text = TRUE]

Installed(file) ==
    IF file = NoHook
    THEN [kind |-> "file", lines |-> HookScript, ended |-> TRUE, text |-> TRUE, exec |-> TRUE]
    ELSE IF HasMarker(Content(file)) THEN file ELSE Appended(file)

\* Mutant: the file is not searched for the marker.
AlwaysAppended(file) == IF file = NoHook THEN Installed(file) ELSE Appended(file)

\* What the removal takes for our script behind the marker.
LooksOurs(line) == line.kind \in {"shebang", "comment", "if", "indent", "fi", "blank"}

\* The lines dropped: a marker, and all behind it up to one that is not ours.
Dropped(lines) ==
    {k \in DOMAIN lines : \E m \in 1..k : /\ lines[m].kind = "marker"
                                          /\ \A j \in m + 1..k : LooksOurs(lines[j]) \/ lines[j].kind = "marker"}

\* Mutant: once behind the marker, everything is dropped.
DroppedToEnd(lines) == {k \in DOMAIN lines : \E m \in 1..k : lines[m].kind = "marker"}

Kept(lines) ==
    LET numbered == [k \in DOMAIN lines |-> <<k, lines[k]>>]
        kept == SelectSeq(numbered, LAMBDA n : n[1] \notin Dropped(lines))
    IN  [k \in DOMAIN kept |-> kept[k][2]]

\* join("\n") leaves the last line open, and a blank last line is then no line.
Joined(lines) ==
    IF Last(lines).kind = "blank" THEN [lines |-> Front(lines), ended |-> TRUE]
    ELSE [lines |-> lines, ended |-> FALSE]

\* new_content.trim() is empty or "#!/bin/sh".
Bare(lines) ==
    LET text == SelectSeq(lines, LAMBDA line : line.kind # "blank")
    IN  text = <<>> \/ (Len(text) = 1 /\ text[1].kind = "shebang")

Uninstalled(file) ==
    IF file = NoHook \/ ~HasMarker(Content(file)) THEN file
    ELSE LET kept == Kept(file.lines)
         IN  IF Bare(kept) THEN NoHook
             ELSE [file EXCEPT !.lines = Joined(kept).lines, !.ended = Joined(kept).ended]

Install ==
    /\ calls < MaxCalls /\ calls' = calls + 1
    /\ hook' = Installed(hook)
    /\ UNCHANGED <<wrote, exposed, notes, logs, recent>>

Uninstall ==
    /\ calls < MaxCalls /\ calls' = calls + 1
    /\ hook' = Uninstalled(hook)
    /\ UNCHANGED <<wrote, exposed, notes, logs, recent>>

-----------------------------------------------------------------------------
(* The user's editor                                                       *)

\* Everything behind our section so far would be taken for part of it.
BehindOurs(lines) == HasMarker(lines) /\ Len(lines) \in Dropped(lines)

\* The user starts a hook, or appends a line to the one that is there.
UserWrites(kind, ended, exec) ==
    LET id == Len(wrote) + 1
        old == IF hook = NoHook THEN <<>> ELSE hook.lines
    IN  /\ Len(wrote) < MaxLines
        /\ hook # NoHook => hook.text /\ exec = hook.exec
        /\ wrote' = Append(wrote, kind)
        /\ hook' = [kind |-> "file", ended |-> ended, text |-> TRUE, exec |-> exec,
                    lines |-> Append(old, Theirs(kind, id))]
        /\ exposed' = IF BehindOurs(old) /\ kind # "other" THEN exposed \cup {id} ELSE exposed
        /\ UNCHANGED <<calls, notes, logs, recent>>

\* A byte that is no UTF-8 gets into the hook: everything in it is exposed.
UserBreaks ==
    /\ hook # NoHook /\ hook.text /\ hook.lines # <<>>
    /\ hook' = [hook EXCEPT !.text = FALSE]
    /\ exposed' = exposed \cup {hook.lines[k].id : k \in DOMAIN hook.lines}
    /\ UNCHANGED <<wrote, calls, notes, logs, recent>>

-----------------------------------------------------------------------------
(* checkpoint create, and checkpoint cost                                  *)

\* An agent at work: its log counts what it has used since it began.
Work(l) ==
    /\ logs[l] < MaxUsage
    /\ logs' = [logs EXCEPT ![l] = @ + 1]
    /\ recent' = {l}
    /\ UNCHANGED <<hook, wrote, exposed, calls, notes>>

NoNote == [agent |-> "none", from |-> {}, usage |-> 0]

\* create --extended: the whole usage of the latest log, none without one.
Checkpoint(agent) == [agent |-> agent, from |-> recent, usage |-> MapThenSumSet(LAMBDA l : logs[l], recent)]

\* The note of HEAD replaces an older one.
Create(agent) ==
    /\ notes # <<>>
    /\ notes' = [notes EXCEPT ![Len(notes)] = Checkpoint(agent)]
    /\ UNCHANGED <<hook, wrote, exposed, calls, logs, recent>>

\* git runs a hook that may be executed, text or not.
HookRuns == hook # NoHook /\ hook.exec /\ HasMarker(hook.lines)

Commit ==
    /\ Len(notes) < MaxCommits
    /\ notes' = Append(notes, IF HookRuns THEN Checkpoint("auto") ELSE NoNote)
    /\ UNCHANGED <<hook, wrote, exposed, calls, logs, recent>>

Init ==
    /\ hook = NoHook /\ wrote = <<>> /\ exposed = {} /\ calls = 0
    /\ notes = <<>> /\ logs = [l \in Logs |-> 0] /\ recent = {}

Next ==
    \/ Install \/ Uninstall \/ UserBreaks \/ Commit
    \/ \E kind \in {"shebang", "comment", "blank", "other"}, ended, exec \in BOOLEAN :
          UserWrites(kind, ended, exec)
    \/ \E l \in Logs : Work(l)
    \/ \E a \in Agents : Create(a)

\* The checkpoints with usage, and the sum cost reports for some agents; its
\* per_agent map holds the same sum for each.
Counted(agents) == {c \in DOMAIN notes : notes[c].from # {} /\ notes[c].agent \in agents}
Cost(agents) == MapThenSumSet(LAMBDA c : notes[c].usage, Counted(agents))

-----------------------------------------------------------------------------

CommandTypeOK ==
    /\ hook # NoHook => \A k \in DOMAIN hook.lines :
          hook.lines[k].by \in {"user", "us"} /\ hook.lines[k].id \in 0..Len(wrote)
    /\ Len(notes) <= MaxCommits /\ exposed \subseteq 0..Len(wrote) /\ recent \subseteq Logs

Lines == IF hook = NoHook THEN <<>> ELSE hook.lines
TheirLines == {k \in DOMAIN Lines : Lines[k].by = "user"}

\* However installs, removals and the user's editing alternate, our section is
\* there once at most, the user's lines keep their order, and what a removal
\* leaves of ours does nothing.  A line of the user's is lost only if it is
\* blank, was written right behind our section and looks like part of it, or stood
\* in a hook that is no text (handle_hook).
HookIsTidy ==
    /\ Cardinality({k \in DOMAIN Lines : Lines[k].kind = "marker"}) <= 1
    /\ \A j, k \in TheirLines : j < k => Lines[j].id < Lines[k].id
    /\ ~HasMarker(Lines) => \A k \in DOMAIN Lines \ TheirLines : Lines[k].kind \in {"shebang", "blank"}
    /\ \A id \in DOMAIN wrote : wrote[id] # "blank" /\ id \notin exposed =>
          \E k \in TheirLines : Lines[k].id = id

\* The agents' costs add up to the total; and unless two commits were given the
\* usage of the same log, which is then counted twice, the total is no more than
\* the logs say was used (checkpoint create --extended, checkpoint cost).
CostIsCovered ==
    /\ Cost(Agents \cup {"auto"}) = MapThenSumSet(LAMBDA a : Cost({a}), Agents \cup {"auto"})
    /\ (\A c, d \in Counted(Agents \cup {"auto"}) : c # d => notes[c].from # notes[d].from) =>
          Cost(Agents \cup {"auto"}) <= MapThenSumSet(LAMBDA l : logs[l], Logs)
=============================================================================
