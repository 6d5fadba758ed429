---------------------------- MODULE Conversations ----------------------------
(***************************************************************************)
(* The conversation pane of the web UI                                     *)
(* (src/src/team_mode_web/read_model/conversation).  Two leads and the     *)
(* claude workers of a team write session files into one directory, codex  *)
(* workers into a date tree that is scanned through a cache; the pane must *)
(* find the file of the member it is about.  The Stop hook of each lead    *)
(* records which session its process has in a map both leads share.  A     *)
(* file is also read for its items while the program that writes it may be *)
(* in the middle of a line.                                                *)
(***************************************************************************)
EXTENDS Integers, FiniteSets, Sequences, SequencesExt

CONSTANTS Leads,       \* Claude Code processes in the project
          Owner,       \* the lead the team belongs to
          Claudes,     \* claude workers of the team
          Codexes,     \* codex workers of the team
          MaxSessions, \* bound on the sessions of one member, for one of them
          MaxHooks,    \* bound on the Stop hooks that fire
          MaxLines,    \* bound on the lines of the session file that is read
          PaneItems    \* items a pane shows (200)

\* A worker has one backend, and an entry of its own in members.json; a lead is
\* known by its process and has none there.
ASSUME ConversationConstants ==
    /\ Owner \in Leads /\ MaxSessions \in Nat \ {0}
    /\ Leads \cap (Claudes \cup Codexes) = {} /\ Claudes \cap Codexes = {}

VARIABLES current,     \* member -> the session it is in, by number
          claudeDir,   \* session files of the directory, newest first
          codexTree,   \* rollout files, newest first
          scan,        \* the cached scan of the rollouts
          recorded,    \* worker -> session id in its member record
          nodes,       \* contents of the files the map was ever written to
          names,       \* which of them .lead-sessions.json and its .tmp name are
          hook,        \* lead -> where its Stop hook is
          hooks,       \* hooks fired
          pane,        \* the pane read last: of whom, and what it shows
          lines,       \* the lines of a session file
          shown        \* history: every item the pane has shown of it

conversationVars ==
    <<current, claudeDir, codexTree, scan, recorded, nodes, names, hook, hooks, pane, lines, shown>>

TeamWorkers == Claudes \cup Codexes
Members == Leads \cup TeamWorkers
Session(m) == [by |-> m, n |-> current[m]]
NoSession == [by |-> "nobody", n |-> 0]
NoFile == 0
Torn == [whole |-> FALSE]
HookIdle == [pc |-> "idle"]

ToFront(seq, x) == <<x>> \o SelectSeq(seq, LAMBDA y : y # x)

-----------------------------------------------------------------------------
(* Which session file                                                      *)

\* lookup_lead_session_id: a map that is missing or does not parse tells nothing.
Mapped(pid) ==
    IF names.path = NoFile \/ nodes[names.path] = Torn THEN NoSession
    ELSE nodes[names.path].map[pid]

\* Mutant: every member may fall back on the newest file.
FirstFor(m, sessions) == IF sessions = <<>> THEN NoSession ELSE sessions[1]

\* Only the lead may fall back on the newest file.
Fallback(m, sessions) ==
    IF m \in Leads /\ sessions # <<>> THEN sessions[1] ELSE NoSession

\* read_member_conversation, for a claude member, over the files of the directory.
SelectClaude(m) ==
    LET asked == IF m \in Leads THEN Mapped(m) ELSE recorded[m]
    IN  IF asked # NoSession /\ Contains(claudeDir, asked) THEN asked ELSE Fallback(m, claudeDir)

\* read_codex_conversation, by the recorded id in the cached scan.
SelectCodex(m, sessions) ==
    IF recorded[m] # NoSession /\ Contains(sessions, recorded[m]) THEN recorded[m] ELSE NoSession

Confidence(m, s) ==
    LET asked == IF m \in Leads THEN Mapped(m) ELSE recorded[m]
    IN  IF s = NoSession THEN (IF m \in TeamWorkers /\ asked = NoSession THEN "no_session_yet" ELSE "no_session_file")
        ELSE IF s = asked THEN "session_id" ELSE "cwd_latest"

-----------------------------------------------------------------------------
(* Which items.  A line is the sequence of its blocks; the blank text of a *)
(* message, or a kind that is not shown, makes no item but has its number. *)

Visible == {"text", "thinking", "tool_use", "tool_result", "error"}
LineKinds == {<<"text">>, <<"blank", "tool_use">>, <<"other">>, <<"torn">>}

Role(kind) ==
    CASE kind \in {"tool_use", "tool_result"} -> "tool"
      [] kind = "thinking" -> "assistant"
      [] kind = "error" -> "error"
      [] OTHER -> "speaker"

\* The number of a line counts every line of the file.
Index(k) == k

\* Block b of line k, if it makes an item; `text' stands for what it says.
Item(k, b) ==
    [id |-> <<Index(k), b>>, kind |-> lines[k][b], role |-> Role(lines[k][b]), text |-> <<k, b>>]

Blocks == {x \in (1..Len(lines)) \X (1..2) : x[2] \in DOMAIN lines[x[1]] /\ lines[x[1]][x[2]] \in Visible}
Behind(x, y) == x[1] > y[1] \/ (x[1] = y[1] /\ x[2] > y[2])

\* The last PaneItems of them, in the order of their numbers.
ParseConversation ==
    {Item(x[1], x[2]) : x \in {y \in Blocks : Cardinality({z \in Blocks : Behind(z, y)}) < PaneItems}}

-----------------------------------------------------------------------------

ConversationInit ==
    /\ current = [m \in Members |-> 1]
    /\ claudeDir = <<>> /\ codexTree = <<>>
    /\ scan = [fresh |-> FALSE, sessions |-> <<>>]
    /\ recorded = [m \in TeamWorkers |-> NoSession]
    /\ nodes = <<>> /\ names = [path |-> NoFile, tmp |-> NoFile]
    /\ hook = [l \in Leads |-> HookIdle] /\ hooks = 0
    /\ pane = [of |-> Owner, confidence |-> "none", session |-> NoSession]
    /\ lines = <<>> /\ shown = {}

sessionsOnly == UNCHANGED <<nodes, names, hook, hooks, pane, lines, shown>>

\* A member's program writes its session file.
Write(m) ==
    /\ IF m \in Codexes
       THEN codexTree' = ToFront(codexTree, Session(m)) /\ UNCHANGED claudeDir
       ELSE claudeDir' = ToFront(claudeDir, Session(m)) /\ UNCHANGED codexTree
    /\ sessionsOnly /\ UNCHANGED <<current, scan, recorded>>

\* A respawned worker, or a lead that starts over, is in a new session.
NewSession(m) ==
    /\ current[m] < MaxSessions /\ \A k \in Members \ {m} : current[k] = 1
    /\ current' = [current EXCEPT ![m] = @ + 1]
    /\ sessionsOnly /\ UNCHANGED <<claudeDir, codexTree, scan, recorded>>

\* The worker loop records the session id its backend reports.
Backfill(m) ==
    /\ recorded[m] # Session(m)
    /\ recorded' = [recorded EXCEPT ![m] = Session(m)]
    /\ sessionsOnly /\ UNCHANGED <<current, claudeDir, codexTree, scan>>

\* SCAN_CACHE_TTL passes.
ScanExpires ==
    /\ scan.fresh
    /\ scan' = [scan EXCEPT !.fresh = FALSE]
    /\ sessionsOnly /\ UNCHANGED <<current, claudeDir, codexTree, recorded>>

\* persist_lead_session_id: read the map, write it beside, rename it.
HookRead(l) ==
    /\ hook[l] = HookIdle /\ hooks < MaxHooks
    /\ hooks' = hooks + 1
    /\ LET old == IF names.path = NoFile \/ nodes[names.path] = Torn
                  THEN [p \in Leads |-> NoSession] ELSE nodes[names.path].map
       IN  hook' = [hook EXCEPT ![l] = [pc |-> "open", map |-> [old EXCEPT ![l] = Session(l)]]]
    /\ UNCHANGED <<current, claudeDir, codexTree, scan, recorded, nodes, names, pane, lines, shown>>

\* fs::write opens the one .tmp name, new or truncated ...
HookOpen(l) ==
    /\ hook[l].pc = "open"
    /\ IF names.tmp = NoFile
       THEN nodes' = Append(nodes, Torn) /\ names' = [names EXCEPT !.tmp = Len(nodes) + 1]
       ELSE nodes' = [nodes EXCEPT ![names.tmp] = Torn] /\ UNCHANGED names
    /\ hook' = [hook EXCEPT ![l] = [pc |-> "write", map |-> @.map, node |-> names'.tmp]]
    /\ UNCHANGED <<current, claudeDir, codexTree, scan, recorded, hooks, pane, lines, shown>>

\* ... and writes what it has opened.
HookWrite(l) ==
    /\ hook[l].pc = "write"
    /\ nodes' = [nodes EXCEPT ![hook[l].node] = [whole |-> TRUE, map |-> hook[l].map]]
    /\ hook' = [hook EXCEPT ![l] = [pc |-> "rename"]]
    /\ UNCHANGED <<current, claudeDir, codexTree, scan, recorded, names, hooks, pane, lines, shown>>

\* The rename fails when the other hook has already renamed the file.
HookRename(l) ==
    /\ hook[l].pc = "rename"
    /\ names' = IF names.tmp = NoFile THEN names ELSE [path |-> names.tmp, tmp |-> NoFile]
    /\ hook' = [hook EXCEPT ![l] = HookIdle]
    /\ UNCHANGED <<current, claudeDir, codexTree, scan, recorded, nodes, hooks, pane, lines, shown>>

\* scan_with_cache.
Scanned == IF scan.fresh THEN scan.sessions ELSE codexTree

ReadMemberConversation(m) ==
    /\ IF m \in Codexes
       THEN scan' = [fresh |-> TRUE, sessions |-> Scanned]
       ELSE UNCHANGED scan
    /\ LET s == IF m \in Codexes THEN SelectCodex(m, Scanned) ELSE SelectClaude(m)
       IN  pane' = [of |-> m, confidence |-> Confidence(m, s), session |-> s]
    /\ UNCHANGED <<current, claudeDir, codexTree, recorded, nodes, names, hook, hooks, lines, shown>>

\* The program appends a line, perhaps only its beginning ...
AppendLine(line) ==
    /\ Len(lines) < MaxLines /\ (lines # <<>> => Last(lines) # <<"torn">>)
    /\ lines' = Append(lines, line)
    /\ UNCHANGED <<current, claudeDir, codexTree, scan, recorded, nodes, names, hook, hooks, pane, shown>>

\* ... and later the rest of it.
FinishLine(line) ==
    /\ lines # <<>> /\ Last(lines) = <<"torn">> /\ line # <<"torn">>
    /\ lines' = [lines EXCEPT ![Len(lines)] = line]
    /\ UNCHANGED <<current, claudeDir, codexTree, scan, recorded, nodes, names, hook, hooks, pane, shown>>

ReadItems ==
    /\ shown' = shown \cup ParseConversation
    /\ UNCHANGED <<current, claudeDir, codexTree, scan, recorded, nodes, names, hook, hooks, pane, lines>>

Claude ==
    \/ \E m \in Leads \cup Claudes : Write(m) \/ NewSession(m)
    \/ \E m \in Claudes : Backfill(m)
    \/ \E l \in Leads : HookRead(l) \/ HookOpen(l) \/ HookWrite(l) \/ HookRename(l)
    \/ \E m \in {Owner} \cup Claudes : ReadMemberConversation(m)

Codex ==
    \/ \E m \in Codexes : Write(m) \/ NewSession(m) \/ Backfill(m) \/ ReadMemberConversation(m)
    \/ ScanExpires

Reading ==
    \/ \E line \in LineKinds : AppendLine(line) \/ FinishLine(line)
    \/ ReadItems

ConversationNext == Claude \/ Codex \/ Reading

ConversationSpec == ConversationInit /\ [][ConversationNext]_conversationVars

-----------------------------------------------------------------------------

ConversationTypeOK ==
    /\ current \in [Members -> 1..MaxSessions]
    /\ names.path \in 0..Len(nodes) /\ names.tmp \in 0..Len(nodes)
    /\ pane.confidence \in
          {"none", "no_session_yet", "no_session_file", "session_id", "cwd_latest"}
    /\ \A k \in DOMAIN lines : lines[k] \in LineKinds

\* A worker's pane never shows the conversation of anybody else, and a lead's
\* pane that claims to have the session's id shows a session of that lead,
\* whatever else is written into the directory and however hooks cross.
OwnConversation ==
    pane.session # NoSession /\ (pane.of \in TeamWorkers \/ pane.confidence = "session_id")
        => pane.session.by = pane.of

\* An item keeps its id: no two different items are ever shown under one id,
\* also when a line is read half-written and again when it is complete.
IdsAreStable == \A x, y \in shown : x.id = y.id => x = y

\* A pane of the dashboard shows a conversation of the member it is of, never of
\* another lead or worker in the same directory, and an item keeps its id while
\* the file grows, also when its line was first read half-written
\* (resolve_conversation).
PanesShowTheirMember == ConversationTypeOK /\ OwnConversation /\ IdsAreStable
=============================================================================
