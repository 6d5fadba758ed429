------------------------------ MODULE TurnView -------------------------------
(***************************************************************************)
(* How the web page lays out a worker's conversation                       *)
(* (src/web/team-mode/app-conversation.js): the items of the log become    *)
(* rendered items, tool results joining the calls they answer, and these   *)
(* become numbered work turns with their final reply.  The log may start   *)
(* in the middle, repeat a tool's id, or answer a call twice or never.     *)
(***************************************************************************)
EXTENDS Naturals, FiniteSets, Sequences, SequencesExt

CONSTANTS Tools,    \* ids of tool calls
          MaxItems  \* bound on the items of the log

NoTool == "none"

ASSUME TurnConstants == NoTool \notin Tools /\ MaxItems \in Nat

VARIABLE items      \* the log: an item has a kind and the id of its tool call

ItemKinds == {"setup", "prompt", "thinking", "text", "blank", "system"}

LogItem == [kind : ItemKinds, tool : {NoTool}] \cup [kind : {"tool_use", "tool_result"}, tool : Tools \cup {NoTool}]

TurnInit == items = <<>>

\* The worker's process writes another item.
Grow == Len(items) < MaxItems /\ \E i \in LogItem : items' = Append(items, i)

TurnNext == Grow

TurnSpec == TurnInit /\ [][TurnNext]_items

-----------------------------------------------------------------------------
(* preprocessConversationItems                                             *)

\* A rendered item: the places of the items it shows, and of the tool result.
Rendered(type, of, result) == [type |-> type, of |-> of, result |-> result]

NothingShown == [out |-> <<>>, pending |-> [t \in Tools |-> 0], setup |-> <<>>]

\* flushSetup: together if there are several or nothing is shown yet.
FlushSetup(s) ==
    IF s.setup = <<>> THEN s
    ELSE LET type == IF Len(s.setup) > 1 \/ s.out = <<>> THEN "session_setup" ELSE "user_prompt"
         IN  [s EXCEPT !.out = Append(@, Rendered(type, s.setup, 0)), !.setup = <<>>]

Show(s, type, n) == [s EXCEPT !.out = Append(@, Rendered(type, <<n>>, 0))]

\* A call waits for its result; a later call with its id takes its place.
ToolUse(s, n) ==
    LET t == items[n].tool
        shown == Show(s, "tool_call", n)
    IN  IF t = NoTool THEN shown ELSE [shown EXCEPT !.pending[t] = Len(shown.out)]

\* Mutant: an answered call still waits.
StillPending(s, t, n) == [s EXCEPT !.out[s.pending[t]].result = n]

\* The call has its result and waits no longer.
AnsweredCall(s, t, n) == [s EXCEPT !.out[s.pending[t]].result = n, !.pending[t] = 0]

\* A result nobody waits for is shown as a call of its own.
ToolResult(s, n) ==
    LET t == items[n].tool
    IN  IF t # NoTool /\ s.pending[t] # 0 THEN AnsweredCall(s, t, n)
        ELSE [s EXCEPT !.out = Append(@, Rendered("tool_call", <<>>, n))]

ShowItem(s, n) ==
    LET kind == items[n].kind
        flushed == FlushSetup(s)
    IN  CASE kind = "setup" -> [s EXCEPT !.setup = Append(@, n)]
          [] kind = "prompt" -> Show(flushed, "user_prompt", n)
          [] kind \in {"thinking", "system", "text"} -> Show(flushed, kind, n)
          [] kind = "tool_use" -> ToolUse(flushed, n)
          [] kind = "tool_result" -> ToolResult(flushed, n)
          [] kind = "blank" -> flushed

PreprocessConversationItems ==
    LET view[n \in 0..Len(items)] == IF n = 0 THEN NothingShown ELSE ShowItem(view[n - 1], n)
    IN  FlushSetup(view[Len(items)]).out

-----------------------------------------------------------------------------
(* groupConversationItemsIntoTurns, findFinalTextItem                      *)

\* A group: a set-up block (index 0) or a work turn; its items are places in
\* the rendered list, the prompt first if there is one.
Group(index, members) == [index |-> index, members |-> members]

NoGroups == [groups |-> <<>>, index |-> 0, open |-> FALSE]

\* A set-up block ends the turn, a prompt opens one, so does the first item
\* where none is open; the others join.
Placed(g, n, type) ==
    IF type = "session_setup" THEN [g EXCEPT !.groups = Append(@, Group(0, <<n>>)), !.open = FALSE]
    ELSE IF type = "user_prompt" \/ ~g.open
    THEN [groups |-> Append(g.groups, Group(g.index + 1, <<n>>)), index |-> g.index + 1, open |-> TRUE]
    ELSE [g EXCEPT !.groups[Len(g.groups)].members = Append(@, n)]

GroupConversationItemsIntoTurns(shown) ==
    LET placed[n \in 0..Len(shown)] ==
          IF n = 0 THEN NoGroups ELSE Placed(placed[n - 1], n, shown[n].type)
    IN  placed[Len(shown)].groups

\* The last text that no tool call follows, 0 if there is none.
FindFinalTextItem(shown, group) ==
    LET final[k \in 0..Len(group.members)] ==
          IF k = 0 THEN 0
          ELSE IF shown[group.members[k]].type = "text" THEN group.members[k]
          ELSE IF shown[group.members[k]].type = "tool_call" THEN 0
          ELSE final[k - 1]
    IN  final[Len(group.members)]

-----------------------------------------------------------------------------
(* Properties                                                              *)

\* The positions of the log's items in what is shown.
Sources(r) == ToSet(r.of) \cup (IF r.result = 0 THEN {} ELSE {r.result})

TurnTypeOK == items \in Seq(LogItem) /\ Len(items) <= MaxItems

\* Every item of the log but blank text is shown in exactly one place, and
\* what is shown is in the log's order.
NothingIsLost ==
    LET shown == PreprocessConversationItems
    IN  /\ \A n \in DOMAIN items :
             (items[n].kind # "blank") =>
                 \E i \in DOMAIN shown : n \in Sources(shown[i])
                                         /\ \A j \in DOMAIN shown \ {i} : n \notin Sources(shown[j])
        /\ \A i, j \in DOMAIN shown : i < j =>
             \A a \in ToSet(shown[i].of), b \in Sources(shown[j]) : a < b

\* Item n calls the tool with id t, or is a result for it; result r is the first
\* one after call u, with no other such call between them.
IsUse(n, t) == items[n].kind = "tool_use" /\ items[n].tool = t
IsResult(n, t) == items[n].kind = "tool_result" /\ items[n].tool = t
Quiet(from, to, t) == \A n \in from..to : ~IsUse(n, t) /\ ~IsResult(n, t)
Answers(r, u) == \E t \in Tools : IsUse(u, t) /\ IsResult(r, t) /\ u < r /\ Quiet(u + 1, r - 1, t)

\* A tool call shows the first result with its id that comes after it and
\* before the next call with that id, and no other; other results stand alone.
ResultsMeetTheirCalls ==
    LET shown == PreprocessConversationItems
    IN  \A i \in DOMAIN shown : shown[i].type = "tool_call" =>
          IF shown[i].of = <<>> THEN \A u \in DOMAIN items : ~Answers(shown[i].result, u)
          ELSE IF shown[i].result # 0 THEN Answers(shown[i].result, shown[i].of[1])
          ELSE \A r \in DOMAIN items : ~Answers(r, shown[i].of[1])

\* The turns among the first i groups.
Turns(groups, i) == {j \in 1..i : groups[j].index # 0}

\* The groups hold what is shown in its order, the turns are numbered without a
\* gap; a prompt only opens a turn, set-up is in none, and a turn without a
\* prompt is at the start of the page or after set-up.
TurnsAreWhole ==
    LET shown == PreprocessConversationItems
        groups == GroupConversationItemsIntoTurns(shown)
        last(i) == IF i = 0 THEN 0 ELSE groups[i].members[Len(groups[i].members)]
    IN  /\ last(Len(groups)) = Len(shown)
        /\ \A i \in DOMAIN groups :
             LET g == groups[i].members
             IN  /\ g # <<>> /\ g[1] = last(i - 1) + 1
                 /\ \A k \in 2..Len(g) : g[k] = g[k - 1] + 1
                 /\ IF groups[i].index = 0 THEN \A k \in DOMAIN g : shown[g[k]].type = "session_setup"
                    ELSE /\ groups[i].index = Cardinality(Turns(groups, i))
                         /\ \A k \in 2..Len(g) : shown[g[k]].type \notin {"user_prompt", "session_setup"}
                         /\ shown[g[1]].type = "user_prompt" \/ i = 1 \/ groups[i - 1].index = 0

\* What a turn shows as its final reply is a text after which no tool was
\* called or answered on the page, and the last text is one unless there was.
FinalReplyIsLast ==
    LET shown == PreprocessConversationItems
        groups == GroupConversationItemsIntoTurns(shown)
    IN  \A i \in DOMAIN groups :
          LET g == ToSet(groups[i].members)
              final == FindFinalTextItem(shown, groups[i])
          IN  /\ final # 0 => /\ final \in g /\ shown[final].type = "text"
                              /\ \A n \in g : n > final => shown[n].type \notin {"text", "tool_call"}
              /\ final = 0 => \A n \in g : shown[n].type = "text" =>
                                 \E k \in g : k > n /\ shown[k].type = "tool_call"
=============================================================================
