---------------------------- MODULE SessionCosts ----------------------------
(***************************************************************************)
(* Token usage read from session logs (src/src/util/session_discovery.rs   *)
(* and checkpoint/collector.rs) and the text it is shown with              *)
(* (models/token.rs).  A log is a sequence of lines: one that is blank or  *)
(* does not parse, a tool call, or usage with its counts.  An optional     *)
(* count is a set of at most one number.                                   *)
(***************************************************************************)
EXTENDS Integers, FiniteSets, Sequences, SequencesExt

CONSTANTS LogFiles,     \* session files
          AgentOf,      \* session file -> the agent its lines name
          MaxLogLines,  \* bound on the lines of all logs
          MaxChars,     \* bound on the characters of a text
          MaxLen        \* bytes a summary may have (200, 2000)

VARIABLES logs,         \* session file -> its lines
          chars         \* a text, as the bytes each of its characters takes

costVars == <<logs, chars>>

LogLines == {[kind |-> "broken"], [kind |-> "tool"],
             [kind |-> "usage", tokens |-> 1, cache |-> {}],
             [kind |-> "usage", tokens |-> 2, cache |-> {3}]}

-----------------------------------------------------------------------------
(* Usage                                                                   *)

Zero == [tokens |-> 0, cache |-> {}]

\* TokenUsage::merge, of an optional count.
MergedCache(a, b) == IF b = {} THEN a ELSE {SumSet(a) + SumSet(b)}

Merge(a, b) == [tokens |-> a.tokens + b.tokens, cache |-> MergedCache(a.cache, b.cache)]

\* parse_session_file: the sums over the usage lines; a cache sum of 0 is None.
ParseTokenUsage(log) ==
    LET usage == SelectSeq(log, LAMBDA line : line.kind = "usage")
        tokens == FoldSeq(LAMBDA line, n : n + line.tokens, 0, usage)
        cache == FoldSeq(LAMBDA line, n : n + SumSet(line.cache), 0, usage)
    IN  IF usage = <<>> THEN {}
        ELSE {[tokens |-> tokens, cache |-> IF cache > 0 THEN {cache} ELSE {}]}

\* aggregate_cost over the files in any order: the total and each agent's part.
AggregateCost(files) ==
    LET add(f, acc) ==
            LET usage == ParseTokenUsage(logs[f])
                a == AgentOf[f]
            IN  IF usage = {} THEN acc
                ELSE LET u == CHOOSE x \in usage : TRUE
                     IN  [total |-> Merge(acc.total, u), count |-> acc.count + 1,
                          agents |-> [b \in DOMAIN acc.agents \cup {a} |->
                             IF b # a THEN acc.agents[b]
                             ELSE IF a \in DOMAIN acc.agents THEN Merge(acc.agents[a], u) ELSE u]]
    IN  FoldSeq(add, [total |-> Zero, count |-> 0, agents |-> <<>>], files)

-----------------------------------------------------------------------------
(* truncate_string, on byte offsets from 0                                 *)

Bytes(n) == FoldSeq(LAMBDA w, b : b + w, 0, SubSeq(chars, 1, n))
Starts == {Bytes(n) : n \in 0..Len(chars)}
Length == Bytes(Len(chars))

Target == IF MaxLen > 3 THEN MaxLen - 3 ELSE 0

\* The slice up to and including the target byte panics off a boundary.
SliceEnd == (IF Target < Length - 1 THEN Target ELSE Length - 1) + 1
Panics == Length > MaxLen /\ SliceEnd \notin Starts

\* Where the last character of the slice begins.
Boundary == CHOOSE b \in Starts : b < SliceEnd /\ \A c \in Starts : c < SliceEnd => c <= b

\* The cuts of the command's and the dashboard's tables (truncate_display,
\* print_checkpoint_summary, views' truncate, the label of a bar): a slice that
\* ends as many bytes before the limit as its dots take, at a boundary or not.
Display(dots) == IF Length <= MaxLen THEN [cut |-> Length, dots |-> 0] ELSE [cut |-> MaxLen - dots, dots |-> dots]
DisplayPanics(dots) == Display(dots).cut \notin Starts

TruncateString == IF Length <= MaxLen THEN [cut |-> Length, dots |-> 0] ELSE [cut |-> Boundary, dots |-> 3]

-----------------------------------------------------------------------------

Init == logs = [f \in LogFiles |-> <<>>] /\ chars = <<>>

Log(f, line) ==
    /\ MapThenSumSet(LAMBDA g : Len(logs[g]), LogFiles) < MaxLogLines
    /\ logs' = [logs EXCEPT ![f] = Append(@, line)]
    /\ UNCHANGED chars

Type(w) ==
    /\ Len(chars) < MaxChars
    /\ chars' = Append(chars, w)
    /\ UNCHANGED logs

Next ==
    \/ chars = <<>> /\ \E f \in LogFiles, line \in LogLines : Log(f, line)
    \/ (\A f \in LogFiles : logs[f] = <<>>) /\ \E w \in 1..3 : Type(w)

-----------------------------------------------------------------------------

CostTypeOK ==
    /\ \A f \in LogFiles : \A k \in DOMAIN logs[f] : logs[f][k] \in LogLines
    /\ \A k \in DOMAIN chars : chars[k] \in 1..3

\* Whatever the order in which the files are found, the agents' parts add up to
\* the total, cached tokens too, and nothing of any log is lost.
AgentsAddUp ==
    \A files \in SetToAllKPermutations(LogFiles) :
        LET cost == AggregateCost(files)
            parts == cost.agents
            every == {<<f, k>> : f \in ToSet(files), k \in 1..MaxLogLines}
            usage == {x \in every : x[2] <= Len(logs[x[1]]) /\ logs[x[1]][x[2]].kind = "usage"}
        IN  /\ cost.total.tokens = MapThenSumSet(LAMBDA a : parts[a].tokens, DOMAIN parts)
            /\ SumSet(cost.total.cache) = MapThenSumSet(LAMBDA a : SumSet(parts[a].cache), DOMAIN parts)
            /\ cost.total.tokens = MapThenSumSet(LAMBDA x : logs[x[1]][x[2]].tokens, usage)
            /\ SumSet(cost.total.cache) = MapThenSumSet(LAMBDA x : SumSet(logs[x[1]][x[2]].cache), usage)

\* A summary that is returned is whole characters and fits its limit, and so is
\* what a table shows of it; a summary of one-byte characters is always shown.
SummariesFit ==
    /\ ~Panics => LET t == TruncateString IN t.cut \in Starts /\ t.cut + t.dots <= MaxLen
    /\ \A dots \in {0, 2, 3} : Display(dots).cut + Display(dots).dots <= MaxLen
    /\ ToSet(chars) \subseteq {1} => ~Panics /\ \A dots \in {0, 2, 3} : ~DisplayPanics(dots)

=============================================================================
