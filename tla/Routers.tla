------------------------------- MODULE Routers -------------------------------
(***************************************************************************)
(* Choosing a backend for a prompt (src/src/backend/router.rs) and the     *)
(* prompt a spawn sends (delegation.rs, models/session.rs).  The word      *)
(* search works on characters: letters, which are alphanumeric, and a      *)
(* blank.  A routing question names which keywords occur, how long the     *)
(* prompt is, and what is registered; HashMap order makes `available' come *)
(* in any order, so `first' is any of them.                                *)
(***************************************************************************)
EXTENDS Integers, FiniteSets, Sequences

CONSTANTS Letters, Blank,   \* the characters of prompts and keywords
          MaxText,          \* bound on the prompt's length
          Keywords,         \* keywords, as sequences of characters
          MaxResumes        \* bound on restarts of the orchestrator

ASSUME RouterConstants ==
    /\ Blank \notin Letters /\ MaxText \in Nat /\ MaxResumes \in Nat
    /\ \A word \in Keywords : word \in Seq(Letters \cup {Blank})

VARIABLES text,             \* a prompt, typed character by character
          question,         \* what a router is asked
          spawned,          \* the prompt of the agent's latest spawn, as parts
          resumes

routerVars == <<text, question, spawned, resumes>>

Backends == {"claude", "codex", "gemini"}
Chars == Letters \cup {Blank}
NoBackend == "none"

-----------------------------------------------------------------------------
(* contains_word                                                           *)

MatchAt(word, i) == i + Len(word) <= Len(text) /\ SubSeq(text, i + 1, i + Len(word)) = word
IsAlnum(i) == i \in DOMAIN text /\ text[i] \in Letters
Bounded(word, i) == ~IsAlnum(i) /\ ~IsAlnum(i + Len(word) + 1)

\* Mutant: only the first occurrence is looked at.
FirstOccurrence(word, start) ==
    LET found == {i \in start..Len(text) : MatchAt(word, i)}
        pos == CHOOSE i \in found : \A j \in found : i <= j
    IN  found # {} /\ Bounded(word, pos)

\* find from `start', then on from behind the match that was not a word.
FindWord(word, start) ==
    LET find[from \in 0..Len(text)] ==
          LET found == {i \in from..Len(text) : MatchAt(word, i)}
              pos == CHOOSE i \in found : \A j \in found : i <= j
          IN  found # {} /\ (Bounded(word, pos) \/ find[pos + Len(word)])
    IN  find[start]

ContainsWord(word) == word # <<>> /\ Len(text) >= Len(word) /\ FindWord(word, 0)

-----------------------------------------------------------------------------
(* The routers.  cost_weight is w / 2.                                     *)

Question == [available : SUBSET Backends, matched : SUBSET (1..2),
             rules : {<<"codex", "gemini">>, <<"gemini", "gemini">>, <<"claude", "codex">>},
             default : {"claude", "gemini"}, multi_turn : BOOLEAN, w : 0..2,
             prompt : {[len |-> 0, code |-> FALSE, paragraphs |-> 1],
                       [len |-> 0, code |-> TRUE, paragraphs |-> 1],
                       [len |-> 2, code |-> TRUE, paragraphs |-> 1]},
             tiers : BOOLEAN]

FirstOf(q) == IF q.default \in q.available THEN {q.default} ELSE q.available

Applicable(q) == {k \in q.matched : q.rules[k] \in q.available}

ByRule(q) == LET first == CHOOSE k \in Applicable(q) : \A j \in Applicable(q) : k <= j
             IN  {q.rules[first]}

KeywordRoute(q) ==
    IF q.available = {} THEN {NoBackend}
    ELSE IF Applicable(q) # {} THEN ByRule(q) ELSE FirstOf(q)

MultiTurn(b) == b # "gemini"
CostTier == [claude |-> 3, codex |-> 2, gemini |-> 1]
LatencyTier == [claude |-> 2, codex |-> 2, gemini |-> 3]
Score(q, b) == q.w * CostTier[b] + (2 - q.w) * LatencyTier[b]

CapabilityRoute(q) ==
    LET fit == {b \in q.available : q.multi_turn => MultiTurn(b)}
    IN  IF fit = {} THEN {NoBackend}
        ELSE {b \in fit : \A c \in fit : Score(q, b) <= Score(q, c)}

\* ChainRouter over a keyword and a capability router.
ChainRoute(q) ==
    UNION {IF b = NoBackend THEN CapabilityRoute(q) ELSE {b} : b \in KeywordRoute(q)}

\* analyze_complexity with thresholds 2 and 5 in place of 200 and 800.
Complexity(p) ==
    IF p.len >= 5 \/ (p.code /\ p.len >= 2) \/ p.paragraphs >= 4 THEN "complex"
    ELSE IF p.len >= 2 \/ p.code \/ p.paragraphs >= 2 THEN "medium"
    ELSE "simple"

\* The backend set for the prompt's complexity, if the router has any.
Preferred(q) ==
    IF q.tiers THEN [simple |-> "gemini", medium |-> "codex", complex |-> "claude"][Complexity(q.prompt)]
    ELSE NoBackend

\* SmartRouter: a keyword, then the complexity's backend, then the cheapest.
SmartRoute(q) ==
    IF q.available = {} THEN {NoBackend}
    ELSE IF Applicable(q) # {} THEN ByRule(q)
    ELSE IF Preferred(q) \in q.available THEN {Preferred(q)}
    ELSE IF CapabilityRoute(q) # {NoBackend} THEN CapabilityRoute(q)
    ELSE FirstOf(q)

-----------------------------------------------------------------------------
(* The prompt of a spawn.                                                  *)

FormatDelegationPrompt(delegations) ==
    IF delegations = <<>> THEN <<>> ELSE <<"heading">> \o delegations

\* SessionState::to_spawn_config: the saved prompt holds the instructions already.
ToSpawnConfig(prompt) == [prompt |-> prompt, delegations |-> <<>>]

SpawnPrompt(config) == FormatDelegationPrompt(config.delegations) \o config.prompt

-----------------------------------------------------------------------------

\* Nothing has been asked.
Idle == [available |-> {}, matched |-> {}, rules |-> <<"codex", "gemini">>, default |-> "claude",
         multi_turn |-> FALSE, w |-> 0, prompt |-> [len |-> 0, code |-> FALSE, paragraphs |-> 1],
         tiers |-> FALSE]

RouterInit == text = <<>> /\ question = Idle /\ spawned = <<>> /\ resumes = 0

Type(c) ==
    /\ Len(text) < MaxText /\ question = Idle /\ spawned = <<>>
    /\ text' = Append(text, c)
    /\ UNCHANGED <<question, spawned, resumes>>

Ask ==
    /\ text = <<>> /\ question = Idle /\ spawned = <<>>
    /\ question' \in Question
    /\ UNCHANGED <<text, spawned, resumes>>

SpawnDelegating(delegations) ==
    /\ text = <<>> /\ question = Idle /\ spawned = <<>>
    /\ spawned' = SpawnPrompt([prompt |-> <<"prompt">>, delegations |-> delegations])
    /\ UNCHANGED <<text, question, resumes>>

ResumeSaved ==
    /\ spawned # <<>> /\ resumes < MaxResumes
    /\ spawned' = SpawnPrompt(ToSpawnConfig(spawned))
    /\ resumes' = resumes + 1
    /\ UNCHANGED <<text, question>>

RouterNext ==
    \/ \E c \in Chars : Type(c)
    \/ Ask
    \/ \E d \in {<<>>, <<"codex">>, <<"codex", "gemini">>} : SpawnDelegating(d)
    \/ ResumeSaved

RouterSpec == RouterInit /\ [][RouterNext]_routerVars

-----------------------------------------------------------------------------

RouterTypeOK ==
    /\ \A k \in DOMAIN text : text[k] \in Chars
    /\ question \in Question /\ resumes \in 0..MaxResumes

\* A keyword that overlaps itself: one of its proper beginnings is its end.
Overlaps(word) == \E n \in 1..Len(word) - 1 : SubSeq(word, 1, n) = SubSeq(word, Len(word) - n + 1, Len(word))

\* The search finds exactly the keywords that occur as whole words, as long as
\* the keyword does not overlap itself; what it finds is always a word.  An empty
\* keyword is in no prompt.
WordsAreFound ==
    \A word \in Keywords :
        LET isWord == \E i \in 0..Len(text) : MatchAt(word, i) /\ Bounded(word, i)
        IN  /\ ContainsWord(word) => isWord /\ word # <<>>
            /\ isWord /\ word # <<>> /\ ~Overlaps(word) => ContainsWord(word)

\* Every router that answers names a registered backend, the keyword and smart
\* routers answer whenever there is one, and no registered backend the smart
\* router could fall back on is cheaper and fitter than the one it falls back to.
RoutesAreRegistered ==
    LET q == question
    IN  /\ \A b \in KeywordRoute(q) \cup SmartRoute(q) \cup ChainRoute(q) :
              IF q.available = {} THEN b = NoBackend ELSE b \in q.available
        /\ CapabilityRoute(q) \subseteq q.available \cup {NoBackend}
        /\ Applicable(q) = {} /\ Preferred(q) \notin q.available =>
              \A b \in SmartRoute(q), c \in q.available :
                 (q.multi_turn => MultiTurn(c)) => Score(q, b) <= Score(q, c) /\ (q.multi_turn => MultiTurn(b))

\* However often an agent is resumed, its prompt carries the instructions of
\* its delegations exactly once.
InstructionsOnce ==
    spawned # <<>> => \A p \in {"heading", "codex", "gemini", "prompt"} :
        Cardinality({k \in DOMAIN spawned : spawned[k] = p}) <= 1
=============================================================================
