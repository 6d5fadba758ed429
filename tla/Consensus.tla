------------------------------ MODULE Consensus ------------------------------
(***************************************************************************)
(* The voting functions (src/src/consensus/mod.rs) over responses that     *)
(* arrive one at a time.  They are pure, but max_by over a HashMap returns *)
(* one of several equal winners, so each function gives the SET of results *)
(* it may return.  Weights are integers; they may be zero or negative.     *)
(***************************************************************************)
EXTENDS Integers, FiniteSets, Sequences

CONSTANTS Answers,       \* contents an agent may answer
          Weights,
          MaxResponses   \* bound on the agents asked

ASSUME ConsensusConstants == Weights \subseteq Int /\ MaxResponses \in Nat

VARIABLE responses       \* the responses collected so far

Response == [content : Answers, weight : Weights, timed_out : BOOLEAN]

ConsensusInit == responses = <<>>

Collect(r) ==
    /\ Len(responses) < MaxResponses
    /\ responses' = Append(responses, r)

ConsensusNext == \E r \in Response : Collect(r)

ConsensusSpec == ConsensusInit /\ [][ConsensusNext]_responses

-----------------------------------------------------------------------------

Active ==
    LET active[k \in 0..Len(responses)] ==
          IF k = 0 THEN <<>>
          ELSE IF responses[k].timed_out THEN active[k - 1] ELSE Append(active[k - 1], responses[k])
    IN  active[Len(responses)]
Contents == {Active[k].content : k \in DOMAIN Active}
Undecided == [decision |-> {}, reached |-> FALSE]
Decided(a) == [decision |-> {a}, reached |-> TRUE]

Votes(a) == Cardinality({k \in DOMAIN Active : Active[k].content = a})
Weight(a) ==
    LET sum[k \in 0..Len(Active)] ==
          IF k = 0 THEN 0
          ELSE IF Active[k].content = a THEN sum[k - 1] + Active[k].weight ELSE sum[k - 1]
    IN  sum[Len(Active)]

Threshold == Len(Active) \div 2 + 1

ResolveMajority ==
    IF Active = <<>> THEN {Undecided}
    ELSE {IF Votes(a) >= Threshold THEN Decided(a) ELSE Undecided :
            a \in {b \in Contents : \A c \in Contents : Votes(c) <= Votes(b)}}

Heaviest == {b \in Contents : \A c \in Contents : Weight(c) <= Weight(b)}

ResolveWeighted == IF Active = <<>> THEN {Undecided} ELSE {Decided(a) : a \in Heaviest}

ResolveUnanimous ==
    IF Active # <<>> /\ \A k \in DOMAIN Active : Active[k].content = Active[1].content
    THEN {Decided(Active[1].content)} ELSE {Undecided}

ResolveHumanInTheLoop == {Undecided}

Resolve(strategy) ==
    CASE strategy = "majority"  -> ResolveMajority
      [] strategy = "weighted"  -> ResolveWeighted
      [] strategy = "unanimous" -> ResolveUnanimous
      [] strategy = "human"     -> ResolveHumanInTheLoop

-----------------------------------------------------------------------------

ConsensusTypeOK == \A k \in DOMAIN responses : responses[k] \in Response

\* A majority is more than half of those who answered in time, so the order in
\* which the counts are visited cannot change it; a tie of two answers is none.
MajorityIsOne ==
    LET outcomes == Resolve("majority")
    IN  /\ Cardinality(outcomes) = 1
        /\ \A o \in outcomes : o.reached <=>
              \E a \in Answers : 2 * Votes(a) > Len(Active) /\ o.decision = {a}

\* The strategies do not contradict one another: what all agree on is what the
\* majority decides and, with positive weights, what weighs most; and the weighted
\* vote never decides for an answer that only timed-out agents gave.
StrategiesAgree ==
    /\ \A o \in Resolve("unanimous") : o.reached =>
          /\ Resolve("majority") = {o}
          /\ (\A k \in DOMAIN Active : Active[k].weight > 0) => Resolve("weighted") = {o}
    /\ \A o \in Resolve("weighted") : o.decision \subseteq Contents
    /\ \A s \in {"majority", "weighted", "unanimous"} : \A o \in Resolve(s) :
          o.reached => Active # <<>>
    /\ \A o \in Resolve("human") : ~o.reached
=============================================================================
