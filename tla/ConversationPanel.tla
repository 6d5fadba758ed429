-------------------------- MODULE ConversationPanel --------------------------
(***************************************************************************)
(* The conversation panel of the web page                                  *)
(* (src/web/team-mode/app-conversation.js, app-render.js, app.js): which   *)
(* member's conversation is asked for, kept and shown while the user       *)
(* selects members and messages and answers arrive late, out of order or   *)
(* not at all.  A key stands for a member of a team.  The turns of the     *)
(* conversation are TurnView's.                                            *)
(***************************************************************************)
EXTENDS TurnView

CONSTANTS Keys,      \* members of the selected team
          LeadKey,   \* the one that is selected by default
          NoKey,
          MaxAsked   \* bound on requests under way for a member

VARIABLES selected,   \* state.selectedMemberName
          tab,        \* state.detailTab
          cached,     \* state.memberConversationKey
          loading,    \* state.memberConversationLoadingKey
          asked,      \* requests under way
          screen      \* what the panel shows: a key, or a word for the rest

ASSUME PanelConstants ==
    /\ LeadKey \in Keys /\ MaxAsked \in Nat
    /\ \A k \in {NoKey, "loading", "failed", "other"} : k \notin Keys

panelVars == <<selected, tab, cached, loading, asked, screen>>

PanelInit ==
    /\ selected = NoKey /\ tab = "detail" /\ cached = NoKey /\ loading = NoKey
    /\ asked = [k \in Keys |-> 0] /\ screen = "other"

\* refreshMemberConversation up to its request; "have" is a kept conversation
\* that makes one needless, "busy" the key of a request under way.
Ask(k, have, busy) ==
    IF busy = k \/ have = k THEN loading' = busy /\ UNCHANGED asked
    ELSE loading' = k /\ asked[k] < MaxAsked /\ asked' = [asked EXCEPT ![k] = @ + 1]

\* renderMemberConversation for the session tab
Render(k, have, busy) ==
    /\ screen' = IF have = k THEN k ELSE "loading"
    /\ Ask(k, have, busy)

\* A click on a member, and on "focus lead": clearMemberDetailCache
SelectMember ==
    \E k \in Keys :
        /\ selected' = k /\ tab' = "session"
        /\ cached' = NoKey
        /\ Render(k, NoKey, NoKey)

\* A click on a message keeps what is cached and asked for.
SelectMessage ==
    /\ selected' = NoKey /\ tab' = "detail" /\ screen' = "other"
    /\ UNCHANGED <<cached, loading, asked>>

DetailTab ==
    /\ tab' = "detail" /\ screen' = "other"
    /\ UNCHANGED <<selected, cached, loading, asked>>

SessionTab ==
    /\ tab' = "session"
    /\ selected' = IF selected = NoKey THEN LeadKey ELSE selected
    /\ Render(selected', cached, loading)
    /\ UNCHANGED cached

\* refreshCurrentTeam renders, then asks again whatever is kept; it selects
\* the lead when the member is gone.
Refresh ==
    /\ selected # NoKey /\ tab = "session"
    /\ \/ /\ screen' = IF cached = selected THEN selected ELSE "loading"
          /\ Ask(selected, NoKey, loading)
          /\ UNCHANGED <<selected, cached>>
       \/ /\ selected # LeadKey /\ selected' = LeadKey /\ cached' = NoKey
          /\ Render(LeadKey, NoKey, NoKey)
    /\ UNCHANGED tab

\* The answer is for the selected member.
StillSelected(k) == selected = k

\* The conversation arrives, or the request fails.
AnswerArrives(k) ==
    /\ asked[k] > 0 /\ asked' = [asked EXCEPT ![k] = @ - 1]
    /\ IF ~StillSelected(k) THEN UNCHANGED <<cached, loading, screen>>
       ELSE /\ loading' = NoKey
            /\ \/ /\ cached' = k
                  /\ screen' = IF tab = "session" THEN k ELSE screen
               \/ /\ UNCHANGED cached
                  /\ screen' = IF tab = "session" /\ cached # k THEN "failed" ELSE screen
    /\ UNCHANGED <<selected, tab>>

PanelNext ==
    \/ SelectMember \/ SelectMessage \/ DetailTab \/ SessionTab \/ Refresh
    \/ \E k \in Keys : AnswerArrives(k)

PanelSpec == PanelInit /\ [][PanelNext]_panelVars

-----------------------------------------------------------------------------

PanelTypeOK ==
    /\ selected \in Keys \cup {NoKey} /\ tab \in {"session", "detail"}
    /\ cached \in Keys \cup {NoKey} /\ loading \in Keys \cup {NoKey}
    /\ asked \in [Keys -> 0..MaxAsked] /\ screen \in Keys \cup {"loading", "failed", "other"}

\* The conversation on the screen is the selected member's, however late the
\* answers arrive; what is kept is shown again only for the member it is of.
PanelIsSelected ==
    /\ screen \in Keys => screen = selected /\ tab = "session" /\ cached = screen
    /\ tab = "session" => selected # NoKey

\* Every item of a log but blank text is shown in one place and in order, results
\* stand with the call they answer, turns are numbered without a gap and end in
\* their last text (preprocessConversationItems); and the conversation on the
\* screen is the selected member's, however late answers to earlier requests
\* arrive (refreshMemberConversation).
ConversationIsWhole ==
    /\ TurnTypeOK /\ NothingIsLost /\ ResultsMeetTheirCalls /\ TurnsAreWhole /\ FinalReplyIsLast
    /\ PanelTypeOK /\ PanelIsSelected
=============================================================================
