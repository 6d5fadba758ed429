------------------------------- MODULE Routing -------------------------------
(***************************************************************************)
(* Who receives a message (src/src/team_mode/mcp/tools/message.rs and      *)
(* service/message_service.rs): the send_message tool with its probe of    *)
(* every recipient, the notices of agent loops and the posts of the web    *)
(* UI.  Tool calls are serialised; workers die, and the watchdog removes   *)
(* members, between the steps of one.  A text is a sequence of tokens: a   *)
(* handle stands for "@handle", "word" for prose, "nl" for a line break.   *)
(***************************************************************************)
EXTENDS Naturals, Sequences

CONSTANTS Workers,    \* names of workers
          Handles,    \* handles as they are written
          Lower,      \* the lower-case form of those with capitals
          MaxText,    \* bound on a text's tokens
          MaxPosts    \* bound on calls and on messages of loops and of the web UI

Lead == "lead"
User == "user"
Names == Workers \cup {Lead, User}
NoCall == [pc |-> "none"]

VARIABLES roster,    \* members.json: status of every member
          up,        \* workers whose process lives
          call,      \* the send_message call
          msgs,      \* the transcript
          posts      \* calls, and messages of loops and of the web UI, so far

routingVars == <<roster, up, call, msgs, posts>>

RoutingInit ==
    /\ roster = [n \in Names |-> IF n = User THEN "absent" ELSE "active"]
    /\ up \in SUBSET Workers
    /\ call = NoCall /\ msgs = {} /\ posts = 0

\* to_lowercase
LowerCase(h) == IF h \in DOMAIN Lower THEN Lower[h] ELSE h

\* Names are in lower case (validate_slug_name), and worker_add gives no worker
\* the web user's (WEB_USER_SENDER).
ASSUME RoutingConstants ==
    MaxPosts \in Nat /\ Names \cap DOMAIN Lower = {} /\ User \notin Workers

Texts == UNION {[1..n -> Handles \cup {"word", "nl"}] : n \in 0..MaxText}

\* parse_mentions_from_body: the handles anywhere in the text.
ParseMentionsFromBody(text) == {text[i] : i \in DOMAIN text} \cap Handles

\* extract_dispatch_handles: the handles that open the first line.
ExtractDispatchHandles(text) ==
    {text[i] : i \in {j \in DOMAIN text : \A k \in 1..j : text[k] \in Handles}}

-----------------------------------------------------------------------------
(* MessageService                                                          *)

\* The members a set of handles names, case ignored, with the given status.
Addressed(handles, status) == {n \in Names : n \in {LowerCase(h) : h \in handles} /\ roster[n] = status}

\* Handles of removed or unknown members: DeliveryDrop.
Dropped(handles) == {h \in handles : LowerCase(h) \notin Addressed(handles, "active")}

\* Lead observability.
Observers(sender) == IF sender = Lead THEN {} ELSE {Lead}

Recipients(sender, handles) == Addressed(handles, "active") \cup Observers(sender)

\* send_inner refuses a sender that is gone, mail to oneself, and a dispatch to nobody.
Accepts(sender, kind, handles) ==
    /\ roster[sender] = "active"
    /\ sender \notin Addressed(handles, "active")
    /\ kind = "dispatch" => Recipients(sender, handles) # {}

DeriveDeliveryStatus(to, dropped) ==
    IF to = {} THEN "pending" ELSE IF dropped = {} THEN "delivered" ELSE "partial"

Message(sender, kind, handles, asked) ==
    [sender |-> sender, kind |-> kind, to |-> Recipients(sender, handles), dropped |-> Dropped(handles),
     asked |-> asked, status |-> DeriveDeliveryStatus(Recipients(sender, handles), Dropped(handles))]

-----------------------------------------------------------------------------
(* The send_message tool                                                   *)

\* The address book: active workers and the lead (the web user is a member too).
Book == {n \in Names : roster[n] = "active"} \cup {Lead}

\* Mutant: handles that match nobody are skipped.
NoneUnmatched(asked) == {}

Unmatched(asked) == {h \in asked : LowerCase(h) \notin Book}

\* A worker that names nobody means the lead; the lead must name someone.
Asked(caller, mentions, text) ==
    LET named == IF mentions # {} THEN mentions ELSE ExtractDispatchHandles(text)
    IN  IF named = {} /\ caller # Lead THEN {"lead"} ELSE named

SendMessage ==
    /\ call.pc = "none" /\ posts < MaxPosts
    /\ \E caller \in Workers \cup {Lead}, text \in Texts,
          mentions \in {{}} \cup {{h} : h \in Handles}, preempt \in BOOLEAN :
         LET asked == Asked(caller, mentions, text)
             resolved == ({LowerCase(h) : h \in asked} \cap Book) \ {caller}
         IN  /\ roster[caller] = "active" /\ (preempt => caller = Lead)
             /\ asked # {} /\ Unmatched(asked) = {} /\ resolved # {}
             /\ call' = [pc |-> "probe", caller |-> caller, asked |-> asked, body |-> ParseMentionsFromBody(text),
                         preempt |-> preempt, todo |-> resolved, live |-> {}, dead |-> {},
                         noticed |-> {}, interrupted |-> {}, sent |-> {}]
    /\ posts' = posts + 1 /\ UNCHANGED <<roster, up, msgs>>

\* is_alive of one recipient; the lead has no process to ask for.
ProbeRecipient ==
    /\ call.pc = "probe"
    /\ \E r \in call.todo :
         call' = [call EXCEPT !.todo = @ \ {r},
                              !.live = IF r = Lead \/ r \in up THEN @ \cup {r} ELSE @,
                              !.dead = IF r = Lead \/ r \in up THEN @ ELSE @ \cup {r},
                              !.pc = IF call.todo = {r} THEN "notify" ELSE "probe"]
    /\ UNCHANGED <<roster, up, msgs, posts>>

\* The dead of whom the lead is told.
ToReport == call.dead

\* The [SYSTEM] notice in the dead worker's name; a failed one is only logged.
Notice ==
    /\ call.pc = "notify"
    /\ \E d \in ToReport \ call.noticed :
         /\ call' = [call EXCEPT !.noticed = @ \cup {d}]
         /\ msgs' = IF Accepts(d, "status", {}) THEN msgs \cup {Message(d, "status", {}, {})} ELSE msgs
    /\ UNCHANGED <<roster, up, posts>>

\* send_with_explicit_mentions: the live recipients and nothing of the body.
DispatchMentions == call.live

Dispatch ==
    /\ call.pc = "notify" /\ ToReport \ call.noticed = {}
    /\ LET kind == IF call.caller = Lead THEN "dispatch" ELSE "reply"
       IN  IF call.live # {} /\ Accepts(call.caller, kind, DispatchMentions)
           THEN LET message == Message(call.caller, kind, DispatchMentions, call.asked)
                IN  /\ msgs' = msgs \cup {message}
                    /\ call' = [call EXCEPT !.pc = IF call.preempt THEN "preempt" ELSE "done", !.sent = message]
           ELSE call' = NoCall /\ UNCHANGED msgs
    /\ UNCHANGED <<roster, up, posts>>

\* interrupt_turn, best effort, of every live recipient but the lead.
Preempt ==
    /\ call.pc = "preempt"
    /\ call' = [call EXCEPT !.pc = "done", !.interrupted = (call.live \ {Lead}) \cap up]
    /\ UNCHANGED <<roster, up, msgs, posts>>

\* The answer is returned; the next call may come.
Answered ==
    /\ call.pc = "done" /\ call' = NoCall
    /\ UNCHANGED <<roster, up, msgs, posts>>

-----------------------------------------------------------------------------
(* The other senders, and what happens meanwhile                           *)

\* An agent loop's terminal notice: its error text is parsed for mentions.
LoopNotice(w) ==
    /\ posts < MaxPosts
    /\ \E text \in Texts :
         /\ Accepts(w, "status", ParseMentionsFromBody(text))
         /\ msgs' = msgs \cup {Message(w, "status", ParseMentionsFromBody(text), ParseMentionsFromBody(text))}
    /\ posts' = posts + 1 /\ UNCHANGED <<roster, up, call>>

\* ensure_web_user_member comes first: the user joins at its first post.
WebUserJoins ==
    /\ roster[User] # "active"
    /\ roster' = [roster EXCEPT ![User] = "active"]
    /\ UNCHANGED <<up, call, msgs, posts>>

PostMainRoomMessage ==
    /\ posts < MaxPosts /\ roster[User] = "active"
    /\ \E text \in Texts :
         /\ Accepts(User, "discussion", ParseMentionsFromBody(text))
         /\ msgs' = msgs \cup {Message(User, "discussion", ParseMentionsFromBody(text), ParseMentionsFromBody(text))}
    /\ posts' = posts + 1 /\ UNCHANGED <<roster, up, call>>

WorkerDies(w) == w \in up /\ up' = up \ {w} /\ UNCHANGED <<roster, call, msgs, posts>>

\* The lead watchdog deletes the team member by member, also during a call.
MarkRemoved(w) ==
    /\ roster[w] = "active"
    /\ roster' = [roster EXCEPT ![w] = "removed"] /\ up' = up \ {w}
    /\ UNCHANGED <<call, msgs, posts>>

\* worker_add is a tool call.
Revive(w) ==
    /\ call.pc = "none" /\ w \notin up
    /\ roster' = [roster EXCEPT ![w] = "active"] /\ up' = up \cup {w}
    /\ UNCHANGED <<call, msgs, posts>>

RoutingNext ==
    \/ SendMessage \/ ProbeRecipient \/ Notice \/ Dispatch \/ Preempt \/ Answered
    \/ WebUserJoins \/ PostMainRoomMessage
    \/ \E w \in Workers : LoopNotice(w) \/ WorkerDies(w) \/ MarkRemoved(w) \/ Revive(w)

RoutingSpec == RoutingInit /\ [][RoutingNext]_routingVars

-----------------------------------------------------------------------------

RoutingTypeOK ==
    /\ roster \in [Names -> {"absent", "active", "removed"}]
    /\ up \subseteq Workers /\ posts \in 0..MaxPosts
    /\ \A m \in msgs : m.sender \in Names /\ m.to \subseteq Names /\ m.dropped \subseteq Handles \cup Names

\* Of every handle a caller of send_message has named, the answer tells what
\* became of it: a recipient of the message, dropped because the member left
\* meanwhile, or dead, and then the lead has a notice unless the member left.
EveryHandleAccounted ==
    call.pc = "done" =>
        \A h \in call.asked :
            LET n == LowerCase(h)
            IN  \/ n = call.caller
                \/ n \in call.sent.to \/ n \in call.sent.dropped
                \/ /\ n \in call.dead
                   /\ roster[n] = "active" => \E m \in msgs : m.sender = n /\ m.kind = "status" /\ Lead \in m.to

\* A message of the tool reaches only whom its caller named in the mentions or
\* at the head of the text, and the lead: a handle in the prose routes nothing.
ProseRoutesNothing ==
    \A m \in msgs : m.kind \in {"dispatch", "reply"} =>
        m.to \subseteq {LowerCase(h) : h \in m.asked} \cup Observers(m.sender)

\* Nobody is sent a message of its own, whichever way it was routed, so no
\* worker is woken by what it said itself and the lead not by its dispatches.
NoMailToSelf == \A m \in msgs : m.sender \notin m.to

\* Of every handle a caller of send_message has named the answer tells what
\* became of it, also when members leave or die during the call; nobody else but
\* the lead is reached, and nobody by a message of its own.
MessagesGoWhereNamed ==
    RoutingTypeOK /\ EveryHandleAccounted /\ ProseRoutesNothing /\ NoMailToSelf
=============================================================================
