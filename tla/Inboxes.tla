------------------------------- MODULE Inboxes -------------------------------
(***************************************************************************)
(* The library's inbox files (src/src/messaging/mod.rs): one JSON array    *)
(* per agent, every operation under that agent's lock.  A message written  *)
(* by Claude Code itself has no id and is read with the empty one.  The    *)
(* consumer polls, handles what it gets and marks each message read.       *)
(***************************************************************************)
EXTENDS Naturals, Sequences

CONSTANTS Boxes,       \* agents with an inbox; all are members of the team
          MaxMessages  \* bound on the messages ever written

ASSUME InboxConstants == MaxMessages \in Nat

VARIABLES inbox,       \* agent -> sequence of messages
          broadcast,   \* recipients a broadcast has not reached yet
          batch,       \* agent -> messages its consumer still has to mark
          written,     \* how many messages were written
          handed,      \* ghost: message -> times a poll handed it over
          cleared,     \* ghost: messages a clear_inbox wiped
          bare         \* ghost: messages without an id

inboxVars == <<inbox, broadcast, batch, written, handed, cleared, bare>>

\* n tells messages apart; id is what the file holds.
InboxMessage(n, native) == [n |-> n, id |-> IF native THEN 0 ELSE n, read |-> FALSE]
Written == 1..written

InboxInit ==
    /\ inbox = [a \in Boxes |-> <<>>]
    /\ broadcast = {}
    /\ batch = [a \in Boxes |-> <<>>]
    /\ written = 0
    /\ handed = [n \in 1..MaxMessages |-> 0]
    /\ cleared = {} /\ bare = {}

Pushed(box, msg) == Append(box, msg)

SendMessage(a, native) ==
    /\ written < MaxMessages
    /\ written' = written + 1
    /\ inbox' = [inbox EXCEPT ![a] = Pushed(@, InboxMessage(written + 1, native))]
    /\ bare' = IF native THEN bare \cup {written + 1} ELSE bare
    /\ UNCHANGED <<broadcast, batch, handed, cleared>>

\* One message per member but the sender, one lock at a time.
Broadcast(from) ==
    /\ broadcast = {} /\ written < MaxMessages
    /\ broadcast' = Boxes \ {from}
    /\ UNCHANGED <<inbox, batch, written, handed, cleared, bare>>

BroadcastTo(a) ==
    /\ a \in broadcast
    /\ written < MaxMessages /\ written' = written + 1
    /\ inbox' = [inbox EXCEPT ![a] = Pushed(@, InboxMessage(written + 1, FALSE))]
    /\ broadcast' = broadcast \ {a}
    /\ UNCHANGED <<batch, handed, cleared, bare>>

\* The first error ends the loop: the rest of the members get nothing.
BroadcastFails ==
    /\ broadcast # {}
    /\ broadcast' = {}
    /\ UNCHANGED <<inbox, batch, written, handed, cleared, bare>>

Unread(box) ==
    LET unread[k \in 0..Len(box)] ==
          IF k = 0 THEN <<>> ELSE IF box[k].read THEN unread[k - 1] ELSE Append(unread[k - 1], box[k])
    IN  unread[Len(box)]

Poll(a) ==
    /\ batch[a] = <<>> /\ Unread(inbox[a]) # <<>>
    /\ batch' = [batch EXCEPT ![a] = Unread(inbox[a])]
    /\ handed' = [n \in 1..MaxMessages |->
                    IF handed[n] < 2 /\ \E k \in DOMAIN batch'[a] : batch'[a][k].n = n
                    THEN handed[n] + 1 ELSE handed[n]]
    /\ UNCHANGED <<inbox, broadcast, written, cleared, bare>>

\* Mutant: a copy of the message is marked.
MarkedCopy(box, id) == box

\* iter_mut().find: the first message with that id, read or not.
Marked(box, id) ==
    LET found == {k \in DOMAIN box : box[k].id = id}
    IN  IF found = {} THEN box ELSE [box EXCEPT ![CHOOSE k \in found : \A j \in found : k <= j].read = TRUE]

MarkRead(a) ==
    /\ batch[a] # <<>>
    /\ inbox' = [inbox EXCEPT ![a] = Marked(@, Head(batch[a]).id)]
    /\ batch' = [batch EXCEPT ![a] = Tail(@)]
    /\ UNCHANGED <<broadcast, written, handed, cleared, bare>>

\* A spawn empties the inbox of the agent's name (clear_inbox).
EmptyInbox(a) ==
    /\ inbox[a] # <<>>
    /\ cleared' = cleared \cup {inbox[a][k].n : k \in DOMAIN inbox[a]}
    /\ inbox' = [inbox EXCEPT ![a] = <<>>]
    /\ UNCHANGED <<broadcast, batch, written, handed, bare>>

InboxNext ==
    \/ \E a \in Boxes, native \in BOOLEAN : SendMessage(a, native)
    \/ \E a \in Boxes : Broadcast(a) \/ BroadcastTo(a) \/ Poll(a) \/ MarkRead(a) \/ EmptyInbox(a)
    \/ BroadcastFails

InboxSpec == InboxInit /\ [][InboxNext]_inboxVars

-----------------------------------------------------------------------------

InboxTypeOK ==
    /\ \A a \in Boxes : \A k \in DOMAIN inbox[a] : inbox[a][k].n \in Written
    /\ broadcast \subseteq Boxes
    /\ written \in 0..MaxMessages
    /\ cleared \subseteq Written

\* Concurrent senders lose nothing: every message written is in an inbox, in
\* the order written, until its inbox is cleared (send_message, mark_read).
NothingOverwritten ==
    /\ Written = cleared \cup UNION {{inbox[a][k].n : k \in DOMAIN inbox[a]} : a \in Boxes}
    /\ \A a \in Boxes : \A j, k \in DOMAIN inbox[a] : j < k => inbox[a][j].n < inbox[a][k].n

\* A consumer that marks what it got is handed no message twice, but for one
\* without an id that came after another such (poll_inbox, mark_read).
HandedOnce == \A n \in Written : handed[n] > 1 => n \in bare /\ \E k \in bare : k < n
=============================================================================
