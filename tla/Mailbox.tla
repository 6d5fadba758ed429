------------------------------- MODULE Mailbox -------------------------------
(***************************************************************************)
(* What a team's message store promises its callers: every message is      *)
(* posted once, collects read and ack receipts of its recipients, keeps    *)
(* them, and may be deleted for good; each operation takes effect at one   *)
(* instant.                                                                *)
(***************************************************************************)
CONSTANTS Ids,         \* message ids
          Recipients   \* id -> its effective_recipients

VARIABLE box           \* id -> its status and the receipts it has

NoReceipts(status) == [st |-> status, read |-> {}, acked |-> {}]

Init == box = [id \in Ids |-> NoReceipts("none")]

Post(id) ==
    /\ box[id].st = "none"
    /\ box' = [box EXCEPT ![id] = NoReceipts("live")]

(* A recipient reads a message, or acknowledges it, which also reads it.   *)
Receipt(id, actor, ack) ==
    /\ box[id].st = "live"
    /\ actor \in Recipients[id]
    /\ box' = [box EXCEPT ![id] =
                 [st    |-> "live",
                  read  |-> @.read \cup {actor},
                  acked |-> IF ack THEN @.acked \cup {actor} ELSE @.acked]]

Remove(id) ==
    /\ box[id].st # "none"
    /\ box' = [box EXCEPT ![id] = NoReceipts("deleted")]

Next ==
    \E id \in Ids :
        \/ Post(id)
        \/ \E actor \in Recipients[id], ack \in BOOLEAN :
             Receipt(id, actor, ack)
        \/ Remove(id)

Spec == Init /\ [][Next]_box
=============================================================================
