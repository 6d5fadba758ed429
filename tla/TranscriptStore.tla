--------------------------- MODULE TranscriptStore ---------------------------
(***************************************************************************)
(* The message transcript of one team: MessageStore over messages.jsonl    *)
(* and the receipts InboxService writes through MessageStore::update.  A   *)
(* message is a line, each receipt is a further line with the whole new    *)
(* version, a deletion is a tombstone line; a reader replays the file and  *)
(* the last line of an id wins.  Every operation runs under the team's     *)
(* transcript lock, from its snapshot to its append.                       *)
(***************************************************************************)
EXTENDS JsonLines

CONSTANTS Ids,         \* message ids, each given to one save (uuid v4)
          Actors,      \* members that may appear in effective_recipients
          Recipients,  \* id -> its effective_recipients
          Clients,     \* threads and processes that use the store
          None,        \* no lock holder, no entry to append
          TornMarks,   \* where an interrupted write may end (see JsonLines)
          MaxFaults,   \* bound on interrupted appends
          MaxLines     \* bound on the transcript's length

Entry == [id : Ids, live : BOOLEAN, read : SUBSET Actors,
          acked : SUBSET Actors]

ASSUME TranscriptConstants ==
    /\ Recipients \in [Ids -> SUBSET Actors]
    /\ None \notin Clients \cup Entry
    /\ Entry \cap Broken = {}
    /\ Malformed # Undecodable
    /\ TornMarks \subseteq Broken
    /\ MaxFaults \in Nat
    /\ MaxLines \in Nat

VARIABLES
    file,     \* messages.jsonl
    lock,     \* client that holds the transcript lock, or None
    pending,  \* the entry a client is about to append, or None
    written,  \* clients whose line is in the file, newline still missing
    used,     \* ids given to a save
    told,     \* history: what callers were told: id -> version or None
    faults,   \* interrupted appends so far
    joined    \* history: bytes were appended to an unterminated line

vars == <<file, lock, pending, written, used, told, faults, joined>>

(* Types, and the shape the lock gives the state: only its holder is in    *)
(* the middle of an operation.                                             *)
TypeOK ==
    /\ file \in JsonFile(Entry)
    /\ lock \in Clients \cup {None}
    /\ pending \in [Clients -> Entry \cup {None}]
    /\ written \subseteq Clients
    /\ used \subseteq Ids
    /\ told \in [Ids -> Entry \cup {None}]
    /\ faults \in 0..MaxFaults
    /\ joined \in BOOLEAN
    /\ \A c \in Clients : pending[c] # None => lock = c
    /\ \A c \in written : pending[c] # None

Init ==
    /\ file = EmptyFile
    /\ lock = None
    /\ pending = [c \in Clients |-> None]
    /\ written = {}
    /\ used = {}
    /\ told = [id \in Ids |-> None]
    /\ faults = 0
    /\ joined = FALSE

-----------------------------------------------------------------------------
(* snapshot_locked.                                                        *)

(* Mutant of Readable: no line may fail to parse.                          *)
EveryLineParses(f) ==
    \A i \in DOMAIN f.lines : f.lines[i] \notin Broken

(* The replay succeeds: the file is UTF-8 and only its last line may fail  *)
(* to parse.                                                               *)
Readable(f) ==
    \A i \in DOMAIN f.lines :
        /\ f.lines[i] # Undecodable
        /\ f.lines[i] = Malformed => i = Len(f.lines)

(* Lines that carry a version of id, the last of them, and its entry.      *)
LinesOf(f, id) ==
    {i \in DOMAIN f.lines : f.lines[i] \notin Broken /\ f.lines[i].id = id}

IsLast(i, S) == i \in S /\ \A j \in S : j <= i

HasEntry(f, id) == \E i \in LinesOf(f, id) : IsLast(i, LinesOf(f, id))

LastLine(f, id) == CHOOSE i \in LinesOf(f, id) : IsLast(i, LinesOf(f, id))

LatestEntry(f, id) == f.lines[LastLine(f, id)]

(* snapshot.active.contains_key(id)                                        *)
Active(f, id) == HasEntry(f, id) /\ LatestEntry(f, id).live

-----------------------------------------------------------------------------
(* Mutant of LockFree: the operation does not take the transcript lock.    *)
NoLockTaken == TRUE

LockFree == lock = None

(* A client takes the lock and knows the line it will append.              *)
Begin(c, entry) ==
    /\ pending[c] = None
    /\ LockFree
    /\ Len(file.lines) < MaxLines
    /\ lock' = c
    /\ pending' = [pending EXCEPT ![c] = entry]

(* MessageStore::save of a new message.                                    *)
Save(c, id) ==
    /\ id \notin used
    /\ Begin(c, [id |-> id, live |-> TRUE, read |-> {}, acked |-> {}])
    /\ used' = used \cup {id}
    /\ UNCHANGED <<file, written, told, faults, joined>>

(* Mutant of WithReceipt: an ack leaves read_by alone.                     *)
AckOnly(entry, actor, ack) ==
    [entry EXCEPT !.read  = IF ack THEN @ ELSE @ \cup {actor},
                  !.acked = IF ack THEN @ \cup {actor} ELSE @]

(* ensure_receipt on read_by and, for an ack, on acked_by.                 *)
WithReceipt(entry, actor, ack) ==
    [entry EXCEPT !.read  = @ \cup {actor},
                  !.acked = IF ack THEN @ \cup {actor} ELSE @]

(* apply_receipt through MessageStore::update.  It fails on an unreadable  *)
(* transcript, on a message that is not active and for an actor that is no *)
(* recipient, and appends nothing when the receipt is already there.       *)
Receipt(c, id, actor, ack) ==
    /\ Readable(file)
    /\ Active(file, id)
    /\ actor \in Recipients[id]
    /\ WithReceipt(LatestEntry(file, id), actor, ack) # LatestEntry(file, id)
    /\ Begin(c, WithReceipt(LatestEntry(file, id), actor, ack))
    /\ UNCHANGED <<file, written, used, told, faults, joined>>

(* MessageStore::delete appends a tombstone without reading the file.      *)
Delete(c, id) ==
    /\ HasEntry(file, id)
    /\ Begin(c, [id |-> id, live |-> FALSE, read |-> {}, acked |-> {}])
    /\ UNCHANGED <<file, written, used, told, faults, joined>>

(* append_entry, first write: the line's bytes.                            *)
AppendLine(c) ==
    /\ pending[c] # None
    /\ c \notin written
    /\ file' = WriteLine(file, pending[c])
    /\ joined' = (joined \/ ~file.eol)
    /\ written' = written \cup {c}
    /\ UNCHANGED <<lock, pending, used, told, faults>>

(* append_entry, second write: the newline; the lock is released and the   *)
(* caller gets Ok.                                                         *)
Finish(c) ==
    /\ c \in written
    /\ file' = WriteNewline(file)
    /\ lock' = None
    /\ told' = [told EXCEPT ![pending[c].id] = pending[c]]
    /\ pending' = [pending EXCEPT ![c] = None]
    /\ written' = written \ {c}
    /\ UNCHANGED <<used, faults, joined>>

(* The process stops, or a write fails, between Begin and Finish: the file *)
(* keeps what reached it and the lock is released.                         *)
Interrupt(c) ==
    /\ faults < MaxFaults
    /\ faults' = faults + 1
    /\ pending[c] # None
    /\ \/ UNCHANGED <<file, joined>>
       \/ /\ c \notin written
          /\ \E mark \in TornMarks : file' = WriteTorn(file, mark)
          /\ joined' = (joined \/ ~file.eol)
    /\ lock' = None
    /\ pending' = [pending EXCEPT ![c] = None]
    /\ written' = written \ {c}
    /\ UNCHANGED <<used, told>>

Next ==
    \E c \in Clients :
        \/ \E id \in Ids : Save(c, id) \/ Delete(c, id)
        \/ \E id \in Ids, actor \in Actors, ack \in BOOLEAN :
             Receipt(c, id, actor, ack)
        \/ AppendLine(c)
        \/ Finish(c)
        \/ Interrupt(c)

Spec == Init /\ [][Next]_vars

-----------------------------------------------------------------------------
(* The inductive invariant behind the store's properties.                  *)

(* A line without a newline is a line.                                     *)
TailShape == ~file.eol => Len(file.lines) > 0

(* Only an unterminated last line fails to parse.                          *)
BrokenOnlyAtTail ==
    \A i \in DOMAIN file.lines :
        file.lines[i] \in Broken => i = Len(file.lines) /\ ~file.eol

(* An id nobody has saved is nowhere.                                      *)
FreshIds ==
    \A id \in Ids \ used :
        /\ LinesOf(file, id) = {}
        /\ told[id] = None
        /\ \A c \in Clients : pending[c] # None => pending[c].id # id

(* The entry about to be appended still fits the file: nothing was         *)
(* appended since its snapshot.                                            *)
Fits(e) ==
    \/ /\ LinesOf(file, e.id) = {}
       /\ told[e.id] = None
       /\ e = [id |-> e.id, live |-> TRUE, read |-> {}, acked |-> {}]
    \/ /\ HasEntry(file, e.id)
       /\ ~e.live
    \/ /\ Active(file, e.id)
       /\ \E actor \in Recipients[e.id], ack \in BOOLEAN :
            e = WithReceipt(LatestEntry(file, e.id), actor, ack)

PendingFits ==
    \A c \in Clients : pending[c] # None /\ c \notin written => Fits(pending[c])

(* The line a client has written is the file's last and the latest of its  *)
(* id.                                                                     *)
WrittenShows ==
    \A c \in written :
        /\ file.lines[Len(file.lines)] = pending[c]
        /\ HasEntry(file, pending[c].id)
        /\ LatestEntry(file, pending[c].id) = pending[c]

(* What a caller was told still shows: a saved message with the receipts   *)
(* it has, or a deletion.                                                  *)
Shows(id) ==
    /\ HasEntry(file, id)
    /\ \/ ~LatestEntry(file, id).live
       \/ /\ told[id].live
          /\ told[id].read \subseteq LatestEntry(file, id).read
          /\ told[id].acked \subseteq LatestEntry(file, id).acked

AllToldShows == \A id \in Ids : told[id] # None => Shows(id)

Good ==
    /\ BrokenOnlyAtTail
    /\ FreshIds
    /\ PendingFits
    /\ WrittenShows
    /\ AllToldShows

IInv == TypeOK /\ TailShape /\ (~joined => Good)

-----------------------------------------------------------------------------
(* Refinement: a reader's view of the file is a Mailbox.                   *)

BoxOf(f) ==
    [id \in Ids |->
       IF ~HasEntry(f, id) THEN [st |-> "none", read |-> {}, acked |-> {}]
       ELSE IF Active(f, id)
       THEN [st    |-> "live",
             read  |-> LatestEntry(f, id).read,
             acked |-> LatestEntry(f, id).acked]
       ELSE [st |-> "deleted", read |-> {}, acked |-> {}]]

box == BoxOf(file)

MB == INSTANCE Mailbox WITH box <- box

(* While no append is interrupted the transcript is a mailbox: each        *)
(* operation shows at once, at the write of its line, receipts accumulate  *)
(* and a deleted message stays deleted.                                    *)
IsMailbox == MB!Spec

(* With interrupted appends every step still is a mailbox step or none, up *)
(* to the first append that lands on an unterminated line.                 *)
MailboxUntilJoined == [][joined' \/ MB!Next \/ UNCHANGED box]_vars

(* An interrupted append that is cut on a character boundary costs nothing *)
(* until bytes are joined to its line: the transcript can be read and      *)
(* everything callers were told is in it.                                  *)
TornTailTolerated ==
    ~joined /\ (\A i \in DOMAIN file.lines : file.lines[i] # Undecodable) =>
        Readable(file) /\ AllToldShows

(* A transcript that cannot be read is never readable again: no operation  *)
(* of the store repairs it, so every later read, ack and reply of the team *)
(* fails.                                                                  *)
UnreadableForGood == [][~Readable(file) => ~Readable(file')]_vars

(* What snapshot_locked's comment claims of a partial append, as callers   *)
(* see it: a message whose save returned Ok can be read.                   *)
SavedCanBeRead == Readable(file) /\ AllToldShows
=============================================================================
