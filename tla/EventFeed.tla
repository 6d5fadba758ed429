------------------------------ MODULE EventFeed ------------------------------
(***************************************************************************)
(* The web UI's event feed (src/src/team_mode_web/read_model/events.rs,    *)
(* sse.rs): events are derived on every poll from the transcript, the      *)
(* worker sidecar and the lead-pending file, after a cursor that holds one *)
(* position per source.  A message is stamped before it takes the          *)
(* transcript's lock, so messages may be appended out of order.            *)
(* A key <<at, id>> orders events of one source; <<0, 0>> is no position.  *)
(***************************************************************************)
EXTENDS Naturals, FiniteSets, Sequences

CONSTANTS FeedWorkers, \* numbers, in the order of the workers' names
          Limit,       \* events of one response (DEFAULT_EVENT_LIMIT)
          MaxMsgs,     \* bound on messages
          MaxNow,      \* bound on the clock
          MaxDrops     \* bound on lost connections

ASSUME FeedConstants ==
    /\ FeedWorkers \subseteq Nat /\ IsFiniteSet(FeedWorkers)
    /\ Limit \in Nat \ {0} /\ MaxMsgs \in Nat /\ MaxNow \in Nat \ {0}

VARIABLES now,         \* the clock stamps are taken from
          sending,     \* messages stamped and not yet appended
          transcript,  \* messages appended
          late,        \* ghost: messages appended after one with a larger key
          sidecar,     \* worker -> when its record was last written, 0 for none
          pendingFile, \* {} or the modification time of the lead-pending file
          wire,        \* events written to the stream and not read yet
          stream,      \* {} or the stream's cursor
          client,      \* {} or the cursor of the last event the client has
          got,         \* ghost: event -> how often the client received it
          base,        \* ghost: the cursor the client began with
          drops

feedVars == <<now, sending, transcript, late, sidecar, pendingFile, wire, stream, client, got, base, drops>>

None == <<0, 0>>
After(a, b) == a[1] > b[1] \/ (a[1] = b[1] /\ a[2] > b[2])
Latest(keys) == CHOOSE k \in keys \cup {None} : \A j \in keys : ~After(j, k)

MessageIds == 1..MaxMsgs
Stamped == sending \cup transcript
WorkerKeys == {<<sidecar[w], w>> : w \in {v \in FeedWorkers : sidecar[v] > 0}}

CurrentCursor == [messages |-> Latest(transcript), workers |-> Latest(WorkerKeys), pending |-> pendingFile]

\* An event: its source and its key.
PendingEvents(prev) ==
    {[source |-> "messages", key |-> k] : k \in {j \in transcript : After(j, prev.messages)}}
        \cup {[source |-> "workers", key |-> k] : k \in {j \in WorkerKeys : After(j, prev.workers)}}
        \cup {[source |-> "pending", key |-> <<at, 0>>] : at \in pendingFile \ prev.pending}

\* occurred_at, then the event's id, which names its source first.
Rank(event) == CASE event.source = "pending" -> 1 [] event.source = "messages" -> 2 [] OTHER -> 3
Earlier(a, b) ==
    \/ a.key[1] < b.key[1]
    \/ a.key[1] = b.key[1] /\ (Rank(a) < Rank(b) \/ (Rank(a) = Rank(b) /\ a.key[2] < b.key[2]))

\* The first Limit of a set of events, in their order.
Pages(events) ==
    LET n == IF Cardinality(events) < Limit THEN Cardinality(events) ELSE Limit
        first(page) == {page[i] : i \in 1..n}
    IN  {page \in [1..n -> events] :
            /\ \A i, j \in 1..n : i < j => Earlier(page[i], page[j])
            /\ \A i \in 1..n, e \in events \ first(page) : Earlier(page[i], e)}

\* merge_after, for the first k events of a page: each has moved the position of
\* its own source.
Position(page, k, source, key) ==
    LET those == {i \in 1..k : page[i].source = source}
    IN  IF those = {} THEN key ELSE page[CHOOSE i \in those : \A j \in those : j <= i].key
MergeAfter(prev, page, k) ==
    [messages |-> Position(page, k, "messages", prev.messages),
     workers |-> Position(page, k, "workers", prev.workers),
     pending |-> IF \E i \in 1..k : page[i].source = "pending"
                 THEN {Position(page, k, "pending", None)[1]} ELSE prev.pending]

\* read_events with a cursor: the events of the page, each with its cursor.
WithCursors(page, prev) ==
    [k \in DOMAIN page |-> [event |-> page[k], cursor |-> MergeAfter(prev, page, k)]]

\* Mutant: the next page begins where the files ended.
AlwaysCurrent(page, prev) == CurrentCursor

\* The cursor after a page: of its last event, or current when there was none.
NextCursor(page, prev) ==
    IF page = <<>> THEN CurrentCursor ELSE MergeAfter(prev, page, Len(page))

-----------------------------------------------------------------------------

FeedInit ==
    /\ now = 1 /\ sending = {} /\ transcript = {} /\ late = {}
    /\ sidecar = [w \in FeedWorkers |-> 0]
    /\ pendingFile = {} /\ wire = <<>> /\ stream = {} /\ client = {}
    /\ got = <<>> /\ base = CurrentCursor /\ drops = 0

clientVars == <<wire, stream, client, got, base, drops>>
fileVars == <<now, sending, transcript, late, sidecar, pendingFile>>

Tick == now < MaxNow /\ now' = now + 1 /\ UNCHANGED <<sending, transcript, late, sidecar, pendingFile, clientVars>>

\* Utc::now and a random id, before the transcript is locked.
Stamp(id) ==
    /\ id \notin {k[2] : k \in Stamped}
    /\ sending' = sending \cup {<<now, id>>}
    /\ UNCHANGED <<now, transcript, late, sidecar, pendingFile, clientVars>>

AppendMessage(k) ==
    /\ k \in sending
    /\ sending' = sending \ {k} /\ transcript' = transcript \cup {k}
    /\ late' = IF \E j \in transcript : After(j, k) THEN late \cup {k} ELSE late
    /\ UNCHANGED <<now, sidecar, pendingFile, clientVars>>

\* upsert_state stamps the record under the sidecar's lock; the clock has moved
\* on since the last one.
UpsertState(w) ==
    /\ \A v \in FeedWorkers : sidecar[v] < now
    /\ sidecar' = [sidecar EXCEPT ![w] = now]
    /\ UNCHANGED <<now, sending, transcript, late, pendingFile, clientVars>>

TouchPending ==
    /\ now \notin pendingFile
    /\ pendingFile' = {now}
    /\ UNCHANGED <<now, sending, transcript, late, sidecar, clientVars>>

\* The file is drained, and the clock moves on before it is made again.
DrainPending ==
    /\ pendingFile # {} /\ now < MaxNow
    /\ pendingFile' = {} /\ now' = now + 1
    /\ UNCHANGED <<sending, transcript, late, sidecar, clientVars>>

\* A first connection starts at the end; a reconnection where the client was.
Connect ==
    /\ stream = {}
    /\ stream' = IF client = {} THEN {CurrentCursor} ELSE client
    /\ client' = stream'
    /\ base' = IF client = {} THEN CurrentCursor ELSE base
    /\ UNCHANGED <<wire, got, drops, fileVars>>

\* One turn of stream_events: the cursor stays where it is on an empty page.
StreamPoll ==
    \E prev \in stream : \E page \in Pages(PendingEvents(prev)) :
        /\ page # <<>>
        /\ wire' = wire \o WithCursors(page, prev)
        /\ stream' = {NextCursor(page, prev)}
        /\ UNCHANGED <<client, got, base, drops, fileVars>>

\* How often each event was received; more than once is twice.
Counted(g, events) ==
    [x \in DOMAIN g \cup events |-> IF x \notin events THEN g[x] ELSE IF x \in DOMAIN g THEN 2 ELSE 1]

\* The client remembers the id of the last event, which is its cursor.
Receive ==
    /\ wire # <<>>
    /\ got' = Counted(got, {Head(wire).event})
    /\ client' = {Head(wire).cursor}
    /\ wire' = Tail(wire)
    /\ UNCHANGED <<stream, base, drops, fileVars>>

Drop ==
    /\ stream # {} /\ drops < MaxDrops
    /\ stream' = {} /\ wire' = <<>> /\ drops' = drops + 1
    /\ UNCHANGED <<client, got, base, fileVars>>

\* With no stream the client asks for a page (GET events).
PagePoll ==
    /\ stream = {}
    /\ \E prev \in client : \E page \in Pages(PendingEvents(prev)) :
        /\ got' = Counted(got, {page[k] : k \in DOMAIN page})
        /\ client' = {NextCursor(page, prev)}
    /\ UNCHANGED <<wire, stream, base, drops, fileVars>>

FeedNext ==
    \/ Tick \/ TouchPending \/ DrainPending
    \/ \E id \in MessageIds : Stamp(id)
    \/ \E k \in sending : AppendMessage(k)
    \/ \E w \in FeedWorkers : UpsertState(w)
    \/ Connect \/ StreamPoll \/ Receive \/ Drop \/ PagePoll

FeedSpec == FeedInit /\ [][FeedNext]_feedVars

-----------------------------------------------------------------------------

FeedTypeOK ==
    /\ now \in 1..MaxNow
    /\ sending \cap transcript = {} /\ late \subseteq transcript
    /\ Cardinality(stream) <= 1 /\ Cardinality(client) <= 1 /\ Cardinality(pendingFile) <= 1
    /\ stream = {} => wire = <<>>

\* What a client's cursor has passed it has received, over every loss of the
\* connection: no message is skipped but one appended after a later stamp, and
\* no worker's last change (read_events, stream_events).
FeedComplete ==
    \A cursor \in client :
        /\ \A k \in transcript \ late :
              After(k, base.messages) /\ ~After(k, cursor.messages)
                 => [source |-> "messages", key |-> k] \in DOMAIN got
        /\ \A k \in WorkerKeys :
              After(k, base.workers) /\ ~After(k, cursor.workers)
                 => [source |-> "workers", key |-> k] \in DOMAIN got

\* No event reaches a client twice, although a lost connection resends all
\* that came after the client's cursor (merge_after, Last-Event-ID).
FeedOnce == \A e \in DOMAIN got : got[e] = 1

\* What a client's cursor has passed it has received, over every loss of the
\* connection, but for a message appended after one stamped later; and nothing
\* reaches it twice, although a lost connection resends all that came after the
\* cursor (read_events, stream_events).
FeedIsExact == FeedTypeOK /\ FeedComplete /\ FeedOnce
=============================================================================
