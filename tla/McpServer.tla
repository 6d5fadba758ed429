------------------------------ MODULE McpServer ------------------------------
(***************************************************************************)
(* The service's MCP endpoint (src/src/team_mode/mcp/http_transport.rs,    *)
(* runtime.rs, resources.rs) and its clients, relays and workers' CLIs.    *)
(* One runtime, behind a mutex, serves every client: the handshake flag    *)
(* and the subscriptions are shared, a panicking tool poisons the mutex,   *)
(* and a restarted service starts without a handshake.  A client names its *)
(* project in a header: a worker's is percent-encoded, a relay's is not.   *)
(***************************************************************************)
EXTENDS Naturals, Sequences, FiniteSets

CONSTANTS Clients,      \* MCP clients
          Raw,          \* those that send their path as it is (relays)
          Paths,        \* project roots, as sequences of bytes
          MaxRequests,  \* bound on payloads
          MaxRestarts   \* bound on ends of the service

NoClient == "none"

ASSUME McpConstants ==
    /\ NoClient \notin Clients
    /\ \A path \in Paths : path \in Seq(0..255)

Methods == {"initialized", "ping", "call", "subscribe", "unsubscribe", "malformed"}

VARIABLES serving,      \* the service runs
          handshaken,   \* TeamModeMcpRuntime.initialized
          subscribed,   \* a resource is subscribed to
          poisoned,     \* the runtime's mutex is poisoned
          lock,         \* who holds it
          conn,         \* [state, root, todo, sent, answers, ran] of every client
          ranFor,       \* ghost: <<client, project>> of the calls run
          locked,       \* ghost: clients told that the server is not initialized
          requests, restarts

mcpVars == <<serving, handshaken, subscribed, poisoned, lock, conn, ranFor, locked, requests, restarts>>

-----------------------------------------------------------------------------
(* The header's path                                                       *)

Unreserved == (48..57) \cup (65..90) \cup (97..122) \cup {45, 46, 95, 126}
HexDigit(d) == IF d < 10 THEN 48 + d ELSE 55 + d
IsHex(b) == b \in (48..57) \cup (65..70) \cup (97..102)
HexValue(b) == IF b <= 57 THEN b - 48 ELSE IF b <= 70 THEN b - 55 ELSE b - 87

\* percent_encode_path, in the MCP configuration a worker is given.
PercentEncode(path) ==
    LET f[i \in 0..Len(path)] ==
          IF i = 0 THEN <<>>
          ELSE f[i - 1] \o (IF path[i] \in Unreserved THEN <<path[i]>>
                            ELSE <<37, HexDigit(path[i] \div 16), HexDigit(path[i] % 16)>>)
    IN  f[Len(path)]

\* Mutant: an escape that ends the text is left alone.
EscapeFitsBefore(i, n) == i + 2 < n

\* i + 2 is an index: two bytes follow byte i of n.
EscapeFits(i, n) == i + 2 <= n

\* percent_decode_lossy
PercentDecode(text) ==
    LET n == Len(text)
        f[i \in 1..(n + 1)] ==
          IF i > n THEN <<>>
          ELSE IF text[i] = 37 /\ EscapeFits(i, n) /\ IsHex(text[i + 1]) /\ IsHex(text[i + 2])
               THEN <<16 * HexValue(text[i + 1]) + HexValue(text[i + 2])>> \o f[i + 3]
               ELSE <<text[i]>> \o f[i + 1]
    IN  f[1]

Header(c) == IF c \in Raw THEN conn[c].root ELSE PercentEncode(conn[c].root)

-----------------------------------------------------------------------------

Connection(root) == [state |-> "new", root |-> root, todo |-> <<>>, sent |-> <<>>, answers |-> <<>>, ran |-> 0]

\* A relay ends with the first request that fails.
Ended(connection) == [Connection(connection.root) EXCEPT !.state = "gone"]

McpInit ==
    /\ serving = TRUE /\ handshaken = FALSE /\ subscribed = FALSE /\ poisoned = FALSE /\ lock = NoClient
    /\ conn \in {[c \in Clients |-> Connection(r[c])] : r \in [Clients -> Paths]}
    /\ ranFor = {} /\ locked = {} /\ requests = 0 /\ restarts = 0

\* One message, or a batch; the handshake comes first.
Payloads(c) ==
    IF conn[c].state = "new" THEN {<<"initialize">>}
    ELSE {<<m>> : m \in Methods} \cup {<<m, n>> : m \in Methods, n \in {"ping", "call", "malformed"}}

\* forward_json_rpc_message: without a service the relay ends.
Post(c) ==
    /\ conn[c].state \in {"new", "open"} /\ conn[c].sent = <<>> /\ requests < MaxRequests
    /\ requests' = requests + 1
    /\ \E p \in Payloads(c) :
         conn' = [conn EXCEPT ![c] = IF serving THEN [@ EXCEPT !.sent = p, !.todo = p, !.answers = <<>>, !.ran = 0]
                                           ELSE Ended(@)]
    /\ UNCHANGED <<serving, handshaken, subscribed, poisoned, lock, ranFor, locked, restarts>>

\* post_mcp: the blocking task takes the mutex, or answers 500 and the relay ends.
Lock(c) ==
    /\ conn[c].sent # <<>> /\ lock = NoClient
    /\ IF poisoned THEN conn' = [conn EXCEPT ![c] = Ended(@)] /\ UNCHANGED lock
                   ELSE lock' = c /\ UNCHANGED conn
    /\ UNCHANGED <<serving, handshaken, subscribed, poisoned, ranFor, locked, requests, restarts>>

\* The methods that need the handshake.
Gated(method) == method \notin {"initialize", "initialized"}

\* The rest of the batch; a tool's error is an answer like another.
RestOfBatch(todo, failed) == Tail(todo)

Answer(c, a, rest) == conn' = [conn EXCEPT ![c].answers = Append(@, a), ![c].todo = rest]

\* handle_one, handle_request: one message of the payload.
HandleOne ==
    /\ lock # NoClient /\ conn[lock].todo # <<>>
    /\ LET m == Head(conn[lock].todo)
           rest == Tail(conn[lock].todo)
       IN  \/ /\ m = "malformed"                             \* the batch and its answers are given serving
              /\ conn' = [conn EXCEPT ![lock].todo = <<>>, ![lock].answers = <<"parse error">>]
              /\ UNCHANGED <<handshaken, subscribed, poisoned, ranFor, locked, lock>>
           \/ /\ m # "malformed" /\ Gated(m) /\ ~handshaken
              /\ Answer(lock, "not initialized", rest) /\ locked' = locked \cup {lock}
              /\ UNCHANGED <<handshaken, subscribed, poisoned, ranFor, lock>>
           \/ /\ m \in {"initialize", "initialized"} /\ handshaken' = TRUE
              /\ IF m = "initialize" THEN Answer(lock, "ok", rest) ELSE conn' = [conn EXCEPT ![lock].todo = rest]
              /\ UNCHANGED <<subscribed, poisoned, ranFor, locked, lock>>
           \/ /\ m \in {"ping", "subscribe", "unsubscribe"} /\ (Gated(m) => handshaken)
              /\ subscribed' = IF m = "ping" THEN subscribed ELSE m = "subscribe"
              /\ Answer(lock, "ok", rest)
              /\ UNCHANGED <<handshaken, poisoned, ranFor, locked, lock>>
           \/ /\ m = "call" /\ (Gated(m) => handshaken)
              /\ \E failed \in BOOLEAN :
                   conn' = [conn EXCEPT ![lock].answers = Append(@, "ok"), ![lock].ran = @ + 1,
                                        ![lock].todo = RestOfBatch(conn[lock].todo, failed)]
              /\ ranFor' = ranFor \cup {<<lock, PercentDecode(Header(lock))>>}
              /\ UNCHANGED <<handshaken, subscribed, poisoned, locked, lock>>
           \/ /\ m = "call" /\ handshaken                     \* the tool panics with the lock held
              /\ poisoned' = TRUE /\ lock' = NoClient
              /\ conn' = [conn EXCEPT ![lock] = Ended(@)]
              /\ UNCHANGED <<handshaken, subscribed, ranFor, locked>>
    /\ UNCHANGED <<serving, requests, restarts>>

\* The payload is done: 200 with the answers, or 202 without.
Reply ==
    /\ lock # NoClient /\ conn[lock].todo = <<>>
    /\ conn' = [conn EXCEPT ![lock] = [Connection(@.root) EXCEPT !.state = "open"]] /\ lock' = NoClient
    /\ UNCHANGED <<serving, handshaken, subscribed, poisoned, ranFor, locked, requests, restarts>>

\* The service ends with its runtime; requests in flight fail and their relays end.
ServiceEnds ==
    /\ serving /\ restarts < MaxRestarts
    /\ serving' = FALSE /\ handshaken' = FALSE /\ subscribed' = FALSE /\ poisoned' = FALSE /\ lock' = NoClient
    /\ conn' = [c \in Clients |-> IF conn[c].sent # <<>> THEN Ended(conn[c]) ELSE conn[c]]
    /\ restarts' = restarts + 1 /\ UNCHANGED <<ranFor, locked, requests>>

\* Another relay has started it: the port and the token are those of before.
ServiceStarts ==
    /\ ~serving /\ serving' = TRUE
    /\ UNCHANGED <<handshaken, subscribed, poisoned, lock, conn, ranFor, locked, requests, restarts>>

\* Claude Code starts a new relay.
Reconnect(c) ==
    /\ conn[c].state = "gone"
    /\ conn' = [conn EXCEPT ![c] = Connection(@.root)]
    /\ UNCHANGED <<serving, handshaken, subscribed, poisoned, lock, ranFor, locked, requests, restarts>>

McpNext ==
    \/ \E c \in Clients : Post(c) \/ Lock(c) \/ Reconnect(c)
    \/ HandleOne \/ Reply \/ ServiceEnds \/ ServiceStarts

McpSpec == McpInit /\ [][McpNext]_mcpVars

-----------------------------------------------------------------------------

McpTypeOK ==
    /\ lock \in Clients \cup {NoClient}
    /\ \A c \in Clients : conn[c].state \in {"new", "open", "gone"} /\ Len(conn[c].answers) <= Len(conn[c].sent)

Messages(c, set) == Cardinality({i \in DOMAIN conn[c].sent : conn[c].sent[i] \in set})

\* The reply to a payload without a malformed message holds one answer for
\* each of its requests, and each of its tool calls has run once, however the
\* payloads of several clients meet (handle_payload).
RepliesAreComplete ==
    lock # NoClient /\ conn[lock].todo = <<>> /\ Messages(lock, {"malformed"}) = 0 =>
        /\ Len(conn[lock].answers) = Len(conn[lock].sent) - Messages(lock, {"initialized"})
        /\ "not initialized" \in {conn[lock].answers[i] : i \in DOMAIN conn[lock].answers} \/
           conn[lock].ran = Messages(lock, {"call"})

\* Whatever bytes are in the path of its project, a worker's tool call acts on
\* that project and on no other client's (percent_encode_path,
\* percent_decode_lossy, inject_http_context).
CallsFindTheirProject == \A x \in ranFor : x[1] \notin Raw => x[2] = conn[x[1]].root

\* No tool runs and nothing is subscribed to in a service that has seen no
\* handshake, also after a restart (handle_request).
HandshakeComesFirst == (subscribed \/ \E c \in Clients : conn[c].ran > 0 /\ lock = c) => handshaken

\* The reply to a payload answers each of its requests and each of its tool calls
\* has run once, however payloads of several clients meet; a worker's call acts
\* on its own project whatever bytes are in the path, and none runs in a service
\* that has seen no handshake (handle_payload, percent_decode_lossy).
CallsAreServedOnce == McpTypeOK /\ RepliesAreComplete /\ CallsFindTheirProject /\ HandshakeComesFirst

\* What the relay's comment says: "the relay can recover from a service restart
\* by exiting cleanly when the service rejects a stale token", so that no client
\* is left with a service that refuses it as not initialized.
RestartsAreSurvived == locked = {}
=============================================================================
