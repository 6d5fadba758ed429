------------------------------ MODULE WebProofs ------------------------------
(***************************************************************************)
(* Proofs about what the web UI shows, for every value of the constants:   *)
(* any leads, workers, sessions and lines of a conversation; any workers   *)
(* and messages of the event feed and any limit of its pages; any log of a *)
(* conversation, with any tool ids and of any length, and any selections   *)
(* and late answers of the panel that shows it.                            *)
(***************************************************************************)
EXTENDS Conversations, EventFeed, ConversationPanel, FiniteSetTheorems, WellFoundedInduction, SequenceTheorems, TLAPS

-----------------------------------------------------------------------------
(* Conversations. The session of a member passes through its record, the   *)
(* map of the leads' sessions and the copies hooks hold of that map while  *)
(* others write it.                                                        *)

(* What may be known of a member's session: nothing, or one of its own.    *)
OwnIds(m) == [by : {m}, n : 1..MaxSessions] \cup {NoSession}
Maps == {f \in [Leads -> UNION {OwnIds(l) : l \in Leads}] : \A l \in Leads : f[l] \in OwnIds(l)}
MapFile == {Torn} \cup [whole : {TRUE}, map : Maps]
HookStates ==
  {HookIdle, [pc |-> "rename"]} \cup [pc : {"open"}, map : Maps] \cup [pc : {"write"}, map : Maps, node : Nat]
Confidences == {"none", "no_session_yet", "no_session_file", "session_id", "cwd_latest"}

MembersTyped ==
  /\ current \in [Members -> 1..MaxSessions]
  /\ recorded \in [TeamWorkers -> UNION {OwnIds(m) : m \in TeamWorkers}]
  /\ \A m \in TeamWorkers : recorded[m] \in OwnIds(m)

(* Whoever has the map of the leads' sessions in hand, whole or about to   *)
(* write it, each lead's entry is a session of that lead.                  *)
MapsTyped ==
  /\ nodes \in Seq(MapFile)
  /\ names \in [path : 0..Len(nodes), tmp : 0..Len(nodes)]
  /\ hook \in [Leads -> HookStates]
  /\ \A l \in Leads : hook[l].pc = "write" => hook[l].node \in 1..Len(nodes)

LinesTyped == lines \in Seq(LineKinds) /\ pane.confidence \in Confidences

(* What was shown is still there, in a line that is complete.              *)
ItemsStay ==
  \A x \in shown : \E k \in 1..Len(lines), b \in 1..2 : lines[k] # <<"torn">> /\ x = Item(k, b)

ConversationInv == MembersTyped /\ MapsTyped /\ LinesTyped /\ ItemsStay /\ OwnConversation

-----------------------------------------------------------------------------

LEMMA OwnSession ==
  ASSUME MembersTyped, NEW m \in Members
  PROVE  Session(m) \in OwnIds(m)
BY DEF MembersTyped, Session, OwnIds

LEMMA OwnIsBy ==
  ASSUME NEW m, NEW s \in OwnIds(m), s # NoSession
  PROVE  s.by = m
BY DEF OwnIds

LEMMA MapEntries ==
  ASSUME MapsTyped, NEW l \in Leads
  PROVE  Mapped(l) \in OwnIds(l)
<1>1. CASE names.path = NoFile
  BY <1>1 DEF Mapped, OwnIds
<1>2. CASE names.path # NoFile
  <2>1. nodes[names.path] \in MapFile
    BY <1>2 DEF MapsTyped, NoFile
  <2>2. CASE nodes[names.path] = Torn
    BY <2>2 DEF Mapped, OwnIds
  <2>3. CASE nodes[names.path] # Torn
    <3>1. nodes[names.path].map \in Maps
      BY <2>1, <2>3 DEF MapFile
    <3> QED
      BY <1>2, <2>3, <3>1 DEF Mapped, Maps
  <2> QED
    BY <2>2, <2>3
<1> QED
  BY <1>1, <1>2

LEMMA ConversationInvInit == ConversationInit => ConversationInv
<1> SUFFICES ASSUME ConversationInit PROVE ConversationInv
  OBVIOUS
<1>1. MembersTyped
  BY ConversationConstants DEF ConversationInit, MembersTyped, OwnIds, Members, TeamWorkers
<1>2. MapsTyped
  BY DEF ConversationInit, MapsTyped, NoFile, HookStates, HookIdle
<1>3. LinesTyped /\ ItemsStay /\ OwnConversation
  BY DEF ConversationInit, LinesTyped, Confidences, ItemsStay, OwnConversation
<1> QED
  BY <1>1, <1>2, <1>3 DEF ConversationInv

(* A hook's map: what it has read, with its own session put in.            *)
LEMMA MapsWith ==
  ASSUME MembersTyped, MapsTyped, NEW l \in Leads
  PROVE  [(IF names.path = NoFile \/ nodes[names.path] = Torn
           THEN [p \in Leads |-> NoSession] ELSE nodes[names.path].map) EXCEPT ![l] = Session(l)] \in Maps
<1> DEFINE old == IF names.path = NoFile \/ nodes[names.path] = Torn
                  THEN [p \in Leads |-> NoSession] ELSE nodes[names.path].map
<1>1. old \in Maps
  <2>1. [p \in Leads |-> NoSession] \in Maps
    BY DEF Maps, OwnIds
  <2>2. ASSUME names.path # NoFile, nodes[names.path] # Torn PROVE nodes[names.path].map \in Maps
    <3>1. nodes[names.path] \in MapFile
      BY <2>2 DEF MapsTyped, NoFile
    <3> QED
      BY <2>2, <3>1 DEF MapFile
  <2> QED
    BY <2>1, <2>2
<1>2. Session(l) \in OwnIds(l)
  BY OwnSession DEF Members
<1> HIDE DEF old
<1>3. [old EXCEPT ![l] = Session(l)] \in Maps
  BY <1>1, <1>2 DEF Maps
<1> QED
  BY <1>3 DEF old

LEMMA MapsStep ==
  ASSUME ConversationInv, NEW l \in Leads, HookRead(l) \/ HookOpen(l) \/ HookWrite(l) \/ HookRename(l)
  PROVE  MapsTyped'
<1> USE DEF ConversationInv
<1>0. nodes \in Seq(MapFile) /\ names \in [path : 0..Len(nodes), tmp : 0..Len(nodes)]
      /\ hook \in [Leads -> HookStates]
      /\ \A p \in Leads : hook[p].pc = "write" => hook[p].node \in 1..Len(nodes)
  BY DEF MapsTyped
<1>1. CASE HookRead(l)
  <2>1. PICK map \in Maps : hook' = [hook EXCEPT ![l] = [pc |-> "open", map |-> map]]
    BY <1>1, MapsWith DEF HookRead
  <2>2. [pc |-> "open", map |-> map] \in HookStates
    BY DEF HookStates
  <2>3. UNCHANGED <<nodes, names>>
    BY <1>1 DEF HookRead
  <2> QED
    BY <1>0, <2>1, <2>2, <2>3 DEF MapsTyped
<1>2. CASE HookOpen(l)
  <2>1. hook[l].pc = "open" /\ hook[l].map \in Maps
    BY <1>0, <1>2 DEF HookOpen, HookStates, HookIdle
  <2>2. Torn \in MapFile
    BY DEF MapFile
  <2>3. /\ nodes' \in Seq(MapFile) /\ Len(nodes') >= Len(nodes) /\ Len(nodes') \in Nat
        /\ names' \in [path : 0..Len(nodes'), tmp : 1..Len(nodes')]
    <3>1. CASE names.tmp = NoFile
      <4>1. nodes' = Append(nodes, Torn) /\ names' = [names EXCEPT !.tmp = Len(nodes) + 1]
        BY <1>2, <3>1 DEF HookOpen
      <4> QED
        BY <1>0, <2>2, <4>1
    <3>2. CASE names.tmp # NoFile
      <4>1. nodes' = [nodes EXCEPT ![names.tmp] = Torn] /\ UNCHANGED names
        BY <1>2, <3>2 DEF HookOpen
      <4>2. names.tmp \in 1..Len(nodes)
        BY <1>0, <3>2 DEF NoFile
      <4> QED
        BY <1>0, <2>2, <4>1, <4>2
    <3> QED
      BY <3>1, <3>2
  <2>4. hook' = [hook EXCEPT ![l] = [pc |-> "write", map |-> hook[l].map, node |-> names'.tmp]]
    BY <1>2 DEF HookOpen
  <2>5. names'.tmp \in 1..Len(nodes') /\ names'.tmp \in Nat
    BY <2>3
  <2>6. [pc |-> "write", map |-> hook[l].map, node |-> names'.tmp] \in HookStates
    BY <2>1, <2>5 DEF HookStates
  <2>7. hook' \in [Leads -> HookStates]
    BY <1>0, <2>4, <2>6
  <2>8. \A p \in Leads : hook'[p].pc = "write" => hook'[p].node \in 1..Len(nodes')
    BY <1>0, <2>3, <2>4, <2>5
  <2> QED
    BY <2>3, <2>7, <2>8 DEF MapsTyped
<1>3. CASE HookWrite(l)
  <2>1. hook[l].map \in Maps /\ hook[l].node \in 1..Len(nodes)
    BY <1>0, <1>3 DEF HookWrite, HookStates, HookIdle
  <2>2. [whole |-> TRUE, map |-> hook[l].map] \in MapFile
    BY <2>1 DEF MapFile
  <2>3. nodes' = [nodes EXCEPT ![hook[l].node] = [whole |-> TRUE, map |-> hook[l].map]]
        /\ UNCHANGED names /\ hook' = [hook EXCEPT ![l] = [pc |-> "rename"]]
    BY <1>3 DEF HookWrite
  <2>4. nodes' \in Seq(MapFile) /\ Len(nodes') = Len(nodes)
    BY <1>0, <2>1, <2>2, <2>3
  <2>5. [pc |-> "rename"] \in HookStates
    BY DEF HookStates
  <2> QED
    BY <1>0, <2>3, <2>4, <2>5 DEF MapsTyped
<1>4. CASE HookRename(l)
  <2>1. names' \in [path : 0..Len(nodes), tmp : 0..Len(nodes)]
    BY <1>0, <1>4 DEF HookRename, NoFile
  <2>2. HookIdle \in HookStates /\ HookIdle.pc = "idle"
    BY DEF HookStates, HookIdle
  <2>3. UNCHANGED nodes /\ hook' = [hook EXCEPT ![l] = HookIdle]
    BY <1>4 DEF HookRename
  <2> QED
    BY <1>0, <2>1, <2>2, <2>3 DEF MapsTyped
<1> QED
  BY <1>1, <1>2, <1>3, <1>4

(* A pane is read of a member: the session found is the one asked for,     *)
(* which is one of that member's, or a lead's guess, which says so.        *)
LEMMA PaneStep ==
  ASSUME ConversationInv, NEW m \in Members, ReadMemberConversation(m)
  PROVE  OwnConversation' /\ pane'.confidence \in Confidences
<1> USE DEF ConversationInv
<1> DEFINE s == IF m \in Codexes THEN SelectCodex(m, Scanned) ELSE SelectClaude(m)
<1>1. pane' = [of |-> m, confidence |-> Confidence(m, s), session |-> s]
  BY DEF ReadMemberConversation
<1>2. Confidence(m, s) \in Confidences
  BY DEF Confidence, Confidences
<1>3. ASSUME m \in TeamWorkers PROVE s \in OwnIds(m)
  <2>1. m \notin Leads /\ recorded[m] \in OwnIds(m) /\ NoSession \in OwnIds(m)
    BY <1>3, ConversationConstants DEF TeamWorkers, MembersTyped, OwnIds
  <2>2. SelectCodex(m, Scanned) \in OwnIds(m)
    BY <2>1 DEF SelectCodex
  <2>3. SelectClaude(m) \in OwnIds(m)
    BY <2>1 DEF SelectClaude, Fallback
  <2> QED
    BY <2>2, <2>3
<1>4. ASSUME m \in Leads, Confidence(m, s) = "session_id" PROVE s \in OwnIds(m)
  BY <1>4, MapEntries DEF Confidence
<1> HIDE DEF s
<1>5. s # NoSession /\ (m \in TeamWorkers \/ Confidence(m, s) = "session_id") => s.by = m
  BY <1>3, <1>4, OwnIsBy DEF Members
<1>6. pane'.of = m /\ pane'.session = s /\ pane'.confidence = Confidence(m, s)
  BY <1>1
<1> QED
  BY <1>2, <1>5, <1>6 DEF OwnConversation

LEMMA ItemsStep ==
  ASSUME ConversationInv, Reading
  PROVE  ItemsStay' /\ lines' \in Seq(LineKinds)
<1> USE DEF ConversationInv
<1>0. lines \in Seq(LineKinds) /\ Len(lines) \in Nat
  BY DEF LinesTyped
<1>1. ASSUME NEW line \in LineKinds, AppendLine(line) PROVE ItemsStay' /\ lines' \in Seq(LineKinds)
  <2>1. lines' = Append(lines, line) /\ UNCHANGED shown
    BY <1>1 DEF AppendLine
  <2>2. Len(lines') = Len(lines) + 1 /\ lines' \in Seq(LineKinds) /\ \A k \in 1..Len(lines) : lines'[k] = lines[k]
    BY <1>0, <2>1
  <2>3. ASSUME NEW x \in shown
        PROVE  \E k \in 1..Len(lines'), b \in 1..2 : lines'[k] # <<"torn">> /\ x = Item(k, b)'
    <3>1. PICK k \in 1..Len(lines), b \in 1..2 : lines[k] # <<"torn">> /\ x = Item(k, b)
      BY DEF ItemsStay
    <3>2. k \in 1..Len(lines') /\ lines'[k] = lines[k]
      BY <1>0, <2>2
    <3> QED
      BY <3>1, <3>2 DEF Item
  <2> QED
    BY <2>1, <2>2, <2>3 DEF ItemsStay
<1>2. ASSUME NEW line \in LineKinds, FinishLine(line) PROVE ItemsStay' /\ lines' \in Seq(LineKinds)
  <2>1. /\ lines # <<>> /\ Last(lines) = <<"torn">> /\ UNCHANGED shown
        /\ lines' = [lines EXCEPT ![Len(lines)] = line]
    BY <1>2 DEF FinishLine
  <2>2. lines[Len(lines)] = <<"torn">> /\ Len(lines) \in 1..Len(lines)
    BY <1>0, <2>1 DEF Last
  <2>3. Len(lines') = Len(lines) /\ lines' \in Seq(LineKinds)
        /\ \A k \in 1..Len(lines) : lines[k] # <<"torn">> => lines'[k] = lines[k]
    BY <1>0, <2>1, <2>2
  <2>4. ASSUME NEW x \in shown
        PROVE  \E k \in 1..Len(lines'), b \in 1..2 : lines'[k] # <<"torn">> /\ x = Item(k, b)'
    <3>1. PICK k \in 1..Len(lines), b \in 1..2 : lines[k] # <<"torn">> /\ x = Item(k, b)
      BY DEF ItemsStay
    <3>2. k \in 1..Len(lines') /\ lines'[k] = lines[k]
      BY <2>3, <3>1
    <3> QED
      BY <3>1, <3>2 DEF Item
  <2> QED
    BY <2>1, <2>3, <2>4 DEF ItemsStay
<1>3. CASE ReadItems
  <2>1. UNCHANGED lines /\ shown' = shown \cup ParseConversation
    BY <1>3 DEF ReadItems
  <2>2. ASSUME NEW x \in Blocks PROVE x[1] \in 1..Len(lines) /\ x[2] \in 1..2 /\ lines[x[1]] # <<"torn">>
    BY <1>0 DEF Blocks, Visible
  <2>3. \A x \in ParseConversation : \E y \in Blocks : x = Item(y[1], y[2])
    BY DEF ParseConversation
  <2>4. \A x \in shown' : \E k \in 1..Len(lines), b \in 1..2 : lines[k] # <<"torn">> /\ x = Item(k, b)
    BY <2>1, <2>2, <2>3 DEF ItemsStay
  <2> QED
    BY <1>0, <2>1, <2>4 DEF ItemsStay, Item
<1> QED
  BY <1>1, <1>2, <1>3 DEF Reading

LEMMA ConversationInvStep == ConversationInv /\ [ConversationNext]_conversationVars => ConversationInv'
<1> SUFFICES ASSUME ConversationInv, [ConversationNext]_conversationVars PROVE ConversationInv'
  OBVIOUS
<1> USE DEF ConversationInv
<1>1. ASSUME NEW m \in Members, Write(m) \/ NewSession(m) \/ (m \in TeamWorkers /\ Backfill(m)) PROVE ConversationInv'
  <2>1. UNCHANGED <<nodes, names, hook, pane, lines, shown>>
    BY <1>1 DEF Write, NewSession, Backfill, sessionsOnly
  <2>2. MembersTyped'
    <3>1. CASE Write(m)
      BY <3>1 DEF Write, MembersTyped
    <3>2. CASE NewSession(m)
      <4>1. current[m] + 1 \in 1..MaxSessions
        BY <3>2, ConversationConstants DEF NewSession, MembersTyped
      <4> QED
        BY <3>2, <4>1 DEF NewSession, MembersTyped
    <3>3. CASE m \in TeamWorkers /\ Backfill(m)
      <4>1. Session(m) \in OwnIds(m)
        BY OwnSession
      <4> QED
        BY <3>3, <4>1 DEF Backfill, MembersTyped
    <3> QED
      BY <1>1, <3>1, <3>2, <3>3
  <2> QED
    BY <2>1, <2>2 DEF MapsTyped, LinesTyped, ItemsStay, Item, OwnConversation
<1>2. ASSUME NEW l \in Leads, HookRead(l) \/ HookOpen(l) \/ HookWrite(l) \/ HookRename(l) PROVE ConversationInv'
  <2>1. UNCHANGED <<current, recorded, pane, lines, shown>>
    BY <1>2 DEF HookRead, HookOpen, HookWrite, HookRename
  <2> QED
    BY <1>2, <2>1, MapsStep DEF MembersTyped, LinesTyped, ItemsStay, Item, OwnConversation
<1>3. ASSUME NEW m \in Members, ReadMemberConversation(m) PROVE ConversationInv'
  <2>1. UNCHANGED <<current, recorded, nodes, names, hook, lines, shown>>
    BY <1>3 DEF ReadMemberConversation
  <2> QED
    BY <1>3, <2>1, PaneStep DEF MembersTyped, MapsTyped, LinesTyped, ItemsStay, Item
<1>4. CASE ScanExpires
  BY <1>4 DEF ScanExpires, sessionsOnly, MembersTyped, MapsTyped, LinesTyped, ItemsStay, Item, OwnConversation
<1>5. CASE Reading
  <2>1. UNCHANGED <<current, recorded, nodes, names, hook, pane>>
    BY <1>5 DEF Reading, AppendLine, FinishLine, ReadItems
  <2> QED
    BY <1>5, <2>1, ItemsStep DEF MembersTyped, MapsTyped, LinesTyped, OwnConversation
<1>6. CASE UNCHANGED conversationVars
  BY <1>6 DEF conversationVars, MembersTyped, MapsTyped, LinesTyped, ItemsStay, Item, OwnConversation
<1>7. CASE Claude
  <2>1. Claudes \subseteq TeamWorkers /\ Leads \cup Claudes \subseteq Members /\ Owner \in Members
    BY ConversationConstants DEF Members, TeamWorkers
  <2> QED
    BY <1>1, <1>2, <1>3, <1>7, <2>1, Zenon DEF Claude
<1>8. CASE Codex
  <2>1. Codexes \subseteq TeamWorkers /\ Codexes \subseteq Members
    BY DEF Members, TeamWorkers
  <2> QED
    BY <1>1, <1>3, <1>4, <1>8, <2>1, Zenon DEF Codex
<1> QED
  BY <1>5, <1>6, <1>7, <1>8 DEF ConversationNext

(* For any leads, workers, sessions and lines, whichever hooks write the   *)
(* map of the leads' sessions at once: a pane that claims to know its      *)
(* member's session shows a session of that member, and no two items are   *)
(* shown under one id, a line read half-written included.                  *)
THEOREM PanesAreOfTheirMember == ConversationSpec => []PanesShowTheirMember
<1>1. ConversationInv => PanesShowTheirMember
  <2> SUFFICES ASSUME ConversationInv PROVE PanesShowTheirMember
    OBVIOUS
  <2>1. ConversationTypeOK
    BY DEF ConversationInv, MembersTyped, MapsTyped, LinesTyped, Confidences, ConversationTypeOK
  <2>2. IdsAreStable
    BY DEF ConversationInv, ItemsStay, IdsAreStable, Item, Index
  <2> QED
    BY <2>1, <2>2 DEF ConversationInv, PanesShowTheirMember
<1>2. ConversationInit => ConversationInv
  BY ConversationInvInit
<1>3. ConversationInv /\ [ConversationNext]_conversationVars => ConversationInv'
  BY ConversationInvStep
<1> QED
  BY <1>1, <1>2, <1>3, PTL DEF ConversationSpec

-----------------------------------------------------------------------------
(* EventFeed. A cursor is taken at one moment and used at another, when    *)
(* the files have grown and the stream is ahead of the client; the         *)
(* invariant says of every cursor, the client's, those on the wire and the *)
(* stream's, that it stands for exactly the events received before it.     *)

EventKeys == Nat \X Nat
FeedEvent == [source : {"messages", "workers", "pending"}, key : EventKeys]
Cursor == [messages : EventKeys, workers : EventKeys, pending : SUBSET Nat]

FilesTyped ==
  /\ now \in 1..MaxNow
  /\ sending \subseteq (1..now) \X MessageIds /\ transcript \subseteq (1..now) \X MessageIds
  /\ sending \cap transcript = {} /\ late \subseteq transcript
  /\ \A k \in sending, j \in Stamped : k[2] = j[2] => k = j
  /\ sidecar \in [FeedWorkers -> 0..now]
  /\ pendingFile \subseteq 0..now /\ \A a, b \in pendingFile : a = b

(* The client has had the event of whatever is not after its cursor.       *)
Passed(e, c) ==
  CASE e.source = "messages" -> ~After(e.key, c.messages)
    [] e.source = "workers" -> ~After(e.key, c.workers)
    [] OTHER -> e.key[1] \in pendingFile => e.key[1] \in c.pending

(* What of the pending file was seen is older than what may come.          *)
Seen(e) ==
  e.source = "pending" =>
    (\A at \in pendingFile : e.key[1] <= at) /\ (pendingFile = {} => e.key[1] < now)

(* A cursor stands where events G were received, or will be before it is:  *)
(* none of them comes again, and none before it is missing.                *)
Exact(c, G) ==
  /\ c \in Cursor /\ G \subseteq FeedEvent
  /\ c.messages = None \/ c.messages \in transcript
  /\ c.workers = None \/ (c.workers[2] \in FeedWorkers /\ c.workers[1] \in 1..sidecar[c.workers[2]])
  /\ \A e \in G : Passed(e, c) /\ Seen(e)
  /\ \A k \in transcript \ late :
        After(k, base.messages) /\ ~After(k, c.messages) => [source |-> "messages", key |-> k] \in G
  /\ \A k \in WorkerKeys :
        After(k, base.workers) /\ ~After(k, c.workers) => [source |-> "workers", key |-> k] \in G

Upto(w, k) == {w[j].event : j \in 1..k}

StreamTyped ==
  /\ wire \in Seq([event : FeedEvent, cursor : Cursor])
  /\ stream \subseteq Cursor /\ \A c, d \in stream : c = d
  /\ client \subseteq Cursor /\ \A c, d \in client : c = d
  /\ (stream = {} => wire = <<>>) /\ (client = {} => stream = {} /\ got = <<>>)
  /\ base \in Cursor

(* The client, then the events on the wire one after the other, then the   *)
(* stream.                                                                 *)
ChainIsExact ==
  /\ \A c \in client : Exact(c, DOMAIN got)
  /\ \A k \in 1..Len(wire) : Exact(wire[k].cursor, DOMAIN got \cup Upto(wire, k))
  /\ \A c \in stream : Exact(c, DOMAIN got \cup Upto(wire, Len(wire)))

NothingTwice ==
  /\ DOMAIN got \subseteq FeedEvent /\ \A e \in DOMAIN got : got[e] = 1
  /\ \A k \in 1..Len(wire) : wire[k].event \notin DOMAIN got
  /\ \A j, k \in 1..Len(wire) : j # k => wire[j].event # wire[k].event

FeedInv == FilesTyped /\ StreamTyped /\ ChainIsExact /\ NothingTwice

-----------------------------------------------------------------------------
(* The order of keys; greatest elements of finite sets.                    *)

LEMMA AfterOrders ==
  /\ \A a \in EventKeys : ~After(a, a)
  /\ \A a, b, c \in EventKeys : After(a, b) /\ After(b, c) => After(a, c)
  /\ \A a, b \in EventKeys : a # b => After(a, b) \/ After(b, a)
<1>1. ASSUME NEW a \in EventKeys, NEW b \in EventKeys, a[1] = b[1], a[2] = b[2] PROVE a = b
  BY <1>1 DEF EventKeys
<1>2. \A a \in EventKeys : a[1] \in Nat /\ a[2] \in Nat
  BY DEF EventKeys
<1> QED
  BY <1>1, <1>2 DEF After

LEMMA LeastSet ==
  ASSUME NEW S, IsFiniteSet(S), NEW T, T \subseteq SUBSET S, T # {}
  PROVE  \E A \in T : \A B \in T : B \subseteq A => B = A
<1>1. IsWellFoundedOn(StrictSubsetOrdering(S), FiniteSubsetsOf(S))
  BY FS_StrictSubsetOrderingWellFounded, Zenon
<1>2. FiniteSubsetsOf(S) = SUBSET S
  BY FS_FiniteSubsetsOfFinite, Zenon
<1>3. PICK x \in T : \A y \in T : ~ (<<y, x>> \in StrictSubsetOrdering(S))
  BY WFMin, <1>1, <1>2, Zenon
<1>4. \A y \in T : y \subseteq x => y = x
  BY <1>3, Zenon DEF StrictSubsetOrdering
<1> QED
  BY <1>3, <1>4

LEMMA LatestIs ==
  ASSUME NEW K \in SUBSET EventKeys, IsFiniteSet(K)
  PROVE  /\ Latest(K) \in K \cup {None}
         /\ \A j \in K : ~After(j, Latest(K))
<1> DEFINE Above(k) == {j \in K : After(j, k)}
<1>0. None \in EventKeys /\ \A j \in EventKeys : ~After(None, j)
  BY DEF None, EventKeys, After
<1>1. \E k \in K \cup {None} : \A j \in K : ~After(j, k)
  <2>1. CASE K = {}
    BY <2>1
  <2>2. CASE K # {}
    <3> DEFINE T == {Above(k) : k \in K}
    <3>1. T \subseteq SUBSET K /\ T # {}
      BY <2>2
    <3>2. PICK A \in T : \A B \in T : B \subseteq A => B = A
      <4> HIDE DEF T
      <4> QED
        BY <3>1, LeastSet
    <3>3. PICK k \in K : A = Above(k)
      BY <3>2
    <3>4. ASSUME NEW j \in K, After(j, k) PROVE FALSE
      <4>1. Above(j) \subseteq Above(k)
        BY <3>4, AfterOrders
      <4>2. Above(j) = Above(k)
        <5>1. Above(j) \in T
          OBVIOUS
        <5> HIDE DEF T, Above
        <5> QED
          BY <3>2, <3>3, <4>1, <5>1
      <4> QED
        BY <3>4, <4>2, AfterOrders
    <3> QED
      BY <3>4
  <2> QED
    BY <2>1, <2>2
<1> QED
  BY <1>1 DEF Latest

LEMMA SmallestOf ==
  ASSUME NEW S, S \subseteq Nat, S # {}
  PROVE  \E n \in S : \A m \in S : n <= m
<1>1. PICK x \in S : \A y \in S : ~ (<<y, x>> \in OpToRel(<, Nat))
  BY WFMin, NatLessThanWellFounded, Zenon
<1>2. \A y \in S : ~ (y < x)
  BY <1>1, Zenon DEF OpToRel
<1> QED
  BY <1>2

LEMMA GreatestIndex ==
  ASSUME NEW k \in Nat, NEW S \in SUBSET (1..k), S # {}
  PROVE  \E i \in S : \A j \in S : j <= i
<1> DEFINE T == {k - i : i \in S}
<1>1. T \subseteq Nat /\ T # {}
  <2>1. \A i \in S : k - i \in Nat
    OBVIOUS
  <2> QED
    BY <2>1, Zenon
<1>2. PICK x \in T : \A y \in T : x <= y
  <2> HIDE DEF T
  <2> QED
    BY <1>1, SmallestOf
<1>3. PICK i \in S : x = k - i
  BY <1>2
<1>4. \A j \in S : j <= i
  <2>1. \A j \in S : k - i <= k - j
    BY <1>2, <1>3
  <2> QED
    BY <2>1
<1> QED
  BY <1>4

(* The position of a source is its key in the last of its events.          *)
LEMMA PositionIs ==
  ASSUME NEW n \in Nat, NEW page \in [1..n -> FeedEvent], NEW k \in 0..n, NEW source, NEW key
  PROVE  \/ /\ \A i \in 1..k : page[i].source # source
            /\ Position(page, k, source, key) = key
         \/ \E l \in 1..k : /\ page[l].source = source
                            /\ Position(page, k, source, key) = page[l].key
                            /\ \A i \in 1..k : page[i].source = source => i <= l
<1> DEFINE those == {i \in 1..k : page[i].source = source}
<1>1. CASE those = {}
  BY <1>1 DEF Position
<1>2. CASE those # {}
  <2>1. \E i \in those : \A j \in those : j <= i
    <3>1. k \in Nat /\ those \in SUBSET (1..k)
      OBVIOUS
    <3> HIDE DEF those
    <3> QED
      BY <1>2, <3>1, GreatestIndex
  <2> DEFINE l == CHOOSE i \in those : \A j \in those : j <= i
  <2>2. l \in those /\ \A j \in those : j <= l
    BY <2>1
  <2>3. Position(page, k, source, key) = page[l].key
    BY <1>2 DEF Position
  <2> HIDE DEF l
  <2> QED
    BY <2>2, <2>3
<1> QED
  BY <1>1, <1>2

-----------------------------------------------------------------------------
(* Pages: the first events of a set, in their order.                       *)

IsPage(page, events) ==
  /\ page \in Seq(FeedEvent)
  /\ \A i \in 1..Len(page) : page[i] \in events
  /\ \A i, j \in 1..Len(page) : i < j => Earlier(page[i], page[j])
  /\ \A i \in 1..Len(page), e \in events : (\E j \in 1..Len(page) : page[j] = e) \/ Earlier(page[i], e)
  /\ page = <<>> => events = {}

LEMMA SameSource ==
  ASSUME NEW a \in FeedEvent, NEW b \in FeedEvent, a.source = b.source, Earlier(a, b)
  PROVE  After(b.key, a.key)
<1>1. a.key[1] \in Nat /\ a.key[2] \in Nat /\ b.key[1] \in Nat /\ b.key[2] \in Nat
  BY DEF FeedEvent, EventKeys
<1>2. Rank(a) = Rank(b) /\ Rank(a) \in Nat
  BY DEF Rank
<1> QED
  BY <1>1, <1>2 DEF Earlier, After

LEMMA PageIs ==
  ASSUME FeedConstants, NEW events \in SUBSET FeedEvent, IsFiniteSet(events), NEW page \in Pages(events)
  PROVE  IsPage(page, events)
<1> DEFINE n == IF Cardinality(events) < Limit THEN Cardinality(events) ELSE Limit
           first == {page[i] : i \in 1..n}
<1>1. Cardinality(events) \in Nat /\ Limit \in Nat \ {0} /\ n \in Nat
  BY FS_CardinalityType DEF FeedConstants
<1>2. /\ page \in [1..n -> events]
      /\ \A i, j \in 1..n : i < j => Earlier(page[i], page[j])
      /\ \A i \in 1..n, e \in events \ first : Earlier(page[i], e)
  BY DEF Pages
<1>3. page \in Seq(FeedEvent) /\ Len(page) = n
  BY <1>1, <1>2
<1>4. page = <<>> => events = {}
  <2>1. page = <<>> => n = 0
    BY <1>3
  <2>2. n = 0 => Cardinality(events) = 0
    BY <1>1
  <2>3. Cardinality(events) = 0 => events = {}
    BY FS_EmptySet, Zenon
  <2> QED
    BY <2>1, <2>2, <2>3
<1>5. \A i \in 1..n, e \in events : (\E j \in 1..n : page[j] = e) \/ Earlier(page[i], e)
  BY <1>2
<1> HIDE DEF n
<1> QED
  BY <1>2, <1>3, <1>4, <1>5 DEF IsPage

(* p is where k events of a page move the position key of a source: to an  *)
(* event of that source, past those k and no other.                        *)
MovesTo(events, page, k, source, key, p) ==
  /\ p \in EventKeys
  /\ p = key \/ \E e \in events : e.source = source /\ p = e.key
  /\ \A j \in EventKeys : ~After(j, key) => ~After(j, p)
  /\ \A i \in 1..k : page[i].source = source => ~After(page[i].key, p)
  /\ \A e \in events : e.source = source /\ ~After(e.key, p) => \E i \in 1..k : page[i] = e

LEMMA SourceFits ==
  ASSUME NEW events \in SUBSET FeedEvent, NEW page, IsPage(page, events),
         NEW k \in 1..Len(page), NEW source \in {"messages", "workers"}, NEW key \in EventKeys,
         \A e \in events : e.source = source => After(e.key, key)
  PROVE  MovesTo(events, page, k, source, key, Position(page, k, source, key))
<1> DEFINE p == Position(page, k, source, key)
<1> SUFFICES MovesTo(events, page, k, source, key, p)
  OBVIOUS
<1> HIDE DEF p
<1>0. /\ Len(page) \in Nat /\ k \in 0..Len(page) /\ page \in [1..Len(page) -> FeedEvent]
      /\ \A i \in 1..k : i \in 1..Len(page)
  BY DEF IsPage
<1>1. \A e \in FeedEvent : e.key \in EventKeys
  BY DEF FeedEvent
<1>2. CASE (\A i \in 1..k : page[i].source # source) /\ p = key
  BY <1>2 DEF MovesTo
<1>3. CASE \E l \in 1..k : page[l].source = source /\ p = page[l].key /\ \A i \in 1..k : page[i].source = source => i <= l
  <2>1. PICK l \in 1..k : page[l].source = source /\ p = page[l].key /\ \A i \in 1..k : page[i].source = source => i <= l
    BY <1>3
  <2>2. page[l] \in events /\ l \in 1..Len(page) /\ p \in EventKeys /\ After(p, key)
    BY <1>0, <1>1, <2>1 DEF IsPage
  <2>3. \A j \in EventKeys : ~After(j, key) => ~After(j, p)
    BY <2>2, AfterOrders
  <2>4. ASSUME NEW i \in 1..k, page[i].source = source PROVE ~After(page[i].key, p)
    <3>1. page[i] \in FeedEvent /\ page[l] \in FeedEvent /\ i <= l /\ i \in 1..Len(page)
      BY <1>0, <2>1, <2>2, <2>4
    <3>2. CASE i = l
      BY <2>1, <2>2, <3>2, AfterOrders
    <3>3. CASE i # l
      <4>1. Earlier(page[i], page[l])
        BY <3>1, <3>3, <2>2 DEF IsPage
      <4>2. After(p, page[i].key)
        BY <2>1, <2>4, <3>1, <4>1, SameSource
      <4> QED
        BY <1>1, <2>2, <3>1, <4>2, AfterOrders
    <3> QED
      BY <3>2, <3>3
  <2>5. ASSUME NEW e \in events, e.source = source, ~After(e.key, p) PROVE \E i \in 1..k : page[i] = e
    <3>1. ~Earlier(page[l], e)
      BY <2>1, <2>2, <2>5, SameSource
    <3>2. PICK j \in 1..Len(page) : page[j] = e
      BY <2>2, <3>1 DEF IsPage
    <3>3. j <= k
      BY <2>1, <2>2, <3>1, <3>2 DEF IsPage
    <3> QED
      BY <3>2, <3>3
  <2> QED
    BY <2>1, <2>2, <2>3, <2>4, <2>5 DEF MovesTo
<1>4. \/ (\A i \in 1..k : page[i].source # source) /\ p = key
      \/ \E l \in 1..k : page[l].source = source /\ p = page[l].key
                          /\ \A i \in 1..k : page[i].source = source => i <= l
  BY <1>0, PositionIs DEF p
<1> QED
  BY <1>2, <1>3, <1>4

-----------------------------------------------------------------------------
(* What may be read: finitely many events, and the cursor at their end.    *)

LEMMA SidecarIs ==
  ASSUME FeedConstants, FilesTyped
  PROVE  /\ now \in Nat /\ \A u \in FeedWorkers : sidecar[u] \in Nat /\ sidecar[u] <= now
         /\ \A j \in WorkerKeys : j[2] \in FeedWorkers /\ j[1] \in 1..sidecar[j[2]]
<1>1. now \in Nat
  BY DEF FeedConstants, FilesTyped
<1>2. \A u \in FeedWorkers : sidecar[u] \in 0..now
  BY DEF FilesTyped
<1> QED
  BY <1>1, <1>2 DEF WorkerKeys

LEMMA FilesAreFinite ==
  ASSUME FeedConstants, FilesTyped
  PROVE  /\ transcript \in SUBSET EventKeys /\ IsFiniteSet(transcript)
         /\ WorkerKeys \in SUBSET EventKeys /\ IsFiniteSet(WorkerKeys)
         /\ pendingFile \in SUBSET Nat /\ IsFiniteSet(pendingFile)
<1>1. now \in Nat /\ MaxMsgs \in Nat /\ MaxNow \in Nat /\ FeedWorkers \subseteq Nat
  BY DEF FeedConstants, FilesTyped
<1>2. IsFiniteSet(1..now) /\ IsFiniteSet(0..now) /\ IsFiniteSet(MessageIds)
  BY <1>1, FS_Interval DEF MessageIds
<1>3. transcript \in SUBSET EventKeys /\ IsFiniteSet(transcript)
  <2>1. IsFiniteSet((1..now) \X MessageIds)
    BY <1>2, FS_Product
  <2>2. transcript \subseteq (1..now) \X MessageIds
    BY DEF FilesTyped
  <2>3. IsFiniteSet(transcript)
    BY <2>1, <2>2, FS_Subset
  <2> QED
    BY <1>1, <2>2, <2>3 DEF EventKeys, MessageIds
<1>4. WorkerKeys \in SUBSET EventKeys /\ IsFiniteSet(WorkerKeys)
  <2>1. IsFiniteSet((0..now) \X FeedWorkers)
    BY <1>2, FS_Product DEF FeedConstants
  <2>2. WorkerKeys \subseteq (0..now) \X FeedWorkers
    BY DEF FilesTyped, WorkerKeys
  <2>3. IsFiniteSet(WorkerKeys)
    BY <2>1, <2>2, FS_Subset
  <2>4. (0..now) \X FeedWorkers \subseteq EventKeys
    <3>1. 0..now \subseteq Nat
      BY <1>1
    <3> QED
      BY <1>1, <3>1, Zenon DEF EventKeys
  <2> QED
    BY <2>2, <2>3, <2>4, Zenon
<1>5. pendingFile \in SUBSET Nat /\ IsFiniteSet(pendingFile)
  <2>1. pendingFile \subseteq 0..now
    BY DEF FilesTyped
  <2> QED
    <3>1. IsFiniteSet(pendingFile)
      BY <1>2, <2>1, FS_Subset
    <3> QED
      BY <1>1, <2>1, <3>1
<1> QED
  BY <1>3, <1>4, <1>5

LEMMA EventsOf ==
  ASSUME NEW S, IsFiniteSet(S), NEW source
  PROVE  IsFiniteSet({[source |-> source, key |-> k] : k \in S})
<1> DEFINE T == {[source |-> source, key |-> k] : k \in S}
           f == [k \in S |-> [source |-> source, key |-> k]]
<1>1. f \in [S -> T] /\ \A t \in T : \E k \in S : f[k] = t
  BY Zenon
<1>2. f \in Surjection(S, T)
  BY <1>1, Zenon DEF Surjection
<1> QED
  BY <1>2, FS_Surjection

LEMMA EventsAreFinite ==
  ASSUME FeedConstants, FilesTyped, NEW prev \in Cursor
  PROVE  PendingEvents(prev) \in SUBSET FeedEvent /\ IsFiniteSet(PendingEvents(prev))
<1> DEFINE M == {[source |-> "messages", key |-> k] : k \in {j \in transcript : After(j, prev.messages)}}
           W == {[source |-> "workers", key |-> k] : k \in {j \in WorkerKeys : After(j, prev.workers)}}
           P == {[source |-> "pending", key |-> <<at, 0>>] : at \in pendingFile \ prev.pending}
<1>1. PendingEvents(prev) = (M \cup W) \cup P
  BY Zenon DEF PendingEvents
<1>2. M \subseteq FeedEvent /\ W \subseteq FeedEvent /\ P \subseteq FeedEvent
  BY FilesAreFinite DEF FeedEvent, EventKeys
<1>3. IsFiniteSet(M)
  <2>1. IsFiniteSet({j \in transcript : After(j, prev.messages)})
    BY FilesAreFinite, FS_Subset
  <2> QED
    BY <2>1, EventsOf
<1>4. IsFiniteSet(W)
  <2>1. IsFiniteSet({j \in WorkerKeys : After(j, prev.workers)})
    BY FilesAreFinite, FS_Subset
  <2> QED
    BY <2>1, EventsOf
<1>5. IsFiniteSet(P)
  <2> DEFINE ends == {<<at, 0>> : at \in pendingFile \ prev.pending}
  <2>1. IsFiniteSet(pendingFile \X {0})
    BY FilesAreFinite, FS_Product, FS_Singleton
  <2>2. ends \subseteq pendingFile \X {0}
    OBVIOUS
  <2>3. IsFiniteSet(ends)
    BY <2>1, <2>2, FS_Subset
  <2>4. IsFiniteSet({[source |-> "pending", key |-> k] : k \in ends})
    <3> HIDE DEF ends
    <3> QED
      BY <2>3, EventsOf
  <2>5. P \subseteq {[source |-> "pending", key |-> k] : k \in ends}
    OBVIOUS
  <2> QED
    BY <2>4, <2>5, FS_Subset
<1> HIDE DEF M, W, P
<1>6. IsFiniteSet((M \cup W) \cup P)
  BY <1>3, <1>4, <1>5, FS_Union
<1> QED
  BY <1>1, <1>2, <1>6

LEMMA CurrentIs ==
  ASSUME FeedConstants, FilesTyped
  PROVE  /\ CurrentCursor \in Cursor
         /\ CurrentCursor.messages = None \/ CurrentCursor.messages \in transcript
         /\ CurrentCursor.workers = None \/ CurrentCursor.workers \in WorkerKeys
         /\ \A k \in transcript : ~After(k, CurrentCursor.messages)
         /\ \A k \in WorkerKeys : ~After(k, CurrentCursor.workers)
         /\ CurrentCursor.pending = pendingFile
<1>1. /\ CurrentCursor = [messages |-> Latest(transcript), workers |-> Latest(WorkerKeys), pending |-> pendingFile]
      /\ None \in EventKeys
  BY Zenon DEF CurrentCursor, None, EventKeys
<1>2. Latest(transcript) \in transcript \cup {None} /\ \A j \in transcript : ~After(j, Latest(transcript))
  BY FilesAreFinite, LatestIs
<1>3. Latest(WorkerKeys) \in WorkerKeys \cup {None} /\ \A j \in WorkerKeys : ~After(j, Latest(WorkerKeys))
  BY FilesAreFinite, LatestIs
<1>4. None \in EventKeys
  BY DEF None, EventKeys
<1> QED
  BY <1>1, <1>2, <1>3, <1>4, FilesAreFinite DEF Cursor

-----------------------------------------------------------------------------
(* A page moves a cursor to its events, and no further.                    *)

LEMMA NewToTheCursor ==
  ASSUME NEW prev, NEW G, Exact(prev, G), NEW e \in PendingEvents(prev)
  PROVE  e \notin G
<1>1. ~Passed(e, prev)
  BY DEF PendingEvents, Passed
<1> QED
  BY <1>1 DEF Exact

LEMMA PageFits ==
  ASSUME FeedConstants, FilesTyped, NEW prev, NEW G, Exact(prev, G),
         NEW page, IsPage(page, PendingEvents(prev)), NEW k \in 1..Len(page)
  PROVE  Exact(MergeAfter(prev, page, k), G \cup {page[i] : i \in 1..k})
<1> DEFINE events == PendingEvents(prev)
           c == MergeAfter(prev, page, k)
           m == Position(page, k, "messages", prev.messages)
           w == Position(page, k, "workers", prev.workers)
           q == IF \E i \in 1..k : page[i].source = "pending"
                THEN {Position(page, k, "pending", None)[1]} ELSE prev.pending
           H == G \cup {page[i] : i \in 1..k}
<1>0. prev \in Cursor /\ G \subseteq FeedEvent /\ events \in SUBSET FeedEvent
      /\ prev.messages \in EventKeys /\ prev.workers \in EventKeys /\ prev.pending \in SUBSET Nat
  <2>1. prev \in Cursor /\ G \subseteq FeedEvent
    BY DEF Exact
  <2> QED
    BY <2>1, EventsAreFinite DEF Cursor
<1>1. c.messages = m /\ c.workers = w /\ c.pending = q /\ c = [messages |-> m, workers |-> w, pending |-> q]
  BY DEF MergeAfter
<1>2. /\ \A e \in events : e.source = "messages" => After(e.key, prev.messages) /\ e.key \in transcript
      /\ \A e \in events : e.source = "workers" => After(e.key, prev.workers) /\ e.key \in WorkerKeys
      /\ \A e \in events : e.source = "pending" => e.key[1] \in pendingFile
  BY DEF PendingEvents
<1>3. /\ \A j \in transcript : After(j, prev.messages) => [source |-> "messages", key |-> j] \in events
      /\ \A j \in WorkerKeys : After(j, prev.workers) => [source |-> "workers", key |-> j] \in events
  BY DEF PendingEvents
<1>4. /\ \A i \in 1..k : page[i] \in events /\ i \in 1..Len(page)
      /\ Len(page) \in Nat /\ k \in 0..Len(page) /\ page \in [1..Len(page) -> FeedEvent]
  BY DEF IsPage
<1>5. MovesTo(events, page, k, "messages", prev.messages, m)
  <2>1. \A e \in events : e.source = "messages" => After(e.key, prev.messages)
    BY <1>2
  <2>2. IsPage(page, events)
    OBVIOUS
  <2> HIDE DEF events
  <2> QED
    BY <1>0, <2>1, <2>2, SourceFits
<1>6. MovesTo(events, page, k, "workers", prev.workers, w)
  <2>1. \A e \in events : e.source = "workers" => After(e.key, prev.workers)
    BY <1>2
  <2>2. IsPage(page, events)
    OBVIOUS
  <2> HIDE DEF events
  <2> QED
    BY <1>0, <2>1, <2>2, SourceFits
<1>7. /\ q \in SUBSET Nat
      /\ (q = prev.pending /\ \A i \in 1..k : page[i].source # "pending") \/ q = pendingFile
  <2>1. CASE \A i \in 1..k : page[i].source # "pending"
    BY <2>1, <1>0
  <2>2. CASE \E i \in 1..k : page[i].source = "pending"
    <3>1. PICK l \in 1..k : page[l].source = "pending" /\ Position(page, k, "pending", None) = page[l].key
      BY <1>4, <2>2, PositionIs
    <3>2. page[l].key[1] \in pendingFile
      BY <1>2, <1>4, <3>1
    <3>3. q = {page[l].key[1]}
      BY <2>2, <3>1
    <3>4. q = pendingFile
      <4>1. \A a, b \in pendingFile : a = b
        BY DEF FilesTyped
      <4> HIDE DEF q
      <4> QED
        BY <3>2, <3>3, <4>1, Zenon
    <3> QED
      BY <3>4, FilesAreFinite
  <2> QED
    BY <2>1, <2>2
<1> HIDE DEF m, w, q, events
<1>8. c \in Cursor
  BY <1>1, <1>5, <1>6, <1>7 DEF Cursor, MovesTo
<1>9. H \subseteq FeedEvent
  BY <1>0, <1>4
<1>10. c.messages = None \/ c.messages \in transcript
  <2>1. prev.messages = None \/ prev.messages \in transcript
    BY DEF Exact
  <2> QED
    BY <1>1, <1>2, <1>5, <2>1 DEF MovesTo
<1>11. c.workers = None \/ (c.workers[2] \in FeedWorkers /\ c.workers[1] \in 1..sidecar[c.workers[2]])
  <2>1. prev.workers = None \/ (prev.workers[2] \in FeedWorkers /\ prev.workers[1] \in 1..sidecar[prev.workers[2]])
    BY DEF Exact
  <2>2. \A j \in WorkerKeys : j[2] \in FeedWorkers /\ j[1] \in 1..sidecar[j[2]]
    BY SidecarIs
  <2>3. CASE w = prev.workers
    BY <1>1, <2>1, <2>3
  <2>4. CASE w # prev.workers
    <3>1. w \in WorkerKeys
      BY <1>2, <1>6, <2>4 DEF MovesTo
    <3> QED
      BY <1>1, <2>2, <3>1
  <2> QED
    BY <2>3, <2>4
<1>12. ASSUME NEW e \in H PROVE Passed(e, c) /\ Seen(e)
  <2>0. e \in FeedEvent /\ e.key \in EventKeys /\ e.source \in {"messages", "workers", "pending"} /\ e.key[1] \in Nat
    BY <1>9 DEF FeedEvent, EventKeys
  <2>1. CASE e \in G
    <3>1. Passed(e, prev) /\ Seen(e)
      BY <2>1 DEF Exact
    <3>2. CASE e.source = "messages"
      BY <1>1, <1>5, <2>0, <3>1, <3>2 DEF Passed, MovesTo
    <3>3. CASE e.source = "workers"
      BY <1>1, <1>6, <2>0, <3>1, <3>3 DEF Passed, MovesTo
    <3>4. CASE e.source = "pending"
      BY <1>1, <1>7, <2>0, <3>1, <3>4 DEF Passed
    <3> QED
      BY <2>0, <3>1, <3>2, <3>3, <3>4
  <2>2. CASE e \notin G
    <3>0. PICK i \in 1..k : e = page[i]
      BY <2>2
    <3>1. e \in events
      BY <1>4, <3>0
    <3>2. CASE e.source = "messages"
      BY <1>1, <1>5, <3>0, <3>2 DEF Passed, Seen, MovesTo
    <3>3. CASE e.source = "workers"
      BY <1>1, <1>6, <3>0, <3>3 DEF Passed, Seen, MovesTo
    <3>4. CASE e.source = "pending"
      <4>1. e.key[1] \in pendingFile /\ q = pendingFile
        BY <1>2, <1>7, <3>0, <3>1, <3>4
      <4>2. \A a, b \in pendingFile : a = b
        BY DEF FilesTyped
      <4>3. \A at \in pendingFile : at = e.key[1]
        BY <4>1, <4>2, Zenon
      <4> QED
        BY <1>1, <2>0, <3>4, <4>1, <4>3 DEF Passed, Seen
    <3> QED
      BY <2>0, <3>2, <3>3, <3>4
  <2> QED
    BY <2>1, <2>2
<1>13. ASSUME NEW j \in transcript \ late, After(j, base.messages), ~After(j, c.messages)
       PROVE  [source |-> "messages", key |-> j] \in H
  <2>1. CASE ~After(j, prev.messages)
    BY <1>13, <2>1 DEF Exact
  <2>2. CASE After(j, prev.messages)
    <3>1. [source |-> "messages", key |-> j] \in events
      BY <1>3, <2>2
    <3>2. \E i \in 1..k : page[i] = [source |-> "messages", key |-> j]
      BY <1>1, <1>5, <1>13, <3>1 DEF MovesTo
    <3> QED
      BY <3>2
  <2> QED
    BY <2>1, <2>2
<1>14. ASSUME NEW j \in WorkerKeys, After(j, base.workers), ~After(j, c.workers)
       PROVE  [source |-> "workers", key |-> j] \in H
  <2>1. CASE ~After(j, prev.workers)
    BY <1>14, <2>1 DEF Exact
  <2>2. CASE After(j, prev.workers)
    <3>1. [source |-> "workers", key |-> j] \in events
      BY <1>3, <2>2
    <3>2. \E i \in 1..k : page[i] = [source |-> "workers", key |-> j]
      BY <1>1, <1>6, <1>14, <3>1 DEF MovesTo
    <3> QED
      BY <3>2
  <2> QED
    BY <2>1, <2>2
<1> HIDE DEF c, H
<1>15. Exact(c, H)
  BY <1>8, <1>9, <1>10, <1>11, <1>12, <1>13, <1>14 DEF Exact
<1> QED
  BY <1>15 DEF c, H

LEMMA CurrentFits ==
  ASSUME FeedConstants, FilesTyped, NEW prev, NEW G, Exact(prev, G), PendingEvents(prev) = {}
  PROVE  Exact(CurrentCursor, G)
<1> DEFINE c == CurrentCursor
<1>0. /\ prev \in Cursor /\ G \subseteq FeedEvent /\ prev.messages \in EventKeys /\ prev.workers \in EventKeys
  BY DEF Exact, Cursor
<1>1. /\ \A j \in transcript : ~After(j, prev.messages)
      /\ \A j \in WorkerKeys : ~After(j, prev.workers)
  BY DEF PendingEvents
<1>2. /\ c \in Cursor
      /\ c.messages = None \/ c.messages \in transcript
      /\ c.workers = None \/ c.workers \in WorkerKeys
      /\ \A j \in transcript : ~After(j, c.messages)
      /\ \A j \in WorkerKeys : ~After(j, c.workers)
      /\ c.pending = pendingFile
      /\ c.messages \in EventKeys /\ c.workers \in EventKeys
  <2>1. c \in Cursor
    BY CurrentIs
  <2>2. c.messages \in EventKeys /\ c.workers \in EventKeys
    BY <2>1 DEF Cursor
  <2> QED
    BY <2>2, CurrentIs
<1> HIDE DEF c
<1>3. \A j \in EventKeys : ~After(None, j)
  BY DEF None, EventKeys, After
<1>4. \A j \in WorkerKeys : j[2] \in FeedWorkers /\ j[1] \in 1..sidecar[j[2]]
  BY SidecarIs
<1>5. ~After(prev.messages, c.messages)
  <2>1. prev.messages = None \/ prev.messages \in transcript
    BY DEF Exact
  <2> QED
    BY <1>2, <1>3, <2>1
<1>6. ~After(prev.workers, c.workers)
  <2>1. CASE prev.workers = None
    BY <1>2, <1>3, <2>1
  <2>2. CASE prev.workers # None
    <3> DEFINE u == prev.workers[2]
    <3>1. /\ u \in FeedWorkers /\ prev.workers[1] \in 1..sidecar[u] /\ sidecar[u] \in Nat
          /\ prev.workers[1] \in Nat /\ u \in Nat /\ sidecar[u] > 0
      <4>1. u \in FeedWorkers /\ prev.workers[1] \in 1..sidecar[u]
        BY <2>2 DEF Exact
      <4>2. sidecar[u] \in Nat
        BY <4>1, SidecarIs
      <4> QED
        BY <1>0, <4>1, <4>2 DEF EventKeys
    <3>3. <<sidecar[u], u>> \in WorkerKeys /\ <<sidecar[u], u>> \in EventKeys
      BY <3>1 DEF WorkerKeys, EventKeys
    <3>4. ~After(prev.workers, <<sidecar[u], u>>)
      BY <3>1 DEF After
    <3>5. ~After(<<sidecar[u], u>>, c.workers)
      BY <1>2, <3>3
    <3> QED
      BY <1>0, <1>2, <3>3, <3>4, <3>5, AfterOrders
  <2> QED
    BY <2>1, <2>2
<1>7. ASSUME NEW e \in G PROVE Passed(e, c) /\ Seen(e)
  <2>0. e.key \in EventKeys /\ e.source \in {"messages", "workers", "pending"}
    BY <1>0 DEF FeedEvent
  <2>1. Passed(e, prev) /\ Seen(e)
    BY DEF Exact
  <2>2. CASE e.source = "messages"
    <3>1. ~After(e.key, prev.messages)
      BY <2>1, <2>2 DEF Passed
    <3>2. ~After(e.key, c.messages)
      BY <1>0, <1>2, <1>5, <2>0, <3>1, AfterOrders
    <3> QED
      BY <2>1, <2>2, <3>2 DEF Passed
  <2>3. CASE e.source = "workers"
    <3>1. ~After(e.key, prev.workers)
      BY <2>1, <2>3 DEF Passed
    <3>2. ~After(e.key, c.workers)
      BY <1>0, <1>2, <1>6, <2>0, <3>1, AfterOrders
    <3> QED
      BY <2>1, <2>3, <3>2 DEF Passed
  <2>4. CASE e.source = "pending"
    BY <1>2, <2>1, <2>4 DEF Passed
  <2> QED
    BY <2>0, <2>2, <2>3, <2>4
<1>8. c.workers = None \/ (c.workers[2] \in FeedWorkers /\ c.workers[1] \in 1..sidecar[c.workers[2]])
  BY <1>2, <1>4
<1>9. /\ \A k \in transcript \ late :
            After(k, base.messages) => [source |-> "messages", key |-> k] \in G
      /\ \A k \in WorkerKeys :
            After(k, base.workers) => [source |-> "workers", key |-> k] \in G
  BY <1>1 DEF Exact
<1>10. Exact(c, G)
  BY <1>0, <1>2, <1>7, <1>8, <1>9 DEF Exact
<1> QED
  BY <1>10 DEF c

-----------------------------------------------------------------------------
(* Steps of the files.  What they add comes after every cursor, but for a  *)
(* message that is late.                                                   *)

SeenAt(n) == (\A at \in pendingFile : n <= at) /\ (pendingFile = {} => n < now)

FilesGrow ==
  /\ transcript \subseteq transcript'
  /\ \A k \in transcript' \ late' : k \in transcript \ late \/ \A j \in transcript \cup {None} : After(k, j)
  /\ \A u \in FeedWorkers : sidecar[u] <= sidecar'[u] /\ sidecar'[u] \in Nat
  /\ \A k \in WorkerKeys' :
        k \in WorkerKeys \/ (k[1] \in Nat \ {0} /\ \A u \in FeedWorkers : sidecar[u] < k[1])
  /\ \A n \in Nat : SeenAt(n) => SeenAt(n)' /\ (n \in pendingFile' => n \in pendingFile)
  /\ base' = base

LEMMA ExactStays ==
  ASSUME FeedConstants, FilesTyped, FilesGrow, NEW c, NEW G, Exact(c, G)
  PROVE  Exact(c, G)'
<1>0. /\ c \in Cursor /\ G \subseteq FeedEvent
      /\ c.messages = None \/ c.messages \in transcript
      /\ c.workers = None \/ (c.workers[2] \in FeedWorkers /\ c.workers[1] \in 1..sidecar[c.workers[2]])
  BY DEF Exact
<1>1. c.messages = None \/ c.messages \in transcript'
  BY <1>0 DEF FilesGrow
<1>2. c.workers = None \/ (c.workers[2] \in FeedWorkers /\ c.workers[1] \in 1..sidecar'[c.workers[2]])
  <2>1. \A u \in FeedWorkers : sidecar[u] \in Nat /\ sidecar'[u] \in Nat /\ sidecar[u] <= sidecar'[u]
    BY SidecarIs DEF FilesGrow
  <2>2. \A u \in FeedWorkers : 1..sidecar[u] \subseteq 1..sidecar'[u]
    BY <2>1
  <2> QED
    BY <1>0, <2>2, Zenon
<1>3. ASSUME NEW e \in G PROVE Passed(e, c)' /\ Seen(e)'
  <2>1. e.key[1] \in Nat /\ e.source \in {"messages", "workers", "pending"}
    BY <1>0 DEF FeedEvent, EventKeys
  <2>2. Passed(e, c) /\ Seen(e)
    BY DEF Exact
  <2>3. CASE e.source = "pending"
    <3>1. SeenAt(e.key[1])
      BY <2>2, <2>3 DEF Seen, SeenAt
    <3>2. SeenAt(e.key[1])' /\ (e.key[1] \in pendingFile' => e.key[1] \in pendingFile)
      BY <2>1, <3>1 DEF FilesGrow
    <3>3. Seen(e)'
      BY <3>2 DEF Seen, SeenAt
    <3>4. Passed(e, c)'
      BY <2>2, <2>3, <3>2 DEF Passed
    <3> QED
      BY <3>3, <3>4
  <2>4. CASE e.source # "pending"
    BY <2>1, <2>2, <2>4 DEF Passed, Seen
  <2> QED
    BY <2>3, <2>4
<1>4. ASSUME NEW k \in transcript' \ late', After(k, base.messages), ~After(k, c.messages)
      PROVE  [source |-> "messages", key |-> k] \in G
  <2>1. k \in transcript \ late
    BY <1>0, <1>4 DEF FilesGrow
  <2> QED
    BY <1>4, <2>1 DEF Exact
<1>5. ASSUME NEW k \in WorkerKeys', After(k, base.workers), ~After(k, c.workers)
      PROVE  [source |-> "workers", key |-> k] \in G
  <2>1. k \in WorkerKeys
    <3>1. SUFFICES ASSUME k[1] \in Nat \ {0}, \A u \in FeedWorkers : sidecar[u] < k[1] PROVE FALSE
      BY DEF FilesGrow
    <3>2. c.workers = None \/ c.workers[1] < k[1]
      <4>1. ASSUME NEW u \in FeedWorkers, NEW n \in 1..sidecar[u] PROVE n < k[1]
        BY <3>1, SidecarIs
      <4> QED
        BY <1>0, <4>1
    <3>3. After(k, c.workers)
      BY <3>1, <3>2 DEF After, None
    <3> QED
      BY <1>5, <3>3
  <2> QED
    BY <1>5, <2>1 DEF Exact
<1>6. base' = base
  BY DEF FilesGrow
<1>7. /\ \A k \in transcript' \ late' :
           After(k, base'.messages) /\ ~After(k, c.messages) => [source |-> "messages", key |-> k] \in G
      /\ \A k \in WorkerKeys' :
           After(k, base'.workers) /\ ~After(k, c.workers) => [source |-> "workers", key |-> k] \in G
  BY <1>4, <1>5, <1>6
<1> QED
  BY <1>0, <1>1, <1>2, <1>3, <1>7 DEF Exact, After

FileStep ==
  \/ Tick \/ TouchPending \/ DrainPending
  \/ \E id \in MessageIds : Stamp(id)
  \/ \E k \in sending : AppendMessage(k)
  \/ \E w \in FeedWorkers : UpsertState(w)

LEMMA FilesStep ==
  ASSUME FeedConstants, FilesTyped, FileStep
  PROVE  FilesTyped' /\ FilesGrow
<1> DEFINE Unread == /\ transcript' = transcript /\ late' = late
                     /\ sidecar' = sidecar /\ WorkerKeys' = WorkerKeys
<1>0. /\ now \in Nat \ {0} /\ MaxNow \in Nat /\ now <= MaxNow
      /\ \A u \in FeedWorkers : sidecar[u] \in Nat /\ sidecar[u] <= now
      /\ \A n \in pendingFile : n \in Nat /\ n <= now
      /\ \A a, b \in pendingFile : a = b
  <2>1. now \in Nat \ {0} /\ MaxNow \in Nat /\ now <= MaxNow
    BY DEF FeedConstants, FilesTyped
  <2>2. \A n \in pendingFile : n \in 0..now
    BY DEF FilesTyped
  <2> QED
    BY <2>1, <2>2, SidecarIs DEF FilesTyped
<1>a. \A k \in sending \cup transcript : k[1] \in 1..now /\ k[2] \in MessageIds /\ k \in EventKeys /\ k = <<k[1], k[2]>>
  BY <1>0 DEF FilesTyped, EventKeys, MessageIds
<1>b. base' = base
  BY DEF FileStep, Tick, TouchPending, DrainPending, Stamp, AppendMessage, UpsertState, clientVars
<1>c. ASSUME Unread PROVE /\ transcript \subseteq transcript'
                          /\ \A k \in transcript' \ late' : k \in transcript \ late
                          /\ \A u \in FeedWorkers : sidecar[u] <= sidecar'[u] /\ sidecar'[u] \in Nat
                          /\ WorkerKeys' = WorkerKeys
  BY <1>0, <1>c
<1>d. ASSUME pendingFile' = pendingFile, now' \in Nat, now <= now', NEW n \in Nat, SeenAt(n)
      PROVE  SeenAt(n)' /\ (n \in pendingFile' => n \in pendingFile)
  BY <1>0, <1>d DEF SeenAt
<1>1. ASSUME now' \in 1..MaxNow, now <= now', Unread, sending' = sending,
             pendingFile' \subseteq 0..now', \A a, b \in pendingFile' : a = b
      PROVE  FilesTyped'
  <2>1. 1..now \subseteq 1..now' /\ 0..now \subseteq 0..now'
    BY <1>0, <1>1
  <2>2. sending' \subseteq (1..now') \X MessageIds /\ transcript' \subseteq (1..now') \X MessageIds
    BY <1>1, <2>1 DEF FilesTyped
  <2>3. sidecar' \in [FeedWorkers -> 0..now']
    BY <1>1, <2>1 DEF FilesTyped
  <2> QED
    BY <1>1, <2>2, <2>3 DEF FilesTyped, Stamped
<1>2. CASE Tick
  <2>1. Unread /\ sending' = sending /\ pendingFile' = pendingFile /\ now' = now + 1 /\ now < MaxNow
    BY <1>2 DEF Tick, WorkerKeys
  <2>2. FilesTyped'
    BY <1>0, <1>1, <2>1
  <2> QED
    BY <1>0, <1>b, <1>c, <1>d, <2>1, <2>2 DEF FilesGrow
<1>3. CASE TouchPending
  <2>1. Unread /\ sending' = sending /\ now' = now /\ now \notin pendingFile /\ pendingFile' = {now}
    BY <1>3 DEF TouchPending, WorkerKeys
  <2>2. FilesTyped'
    BY <1>0, <1>1, <2>1
  <2>3. ASSUME NEW n \in Nat, SeenAt(n) PROVE SeenAt(n)' /\ (n \in pendingFile' => n \in pendingFile)
    <3>1. n < now
      BY <1>0, <2>1, <2>3 DEF SeenAt
    <3> QED
      BY <1>0, <2>1, <3>1 DEF SeenAt
  <2> QED
    BY <1>b, <1>c, <2>1, <2>2, <2>3 DEF FilesGrow
<1>4. CASE DrainPending
  <2>1. Unread /\ sending' = sending /\ now' = now + 1 /\ now < MaxNow /\ pendingFile # {} /\ pendingFile' = {}
    BY <1>4 DEF DrainPending, WorkerKeys
  <2>2. FilesTyped'
    BY <1>0, <1>1, <2>1
  <2>3. ASSUME NEW n \in Nat, SeenAt(n) PROVE SeenAt(n)' /\ (n \in pendingFile' => n \in pendingFile)
    BY <1>0, <2>1, <2>3 DEF SeenAt
  <2> QED
    BY <1>b, <1>c, <2>1, <2>2, <2>3 DEF FilesGrow
<1>5. ASSUME NEW id \in MessageIds, Stamp(id) PROVE FilesTyped' /\ FilesGrow
  <2>1. /\ Unread /\ now' = now /\ pendingFile' = pendingFile /\ sending' = sending \cup {<<now, id>>}
        /\ id \notin {k[2] : k \in sending \cup transcript}
    BY <1>5 DEF Stamp, Stamped, WorkerKeys
  <2>2. sending' \subseteq (1..now) \X MessageIds
    BY <1>0, <2>1 DEF FilesTyped
  <2>3. sending' \cap transcript' = {}
    BY <2>1 DEF FilesTyped
  <2>4. \A k \in sending', j \in sending' \cup transcript' : k[2] = j[2] => k = j
    BY <2>1 DEF FilesTyped, Stamped
  <2>5. FilesTyped'
    BY <2>1, <2>2, <2>3, <2>4 DEF FilesTyped, Stamped
  <2> QED
    BY <1>0, <1>b, <1>c, <1>d, <2>1, <2>5 DEF FilesGrow
<1>6. ASSUME NEW k \in sending, AppendMessage(k) PROVE FilesTyped' /\ FilesGrow
  <2>1. /\ now' = now /\ sidecar' = sidecar /\ pendingFile' = pendingFile /\ WorkerKeys' = WorkerKeys
        /\ sending' = sending \ {k} /\ transcript' = transcript \cup {k}
        /\ late' = IF \E j \in transcript : After(j, k) THEN late \cup {k} ELSE late
    BY <1>6 DEF AppendMessage, WorkerKeys
  <2>2. k \notin transcript /\ k \in EventKeys /\ k[1] \in Nat \ {0}
    BY <1>0, <1>a DEF FilesTyped
  <2>3. FilesTyped'
    <3>1. sending' \cap transcript' = {} /\ late' \subseteq transcript' /\ transcript' \subseteq (1..now) \X MessageIds
      BY <2>1 DEF FilesTyped
    <3>2. \A i \in sending', j \in sending' \cup transcript' : i[2] = j[2] => i = j
      BY <2>1 DEF FilesTyped, Stamped
    <3> QED
      BY <2>1, <3>1, <3>2 DEF FilesTyped, Stamped
  <2>4. ASSUME NEW i \in transcript' \ late' PROVE i \in transcript \ late \/ \A j \in transcript \cup {None} : After(i, j)
    <3>1. CASE i \in transcript
      BY <2>1, <2>4, <3>1
    <3>2. CASE i = k
      <4>1. \A j \in transcript : ~After(j, k)
        BY <2>1, <2>4, <3>2
      <4>2. \A j \in transcript : After(k, j)
        BY <1>a, <2>2, <4>1, AfterOrders
      <4>3. After(k, None)
        BY <2>2 DEF After, None
      <4> QED
        BY <3>2, <4>2, <4>3
    <3> QED
      BY <2>1, <3>1, <3>2
  <2> QED
    BY <1>0, <1>b, <1>d, <2>1, <2>3, <2>4 DEF FilesGrow
<1>7. ASSUME NEW w \in FeedWorkers, UpsertState(w) PROVE FilesTyped' /\ FilesGrow
  <2>1. /\ now' = now /\ sending' = sending /\ transcript' = transcript /\ late' = late /\ pendingFile' = pendingFile
        /\ \A v \in FeedWorkers : sidecar[v] < now
        /\ sidecar' = [sidecar EXCEPT ![w] = now]
    BY <1>7 DEF UpsertState
  <2>2. sidecar' \in [FeedWorkers -> 0..now]
    BY <1>0, <2>1 DEF FilesTyped
  <2>3. FilesTyped'
    BY <2>1, <2>2 DEF FilesTyped, Stamped
  <2>4. \A u \in FeedWorkers : sidecar'[u] = IF u = w THEN now ELSE sidecar[u]
    BY <2>1 DEF FilesTyped
  <2>5. \A i \in WorkerKeys' : i \in WorkerKeys \/ (i[1] \in Nat \ {0} /\ \A u \in FeedWorkers : sidecar[u] < i[1])
    BY <1>0, <2>1, <2>4 DEF WorkerKeys
  <2>6. \A u \in FeedWorkers : sidecar[u] <= sidecar'[u] /\ sidecar'[u] \in Nat
    BY <1>0, <2>4
  <2> QED
    BY <1>0, <1>b, <1>d, <2>1, <2>3, <2>5, <2>6 DEF FilesGrow
<1> QED
  BY <1>2, <1>3, <1>4, <1>5, <1>6, <1>7 DEF FileStep

LEMMA ClientStays ==
  ASSUME FeedInv, FeedConstants, FileStep, FilesGrow, FilesTyped'
  PROVE FeedInv'
<1>1. \A c, G : Exact(c, G) => Exact(c, G)'
  <2> TAKE c, G
  <2> QED
    BY ExactStays DEF FeedInv
<1>2. UNCHANGED clientVars
  BY DEF FileStep, Tick, TouchPending, DrainPending, Stamp, AppendMessage, UpsertState
<1>3. StreamTyped' /\ NothingTwice'
  BY <1>2 DEF FeedInv, StreamTyped, NothingTwice, clientVars
<1>4. ChainIsExact'
  <2>4. wire' = wire /\ got' = got /\ stream' = stream /\ client' = client
    BY <1>2 DEF clientVars
  <2>1. ASSUME NEW c \in client' PROVE Exact(c, DOMAIN got)'
    BY <1>1, <2>4 DEF FeedInv, ChainIsExact
  <2>2. ASSUME NEW k \in 1..Len(wire') PROVE Exact(wire[k].cursor, DOMAIN got \cup Upto(wire, k))'
    BY <1>1, <2>4 DEF FeedInv, ChainIsExact, Upto
  <2>3. ASSUME NEW c \in stream' PROVE Exact(c, DOMAIN got \cup Upto(wire, Len(wire)))'
    BY <1>1, <2>4 DEF FeedInv, ChainIsExact, Upto
  <2> QED
    BY <2>1, <2>2, <2>3 DEF ChainIsExact
<1> QED
  BY <1>3, <1>4 DEF FeedInv

-----------------------------------------------------------------------------
(* Steps of the client and its stream.                                     *)

LEMMA ExactSame ==
  ASSUME UNCHANGED <<fileVars, base>>
  PROVE  \A c, G : Exact(c, G) => Exact(c, G)'
BY DEF Exact, Passed, Seen, WorkerKeys, After, fileVars

LEMMA FilesSame ==
  ASSUME FilesTyped, UNCHANGED fileVars
  PROVE  FilesTyped'
BY DEF FilesTyped, fileVars, Stamped

LEMMA CountedOnce ==
  ASSUME NEW g, NEW events, \A e \in DOMAIN g : g[e] = 1, events \cap DOMAIN g = {}
  PROVE  /\ DOMAIN Counted(g, events) = DOMAIN g \cup events
         /\ \A e \in DOMAIN g \cup events : Counted(g, events)[e] = 1
BY DEF Counted

LEMMA ConnectStep ==
  ASSUME FeedConstants, FeedInv, Connect
  PROVE  FeedInv'
<1>0. /\ stream = {} /\ wire = <<>> /\ wire' = wire /\ got' = got
      /\ UNCHANGED fileVars
  BY DEF Connect, FeedInv, StreamTyped
<1>1. FilesTyped' /\ NothingTwice'
  BY <1>0, FilesSame DEF FeedInv, NothingTwice
<1>2. CASE client = {}
  <2>1. PICK c : c = CurrentCursor
    OBVIOUS
  <2>2. stream' = {c} /\ client' = {c} /\ base' = c /\ got = <<>>
    BY <1>2, <2>1 DEF Connect, FeedInv, StreamTyped
  <2>3. CurrentCursor' = CurrentCursor
    BY <1>0 DEF CurrentCursor, WorkerKeys, fileVars
  <2>4. c \in Cursor /\ StreamTyped'
    <3>1. c \in Cursor
      BY <2>1, CurrentIs DEF FeedInv
    <3> QED
      BY <1>0, <2>2, <3>1 DEF StreamTyped
  <2>5. Exact(c, {})'
    <3>1. c.messages = None \/ c.messages \in transcript'
      BY <1>0, <2>1, CurrentIs DEF FeedInv, fileVars
    <3>2. c.workers = None \/ (c.workers[2] \in FeedWorkers /\ c.workers[1] \in 1..sidecar'[c.workers[2]])
      BY <1>0, <2>1, CurrentIs, SidecarIs DEF FeedInv, fileVars
    <3> QED
      BY <2>2, <2>4, <3>1, <3>2 DEF Exact
  <2>6. ChainIsExact'
    <3>1. DOMAIN got' = {} /\ Len(wire') = 0 /\ Upto(wire, Len(wire))' = {}
      BY <1>0, <2>2 DEF Upto
    <3>2. Exact(c, DOMAIN got)' /\ Exact(c, DOMAIN got \cup Upto(wire, Len(wire)))'
      BY <2>5, <3>1
    <3> QED
      BY <2>2, <3>1, <3>2 DEF ChainIsExact
  <2> QED
    BY <1>1, <2>4, <2>6 DEF FeedInv
<1>3. CASE client # {}
  <2>1. stream' = client /\ client' = client /\ base' = base
    BY <1>3 DEF Connect
  <2>2. StreamTyped'
    BY <1>0, <1>3, <2>1 DEF FeedInv, StreamTyped
  <2>3. ChainIsExact'
    <3>1. Len(wire') = 0 /\ Upto(wire, Len(wire))' = {} /\ DOMAIN got \cup {} = DOMAIN got
      BY <1>0 DEF Upto
    <3>2. ASSUME NEW c \in client PROVE Exact(c, DOMAIN got)' /\ Exact(c, DOMAIN got \cup Upto(wire, Len(wire)))'
      <4>1. Exact(c, DOMAIN got)
        BY DEF FeedInv, ChainIsExact
      <4>2. Exact(c, DOMAIN got)'
        BY <1>0, <2>1, <4>1, ExactSame
      <4>3. Exact(c, DOMAIN got \cup Upto(wire, Len(wire)))'
        BY <3>1, <4>2, <1>0
      <4> QED
        BY <4>2, <4>3
    <3>3. \A k \in 1..Len(wire') : FALSE
      BY <3>1
    <3> QED
      BY <2>1, <3>2, <3>3 DEF ChainIsExact
  <2> QED
    BY <1>1, <2>2, <2>3 DEF FeedInv
<1> QED
  BY <1>2, <1>3

LEMMA DropStep ==
  ASSUME FeedConstants, FeedInv, Drop
  PROVE  FeedInv'
<1>0. /\ stream' = {} /\ wire' = <<>> /\ client' = client /\ got' = got /\ base' = base
      /\ UNCHANGED fileVars
  BY DEF Drop
<1>1. FilesTyped' /\ NothingTwice' /\ StreamTyped'
  BY <1>0, FilesSame DEF FeedInv, NothingTwice, StreamTyped
<1>2. ASSUME NEW c \in client' PROVE Exact(c, DOMAIN got)'
  <2>1. Exact(c, DOMAIN got)
    BY <1>0 DEF FeedInv, ChainIsExact
  <2> QED
    BY <1>0, <2>1, ExactSame
<1>3. ChainIsExact'
  BY <1>0, <1>2 DEF ChainIsExact
<1> QED
  BY <1>1, <1>3 DEF FeedInv

LEMMA ReceiveStep ==
  ASSUME FeedConstants, FeedInv, Receive
  PROVE  FeedInv'
<1> DEFINE h == wire[1]
<1>0. /\ wire # <<>> /\ got' = Counted(got, {h.event}) /\ client' = {h.cursor} /\ wire' = Tail(wire)
      /\ stream' = stream /\ base' = base /\ UNCHANGED fileVars
      /\ wire \in Seq([event : FeedEvent, cursor : Cursor])
  <2>1. wire \in Seq([event : FeedEvent, cursor : Cursor])
    BY DEF FeedInv, StreamTyped
  <2>2. wire # <<>> /\ Head(wire) = wire[1]
    BY <2>1 DEF Receive
  <2> HIDE DEF h
  <2> QED
    BY <2>1, <2>2 DEF Receive, h
<1>1. /\ Len(wire) \in Nat \ {0} /\ Len(wire') = Len(wire) - 1 /\ h \in [event : FeedEvent, cursor : Cursor]
      /\ wire' \in Seq([event : FeedEvent, cursor : Cursor])
      /\ \A k \in 1..Len(wire') : wire'[k] = wire[k + 1] /\ k + 1 \in 1..Len(wire)
      /\ 1 \in 1..Len(wire)
  <2>1. wire \in Seq([event : FeedEvent, cursor : Cursor]) /\ wire # <<>> /\ wire' = Tail(wire)
    BY <1>0
  <2>2. Len(wire) \in Nat \ {0}
    BY <2>1
  <2>3. /\ Len(wire') = Len(wire) - 1 /\ wire' \in Seq([event : FeedEvent, cursor : Cursor])
        /\ \A k \in 1..Len(wire') : wire'[k] = wire[k + 1]
    BY <2>1, <2>2
  <2>4. wire[1] \in [event : FeedEvent, cursor : Cursor]
    <3> DEFINE S == [event : FeedEvent, cursor : Cursor]
    <3>1. wire \in Seq(S)
      BY <2>1
    <3> HIDE DEF S
    <3>2. wire[1] \in S
      BY <2>2, <3>1
    <3> QED
      BY <3>2 DEF S
  <2> QED
    BY <2>2, <2>3, <2>4
<1>2. /\ DOMAIN got' = DOMAIN got \cup {h.event}
      /\ \A e \in DOMAIN got' : got'[e] = 1
      /\ h.event \notin DOMAIN got
  <2>1. h.event \notin DOMAIN got /\ \A e \in DOMAIN got : got[e] = 1
    BY <1>1 DEF FeedInv, NothingTwice
  <2>2. {h.event} \cap DOMAIN got = {}
    BY <2>1
  <2> DEFINE d == {h.event}
  <2>3. got' = Counted(got, d) /\ d \cap DOMAIN got = {}
    BY <1>0, <2>2
  <2> HIDE DEF d
  <2>4. DOMAIN got' = DOMAIN got \cup d /\ \A e \in DOMAIN got \cup d : got'[e] = 1
    <3>1. /\ DOMAIN Counted(got, d) = DOMAIN got \cup d
          /\ \A e \in DOMAIN got \cup d : Counted(got, d)[e] = 1
      BY <2>1, <2>3, CountedOnce
    <3> QED
      BY <2>3, <3>1
  <2> QED
    BY <2>1, <2>4 DEF d
<1>3. ASSUME NEW k \in 0..Len(wire') PROVE DOMAIN got' \cup Upto(wire', k) = DOMAIN got \cup Upto(wire, k + 1)
  <2>1. Upto(wire, k + 1) = {wire[1].event} \cup Upto(wire', k)
    <3>1. ASSUME NEW j \in 1..(k + 1) PROVE wire[j].event \in {wire[1].event} \cup Upto(wire', k)
      <4>1. CASE j = 1
        BY <4>1
      <4>2. CASE j # 1
        <5>1. j - 1 \in 1..k /\ j - 1 \in 1..Len(wire') /\ (j - 1) + 1 = j
          BY <1>1, <4>2
        <5>2. wire'[j - 1] = wire[j]
          BY <1>1, <5>1
        <5> QED
          BY <5>1, <5>2 DEF Upto
      <4> QED
        BY <4>1, <4>2
    <3>2. ASSUME NEW j \in 1..k PROVE wire'[j].event \in Upto(wire, k + 1)
      <4>1. j \in 1..Len(wire') /\ j + 1 \in 1..(k + 1)
        BY <1>1
      <4>2. wire'[j] = wire[j + 1]
        BY <1>1, <4>1
      <4> QED
        BY <4>1, <4>2 DEF Upto
    <3>3. wire[1].event \in Upto(wire, k + 1)
      BY <1>1 DEF Upto
    <3> QED
      BY <3>1, <3>2, <3>3 DEF Upto
  <2> QED
    BY <1>2, <2>1
<1>4. NothingTwice'
  <2>1. DOMAIN got' \subseteq FeedEvent
    BY <1>1, <1>2 DEF FeedInv, NothingTwice
  <2>2. ASSUME NEW k \in 1..Len(wire') PROVE wire'[k].event \notin DOMAIN got'
    <3>1. wire[k + 1].event \notin DOMAIN got /\ wire[k + 1].event # wire[1].event
      <4>1. k + 1 \in 1..Len(wire) /\ k + 1 # 1
        BY <1>1
      <4> QED
        BY <1>1, <4>1 DEF FeedInv, NothingTwice
    <3> QED
      BY <1>1, <1>2, <3>1
  <2>3. ASSUME NEW j \in 1..Len(wire'), NEW k \in 1..Len(wire'), j # k PROVE wire'[j].event # wire'[k].event
    <3>1. wire'[j] = wire[j + 1] /\ wire'[k] = wire[k + 1] /\ j + 1 # k + 1 /\ j + 1 \in 1..Len(wire) /\ k + 1 \in 1..Len(wire)
      BY <1>1, <2>3
    <3> QED
      BY <3>1 DEF FeedInv, NothingTwice
  <2> QED
    BY <1>2, <2>1, <2>2, <2>3 DEF NothingTwice
<1>5. StreamTyped'
  BY <1>0, <1>1 DEF FeedInv, StreamTyped
<1>6. ChainIsExact'
  <2>1. ASSUME NEW c \in client' PROVE Exact(c, DOMAIN got)'
    <3>1. Exact(h.cursor, DOMAIN got \cup Upto(wire, 1))
      BY <1>1 DEF FeedInv, ChainIsExact
    <3>2. DOMAIN got \cup Upto(wire, 1) = DOMAIN got'
      BY <1>2 DEF Upto
    <3>3. PICK G : G = DOMAIN got'
      OBVIOUS
    <3>4. c = h.cursor
      BY <1>0
    <3>5. Exact(c, G)
      BY <3>1, <3>2, <3>3, <3>4
    <3>6. Exact(c, G)'
      BY <1>0, <3>5, ExactSame
    <3> QED
      BY <3>3, <3>6
  <2>2. ASSUME NEW k \in 1..Len(wire') PROVE Exact(wire[k].cursor, DOMAIN got \cup Upto(wire, k))'
    <3>1. Exact(wire[k + 1].cursor, DOMAIN got \cup Upto(wire, k + 1))
      BY <1>1 DEF FeedInv, ChainIsExact
    <3>2. PICK G, c : G = DOMAIN got' \cup Upto(wire', k) /\ c = wire'[k].cursor
      OBVIOUS
    <3>3. Exact(c, G)
      <4>1. k \in 0..Len(wire') /\ c = wire[k + 1].cursor
        BY <1>1, <3>2
      <4>2. G = DOMAIN got \cup Upto(wire, k + 1)
        BY <1>3, <3>2, <4>1
      <4> QED
        BY <3>1, <4>1, <4>2
    <3>4. Exact(c, G)'
      BY <1>0, <3>3, ExactSame
    <3> QED
      BY <3>2, <3>4 DEF Upto
  <2>3. ASSUME NEW c \in stream' PROVE Exact(c, DOMAIN got \cup Upto(wire, Len(wire)))'
    <3>1. Exact(c, DOMAIN got \cup Upto(wire, Len(wire)))
      BY <1>0 DEF FeedInv, ChainIsExact
    <3>2. PICK G : G = DOMAIN got' \cup Upto(wire', Len(wire'))
      OBVIOUS
    <3>3. Exact(c, G)
      <4>1. Len(wire') \in 0..Len(wire') /\ Len(wire) = Len(wire') + 1
        BY <1>1
      <4>2. G = DOMAIN got \cup Upto(wire, Len(wire))
        BY <1>3, <3>2, <4>1
      <4> QED
        BY <3>1, <4>2
    <3>4. Exact(c, G)'
      BY <1>0, <3>3, ExactSame
    <3> QED
      BY <3>2, <3>4 DEF Upto
  <2> QED
    BY <2>1, <2>2, <2>3 DEF ChainIsExact
<1>7. FilesTyped'
  BY <1>0, FilesSame DEF FeedInv
<1> QED
  BY <1>4, <1>5, <1>6, <1>7 DEF FeedInv

LEMMA PagePollStep ==
  ASSUME FeedConstants, FeedInv, PagePoll
  PROVE  FeedInv'
<1>0. PICK prev \in client : \E page \in Pages(PendingEvents(prev)) :
        got' = Counted(got, {page[k] : k \in DOMAIN page}) /\ client' = {NextCursor(page, prev)}
  BY DEF PagePoll
<1>1. PICK page \in Pages(PendingEvents(prev)) :
        got' = Counted(got, {page[k] : k \in DOMAIN page}) /\ client' = {NextCursor(page, prev)}
  BY <1>0
<1>2. /\ stream = {} /\ wire = <<>> /\ stream' = stream /\ wire' = wire /\ base' = base
      /\ UNCHANGED fileVars
  BY DEF PagePoll, FeedInv, StreamTyped
<1>3. Exact(prev, DOMAIN got) /\ prev \in Cursor /\ DOMAIN got \subseteq FeedEvent /\ FilesTyped
  BY DEF FeedInv, ChainIsExact, StreamTyped, NothingTwice
<1>4. IsPage(page, PendingEvents(prev))
  BY <1>3, EventsAreFinite, PageIs
<1> DEFINE d == {page[k] : k \in 1..Len(page)}
<1>5. {page[k] : k \in DOMAIN page} = d /\ Len(page) \in Nat
  BY <1>4 DEF IsPage
<1>6. d \subseteq PendingEvents(prev) /\ d \subseteq FeedEvent
  <2>1. d \subseteq PendingEvents(prev)
    BY <1>4 DEF IsPage
  <2> QED
    BY <1>3, <2>1, EventsAreFinite
<1>7. d \cap DOMAIN got = {}
  BY <1>3, <1>6, NewToTheCursor
<1> HIDE DEF d
<1>8. DOMAIN got' = DOMAIN got \cup d /\ \A e \in DOMAIN got' : got'[e] = 1
  <2>1. /\ DOMAIN Counted(got, d) = DOMAIN got \cup d
        /\ \A e \in DOMAIN got \cup d : Counted(got, d)[e] = 1
    BY <1>7, CountedOnce DEF FeedInv, NothingTwice
  <2> QED
    BY <1>1, <1>5, <2>1
<1>9. PICK c, G : c = NextCursor(page, prev) /\ G = DOMAIN got'
  OBVIOUS
<1>10. Exact(c, G)
  <2>1. CASE page = <<>>
    <3>1. PendingEvents(prev) = {} /\ d = {}
      BY <1>4, <1>6, <2>1 DEF IsPage
    <3>2. c = CurrentCursor /\ G = DOMAIN got
      BY <1>8, <1>9, <2>1, <3>1 DEF NextCursor
    <3>3. Exact(CurrentCursor, DOMAIN got)
      BY <1>3, <3>1, CurrentFits
    <3> QED
      BY <3>2, <3>3
  <2>2. CASE page # <<>>
    <3>1. Len(page) \in 1..Len(page)
      BY <1>4, <2>2 DEF IsPage
    <3>2. c = MergeAfter(prev, page, Len(page))
      BY <1>9, <2>2 DEF NextCursor
    <3>3. Exact(MergeAfter(prev, page, Len(page)), DOMAIN got \cup {page[i] : i \in 1..Len(page)})
      BY <1>3, <1>4, <3>1, PageFits
    <3> QED
      BY <1>8, <1>9, <3>2, <3>3 DEF d
  <2> QED
    BY <2>1, <2>2
<1>11. Exact(c, G)'
  BY <1>2, <1>10, ExactSame
<1>12. ChainIsExact'
  <2>1. \A k \in 1..Len(wire') : FALSE
    BY <1>2
  <2>2. Exact(c, DOMAIN got)' /\ client' = {c} /\ stream' = {}
    BY <1>1, <1>2, <1>9, <1>11
  <2> QED
    BY <2>1, <2>2 DEF ChainIsExact
<1>13. NothingTwice'
  <2>1. \A k \in 1..Len(wire') : FALSE
    BY <1>2
  <2>2. DOMAIN got' \subseteq FeedEvent
    BY <1>3, <1>6, <1>8
  <2> QED
    BY <1>8, <2>1, <2>2 DEF NothingTwice
<1>14. StreamTyped'
  <2>1. c \in Cursor /\ client' = {c}
    BY <1>1, <1>9, <1>10 DEF Exact
  <2> QED
    BY <1>2, <2>1 DEF FeedInv, StreamTyped
<1> QED
  BY <1>2, <1>3, <1>12, <1>13, <1>14, FilesSame DEF FeedInv

LEMMA StreamPollStep ==
  ASSUME FeedConstants, FeedInv, StreamPoll
  PROVE  FeedInv'
<1>0. PICK prev \in stream : \E page \in Pages(PendingEvents(prev)) :
        /\ page # <<>>
        /\ wire' = wire \o WithCursors(page, prev)
        /\ stream' = {NextCursor(page, prev)}
        /\ UNCHANGED <<client, got, base, drops, fileVars>>
  BY DEF StreamPoll
<1>1. PICK page \in Pages(PendingEvents(prev)) :
        /\ page # <<>>
        /\ wire' = wire \o WithCursors(page, prev)
        /\ stream' = {NextCursor(page, prev)}
        /\ UNCHANGED <<client, got, base, drops, fileVars>>
  BY <1>0
<1> DEFINE OnWire == [event : FeedEvent, cursor : Cursor]
           n == Len(wire)
           m == Len(page)
           W == WithCursors(page, prev)
           G == DOMAIN got \cup Upto(wire, n)
<1>2. /\ Exact(prev, G) /\ prev \in Cursor /\ FilesTyped
      /\ wire \in Seq(OnWire) /\ client # {}
  BY DEF FeedInv, ChainIsExact, StreamTyped
<1>3. IsPage(page, PendingEvents(prev))
  BY <1>2, EventsAreFinite, PageIs
<1>4. /\ n \in Nat /\ m \in Nat \ {0}
      /\ \A i \in 1..m : page[i] \in PendingEvents(prev) /\ page[i] \in FeedEvent
  BY <1>1, <1>2, <1>3 DEF IsPage
<1>5. \A i \in 1..m : page[i] \notin G
  <2> HIDE DEF G, m
  <2> QED
    BY <1>2, <1>4, NewToTheCursor
<1>6. \A i, j \in 1..m : i # j => page[i] # page[j]
  <2>1. \A i, j \in 1..m : i < j => Earlier(page[i], page[j])
    BY <1>3 DEF IsPage
  <2>2. \A e \in FeedEvent : ~Earlier(e, e)
    <3> TAKE e \in FeedEvent
    <3>1. e.key \in EventKeys
      BY DEF FeedEvent
    <3> QED
      BY <3>1, SameSource, AfterOrders
  <2> QED
    BY <1>4, <2>1, <2>2
<1>7. \A i \in 1..m : Exact(MergeAfter(prev, page, i), G \cup {page[j] : j \in 1..i})
  <2> HIDE DEF G
  <2> QED
    BY <1>2, <1>3, PageFits
<1>8. /\ W \in Seq(OnWire) /\ Len(W) = m
      /\ \A i \in 1..m : W[i].event = page[i] /\ W[i].cursor = MergeAfter(prev, page, i)
  <2>1. DOMAIN page = 1..m
    BY <1>3 DEF IsPage
  <2>2. W = [i \in 1..m |-> [event |-> page[i], cursor |-> MergeAfter(prev, page, i)]]
    BY <2>1 DEF WithCursors
  <2>3. \A i \in 1..m : MergeAfter(prev, page, i) \in Cursor
    BY <1>7 DEF Exact
  <2>4. \A i \in 1..m : [event |-> page[i], cursor |-> MergeAfter(prev, page, i)] \in OnWire
    BY <1>4, <2>3
  <2> HIDE DEF OnWire, W, m
  <2> QED
    BY <1>4, <2>2, <2>4
<1>9. /\ wire' \in Seq(OnWire) /\ Len(wire') = n + m
      /\ \A k \in 1..n : wire'[k] = wire[k]
      /\ \A i \in 1..m : wire'[n + i] = W[i]
  <2>1. wire' = wire \o W
    BY <1>1
  <2> HIDE DEF OnWire, W
  <2>2. Len(wire') = n + m /\ wire' \in Seq(OnWire)
    <3> HIDE DEF m
    <3>1. wire \in Seq(OnWire) /\ W \in Seq(OnWire) /\ Len(W) = m
      BY <1>2, <1>8
    <3> QED
      BY <2>1, <3>1, ConcatProperties
  <2>3. \A k \in 1..n : wire'[k] = wire[k]
    BY <1>2, <1>8, <2>1
  <2>4. \A i \in 1..m : wire'[n + i] = W[i]
    BY <1>2, <1>4, <1>8, <2>1
  <2> QED
    BY <2>2, <2>3, <2>4
<1>10. \A k \in 0..n : Upto(wire', k) = Upto(wire, k)
  <2> TAKE k \in 0..n
  <2>1. \A j \in 1..k : wire'[j].event = wire[j].event
    BY <1>4, <1>9
  <2> QED
    BY <2>1, Zenon DEF Upto
<1>11. ASSUME NEW i \in 1..m PROVE Upto(wire', n + i) = Upto(wire, n) \cup {page[j] : j \in 1..i}
  <2>1. ASSUME NEW k \in 1..(n + i) PROVE wire'[k].event \in Upto(wire, n) \cup {page[j] : j \in 1..i}
    <3>1. CASE k \in 1..n
      BY <1>9, <3>1 DEF Upto
    <3>2. CASE k \notin 1..n
      <4>1. k - n \in 1..i /\ k - n \in 1..m /\ n + (k - n) = k
        BY <1>4, <3>2
      <4>2. wire'[k].event = page[k - n]
        BY <1>8, <1>9, <4>1
      <4> QED
        BY <4>1, <4>2
    <3> QED
      BY <3>1, <3>2
  <2>2. ASSUME NEW k \in 1..n PROVE wire[k].event \in Upto(wire', n + i)
    <3>1. k \in 1..(n + i) /\ wire'[k] = wire[k]
      BY <1>4, <1>9
    <3> QED
      BY <3>1 DEF Upto
  <2>3. ASSUME NEW j \in 1..i PROVE page[j] \in Upto(wire', n + i)
    <3>1. n + j \in 1..(n + i) /\ j \in 1..m
      BY <1>4
    <3>2. wire'[n + j].event = page[j]
      BY <1>8, <1>9, <3>1
    <3> QED
      BY <3>1, <3>2 DEF Upto
  <2> QED
    BY <2>1, <2>2, <2>3 DEF Upto
<1>12. \A k \in 1..(n + m) : k \in 1..n \/ \E i \in 1..m : k = n + i
  <2> TAKE k \in 1..(n + m)
  <2>1. k \in 1..n \/ (k - n \in 1..m /\ k = n + (k - n))
    BY <1>4
  <2> QED
    BY <2>1
<1>13. ASSUME NEW k \in 1..(n + m) PROVE Exact(wire[k].cursor, DOMAIN got \cup Upto(wire, k))'
  <2>1. PICK c, H : c = wire'[k].cursor /\ H = DOMAIN got \cup Upto(wire', k)
    OBVIOUS
  <2>2. CASE k \in 1..n
    <3>1. Exact(wire[k].cursor, DOMAIN got \cup Upto(wire, k))
      BY <2>2 DEF FeedInv, ChainIsExact
    <3>2. c = wire[k].cursor /\ H = DOMAIN got \cup Upto(wire, k)
      BY <1>4, <1>9, <1>10, <2>1, <2>2
    <3>3. Exact(c, H)'
      BY <1>1, <3>1, <3>2, ExactSame
    <3> QED
      BY <1>1, <2>1, <3>3 DEF Upto
  <2>3. CASE \E i \in 1..m : k = n + i
    <3>1. PICK i \in 1..m : k = n + i
      BY <2>3
    <3>2. c = MergeAfter(prev, page, i)
      BY <1>8, <1>9, <2>1, <3>1
    <3>3. H = G \cup {page[j] : j \in 1..i}
      BY <1>11, <2>1, <3>1
    <3>4. Exact(c, H)
      BY <1>7, <3>2, <3>3
    <3>5. Exact(c, H)'
      BY <1>1, <3>4, ExactSame
    <3> QED
      BY <1>1, <2>1, <3>5 DEF Upto
  <2> QED
    BY <1>12, <2>2, <2>3
<1>14. PICK last : last = MergeAfter(prev, page, m)
  OBVIOUS
<1>15. stream' = {last} /\ last \in Cursor
  <2>1. m \in 1..m
    BY <1>4
  <2> QED
    BY <1>1, <1>7, <1>14, <2>1 DEF NextCursor, Exact
<1>16. Exact(last, DOMAIN got \cup Upto(wire, Len(wire)))'
  <2>0. m \in 1..m
    BY <1>4
  <2>1. PICK H : H = DOMAIN got \cup Upto(wire', Len(wire'))
    OBVIOUS
  <2>2. H = G \cup {page[j] : j \in 1..m}
    BY <1>9, <1>11, <2>0, <2>1
  <2>3. Exact(last, H)
    BY <1>7, <1>14, <2>0, <2>2
  <2>4. Exact(last, H)'
    BY <1>1, <2>3, ExactSame
  <2> QED
    BY <1>1, <2>1, <2>4 DEF Upto
<1>17. ChainIsExact'
  <2>1. ASSUME NEW c \in client' PROVE Exact(c, DOMAIN got)'
    <3>1. Exact(c, DOMAIN got)
      BY <1>1 DEF FeedInv, ChainIsExact
    <3> QED
      BY <1>1, <3>1, ExactSame
  <2>2. \A k \in 1..Len(wire') : k \in 1..(n + m)
    BY <1>9
  <2> QED
    BY <1>13, <1>15, <1>16, <2>1, <2>2 DEF ChainIsExact
<1>18. NothingTwice'
  <2>1. \A k \in 1..n : wire'[k].event = wire[k].event /\ wire[k].event \in G
    BY <1>9 DEF Upto
  <2>2. \A i \in 1..m : wire'[n + i].event = page[i]
    BY <1>8, <1>9
  <2>3. /\ DOMAIN got \subseteq FeedEvent /\ \A e \in DOMAIN got : got[e] = 1
        /\ \A k \in 1..n : wire[k].event \notin DOMAIN got
        /\ \A j, k \in 1..n : j # k => wire[j].event # wire[k].event
    BY DEF FeedInv, NothingTwice
  <2>4. ASSUME NEW k \in 1..(n + m) PROVE wire'[k].event \notin DOMAIN got
    <3>1. CASE k \in 1..n
      BY <2>1, <2>3, <3>1
    <3>2. CASE \E i \in 1..m : k = n + i
      BY <1>5, <2>2, <3>2
    <3> QED
      BY <1>12, <3>1, <3>2
  <2>5. ASSUME NEW j \in 1..(n + m), NEW k \in 1..(n + m), j # k PROVE wire'[j].event # wire'[k].event
    <3>1. CASE j \in 1..n /\ k \in 1..n
      BY <2>1, <2>3, <2>5, <3>1
    <3>2. CASE j \in 1..n /\ k \notin 1..n
      <4>1. PICK l \in 1..m : k = n + l
        BY <1>12, <3>2
      <4>2. wire'[k].event = page[l] /\ page[l] \notin G /\ wire'[j].event \in G
        BY <1>5, <2>1, <2>2, <3>2, <4>1
      <4> QED
        BY <4>2
    <3>3. CASE j \notin 1..n /\ k \in 1..n
      <4>1. PICK l \in 1..m : j = n + l
        BY <1>12, <3>3
      <4>2. wire'[j].event = page[l] /\ page[l] \notin G /\ wire'[k].event \in G
        BY <1>5, <2>1, <2>2, <3>3, <4>1
      <4> QED
        BY <4>2
    <3>4. CASE j \notin 1..n /\ k \notin 1..n
      <4>1. PICK i \in 1..m, l \in 1..m : j = n + i /\ k = n + l
        BY <1>12, <3>4
      <4> QED
        BY <1>6, <2>2, <2>5, <4>1
    <3> QED
      BY <3>1, <3>2, <3>3, <3>4
  <2>6. Len(wire') = n + m /\ got' = got
    BY <1>1, <1>9
  <2> HIDE DEF n, m, G
  <2> QED
    BY <2>3, <2>4, <2>5, <2>6 DEF NothingTwice
<1>19. StreamTyped'
  <2>1. client' = client /\ base' = base
    BY <1>1
  <2> QED
    BY <1>2, <1>9, <1>15, <2>1 DEF FeedInv, StreamTyped
<1> QED
  BY <1>1, <1>2, <1>17, <1>18, <1>19, FilesSame DEF FeedInv

-----------------------------------------------------------------------------

LEMMA FeedStarts == FeedConstants /\ FeedInit => FeedInv
<1> SUFFICES ASSUME FeedConstants, FeedInit PROVE FeedInv
  OBVIOUS
<1>1. FilesTyped
  BY DEF FeedInit, FilesTyped, FeedConstants, Stamped
<1>2. CurrentCursor \in Cursor
  BY <1>1, CurrentIs
<1>3. stream = {} /\ client = {} /\ wire = <<>> /\ Len(wire) = 0 /\ got = <<>> /\ DOMAIN got = {}
  BY DEF FeedInit
<1>4. StreamTyped
  BY <1>2, <1>3 DEF FeedInit, StreamTyped
<1>5. \A k \in 1..Len(wire) : FALSE
  BY <1>3
<1> QED
  BY <1>1, <1>3, <1>4, <1>5 DEF FeedInv, ChainIsExact, NothingTwice

LEMMA FeedKeeps == FeedConstants /\ FeedInv /\ [FeedNext]_feedVars => FeedInv'
<1> SUFFICES ASSUME FeedConstants, FeedInv, [FeedNext]_feedVars PROVE FeedInv'
  OBVIOUS
<1>1. CASE FileStep
  BY <1>1, FilesStep, ClientStays DEF FeedInv
<1>2. CASE Connect
  BY <1>2, ConnectStep
<1>3. CASE StreamPoll
  BY <1>3, StreamPollStep
<1>4. CASE Receive
  BY <1>4, ReceiveStep
<1>5. CASE Drop
  BY <1>5, DropStep
<1>6. CASE PagePoll
  BY <1>6, PagePollStep
<1>7. CASE UNCHANGED feedVars
  <2>1. UNCHANGED <<fileVars, base>> /\ UNCHANGED clientVars
    BY <1>7 DEF feedVars, fileVars, clientVars
  <2>2. FilesTyped'
    BY <2>1, FilesSame DEF FeedInv, fileVars
  <2>3. StreamTyped' /\ NothingTwice'
    BY <2>1 DEF FeedInv, StreamTyped, NothingTwice, clientVars
  <2>4. ChainIsExact'
    <3>1. \A c, G : Exact(c, G) => Exact(c, G)'
      BY <2>1, ExactSame
    <3>2. wire' = wire /\ got' = got /\ stream' = stream /\ client' = client
      BY <2>1 DEF clientVars
    <3>3. ASSUME NEW c \in client' PROVE Exact(c, DOMAIN got)'
      BY <3>1, <3>2 DEF FeedInv, ChainIsExact
    <3>4. ASSUME NEW k \in 1..Len(wire') PROVE Exact(wire[k].cursor, DOMAIN got \cup Upto(wire, k))'
      BY <3>1, <3>2 DEF FeedInv, ChainIsExact, Upto
    <3>5. ASSUME NEW c \in stream' PROVE Exact(c, DOMAIN got \cup Upto(wire, Len(wire)))'
      BY <3>1, <3>2 DEF FeedInv, ChainIsExact, Upto
    <3> QED
      BY <3>3, <3>4, <3>5 DEF ChainIsExact
  <2> QED
    BY <2>2, <2>3, <2>4 DEF FeedInv
<1> QED
  BY <1>1, <1>2, <1>3, <1>4, <1>5, <1>6, <1>7 DEF FeedNext, FileStep

LEMMA FeedMeets == FeedConstants /\ FeedInv => FeedIsExact
<1> SUFFICES ASSUME FeedConstants, FeedInv PROVE FeedIsExact
  OBVIOUS
<1>1. ASSUME NEW S, \A a, b \in S : a = b PROVE Cardinality(S) <= 1
  <2>1. CASE S = {}
    BY <2>1, FS_EmptySet
  <2>2. CASE S # {}
    <3>1. PICK a \in S : S = {a}
      BY <1>1, <2>2
    <3>2. Cardinality({a}) = 1
      BY FS_Singleton, Zenon
    <3> QED
      BY <3>1, <3>2
  <2> QED
    BY <2>1, <2>2
<1>2. FeedTypeOK
  <2>1. Cardinality(stream) <= 1 /\ Cardinality(client) <= 1 /\ Cardinality(pendingFile) <= 1
    BY <1>1 DEF FeedInv, StreamTyped, FilesTyped
  <2> QED
    BY <2>1 DEF FeedTypeOK, FeedInv, StreamTyped, FilesTyped
<1>3. FeedComplete
  BY DEF FeedInv, ChainIsExact, Exact, FeedComplete
<1>4. FeedOnce
  BY DEF FeedInv, NothingTwice, FeedOnce
<1> QED
  BY <1>2, <1>3, <1>4 DEF FeedIsExact

(* What a client's cursor has passed it has received, over every loss of   *)
(* the connection, but for a message appended after one stamped later; and *)
(* nothing reaches it twice (read_events, stream_events), for any number   *)
(* of workers and messages and any limit of a page.                        *)
THEOREM EventsReachTheClient == FeedSpec => []FeedIsExact
<1>1. FeedInit => FeedInv
  BY FeedConstants, FeedStarts
<1>2. FeedInv /\ [FeedNext]_feedVars => FeedInv'
  BY FeedConstants, FeedKeeps
<1>3. FeedInv => FeedIsExact
  BY FeedConstants, FeedMeets
<1> QED
  BY <1>1, <1>2, <1>3, PTL DEF FeedSpec

-----------------------------------------------------------------------------
(* The turns of a conversation.  Recursive functions: what holds of 0 and  *)
(* of a successor holds of every number, as a fact about sets.             *)
LEMMA NatsFrom ==
  ASSUME NEW S, 0 \in S, \A n \in Nat : n \in S => n + 1 \in S
  PROVE  \A n \in Nat : n \in S
<1> SUFFICES ASSUME NEW k \in Nat, k \notin S PROVE FALSE
  OBVIOUS
<1> DEFINE T == {n \in Nat : n \notin S}
<1>1. T \subseteq Nat /\ T # {}
  OBVIOUS
<1>2. PICK x \in T : \A y \in T : ~ (<<y, x>> \in OpToRel(<, Nat))
  <2> HIDE DEF T
  <2> QED
    BY WFMin, NatLessThanWellFounded, <1>1, Zenon
<1>3. \A y \in T : ~ (y < x)
  BY <1>2, <1>1, Zenon DEF OpToRel
<1>4. x # 0 /\ x \in Nat /\ x \notin S
  OBVIOUS
<1>5. x - 1 \in Nat /\ x - 1 < x
  BY <1>4
<1>6. x - 1 \in S
  BY <1>3, <1>5
<1> QED
  BY <1>4, <1>5, <1>6

(* A function on 0..n whose values are each made from the one before.      *)
Recursion(f, n, V, v0, step) ==
  f \in [0..n -> V] /\ f[0] = v0 /\ \A d \in 1..n : f[d] = step[d][f[d - 1]]

LEMMA RecursionExists ==
  ASSUME NEW n \in Nat, NEW V, NEW v0 \in V, NEW step \in [1..n -> [V -> V]]
  PROVE  \E f : Recursion(f, n, V, v0, step)
<1> DEFINE Follows(f, k) == f[0] = v0 /\ \A d \in 1..k : f[d] = step[d][f[d - 1]]
           S == {k \in Nat : k <= n => \E f \in [0..k -> V] : Follows(f, k)}
<1>1. 0 \in S
  <2>1. [d \in 0..0 |-> v0] \in [0..0 -> V] /\ Follows([d \in 0..0 |-> v0], 0)
    OBVIOUS
  <2> QED
    BY <2>1
<1>2. ASSUME NEW k \in Nat, k \in S PROVE k + 1 \in S
  <2> SUFFICES ASSUME k + 1 <= n PROVE \E f \in [0..k + 1 -> V] : Follows(f, k + 1)
    OBVIOUS
  <2>1. PICK f \in [0..k -> V] : Follows(f, k)
    BY <1>2
  <2> DEFINE g == [d \in 0..k + 1 |-> IF d = k + 1 THEN step[k + 1][f[k]] ELSE f[d]]
  <2>2. step[k + 1][f[k]] \in V
    OBVIOUS
  <2>3. g \in [0..k + 1 -> V]
    BY <2>2
  <2>4. ASSUME NEW d \in 1..k + 1 PROVE g[d] = step[d][g[d - 1]]
    <3>1. CASE d = k + 1
      <4>1. g[d] = step[k + 1][f[k]] /\ g[d - 1] = f[k]
        BY <3>1
      <4> QED
        BY <3>1, <4>1
    <3>2. CASE d # k + 1
      <4>1. d \in 1..k /\ g[d] = f[d]
        BY <3>2
      <4>2. g[d - 1] = f[d - 1]
        BY <3>2
      <4> QED
        BY <2>1, <4>1, <4>2
    <3> QED
      BY <3>1, <3>2
  <2>5. g[0] = v0
    BY <2>1
  <2> QED
    BY <2>3, <2>4, <2>5
<1>3. n \in S
  <2> HIDE DEF S
  <2> QED
    BY <1>1, <1>2, NatsFrom
<1> QED
  BY <1>3 DEF Recursion

(* What is shown after k items of the log: each but blank text once, among *)
(* the set-up that is held back or in one rendered item, in order.         *)
ViewTypes == {"session_setup", "user_prompt", "thinking", "system", "text", "tool_call"}
Rendering == [type : ViewTypes, of : Seq(Nat), result : Nat]
View == [out : Seq(Rendering), pending : [Tools -> Nat], setup : Seq(Nat)]

Held(setup, m) == \E j \in 1..Len(setup) : setup[j] = m

Once(out, setup, m) ==
  \/ Held(setup, m) /\ \A i \in 1..Len(out) : m \notin Sources(out[i])
  \/ /\ ~Held(setup, m)
     /\ \E i \in 1..Len(out) : m \in Sources(out[i]) /\ \A j \in 1..Len(out) : j # i => m \notin Sources(out[j])

Layout(out, setup, k) ==
  /\ out \in Seq(Rendering) /\ setup \in Seq(Nat)
  /\ \A j \in 1..Len(setup) : setup[j] \in 1..k
  /\ \A i \in 1..Len(out) : Sources(out[i]) \subseteq 1..k
  /\ \A m \in 1..k : items[m].kind # "blank" => Once(out, setup, m)
  /\ \A i, j \in 1..Len(out) : i < j => \A a \in ToSet(out[i].of), b \in Sources(out[j]) : a < b
  /\ \A i \in 1..Len(out) : \A a \in ToSet(out[i].of), b \in Nat : Held(setup, b) => a < b

(* more is out with r behind it.                                           *)
Adds(more, out, r) ==
  /\ more \in Seq(Rendering) /\ r \in Rendering
  /\ Len(out) \in Nat /\ Len(more) = Len(out) + 1 /\ more[Len(out) + 1] = r
  /\ \A i \in 1..Len(out) : more[i] = out[i]

LEMMA AppendAdds ==
  ASSUME NEW out \in Seq(Rendering), NEW r \in Rendering
  PROVE  Adds(Append(out, r), out, r)
<1> DEFINE S == Rendering
<1> HIDE DEF S
<1>1. /\ Append(out, r) \in Seq(S) /\ Len(Append(out, r)) = Len(out) + 1
      /\ \A i \in 1..Len(out) : Append(out, r)[i] = out[i]
      /\ Append(out, r)[Len(out) + 1] = r
  BY AppendProperties DEF S
<1>2. Len(out) \in Nat
  BY LenProperties
<1> QED BY <1>1, <1>2 DEF Adds, S

LEMMA SourcesOf ==
  ASSUME NEW type \in ViewTypes, NEW of \in Seq(Nat), NEW result \in Nat, NEW r, r = Rendered(type, of, result)
  PROVE  /\ r \in Rendering /\ r.type = type /\ r.of = of /\ r.result = result
         /\ \A m : m \in Sources(r) <=> m \in ToSet(of) \/ (result # 0 /\ m = result)
BY DEF Rendered, Rendering, Sources

LEMMA SetOfNone == ToSet(<<>>) = {}
BY DEF ToSet

LEMMA SetOfOne == ASSUME NEW x PROVE ToSet(<<x>>) = {x}
BY DEF ToSet

LEMMA LayoutStarts == Layout(<<>>, <<>>, 0)
<1>1. <<>> \in Seq(Rendering) /\ <<>> \in Seq(Nat) /\ Len(<<>>) = 0
  OBVIOUS
<1> QED BY <1>1 DEF Layout

(* The set-up that was held back becomes one rendered item.                *)
LEMMA FlushKeepsLayout ==
  ASSUME NEW out, NEW setup, NEW k \in Nat, Layout(out, setup, k), NEW more, NEW r,
         Adds(more, out, r), Sources(r) = ToSet(setup)
  PROVE  Layout(more, <<>>, k)
<1> DEFINE n == Len(out)
<1>1. /\ out \in Seq(Rendering) /\ setup \in Seq(Nat)
      /\ \A j \in 1..Len(setup) : setup[j] \in 1..k
      /\ \A i \in 1..n : Sources(out[i]) \subseteq 1..k
      /\ \A m \in 1..k : items[m].kind # "blank" => Once(out, setup, m)
      /\ \A i, j \in 1..n : i < j => \A a \in ToSet(out[i].of), b \in Sources(out[j]) : a < b
      /\ \A i \in 1..n : \A a \in ToSet(out[i].of), b \in Nat : Held(setup, b) => a < b
  BY DEF Layout
<1>2. /\ more \in Seq(Rendering) /\ n \in Nat /\ Len(more) = n + 1 /\ more[n + 1] = r
      /\ \A i \in 1..n : more[i] = out[i]
  BY DEF Adds
<1>3. <<>> \in Seq(Nat) /\ \A m : ~Held(<<>>, m)
  BY DEF Held
<1>4. \A m : m \in Sources(r) <=> Held(setup, m)
  <2>1. DOMAIN setup = 1..Len(setup)
    BY <1>1
  <2> QED BY <2>1 DEF Held, ToSet
<1> HIDE DEF n
<1>5. \A j \in 1..n + 1 : j # n + 1 => j \in 1..n
  BY <1>2
<1>6. \A j \in 1..n : j \in 1..n + 1 /\ j # n + 1 /\ j < n + 1
  BY <1>2
<1>7. \A i \in 1..n + 1 : Sources(more[i]) \subseteq 1..k
  <2> TAKE i \in 1..n + 1
  <2>1. CASE i = n + 1
    <3>1. \A m \in Sources(r) : m \in 1..k
      BY <1>1, <1>4 DEF Held
    <3> QED BY <3>1, <2>1, <1>2
  <2>2. CASE i # n + 1
    BY <2>2, <1>1, <1>2, <1>5
  <2> QED BY <2>1, <2>2
<1>8. ASSUME NEW m \in 1..k, items[m].kind # "blank" PROVE Once(more, <<>>, m)
  <2>1. CASE Held(setup, m) /\ \A i \in 1..n : m \notin Sources(out[i])
    <3>1. m \in Sources(more[n + 1]) /\ n + 1 \in 1..n + 1
      BY <2>1, <1>2, <1>4
    <3>2. \A j \in 1..n + 1 : j # n + 1 => m \notin Sources(more[j])
      BY <2>1, <1>2, <1>5
    <3> QED BY <3>1, <3>2, <1>2, <1>3 DEF Once
  <2>2. CASE ~Held(setup, m) /\ \E i \in 1..n : m \in Sources(out[i])
                                   /\ \A j \in 1..n : j # i => m \notin Sources(out[j])
    <3>1. PICK i \in 1..n : m \in Sources(out[i]) /\ \A j \in 1..n : j # i => m \notin Sources(out[j])
      BY <2>2
    <3>2. m \in Sources(more[i]) /\ i \in 1..n + 1
      BY <3>1, <1>2, <1>6
    <3>3. ASSUME NEW j \in 1..n + 1, j # i PROVE m \notin Sources(more[j])
      <4>1. CASE j = n + 1
        BY <4>1, <2>2, <1>2, <1>4
      <4>2. CASE j # n + 1
        BY <4>2, <3>1, <3>3, <1>2, <1>5
      <4> QED BY <4>1, <4>2
    <3> QED BY <3>2, <3>3, <1>2, <1>3 DEF Once
  <2> QED BY <2>1, <2>2, <1>1, <1>8 DEF Once, n
<1>9. ASSUME NEW i \in 1..n + 1, NEW j \in 1..n + 1, i < j,
             NEW a \in ToSet(more[i].of), NEW b \in Sources(more[j])
      PROVE  a < b
  <2>1. i # n + 1 /\ i \in 1..n
    BY <1>9, <1>2
  <2>2. CASE j = n + 1
    <3>1. Held(setup, b) /\ b \in Nat
      BY <2>2, <1>1, <1>2, <1>4, <1>7
    <3> QED BY <3>1, <2>1, <1>1, <1>2
  <2>3. CASE j # n + 1
    BY <2>1, <2>3, <1>9, <1>1, <1>2, <1>5
  <2> QED BY <2>2, <2>3
<1> QED BY <1>2, <1>3, <1>7, <1>8, <1>9 DEF Layout

(* Another item is held back.                                              *)
LEMMA SetupKeepsLayout ==
  ASSUME NEW out, NEW setup, NEW k \in Nat, Layout(out, setup, k)
  PROVE  Layout(out, Append(setup, k + 1), k + 1)
<1> DEFINE n == Len(out)
           s == Append(setup, k + 1)
<1>1. /\ out \in Seq(Rendering) /\ setup \in Seq(Nat)
      /\ \A j \in 1..Len(setup) : setup[j] \in 1..k
      /\ \A i \in 1..n : Sources(out[i]) \subseteq 1..k
      /\ \A m \in 1..k : items[m].kind # "blank" => Once(out, setup, m)
      /\ \A i, j \in 1..n : i < j => \A a \in ToSet(out[i].of), b \in Sources(out[j]) : a < b
      /\ \A i \in 1..n : \A a \in ToSet(out[i].of), b \in Nat : Held(setup, b) => a < b
  BY DEF Layout
<1>2. /\ s \in Seq(Nat) /\ Len(setup) \in Nat /\ Len(s) = Len(setup) + 1 /\ s[Len(setup) + 1] = k + 1
      /\ \A i \in 1..Len(setup) : s[i] = setup[i]
  BY <1>1, AppendProperties
<1> HIDE DEF s
<1>3. \A m : Held(s, m) <=> Held(setup, m) \/ m = k + 1
  <2>1. \A j \in 1..Len(setup) + 1 : j = Len(setup) + 1 \/ j \in 1..Len(setup)
    BY <1>2
  <2>2. Len(setup) + 1 \in 1..Len(setup) + 1 /\ \A j \in 1..Len(setup) : j \in 1..Len(setup) + 1
    BY <1>2
  <2> QED BY <2>1, <2>2, <1>2 DEF Held
<1>4. \A j \in 1..Len(s) : s[j] \in 1..k + 1
  <2> TAKE j \in 1..Len(s)
  <2>1. CASE j = Len(setup) + 1
    BY <2>1, <1>2
  <2>2. CASE j # Len(setup) + 1
    <3>1. j \in 1..Len(setup)
      BY <2>2, <1>2
    <3> QED BY <3>1, <1>1, <1>2
  <2> QED BY <2>1, <2>2
<1> HIDE DEF n
<1>5. \A i \in 1..n : Sources(out[i]) \subseteq 1..k + 1 /\ k + 1 \notin Sources(out[i])
  <2>1. 1..k \subseteq 1..k + 1 /\ k + 1 \notin 1..k
    OBVIOUS
  <2>2. \A i \in 1..n : Sources(out[i]) \subseteq 1..k
    BY <1>1
  <2> QED BY <2>1, <2>2, Zenon
<1>6. ASSUME NEW m \in 1..k + 1, items[m].kind # "blank" PROVE Once(out, s, m)
  <2>1. CASE m = k + 1
    BY <2>1, <1>3, <1>5 DEF Once, n
  <2>2. CASE m # k + 1
    <3>1. m \in 1..k
      BY <2>2
    <3>2. Once(out, setup, m)
      BY <3>1, <1>6, <1>1
    <3> QED BY <3>2, <2>2, <1>3, Zenon DEF Once
  <2> QED BY <2>1, <2>2
<1>7. ASSUME NEW i \in 1..n, NEW a \in ToSet(out[i].of), NEW b \in Nat, Held(s, b) PROVE a < b
  <2>1. a \in 1..k
    BY <1>7, <1>1 DEF Sources
  <2>2. CASE b = k + 1
    BY <2>1, <2>2
  <2>3. CASE b # k + 1
    BY <2>3, <1>7, <1>3, <1>1
  <2> QED BY <2>2, <2>3
<1>8. Layout(out, s, k + 1)
  BY <1>1, <1>2, <1>4, <1>5, <1>6, <1>7 DEF Layout, n
<1> QED BY <1>8 DEF s

(* An item is shown by itself.                                             *)
LEMMA PutKeepsLayout ==
  ASSUME NEW out, NEW k \in Nat, Layout(out, <<>>, k), NEW more, NEW r,
         Adds(more, out, r), Sources(r) = {k + 1}
  PROVE  Layout(more, <<>>, k + 1)
<1> DEFINE n == Len(out)
<1>0. ToSet(r.of) \subseteq {k + 1}
  BY DEF Sources
<1>1. /\ out \in Seq(Rendering)
      /\ \A i \in 1..n : Sources(out[i]) \subseteq 1..k
      /\ \A m \in 1..k : items[m].kind # "blank" => Once(out, <<>>, m)
      /\ \A i, j \in 1..n : i < j => \A a \in ToSet(out[i].of), b \in Sources(out[j]) : a < b
  BY DEF Layout
<1>2. /\ more \in Seq(Rendering) /\ n \in Nat /\ Len(more) = n + 1 /\ more[n + 1] = r
      /\ \A i \in 1..n : more[i] = out[i]
  BY DEF Adds
<1>3. <<>> \in Seq(Nat) /\ Len(<<>>) = 0 /\ \A m : ~Held(<<>>, m)
  BY DEF Held
<1>4. \A m \in 1..k : items[m].kind # "blank" =>
        \E i \in 1..n : m \in Sources(out[i]) /\ \A j \in 1..n : j # i => m \notin Sources(out[j])
  BY <1>1, <1>3 DEF Once
<1> HIDE DEF n
<1>5. \A j \in 1..n + 1 : j # n + 1 => j \in 1..n
  BY <1>2
<1>6. \A j \in 1..n : j \in 1..n + 1 /\ j # n + 1 /\ j < n + 1
  BY <1>2
<1>7. \A i \in 1..n + 1 : Sources(more[i]) \subseteq 1..k + 1
  <2> TAKE i \in 1..n + 1
  <2>1. CASE i = n + 1
    BY <2>1, <1>2
  <2>2. CASE i # n + 1
    <3>1. Sources(more[i]) \subseteq 1..k
      BY <2>2, <1>1, <1>2, <1>5
    <3> QED BY <3>1
  <2> QED BY <2>1, <2>2
<1>8. ASSUME NEW m \in 1..k + 1, items[m].kind # "blank" PROVE Once(more, <<>>, m)
  <2>1. CASE m = k + 1
    <3>1. m \in Sources(more[n + 1]) /\ n + 1 \in 1..n + 1
      BY <2>1, <1>2
    <3>2. \A j \in 1..n + 1 : j # n + 1 => m \notin Sources(more[j])
      <4> TAKE j \in 1..n + 1
      <4> SUFFICES ASSUME j # n + 1 PROVE m \notin Sources(more[j])
        OBVIOUS
      <4>1. Sources(more[j]) \subseteq 1..k
        BY <1>1, <1>2, <1>5
      <4> QED BY <4>1, <2>1
    <3> QED BY <3>1, <3>2, <1>2, <1>3 DEF Once
  <2>2. CASE m # k + 1
    <3>0. m \in 1..k
      BY <2>2
    <3>1. PICK i \in 1..n : m \in Sources(out[i]) /\ \A j \in 1..n : j # i => m \notin Sources(out[j])
      BY <3>0, <1>8, <1>4
    <3>2. m \in Sources(more[i]) /\ i \in 1..n + 1
      BY <3>1, <1>2, <1>6
    <3>3. ASSUME NEW j \in 1..n + 1, j # i PROVE m \notin Sources(more[j])
      <4>1. CASE j = n + 1
        BY <4>1, <2>2, <1>2
      <4>2. CASE j # n + 1
        BY <4>2, <3>1, <3>3, <1>2, <1>5
      <4> QED BY <4>1, <4>2
    <3> QED BY <3>2, <3>3, <1>2, <1>3 DEF Once
  <2> QED BY <2>1, <2>2
<1>9. ASSUME NEW i \in 1..n + 1, NEW j \in 1..n + 1, i < j,
             NEW a \in ToSet(more[i].of), NEW b \in Sources(more[j])
      PROVE  a < b
  <2>1. i # n + 1 /\ i \in 1..n
    BY <1>9, <1>2
  <2>2. CASE j = n + 1
    <3>1. b = k + 1
      BY <2>2, <1>2
    <3>2. a \in 1..k
      BY <2>1, <1>1, <1>2 DEF Sources
    <3> QED BY <3>1, <3>2
  <2>3. CASE j # n + 1
    BY <2>1, <2>3, <1>9, <1>1, <1>2, <1>5
  <2> QED BY <2>2, <2>3
<1> QED BY <1>2, <1>3, <1>7, <1>8, <1>9 DEF Layout

(* A result joins a rendered item that has none.                           *)
LEMMA JoinKeepsLayout ==
  ASSUME NEW out, NEW k \in Nat, Layout(out, <<>>, k), NEW p \in 1..Len(out), out[p].result = 0
  PROVE  Layout([out EXCEPT ![p].result = k + 1], <<>>, k + 1)
<1> DEFINE n == Len(out)
           r == [out[p] EXCEPT !.result = k + 1]
           more == [out EXCEPT ![p].result = k + 1]
<1>1. /\ out \in Seq(Rendering)
      /\ \A i \in 1..n : Sources(out[i]) \subseteq 1..k
      /\ \A m \in 1..k : items[m].kind # "blank" => Once(out, <<>>, m)
      /\ \A i, j \in 1..n : i < j => \A a \in ToSet(out[i].of), b \in Sources(out[j]) : a < b
  BY DEF Layout
<1>2. n \in Nat /\ p \in 1..n /\ out[p] \in Rendering /\ DOMAIN out = 1..n
  BY <1>1
<1>3. r \in Rendering /\ r.of = out[p].of /\ r.result = k + 1
  BY <1>2 DEF Rendering
<1>4. Sources(r) = Sources(out[p]) \cup {k + 1}
  BY <1>3 DEF Sources
<1>5. more \in Seq(Rendering) /\ Len(more) = n /\ more[p] = r /\ \A i \in 1..n : i # p => more[i] = out[i]
  <2>1. more = [out EXCEPT ![p] = r]
    OBVIOUS
  <2> HIDE DEF r, more
  <2>2. more \in Seq(Rendering) /\ Len(more) = n
    BY <2>1, <1>1, <1>2, <1>3, ExceptSeq
  <2> QED BY <2>1, <2>2, <1>2
<1>6. <<>> \in Seq(Nat) /\ Len(<<>>) = 0 /\ \A m : ~Held(<<>>, m)
  BY DEF Held
<1>7. \A m \in 1..k : items[m].kind # "blank" =>
        \E i \in 1..n : m \in Sources(out[i]) /\ \A j \in 1..n : j # i => m \notin Sources(out[j])
  BY <1>1, <1>6 DEF Once
<1> HIDE DEF n, r, more
<1>8. \A i \in 1..n : more[i].of = out[i].of
  BY <1>3, <1>5
<1>9. \A i \in 1..n : Sources(more[i]) = IF i = p THEN Sources(out[i]) \cup {k + 1} ELSE Sources(out[i])
  BY <1>4, <1>5
<1>10. \A i \in 1..n : Sources(more[i]) \subseteq 1..k + 1
  <2> TAKE i \in 1..n
  <2>0. 1..k \subseteq 1..k + 1 /\ k + 1 \in 1..k + 1
    OBVIOUS
  <2>1. Sources(out[i]) \subseteq 1..k + 1
    BY <2>0, <1>1, Zenon
  <2> QED BY <2>0, <2>1, <1>9
<1>11. ASSUME NEW m \in 1..k + 1, items[m].kind # "blank" PROVE Once(more, <<>>, m)
  <2>1. CASE m = k + 1
    <3>1. m \in Sources(more[p]) /\ \A j \in 1..n : j # p => m \notin Sources(more[j])
      <4>1. \A j \in 1..n : k + 1 \notin Sources(out[j])
        BY <1>1
      <4> QED BY <4>1, <2>1, <1>2, <1>9
    <3> QED BY <3>1, <1>2, <1>5, <1>6 DEF Once
  <2>2. CASE m # k + 1
    <3>0. m \in 1..k
      BY <2>2
    <3>1. \A i \in 1..n : m \in Sources(more[i]) <=> m \in Sources(out[i])
      BY <2>2, <1>9
    <3>2. \E i \in 1..n : m \in Sources(more[i]) /\ \A j \in 1..n : j # i => m \notin Sources(more[j])
      BY <3>0, <3>1, <1>11, <1>7
    <3> QED BY <3>2, <1>5, <1>6 DEF Once
  <2> QED BY <2>1, <2>2
<1>12. ASSUME NEW i \in 1..n, NEW j \in 1..n, i < j,
              NEW a \in ToSet(more[i].of), NEW b \in Sources(more[j])
       PROVE  a < b
  <2>1. a \in ToSet(out[i].of)
    BY <1>8
  <2>2. CASE b = k + 1
    <3>1. a \in 1..k
      BY <2>1, <1>1 DEF Sources
    <3> QED BY <3>1, <2>2
  <2>3. CASE b # k + 1
    <3>1. b \in Sources(out[j])
      BY <2>3, <1>9
    <3> QED BY <2>1, <3>1, <1>12, <1>1
  <2> QED BY <2>2, <2>3
<1>13. Layout(more, <<>>, k + 1)
  BY <1>5, <1>6, <1>10, <1>11, <1>12 DEF Layout
<1> QED BY <1>13 DEF more

(* Blank text is not shown.                                                *)
LEMMA SkipKeepsLayout ==
  ASSUME NEW out, NEW k \in Nat, Layout(out, <<>>, k), items[k + 1].kind = "blank"
  PROVE  Layout(out, <<>>, k + 1)
<1>1. \A m \in 1..k + 1 : items[m].kind # "blank" => m \in 1..k
  OBVIOUS
<1>2. 1..k \subseteq 1..k + 1
  OBVIOUS
<1> QED BY <1>1, <1>2 DEF Layout

(* How results have met their calls after k items.  A call that waits has  *)
(* no result, and there was none since, nor another call with its id.      *)
Waits(r, t, k) ==
  r.type = "tool_call" /\ r.result = 0 /\ \E u \in 1..k : r.of = <<u>> /\ IsUse(u, t) /\ Quiet(u + 1, k, t)

Paired(r, k) ==
  IF r.of = <<>> THEN \A u \in 1..Len(items) : ~Answers(r.result, u)
  ELSE \E u \in 1..k : r.of = <<u>> /\ IF r.result # 0 THEN Answers(r.result, u)
                                       ELSE \A n \in 1..k : ~Answers(n, u)

Pairs(out, pending, k) ==
  /\ pending \in [Tools -> Nat]
  /\ \A t \in Tools : pending[t] # 0 => pending[t] \in 1..Len(out) /\ Waits(out[pending[t]], t, k)
  /\ \A t \in Tools : pending[t] = 0 => \A u \in 1..k : IsUse(u, t) => ~Quiet(u + 1, k, t)
  /\ \A i \in 1..Len(out) : out[i].type = "tool_call" => Paired(out[i], k)

LEMMA PairsStart == Pairs(<<>>, [t \in Tools |-> 0], 0)
<1> DEFINE p == [t \in Tools |-> 0]
<1>1. p \in [Tools -> Nat] /\ \A t \in Tools : p[t] = 0
  OBVIOUS
<1>2. Len(<<>>) = 0 /\ 1..0 = {}
  OBVIOUS
<1> HIDE DEF p
<1>3. Pairs(<<>>, p, 0)
  BY <1>1, <1>2 DEF Pairs
<1> QED BY <1>3 DEF p

LEMMA QuietOn ==
  ASSUME NEW k \in Nat, NEW u \in 1..k, NEW t
  PROVE  Quiet(u + 1, k + 1, t) <=> Quiet(u + 1, k, t) /\ ~IsUse(k + 1, t) /\ ~IsResult(k + 1, t)
<1>1. \A n : n \in u + 1..k + 1 <=> n \in u + 1..k \/ n = k + 1
  OBVIOUS
<1> QED BY <1>1 DEF Quiet

LEMMA WaitsOn ==
  ASSUME NEW k \in Nat, NEW r, NEW t, Waits(r, t, k), ~IsUse(k + 1, t), ~IsResult(k + 1, t)
  PROVE  Waits(r, t, k + 1)
<1>1. PICK u \in 1..k : r.of = <<u>> /\ IsUse(u, t) /\ Quiet(u + 1, k, t)
  BY DEF Waits
<1>2. u \in 1..k + 1 /\ Quiet(u + 1, k + 1, t)
  BY <1>1, QuietOn
<1> QED BY <1>1, <1>2 DEF Waits

LEMMA PairedOn ==
  ASSUME NEW k \in Nat, NEW r, Paired(r, k),
         r.result = 0 => \A u \in 1..k : r.of = <<u>> => ~Answers(k + 1, u)
  PROVE  Paired(r, k + 1)
<1>1. CASE r.of = <<>>
  BY <1>1 DEF Paired
<1>2. CASE r.of # <<>>
  <2>1. PICK u \in 1..k : r.of = <<u>> /\ IF r.result # 0 THEN Answers(r.result, u)
                                          ELSE \A n \in 1..k : ~Answers(n, u)
    BY <1>2 DEF Paired
  <2>2. u \in 1..k + 1 /\ \A n \in 1..k + 1 : n \in 1..k \/ n = k + 1
    OBVIOUS
  <2>3. r.result = 0 => \A n \in 1..k + 1 : ~Answers(n, u)
    BY <2>1, <2>2
  <2> QED BY <1>2, <2>1, <2>2, <2>3 DEF Paired
<1> QED BY <1>1, <1>2

(* An item that neither calls a tool nor answers one.                      *)
LEMMA PairsSkip ==
  ASSUME NEW k \in Nat, NEW out, NEW pending, Pairs(out, pending, k),
         items[k + 1].kind \notin {"tool_use", "tool_result"}
  PROVE  Pairs(out, pending, k + 1)
<1>1. \A t : ~IsUse(k + 1, t) /\ ~IsResult(k + 1, t)
  BY DEF IsUse, IsResult
<1>2. \A u : ~Answers(k + 1, u)
  BY <1>1 DEF Answers
<1>3. \A t \in Tools : pending[t] # 0 => pending[t] \in 1..Len(out) /\ Waits(out[pending[t]], t, k + 1)
  BY <1>1, WaitsOn DEF Pairs
<1>4. \A t \in Tools : pending[t] = 0 => \A u \in 1..k + 1 : IsUse(u, t) => ~Quiet(u + 1, k + 1, t)
  <2> SUFFICES ASSUME NEW t \in Tools, pending[t] = 0, NEW u \in 1..k + 1, IsUse(u, t)
               PROVE  ~Quiet(u + 1, k + 1, t)
    OBVIOUS
  <2>1. u # k + 1
    BY <1>1
  <2>2. u \in 1..k
    BY <2>1
  <2> QED BY <2>2, QuietOn DEF Pairs
<1>5. \A i \in 1..Len(out) : out[i].type = "tool_call" => Paired(out[i], k + 1)
  BY <1>2, PairedOn DEF Pairs
<1> QED BY <1>3, <1>4, <1>5 DEF Pairs

(* What is shown more is no tool call.                                     *)
LEMMA PairsAdd ==
  ASSUME NEW k \in Nat, NEW out, NEW pending, Pairs(out, pending, k),
         NEW more, NEW r, Adds(more, out, r), r.type = "tool_call" => Paired(r, k)
  PROVE  Pairs(more, pending, k)
<1> DEFINE n == Len(out)
<1>1. n \in Nat /\ Len(more) = n + 1 /\ more[n + 1] = r /\ \A i \in 1..n : more[i] = out[i]
  BY DEF Adds
<1>2. /\ \A t \in Tools : pending[t] # 0 => pending[t] \in 1..n /\ Waits(out[pending[t]], t, k)
      /\ \A i \in 1..n : out[i].type = "tool_call" => Paired(out[i], k)
  BY DEF Pairs
<1> HIDE DEF n
<1>3. \A t \in Tools : pending[t] # 0 => pending[t] \in 1..n + 1 /\ Waits(more[pending[t]], t, k)
  <2>1. 1..n \subseteq 1..n + 1
    BY <1>1
  <2> QED BY <2>1, <1>1, <1>2
<1>4. ASSUME NEW i \in 1..n + 1, more[i].type = "tool_call" PROVE Paired(more[i], k)
  <2>1. CASE i = n + 1
    BY <2>1, <1>1, <1>4
  <2>2. CASE i # n + 1
    <3>1. i \in 1..n
      BY <2>2, <1>1
    <3> QED BY <3>1, <1>1, <1>2, <1>4
  <2> QED BY <2>1, <2>2
<1> QED BY <1>1, <1>3, <1>4 DEF Pairs

(* A call: it waits, and one before it with its id does so no longer.      *)
LEMMA PairsUse ==
  ASSUME NEW k \in Nat, NEW out, NEW pending, Pairs(out, pending, k), items[k + 1].kind = "tool_use",
         NEW more, NEW r, Adds(more, out, r), r.type = "tool_call", r.of = <<k + 1>>, r.result = 0,
         NEW pend, LET t == items[k + 1].tool
                   IN  pend = IF t \in Tools THEN [pending EXCEPT ![t] = Len(out) + 1] ELSE pending
  PROVE  Pairs(more, pend, k + 1)
<1> DEFINE n == Len(out)
           c == items[k + 1].tool
<1>1. n \in Nat /\ Len(more) = n + 1 /\ more[n + 1] = r /\ \A i \in 1..n : more[i] = out[i]
  BY DEF Adds
<1>2. /\ pending \in [Tools -> Nat]
      /\ \A t \in Tools : pending[t] # 0 => pending[t] \in 1..n /\ Waits(out[pending[t]], t, k)
      /\ \A t \in Tools : pending[t] = 0 => \A u \in 1..k : IsUse(u, t) => ~Quiet(u + 1, k, t)
      /\ \A i \in 1..n : out[i].type = "tool_call" => Paired(out[i], k)
  BY DEF Pairs
<1>3. \A t : (IsUse(k + 1, t) <=> t = c) /\ ~IsResult(k + 1, t)
  BY DEF IsUse, IsResult
<1>4. \A u : ~Answers(k + 1, u)
  BY <1>3 DEF Answers
<1>5. pend = IF c \in Tools THEN [pending EXCEPT ![c] = n + 1] ELSE pending
  OBVIOUS
<1> HIDE DEF n, c
<1>6. pend \in [Tools -> Nat] /\ \A t \in Tools : pend[t] = IF t = c THEN n + 1 ELSE pending[t]
  BY <1>1, <1>2, <1>5
<1>7. ASSUME NEW t \in Tools, pend[t] # 0
      PROVE  pend[t] \in 1..n + 1 /\ Waits(more[pend[t]], t, k + 1)
  <2>1. CASE t = c
    <3>1. pend[t] = n + 1 /\ n + 1 \in 1..n + 1
      BY <2>1, <1>1, <1>6
    <3>2. Quiet((k + 1) + 1, k + 1, t)
      BY DEF Quiet
    <3>3. k + 1 \in 1..k + 1 /\ IsUse(k + 1, t)
      BY <2>1, <1>3
    <3> QED BY <3>1, <3>2, <3>3, <1>1 DEF Waits
  <2>2. CASE t # c
    <3>1. pend[t] = pending[t] /\ pending[t] \in 1..n /\ Waits(out[pending[t]], t, k)
      BY <2>2, <1>2, <1>6, <1>7
    <3>2. pending[t] \in 1..n + 1 /\ more[pending[t]] = out[pending[t]]
      BY <3>1, <1>1
    <3>3. Waits(out[pending[t]], t, k + 1)
      BY <3>1, <2>2, <1>3, WaitsOn
    <3> QED BY <3>1, <3>2, <3>3
  <2> QED BY <2>1, <2>2
<1>8. ASSUME NEW t \in Tools, pend[t] = 0, NEW u \in 1..k + 1, IsUse(u, t)
      PROVE  ~Quiet(u + 1, k + 1, t)
  <2>1. t # c /\ pending[t] = 0
    BY <1>1, <1>6, <1>8
  <2>2. u # k + 1
    BY <2>1, <1>3, <1>8
  <2>3. u \in 1..k
    BY <2>2
  <2> QED BY <2>1, <2>3, <1>2, <1>8, QuietOn
<1>9. Paired(r, k + 1)
  <2>1. k + 1 \in 1..k + 1 /\ r.of # <<>>
    OBVIOUS
  <2>2. \A m \in 1..k + 1 : ~Answers(m, k + 1)
    BY DEF Answers
  <2> QED BY <2>1, <2>2 DEF Paired
<1>10. ASSUME NEW i \in 1..n + 1, more[i].type = "tool_call" PROVE Paired(more[i], k + 1)
  <2>1. CASE i = n + 1
    BY <2>1, <1>1, <1>9
  <2>2. CASE i # n + 1
    <3>1. i \in 1..n
      BY <2>2, <1>1
    <3>2. Paired(out[i], k) /\ more[i] = out[i]
      BY <3>1, <1>1, <1>2, <1>10
    <3> QED BY <3>2, <1>4, PairedOn
  <2> QED BY <2>1, <2>2
<1> QED BY <1>1, <1>6, <1>7, <1>8, <1>10 DEF Pairs

(* A result nobody waits for.                                              *)
LEMMA PairsAlone ==
  ASSUME NEW k \in Nat, NEW out, NEW pending, Pairs(out, pending, k), items[k + 1].kind = "tool_result",
         items[k + 1].tool \in Tools => pending[items[k + 1].tool] = 0,
         NEW more, NEW r, Adds(more, out, r), r.type = "tool_call", r.of = <<>>, r.result = k + 1
  PROVE  Pairs(more, pending, k + 1)
<1> DEFINE n == Len(out)
           c == items[k + 1].tool
<1>1. n \in Nat /\ Len(more) = n + 1 /\ more[n + 1] = r /\ \A i \in 1..n : more[i] = out[i]
  BY DEF Adds
<1>2. /\ pending \in [Tools -> Nat]
      /\ \A t \in Tools : pending[t] # 0 => pending[t] \in 1..n /\ Waits(out[pending[t]], t, k)
      /\ \A t \in Tools : pending[t] = 0 => \A u \in 1..k : IsUse(u, t) => ~Quiet(u + 1, k, t)
      /\ \A i \in 1..n : out[i].type = "tool_call" => Paired(out[i], k)
  BY DEF Pairs
<1>3. \A t : (IsResult(k + 1, t) <=> t = c) /\ ~IsUse(k + 1, t)
  BY DEF IsUse, IsResult
<1>4. \A u \in 1..Len(items) : ~Answers(k + 1, u)
  <2> SUFFICES ASSUME NEW u \in 1..Len(items), NEW t \in Tools, IsUse(u, t), IsResult(k + 1, t), u < k + 1,
                      Quiet(u + 1, (k + 1) - 1, t)
               PROVE  FALSE
    BY DEF Answers
  <2>1. t = c /\ u \in 1..k /\ (k + 1) - 1 = k
    BY <1>3
  <2> QED BY <2>1, <1>2
<1>5. \A u \in 1..k : ~Answers(k + 1, u)
  <2> SUFFICES ASSUME NEW u \in 1..k, NEW t \in Tools, IsUse(u, t), IsResult(k + 1, t),
                      Quiet(u + 1, (k + 1) - 1, t)
               PROVE  FALSE
    BY DEF Answers
  <2>1. t = c /\ (k + 1) - 1 = k
    BY <1>3
  <2> QED BY <2>1, <1>2
<1> HIDE DEF n, c
<1>6. ASSUME NEW t \in Tools, pending[t] # 0
      PROVE  pending[t] \in 1..n + 1 /\ Waits(more[pending[t]], t, k + 1)
  <2>1. t # c
    BY <1>6 DEF c
  <2>2. pending[t] \in 1..n /\ Waits(out[pending[t]], t, k)
    BY <1>2, <1>6
  <2>3. pending[t] \in 1..n + 1 /\ more[pending[t]] = out[pending[t]]
    BY <2>2, <1>1
  <2> QED BY <2>1, <2>2, <2>3, <1>3, WaitsOn
<1>7. ASSUME NEW t \in Tools, pending[t] = 0, NEW u \in 1..k + 1, IsUse(u, t)
      PROVE  ~Quiet(u + 1, k + 1, t)
  <2>1. u # k + 1
    BY <1>3, <1>7
  <2>2. u \in 1..k
    BY <2>1
  <2> QED BY <2>2, <1>2, <1>7, QuietOn
<1>8. Paired(r, k + 1)
  BY <1>4 DEF Paired
<1>9. ASSUME NEW i \in 1..n + 1, more[i].type = "tool_call" PROVE Paired(more[i], k + 1)
  <2>1. CASE i = n + 1
    BY <2>1, <1>1, <1>8
  <2>2. CASE i # n + 1
    <3>1. i \in 1..n
      BY <2>2, <1>1
    <3>2. Paired(out[i], k) /\ more[i] = out[i]
      BY <3>1, <1>1, <1>2, <1>9
    <3> QED BY <3>2, <1>5, PairedOn
  <2> QED BY <2>1, <2>2
<1> QED BY <1>1, <1>2, <1>6, <1>7, <1>9 DEF Pairs

(* Two calls with an id cannot both be the last one.                       *)
LEMMA LastCallIsOne ==
  ASSUME NEW k \in Nat, NEW t, NEW u \in 1..k, NEW v \in 1..k, IsUse(u, t), IsUse(v, t),
         Quiet(u + 1, k, t), Quiet(v + 1, k, t)
  PROVE  u = v
<1>1. ~ (u < v)
  <2> SUFFICES ASSUME u < v PROVE FALSE
    OBVIOUS
  <2>1. v \in u + 1..k
    OBVIOUS
  <2> QED BY <2>1 DEF Quiet
<1>2. ~ (v < u)
  <2> SUFFICES ASSUME v < u PROVE FALSE
    OBVIOUS
  <2>1. u \in v + 1..k
    OBVIOUS
  <2> QED BY <2>1 DEF Quiet
<1> QED BY <1>1, <1>2

(* A result of a call that waits for it.                                   *)
LEMMA PairsJoin ==
  ASSUME NEW k \in Nat, NEW out, NEW pending, Pairs(out, pending, k), Layout(out, <<>>, k),
         items[k + 1].kind = "tool_result",
         NEW c \in Tools, c = items[k + 1].tool, pending[c] # 0
  PROVE  Pairs([out EXCEPT ![pending[c]].result = k + 1], [pending EXCEPT ![c] = 0], k + 1)
<1> DEFINE n == Len(out)
           p == pending[c]
           r == [out[p] EXCEPT !.result = k + 1]
           more == [out EXCEPT ![p].result = k + 1]
           pend == [pending EXCEPT ![c] = 0]
<1>1. /\ pending \in [Tools -> Nat]
      /\ \A t \in Tools : pending[t] # 0 => pending[t] \in 1..n /\ Waits(out[pending[t]], t, k)
      /\ \A t \in Tools : pending[t] = 0 => \A u \in 1..k : IsUse(u, t) => ~Quiet(u + 1, k, t)
      /\ \A i \in 1..n : out[i].type = "tool_call" => Paired(out[i], k)
  BY DEF Pairs
<1>2. out \in Seq(Rendering) /\ n \in Nat /\ p \in 1..n /\ out[p] \in Rendering /\ DOMAIN out = 1..n
  BY <1>1 DEF Layout
<1>3. r \in Rendering /\ r.of = out[p].of /\ r.result = k + 1 /\ r.type = out[p].type
  <2> DEFINE old == out[p]
  <2>1. old \in [type : ViewTypes, of : Seq(Nat), result : Nat] /\ k + 1 \in Nat
    BY <1>2 DEF Rendering
  <2> HIDE DEF old, p
  <2> QED BY <2>1 DEF Rendering, old
<1>4. more \in Seq(Rendering) /\ Len(more) = n /\ more[p] = r /\ \A i \in 1..n : i # p => more[i] = out[i]
  <2>1. more = [out EXCEPT ![p] = r]
    OBVIOUS
  <2> HIDE DEF r, more
  <2>2. more \in Seq(Rendering) /\ Len(more) = n
    BY <2>1, <1>2, <1>3, ExceptSeq
  <2> QED BY <2>1, <2>2, <1>2
<1>5. pend \in [Tools -> Nat] /\ \A t \in Tools : pend[t] = IF t = c THEN 0 ELSE pending[t]
  BY <1>1
<1>6. \A t : (IsResult(k + 1, t) <=> t = c) /\ ~IsUse(k + 1, t)
  BY DEF IsUse, IsResult
<1>7. PICK u \in 1..k : out[p].of = <<u>> /\ IsUse(u, c) /\ Quiet(u + 1, k, c)
  BY <1>1 DEF Waits
<1>8. out[p].type = "tool_call"
  BY <1>1 DEF Waits
<1>9. \A i \in 1..n : i # p => out[i].of # <<u>>
  <2> SUFFICES ASSUME NEW i \in 1..n, i # p, out[i].of = <<u>> PROVE FALSE
    OBVIOUS
  <2>1. u \in Sources(out[i]) /\ u \in Sources(out[p])
    <3>1. u \in ToSet(<<u>>)
      BY DEF ToSet
    <3> QED BY <3>1, <1>7 DEF Sources
  <2>2. Once(out, <<>>, u)
    BY <1>7 DEF Layout, IsUse
  <2>3. ~Held(<<>>, u)
    BY DEF Held
  <2>4. PICK j \in 1..n : \A m \in 1..n : m # j => u \notin Sources(out[m])
    BY <2>2, <2>3 DEF Once
  <2> QED BY <2>1, <2>4, <1>2
<1>10. \A v \in 1..k : Answers(k + 1, v) => v = u
  <2> SUFFICES ASSUME NEW v \in 1..k, NEW t \in Tools, IsUse(v, t), IsResult(k + 1, t),
                      Quiet(v + 1, (k + 1) - 1, t)
               PROVE  v = u
    BY DEF Answers
  <2>1. t = c /\ (k + 1) - 1 = k
    BY <1>6
  <2> QED BY <2>1, <1>7, LastCallIsOne
<1> HIDE DEF n, p, r, more, pend
<1>11. ASSUME NEW t \in Tools, pend[t] # 0
       PROVE  pend[t] \in 1..n /\ Waits(more[pend[t]], t, k + 1)
  <2>1. t # c /\ pend[t] = pending[t]
    BY <1>5, <1>11
  <2>2. pending[t] \in 1..n /\ Waits(out[pending[t]], t, k)
    BY <2>1, <1>1, <1>11
  <2>3. pending[t] # p
    <3> SUFFICES ASSUME pending[t] = p PROVE FALSE
      OBVIOUS
    <3>1. PICK v \in 1..k : out[p].of = <<v>> /\ IsUse(v, t)
      BY <2>2 DEF Waits
    <3>2. v = u
      BY <3>1, <1>7
    <3> QED BY <3>1, <3>2, <2>1, <1>7 DEF IsUse
  <2>4. Waits(out[pending[t]], t, k + 1)
    BY <2>1, <2>2, <1>6, WaitsOn
  <2> QED BY <2>1, <2>2, <2>3, <2>4, <1>4
<1>12. ASSUME NEW t \in Tools, pend[t] = 0, NEW v \in 1..k + 1, IsUse(v, t)
       PROVE  ~Quiet(v + 1, k + 1, t)
  <2>1. v # k + 1
    BY <1>6, <1>12
  <2>2. v \in 1..k
    BY <2>1
  <2>3. CASE t = c
    BY <2>2, <2>3, <1>6, QuietOn
  <2>4. CASE t # c
    BY <2>2, <2>4, <1>1, <1>5, <1>12, QuietOn
  <2> QED BY <2>3, <2>4
<1>13. ASSUME NEW i \in 1..n, more[i].type = "tool_call" PROVE Paired(more[i], k + 1)
  <2>1. CASE i = p
    <3>1. Answers(k + 1, u)
      <4>1. (k + 1) - 1 = k /\ u < k + 1
        OBVIOUS
      <4> QED BY <4>1, <1>6, <1>7 DEF Answers
    <3>2. u \in 1..k + 1 /\ k + 1 # 0 /\ <<u>> # <<>>
      OBVIOUS
    <3> QED BY <3>1, <3>2, <2>1, <1>3, <1>4, <1>7 DEF Paired
  <2>2. CASE i # p
    <3>1. more[i] = out[i] /\ Paired(out[i], k)
      BY <2>2, <1>1, <1>4, <1>13
    <3>2. \A v \in 1..k : out[i].of = <<v>> => ~Answers(k + 1, v)
      BY <2>2, <1>9, <1>10
    <3> QED BY <3>1, <3>2, PairedOn
  <2> QED BY <2>1, <2>2
<1>14. Pairs(more, pend, k + 1)
  BY <1>4, <1>5, <1>11, <1>12, <1>13 DEF Pairs
<1> QED BY <1>14 DEF more, pend, p

(* Everything that holds of what is shown after k items.                   *)
Viewed(s, k) == s \in View /\ Layout(s.out, s.setup, k) /\ Pairs(s.out, s.pending, k)

LEMMA NothingViewed == Viewed(NothingShown, 0)
<1>1. NothingShown \in View
  BY DEF NothingShown, View
<1> QED BY <1>1, LayoutStarts, PairsStart DEF Viewed, NothingShown

LEMMA FlushViewed ==
  ASSUME NEW k \in Nat, NEW s, Viewed(s, k)
  PROVE  Viewed(FlushSetup(s), k) /\ FlushSetup(s).setup = <<>>
<1>0. s \in View /\ Layout(s.out, s.setup, k) /\ Pairs(s.out, s.pending, k)
  BY DEF Viewed
<1>1. CASE s.setup = <<>>
  BY <1>0, <1>1 DEF FlushSetup, Viewed
<1>2. CASE s.setup # <<>>
  <2> DEFINE type == IF Len(s.setup) > 1 \/ s.out = <<>> THEN "session_setup" ELSE "user_prompt"
             r == Rendered(type, s.setup, 0)
             more == Append(s.out, r)
             t == FlushSetup(s)
  <2>1. s.setup \in Seq(Nat) /\ s.out \in Seq(Rendering) /\ s.pending \in [Tools -> Nat]
    BY <1>0 DEF View
  <2>2. type \in ViewTypes /\ type # "tool_call"
    BY DEF ViewTypes
  <2>3. r \in Rendering /\ r.type = type /\ Sources(r) = ToSet(s.setup)
    <3>1. r = Rendered(type, s.setup, 0)
      OBVIOUS
    <3> HIDE DEF type, r
    <3>2. r \in Rendering /\ r.type = type /\ \A m : m \in Sources(r) <=> m \in ToSet(s.setup)
      BY <2>1, <2>2, <3>1, SourcesOf
    <3> QED BY <3>2
  <2>4. t = [s EXCEPT !.out = more, !.setup = <<>>]
    BY <1>2 DEF FlushSetup
  <2> HIDE DEF r, type
  <2>5. Adds(more, s.out, r)
    BY <2>1, <2>3, AppendAdds
  <2> HIDE DEF more, t
  <2>6. Layout(more, <<>>, k)
    BY <1>0, <2>3, <2>5, FlushKeepsLayout
  <2>7. Pairs(more, s.pending, k)
    BY <1>0, <2>2, <2>3, <2>5, PairsAdd
  <2>8. more \in Seq(Rendering) /\ <<>> \in Seq(Nat)
    BY <2>5 DEF Adds
  <2>9. t.out = more /\ t.setup = <<>> /\ t.pending = s.pending /\ t \in View
    BY <1>0, <2>4, <2>8 DEF View
  <2> QED BY <2>6, <2>7, <2>9 DEF Viewed, t
<1> QED BY <1>1, <1>2

(* An item that is shown by itself and is no tool call.                    *)
LEMMA ShowViewed ==
  ASSUME NEW k \in Nat, NEW s, Viewed(s, k), s.setup = <<>>, NEW type \in ViewTypes, type # "tool_call",
         items[k + 1].kind \notin {"tool_use", "tool_result"}
  PROVE  Viewed(Show(s, type, k + 1), k + 1)
<1> DEFINE r == Rendered(type, <<k + 1>>, 0)
           more == Append(s.out, r)
           t == Show(s, type, k + 1)
<1>0. s \in View /\ Layout(s.out, <<>>, k) /\ Pairs(s.out, s.pending, k)
  BY DEF Viewed
<1>2. r \in Rendering /\ r.type = type /\ Sources(r) = {k + 1}
  <2> DEFINE of == <<k + 1>>
  <2>1. of \in Seq(Nat) /\ r = Rendered(type, of, 0)
    OBVIOUS
  <2>2. ToSet(of) = {k + 1}
    BY SetOfOne
  <2> HIDE DEF r, of
  <2>3. r \in Rendering /\ r.type = type /\ \A m : m \in Sources(r) <=> m \in ToSet(of)
    BY <2>1, SourcesOf
  <2> QED BY <2>2, <2>3
<1>3. s.out \in Seq(Rendering)
  BY <1>0 DEF View
<1>4. t = [s EXCEPT !.out = more]
  BY DEF Show
<1> HIDE DEF r
<1>5. Adds(more, s.out, r)
  BY <1>2, <1>3, AppendAdds
<1> HIDE DEF more, t
<1>6. Layout(more, <<>>, k + 1)
  BY <1>0, <1>2, <1>5, PutKeepsLayout
<1>7. Pairs(more, s.pending, k)
  BY <1>0, <1>2, <1>5, PairsAdd
<1>8. Pairs(more, s.pending, k + 1)
  BY <1>7, PairsSkip
<1>9. more \in Seq(Rendering)
  BY <1>5 DEF Adds
<1>10. t.out = more /\ t.setup = <<>> /\ t.pending = s.pending /\ t \in View
  BY <1>0, <1>4, <1>9 DEF View
<1> QED BY <1>6, <1>8, <1>10 DEF Viewed, t

LEMMA UseViewed ==
  ASSUME TurnConstants, NEW k \in Nat, NEW s, Viewed(s, k), s.setup = <<>>,
         items[k + 1].kind = "tool_use", items[k + 1].tool \in Tools \cup {NoTool}
  PROVE  Viewed(ToolUse(s, k + 1), k + 1)
<1> DEFINE c == items[k + 1].tool
           r == Rendered("tool_call", <<k + 1>>, 0)
           more == Append(s.out, r)
           t == ToolUse(s, k + 1)
           pend == IF c \in Tools THEN [s.pending EXCEPT ![c] = Len(s.out) + 1] ELSE s.pending
<1>0. s \in View /\ Layout(s.out, <<>>, k) /\ Pairs(s.out, s.pending, k)
  BY DEF Viewed
<1>2. r \in Rendering /\ r.type = "tool_call" /\ r.of = <<k + 1>> /\ r.result = 0 /\ Sources(r) = {k + 1}
  <2> DEFINE of == <<k + 1>>
  <2>1. of \in Seq(Nat) /\ "tool_call" \in ViewTypes /\ r = Rendered("tool_call", of, 0)
    BY DEF ViewTypes
  <2>2. ToSet(of) = {k + 1}
    BY SetOfOne
  <2> HIDE DEF r, of
  <2>3. r \in Rendering /\ r.type = "tool_call" /\ r.of = of /\ r.result = 0
        /\ \A m : m \in Sources(r) <=> m \in ToSet(of)
    BY <2>1, SourcesOf
  <2>4. of = <<k + 1>>
    BY DEF of
  <2> QED BY <2>2, <2>3, <2>4
<1>3. s.out \in Seq(Rendering) /\ s.pending \in [Tools -> Nat]
  BY <1>0 DEF View
<1>4. (c = NoTool) <=> (c \notin Tools)
  BY DEF TurnConstants
<1> HIDE DEF r
<1>5. Adds(more, s.out, r) /\ Len(more) = Len(s.out) + 1
  BY <1>2, <1>3, AppendAdds DEF Adds
<1>6. Show(s, "tool_call", k + 1) = [s EXCEPT !.out = more]
  BY DEF Show, r
<1> HIDE DEF more, c
<1>7. t = IF c = NoTool THEN [s EXCEPT !.out = more]
          ELSE [s EXCEPT !.out = more, !.pending = [s.pending EXCEPT ![c] = Len(s.out) + 1]]
  <2> DEFINE x == [s EXCEPT !.out = more]
  <2>1. x.out = more /\ x.pending = s.pending
    BY <1>0 DEF View
  <2>2. t = IF c = NoTool THEN x ELSE [x EXCEPT !.pending[c] = Len(x.out)]
    BY <1>6 DEF ToolUse, c
  <2>3. [x EXCEPT !.pending[c] = Len(x.out)] = [x EXCEPT !.pending = [s.pending EXCEPT ![c] = Len(s.out) + 1]]
    BY <2>1, <1>5
  <2> QED BY <2>2, <2>3
<1> HIDE DEF t
<1>8. pend \in [Tools -> Nat]
  BY <1>3
<1>9. more \in Seq(Rendering)
  BY <1>5 DEF Adds
<1>10. t.out = more /\ t.setup = <<>> /\ t.pending = pend /\ t \in View
  BY <1>0, <1>4, <1>7, <1>8, <1>9 DEF View
<1>11. Layout(more, <<>>, k + 1)
  BY <1>0, <1>2, <1>5, PutKeepsLayout
<1>12. Pairs(more, pend, k + 1)
  <2>1. pend = IF c \in Tools THEN [s.pending EXCEPT ![c] = Len(s.out) + 1] ELSE s.pending
    OBVIOUS
  <2> HIDE DEF pend
  <2> QED BY <1>0, <1>2, <1>5, <2>1, PairsUse DEF c
<1> QED BY <1>10, <1>11, <1>12 DEF Viewed, t

LEMMA ResultViewed ==
  ASSUME TurnConstants, NEW k \in Nat, NEW s, Viewed(s, k), s.setup = <<>>,
         items[k + 1].kind = "tool_result", items[k + 1].tool \in Tools \cup {NoTool}
  PROVE  Viewed(ToolResult(s, k + 1), k + 1)
<1> DEFINE c == items[k + 1].tool
<1>0. s \in View /\ Layout(s.out, <<>>, k) /\ Pairs(s.out, s.pending, k)
  BY DEF Viewed
<1>1. s.out \in Seq(Rendering) /\ s.pending \in [Tools -> Nat]
  BY <1>0 DEF View
<1>2. CASE c # NoTool /\ s.pending[c] # 0
  <2> DEFINE t == AnsweredCall(s, c, k + 1)
             p == s.pending[c]
             more == [s.out EXCEPT ![p].result = k + 1]
             pend == [s.pending EXCEPT ![c] = 0]
  <2>1. ToolResult(s, k + 1) = t
    BY <1>2 DEF ToolResult
  <2>2. c \in Tools
    BY <1>2
  <2>3. p \in 1..Len(s.out) /\ s.out[p].result = 0
    BY <1>0, <1>2, <2>2 DEF Pairs, Waits
  <2>4. Layout(more, <<>>, k + 1)
    <3> HIDE DEF p
    <3> QED BY <1>0, <2>3, JoinKeepsLayout
  <2>5. Pairs(more, pend, k + 1)
    <3> HIDE DEF c
    <3> QED BY <1>0, <1>2, <2>2, PairsJoin DEF c
  <2>6. t = [s EXCEPT !.out = more, !.pending = pend]
    BY DEF AnsweredCall
  <2>7. more \in Seq(Rendering) /\ pend \in [Tools -> Nat]
    BY <2>4, <2>5 DEF Layout, Pairs
  <2> HIDE DEF t, more, pend
  <2>8. t.out = more /\ t.setup = <<>> /\ t.pending = pend /\ t \in View
    BY <1>0, <2>6, <2>7 DEF View
  <2> QED BY <2>1, <2>4, <2>5, <2>8 DEF Viewed
<1>3. CASE ~(c # NoTool /\ s.pending[c] # 0)
  <2> DEFINE t == ToolResult(s, k + 1)
             r == Rendered("tool_call", <<>>, k + 1)
             more == Append(s.out, r)
  <2>1. r \in Rendering /\ r.type = "tool_call" /\ r.of = <<>> /\ r.result = k + 1 /\ Sources(r) = {k + 1}
    <3> DEFINE of == <<>>
               e == k + 1
    <3>1. of \in Seq(Nat) /\ e \in Nat /\ e # 0 /\ "tool_call" \in ViewTypes /\ r = Rendered("tool_call", of, e)
      BY DEF ViewTypes
    <3>2. ToSet(of) = {}
      BY SetOfNone
    <3> HIDE DEF r, of, e
    <3>3. r \in Rendering /\ r.type = "tool_call" /\ r.of = of /\ r.result = e
          /\ \A m : m \in Sources(r) <=> m \in ToSet(of) \/ m = e
      BY <3>1, SourcesOf
    <3>4. Sources(r) = {e}
      BY <3>2, <3>3
    <3> QED BY <3>3, <3>4 DEF of, e
  <2>2. t = [s EXCEPT !.out = more]
    BY <1>3 DEF ToolResult
  <2>3. c \in Tools => s.pending[c] = 0
    BY <1>3 DEF TurnConstants
  <2> HIDE DEF r, t
  <2>4. Adds(more, s.out, r)
    BY <1>1, <2>1, AppendAdds
  <2> HIDE DEF more
  <2>5. Layout(more, <<>>, k + 1)
    BY <1>0, <2>1, <2>4, PutKeepsLayout
  <2>6. Pairs(more, s.pending, k + 1)
    BY <1>0, <2>1, <2>3, <2>4, PairsAlone
  <2>7. more \in Seq(Rendering)
    BY <2>4 DEF Adds
  <2>8. t.out = more /\ t.setup = <<>> /\ t.pending = s.pending /\ t \in View
    BY <1>0, <2>2, <2>7 DEF View
  <2> QED BY <2>5, <2>6, <2>8 DEF Viewed, t
<1> QED BY <1>2, <1>3

LEMMA SetupViewed ==
  ASSUME NEW k \in Nat, NEW s, Viewed(s, k), items[k + 1].kind = "setup"
  PROVE  Viewed([s EXCEPT !.setup = Append(@, k + 1)], k + 1)
<1> DEFINE t == [s EXCEPT !.setup = Append(@, k + 1)]
           more == Append(s.setup, k + 1)
<1>0. s \in View /\ Layout(s.out, s.setup, k) /\ Pairs(s.out, s.pending, k)
  BY DEF Viewed
<1>1. Layout(s.out, more, k + 1)
  BY <1>0, SetupKeepsLayout
<1>2. Pairs(s.out, s.pending, k + 1)
  BY <1>0, PairsSkip
<1>3. more \in Seq(Nat) /\ t = [s EXCEPT !.setup = more]
  BY <1>1 DEF Layout
<1> HIDE DEF t, more
<1>4. t.out = s.out /\ t.setup = more /\ t.pending = s.pending /\ t \in View
  BY <1>0, <1>3 DEF View
<1> QED BY <1>1, <1>2, <1>4 DEF Viewed, t

LEMMA ItemViewed ==
  ASSUME TurnConstants, items \in Seq(LogItem), NEW k \in Nat, k < Len(items), NEW s, Viewed(s, k)
  PROVE  Viewed(ShowItem(s, k + 1), k + 1)
<1> DEFINE kind == items[k + 1].kind
           f == FlushSetup(s)
<1>1. items[k + 1] \in LogItem
  <2>1. k + 1 \in 1..Len(items)
    OBVIOUS
  <2> QED BY <2>1
<1>2. /\ kind \in ItemKinds \cup {"tool_use", "tool_result"}
      /\ kind \in {"tool_use", "tool_result"} => items[k + 1].tool \in Tools \cup {NoTool}
  BY <1>1 DEF LogItem, ItemKinds
<1>3. Viewed(f, k) /\ f.setup = <<>>
  BY FlushViewed
<1>4. CASE kind = "setup"
  <2>1. ShowItem(s, k + 1) = [s EXCEPT !.setup = Append(@, k + 1)]
    BY <1>4 DEF ShowItem
  <2>2. Viewed([s EXCEPT !.setup = Append(@, k + 1)], k + 1)
    BY <1>4, SetupViewed
  <2> QED BY <2>1, <2>2, Zenon
<1>5. CASE kind = "prompt"
  <2>1. ShowItem(s, k + 1) = Show(f, "user_prompt", k + 1)
    BY <1>5 DEF ShowItem
  <2> QED BY <1>3, <1>5, <2>1, ShowViewed DEF ViewTypes
<1>6. CASE kind \in {"thinking", "system", "text"}
  <2>1. ShowItem(s, k + 1) = Show(f, kind, k + 1)
    BY <1>6 DEF ShowItem
  <2>2. kind \in ViewTypes /\ kind # "tool_call"
    BY <1>6 DEF ViewTypes
  <2> QED BY <1>3, <1>6, <2>1, <2>2, ShowViewed
<1>7. CASE kind = "tool_use"
  <2>1. ShowItem(s, k + 1) = ToolUse(f, k + 1)
    BY <1>7 DEF ShowItem
  <2> QED BY <1>2, <1>3, <1>7, <2>1, UseViewed
<1>8. CASE kind = "tool_result"
  <2>1. ShowItem(s, k + 1) = ToolResult(f, k + 1)
    BY <1>8 DEF ShowItem
  <2> QED BY <1>2, <1>3, <1>8, <2>1, ResultViewed
<1>9. CASE kind = "blank"
  <2>1. ShowItem(s, k + 1) = f
    BY <1>9 DEF ShowItem
  <2> QED BY <1>3, <1>9, <2>1, SkipKeepsLayout, PairsSkip DEF Viewed
<1> QED BY <1>2, <1>4, <1>5, <1>6, <1>7, <1>8, <1>9 DEF ItemKinds

(* The loop over the log.                                                  *)
LEMMA PreprocessIs ==
  ASSUME TurnConstants, items \in Seq(LogItem)
  PROVE  \E s : /\ Viewed(s, Len(items)) /\ s.setup = <<>>
                /\ PreprocessConversationItems = s.out
<1> DEFINE n == Len(items)
           W(g) == [k \in 0..n |-> IF k = 0 THEN NothingShown ELSE ShowItem(g[k - 1], k)]
           Next(s, k) == IF Viewed(s, k - 1) THEN ShowItem(s, k) ELSE NothingShown
           step == [k \in 1..n |-> [s \in View |-> Next(s, k)]]
<1>0. n \in Nat
  OBVIOUS
<1>1. \A k \in 1..n, s \in View : Next(s, k) \in View
  <2> SUFFICES ASSUME NEW k \in 1..n, NEW s \in View, Viewed(s, k - 1) PROVE ShowItem(s, k) \in View
    BY NothingViewed DEF Viewed
  <2>1. k - 1 \in Nat /\ k - 1 < n /\ (k - 1) + 1 = k
    BY <1>0
  <2>2. Viewed(ShowItem(s, (k - 1) + 1), (k - 1) + 1)
    BY <2>1, ItemViewed
  <2> QED BY <2>1, <2>2 DEF Viewed
<1>2. step \in [1..n -> [View -> View]]
  <2> HIDE DEF n, Next
  <2> QED BY <1>1
<1>3. NothingShown \in View /\ Viewed(NothingShown, 0)
  BY NothingViewed DEF Viewed
<1>4. PICK f : Recursion(f, n, View, NothingShown, step)
  <2> HIDE DEF n, step
  <2> QED BY <1>0, <1>2, <1>3, RecursionExists
<1>5. f \in [0..n -> View] /\ f[0] = NothingShown /\ \A k \in 1..n : f[k] = Next(f[k - 1], k)
  <2>1. f \in [0..n -> View] /\ f[0] = NothingShown /\ \A k \in 1..n : f[k] = step[k][f[k - 1]]
    <3> HIDE DEF n, step
    <3> QED BY <1>4 DEF Recursion
  <2>2. \A k \in 1..n : k - 1 \in 0..n
    BY <1>0
  <2> HIDE DEF n, Next
  <2> QED BY <2>1, <2>2
<1>6. \A k \in Nat : k <= n => Viewed(f[k], k)
  <2> DEFINE S == {k \in Nat : k <= n => Viewed(f[k], k)}
  <2>1. 0 \in S
    BY <1>3, <1>5
  <2>2. ASSUME NEW k \in Nat, k \in S PROVE k + 1 \in S
    <3> SUFFICES ASSUME k + 1 <= n PROVE Viewed(f[k + 1], k + 1)
      OBVIOUS
    <3>1. k < n /\ k + 1 \in 1..n /\ (k + 1) - 1 = k
      BY <1>0
    <3>2. Viewed(f[k], k)
      BY <2>2, <3>1
    <3>3. f[k + 1] = ShowItem(f[k], k + 1)
      BY <3>1, <3>2, <1>5
    <3> QED BY <3>1, <3>2, <3>3, ItemViewed
  <2>3. \A k \in Nat : k \in S
    <3> HIDE DEF S
    <3> QED BY <2>1, <2>2, NatsFrom
  <2> QED BY <2>3
<1>7. f = W(f)
  <2>1. \A k \in 0..n : f[k] = IF k = 0 THEN NothingShown ELSE ShowItem(f[k - 1], k)
    <3> TAKE k \in 0..n
    <3> SUFFICES ASSUME k # 0 PROVE f[k] = ShowItem(f[k - 1], k)
      BY <1>5
    <3>1. k \in 1..n /\ k - 1 \in Nat /\ k - 1 <= n
      BY <1>0
    <3>2. Viewed(f[k - 1], k - 1)
      BY <3>1, <1>6
    <3> QED BY <3>1, <3>2, <1>5
  <2>2. f = [k \in 0..n |-> f[k]]
    BY <1>5
  <2> HIDE DEF n
  <2> QED BY <2>1, <2>2
<1> DEFINE u == CHOOSE g : g = W(g)
<1>8. u = W(u) /\ PreprocessConversationItems = FlushSetup(u[n]).out
  <2>1. PreprocessConversationItems = FlushSetup(u[n]).out
    BY DEF PreprocessConversationItems
  <2> HIDE DEF W
  <2> QED BY <2>1, <1>7
<1> HIDE DEF u
<1>9. u[0] = NothingShown /\ \A k \in 1..n : u[k] = ShowItem(u[k - 1], k)
  <2>1. \A k \in 0..n : u[k] = W(u)[k]
    <3> HIDE DEF W
    <3> QED BY <1>8
  <2>2. \A k \in 1..n : k \in 0..n /\ k # 0
    BY <1>0
  <2>3. 0 \in 0..n
    BY <1>0
  <2> HIDE DEF n
  <2> QED BY <2>1, <2>2, <2>3
<1>10. Viewed(u[n], n)
  <2> DEFINE S == {k \in Nat : k <= n => Viewed(u[k], k)}
  <2>1. 0 \in S
    BY <1>3, <1>9
  <2>2. ASSUME NEW k \in Nat, k \in S PROVE k + 1 \in S
    <3> SUFFICES ASSUME k + 1 <= n PROVE Viewed(u[k + 1], k + 1)
      OBVIOUS
    <3>1. k < n /\ k + 1 \in 1..n /\ (k + 1) - 1 = k
      BY <1>0
    <3>2. Viewed(u[k], k)
      BY <2>2, <3>1
    <3>3. u[k + 1] = ShowItem(u[k], k + 1)
      BY <3>1, <1>9
    <3> QED BY <3>1, <3>2, <3>3, ItemViewed
  <2>3. n \in S
    <3> HIDE DEF S, n
    <3> QED BY <1>0, <2>1, <2>2, NatsFrom
  <2> QED BY <2>3
<1>11. Viewed(FlushSetup(u[n]), n) /\ FlushSetup(u[n]).setup = <<>>
  <2> HIDE DEF n
  <2> QED BY <1>0, <1>10, FlushViewed
<1> QED BY <1>8, <1>11

(* What the layout says of what is shown.                                  *)
LEMMA ItemsSay ==
  ASSUME TurnConstants, items \in Seq(LogItem)
  PROVE  /\ NothingIsLost /\ ResultsMeetTheirCalls
         /\ PreprocessConversationItems \in Seq(Rendering)
<1> DEFINE n == Len(items)
<1>1. PICK s : Viewed(s, n) /\ s.setup = <<>> /\ PreprocessConversationItems = s.out
  BY PreprocessIs
<1> DEFINE out == s.out
<1>2. out \in Seq(Rendering) /\ Layout(out, <<>>, n) /\ Pairs(out, s.pending, n)
  BY <1>1 DEF Viewed, View
<1>3. DOMAIN items = 1..n /\ DOMAIN out = 1..Len(out) /\ \A m : ~Held(<<>>, m)
  BY <1>2 DEF Held
<1>4. PreprocessConversationItems = out
  BY <1>1
<1> HIDE DEF n, out
<1>5. NothingIsLost
  <2>1. \A m \in 1..n : items[m].kind # "blank" =>
           \E i \in 1..Len(out) : m \in Sources(out[i]) /\ \A j \in 1..Len(out) \ {i} : m \notin Sources(out[j])
    BY <1>2, <1>3 DEF Layout, Once
  <2>2. \A i, j \in 1..Len(out) : i < j => \A a \in ToSet(out[i].of), b \in Sources(out[j]) : a < b
    BY <1>2 DEF Layout
  <2> QED BY <2>1, <2>2, <1>3, <1>4 DEF NothingIsLost
<1>6. ASSUME NEW i \in 1..Len(out), out[i].type = "tool_call"
      PROVE  IF out[i].of = <<>> THEN \A u \in DOMAIN items : ~Answers(out[i].result, u)
             ELSE IF out[i].result # 0 THEN Answers(out[i].result, out[i].of[1])
             ELSE \A r \in DOMAIN items : ~Answers(r, out[i].of[1])
  <2>1. Paired(out[i], n)
    BY <1>2, <1>6 DEF Pairs
  <2>2. CASE out[i].of = <<>>
    BY <2>1, <2>2, <1>3 DEF Paired, n
  <2>3. CASE out[i].of # <<>>
    <3>1. PICK u \in 1..n : out[i].of = <<u>> /\ IF out[i].result # 0 THEN Answers(out[i].result, u)
                                                 ELSE \A m \in 1..n : ~Answers(m, u)
      BY <2>1, <2>3 DEF Paired
    <3>2. out[i].of[1] = u
      BY <3>1
    <3> QED BY <3>1, <3>2, <2>3, <1>3
  <2> QED BY <2>2, <2>3
<1>7. ResultsMeetTheirCalls
  BY <1>3, <1>4, <1>6 DEF ResultsMeetTheirCalls
<1> QED BY <1>2, <1>4, <1>5, <1>7

(* Groups: the last item of the first i of them, and what holds of one.    *)
GroupType == [index : Nat, members : Seq(Nat)]

LastOf(groups, i) == IF i = 0 THEN 0 ELSE groups[i].members[Len(groups[i].members)]

Whole(groups, i, view) ==
  LET g == groups[i].members
  IN  /\ g # <<>> /\ g[1] = LastOf(groups, i - 1) + 1
      /\ \A k \in 2..Len(g) : g[k] = g[k - 1] + 1
      /\ IF groups[i].index = 0 THEN \A k \in DOMAIN g : view[g[k]].type = "session_setup"
         ELSE /\ groups[i].index = Cardinality(Turns(groups, i))
              /\ \A k \in 2..Len(g) : view[g[k]].type \notin {"user_prompt", "session_setup"}
              /\ view[g[1]].type = "user_prompt" \/ i = 1 \/ groups[i - 1].index = 0

Spanned(groups, view, k) ==
  /\ groups \in Seq(GroupType)
  /\ LastOf(groups, Len(groups)) = k
  /\ \A i \in 1..Len(groups) : Whole(groups, i, view)

LEMMA TurnsCount ==
  ASSUME NEW groups, NEW i \in Nat
  PROVE  IsFiniteSet(Turns(groups, i)) /\ Cardinality(Turns(groups, i)) \in Nat
<1>1. IsFiniteSet(1..i)
  BY FS_Interval
<1>2. Turns(groups, i) \subseteq 1..i
  BY DEF Turns
<1>3. IsFiniteSet(Turns(groups, i))
  BY <1>1, <1>2, FS_Subset
<1> QED BY <1>3, FS_CardinalityType

(* The number of turns.                                                    *)
Numbered(groups) == Cardinality(Turns(groups, Len(groups)))

(* Item k + 1 starts a group with index x, or joins the last one, a turn.   *)
Starts(more, groups, x, view, k) ==
  /\ more = Append(groups, Group(x, <<k + 1>>))
  /\ x = 0 => view[k + 1].type = "session_setup"
  /\ x # 0 => /\ x = Numbered(groups) + 1
              /\ view[k + 1].type = "user_prompt" \/ groups = <<>> \/ groups[Len(groups)].index = 0

Joins(more, groups, e, view, k) ==
  /\ groups # <<>> /\ groups[Len(groups)].index # 0
  /\ view[k + 1].type \notin {"user_prompt", "session_setup"}
  /\ e \in GroupType /\ e.index = groups[Len(groups)].index
  /\ e.members = Append(groups[Len(groups)].members, k + 1)
  /\ more = [groups EXCEPT ![Len(groups)] = e]

(* Another group is put behind the others.                                 *)
LEMMA AddsGroup ==
  ASSUME NEW view, NEW k \in Nat, NEW groups, Spanned(groups, view, k), NEW x \in Nat,
         NEW more, Starts(more, groups, x, view, k)
  PROVE  /\ Spanned(more, view, k + 1)
         /\ more # <<>> /\ more[Len(more)].index = x
         /\ x = 0 => Numbered(more) = Numbered(groups)
         /\ x # 0 => Numbered(more) = x
<1> DEFINE e == Group(x, <<k + 1>>)
<1>0. /\ more = Append(groups, e)
      /\ x = 0 => view[k + 1].type = "session_setup"
      /\ x # 0 => x = Numbered(groups) + 1
      /\ x # 0 => (view[k + 1].type = "user_prompt" \/ groups = <<>> \/ groups[Len(groups)].index = 0)
  BY DEF Starts
<1> DEFINE n == Len(groups)
           g == <<k + 1>>
<1>1. groups \in Seq(GroupType) /\ LastOf(groups, n) = k /\ \A i \in 1..n : Whole(groups, i, view)
  BY DEF Spanned
<1>2. e \in GroupType /\ e.index = x /\ e.members = g
  <2>1. g \in Seq(Nat)
    OBVIOUS
  <2> HIDE DEF g
  <2> QED BY <2>1 DEF Group, GroupType, g
<1>3. Len(g) = 1 /\ g[1] = k + 1 /\ DOMAIN g = {1} /\ g # <<>>
  OBVIOUS
<1> HIDE DEF e, g
<1>4. /\ more \in Seq(GroupType) /\ n \in Nat /\ Len(more) = n + 1 /\ more[n + 1] = e
      /\ \A i \in 1..n : more[i] = groups[i]
  BY <1>0, <1>1, <1>2, AppendProperties
<1>5. n = 0 <=> groups = <<>>
  BY <1>1, EmptySeq
<1> HIDE DEF n
<1>6. \A i \in 0..n : LastOf(more, i) = LastOf(groups, i)
  <2>1. \A i \in 0..n : i = 0 \/ i \in 1..n
    BY <1>4
  <2> QED BY <2>1, <1>4 DEF LastOf
<1>7. ASSUME NEW i \in 0..n PROVE Turns(more, i) = Turns(groups, i)
  <2>1. \A j \in 1..i : j \in 1..n
    BY <1>4
  <2> QED BY <2>1, <1>4 DEF Turns
<1>8. Turns(more, n + 1) = IF x = 0 THEN Turns(groups, n) ELSE Turns(groups, n) \cup {n + 1}
  <2>1. \A j : j \in 1..n + 1 <=> j \in 1..n \/ j = n + 1
    BY <1>4
  <2>2. \A j : j \in Turns(more, n + 1) <=> j \in Turns(groups, n) \/ (j = n + 1 /\ x # 0)
    BY <2>1, <1>2, <1>4 DEF Turns
  <2> QED BY <2>2
<1>9. Cardinality(Turns(more, n + 1)) = IF x = 0 THEN Cardinality(Turns(groups, n)) ELSE x
  <2>1. CASE x = 0
    BY <2>1, <1>8
  <2>2. CASE x # 0
    <3>1. n + 1 \notin Turns(groups, n)
      BY <1>4 DEF Turns
    <3>2. Cardinality(Turns(groups, n) \cup {n + 1}) = Cardinality(Turns(groups, n)) + 1
      BY <3>1, <1>4, TurnsCount, FS_AddElement
    <3> QED BY <2>2, <3>2, <1>0, <1>8 DEF n, Numbered
  <2> QED BY <2>1, <2>2
<1>10. ASSUME NEW i \in 1..n PROVE Whole(more, i, view)
  <2>1. Whole(groups, i, view) /\ more[i] = groups[i] /\ LastOf(more, i - 1) = LastOf(groups, i - 1)
        /\ Turns(more, i) = Turns(groups, i)
    <3>1. i \in 0..n /\ i - 1 \in 0..n
      BY <1>4
    <3> QED BY <3>1, <1>1, <1>4, <1>6, <1>7
  <2>2. i = 1 \/ more[i - 1] = groups[i - 1]
    <3>1. i = 1 \/ i - 1 \in 1..n
      BY <1>4
    <3> QED BY <3>1, <1>4
  <2> QED BY <2>1, <2>2, Zenon DEF Whole
<1>11. Whole(more, n + 1, view)
  <2>1. g[1] = LastOf(more, (n + 1) - 1) + 1
    <3>1. (n + 1) - 1 = n /\ n \in 0..n
      BY <1>4
    <3> QED BY <3>1, <1>1, <1>3, <1>6
  <2>2. \A j \in 2..Len(g) : FALSE
    BY <1>3
  <2>3. x = 0 => \A j \in DOMAIN g : view[g[j]].type = "session_setup"
    BY <1>0, <1>3
  <2>4. x # 0 => /\ x = Cardinality(Turns(more, n + 1))
                 /\ view[g[1]].type = "user_prompt" \/ n + 1 = 1 \/ more[(n + 1) - 1].index = 0
    <3> SUFFICES ASSUME x # 0
                 PROVE  /\ x = Cardinality(Turns(more, n + 1))
                        /\ view[g[1]].type = "user_prompt" \/ n + 1 = 1 \/ more[(n + 1) - 1].index = 0
      OBVIOUS
    <3>1. x = Cardinality(Turns(more, n + 1))
      BY <1>9
    <3>2. CASE view[k + 1].type = "user_prompt"
      BY <3>1, <3>2, <1>3
    <3>3. CASE n = 0
      BY <3>1, <3>3
    <3>4. CASE n # 0 /\ groups[n].index = 0
      <4>1. n \in 1..n /\ (n + 1) - 1 = n
        BY <3>4, <1>4
      <4> QED BY <3>1, <3>4, <4>1, <1>4
    <3>5. view[k + 1].type = "user_prompt" \/ groups = <<>> \/ groups[n].index = 0
      BY <1>0 DEF n
    <3> QED BY <3>2, <3>3, <3>4, <3>5, <1>5
  <2> QED BY <2>1, <2>2, <2>3, <2>4, <1>2, <1>3, <1>4, Zenon DEF Whole
<1>12. LastOf(more, n + 1) = k + 1
  <2>1. n + 1 # 0
    BY <1>4
  <2> QED BY <2>1, <1>2, <1>3, <1>4 DEF LastOf
<1>13. \A i \in 1..n + 1 : Whole(more, i, view)
  <2>1. \A i \in 1..n + 1 : i \in 1..n \/ i = n + 1
    BY <1>4
  <2> QED BY <2>1, <1>10, <1>11
<1>14. Spanned(more, view, k + 1)
  BY <1>4, <1>12, <1>13 DEF Spanned
<1>15. more # <<>>
  BY <1>4, EmptySeq
<1>16. /\ more[Len(more)].index = x
       /\ x = 0 => Numbered(more) = Numbered(groups)
       /\ x # 0 => Numbered(more) = x
  BY <1>2, <1>4, <1>9 DEF Numbered, n
<1> QED BY <1>14, <1>15, <1>16 DEF n

(* An item joins the last group, a turn.                                   *)
LEMMA JoinsGroup ==
  ASSUME NEW view, NEW k \in Nat, NEW groups, Spanned(groups, view, k),
         NEW more, NEW e, Joins(more, groups, e, view, k)
  PROVE  /\ Spanned(more, view, k + 1)
         /\ more # <<>> /\ more[Len(more)].index # 0
         /\ Numbered(more) = Numbered(groups)
<1> DEFINE n == Len(groups)
           old == groups[n].members
           g == Append(old, k + 1)
<1>0. /\ groups # <<>> /\ groups[n].index # 0
      /\ view[k + 1].type \notin {"user_prompt", "session_setup"}
      /\ e \in GroupType /\ e.index = groups[n].index /\ e.members = Append(old, k + 1)
      /\ more = [groups EXCEPT ![n] = e]
  BY DEF Joins
<1>1. groups \in Seq(GroupType) /\ LastOf(groups, n) = k /\ \A i \in 1..n : Whole(groups, i, view)
  BY DEF Spanned
<1>2. n \in Nat /\ n \in 1..n /\ n # 0
  BY <1>0, <1>1, EmptySeq, LenProperties
<1>3. groups[n] \in GroupType /\ old \in Seq(Nat) /\ DOMAIN groups = 1..n
  <2>1. DOMAIN groups = 1..n
    BY <1>1
  <2> HIDE DEF n
  <2>2. groups[n] \in GroupType
    <3> HIDE DEF old
    <3> QED BY <2>1, <1>1, <1>2, ElementOfSeq DEF n
  <2> QED BY <2>1, <2>2 DEF GroupType
<1>4. /\ g \in Seq(Nat) /\ Len(old) \in Nat /\ Len(g) = Len(old) + 1 /\ g[Len(old) + 1] = k + 1
      /\ \A j \in 1..Len(old) : g[j] = old[j]
  <2> HIDE DEF old
  <2> QED BY <1>3, AppendProperties
<1>5. e.members = g /\ e.index = groups[n].index /\ more = [groups EXCEPT ![n] = e]
  BY <1>0
<1> HIDE DEF g
<1>7. more \in Seq(GroupType) /\ Len(more) = n
  <2> HIDE DEF n
  <2> QED BY <1>0, <1>1, <1>2, <1>5, ExceptSeq DEF n
<1>8. more[n] = e /\ \A i \in 1..n : i # n => more[i] = groups[i]
  <2> HIDE DEF n
  <2> QED BY <1>2, <1>3, <1>5
<1>9. \A i \in 1..n : more[i].index = groups[i].index
  BY <1>5, <1>8
<1>10. /\ old # <<>> /\ old[1] = LastOf(groups, n - 1) + 1 /\ old[Len(old)] = k
       /\ \A j \in 2..Len(old) : old[j] = old[j - 1] + 1
  <2>1. Whole(groups, n, view)
    BY <1>1, <1>2
  <2> QED BY <2>1, <1>1, <1>2 DEF Whole, LastOf
<1>11. Len(old) >= 1
  BY <1>3, <1>4, <1>10, EmptySeq
<1> HIDE DEF n
<1>12. \A i \in 0..n : i # n => LastOf(more, i) = LastOf(groups, i)
  <2>1. \A i \in 0..n : i = 0 \/ i \in 1..n
    BY <1>2
  <2> QED BY <2>1, <1>8 DEF LastOf
<1>13. \A i \in 0..n : Turns(more, i) = Turns(groups, i)
  <2> TAKE i \in 0..n
  <2>1. \A j \in 1..i : j \in 1..n
    BY <1>2
  <2> QED BY <2>1, <1>9 DEF Turns
<1>14. ASSUME NEW i \in 1..n, i # n PROVE Whole(more, i, view)
  <2>1. Whole(groups, i, view) /\ more[i] = groups[i] /\ LastOf(more, i - 1) = LastOf(groups, i - 1)
        /\ Turns(more, i) = Turns(groups, i)
    <3>1. i \in 0..n /\ i - 1 \in 0..n /\ i - 1 # n
      BY <1>2
    <3> QED BY <3>1, <1>1, <1>8, <1>12, <1>13, <1>14
  <2>2. i = 1 \/ more[i - 1] = groups[i - 1]
    <3>1. i = 1 \/ (i - 1 \in 1..n /\ i - 1 # n)
      BY <1>2
    <3> QED BY <3>1, <1>8
  <2> QED BY <2>1, <2>2, Zenon DEF Whole
<1>15. Whole(more, n, view)
  <2>1. /\ groups[n].index = Cardinality(Turns(groups, n))
        /\ \A j \in 2..Len(old) : view[old[j]].type \notin {"user_prompt", "session_setup"}
        /\ view[old[1]].type = "user_prompt" \/ n = 1 \/ groups[n - 1].index = 0
        /\ groups[n].index # 0
    BY <1>0, <1>1, <1>2 DEF Whole, n
  <2>2. g # <<>>
    BY <1>4, <1>11, EmptySeq
  <2>3. g[1] = LastOf(more, n - 1) + 1 /\ g[1] = old[1]
    <3>1. n - 1 \in 0..n /\ n - 1 # n /\ 1 \in 1..Len(old)
      BY <1>2, <1>4, <1>11
    <3> QED BY <3>1, <1>4, <1>10, <1>12
  <2> HIDE DEF old
  <2>4. \A j \in 2..Len(g) : g[j] = g[j - 1] + 1 /\ view[g[j]].type \notin {"user_prompt", "session_setup"}
    <3> TAKE j \in 2..Len(g)
    <3>1. CASE j = Len(old) + 1
      <4>1. j - 1 = Len(old) /\ Len(old) \in 1..Len(old)
        BY <3>1, <1>4, <1>11
      <4>2. g[j] = k + 1
        BY <3>1, <1>4
      <4>3. g[j - 1] = old[Len(old)]
        BY <4>1, <1>4
      <4>4. old[Len(old)] = k
        BY <1>10
      <4>5. g[j] = g[j - 1] + 1
        BY <4>2, <4>3, <4>4
      <4>6. view[g[j]].type \notin {"user_prompt", "session_setup"}
        BY <1>0, <4>2
      <4> QED BY <4>5, <4>6
    <3>2. CASE j # Len(old) + 1
      <4>1. j \in 2..Len(old) /\ j \in 1..Len(old) /\ j - 1 \in 1..Len(old)
        BY <3>2, <1>4
      <4>2. g[j] = old[j] /\ g[j - 1] = old[j - 1]
        BY <4>1, <1>4
      <4> QED BY <4>1, <4>2, <2>1, <1>10
    <3> QED BY <3>1, <3>2
  <2>5. more[n].index = Cardinality(Turns(more, n)) /\ more[n].index # 0 /\ more[n].members = g
    <3>1. n \in 0..n
      BY <1>2
    <3> QED BY <3>1, <2>1, <1>2, <1>5, <1>8, <1>9, <1>13
  <2>6. view[g[1]].type = "user_prompt" \/ n = 1 \/ more[n - 1].index = 0
    <3>1. n = 1 \/ n - 1 \in 1..n
      BY <1>2
    <3> QED BY <3>1, <2>1, <2>3, <1>9
  <2> QED BY <2>2, <2>3, <2>4, <2>5, <2>6, Zenon DEF Whole
<1>16. LastOf(more, n) = k + 1
  BY <1>2, <1>4, <1>5, <1>8 DEF LastOf
<1>17. Spanned(more, view, k + 1)
  BY <1>7, <1>14, <1>15, <1>16 DEF Spanned
<1>18. more # <<>> /\ more[Len(more)].index # 0 /\ Numbered(more) = Numbered(groups)
  <2>1. n \in 0..n
    BY <1>2
  <2>2. more[n].index # 0
    BY <1>0, <1>2, <1>9 DEF n
  <2> QED BY <2>1, <2>2, <1>2, <1>7, <1>13, EmptySeq DEF Numbered, n
<1> QED BY <1>17, <1>18 DEF n

(* The groups after k items: the turns are counted, and one is open exactly *)
(* when the last group is a turn.                                          *)
GroupState == [groups : Seq(GroupType), index : Nat, open : BOOLEAN]

Grouped(g, view, k) ==
  /\ g \in GroupState
  /\ Spanned(g.groups, view, k)
  /\ g.index = Numbered(g.groups)
  /\ g.open <=> (g.groups # <<>> /\ g.groups[Len(g.groups)].index # 0)

LEMMA NoneGrouped ==
  ASSUME NEW view
  PROVE  Grouped(NoGroups, view, 0)
<1> DEFINE none == <<>>
<1>1. none \in Seq(GroupType) /\ Len(none) = 0 /\ 1..0 = {}
  OBVIOUS
<1>2. NoGroups = [groups |-> none, index |-> 0, open |-> FALSE]
  BY DEF NoGroups
<1>3. Turns(none, 0) = {}
  BY <1>1 DEF Turns
<1>4. Numbered(none) = 0
  BY <1>1, <1>3, FS_EmptySet DEF Numbered
<1>5. none = <<>>
  OBVIOUS
<1> HIDE DEF none
<1>6. NoGroups \in GroupState /\ NoGroups.groups = none /\ NoGroups.index = 0 /\ NoGroups.open = FALSE
  BY <1>1, <1>2 DEF GroupState
<1>7. Spanned(none, view, 0)
  BY <1>1 DEF Spanned, LastOf
<1> QED BY <1>1, <1>4, <1>5, <1>6, <1>7 DEF Grouped

LEMMA ItemGrouped ==
  ASSUME NEW view, NEW k \in Nat, NEW g, Grouped(g, view, k)
  PROVE  Grouped(Placed(g, k + 1, view[k + 1].type), view, k + 1)
<1> DEFINE type == view[k + 1].type
           old == g.groups
           n == Len(old)
<1>1. /\ g \in GroupState /\ g.index \in Nat /\ g.open \in BOOLEAN /\ old \in Seq(GroupType)
      /\ Spanned(old, view, k)
      /\ g.index = Numbered(old)
      /\ g.open <=> (old # <<>> /\ old[n].index # 0)
  BY DEF Grouped, GroupState
<1>2. CASE type = "session_setup"
  <2> DEFINE more == Append(old, Group(0, <<k + 1>>))
             p == Placed(g, k + 1, type)
  <2>1. /\ Spanned(more, view, k + 1)
        /\ more # <<>> /\ more[Len(more)].index = 0
        /\ Numbered(more) = Numbered(old)
    <3> DEFINE x == 0
    <3>1. x \in Nat /\ (x = 0 => view[k + 1].type = "session_setup") /\ x = 0
      BY <1>2
    <3>2. x # 0 => /\ x = Numbered(old) + 1
                   /\ view[k + 1].type = "user_prompt" \/ old = <<>> \/ old[Len(old)].index = 0
      OBVIOUS
    <3> HIDE DEF x, old
    <3> DEFINE e == Group(x, <<k + 1>>)
    <3>3. more = Append(old, e)
      BY <3>1 DEF old
    <3>4. e = Group(x, <<k + 1>>)
      OBVIOUS
    <3> HIDE DEF more, p, type, e
    <3>5. Starts(more, old, x, view, k)
      BY <3>1, <3>2, <3>3, <3>4 DEF Starts
    <3> QED BY <1>1, <3>1, <3>5, AddsGroup
  <2>2. p = [g EXCEPT !.groups = more, !.open = FALSE]
    BY <1>2 DEF Placed
  <2> HIDE DEF more, p
  <2>3. more \in Seq(GroupType)
    BY <2>1 DEF Spanned
  <2>4. p \in GroupState /\ p.groups = more /\ p.index = g.index /\ p.open = FALSE
    BY <1>1, <2>2, <2>3 DEF GroupState
  <2> QED BY <1>1, <2>1, <2>4 DEF Grouped, p
<1>3. CASE type # "session_setup" /\ (type = "user_prompt" \/ ~g.open)
  <2> DEFINE x == g.index + 1
             more == Append(old, Group(x, <<k + 1>>))
             p == Placed(g, k + 1, type)
  <2>1. /\ Spanned(more, view, k + 1)
        /\ more # <<>> /\ more[Len(more)].index = x
        /\ Numbered(more) = x
    <3>1. x \in Nat /\ x # 0 /\ (x = 0 => view[k + 1].type = "session_setup")
      BY <1>1
    <3>2. x # 0 => /\ x = Numbered(old) + 1
                   /\ view[k + 1].type = "user_prompt" \/ old = <<>> \/ old[Len(old)].index = 0
      BY <1>1, <1>3
    <3> HIDE DEF x, old
    <3> DEFINE e == Group(x, <<k + 1>>)
    <3>3. more = Append(old, e)
      BY <3>1 DEF old
    <3>4. e = Group(x, <<k + 1>>)
      OBVIOUS
    <3> HIDE DEF more, p, type, e
    <3>5. Starts(more, old, x, view, k)
      BY <3>1, <3>2, <3>3, <3>4 DEF Starts
    <3> QED BY <1>1, <3>1, <3>5, AddsGroup
  <2>2. p = [groups |-> more, index |-> x, open |-> TRUE]
    BY <1>3 DEF Placed
  <2>3. x \in Nat /\ x # 0
    BY <1>1
  <2> HIDE DEF more, p, x
  <2>4. more \in Seq(GroupType)
    BY <2>1 DEF Spanned
  <2>5. p \in GroupState /\ p.groups = more /\ p.index = x /\ p.open = TRUE
    BY <2>2, <2>3, <2>4 DEF GroupState
  <2> QED BY <2>1, <2>3, <2>5 DEF Grouped, p
<1>4. CASE type \notin {"session_setup", "user_prompt"} /\ g.open
  <2> DEFINE more == [old EXCEPT ![n].members = Append(@, k + 1)]
             p == Placed(g, k + 1, type)
  <2>1. /\ Spanned(more, view, k + 1)
        /\ more # <<>> /\ more[Len(more)].index # 0
        /\ Numbered(more) = Numbered(old)
    <3> DEFINE last == old[n]
               e == [last EXCEPT !.members = Append(@, k + 1)]
    <3>1. old # <<>> /\ old[Len(old)].index # 0 /\ view[k + 1].type \notin {"user_prompt", "session_setup"}
      BY <1>1, <1>4
    <3>2. more = [old EXCEPT ![n] = e]
      OBVIOUS
    <3>3. last \in GroupType
      <4> HIDE DEF old
      <4>1. n \in 1..n
        BY <1>1, <3>1, EmptySeq
      <4> QED BY <4>1, <1>1, ElementOfSeq
    <3> HIDE DEF last
    <3>4. last.members \in Seq(Nat) /\ last \in [index : Nat, members : Seq(Nat)]
      BY <3>3 DEF GroupType
    <3>5. Append(last.members, k + 1) \in Seq(Nat)
      BY <3>4
    <3>6. e \in GroupType /\ e.index = last.index /\ e.members = Append(last.members, k + 1)
      BY <3>4, <3>5 DEF GroupType
    <3> HIDE DEF e, more, p, type, old
    <3>7. Joins(more, old, e, view, k)
      BY <3>1, <3>2, <3>6 DEF Joins, last
    <3> QED BY <1>1, <3>7, JoinsGroup
  <2>2. p = [g EXCEPT !.groups = more]
    <3>1. p = [g EXCEPT !.groups[n].members = Append(@, k + 1)]
      BY <1>4 DEF Placed
    <3> QED BY <3>1
  <2> HIDE DEF more, p
  <2>3. more \in Seq(GroupType)
    BY <2>1 DEF Spanned
  <2>4. p \in GroupState /\ p.groups = more /\ p.index = g.index /\ p.open = g.open
    BY <1>1, <2>2, <2>3 DEF GroupState
  <2> QED BY <1>1, <1>4, <2>1, <2>4 DEF Grouped, p
<1> QED BY <1>2, <1>3, <1>4

(* The loop over what is view.                                            *)
LEMMA GroupingIs ==
  ASSUME NEW view, Len(view) \in Nat
  PROVE  \E g : Grouped(g, view, Len(view)) /\ GroupConversationItemsIntoTurns(view) = g.groups
<1> DEFINE n == Len(view)
           W(f) == [k \in 0..n |-> IF k = 0 THEN NoGroups ELSE Placed(f[k - 1], k, view[k].type)]
           Next(g, k) == IF Grouped(g, view, k - 1) THEN Placed(g, k, view[k].type) ELSE NoGroups
           step == [k \in 1..n |-> [g \in GroupState |-> Next(g, k)]]
<1>0. n \in Nat
  OBVIOUS
<1>1. \A k \in 1..n, g \in GroupState : Next(g, k) \in GroupState
  <2> SUFFICES ASSUME NEW k \in 1..n, NEW g \in GroupState, Grouped(g, view, k - 1)
               PROVE  Placed(g, k, view[k].type) \in GroupState
    BY NoneGrouped DEF Grouped
  <2>1. k - 1 \in Nat /\ (k - 1) + 1 = k
    BY <1>0
  <2>2. Grouped(Placed(g, (k - 1) + 1, view[(k - 1) + 1].type), view, (k - 1) + 1)
    BY <2>1, ItemGrouped
  <2> QED BY <2>1, <2>2 DEF Grouped
<1>2. step \in [1..n -> [GroupState -> GroupState]]
  <2> HIDE DEF n, Next
  <2> QED BY <1>1
<1>3. NoGroups \in GroupState /\ Grouped(NoGroups, view, 0)
  BY NoneGrouped DEF Grouped
<1>4. PICK f : Recursion(f, n, GroupState, NoGroups, step)
  <2> HIDE DEF n, step
  <2> QED BY <1>0, <1>2, <1>3, RecursionExists
<1>5. f \in [0..n -> GroupState] /\ f[0] = NoGroups /\ \A k \in 1..n : f[k] = Next(f[k - 1], k)
  <2>1. f \in [0..n -> GroupState] /\ f[0] = NoGroups /\ \A k \in 1..n : f[k] = step[k][f[k - 1]]
    <3> HIDE DEF n, step
    <3> QED BY <1>4 DEF Recursion
  <2>2. \A k \in 1..n : k - 1 \in 0..n
    BY <1>0
  <2> HIDE DEF n, Next
  <2> QED BY <2>1, <2>2
<1>6. \A k \in Nat : k <= n => Grouped(f[k], view, k)
  <2> DEFINE S == {k \in Nat : k <= n => Grouped(f[k], view, k)}
  <2>1. 0 \in S
    BY <1>3, <1>5
  <2>2. ASSUME NEW k \in Nat, k \in S PROVE k + 1 \in S
    <3> SUFFICES ASSUME k + 1 <= n PROVE Grouped(f[k + 1], view, k + 1)
      OBVIOUS
    <3>1. k + 1 \in 1..n /\ (k + 1) - 1 = k /\ k <= n
      BY <1>0
    <3>2. Grouped(f[k], view, k)
      BY <2>2, <3>1
    <3>3. f[k + 1] = Placed(f[k], k + 1, view[k + 1].type)
      BY <3>1, <3>2, <1>5
    <3> QED BY <3>2, <3>3, ItemGrouped
  <2>3. \A k \in Nat : k \in S
    <3> HIDE DEF S
    <3> QED BY <2>1, <2>2, NatsFrom
  <2> QED BY <2>3
<1>7. f = W(f)
  <2>1. \A k \in 0..n : f[k] = IF k = 0 THEN NoGroups ELSE Placed(f[k - 1], k, view[k].type)
    <3> TAKE k \in 0..n
    <3> SUFFICES ASSUME k # 0 PROVE f[k] = Placed(f[k - 1], k, view[k].type)
      BY <1>5
    <3>1. k \in 1..n /\ k - 1 \in Nat /\ k - 1 <= n
      BY <1>0
    <3>2. Grouped(f[k - 1], view, k - 1)
      BY <3>1, <1>6
    <3> QED BY <3>1, <3>2, <1>5
  <2>2. f = [k \in 0..n |-> f[k]]
    BY <1>5
  <2> HIDE DEF n
  <2> QED BY <2>1, <2>2
<1> DEFINE u == CHOOSE g : g = W(g)
<1>8. u = W(u) /\ GroupConversationItemsIntoTurns(view) = u[n].groups
  <2>1. GroupConversationItemsIntoTurns(view) = u[n].groups
    BY DEF GroupConversationItemsIntoTurns
  <2> HIDE DEF W
  <2> QED BY <2>1, <1>7
<1> HIDE DEF u
<1>9. u[0] = NoGroups /\ \A k \in 1..n : u[k] = Placed(u[k - 1], k, view[k].type)
  <2>1. \A k \in 0..n : u[k] = W(u)[k]
    <3> HIDE DEF W
    <3> QED BY <1>8
  <2>2. \A k \in 1..n : k \in 0..n /\ k # 0
    BY <1>0
  <2>3. 0 \in 0..n
    BY <1>0
  <2> HIDE DEF n
  <2> QED BY <2>1, <2>2, <2>3
<1>10. Grouped(u[n], view, n)
  <2> DEFINE S == {k \in Nat : k <= n => Grouped(u[k], view, k)}
  <2>1. 0 \in S
    BY <1>3, <1>9
  <2>2. ASSUME NEW k \in Nat, k \in S PROVE k + 1 \in S
    <3> SUFFICES ASSUME k + 1 <= n PROVE Grouped(u[k + 1], view, k + 1)
      OBVIOUS
    <3>1. k + 1 \in 1..n /\ (k + 1) - 1 = k /\ k <= n
      BY <1>0
    <3>2. Grouped(u[k], view, k)
      BY <2>2, <3>1
    <3>3. u[k + 1] = Placed(u[k], k + 1, view[k + 1].type)
      BY <3>1, <1>9
    <3> QED BY <3>2, <3>3, ItemGrouped
  <2>3. n \in S
    <3> HIDE DEF S, n
    <3> QED BY <1>0, <2>1, <2>2, NatsFrom
  <2> QED BY <2>3
<1> QED BY <1>8, <1>10

(* The last text of a turn: f is it after k of the turn's members.         *)
Final(f, members, view, k) ==
  /\ f # 0 => \E j \in 1..k : /\ members[j] = f /\ view[members[j]].type = "text"
                              /\ \A l \in j + 1..k : view[members[l]].type \notin {"text", "tool_call"}
  /\ f = 0 => \A j \in 1..k : view[members[j]].type = "text" =>
                 \E l \in j + 1..k : view[members[l]].type = "tool_call"

LEMMA FinalGrows ==
  ASSUME NEW view, NEW members, NEW k \in Nat, NEW f, Final(f, members, view, k), members[k + 1] # 0,
         NEW next, next = IF view[members[k + 1]].type = "text" THEN members[k + 1]
                          ELSE IF view[members[k + 1]].type = "tool_call" THEN 0 ELSE f
  PROVE  Final(next, members, view, k + 1)
<1> DEFINE t(j) == view[members[j]].type
<1>1. /\ f # 0 => \E j \in 1..k : members[j] = f /\ t(j) = "text" /\ \A l \in j + 1..k : t(l) \notin {"text", "tool_call"}
      /\ f = 0 => \A j \in 1..k : t(j) = "text" => \E l \in j + 1..k : t(l) = "tool_call"
  BY DEF Final
<1>2. next = IF t(k + 1) = "text" THEN members[k + 1] ELSE IF t(k + 1) = "tool_call" THEN 0 ELSE f
  OBVIOUS
<1> SUFFICES /\ next # 0 => \E j \in 1..k + 1 : /\ members[j] = next /\ t(j) = "text"
                                                /\ \A l \in j + 1..k + 1 : t(l) \notin {"text", "tool_call"}
             /\ next = 0 => \A j \in 1..k + 1 : t(j) = "text" => \E l \in j + 1..k + 1 : t(l) = "tool_call"
  BY DEF Final
<1> HIDE DEF t
<1>3. CASE t(k + 1) = "text"
  <2>1. k + 1 \in 1..k + 1 /\ (k + 1) + 1..k + 1 = {}
    OBVIOUS
  <2> QED BY <2>1, <1>2, <1>3
<1>4. CASE t(k + 1) = "tool_call"
  <2>1. \A j \in 1..k + 1 : t(j) = "text" => k + 1 \in j + 1..k + 1
    BY <1>4
  <2> QED BY <2>1, <1>2, <1>4
<1>5. CASE t(k + 1) \notin {"text", "tool_call"}
  <2>1. next = f
    BY <1>2, <1>5
  <2>2. CASE f # 0
    <3>1. PICK j \in 1..k : members[j] = f /\ t(j) = "text" /\ \A l \in j + 1..k : t(l) \notin {"text", "tool_call"}
      BY <1>1, <2>2
    <3>2. j \in 1..k + 1 /\ \A l \in j + 1..k + 1 : l = k + 1 \/ l \in j + 1..k
      OBVIOUS
    <3> QED BY <3>1, <3>2, <2>1, <2>2, <1>5
  <2>3. CASE f = 0
    <3>1. ASSUME NEW j \in 1..k + 1, t(j) = "text" PROVE \E l \in j + 1..k + 1 : t(l) = "tool_call"
      <4>1. j \in 1..k
        BY <3>1, <1>5
      <4>2. PICK l \in j + 1..k : t(l) = "tool_call"
        BY <3>1, <4>1, <2>3, <1>1
      <4>3. l \in j + 1..k + 1
        OBVIOUS
      <4> QED BY <4>2, <4>3
    <3> QED BY <3>1, <2>1, <2>3
  <2> QED BY <2>2, <2>3
<1> QED BY <1>3, <1>4, <1>5

LEMMA FinalIs ==
  ASSUME NEW view, NEW group \in GroupType, \A k \in 1..Len(group.members) : group.members[k] # 0
  PROVE  Final(FindFinalTextItem(view, group), group.members, view, Len(group.members))
<1> DEFINE m == group.members
           n == Len(m)
           Next(f, k) == IF view[m[k]].type = "text" THEN m[k]
                         ELSE IF view[m[k]].type = "tool_call" THEN 0 ELSE f
           W(g) == [k \in 0..n |-> IF k = 0 THEN 0 ELSE Next(g[k - 1], k)]
           step == [k \in 1..n |-> [f \in Nat |-> Next(f, k)]]
<1>0. m \in Seq(Nat) /\ n \in Nat
  BY DEF GroupType
<1>1. \A k \in 1..n : m[k] \in Nat /\ m[k] # 0
  BY <1>0
<1>2. step \in [1..n -> [Nat -> Nat]]
  <2>1. \A k \in 1..n, f \in Nat : Next(f, k) \in Nat
    BY <1>1
  <2> HIDE DEF Next, n
  <2> QED BY <2>1
<1>3. PICK f : Recursion(f, n, Nat, 0, step)
  <2> HIDE DEF n, step
  <2> QED BY <1>0, <1>2, RecursionExists
<1>4. f \in [0..n -> Nat] /\ f[0] = 0 /\ \A k \in 1..n : f[k] = Next(f[k - 1], k)
  <2>1. f \in [0..n -> Nat] /\ f[0] = 0 /\ \A k \in 1..n : f[k] = step[k][f[k - 1]]
    <3> HIDE DEF n, step
    <3> QED BY <1>3 DEF Recursion
  <2>2. \A k \in 1..n : k - 1 \in 0..n
    BY <1>0
  <2> HIDE DEF n, Next
  <2> QED BY <2>1, <2>2
<1>5. f = W(f)
  <2>1. \A k \in 0..n : f[k] = IF k = 0 THEN 0 ELSE Next(f[k - 1], k)
    <3>1. \A k \in 0..n : k = 0 \/ k \in 1..n
      BY <1>0
    <3> HIDE DEF n, Next
    <3> QED BY <3>1, <1>4
  <2>2. f = [k \in 0..n |-> f[k]]
    BY <1>4
  <2> HIDE DEF n, Next
  <2> QED BY <2>1, <2>2
<1> DEFINE u == CHOOSE g : g = W(g)
<1>6. u = W(u) /\ FindFinalTextItem(view, group) = u[n]
  <2>1. FindFinalTextItem(view, group) = u[n]
    BY DEF FindFinalTextItem
  <2> HIDE DEF W
  <2> QED BY <2>1, <1>5
<1> HIDE DEF u
<1>7. u[0] = 0 /\ \A k \in 1..n : u[k] = Next(u[k - 1], k)
  <2>1. \A k \in 0..n : u[k] = W(u)[k]
    <3> HIDE DEF W
    <3> QED BY <1>6
  <2>2. \A k \in 1..n : k \in 0..n /\ k # 0
    BY <1>0
  <2>3. 0 \in 0..n
    BY <1>0
  <2> HIDE DEF n, Next
  <2> QED BY <2>1, <2>2, <2>3
<1>8. Final(u[n], m, view, n)
  <2> DEFINE S == {k \in Nat : k <= n => Final(u[k], m, view, k)}
  <2>1. 0 \in S
    BY <1>7 DEF Final
  <2>2. ASSUME NEW k \in Nat, k \in S PROVE k + 1 \in S
    <3> SUFFICES ASSUME k + 1 <= n PROVE Final(u[k + 1], m, view, k + 1)
      OBVIOUS
    <3>1. k + 1 \in 1..n /\ (k + 1) - 1 = k /\ k <= n
      BY <1>0
    <3>2. Final(u[k], m, view, k)
      BY <2>2, <3>1
    <3>3. u[k + 1] = Next(u[k], k + 1) /\ m[k + 1] # 0
      BY <3>1, <1>1, <1>7
    <3> HIDE DEF m
    <3> QED BY <3>2, <3>3, FinalGrows
  <2>3. n \in S
    <3> HIDE DEF S, n
    <3> QED BY <1>0, <2>1, <2>2, NatsFrom
  <2> QED BY <2>3
<1> QED BY <1>6, <1>8

(* The members of a group are consecutive.                                 *)
LEMMA MembersRise ==
  ASSUME NEW m \in Seq(Nat), m # <<>>, m[1] # 0, \A k \in 2..Len(m) : m[k] = m[k - 1] + 1
  PROVE  /\ \A k \in 1..Len(m) : m[k] # 0
         /\ \A j, k \in 1..Len(m) : m[j] < m[k] <=> j < k
<1> DEFINE S == {k \in Nat : k + 1 <= Len(m) => m[k + 1] = m[1] + k}
<1>1. Len(m) \in Nat /\ Len(m) >= 1
  BY EmptySeq
<1>2. m[1] \in Nat /\ m[1] >= 1
  BY <1>1
<1>3. 0 \in S
  BY <1>2
<1>4. ASSUME NEW k \in Nat, k \in S PROVE k + 1 \in S
  <2> SUFFICES ASSUME (k + 1) + 1 <= Len(m) PROVE m[(k + 1) + 1] = m[1] + (k + 1)
    OBVIOUS
  <2>1. (k + 1) + 1 \in 2..Len(m) /\ ((k + 1) + 1) - 1 = k + 1 /\ k + 1 <= Len(m)
    BY <1>1
  <2>2. m[(k + 1) + 1] = m[k + 1] + 1
    BY <2>1
  <2>3. m[k + 1] = m[1] + k
    BY <1>4, <2>1
  <2> QED BY <2>2, <2>3, <1>2
<1>5. \A k \in Nat : k \in S
  <2> HIDE DEF S
  <2> QED BY <1>3, <1>4, NatsFrom
<1>6. \A k \in 1..Len(m) : m[k] = m[1] + (k - 1)
  <2> TAKE k \in 1..Len(m)
  <2>1. k - 1 \in Nat /\ (k - 1) + 1 = k /\ k <= Len(m)
    BY <1>1
  <2>2. k - 1 \in S
    BY <2>1, <1>5
  <2> QED BY <2>1, <2>2
<1> QED BY <1>1, <1>2, <1>6

(* What the groups say of the turns.                                       *)
LEMMA TurnsSay ==
  ASSUME PreprocessConversationItems \in Seq(Rendering)
  PROVE  TurnsAreWhole /\ FinalReplyIsLast
<1> DEFINE view == PreprocessConversationItems
           groups == GroupConversationItemsIntoTurns(view)
<1>1. Len(view) \in Nat
  OBVIOUS
<1> HIDE DEF view
<1>2. PICK g : Grouped(g, view, Len(view)) /\ groups = g.groups
  BY <1>1, GroupingIs
<1> HIDE DEF groups
<1>3. /\ groups \in Seq(GroupType) /\ DOMAIN groups = 1..Len(groups)
      /\ LastOf(groups, Len(groups)) = Len(view)
      /\ \A i \in 1..Len(groups) : Whole(groups, i, view)
  BY <1>2 DEF Grouped, Spanned
<1>4. TurnsAreWhole
  BY <1>3 DEF TurnsAreWhole, Whole, LastOf, view, groups
<1>5. ASSUME NEW i \in 1..Len(groups)
      PROVE  LET s == ToSet(groups[i].members)
                 final == FindFinalTextItem(view, groups[i])
             IN  /\ final # 0 => /\ final \in s /\ view[final].type = "text"
                                 /\ \A n \in s : n > final => view[n].type \notin {"text", "tool_call"}
                 /\ final = 0 => \A n \in s : view[n].type = "text" =>
                                    \E k \in s : k > n /\ view[k].type = "tool_call"
  <2> DEFINE m == groups[i].members
             s == ToSet(m)
             final == FindFinalTextItem(view, groups[i])
  <2>1. groups[i] \in GroupType /\ m \in Seq(Nat)
    <3>1. groups[i] \in GroupType
      BY <1>3
    <3> QED BY <3>1 DEF GroupType
  <2>2. m # <<>> /\ m[1] = LastOf(groups, i - 1) + 1 /\ (\A k \in 2..Len(m) : m[k] = m[k - 1] + 1)
    BY <1>3 DEF Whole
  <2>3. LastOf(groups, i - 1) \in Nat
    <3>1. CASE i - 1 = 0
      BY <3>1 DEF LastOf
    <3>2. CASE i - 1 # 0
      <4>1. i - 1 \in 1..Len(groups)
        BY <3>2, <1>3
      <4> DEFINE o == groups[i - 1].members
      <4>2. groups[i - 1] \in GroupType /\ o # <<>>
        BY <4>1, <1>3 DEF Whole
      <4>3. o \in Seq(Nat)
        BY <4>2 DEF GroupType
      <4>4. o[Len(o)] \in Nat
        <5> HIDE DEF o
        <5>1. Len(o) \in 1..Len(o)
          BY <4>2, <4>3, EmptySeq
        <5> QED BY <5>1, <4>3
      <4> QED BY <4>4, <3>2 DEF LastOf
    <3> QED BY <3>1, <3>2
  <2>4. m[1] # 0
    BY <2>2, <2>3
  <2> HIDE DEF m
  <2>5. /\ \A k \in 1..Len(m) : m[k] # 0
        /\ \A j, k \in 1..Len(m) : m[j] < m[k] <=> j < k
    BY <2>1, <2>2, <2>4, MembersRise
  <2>6. Final(final, m, view, Len(m))
    BY <2>1, <2>5, FinalIs DEF m
  <2> HIDE DEF final
  <2>7. Len(m) \in Nat /\ \A x : x \in s <=> \E j \in 1..Len(m) : x = m[j]
    <3>1. DOMAIN m = 1..Len(m)
      BY <2>1
    <3> QED BY <3>1, <2>1 DEF ToSet
  <2> HIDE DEF s
  <2>8. ASSUME final # 0
        PROVE  /\ final \in s /\ view[final].type = "text"
               /\ \A n \in s : n > final => view[n].type \notin {"text", "tool_call"}
    <3>1. PICK j \in 1..Len(m) : /\ m[j] = final /\ view[m[j]].type = "text"
                                 /\ \A l \in j + 1..Len(m) : view[m[l]].type \notin {"text", "tool_call"}
      BY <2>6, <2>8 DEF Final
    <3>2. ASSUME NEW n \in s, n > final PROVE view[n].type \notin {"text", "tool_call"}
      <4>1. PICK l \in 1..Len(m) : n = m[l]
        BY <2>7
      <4>2. m[l] \in Nat /\ m[j] \in Nat
        BY <2>1
      <4>3. j < l
        BY <3>1, <3>2, <4>1, <4>2, <2>5
      <4>4. l \in j + 1..Len(m)
        BY <4>3, <2>7
      <4> QED BY <3>1, <4>1, <4>4
    <3> QED BY <3>1, <3>2, <2>7
  <2>9. ASSUME final = 0, NEW n \in s, view[n].type = "text"
        PROVE  \E k \in s : k > n /\ view[k].type = "tool_call"
    <3>1. PICK j \in 1..Len(m) : n = m[j]
      BY <2>7
    <3>2. PICK l \in j + 1..Len(m) : view[m[l]].type = "tool_call"
      BY <2>6, <2>9, <3>1 DEF Final
    <3>3. l \in 1..Len(m) /\ j < l /\ m[l] \in s
      BY <2>7
    <3>4. m[l] \in Nat /\ m[j] \in Nat
      BY <3>3, <2>1
    <3>5. m[j] < m[l]
      BY <3>3, <2>5, <2>7
    <3> QED BY <3>1, <3>2, <3>3, <3>4, <3>5
  <2> QED BY <2>8, <2>9 DEF s, final, m
<1>6. FinalReplyIsLast
  BY <1>3, <1>5 DEF FinalReplyIsLast, view, groups
<1> QED BY <1>4, <1>6

(* Items are only put behind the others, so everything said of the log so  *)
(* far is said of every log; the panel's invariant needs its type.         *)
LEMMA LogIsTyped == TurnSpec => []TurnTypeOK
<1>1. TurnInit => TurnTypeOK
  BY TurnConstants DEF TurnInit, TurnTypeOK
<1>2. TurnTypeOK /\ [TurnNext]_items => TurnTypeOK'
  <2> SUFFICES ASSUME TurnTypeOK, [TurnNext]_items PROVE TurnTypeOK'
    OBVIOUS
  <2>1. CASE UNCHANGED items
    BY <2>1 DEF TurnTypeOK
  <2>2. CASE Grow
    <3>1. PICK i \in LogItem : items' = Append(items, i)
      BY <2>2 DEF Grow
    <3>2. items \in Seq(LogItem) /\ Len(items) < MaxItems /\ MaxItems \in Nat
      BY <2>2, TurnConstants DEF TurnTypeOK, Grow
    <3> DEFINE S == LogItem
    <3> HIDE DEF S
    <3>3. items' \in Seq(S) /\ Len(items') = Len(items) + 1 /\ Len(items) \in Nat
      BY <3>1, <3>2, AppendProperties, LenProperties DEF S
    <3>4. Len(items') <= MaxItems
      BY <3>2, <3>3
    <3> QED BY <3>3, <3>4 DEF TurnTypeOK, S
  <2> QED BY <2>1, <2>2 DEF TurnNext
<1> QED BY <1>1, <1>2, PTL DEF TurnSpec

PanelInv == PanelTypeOK /\ PanelIsSelected

LEMMA AskIsTyped ==
  ASSUME PanelTypeOK, NEW k \in Keys, NEW have, NEW busy \in Keys \cup {NoKey}, Ask(k, have, busy)
  PROVE  loading' \in Keys \cup {NoKey} /\ asked' \in [Keys -> 0..MaxAsked]
BY PanelConstants DEF Ask, PanelTypeOK

LEMMA PanelInvStarts == PanelInit => PanelInv
BY PanelConstants DEF PanelInit, PanelInv, PanelTypeOK, PanelIsSelected

LEMMA PanelInvStays == PanelInv /\ [PanelNext]_panelVars => PanelInv'
<1> SUFFICES ASSUME PanelTypeOK, PanelIsSelected, [PanelNext]_panelVars
             PROVE  PanelTypeOK' /\ PanelIsSelected'
  BY DEF PanelInv
<1>0. LeadKey \in Keys /\ NoKey \notin Keys /\ "loading" \notin Keys /\ "failed" \notin Keys /\ "other" \notin Keys
  BY PanelConstants
<1> USE <1>0 DEF PanelTypeOK, PanelIsSelected
<1>1. CASE UNCHANGED panelVars
  BY <1>1 DEF panelVars
<1>2. CASE SelectMember
  <2>1. PICK k \in Keys : /\ selected' = k /\ tab' = "session" /\ cached' = NoKey
                          /\ screen' = "loading" /\ Ask(k, NoKey, NoKey)
    BY <1>2 DEF SelectMember, Render
  <2>2. loading' \in Keys \cup {NoKey} /\ asked' \in [Keys -> 0..MaxAsked]
    BY <2>1, AskIsTyped
  <2> QED BY <2>1, <2>2
<1>3. CASE SelectMessage
  BY <1>3 DEF SelectMessage
<1>4. CASE DetailTab
  BY <1>4 DEF DetailTab
<1>5. CASE SessionTab
  <2>1. /\ tab' = "session" /\ selected' \in Keys /\ cached' = cached
        /\ screen' = IF cached = selected' THEN selected' ELSE "loading"
        /\ Ask(selected', cached, loading)
    BY <1>5 DEF SessionTab, Render
  <2>2. loading' \in Keys \cup {NoKey} /\ asked' \in [Keys -> 0..MaxAsked]
    BY <2>1, AskIsTyped
  <2> QED BY <2>1, <2>2
<1>6. CASE Refresh
  <2>1. selected \in Keys /\ tab = "session" /\ tab' = "session"
    BY <1>6 DEF Refresh
  <2>2. CASE /\ screen' = IF cached = selected THEN selected ELSE "loading"
             /\ Ask(selected, NoKey, loading)
             /\ UNCHANGED <<selected, cached>>
    <3>1. loading' \in Keys \cup {NoKey} /\ asked' \in [Keys -> 0..MaxAsked]
      BY <2>1, <2>2, AskIsTyped
    <3> QED BY <2>1, <2>2, <3>1
  <2>3. CASE /\ selected' = LeadKey /\ cached' = NoKey
             /\ Render(LeadKey, NoKey, NoKey)
    <3>1. screen' = "loading" /\ Ask(LeadKey, NoKey, NoKey)
      BY <2>3 DEF Render
    <3>2. loading' \in Keys \cup {NoKey} /\ asked' \in [Keys -> 0..MaxAsked]
      BY <3>1, AskIsTyped
    <3> QED BY <2>1, <2>3, <3>1, <3>2
  <2> QED BY <1>6, <2>2, <2>3 DEF Refresh
<1>7. ASSUME NEW k \in Keys, AnswerArrives(k) PROVE PanelTypeOK' /\ PanelIsSelected'
  <2>1. asked' \in [Keys -> 0..MaxAsked] /\ selected' = selected /\ tab' = tab
    BY <1>7, PanelConstants DEF AnswerArrives
  <2>2. CASE ~StillSelected(k)
    BY <1>7, <2>1, <2>2 DEF AnswerArrives
  <2>3. CASE StillSelected(k)
    BY <1>7, <2>1, <2>3 DEF AnswerArrives, StillSelected
  <2> QED BY <2>2, <2>3
<1> QED BY <1>1, <1>2, <1>3, <1>4, <1>5, <1>6, <1>7 DEF PanelNext

(* Whatever the worker's process writes, every item of the log is shown    *)
(* once and in order, results stand with their calls, turns are numbered   *)
(* and end in their last text; and however late answers arrive, the panel  *)
(* shows the selected member's conversation.                               *)
THEOREM ConversationStaysWhole == TurnSpec /\ PanelSpec => []ConversationIsWhole
<1>1. TurnTypeOK => NothingIsLost /\ ResultsMeetTheirCalls /\ TurnsAreWhole /\ FinalReplyIsLast
  BY TurnConstants, ItemsSay, TurnsSay DEF TurnTypeOK
<1>2. TurnTypeOK /\ PanelInv => ConversationIsWhole
  BY <1>1 DEF PanelInv, ConversationIsWhole
<1>3. PanelSpec => []PanelInv
  BY PanelInvStarts, PanelInvStays, PTL DEF PanelSpec
<1> QED BY <1>2, <1>3, LogIsTyped, PTL
=============================================================================
