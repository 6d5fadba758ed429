---------------------------- MODULE LibraryProofs ----------------------------
(***************************************************************************)
(* Proofs about the parts of the library for any agents, messages, turns,  *)
(* answers, prompts, tasks, paths and bounds: the orchestrator, the        *)
(* inboxes and the memory, the consensus and the choice of a backend, the  *)
(* task files and the checkpoints.                                         *)
(***************************************************************************)
EXTENDS LibraryParts, FiniteSetTheorems, SequenceTheorems, WellFoundedInduction, TLAPS

Ops == {"none", "spawn", "resume", "shutdown", "send"}
Pcs == {"none", "add", "clear", "undo", "store", "unpend", "save", "stop", "mark", "unmember",
        "unsave", "check", "honor", "putback"}
Call == [op : Ops, agent : Agents \cup {"none"}, pc : Pcs, s : 0..MaxSpawns, old : 0..MaxSpawns]

Busy(c) == call[c].pc # "none"

CallsTyped ==
  /\ call \in [Callers -> Call]
  /\ \A c \in Callers : /\ Busy(c) <=> call[c] # NoCall
                        /\ Busy(c) => call[c].agent \in Agents
Typed == OrchTypeOK /\ overlap \in BOOLEAN /\ CallsTyped

(* Who holds a session: every number is of a session that was spawned, and *)
(* no two places hold the same one.                                        *)
Holders ==
  /\ \A a \in Agents : sessions[a] <= spawns
  /\ \A c \in Callers : call[c].s <= spawns /\ call[c].old <= spawns
  /\ \A a, b \in Agents : sessions[a] # 0 /\ sessions[a] = sessions[b] => a = b
  /\ \A c, d \in Callers : \A s \in 1..spawns : s \in Held(c) /\ s \in Held(d) => c = d
  /\ \A a \in Agents, c \in Callers : sessions[a] \notin Held(c)

(* Until calls overlap there is one at a time; only a team has members.    *)
Alone == ~overlap => \A c, d \in Callers : Busy(c) /\ Busy(d) => c = d
DirHolds == dir # "team" => members = {}

(* A teammate in whose name no call is under way.                          *)
Settled(a) ==
  /\ a \in members <=> sessions[a] # 0
  /\ a \in members <=> a \in saved
  /\ sessions[a] # 0 => sessions[a] \in live /\ a \notin pending

(* What holds of a call's agent between its steps.                         *)
Midway(c) ==
  LET a == call[c].agent
      s == call[c].s
  IN  /\ call[c].pc = "add" => Settled(a) /\ s \in live
      /\ call[c].pc \in {"clear", "store"} =>
            a \in members /\ a \notin saved /\ sessions[a] = 0 /\ s \in live
      /\ call[c].pc = "undo" => a \in members /\ a \notin saved /\ sessions[a] = 0
      /\ call[c].pc \in {"unpend", "save"} =>
            a \in members /\ a \notin saved /\ sessions[a] \in live /\ call[c].old = 0
      /\ call[c].pc = "save" => a \notin pending
      /\ call[c].pc \in {"stop", "check", "putback"} =>
            a \in members /\ a \in saved /\ sessions[a] = 0
      /\ call[c].pc \in {"check", "putback"} => s \in live /\ a \notin pending
      /\ call[c].pc \in {"mark", "unmember"} => sessions[a] = 0 /\ (a \in members <=> a \in saved)
      /\ call[c].pc = "unsave" => sessions[a] = 0 /\ a \notin members
      /\ call[c].pc # "honor"

Spared(a) == \A c \in Callers : Busy(c) => call[c].agent # a
InStep ==
  ~overlap /\ slips = 0 =>
    /\ \A a \in Agents : Spared(a) => Settled(a)
    /\ \A c \in Callers : Busy(c) => Midway(c)

Inv == Typed /\ Holders /\ Alone /\ DirHolds /\ InStep

-----------------------------------------------------------------------------
(* What a step does to the calls: one moves, the others stay.              *)

Others(c) == \A d \in Callers : d # c => call'[d] = call[d]

LEMMA GotoView ==
  ASSUME CallsTyped, NEW c \in Callers, NEW pc \in Pcs \ {"none"}, Busy(c), Goto(c, pc)
  PROVE  /\ CallsTyped' /\ Others(c)
         /\ call'[c].pc = pc /\ call'[c].agent = call[c].agent
         /\ call'[c].s = call[c].s /\ call'[c].old = call[c].old
<1> DEFINE r == [call[c] EXCEPT !.pc = pc]
<1>1. r \in Call /\ r.pc = pc /\ r.agent = call[c].agent /\ r.s = call[c].s /\ r.old = call[c].old
  BY DEF CallsTyped, Call
<1>2. call' \in [Callers -> Call] /\ call'[c] = r /\ Others(c)
  BY <1>1 DEF CallsTyped, Goto, Others
<1> HIDE DEF r
<1>3. CallsTyped' BY <1>1, <1>2 DEF CallsTyped, Others, Busy, NoCall
<1> QED BY <1>1, <1>2, <1>3

LEMMA GoWithView ==
  ASSUME CallsTyped, NEW c \in Callers, NEW pc \in Pcs \ {"none"}, Busy(c),
         NEW s \in 0..MaxSpawns, NEW old \in 0..MaxSpawns, GoWith(c, pc, s, old)
  PROVE  /\ CallsTyped' /\ Others(c)
         /\ call'[c].pc = pc /\ call'[c].agent = call[c].agent
         /\ call'[c].s = s /\ call'[c].old = old
<1> DEFINE r == [call[c] EXCEPT !.pc = pc, !.s = s, !.old = old]
<1>1. r \in Call /\ r.pc = pc /\ r.agent = call[c].agent /\ r.s = s /\ r.old = old
  BY DEF CallsTyped, Call
<1>2. call' \in [Callers -> Call] /\ call'[c] = r /\ Others(c)
  BY <1>1 DEF CallsTyped, GoWith, Others
<1> HIDE DEF r
<1>3. CallsTyped' BY <1>1, <1>2 DEF CallsTyped, Others, Busy, NoCall
<1> QED BY <1>1, <1>2, <1>3

LEMMA ReturnView ==
  ASSUME CallsTyped, NEW c \in Callers, Return(c)
  PROVE  /\ CallsTyped' /\ Others(c)
         /\ call'[c].pc = "none" /\ call'[c].s = 0 /\ call'[c].old = 0
<1>1. NoCall \in Call /\ NoCall.pc = "none" /\ NoCall.s = 0 /\ NoCall.old = 0
  BY OrchConstants DEF NoCall, Call, Ops, Pcs
<1>2. call' \in [Callers -> Call] /\ call'[c] = NoCall /\ Others(c)
  BY <1>1 DEF CallsTyped, Return, Others
<1>3. CallsTyped' BY <1>1, <1>2 DEF CallsTyped, Others, Busy
<1> QED BY <1>1, <1>2, <1>3

LEMMA BeginView ==
  ASSUME CallsTyped, overlap \in BOOLEAN, NEW c \in Callers, NEW op \in Ops, NEW a \in Agents,
         NEW pc \in Pcs \ {"none"}, NEW s \in 0..MaxSpawns, Begin(c, op, a, pc, s)
  PROVE  /\ CallsTyped' /\ Others(c) /\ ~Busy(c) /\ call[c].s = 0 /\ call[c].old = 0
         /\ call'[c].pc = pc /\ call'[c].agent = a
         /\ call'[c].s = s /\ call'[c].old = 0
         /\ overlap' \in BOOLEAN
         /\ ~overlap' => ~overlap /\ \A d \in Callers : ~Busy(d)
<1> DEFINE r == [op |-> op, agent |-> a, pc |-> pc, s |-> s, old |-> 0]
<1>1. r \in Call /\ r.pc = pc /\ r.agent = a /\ r.s = s /\ r.old = 0
  BY OrchConstants DEF Call
<1>2. call' \in [Callers -> Call] /\ call'[c] = r /\ Others(c)
  BY <1>1 DEF CallsTyped, Begin, Others
<1>3. ~Busy(c) /\ call[c].s = 0 /\ call[c].old = 0 BY DEF Begin, Busy, NoCall
<1>4. overlap' \in BOOLEAN /\ (~overlap' => ~overlap /\ \A d \in Callers : ~Busy(d))
  BY DEF Begin, CallsTyped
<1> HIDE DEF r
<1>5. CallsTyped' BY <1>1, <1>2 DEF CallsTyped, Others, Busy, NoCall
<1> QED BY <1>1, <1>2, <1>3, <1>4, <1>5

-----------------------------------------------------------------------------
(* Every step keeps the invariant: first what becomes of the call, then    *)
(* the invariant's parts.                                                  *)

LEMMA CreateTeamKeeps == ASSUME Inv, CreateTeam PROVE Inv'
<1> USE DEF Inv
<1>1. UNCHANGED call /\ UNCHANGED overlap BY DEF CreateTeam
<1>2. Typed' BY DEF Typed, OrchTypeOK, CreateTeam, CallsTyped, Busy
<1>3. Holders' BY DEF Holders, Held, CreateTeam
<1>4. Alone' /\ DirHolds' BY DEF Alone, DirHolds, Busy, CreateTeam
<1>5. InStep'
  <2>1. UNCHANGED <<members, saved, sessions, live, pending>> BY DEF CreateTeam, DirHolds
  <2> QED BY <2>1 DEF InStep, Settled, Midway, Spared, Busy, CreateTeam
<1> QED BY <1>2, <1>3, <1>4, <1>5

LEMMA DeleteTeamKeeps == ASSUME Inv, DeleteTeam PROVE Inv'
<1> USE DEF Inv
<1>1. UNCHANGED call /\ UNCHANGED overlap BY DEF DeleteTeam
<1>2. Typed' BY DEF Typed, OrchTypeOK, DeleteTeam, CallsTyped, Busy
<1>3. Holders' BY DEF Holders, Held, DeleteTeam
<1>4. Alone' /\ DirHolds' BY DEF Alone, DirHolds, Busy, DeleteTeam
<1>5. InStep' BY DEF InStep, Settled, Midway, Spared, Busy, DeleteTeam
<1> QED BY <1>2, <1>3, <1>4, <1>5

LEMMA WriteInboxKeeps == ASSUME Inv, WriteInbox PROVE Inv'
<1> USE DEF Inv
<1>1. UNCHANGED call /\ UNCHANGED overlap BY DEF WriteInbox
<1>2. Typed' BY DEF Typed, OrchTypeOK, WriteInbox, Stray, CallsTyped, Busy
<1>3. Holders' BY DEF Holders, Held, WriteInbox
<1>4. Alone' /\ DirHolds' BY DEF Alone, DirHolds, Busy, WriteInbox, Stray
<1>5. InStep' BY DEF InStep, Settled, Midway, Spared, Busy, WriteInbox
<1> QED BY <1>2, <1>3, <1>4, <1>5

LEMMA SpawnKeeps == ASSUME Inv, NEW c \in Callers, NEW a \in Agents, Spawn(c, a) PROVE Inv'
<1> USE DEF Inv
<1>0. Typed /\ spawns + 1 \in 0..MaxSpawns /\ Begin(c, "spawn", a, "add", spawns + 1)
  BY OrchConstants DEF Spawn, Launch, Typed, OrchTypeOK
<1>1. /\ CallsTyped' /\ Others(c) /\ ~Busy(c) /\ call[c].s = 0 /\ call[c].old = 0
      /\ call'[c].pc = "add" /\ call'[c].agent = a /\ call'[c].s = spawns + 1 /\ call'[c].old = 0
      /\ overlap' \in BOOLEAN /\ (~overlap' => ~overlap /\ \A d \in Callers : ~Busy(d))
  BY <1>0, BeginView DEF Typed, Ops, Pcs
<1>2. Typed' BY <1>1, OrchConstants DEF Typed, OrchTypeOK, Spawn, Launch
<1>3. Holders' BY <1>1 DEF Typed, OrchTypeOK, CallsTyped, Call, Holders, Held, Others, Spawn, Launch
<1>4. Alone' /\ DirHolds' BY <1>1 DEF Alone, DirHolds, Others, Busy, Spawn, Launch
<1>5. InStep' BY <1>1 DEF Others, InStep, Settled, Midway, Spared, Busy, Spawn, Launch
<1> QED BY <1>2, <1>3, <1>4, <1>5

LEMMA ResumeKeeps == ASSUME Inv, NEW c \in Callers, NEW a \in Agents, Resume(c, a) PROVE Inv'
<1> USE DEF Inv
<1>0. Typed /\ spawns + 1 \in 0..MaxSpawns /\ Begin(c, "resume", a, "add", spawns + 1)
  BY OrchConstants DEF Resume, Launch, Typed, OrchTypeOK
<1>1. /\ CallsTyped' /\ Others(c) /\ ~Busy(c) /\ call[c].s = 0 /\ call[c].old = 0
      /\ call'[c].pc = "add" /\ call'[c].agent = a /\ call'[c].s = spawns + 1 /\ call'[c].old = 0
      /\ overlap' \in BOOLEAN /\ (~overlap' => ~overlap /\ \A d \in Callers : ~Busy(d))
  BY <1>0, BeginView DEF Typed, Ops, Pcs
<1>2. Typed' BY <1>1, OrchConstants DEF Typed, OrchTypeOK, Resume, Launch
<1>3. Holders'
  BY <1>1, <1>2 DEF Typed, OrchTypeOK, CallsTyped, Call, Holders, Held, Others, Resume, Launch
<1>4. Alone' /\ DirHolds' BY <1>1 DEF Alone, DirHolds, Others, Busy, Resume, Launch
<1>5. InStep' BY <1>1 DEF Others, InStep, Settled, Midway, Spared, Busy, Resume, Launch
<1> QED BY <1>2, <1>3, <1>4, <1>5

LEMMA SendInputKeeps == ASSUME Inv, NEW c \in Callers, NEW a \in Agents, SendInput(c, a) PROVE Inv'
<1> USE DEF Inv
<1>0. Typed /\ sessions[a] \in 0..MaxSpawns /\ Begin(c, "send", a, "check", sessions[a])
  BY DEF SendInput, Typed, OrchTypeOK
<1>1. /\ CallsTyped' /\ Others(c) /\ ~Busy(c) /\ call[c].s = 0 /\ call[c].old = 0
      /\ call'[c].pc = "check" /\ call'[c].agent = a /\ call'[c].s = sessions[a] /\ call'[c].old = 0
      /\ overlap' \in BOOLEAN /\ (~overlap' => ~overlap /\ \A d \in Callers : ~Busy(d))
  BY <1>0, BeginView DEF Typed, Ops, Pcs
<1>2. Typed' BY <1>1, OrchConstants DEF Typed, OrchTypeOK, SendInput, TakeOut
<1>3. Holders' BY <1>1 DEF Typed, OrchTypeOK, Holders, Held, Others, SendInput, TakeOut
<1>4. Alone' /\ DirHolds' BY <1>1 DEF Alone, DirHolds, Others, Busy, SendInput
<1>5. InStep'
  BY <1>1 DEF Typed, OrchTypeOK, Others, InStep, Settled, Midway, Spared, Busy, SendInput, TakeOut
<1> QED BY <1>2, <1>3, <1>4, <1>5

LEMMA ClearInboxKeeps == ASSUME Inv, NEW c \in Callers, ClearInbox(c) PROVE Inv'
<1> USE DEF Inv
<1>0. Typed /\ Busy(c) /\ call[c].pc = "clear" /\ Goto(c, "store")
  BY DEF ClearInbox, At, Busy
<1>1. /\ CallsTyped' /\ Others(c) /\ call[c] \in Call /\ call[c].agent \in Agents /\ call[c].pc = "clear"
      /\ call'[c].pc = "store" /\ call'[c].agent = call[c].agent
      /\ call'[c].s = call[c].s /\ call'[c].old = call[c].old /\ UNCHANGED overlap
  BY <1>0, GotoView DEF Typed, CallsTyped, Pcs, ClearInbox
<1>2. Typed' BY <1>1 DEF Typed, OrchTypeOK, ClearInbox, Stray
<1>3. Holders' BY <1>1 DEF Holders, Held, Others, ClearInbox
<1>4. Alone' /\ DirHolds' BY <1>1 DEF Alone, DirHolds, Others, Busy, ClearInbox, Stray
<1>5. InStep' BY <1>1 DEF Others, InStep, Settled, Midway, Spared, Busy, ClearInbox
<1> QED BY <1>2, <1>3, <1>4, <1>5

LEMMA ClearPendingKeeps == ASSUME Inv, NEW c \in Callers, ClearPending(c) PROVE Inv'
<1> USE DEF Inv
<1>0. Typed /\ Busy(c) /\ call[c].pc = "unpend" /\ Goto(c, "save")
  BY DEF ClearPending, At, Busy
<1>1. /\ CallsTyped' /\ Others(c) /\ call[c] \in Call /\ call[c].agent \in Agents /\ call[c].pc = "unpend"
      /\ call'[c].pc = "save" /\ call'[c].agent = call[c].agent
      /\ call'[c].s = call[c].s /\ call'[c].old = call[c].old /\ UNCHANGED overlap
  BY <1>0, GotoView DEF Typed, CallsTyped, Pcs, ClearPending
<1>2. Typed' BY <1>1 DEF Typed, OrchTypeOK, ClearPending
<1>3. Holders' BY <1>1 DEF Holders, Held, Others, ClearPending
<1>4. Alone' /\ DirHolds' BY <1>1 DEF Alone, DirHolds, Others, Busy, ClearPending
<1>5. InStep' BY <1>1 DEF Others, InStep, Settled, Midway, Spared, Busy, ClearPending
<1> QED BY <1>2, <1>3, <1>4, <1>5

LEMMA MarkPendingKeeps == ASSUME Inv, NEW c \in Callers, MarkPending(c) PROVE Inv'
<1> USE DEF Inv
<1>0. Typed /\ Busy(c) /\ call[c].pc = "mark" /\ Goto(c, "unmember")
  BY DEF MarkPending, At, Busy
<1>1. /\ CallsTyped' /\ Others(c) /\ call[c] \in Call /\ call[c].agent \in Agents /\ call[c].pc = "mark"
      /\ call'[c].pc = "unmember" /\ call'[c].agent = call[c].agent
      /\ call'[c].s = call[c].s /\ call'[c].old = call[c].old /\ UNCHANGED overlap
  BY <1>0, GotoView DEF Typed, CallsTyped, Pcs, MarkPending
<1>2. Typed' BY <1>1 DEF Typed, OrchTypeOK, MarkPending
<1>3. Holders' BY <1>1 DEF Holders, Held, Others, MarkPending
<1>4. Alone' /\ DirHolds' BY <1>1 DEF Alone, DirHolds, Others, Busy, MarkPending
<1>5. InStep' BY <1>1, <1>4 DEF Alone, InStep, Settled, Midway, Spared, Busy, MarkPending
<1> QED BY <1>2, <1>3, <1>4, <1>5

LEMMA RemoveMemberKeeps == ASSUME Inv, NEW c \in Callers, RemoveMember(c) PROVE Inv'
<1> USE DEF Inv
<1>0. Typed /\ Busy(c) /\ call[c].pc = "unmember" /\ Goto(c, "unsave")
  BY DEF RemoveMember, At, Busy
<1>1. /\ CallsTyped' /\ Others(c) /\ call[c] \in Call /\ call[c].agent \in Agents /\ call[c].pc = "unmember"
      /\ call'[c].pc = "unsave" /\ call'[c].agent = call[c].agent
      /\ call'[c].s = call[c].s /\ call'[c].old = call[c].old /\ UNCHANGED overlap
  BY <1>0, GotoView DEF Typed, CallsTyped, Pcs, RemoveMember
<1>2. Typed' BY <1>1 DEF Typed, OrchTypeOK, RemoveMember
<1>3. Holders' BY <1>1 DEF Typed, Holders, Held, Others, RemoveMember
<1>4. Alone' /\ DirHolds' BY <1>1 DEF Alone, DirHolds, Others, Busy, RemoveMember
<1>5. InStep' BY <1>1, <1>4 DEF Alone, InStep, Settled, Midway, Spared, Busy, RemoveMember
<1> QED BY <1>2, <1>3, <1>4, <1>5

LEMMA ClearInboxFailsKeeps == ASSUME Inv, NEW c \in Callers, ClearInboxFails(c) PROVE Inv'
<1> USE DEF Inv
<1>0. Typed /\ Busy(c) /\ call[c].pc = "clear" /\ 0 \in 0..MaxSpawns /\ GoWith(c, "undo", 0, 0)
  BY OrchConstants DEF ClearInboxFails, At, Busy
<1>1. /\ CallsTyped' /\ Others(c) /\ call[c] \in Call /\ call[c].agent \in Agents /\ call[c].pc = "clear"
      /\ call'[c].pc = "undo" /\ call'[c].agent = call[c].agent
      /\ call'[c].s = 0 /\ call'[c].old = 0 /\ UNCHANGED overlap
  BY <1>0, GoWithView DEF Typed, CallsTyped, Pcs, ClearInboxFails
<1>2. Typed' BY <1>1 DEF Typed, OrchTypeOK, ClearInboxFails
<1>3. Holders' BY <1>1 DEF Typed, OrchTypeOK, Holders, Held, Others, ClearInboxFails
<1>4. Alone' /\ DirHolds' BY <1>1 DEF Alone, DirHolds, Others, Busy, ClearInboxFails
<1>5. InStep'
  BY <1>1, <1>4 DEF Alone, Holders, Held, InStep, Settled, Midway, Spared, Busy, ClearInboxFails
<1> QED BY <1>2, <1>3, <1>4, <1>5

LEMMA StoreSessionKeeps == ASSUME Inv, NEW c \in Callers, StoreSession(c) PROVE Inv'
<1> USE DEF Inv
<1>0. /\ Typed /\ Busy(c) /\ call[c].pc = "store"
      /\ sessions[call[c].agent] \in 0..MaxSpawns /\ GoWith(c, "unpend", 0, sessions[call[c].agent])
  BY DEF StoreSession, At, Busy, Typed, OrchTypeOK, CallsTyped
<1>1. /\ CallsTyped' /\ Others(c) /\ call[c] \in Call /\ call[c].agent \in Agents /\ call[c].pc = "store"
      /\ call'[c].pc = "unpend" /\ call'[c].agent = call[c].agent
      /\ call'[c].s = 0 /\ call'[c].old = sessions[call[c].agent] /\ UNCHANGED overlap
  BY <1>0, GoWithView, OrchConstants DEF Typed, CallsTyped, Pcs, StoreSession
<1>2. Typed'
  <2>1. sessions' \in [Agents -> 0..MaxSpawns] BY <1>1 DEF StoreSession, Typed, OrchTypeOK, Call
  <2> QED BY <1>1, <2>1 DEF Typed, OrchTypeOK, StoreSession
<1>3. Holders' BY <1>1, <1>2 DEF Typed, OrchTypeOK, Holders, Held, Others, StoreSession
<1>4. Alone' /\ DirHolds' BY <1>1 DEF Alone, DirHolds, Others, Busy, StoreSession
<1>5. InStep'
  BY <1>1, <1>4 DEF Typed, OrchTypeOK, Alone, InStep, Settled, Midway, Spared, Busy, StoreSession
<1> QED BY <1>2, <1>3, <1>4, <1>5

LEMMA UndoMemberKeeps == ASSUME Inv, NEW c \in Callers, UndoMember(c) PROVE Inv'
<1> USE DEF Inv
<1>0. Typed /\ Busy(c) /\ call[c].pc = "undo" /\ Return(c)
  BY DEF UndoMember, At, Busy
<1>1. /\ CallsTyped' /\ Others(c) /\ call[c] \in Call /\ call[c].agent \in Agents /\ call[c].pc = "undo"
      /\ call'[c].pc = "none" /\ call'[c].s = 0 /\ call'[c].old = 0 /\ UNCHANGED overlap
  BY <1>0, ReturnView DEF Typed, CallsTyped, UndoMember
<1>2. Typed' BY <1>1 DEF Typed, OrchTypeOK, UndoMember
<1>3. Holders' BY <1>1 DEF Typed, OrchTypeOK, Holders, Held, Others, UndoMember
<1>4. Alone' /\ DirHolds' BY <1>1 DEF Alone, DirHolds, Others, Busy, UndoMember
<1>5. InStep' BY <1>1 DEF Alone, Others, InStep, Settled, Midway, Spared, Busy, UndoMember
<1> QED BY <1>2, <1>3, <1>4, <1>5

LEMMA SaveStateKeeps == ASSUME Inv, NEW c \in Callers, SaveState(c) PROVE Inv'
<1> USE DEF Inv
<1>0. Typed /\ Busy(c) /\ call[c].pc = "save" /\ Return(c)
  BY DEF SaveState, At, Busy
<1>1. /\ CallsTyped' /\ Others(c) /\ call[c] \in Call /\ call[c].agent \in Agents /\ call[c].pc = "save"
      /\ call'[c].pc = "none" /\ call'[c].s = 0 /\ call'[c].old = 0 /\ UNCHANGED overlap
  BY <1>0, ReturnView DEF Typed, CallsTyped, SaveState
<1>2. Typed'
  <2>1. /\ dir' \in {"absent", "bare", "team"} /\ saved' \subseteq Agents
        /\ live' \subseteq live /\ slips' \in 0..MaxFaults
    BY <1>1, OrchConstants DEF SaveState, Stray, Typed, OrchTypeOK
  <2> QED BY <1>1, <2>1 DEF Typed, OrchTypeOK, SaveState
<1>3. Holders' BY <1>1 DEF Typed, OrchTypeOK, Holders, Held, Others, SaveState
<1>4. Alone' /\ DirHolds' BY <1>1 DEF Alone, DirHolds, Others, Busy, SaveState, Stray
<1>5. InStep'
  BY <1>1 DEF Typed, OrchTypeOK, Alone, Others, InStep, Settled, Midway, Spared, Busy, SaveState
<1> QED BY <1>2, <1>3, <1>4, <1>5

LEMMA RemoveStateKeeps == ASSUME Inv, NEW c \in Callers, RemoveState(c) PROVE Inv'
<1> USE DEF Inv
<1>0. Typed /\ Busy(c) /\ call[c].pc = "unsave" /\ Return(c)
  BY DEF RemoveState, At, Busy
<1>1. /\ CallsTyped' /\ Others(c) /\ call[c] \in Call /\ call[c].agent \in Agents /\ call[c].pc = "unsave"
      /\ call'[c].pc = "none" /\ call'[c].s = 0 /\ call'[c].old = 0 /\ UNCHANGED overlap
  BY <1>0, ReturnView DEF Typed, CallsTyped, RemoveState
<1>2. Typed' BY <1>1 DEF Typed, OrchTypeOK, RemoveState
<1>3. Holders' BY <1>1 DEF Typed, OrchTypeOK, Holders, Held, Others, RemoveState
<1>4. Alone' /\ DirHolds' BY <1>1 DEF Alone, DirHolds, Others, Busy, RemoveState
<1>5. InStep' BY <1>1 DEF Others, InStep, Settled, Midway, Spared, Busy, RemoveState
<1> QED BY <1>2, <1>3, <1>4, <1>5

LEMMA HonorShutdownKeeps == ASSUME Inv, NEW c \in Callers, HonorShutdown(c) PROVE Inv'
<1> USE DEF Inv
<1>0. Typed /\ Busy(c) /\ call[c].pc = "honor" /\ Return(c)
  BY DEF HonorShutdown, At, Busy
<1>1. /\ CallsTyped' /\ Others(c) /\ call[c] \in Call /\ call[c].agent \in Agents /\ call[c].pc = "honor"
      /\ call'[c].pc = "none" /\ call'[c].s = 0 /\ call'[c].old = 0 /\ UNCHANGED overlap
  BY <1>0, ReturnView DEF Typed, CallsTyped, HonorShutdown
<1>2. Typed' BY <1>1 DEF Typed, OrchTypeOK, HonorShutdown
<1>3. Holders' BY <1>1 DEF Typed, OrchTypeOK, Holders, Held, Others, HonorShutdown
<1>4. Alone' /\ DirHolds' BY <1>1 DEF Alone, DirHolds, Others, Busy, HonorShutdown
<1>5. InStep' BY <1>1 DEF InStep, Midway, Busy, HonorShutdown
<1> QED BY <1>2, <1>3, <1>4, <1>5

LEMMA PutBackKeeps == ASSUME Inv, NEW c \in Callers, PutBack(c) PROVE Inv'
<1> USE DEF Inv
<1>0. Typed /\ Busy(c) /\ call[c].pc = "putback" /\ Return(c)
  BY DEF PutBack, At, Busy
<1>1. /\ CallsTyped' /\ Others(c) /\ call[c] \in Call /\ call[c].agent \in Agents /\ call[c].pc = "putback"
      /\ call'[c].pc = "none" /\ call'[c].s = 0 /\ call'[c].old = 0 /\ UNCHANGED overlap
  BY <1>0, ReturnView DEF Typed, CallsTyped, PutBack
<1>2. Typed'
  <2>1. sessions' \in [Agents -> 0..MaxSpawns] BY <1>1 DEF PutBack, Typed, OrchTypeOK, Call
  <2> QED BY <1>1, <2>1 DEF Typed, OrchTypeOK, PutBack
<1>3. Holders'
  <2> DEFINE g == call[c].agent
  <2>1. sessions'[g] = call[c].s /\ \A a \in Agents : a # g => sessions'[a] = sessions[a]
    BY <1>1 DEF PutBack, Typed, OrchTypeOK
  <2>2. UNCHANGED spawns /\ call[c].s \in Nat /\ sessions \in [Agents -> Nat] /\ spawns \in Nat
    BY <1>1 DEF PutBack, Typed, OrchTypeOK, Call
  <2>3. Held(c)' = {} /\ \A d \in Callers : d # c => Held(d)' = Held(d)
    BY <1>1 DEF Held, Others
  <2>4. \A a \in Agents : a # g /\ call[c].s # 0 => sessions[a] # call[c].s
    BY DEF Holders, Held
  <2>5. \A a, b \in Agents : sessions'[a] # 0 /\ sessions'[a] = sessions'[b] => a = b
    BY <2>1, <2>4 DEF Holders
  <2>6. \A d \in Callers : d # c => call[c].s \notin Held(d)
    BY <2>2 DEF Holders, Held
  <2>7. \A a \in Agents, d \in Callers : sessions'[a] \notin Held(d)'
    BY <2>1, <2>3, <2>6 DEF Holders
  <2>8. \A a \in Agents : sessions'[a] <= spawns' BY <2>1, <2>2 DEF Holders
  <2>9. \A d \in Callers : call'[d].s <= spawns' /\ call'[d].old <= spawns'
    BY <1>1, <2>2 DEF Holders, Others
  <2>10. \A d, e \in Callers : \A s \in 1..spawns' : s \in Held(d)' /\ s \in Held(e)' => d = e
    BY <2>2, <2>3 DEF Holders
  <2> QED BY <2>5, <2>7, <2>8, <2>9, <2>10 DEF Holders
<1>4. Alone' /\ DirHolds' BY <1>1 DEF Alone, DirHolds, Others, Busy, PutBack
<1>5. InStep'
  BY <1>1 DEF Typed, OrchTypeOK, Alone, Others, InStep, Settled, Midway, Spared, Busy, PutBack
<1> QED BY <1>2, <1>3, <1>4, <1>5

LEMMA CrashKeeps == ASSUME Inv, Crash PROVE Inv'
<1> USE DEF Inv
<1>1. /\ CallsTyped' /\ \A c \in Callers : ~Busy(c)' /\ call'[c].s = 0 /\ call'[c].old = 0
      /\ UNCHANGED overlap
  <2>1. NoCall \in Call /\ NoCall.pc = "none" /\ NoCall.s = 0 /\ NoCall.old = 0
    BY OrchConstants DEF NoCall, Call, Ops, Pcs
  <2>2. call' \in [Callers -> Call] /\ \A c \in Callers : call'[c] = NoCall
    BY <2>1 DEF Crash
  <2>3. UNCHANGED overlap BY DEF Crash
  <2> QED BY <2>1, <2>2, <2>3 DEF CallsTyped, Busy
<1>2. Typed' BY <1>1, OrchConstants DEF Typed, OrchTypeOK, Crash
<1>3. Holders' BY <1>1 DEF Typed, OrchTypeOK, Holders, Held, Crash
<1>4. Alone' /\ DirHolds' BY <1>1 DEF Alone, DirHolds, Crash
<1>5. InStep' BY DEF Typed, OrchTypeOK, InStep, Crash
<1> QED BY <1>2, <1>3, <1>4, <1>5

LEMMA ShutdownKeeps == ASSUME Inv, NEW c \in Callers, NEW a \in Agents, Shutdown(c, a) PROVE Inv'
<1> USE DEF Inv
<1>0. PICK pc \in {"mark", "stop"} :
          /\ Typed /\ sessions[a] \in 0..MaxSpawns /\ Begin(c, "shutdown", a, pc, sessions[a])
          /\ pc = "mark" <=> sessions[a] = 0
  BY DEF Shutdown, Typed, OrchTypeOK
<1>1. /\ CallsTyped' /\ Others(c) /\ ~Busy(c) /\ call[c].s = 0 /\ call[c].old = 0
      /\ call'[c].pc = pc /\ call'[c].agent = a /\ call'[c].s = sessions[a] /\ call'[c].old = 0
      /\ pc \in {"mark", "stop"} /\ (pc = "mark" <=> sessions[a] = 0)
      /\ overlap' \in BOOLEAN /\ (~overlap' => ~overlap /\ \A d \in Callers : ~Busy(d))
  BY <1>0, BeginView DEF Typed, Ops, Pcs
<1>2. Typed' BY <1>1, OrchConstants DEF Typed, OrchTypeOK, Shutdown
<1>3. Holders'
  <2>1. sessions'[a] = 0 /\ \A b \in Agents : b # a => sessions'[b] = sessions[b]
    BY DEF Shutdown, Typed, OrchTypeOK
  <2>2. UNCHANGED spawns /\ sessions \in [Agents -> Nat] /\ spawns \in Nat
    BY DEF Shutdown, Typed, OrchTypeOK
  <2>3. Held(c)' = {sessions[a]} \ {0} /\ \A d \in Callers : d # c => Held(d)' = Held(d)
    BY <1>1 DEF Held, Others
  <2>4. \A d \in Callers : 0 \notin Held(d) BY DEF Held
  <2>5. \A b \in Agents, d \in Callers : sessions'[b] \notin Held(d)'
    BY <2>1, <2>3, <2>4 DEF Holders
  <2>6. \A d, e \in Callers : \A s \in 1..spawns' : s \in Held(d)' /\ s \in Held(e)' => d = e
    BY <2>2, <2>3 DEF Holders
  <2>7. \A d \in Callers : call'[d].s <= spawns' /\ call'[d].old <= spawns'
    BY <1>1, <2>2 DEF Holders, Others
  <2>8. \A b, e \in Agents : sessions'[b] # 0 /\ sessions'[b] = sessions'[e] => b = e
    BY <2>1 DEF Holders
  <2>9. \A b \in Agents : sessions'[b] <= spawns' BY <2>1, <2>2 DEF Holders
  <2> QED BY <2>5, <2>6, <2>7, <2>8, <2>9 DEF Holders
<1>4. Alone' /\ DirHolds' BY <1>1 DEF Alone, DirHolds, Others, Busy, Shutdown
<1>5. InStep' BY <1>1 DEF Typed, OrchTypeOK, Others, InStep, Settled, Midway, Spared, Busy, Shutdown
<1> QED BY <1>2, <1>3, <1>4, <1>5

LEMMA CheckPendingKeeps == ASSUME Inv, NEW c \in Callers, CheckPending(c) PROVE Inv'
<1> USE DEF Inv
<1>0. PICK pc \in {"honor", "putback"} :
          /\ Typed /\ Busy(c) /\ call[c].pc = "check" /\ Goto(c, pc)
          /\ pc = "honor" <=> call[c].agent \in pending
  BY DEF CheckPending, At, Busy
<1>1. /\ CallsTyped' /\ Others(c) /\ call[c] \in Call /\ call[c].agent \in Agents /\ call[c].pc = "check"
      /\ call'[c].pc = pc /\ call'[c].agent = call[c].agent
      /\ call'[c].s = call[c].s /\ call'[c].old = call[c].old /\ UNCHANGED overlap
      /\ pc \in {"honor", "putback"} /\ (pc = "honor" <=> call[c].agent \in pending)
  BY <1>0, GotoView DEF Typed, CallsTyped, Pcs, CheckPending
<1>2. Typed' BY <1>1 DEF Typed, OrchTypeOK, CheckPending
<1>3. Holders' BY <1>1 DEF Holders, Held, Others, CheckPending
<1>4. Alone' /\ DirHolds' BY <1>1 DEF Alone, DirHolds, Others, Busy, CheckPending
<1>5. InStep' BY <1>1 DEF Others, InStep, Settled, Midway, Spared, Busy, CheckPending
<1> QED BY <1>2, <1>3, <1>4, <1>5

LEMMA AddMemberKeeps == ASSUME Inv, NEW c \in Callers, AddMember(c) PROVE Inv'
<1> USE DEF Inv
<1>0. Typed /\ Busy(c) /\ call[c].pc = "add" /\ (Goto(c, "clear") \/ Return(c))
  BY DEF AddMember, At, Busy
<1>1. /\ CallsTyped' /\ Others(c) /\ call[c] \in Call /\ call[c].agent \in Agents /\ call[c].pc = "add"
      /\ UNCHANGED overlap
      /\ \/ /\ call'[c].pc = "clear" /\ call'[c].agent = call[c].agent
            /\ call'[c].s = call[c].s /\ call'[c].old = call[c].old
            /\ members' = members \cup {call[c].agent} /\ live' = live /\ dir = "team"
            /\ call[c].agent \notin members
         \/ /\ call'[c].pc = "none" /\ call'[c].s = 0 /\ call'[c].old = 0
            /\ members' = members /\ live' = live \ {call[c].s}
      /\ UNCHANGED <<dir, saved, sessions, pending, spawns, slips>>
  <2>1. CASE Goto(c, "clear") /\ dir = "team" /\ call[c].agent \notin members
    BY <1>0, <2>1, GotoView DEF Typed, CallsTyped, Pcs, AddMember
  <2>2. CASE Return(c) /\ ~(dir = "team" /\ call[c].agent \notin members)
    BY <1>0, <2>2, ReturnView DEF Typed, CallsTyped, AddMember
  <2> QED BY <2>1, <2>2 DEF AddMember
<1>2. Typed' BY <1>1 DEF Typed, OrchTypeOK
<1>3. Holders' BY <1>1 DEF Typed, OrchTypeOK, Holders, Held, Others
<1>4. Alone' /\ DirHolds' BY <1>1 DEF Alone, DirHolds, Others, Busy
<1>5. InStep' BY <1>1 DEF Alone, Others, Holders, Held, InStep, Settled, Midway, Spared, Busy
<1> QED BY <1>2, <1>3, <1>4, <1>5

LEMMA StopSessionKeeps == ASSUME Inv, NEW c \in Callers, StopSession(c) PROVE Inv'
<1> USE DEF Inv
<1>0. Typed /\ Busy(c) /\ call[c].pc = "stop" /\ (GoWith(c, "unmember", 0, 0) \/ Return(c))
  BY DEF StopSession, At, Busy
<1>1. /\ CallsTyped' /\ Others(c) /\ call[c] \in Call /\ call[c].agent \in Agents /\ call[c].pc = "stop"
      /\ UNCHANGED overlap /\ call'[c].s = 0 /\ call'[c].old = 0
      /\ \/ call'[c].pc = "unmember" /\ call'[c].agent = call[c].agent /\ UNCHANGED slips
         \/ call'[c].pc = "none" /\ slips < MaxFaults /\ slips' = slips + 1
      /\ live' = live \ {call[c].s}
      /\ UNCHANGED <<dir, members, saved, sessions, pending, spawns>>
  <2>1. CASE GoWith(c, "unmember", 0, 0) /\ UNCHANGED slips
    BY <1>0, <2>1, GoWithView, OrchConstants DEF Typed, CallsTyped, Pcs, StopSession
  <2>2. CASE Return(c) /\ slips < MaxFaults /\ slips' = slips + 1
    BY <1>0, <2>2, ReturnView DEF Typed, CallsTyped, StopSession
  <2> QED BY <2>1, <2>2 DEF StopSession
<1>2. Typed' BY <1>1, OrchConstants DEF Typed, OrchTypeOK, Busy
<1>3. Holders' BY <1>1 DEF Typed, OrchTypeOK, Holders, Held, Others
<1>4. Alone' /\ DirHolds' BY <1>1 DEF Alone, DirHolds, Others, Busy
<1>5. InStep'
  BY <1>1, <1>4 DEF Typed, OrchTypeOK, Alone, Holders, Held, InStep, Settled, Midway, Spared, Busy
<1> QED BY <1>2, <1>3, <1>4, <1>5

-----------------------------------------------------------------------------

LEMMA InvInit == OrchInit => Inv
<1> SUFFICES ASSUME OrchInit PROVE Inv OBVIOUS
<1>1. /\ call \in [Callers -> Call]
      /\ \A c \in Callers : call[c] = NoCall /\ ~Busy(c) /\ Held(c) = {} /\ call[c].s = 0 /\ call[c].old = 0
  BY OrchConstants DEF OrchInit, NoCall, Call, Ops, Pcs, Busy, Held
<1>2. OrchTypeOK
  <2>1. 0 \in 0..MaxSpawns /\ 0 \in 0..MaxFaults BY OrchConstants
  <2>2. sessions \in [Agents -> 0..MaxSpawns] BY <2>1 DEF OrchInit
  <2> QED BY <2>1, <2>2 DEF OrchInit, OrchTypeOK
<1>5. CallsTyped /\ Alone /\ DirHolds /\ overlap \in BOOLEAN
  BY <1>1 DEF OrchInit, CallsTyped, Alone, DirHolds
<1>3. Holders BY <1>1 DEF OrchInit, Holders
<1>4. InStep BY <1>1 DEF OrchInit, InStep, Settled
<1> QED BY <1>2, <1>3, <1>4, <1>5 DEF Inv, Typed

LEMMA InvStep == Inv /\ [OrchNext]_orchVars => Inv'
<1> SUFFICES ASSUME Inv, [OrchNext]_orchVars PROVE Inv' OBVIOUS
<1>1. CASE CreateTeam \/ DeleteTeam \/ WriteInbox \/ Crash
  BY <1>1, CreateTeamKeeps, DeleteTeamKeeps, WriteInboxKeeps, CrashKeeps
<1>2. ASSUME NEW c \in Callers, NEW a \in Agents,
             Spawn(c, a) \/ Resume(c, a) \/ Shutdown(c, a) \/ SendInput(c, a)
      PROVE  Inv'
  BY <1>2, SpawnKeeps, ResumeKeeps, ShutdownKeeps, SendInputKeeps
<1>3. ASSUME NEW c \in Callers,
             \/ AddMember(c) \/ ClearInbox(c) \/ ClearInboxFails(c) \/ UndoMember(c)
             \/ StoreSession(c) \/ ClearPending(c) \/ SaveState(c)
      PROVE  Inv'
  BY <1>3, AddMemberKeeps, ClearInboxKeeps, ClearInboxFailsKeeps, UndoMemberKeeps,
     StoreSessionKeeps, ClearPendingKeeps, SaveStateKeeps
<1>4. ASSUME NEW c \in Callers,
             \/ StopSession(c) \/ MarkPending(c) \/ RemoveMember(c) \/ RemoveState(c)
             \/ CheckPending(c) \/ HonorShutdown(c) \/ PutBack(c)
      PROVE  Inv'
  BY <1>4, StopSessionKeeps, MarkPendingKeeps, RemoveMemberKeeps, RemoveStateKeeps,
     CheckPendingKeeps, HonorShutdownKeeps, PutBackKeeps
<1>5. CASE UNCHANGED orchVars
  BY <1>5 DEF orchVars, Inv, Typed, OrchTypeOK, CallsTyped, Holders, Held, Alone, DirHolds,
     InStep, Settled, Midway, Spared, Busy
<1> QED BY <1>1, <1>2, <1>3, <1>4, <1>5 DEF OrchNext

-----------------------------------------------------------------------------
(* From the invariant to the property.                                     *)

LEMMA AtMostOne ==
  ASSUME NEW S, \A x, y \in S : x = y
  PROVE  IsFiniteSet(S) /\ Cardinality(S) \in {0, 1} /\ (Cardinality(S) = 1 => S # {})
<1>1. CASE S = {} BY <1>1, FS_EmptySet
<1>2. CASE S # {}
  <2>1. PICK x \in S : TRUE BY <1>2
  <2>2. S = {x} BY <2>1
  <2> QED BY <2>2, FS_Singleton
<1> QED BY <1>1, <1>2

LEMMA HoldersAreOne == ASSUME Inv PROVE OneHolder
<1> SUFFICES ASSUME NEW s \in 1..spawns PROVE Places(s) <= 1 BY DEF OneHolder
<1> DEFINE A == {a \in Agents : sessions[a] = s}
           C == {c \in Callers : s \in Held(c)}
<1>1. s # 0 BY DEF Inv, Typed, OrchTypeOK
<1>2. \A x, y \in A : x = y BY <1>1 DEF Inv, Holders
<1>3. \A x, y \in C : x = y BY DEF Inv, Holders
<1>4. A = {} \/ C = {} BY DEF Inv, Holders
<1>5. Cardinality(A) \in {0, 1} /\ (Cardinality(A) = 1 => A # {}) BY <1>2, AtMostOne
<1>6. Cardinality(C) \in {0, 1} /\ (Cardinality(C) = 1 => C # {}) BY <1>3, AtMostOne
<1> HIDE DEF A, C
<1>7. Cardinality(A) + Cardinality(C) <= 1 BY <1>4, <1>5, <1>6
<1> QED BY <1>7 DEF Places, A, C

LEMMA RecordsFollow == ASSUME Inv PROVE RecordsAgree
<1> SUFFICES ASSUME ~overlap, slips = 0, \A c \in Callers : call[c] = NoCall, NEW a \in Agents
             PROVE  /\ a \in members <=> sessions[a] \in live
                    /\ a \in members <=> a \in saved
  BY DEF RecordsAgree
<1>1. Spared(a) BY DEF Spared, Busy, NoCall
<1>2. Settled(a) BY <1>1 DEF Inv, InStep
<1>3. sessions[a] = 0 => sessions[a] \notin live BY DEF Inv, Typed, OrchTypeOK
<1> QED BY <1>2, <1>3 DEF Settled

(* Whatever calls of the orchestrator overlap, a session is in the map or  *)
(* in the hands of one call; calls made one after the other leave the      *)
(* config, the sessions and the saved state of every teammate in step, for *)
(* any number of teammates, callers, spawns and faults.                    *)
THEOREM TeammatesStayConsistent == OrchSpec => []TeammatesAreConsistent
<1>1. Inv => TeammatesAreConsistent
  BY HoldersAreOne, RecordsFollow DEF TeammatesAreConsistent, Inv, Typed
<1> QED BY <1>1, InvInit, InvStep, PTL DEF OrchSpec

-----------------------------------------------------------------------------
(* Recursive functions.  What holds of 0 and of a successor holds of every *)
(* number, as a fact about sets.                                           *)
LEMMA NatsFrom ==
  ASSUME NEW S, 0 \in S, \A n \in Nat : n \in S => n + 1 \in S
  PROVE  \A n \in Nat : n \in S
<1> SUFFICES ASSUME NEW k \in Nat, k \notin S PROVE FALSE
  OBVIOUS
<1> DEFINE T == {n \in Nat : n \notin S}
<1>1. T \subseteq Nat /\ T # {}
  OBVIOUS
<1>2. PICK x \in T : \A y \in T : ~ (<<y, x>> \in OpToRel(<, Nat))
  <2> HIDE DEF T
  <2> QED
    BY WFMin, NatLessThanWellFounded, <1>1, Zenon
<1>3. \A y \in T : ~ (y < x)
  BY <1>2, <1>1, Zenon DEF OpToRel
<1>4. x # 0 /\ x \in Nat /\ x \notin S
  OBVIOUS
<1>5. x - 1 \in Nat /\ x - 1 < x
  BY <1>4
<1>6. x - 1 \in S
  BY <1>3, <1>5
<1> QED
  BY <1>4, <1>5, <1>6

(* A function on 0..n whose values are each made from the one before.      *)
Recursion(f, n, V, v0, step) ==
  f \in [0..n -> V] /\ f[0] = v0 /\ \A d \in 1..n : f[d] = step[d][f[d - 1]]

LEMMA RecursionExists ==
  ASSUME NEW n \in Nat, NEW V, NEW v0 \in V, NEW step \in [1..n -> [V -> V]]
  PROVE  \E f : Recursion(f, n, V, v0, step)
<1> DEFINE Follows(f, k) == f[0] = v0 /\ \A d \in 1..k : f[d] = step[d][f[d - 1]]
           S == {k \in Nat : k <= n => \E f \in [0..k -> V] : Follows(f, k)}
<1>1. 0 \in S
  <2>1. [d \in 0..0 |-> v0] \in [0..0 -> V] /\ Follows([d \in 0..0 |-> v0], 0)
    OBVIOUS
  <2> QED
    BY <2>1
<1>2. ASSUME NEW k \in Nat, k \in S PROVE k + 1 \in S
  <2> SUFFICES ASSUME k + 1 <= n PROVE \E f \in [0..k + 1 -> V] : Follows(f, k + 1)
    OBVIOUS
  <2>1. PICK f \in [0..k -> V] : Follows(f, k)
    BY <1>2
  <2> DEFINE g == [d \in 0..k + 1 |-> IF d = k + 1 THEN step[k + 1][f[k]] ELSE f[d]]
  <2>2. step[k + 1][f[k]] \in V
    OBVIOUS
  <2>3. g \in [0..k + 1 -> V]
    BY <2>2
  <2>4. ASSUME NEW d \in 1..k + 1 PROVE g[d] = step[d][g[d - 1]]
    <3>1. CASE d = k + 1
      <4>1. g[d] = step[k + 1][f[k]] /\ g[d - 1] = f[k]
        BY <3>1
      <4> QED
        BY <3>1, <4>1
    <3>2. CASE d # k + 1
      <4>1. d \in 1..k /\ g[d] = f[d]
        BY <3>2
      <4>2. g[d - 1] = f[d - 1]
        BY <3>2
      <4> QED
        BY <2>1, <4>1, <4>2
    <3> QED
      BY <3>1, <3>2
  <2>5. g[0] = v0
    BY <2>1
  <2> QED
    BY <2>3, <2>4, <2>5
<1>3. n \in S
  <2> HIDE DEF S
  <2> QED
    BY <1>1, <1>2, NatsFrom
<1> QED
  BY <1>3 DEF Recursion

(* The elements of a sequence that are to be kept, in their order, as the  *)
(* code's loops collect them: f[k] are those among the first k.            *)
Collects(f, s, keep, V) ==
  /\ f \in [0..Len(s) -> Seq(V)] /\ f[0] = <<>>
  /\ \A k \in 1..Len(s) : f[k] = IF k \in keep THEN Append(f[k - 1], s[k]) ELSE f[k - 1]

(* x holds those of the first d elements of s that are to be kept.         *)
Collected(x, s, keep, d) ==
  /\ \A j \in 1..Len(x) : \E k \in 1..d : k \in keep /\ x[j] = s[k]
  /\ \A k \in 1..d : k \in keep => \E j \in 1..Len(x) : x[j] = s[k]

LEMMA CollectsExists ==
  ASSUME NEW V, NEW s \in Seq(V), NEW keep
  PROVE  \E f : Collects(f, s, keep, V)
<1> DEFINE n == Len(s)
           step == [k \in 1..n |-> [x \in Seq(V) |-> IF k \in keep THEN Append(x, s[k]) ELSE x]]
<1>1. n \in Nat /\ \A k \in 1..n : s[k] \in V
  OBVIOUS
<1>2. \A k \in 1..n, x \in Seq(V) : (IF k \in keep THEN Append(x, s[k]) ELSE x) \in Seq(V)
  <2> HIDE DEF n
  <2> QED BY <1>1
<1>3. step \in [1..n -> [Seq(V) -> Seq(V)]]
  <2> HIDE DEF n
  <2> QED BY <1>2
<1>4. <<>> \in Seq(V)
  OBVIOUS
<1>5. PICK f : Recursion(f, n, Seq(V), <<>>, step)
  <2> HIDE DEF n, step
  <2> QED BY <1>1, <1>3, <1>4, RecursionExists
<1>6. f \in [0..n -> Seq(V)] /\ f[0] = <<>> /\ \A k \in 1..n : f[k] = step[k][f[k - 1]]
  <2> HIDE DEF n, step
  <2> QED BY <1>5 DEF Recursion
<1>7. ASSUME NEW k \in 1..n PROVE f[k] = IF k \in keep THEN Append(f[k - 1], s[k]) ELSE f[k - 1]
  <2> HIDE DEF n
  <2>1. k - 1 \in 0..n
    BY <1>1
  <2>2. f[k - 1] \in Seq(V)
    BY <1>6, <2>1
  <2>3. f[k] = step[k][f[k - 1]]
    BY <1>6
  <2> QED BY <2>2, <2>3
<1> QED BY <1>6, <1>7 DEF Collects

(* One more element.                                                       *)
LEMMA CollectedNext ==
  ASSUME NEW V, NEW s \in Seq(V), NEW keep, NEW d \in Nat, d + 1 <= Len(s),
         NEW x \in Seq(V), Collected(x, s, keep, d)
  PROVE  LET y == IF d + 1 \in keep THEN Append(x, s[d + 1]) ELSE x
         IN  y \in Seq(V) /\ Collected(y, s, keep, d + 1)
<1> DEFINE y == IF d + 1 \in keep THEN Append(x, s[d + 1]) ELSE x
           e == s[d + 1]
<1>0. e \in V
  OBVIOUS
<1>1. CASE d + 1 \in keep
  <2>1. y = Append(x, e) /\ Len(x) \in Nat
    BY <1>1
  <2> HIDE DEF y, e
  <2>2. y \in Seq(V) /\ Len(y) = Len(x) + 1 /\ y[Len(x) + 1] = e /\ \A j \in 1..Len(x) : y[j] = x[j]
    BY <1>0, <2>1, AppendProperties
  <2>3. ASSUME NEW j \in 1..Len(y) PROVE \E k \in 1..d + 1 : k \in keep /\ y[j] = s[k]
    <3>1. CASE j = Len(x) + 1
      <4>1. d + 1 \in 1..d + 1
        OBVIOUS
      <4> QED BY <4>1, <3>1, <2>2, <1>1 DEF e
    <3>2. CASE j # Len(x) + 1
      <4>1. j \in 1..Len(x)
        BY <3>2, <2>1, <2>2
      <4>2. PICK k \in 1..d : k \in keep /\ x[j] = s[k]
        BY <4>1 DEF Collected
      <4> QED BY <4>1, <4>2, <2>2
    <3> QED BY <3>1, <3>2
  <2>4. ASSUME NEW k \in 1..d + 1, k \in keep PROVE \E j \in 1..Len(y) : y[j] = s[k]
    <3>1. CASE k = d + 1
      BY <3>1, <2>1, <2>2 DEF e
    <3>2. CASE k # d + 1
      <4>1. k \in 1..d
        BY <3>2
      <4>2. PICK j \in 1..Len(x) : x[j] = s[k]
        BY <2>4, <4>1 DEF Collected
      <4> QED BY <4>2, <2>1, <2>2
    <3> QED BY <3>1, <3>2
  <2>5. Collected(y, s, keep, d + 1)
    BY <2>3, <2>4 DEF Collected
  <2> QED BY <2>2, <2>5 DEF y
<1>2. CASE d + 1 \notin keep
  <2>1. \A k \in 1..d + 1 : k \in keep => k \in 1..d
    BY <1>2
  <2>2. \A k \in 1..d : k \in 1..d + 1
    OBVIOUS
  <2>3. Collected(x, s, keep, d + 1)
    BY <2>1, <2>2 DEF Collected
  <2> QED BY <1>2, <2>3
<1> QED BY <1>1, <1>2

(* What was collected was to be kept, and what was to be kept is there.    *)
LEMMA CollectsFacts ==
  ASSUME NEW V, NEW s \in Seq(V), NEW keep, NEW f, f[0] = <<>>,
         \A k \in 1..Len(s) : f[k] = IF k \in keep THEN Append(f[k - 1], s[k]) ELSE f[k - 1]
  PROVE  \A d \in 0..Len(s) : f[d] \in Seq(V) /\ Collected(f[d], s, keep, d)
<1> DEFINE S == {d \in Nat : d <= Len(s) => f[d] \in Seq(V) /\ Collected(f[d], s, keep, d)}
<1>1. 0 \in S
  <2>1. f[0] \in Seq(V) /\ Collected(f[0], s, keep, 0)
    BY DEF Collected
  <2> QED BY <2>1
<1>2. ASSUME NEW d \in Nat, d \in S PROVE d + 1 \in S
  <2>1. CASE d + 1 <= Len(s)
    <3>1. d + 1 \in 1..Len(s) /\ (d + 1) - 1 = d /\ d <= Len(s)
      BY <2>1
    <3>2. f[d + 1] = IF d + 1 \in keep THEN Append(f[d], s[d + 1]) ELSE f[d]
      BY <3>1
    <3>3. f[d] \in Seq(V) /\ Collected(f[d], s, keep, d)
      BY <1>2, <3>1
    <3>4. f[d + 1] \in Seq(V) /\ Collected(f[d + 1], s, keep, d + 1)
      BY <2>1, <3>2, <3>3, CollectedNext
    <3> QED BY <3>4
  <2>2. CASE ~(d + 1 <= Len(s))
    BY <2>2
  <2> QED BY <2>1, <2>2
<1>3. \A d \in Nat : d \in S
  <2> HIDE DEF S
  <2> QED BY <1>1, <1>2, NatsFrom
<1> QED BY <1>3

-----------------------------------------------------------------------------
(* The inbox files                                                         *)

InboxMsg == [n : Nat, id : Nat, read : BOOLEAN]

LEMMA UnreadIs ==
  ASSUME NEW box \in Seq(InboxMsg)
  PROVE  /\ Unread(box) \in Seq(InboxMsg)
         /\ \A j \in 1..Len(Unread(box)) : \E k \in 1..Len(box) : ~box[k].read /\ Unread(box)[j] = box[k]
         /\ \A k \in 1..Len(box) : ~box[k].read => \E j \in 1..Len(Unread(box)) : Unread(box)[j] = box[k]
<1> DEFINE n == Len(box)
           keep == {k \in 1..n : ~box[k].read}
           W(g) == [k \in 0..n |-> IF k = 0 THEN <<>>
                                   ELSE IF box[k].read THEN g[k - 1] ELSE Append(g[k - 1], box[k])]
<1>1. n \in Nat /\ \A k \in 1..n : k \in keep <=> ~box[k].read
  OBVIOUS
<1>2. PICK f : Collects(f, box, keep, InboxMsg)
  <2> HIDE DEF keep
  <2> QED BY CollectsExists
<1>3. f = W(f)
  <2>1. f \in [0..n -> Seq(InboxMsg)] /\ f[0] = <<>>
        /\ \A k \in 1..n : f[k] = IF k \in keep THEN Append(f[k - 1], box[k]) ELSE f[k - 1]
    BY <1>2 DEF Collects
  <2>2. \A k \in 0..n : f[k] = IF k = 0 THEN <<>> ELSE IF box[k].read THEN f[k - 1] ELSE Append(f[k - 1], box[k])
    <3> HIDE DEF n, keep
    <3>1. \A k \in 0..n : k # 0 => k \in 1..n
      BY <1>1
    <3>2. \A k \in 1..n : f[k] = IF box[k].read THEN f[k - 1] ELSE Append(f[k - 1], box[k])
      BY <2>1, <1>1, Zenon
    <3> QED BY <2>1, <3>1, <3>2, Zenon
  <2> QED BY <2>1, <2>2
<1> DEFINE u == CHOOSE g : g = W(g)
<1>4. u = W(u) /\ Unread(box) = u[n]
  <2>1. Unread(box) = u[n]
    BY DEF Unread
  <2> HIDE DEF W
  <2> QED BY <2>1, <1>3
<1> HIDE DEF u
<1>5. u[0] = <<>> /\ \A k \in 1..n : u[k] = IF k \in keep THEN Append(u[k - 1], box[k]) ELSE u[k - 1]
  <2>1. \A k \in 0..n : u[k] = IF k = 0 THEN <<>> ELSE IF box[k].read THEN u[k - 1] ELSE Append(u[k - 1], box[k])
    BY <1>4, Zenon
  <2> HIDE DEF n, keep
  <2> QED BY <2>1, <1>1
<1>6. u[n] \in Seq(InboxMsg) /\ Collected(u[n], box, keep, n)
  <2>1. \A d \in 0..Len(box) : u[d] \in Seq(InboxMsg) /\ Collected(u[d], box, keep, d)
    <3> HIDE DEF keep
    <3> QED BY <1>5, CollectsFacts, Zenon
  <2>2. n \in 0..Len(box)
    BY <1>1
  <2> QED BY <2>1, <2>2, Zenon
<1>7. \A j \in 1..Len(u[n]) : \E k \in 1..n : ~box[k].read /\ u[n][j] = box[k]
  <2> HIDE DEF keep, n
  <2> QED BY <1>1, <1>6, Zenon DEF Collected
<1>8. \A k \in 1..n : ~box[k].read => \E j \in 1..Len(u[n]) : u[n][j] = box[k]
  <2> HIDE DEF keep, n
  <2> QED BY <1>1, <1>6, Zenon DEF Collected
<1> QED BY <1>4, <1>6, <1>7, <1>8

Known(m) == m.n \in Written /\ m.id = IF m.n \in bare THEN 0 ELSE m.n

InboxTyped ==
  /\ inbox \in [Boxes -> Seq(InboxMsg)] /\ batch \in [Boxes -> Seq(InboxMsg)]
  /\ broadcast \subseteq Boxes /\ written \in 0..MaxMessages
  /\ handed \in [1..MaxMessages -> Nat]
  /\ cleared \subseteq Written /\ bare \subseteq Written

(* A number stands for one message: it is in one box only, where the       *)
(* numbers grow, and a consumer's copy has the id of the message.          *)
BoxesHold ==
  /\ \A a \in Boxes : \A k \in 1..Len(inbox[a]) : Known(inbox[a][k])
  /\ \A a \in Boxes : \A k \in 1..Len(batch[a]) : Known(batch[a][k])
  /\ \A a \in Boxes : \A j, k \in 1..Len(inbox[a]) : j < k => inbox[a][j].n < inbox[a][k].n
  /\ \A a, b \in Boxes : \A j \in 1..Len(inbox[a]), k \in 1..Len(inbox[b]) :
        inbox[a][j].n = inbox[b][k].n => a = b

NoneMissing ==
  \A n \in Written : n \in cleared \/ \E a \in Boxes : \E k \in 1..Len(inbox[a]) : inbox[a][k].n = n

(* The id finds this message: it has one, or no older message is without.  *)
Exact(n) == n \in bare => \A k \in bare : n <= k

(* Such a message was handed over once at most, and if it is unread since, *)
(* the consumer still has it before it.                                    *)
InHand(n) ==
  /\ handed[n] <= 1
  /\ \A a \in Boxes : \A k \in 1..Len(inbox[a]) :
       inbox[a][k].n = n /\ ~inbox[a][k].read /\ handed[n] = 1
         => \E j \in 1..Len(batch[a]) : batch[a][j].n = n
Handing ==
  /\ \A n \in Written : Exact(n) => InHand(n)
  /\ \A n \in 1..MaxMessages : n \notin Written => handed[n] = 0

InboxInv == InboxTyped /\ BoxesHold /\ NoneMissing /\ Handing

LEMMA InboxInvInit == InboxInit => InboxInv
<1> SUFFICES ASSUME InboxInit PROVE InboxInv OBVIOUS
<1>0. MaxMessages \in Nat
  BY InboxConstants
<1>1. <<>> \in Seq(InboxMsg) /\ Len(<<>>) = 0
  OBVIOUS
<1>2. Written = {}
  BY DEF InboxInit, Written
<1>3. InboxTyped
  BY <1>0, <1>1, <1>2 DEF InboxInit, InboxTyped
<1>4. BoxesHold /\ NoneMissing
  BY <1>1, <1>2 DEF InboxInit, BoxesHold, NoneMissing
<1>5. Handing
  BY <1>2 DEF InboxInit, Handing
<1> QED BY <1>3, <1>4, <1>5 DEF InboxInv

(* Another message at the end of a box.                                    *)
LEMMA PushKeeps ==
  ASSUME InboxInv, NEW a \in Boxes, NEW native \in BOOLEAN,
         written < MaxMessages, written' = written + 1,
         inbox' = [inbox EXCEPT ![a] = Append(@, InboxMessage(written + 1, native))],
         bare' = (IF native THEN bare \cup {written + 1} ELSE bare),
         broadcast' \subseteq Boxes, UNCHANGED <<batch, handed, cleared>>
  PROVE  InboxInv'
<1> DEFINE w == written + 1
           m == InboxMessage(w, native)
           old == inbox[a]
           new == inbox'[a]
<1>0. MaxMessages \in Nat /\ written \in Nat /\ w \in 1..MaxMessages
  BY InboxConstants DEF InboxInv, InboxTyped
<1>1. m \in InboxMsg /\ m.n = w /\ m.read = FALSE /\ m.id = IF w \in bare' THEN 0 ELSE w
  <2>1. w \in bare' <=> native
    BY <1>0 DEF InboxInv, InboxTyped, Written
  <2> QED BY <1>0, <2>1 DEF InboxMessage, InboxMsg
<1>2. Written' = Written \cup {w} /\ w \notin Written
  BY <1>0 DEF Written
<1> HIDE DEF m
<1>3. old \in Seq(InboxMsg) /\ new = Append(old, m) /\ \A b \in Boxes : b # a => inbox'[b] = inbox[b]
  BY DEF InboxInv, InboxTyped, m
<1>4. /\ new \in Seq(InboxMsg) /\ Len(old) \in Nat /\ Len(new) = Len(old) + 1
      /\ new[Len(old) + 1] = m /\ \A k \in 1..Len(old) : new[k] = old[k]
  <2> HIDE DEF old, new
  <2> QED BY <1>1, <1>3, AppendProperties
<1>5. \A n \in Written : n \in bare' <=> n \in bare
  BY <1>0 DEF Written
<1>6. \A x : Known(x) => Known(x)'
  BY <1>2, <1>5 DEF Known
<1>7. \A b \in Boxes : \A k \in 1..Len(inbox'[b]) :
        \/ k \in 1..Len(inbox[b]) /\ inbox'[b][k] = inbox[b][k] /\ inbox[b][k].n \in Written
        \/ b = a /\ k = Len(old) + 1 /\ inbox'[b][k] = m
  <2> SUFFICES ASSUME NEW b \in Boxes, NEW k \in 1..Len(inbox'[b])
               PROVE  \/ k \in 1..Len(inbox[b]) /\ inbox'[b][k] = inbox[b][k] /\ inbox[b][k].n \in Written
                      \/ b = a /\ k = Len(old) + 1 /\ inbox'[b][k] = m
    OBVIOUS
  <2>1. \A i \in 1..Len(inbox[b]) : inbox[b][i].n \in Written
    BY DEF InboxInv, BoxesHold, Known
  <2>2. CASE b = a
    <3>1. \A i \in 1..Len(new) : i = Len(old) + 1 \/ i \in 1..Len(old)
      <4> HIDE DEF old, new
      <4> QED BY <1>4
    <3> QED BY <2>1, <2>2, <3>1, <1>4
  <2>3. CASE b # a
    BY <2>1, <2>3, <1>3
  <2> QED BY <2>2, <2>3
<1>8. InboxTyped'
  <2>1. inbox' \in [Boxes -> Seq(InboxMsg)]
    BY <1>1, <1>4 DEF InboxInv, InboxTyped, m
  <2>2. cleared' \subseteq Written' /\ bare' \subseteq Written'
    BY <1>2 DEF InboxInv, InboxTyped
  <2> QED BY <1>0, <2>1, <2>2 DEF InboxInv, InboxTyped
<1>9. BoxesHold'
  <2>1. ASSUME NEW b \in Boxes, NEW k \in 1..Len(inbox'[b]) PROVE Known(inbox[b][k])'
    <3>1. CASE k \in 1..Len(inbox[b]) /\ inbox'[b][k] = inbox[b][k]
      <4>1. Known(inbox[b][k])
        BY <3>1 DEF InboxInv, BoxesHold
      <4> QED BY <3>1, <4>1, <1>2, <1>5 DEF Known
    <3>2. CASE inbox'[b][k] = m
      BY <3>2, <1>1, <1>2 DEF Known
    <3> QED BY <2>1, <3>1, <3>2, <1>7
  <2>2. ASSUME NEW b \in Boxes, NEW k \in 1..Len(batch'[b]) PROVE Known(batch[b][k])'
    <3>1. Known(batch[b][k])
      BY DEF InboxInv, BoxesHold
    <3> QED BY <3>1, <1>2, <1>5 DEF Known
  <2>3. ASSUME NEW b \in Boxes, NEW j \in 1..Len(inbox'[b]), NEW k \in 1..Len(inbox'[b]), j < k
        PROVE  inbox'[b][j].n < inbox'[b][k].n
    <3>1. CASE k \in 1..Len(inbox[b]) /\ inbox'[b][k] = inbox[b][k]
      <4>1. j \in 1..Len(inbox[b])
        BY <3>1, <2>3
      <4>2. inbox'[b][j] = inbox[b][j]
        BY <4>1, <1>3, <1>4
      <4> QED BY <3>1, <4>1, <4>2, <2>3 DEF InboxInv, BoxesHold
    <3>2. CASE b = a /\ k = Len(old) + 1 /\ inbox'[b][k] = m
      <4>1. j \in 1..Len(old)
        <5> HIDE DEF old, new
        <5> QED BY <2>3, <3>2, <1>4
      <4>2. inbox'[b][j] = old[j] /\ old[j].n \in Written
        BY <4>1, <3>2, <1>4 DEF InboxInv, BoxesHold, Known
      <4> QED BY <4>2, <3>2, <1>0, <1>1 DEF Written
    <3> QED BY <2>3, <3>1, <3>2, <1>7
  <2>4. ASSUME NEW b \in Boxes, NEW c \in Boxes, NEW j \in 1..Len(inbox'[b]), NEW k \in 1..Len(inbox'[c]),
               inbox'[b][j].n = inbox'[c][k].n, b # c
        PROVE  FALSE
    <3>1. CASE inbox'[b][j] = m
      <4>1. b = a /\ c # a
        BY <1>1, <1>2, <1>7, <2>4, <3>1
      <4>2. inbox'[c][k].n \in Written
        BY <1>7, <4>1
      <4> QED BY <4>2, <3>1, <2>4, <1>1, <1>2
    <3>2. CASE inbox'[c][k] = m
      <4>1. c = a /\ b # a
        BY <1>1, <1>2, <1>7, <2>4, <3>2
      <4>2. inbox'[b][j].n \in Written
        BY <1>7, <4>1
      <4> QED BY <4>2, <3>2, <2>4, <1>1, <1>2
    <3>3. CASE inbox'[b][j] # m /\ inbox'[c][k] # m
      <4>1. /\ j \in 1..Len(inbox[b]) /\ inbox'[b][j] = inbox[b][j]
            /\ k \in 1..Len(inbox[c]) /\ inbox'[c][k] = inbox[c][k]
        BY <1>7, <3>3
      <4> QED BY <4>1, <2>4 DEF InboxInv, BoxesHold
    <3> QED BY <3>1, <3>2, <3>3
  <2> QED BY <2>1, <2>2, <2>3, <2>4 DEF BoxesHold
<1>10. NoneMissing'
  <2> SUFFICES ASSUME NEW n \in Written', n \notin cleared
               PROVE  \E b \in Boxes : \E k \in 1..Len(inbox'[b]) : inbox'[b][k].n = n
    BY DEF NoneMissing
  <2>1. CASE n = w
    <3>1. Len(old) + 1 \in 1..Len(new)
      <4> HIDE DEF old, new
      <4> QED BY <1>4
    <3> QED BY <2>1, <3>1, <1>1, <1>4
  <2>2. CASE n # w
    <3>1. PICK b \in Boxes : \E k \in 1..Len(inbox[b]) : inbox[b][k].n = n
      BY <2>2, <1>2 DEF InboxInv, NoneMissing
    <3>2. PICK k \in 1..Len(inbox[b]) : inbox[b][k].n = n
      BY <3>1
    <3>3. k \in 1..Len(inbox'[b]) /\ inbox'[b][k] = inbox[b][k]
      <4>1. CASE b = a
        <5>1. \A i \in 1..Len(old) : i \in 1..Len(new)
          <6> HIDE DEF old, new
          <6> QED BY <1>4
        <5> QED BY <4>1, <5>1, <1>4
      <4>2. CASE b # a
        BY <4>2, <1>3
      <4> QED BY <4>1, <4>2
    <3> QED BY <3>2, <3>3
  <2> QED BY <2>1, <2>2
<1>11. Handing'
  <2>1. ASSUME NEW n \in Written', Exact(n)' PROVE InHand(n)'
    <3>1. CASE n = w
      <4>1. handed'[n] = 0
        BY <3>1, <1>0, <1>2 DEF InboxInv, Handing
      <4> QED BY <4>1 DEF InHand
    <3>2. CASE n # w
      <4>1. n \in Written
        BY <3>2, <1>2
      <4>2. Exact(n)
        BY <2>1, <4>1, <1>5 DEF Exact, InboxInv, InboxTyped
      <4>3. InHand(n)
        BY <4>1, <4>2 DEF InboxInv, Handing
      <4>4. \A b \in Boxes : \A k \in 1..Len(inbox'[b]) :
              inbox'[b][k].n = n => k \in 1..Len(inbox[b]) /\ inbox'[b][k] = inbox[b][k]
        BY <1>1, <1>7, <3>2
      <4> QED BY <4>3, <4>4 DEF InHand
    <3> QED BY <3>1, <3>2
  <2>2. \A n \in 1..MaxMessages : n \notin Written' => handed'[n] = 0
    BY <1>2 DEF InboxInv, Handing
  <2> QED BY <2>1, <2>2 DEF Handing
<1> QED BY <1>8, <1>9, <1>10, <1>11 DEF InboxInv

(* Marking sets the first message with the id, and touches no other field. *)
LEMMA MarkedIs ==
  ASSUME NEW box \in Seq(InboxMsg), NEW id \in Nat
  PROVE  LET m == Marked(box, id)
         IN  /\ m \in Seq(InboxMsg) /\ Len(m) = Len(box)
             /\ \A k \in 1..Len(box) : /\ m[k].n = box[k].n /\ m[k].id = box[k].id
                                       /\ ~m[k].read => ~box[k].read
             /\ \A k \in 1..Len(box) :
                  box[k].id = id /\ (\A j \in 1..Len(box) : box[j].id = id => k <= j) => m[k].read
<1> DEFINE found == {k \in DOMAIN box : box[k].id = id}
           c == CHOOSE k \in found : \A j \in found : k <= j
           m == Marked(box, id)
<1>0. DOMAIN box = 1..Len(box) /\ \A k \in 1..Len(box) : box[k] \in InboxMsg
  OBVIOUS
<1>1. m = IF found = {} THEN box ELSE [box EXCEPT ![c].read = TRUE]
  BY DEF Marked
<1>2. \A k \in 1..Len(box) :
        box[k].id = id /\ (\A j \in 1..Len(box) : box[j].id = id => k <= j) => found # {} /\ c = k
  <2> SUFFICES ASSUME NEW k \in 1..Len(box), box[k].id = id, \A j \in 1..Len(box) : box[j].id = id => k <= j
               PROVE  found # {} /\ c = k
    OBVIOUS
  <2>0. DOMAIN box = 1..Len(box)
    BY <1>0
  <2>1. k \in found /\ \A j \in found : k <= j
    <3>1. k \in found
      BY <2>0, Zenon
    <3>2. \A j \in found : k <= j
      BY <2>0, Zenon
    <3> QED BY <3>1, <3>2
  <2>2. \A j \in found : j \in Int
    BY <1>0
  <2> HIDE DEF found
  <2>3. c \in found /\ \A j \in found : c <= j
    BY <2>1
  <2> HIDE DEF c
  <2>4. k \in Int /\ c \in Int /\ k <= c /\ c <= k
    BY <2>1, <2>2, <2>3
  <2>5. c = k
    BY <2>4
  <2> QED BY <2>1, <2>5
<1> HIDE DEF found, c, m
<1>3. CASE found = {}
  <2>1. m = box
    BY <1>1, <1>3
  <2> QED BY <2>1, <1>2, <1>3 DEF m
<1>4. CASE found # {}
  <2>1. m = [box EXCEPT ![c].read = TRUE]
    BY <1>1, <1>4
  <2>2. \A k \in 1..Len(box) : m[k] = IF k = c THEN [box[k] EXCEPT !.read = TRUE] ELSE box[k]
    BY <2>1, <1>0
  <2>3. \A k \in 1..Len(box) : m[k] \in InboxMsg
    BY <2>2, <1>0 DEF InboxMsg
  <2>4. m \in Seq(InboxMsg) /\ Len(m) = Len(box)
    <3>1. DOMAIN m = 1..Len(box)
      BY <2>1, <1>0
    <3>2. m = [k \in 1..Len(box) |-> m[k]]
      BY <2>1, <3>1
    <3>3. m \in [1..Len(box) -> InboxMsg] /\ Len(box) \in Nat
      BY <2>3, <3>2
    <3>4. m \in Seq(InboxMsg)
      BY <3>3, IsASeq
    <3> QED BY <3>1, <3>3, <3>4, LenProperties
  <2>5. \A k \in 1..Len(box) : m[k].n = box[k].n /\ m[k].id = box[k].id /\ (~m[k].read => ~box[k].read)
    <3> SUFFICES ASSUME NEW k \in 1..Len(box)
                 PROVE  m[k].n = box[k].n /\ m[k].id = box[k].id /\ (~m[k].read => ~box[k].read)
      OBVIOUS
    <3>1. box[k] \in InboxMsg
      BY <1>0
    <3>2. CASE k = c
      BY <3>1, <3>2, <2>2 DEF InboxMsg
    <3>3. CASE k # c
      BY <3>3, <2>2
    <3> QED BY <3>2, <3>3
  <2>6. c \in 1..Len(box) => m[c].read
    <3> SUFFICES ASSUME c \in 1..Len(box) PROVE m[c].read
      OBVIOUS
    <3>1. m[c] = [box[c] EXCEPT !.read = TRUE] /\ box[c] \in InboxMsg
      BY <2>2, <1>0
    <3> QED BY <3>1 DEF InboxMsg
  <2> QED BY <2>4, <2>5, <2>6, <1>2 DEF m
<1> QED BY <1>3, <1>4

LEMMA PollKeeps == ASSUME InboxInv, NEW a \in Boxes, Poll(a) PROVE InboxInv'
<1> DEFINE u == Unread(inbox[a])
<1>0. inbox[a] \in Seq(InboxMsg) /\ MaxMessages \in Nat
  BY InboxConstants DEF InboxInv, InboxTyped
<1>1. /\ u \in Seq(InboxMsg)
      /\ \A j \in 1..Len(u) : \E k \in 1..Len(inbox[a]) : ~inbox[a][k].read /\ u[j] = inbox[a][k]
      /\ \A k \in 1..Len(inbox[a]) : ~inbox[a][k].read => \E j \in 1..Len(u) : u[j] = inbox[a][k]
  BY <1>0, UnreadIs
<1> HIDE DEF u
<1>2. /\ batch[a] = <<>> /\ batch' = [batch EXCEPT ![a] = u]
      /\ handed' = [n \in 1..MaxMessages |->
                      IF handed[n] < 2 /\ \E k \in DOMAIN batch'[a] : batch'[a][k].n = n
                      THEN handed[n] + 1 ELSE handed[n]]
      /\ UNCHANGED <<inbox, broadcast, written, cleared, bare>>
  BY DEF Poll, u
<1>3. batch'[a] = u /\ DOMAIN u = 1..Len(u) /\ \A b \in Boxes : b # a => batch'[b] = batch[b]
  BY <1>1, <1>2 DEF InboxInv, InboxTyped
<1>4. Written' = Written
  BY <1>2 DEF Written
<1>5. InboxTyped'
  <2>1. handed' \in [1..MaxMessages -> Nat]
    BY <1>2 DEF InboxInv, InboxTyped
  <2>2. batch' \in [Boxes -> Seq(InboxMsg)]
    BY <1>1, <1>2 DEF InboxInv, InboxTyped
  <2> QED BY <2>1, <2>2, <1>2, <1>4 DEF InboxInv, InboxTyped
<1>6. BoxesHold'
  <2>1. ASSUME NEW b \in Boxes, NEW k \in 1..Len(batch'[b]) PROVE Known(batch[b][k])'
    <3>1. CASE b = a
      <4>1. PICK i \in 1..Len(inbox[a]) : u[k] = inbox[a][i]
        BY <2>1, <3>1, <1>1, <1>3
      <4>2. Known(inbox[a][i])
        BY DEF InboxInv, BoxesHold
      <4> QED BY <3>1, <4>1, <4>2, <1>2, <1>3, <1>4 DEF Known
    <3>2. CASE b # a
      <4>1. batch'[b] = batch[b]
        BY <3>2, <1>3
      <4>2. Known(batch[b][k])
        BY <4>1, <2>1 DEF InboxInv, BoxesHold
      <4> QED BY <4>1, <4>2, <1>2, <1>4 DEF Known
    <3> QED BY <3>1, <3>2
  <2> QED BY <2>1, <1>2, <1>4 DEF InboxInv, BoxesHold, Known
<1>7. NoneMissing'
  BY <1>2, <1>4 DEF InboxInv, NoneMissing
<1>8. Handing'
  <2>1. ASSUME NEW n \in Written', Exact(n)' PROVE InHand(n)'
    <3>1. InHand(n) /\ n \in 1..MaxMessages
      <4>1. Exact(n)
        BY <2>1, <1>2 DEF Exact
      <4>2. InHand(n)
        BY <4>1, <2>1, <1>4 DEF InboxInv, Handing
      <4>3. n \in 1..MaxMessages
        <5>1. written \in 0..MaxMessages /\ n \in 1..written
          BY <2>1, <1>4 DEF InboxInv, InboxTyped, Written
        <5> QED BY <5>1, <1>0
      <4> QED BY <4>2, <4>3
    <3>2. CASE \E j \in 1..Len(u) : u[j].n = n
      <4>1. PICK j \in 1..Len(u) : u[j].n = n
        BY <3>2
      <4>2. PICK i \in 1..Len(inbox[a]) : ~inbox[a][i].read /\ u[j] = inbox[a][i]
        BY <1>1
      <4>3. ~ \E k \in 1..Len(batch[a]) : batch[a][k].n = n
        BY <1>2
      <4>4. handed[n] # 1
        BY <3>1, <4>1, <4>2, <4>3 DEF InHand
      <4>5. handed[n] = 0
        <5>1. handed[n] \in Nat
          BY <3>1 DEF InboxInv, InboxTyped
        <5> QED BY <5>1, <3>1, <4>4 DEF InHand
      <4>6. handed'[n] = 1
        BY <3>1, <3>2, <4>5, <1>2, <1>3
      <4>7. \A b \in Boxes : \A k \in 1..Len(inbox[b]) : inbox[b][k].n = n => b = a
        BY <4>1, <4>2 DEF InboxInv, BoxesHold
      <4> QED BY <4>1, <4>6, <4>7, <1>2, <1>3 DEF InHand
    <3>3. CASE ~ \E j \in 1..Len(u) : u[j].n = n
      <4>1. handed'[n] = handed[n]
        BY <3>1, <3>3, <1>2, <1>3
      <4>2. ASSUME NEW b \in Boxes, NEW k \in 1..Len(inbox[b]),
                   inbox[b][k].n = n, ~inbox[b][k].read, handed[n] = 1
            PROVE  \E j \in 1..Len(batch'[b]) : batch'[b][j].n = n
        <5>1. b # a
          BY <3>3, <4>2, <1>1
        <5>2. \E j \in 1..Len(batch[b]) : batch[b][j].n = n
          BY <3>1, <4>2 DEF InHand
        <5> QED BY <5>1, <5>2, <1>3
      <4> QED BY <3>1, <4>1, <4>2, <1>2 DEF InHand
    <3> QED BY <3>2, <3>3
  <2>2. ASSUME NEW n \in 1..MaxMessages, n \notin Written' PROVE handed'[n] = 0
    <3>1. ~ \E j \in 1..Len(u) : u[j].n = n
      <4> SUFFICES ASSUME NEW j \in 1..Len(u), u[j].n = n PROVE FALSE
        OBVIOUS
      <4>1. PICK i \in 1..Len(inbox[a]) : u[j] = inbox[a][i]
        BY <1>1
      <4>2. Known(inbox[a][i])
        BY DEF InboxInv, BoxesHold
      <4> QED BY <4>1, <4>2, <2>2, <1>4 DEF Known
    <3>2. handed'[n] = handed[n]
      BY <3>1, <1>2, <1>3
    <3> QED BY <3>2, <2>2, <1>4 DEF InboxInv, Handing
  <2> QED BY <2>1, <2>2, <1>2 DEF Handing
<1> QED BY <1>5, <1>6, <1>7, <1>8 DEF InboxInv

LEMMA MarkReadKeeps == ASSUME InboxInv, NEW a \in Boxes, MarkRead(a) PROVE InboxInv'
<1> DEFINE box == inbox[a]
           h == Head(batch[a])
           new == Marked(box, h.id)
<1>0. box \in Seq(InboxMsg) /\ batch[a] \in Seq(InboxMsg) /\ batch[a] # <<>>
  BY DEF InboxInv, InboxTyped, MarkRead
<1>1. /\ h \in InboxMsg /\ h = batch[a][1] /\ Tail(batch[a]) \in Seq(InboxMsg) /\ Len(batch[a]) \in Nat
      /\ Len(batch[a]) > 0 /\ Len(Tail(batch[a])) = Len(batch[a]) - 1
      /\ \A k \in 1..Len(Tail(batch[a])) : Tail(batch[a])[k] = batch[a][k + 1]
  BY <1>0, HeadTailProperties, EmptySeq, LenProperties
<1>2. Known(h) /\ h.id \in Nat
  BY <1>1 DEF InboxInv, BoxesHold, InboxMsg
<1>3. /\ new \in Seq(InboxMsg) /\ Len(new) = Len(box)
      /\ \A k \in 1..Len(box) : new[k].n = box[k].n /\ new[k].id = box[k].id /\ (~new[k].read => ~box[k].read)
      /\ \A k \in 1..Len(box) :
           box[k].id = h.id /\ (\A j \in 1..Len(box) : box[j].id = h.id => k <= j) => new[k].read
  <2> HIDE DEF box, h
  <2> QED BY <1>0, <1>2, MarkedIs
<1> HIDE DEF new, h
<1>4. /\ inbox' = [inbox EXCEPT ![a] = new] /\ batch' = [batch EXCEPT ![a] = Tail(@)]
      /\ UNCHANGED <<broadcast, written, handed, cleared, bare>>
  BY DEF MarkRead, new, h
<1>5. /\ inbox'[a] = new /\ batch'[a] = Tail(batch[a])
      /\ \A b \in Boxes : b # a => inbox'[b] = inbox[b] /\ batch'[b] = batch[b]
  BY <1>4 DEF InboxInv, InboxTyped
<1>6. Written' = Written
  BY <1>4 DEF Written
<1>7. \A b \in Boxes : /\ Len(inbox'[b]) = Len(inbox[b])
                       /\ \A k \in 1..Len(inbox[b]) : /\ inbox'[b][k].n = inbox[b][k].n
                                                      /\ inbox'[b][k].id = inbox[b][k].id
                                                      /\ ~inbox'[b][k].read => ~inbox[b][k].read
  BY <1>3, <1>5
<1>8. InboxTyped'
  <2>1. inbox' \in [Boxes -> Seq(InboxMsg)] /\ batch' \in [Boxes -> Seq(InboxMsg)]
    BY <1>1, <1>3, <1>4 DEF InboxInv, InboxTyped
  <2> QED BY <2>1, <1>4, <1>6 DEF InboxInv, InboxTyped
<1>9. BoxesHold'
  <2>1. ASSUME NEW b \in Boxes, NEW k \in 1..Len(inbox'[b]) PROVE Known(inbox[b][k])'
    <3>1. Known(inbox[b][k])
      BY <2>1, <1>7 DEF InboxInv, BoxesHold
    <3> QED BY <3>1, <2>1, <1>4, <1>6, <1>7 DEF Known
  <2>2. ASSUME NEW b \in Boxes, NEW k \in 1..Len(batch'[b]) PROVE Known(batch[b][k])'
    <3>1. \E i \in 1..Len(batch[b]) : batch'[b][k] = batch[b][i]
      <4>1. CASE b = a
        <5>1. k + 1 \in 1..Len(batch[a]) /\ k \in 1..Len(Tail(batch[a]))
          BY <2>2, <4>1, <1>1, <1>5
        <5> QED BY <5>1, <4>1, <1>1, <1>5
      <4>2. CASE b # a
        BY <2>2, <4>2, <1>5
      <4> QED BY <4>1, <4>2
    <3>2. Known(batch'[b][k])
      BY <3>1 DEF InboxInv, BoxesHold
    <3> QED BY <3>2, <1>4, <1>6 DEF Known
  <2>3. \A b \in Boxes : \A j, k \in 1..Len(inbox'[b]) : j < k => inbox'[b][j].n < inbox'[b][k].n
    BY <1>7 DEF InboxInv, BoxesHold
  <2>4. \A b, c \in Boxes : \A j \in 1..Len(inbox'[b]), k \in 1..Len(inbox'[c]) :
          inbox'[b][j].n = inbox'[c][k].n => b = c
    BY <1>7 DEF InboxInv, BoxesHold
  <2> QED BY <2>1, <2>2, <2>3, <2>4 DEF BoxesHold
<1>10. NoneMissing'
  <2> SUFFICES ASSUME NEW n \in Written, n \notin cleared
               PROVE  \E b \in Boxes : \E k \in 1..Len(inbox'[b]) : inbox'[b][k].n = n
    BY <1>4, <1>6 DEF NoneMissing
  <2>1. PICK b \in Boxes : \E k \in 1..Len(inbox[b]) : inbox[b][k].n = n
    BY DEF InboxInv, NoneMissing
  <2> QED BY <2>1, <1>7
<1>11. Handing'
  <2>1. ASSUME NEW n \in Written, Exact(n) PROVE InHand(n)'
    <3>1. InHand(n)
      BY <2>1 DEF InboxInv, Handing
    <3>2. ASSUME NEW b \in Boxes, NEW k \in 1..Len(inbox'[b]),
                 inbox'[b][k].n = n, ~inbox'[b][k].read, handed[n] = 1
          PROVE  \E j \in 1..Len(batch'[b]) : batch'[b][j].n = n
      <4>1. /\ k \in 1..Len(inbox[b]) /\ inbox[b][k].n = n /\ ~inbox[b][k].read
        BY <3>2, <1>7
      <4>2. PICK j \in 1..Len(batch[b]) : batch[b][j].n = n
        BY <3>1, <3>2, <4>1 DEF InHand
      <4>3. CASE b # a
        BY <4>2, <4>3, <1>5
      <4>4. CASE b = a /\ j # 1
        <5>1. j - 1 \in 1..Len(Tail(batch[a])) /\ (j - 1) + 1 = j
          BY <4>2, <4>4, <1>1
        <5> QED BY <5>1, <4>2, <4>4, <1>1, <1>5
      <4>5. CASE b = a /\ j = 1
        <5>1. h.n = n /\ k \in 1..Len(box) /\ box[k].n = n
          BY <4>1, <4>2, <4>5, <1>1
        <5>2. \A i \in 1..Len(box) : Known(box[i])
          BY DEF InboxInv, BoxesHold
        <5>3. box[k].id = h.id
          BY <5>1, <5>2, <1>2 DEF Known
        <5>4. ASSUME NEW i \in 1..Len(box), box[i].id = h.id PROVE k <= i
          <6>1. box[i].n \in Nat /\ n \in Nat /\ box[i].n \in Written
            BY <5>2, <2>1 DEF Known, Written, InboxInv, InboxTyped
          <6>2. n <= box[i].n
            <7>1. CASE n \in bare
              <8>1. box[i].id = 0
                BY <5>1, <5>4, <7>1, <1>2 DEF Known
              <8>2. box[i].n \in bare
                BY <8>1, <5>2, <6>1 DEF Known, Written
              <8> QED BY <8>2, <7>1, <2>1 DEF Exact
            <7>2. CASE n \notin bare
              <8>1. box[i].id = n /\ n # 0
                BY <5>1, <5>4, <7>2, <1>2, <2>1 DEF Known, Written
              <8>2. box[i].n = n
                BY <8>1, <5>2 DEF Known
              <8> QED BY <8>2, <6>1
            <7> QED BY <7>1, <7>2
          <6>3. i < k => box[i].n < box[k].n
            BY <5>1 DEF InboxInv, BoxesHold
          <6> QED BY <5>1, <6>1, <6>2, <6>3
        <5>5. new[k].read
          BY <5>1, <5>3, <5>4, <1>3
        <5> QED BY <5>5, <4>5, <3>2, <1>5
      <4> QED BY <4>3, <4>4, <4>5
    <3> QED BY <3>1, <3>2, <1>4 DEF InHand
  <2> QED BY <2>1, <1>4, <1>6 DEF InboxInv, Handing, Exact
<1> QED BY <1>8, <1>9, <1>10, <1>11 DEF InboxInv

LEMMA EmptyInboxKeeps == ASSUME InboxInv, NEW a \in Boxes, EmptyInbox(a) PROVE InboxInv'
<1>1. /\ inbox' = [inbox EXCEPT ![a] = <<>>]
      /\ cleared' = cleared \cup {inbox[a][k].n : k \in DOMAIN inbox[a]}
      /\ UNCHANGED <<broadcast, batch, written, handed, bare>>
  BY DEF EmptyInbox
<1>2. /\ inbox'[a] = <<>> /\ Len(inbox'[a]) = 0 /\ \A b \in Boxes : b # a => inbox'[b] = inbox[b]
      /\ DOMAIN inbox[a] = 1..Len(inbox[a])
  BY <1>1 DEF InboxInv, InboxTyped
<1>3. Written' = Written
  BY <1>1 DEF Written
<1>4. InboxTyped'
  <2>1. inbox' \in [Boxes -> Seq(InboxMsg)]
    BY <1>1 DEF InboxInv, InboxTyped
  <2>2. cleared' \subseteq Written
    BY <1>1, <1>2 DEF InboxInv, InboxTyped, BoxesHold, Known
  <2> QED BY <2>1, <2>2, <1>1, <1>3 DEF InboxInv, InboxTyped
<1>5. \A b \in Boxes : \A k \in 1..Len(inbox'[b]) : b # a /\ k \in 1..Len(inbox[b]) /\ inbox'[b] = inbox[b]
  BY <1>2
<1>6. BoxesHold'
  <2>1. ASSUME NEW b \in Boxes, NEW k \in 1..Len(inbox'[b]) PROVE Known(inbox[b][k])'
    <3>1. Known(inbox[b][k])
      BY <1>5 DEF InboxInv, BoxesHold
    <3> QED BY <3>1, <1>1, <1>3, <1>5 DEF Known
  <2>2. ASSUME NEW b \in Boxes, NEW k \in 1..Len(batch'[b]) PROVE Known(batch[b][k])'
    <3>1. Known(batch[b][k])
      BY <1>1 DEF InboxInv, BoxesHold
    <3> QED BY <3>1, <1>1, <1>3 DEF Known
  <2>3. \A b \in Boxes : \A j, k \in 1..Len(inbox'[b]) : j < k => inbox'[b][j].n < inbox'[b][k].n
    BY <1>5 DEF InboxInv, BoxesHold
  <2>4. \A b, c \in Boxes : \A j \in 1..Len(inbox'[b]), k \in 1..Len(inbox'[c]) :
          inbox'[b][j].n = inbox'[c][k].n => b = c
    BY <1>5 DEF InboxInv, BoxesHold
  <2> QED BY <2>1, <2>2, <2>3, <2>4 DEF BoxesHold
<1>7. NoneMissing'
  <2> SUFFICES ASSUME NEW n \in Written, n \notin cleared'
               PROVE  \E b \in Boxes : \E k \in 1..Len(inbox'[b]) : inbox'[b][k].n = n
    BY <1>3 DEF NoneMissing
  <2>1. PICK b \in Boxes : \E k \in 1..Len(inbox[b]) : inbox[b][k].n = n
    BY <1>1 DEF InboxInv, NoneMissing
  <2>2. b # a
    BY <2>1, <1>1, <1>2
  <2> QED BY <2>1, <2>2, <1>2
<1>8. Handing'
  <2>1. ASSUME NEW n \in Written, Exact(n) PROVE InHand(n)'
    <3>1. InHand(n)
      BY <2>1 DEF InboxInv, Handing
    <3> QED BY <3>1, <1>1, <1>5 DEF InHand
  <2> QED BY <2>1, <1>1, <1>3 DEF InboxInv, Handing, Exact
<1> QED BY <1>4, <1>6, <1>7, <1>8 DEF InboxInv

LEMMA InboxInvStep == InboxInv /\ [InboxNext]_inboxVars => InboxInv'
<1> SUFFICES ASSUME InboxInv, [InboxNext]_inboxVars PROVE InboxInv' OBVIOUS
<1>1. ASSUME NEW a \in Boxes, NEW native \in BOOLEAN, SendMessage(a, native) PROVE InboxInv'
  <2>1. broadcast' \subseteq Boxes
    BY <1>1 DEF SendMessage, InboxInv, InboxTyped
  <2> QED BY <1>1, <2>1, PushKeeps DEF SendMessage, Pushed
<1>2. ASSUME NEW a \in Boxes, BroadcastTo(a) PROVE InboxInv'
  <2>1. broadcast' \subseteq Boxes
    BY <1>2 DEF BroadcastTo, InboxInv, InboxTyped
  <2>2. bare' = IF FALSE THEN bare \cup {written + 1} ELSE bare
    BY <1>2 DEF BroadcastTo
  <2> QED BY <1>2, <2>1, <2>2, PushKeeps DEF BroadcastTo, Pushed
<1>3. ASSUME broadcast' \subseteq Boxes, UNCHANGED <<inbox, batch, written, handed, cleared, bare>> PROVE InboxInv'
  <2>1. Written' = Written
    BY <1>3 DEF Written
  <2>2. InboxTyped'
    BY <1>3, <2>1 DEF InboxInv, InboxTyped
  <2>3. BoxesHold' /\ NoneMissing'
    BY <1>3, <2>1 DEF InboxInv, BoxesHold, NoneMissing, Known
  <2>4. Handing'
    BY <1>3, <2>1 DEF InboxInv, Handing, InHand, Exact
  <2> QED BY <2>2, <2>3, <2>4 DEF InboxInv
<1>4. CASE BroadcastFails
  BY <1>3, <1>4 DEF BroadcastFails
<1>5. ASSUME NEW a \in Boxes, Broadcast(a) PROVE InboxInv'
  BY <1>3, <1>5 DEF Broadcast
<1>6. CASE UNCHANGED inboxVars
  BY <1>3, <1>6 DEF inboxVars, InboxInv, InboxTyped
<1> QED BY <1>1, <1>2, <1>4, <1>5, <1>6, PollKeeps, MarkReadKeeps, EmptyInboxKeeps DEF InboxNext

LEMMA InboxInvSays == InboxInv => InboxTypeOK /\ NothingOverwritten /\ HandedOnce
<1> SUFFICES ASSUME InboxInv PROVE InboxTypeOK /\ NothingOverwritten /\ HandedOnce OBVIOUS
<1>1. \A a \in Boxes : DOMAIN inbox[a] = 1..Len(inbox[a])
  BY DEF InboxInv, InboxTyped
<1>2. \A a \in Boxes : \A k \in 1..Len(inbox[a]) : inbox[a][k].n \in Written
  BY DEF InboxInv, BoxesHold, Known
<1>3. InboxTypeOK
  BY <1>1, <1>2 DEF InboxInv, InboxTyped, InboxTypeOK
<1>4. NothingOverwritten
  <2>1. Written \subseteq cleared \cup UNION {{inbox[a][k].n : k \in DOMAIN inbox[a]} : a \in Boxes}
    BY <1>1 DEF InboxInv, NoneMissing
  <2>2. cleared \cup UNION {{inbox[a][k].n : k \in DOMAIN inbox[a]} : a \in Boxes} \subseteq Written
    BY <1>1, <1>2 DEF InboxInv, InboxTyped
  <2>3. \A a \in Boxes : \A j, k \in DOMAIN inbox[a] : j < k => inbox[a][j].n < inbox[a][k].n
    BY <1>1 DEF InboxInv, BoxesHold
  <2> QED BY <2>1, <2>2, <2>3 DEF NothingOverwritten
<1>5. HandedOnce
  <2> SUFFICES ASSUME NEW n \in Written, handed[n] > 1 PROVE n \in bare /\ \E k \in bare : k < n
    BY DEF HandedOnce
  <2>1. ~Exact(n)
    <3>1. ~(handed[n] <= 1)
      <4>1. written \in 0..MaxMessages /\ n \in 1..written /\ handed \in [1..MaxMessages -> Nat]
        BY DEF InboxInv, InboxTyped, Written
      <4>2. handed[n] \in Nat
        BY <4>1, InboxConstants
      <4> QED BY <4>2
    <3> QED BY <3>1 DEF InboxInv, Handing, InHand
  <2>2. PICK k \in bare : ~(n <= k)
    BY <2>1 DEF Exact
  <2>3. n \in Int /\ k \in Int
    BY DEF InboxInv, InboxTyped, Written
  <2> QED BY <2>1, <2>2, <2>3 DEF Exact
<1> QED BY <1>3, <1>4, <1>5

-----------------------------------------------------------------------------
(* An agent's memory                                                       *)

MemTurn == [n : Nat, size : Nat]
WalkState == [on : BOOLEAN, room : Nat, count : Nat]

(* The sizes of the k newest turns.                                        *)
Sums(f, turns) ==
  f[0] = 0 /\ \A k \in 1..Len(turns) : f[k] = f[k - 1] + turns[Len(turns) - k + 1].size

LEMMA NewestIs ==
  ASSUME NEW turns \in Seq(MemTurn), NEW k \in 1..Len(turns)
  PROVE  turns[Len(turns) - k + 1] \in MemTurn /\ turns[Len(turns) - k + 1].size \in Nat
<1>1. Len(turns) - k + 1 \in 1..Len(turns)
  OBVIOUS
<1>2. turns[Len(turns) - k + 1] \in MemTurn
  BY <1>1, ElementOfSeq
<1> QED BY <1>2 DEF MemTurn

LEMMA SumsTyped ==
  ASSUME NEW turns \in Seq(MemTurn), NEW f, Sums(f, turns)
  PROVE  \A k \in 0..Len(turns) : f[k] \in Nat
<1> DEFINE S == {d \in Nat : d <= Len(turns) => f[d] \in Nat}
<1>1. 0 \in S
  BY DEF Sums
<1>2. ASSUME NEW d \in Nat, d \in S PROVE d + 1 \in S
  <2> SUFFICES ASSUME d + 1 <= Len(turns) PROVE f[d + 1] \in Nat
    OBVIOUS
  <2>1. d + 1 \in 1..Len(turns) /\ (d + 1) - 1 = d /\ f[d] \in Nat
    BY <1>2
  <2>2. turns[Len(turns) - (d + 1) + 1].size \in Nat
    BY <2>1, NewestIs
  <2>3. f[d + 1] = f[d] + turns[Len(turns) - (d + 1) + 1].size
    BY <2>1 DEF Sums
  <2> QED BY <2>1, <2>2, <2>3
<1>3. \A d \in Nat : d \in S
  <2> HIDE DEF S
  <2> QED BY <1>1, <1>2, NatsFrom
<1> QED BY <1>3

LEMMA SizeIs ==
  ASSUME NEW turns \in Seq(MemTurn)
  PROVE  \E f : Sums(f, turns) /\ Size(turns) = f[Len(turns)]
<1> DEFINE n == Len(turns)
           Next(k) == turns[n - k + 1].size
           step == [k \in 1..n |-> [x \in Nat |-> x + Next(k)]]
           W(g) == [k \in 0..n |-> IF k = 0 THEN 0 ELSE g[k - 1] + turns[n - k + 1].size]
<1>1. n \in Nat /\ \A k \in 1..n : Next(k) \in Nat
  BY NewestIs
<1>2. step \in [1..n -> [Nat -> Nat]]
  <2> HIDE DEF n, Next
  <2> QED BY <1>1
<1>3. PICK f : Recursion(f, n, Nat, 0, step)
  <2> HIDE DEF n, step
  <2> QED BY <1>1, <1>2, RecursionExists
<1>4. f = W(f)
  <2>1. f \in [0..n -> Nat] /\ f[0] = 0 /\ \A k \in 1..n : f[k] = step[k][f[k - 1]]
    BY <1>3 DEF Recursion
  <2>2. ASSUME NEW k \in 1..n PROVE f[k] = f[k - 1] + Next(k)
    <3>1. k - 1 \in 0..n
      BY <1>1
    <3> HIDE DEF n, Next
    <3> QED BY <2>1, <3>1
  <2>3. \A k \in 0..n : f[k] = IF k = 0 THEN 0 ELSE f[k - 1] + Next(k)
    <3>1. \A k \in 0..n : k # 0 => k \in 1..n
      BY <1>1
    <3> HIDE DEF n, Next
    <3> QED BY <2>1, <2>2, <3>1
  <2> QED BY <2>1, <2>3
<1> DEFINE u == CHOOSE g : g = W(g)
<1>5. u = W(u) /\ Size(turns) = u[n]
  <2>1. Size(turns) = u[n]
    BY DEF Size
  <2> HIDE DEF W
  <2> QED BY <2>1, <1>4
<1> HIDE DEF u
<1>6. Sums(u, turns)
  <2>1. \A k \in 0..n : u[k] = IF k = 0 THEN 0 ELSE u[k - 1] + turns[n - k + 1].size
    BY <1>5, Zenon
  <2>2. 0 \in 0..n /\ \A k \in 1..n : k \in 0..n /\ k # 0
    BY <1>1
  <2>3. u[0] = 0 /\ \A k \in 1..n : u[k] = u[k - 1] + turns[n - k + 1].size
    BY <2>1, <2>2, Zenon
  <2> QED BY <2>3 DEF Sums
<1> QED BY <1>5, <1>6

(* The latest turns of a sequence add up to what the sums over it say.     *)
LEMMA SizeOfLatest ==
  ASSUME NEW turns \in Seq(MemTurn), NEW f, Sums(f, turns), NEW m \in 0..Len(turns)
  PROVE  LET s == SubSeq(turns, Len(turns) - m + 1, Len(turns))
         IN  s \in Seq(MemTurn) /\ Len(s) = m /\ Size(s) = f[m]
             /\ \A i \in 1..m : s[i] = turns[Len(turns) - m + i]
<1> DEFINE n == Len(turns)
           s == SubSeq(turns, n - m + 1, n)
<1>0. n \in Nat /\ \A i \in 1..n : turns[i] \in MemTurn
  OBVIOUS
<1>1. s \in Seq(MemTurn) /\ Len(s) = m /\ \A i \in 1..m : s[i] = turns[n - m + i]
  <2>1. \A i \in (n - m + 1)..n : turns[i] \in MemTurn
    BY <1>0
  <2>2. n - m + 1 \in Int /\ n \in Int
    BY <1>0
  <2> HIDE DEF n
  <2>3. /\ s \in Seq(MemTurn) /\ Len(s) = IF n - m + 1 <= n THEN n - (n - m + 1) + 1 ELSE 0
        /\ \A i \in 1..n - (n - m + 1) + 1 : s[i] = turns[(n - m + 1) + i - 1]
    BY <2>1, <2>2, SubSeqProperties
  <2>4. n - (n - m + 1) + 1 = m /\ (n - m + 1 <= n <=> m # 0) /\ \A i \in 1..m : (n - m + 1) + i - 1 = n - m + i
    BY <1>0 DEF n
  <2> HIDE DEF s
  <2> QED BY <2>3, <2>4
<1> HIDE DEF s
<1>2. PICK g : Sums(g, s) /\ Size(s) = g[Len(s)]
  BY <1>1, SizeIs
<1>3. \A k \in 1..m : s[m - k + 1] = turns[n - k + 1]
  <2> SUFFICES ASSUME NEW k \in 1..m PROVE s[m - k + 1] = turns[n - k + 1]
    OBVIOUS
  <2>1. m - k + 1 \in 1..m /\ n - m + (m - k + 1) = n - k + 1
    BY <1>0
  <2> HIDE DEF n
  <2> QED BY <1>1, <2>1
<1>4. g[m] = f[m]
  <2> DEFINE S == {d \in Nat : d <= m => g[d] = f[d]}
  <2>1. 0 \in S
    BY <1>2 DEF Sums
  <2>2. ASSUME NEW d \in Nat, d \in S PROVE d + 1 \in S
    <3> SUFFICES ASSUME d + 1 <= m PROVE g[d + 1] = f[d + 1]
      OBVIOUS
    <3>1. d + 1 \in 1..m /\ d + 1 \in 1..n /\ (d + 1) - 1 = d /\ g[d] = f[d]
      BY <2>2, <1>0
    <3>2. g[d + 1] = g[d] + s[m - (d + 1) + 1].size
      BY <3>1, <1>1, <1>2 DEF Sums
    <3>3. f[d + 1] = f[d] + turns[n - (d + 1) + 1].size
      BY <3>1 DEF Sums
    <3> QED BY <3>1, <3>2, <3>3, <1>3
  <2>3. m \in S
    <3> HIDE DEF S
    <3> QED BY <2>1, <2>2, NatsFrom
  <2> QED BY <2>3
<1> QED BY <1>1, <1>2, <1>4 DEF s

(* How far the walk has come after the k newest turns: what it selected    *)
(* fits, and it stopped at a turn that did not.                            *)
Walked(w, k, turns, room, f) ==
  /\ w \in WalkState /\ w.count <= k /\ room = w.room + f[w.count]
  /\ w.on => w.count = k
  /\ ~w.on => w.count < k /\ turns[Len(turns) - w.count].size > w.room

LEMMA WalkOn ==
  ASSUME NEW turns \in Seq(MemTurn), NEW room \in Nat, NEW f, Sums(f, turns),
         NEW k \in 1..Len(turns), NEW w, Walked(w, k - 1, turns, room, f)
  PROVE  Walked(WalkTo(w, turns[Len(turns) - k + 1]), k, turns, room, f)
<1> DEFINE n == Len(turns)
           t == turns[n - k + 1]
           x == WalkTo(w, t)
<1>0. n \in Nat /\ k \in Nat /\ k >= 1 /\ t.size \in Nat
  BY NewestIs
<1>1. w \in WalkState /\ w.on \in BOOLEAN /\ w.room \in Nat /\ w.count \in Nat
  BY DEF Walked, WalkState
<1>2. CASE w.on /\ t.size <= w.room
  <2>1. x = [on |-> TRUE, room |-> w.room - t.size, count |-> w.count + 1]
    BY <1>2 DEF WalkTo
  <2>2. w.count = k - 1 /\ room = w.room + f[k - 1]
    BY <1>2 DEF Walked
  <2>3. f[k] = f[k - 1] + t.size /\ f[k - 1] \in Nat
    <3>1. k - 1 \in 0..n
      BY <1>0
    <3> QED BY <3>1, SumsTyped DEF Sums
  <2> HIDE DEF t, n, x
  <2>4. x.on = TRUE /\ x.room = w.room - t.size /\ x.count = k /\ x \in WalkState
    BY <2>1, <2>2, <1>0, <1>1, <1>2 DEF WalkState
  <2>5. room = x.room + f[x.count]
    BY <2>2, <2>3, <2>4, <1>0, <1>1
  <2> QED BY <2>4, <2>5, <1>0 DEF Walked, x, t, n
<1>3. CASE ~(w.on /\ t.size <= w.room)
  <2>1. x = [w EXCEPT !.on = FALSE]
    BY <1>3 DEF WalkTo
  <2>2. x \in WalkState /\ x.on = FALSE /\ x.room = w.room /\ x.count = w.count
    BY <2>1, <1>1 DEF WalkState
  <2>3. w.count <= k - 1 /\ room = w.room + f[w.count]
    BY DEF Walked
  <2>4. turns[n - w.count].size > w.room
    <3>1. CASE w.on
      <4>1. w.count = k - 1 /\ ~(t.size <= w.room)
        BY <3>1, <1>3 DEF Walked
      <4>2. n - w.count = n - k + 1
        BY <4>1, <1>0
      <4> QED BY <4>1, <4>2, <1>0, <1>1
    <3>2. CASE ~w.on
      BY <3>2 DEF Walked
    <3> QED BY <3>1, <3>2
  <2>5. w.count <= k /\ w.count < k
    BY <2>3, <1>0, <1>1
  <2> HIDE DEF x
  <2> QED BY <2>2, <2>3, <2>4, <2>5 DEF Walked, x
<1> QED BY <1>2, <1>3

(* What is selected is the longest run of latest turns that fits.          *)
LEMMA SelectedIs ==
  ASSUME NEW turns \in Seq(MemTurn), NEW room \in Nat
  PROVE  \E m \in 0..Len(turns) :
           /\ Selected(turns, room) = SubSeq(turns, Len(turns) - m + 1, Len(turns))
           /\ Size(Selected(turns, room)) <= room
           /\ m < Len(turns) => Size(Selected(turns, room)) + turns[Len(turns) - m].size > room
<1> DEFINE n == Len(turns)
           first == [on |-> TRUE, room |-> room, count |-> 0]
           Hop(k, w) == WalkTo(w, turns[n - k + 1])
           W(g) == [k \in 0..n |-> IF k = 0 THEN [on |-> TRUE, room |-> room, count |-> 0]
                                   ELSE WalkTo(g[k - 1], turns[n - k + 1])]
           step == [k \in 1..n |-> [w \in WalkState |-> Hop(k, w)]]
<1>0. n \in Nat /\ first \in WalkState
  BY DEF WalkState
<1>1. ASSUME NEW k \in 1..n, NEW w \in WalkState PROVE Hop(k, w) \in WalkState
  <2>1. turns[n - k + 1].size \in Nat
    BY NewestIs
  <2> DEFINE t == turns[n - k + 1]
  <2>2. t.size \in Nat /\ Hop(k, w) = WalkTo(w, t)
    BY <2>1
  <2> HIDE DEF n, t, Hop
  <2>3. WalkTo(w, t) \in WalkState
    <3>1. CASE w.on /\ t.size <= w.room
      BY <3>1, <2>2 DEF WalkTo, WalkState
    <3>2. CASE ~(w.on /\ t.size <= w.room)
      BY <3>2 DEF WalkTo, WalkState
    <3> QED BY <3>1, <3>2
  <2> QED BY <2>2, <2>3
<1>2. step \in [1..n -> [WalkState -> WalkState]]
  <2> HIDE DEF n, Hop
  <2> QED BY <1>1
<1>3. PICK h : Recursion(h, n, WalkState, first, step)
  <2> HIDE DEF n, step, first
  <2> QED BY <1>0, <1>2, RecursionExists
<1>4. h = W(h)
  <2>1. h \in [0..n -> WalkState] /\ h[0] = first /\ \A k \in 1..n : h[k] = step[k][h[k - 1]]
    BY <1>3, Zenon DEF Recursion
  <2>2. ASSUME NEW k \in 1..n PROVE h[k] = Hop(k, h[k - 1])
    <3>1. k - 1 \in 0..n
      BY <1>0
    <3> HIDE DEF n, Hop, first
    <3>2. h[k - 1] \in WalkState
      BY <2>1, <3>1
    <3> QED BY <2>1, <3>2
  <2>3. \A k \in 0..n : h[k] = IF k = 0 THEN first ELSE Hop(k, h[k - 1])
    <3>1. \A k \in 0..n : k # 0 => k \in 1..n
      BY <1>0
    <3> HIDE DEF n, Hop, first
    <3> QED BY <2>1, <2>2, <3>1
  <2>4. h = [k \in 0..n |-> h[k]]
    BY <2>1
  <2> QED BY <2>3, <2>4, Zenon
<1> DEFINE u == CHOOSE g : g = W(g)
<1>5. u = W(u) /\ Selected(turns, room) = SubSeq(turns, n - u[n].count + 1, n)
  <2>1. Selected(turns, room) = SubSeq(turns, n - u[n].count + 1, n)
    BY DEF Selected
  <2> HIDE DEF W
  <2> QED BY <2>1, <1>4
<1> HIDE DEF u
<1>6. u[0] = first /\ \A k \in 1..n : u[k] = Hop(k, u[k - 1])
  <2>1. \A k \in 0..n : u[k] = IF k = 0 THEN first ELSE Hop(k, u[k - 1])
    BY <1>5, Zenon
  <2>2. 0 \in 0..n /\ \A k \in 1..n : k \in 0..n /\ k # 0
    BY <1>0
  <2> HIDE DEF first, Hop, n
  <2> QED BY <2>1, <2>2, Zenon
<1>7. PICK f : Sums(f, turns) /\ Size(turns) = f[Len(turns)]
  BY SizeIs
<1>8. Walked(u[n], n, turns, room, f)
  <2> DEFINE S == {d \in Nat : d <= n => Walked(u[d], d, turns, room, f)}
  <2>1. 0 \in S
    <3>1. Walked(first, 0, turns, room, f)
      BY <1>0, <1>7 DEF Walked, Sums
    <3> HIDE DEF first
    <3> QED BY <3>1, <1>6
  <2>2. ASSUME NEW d \in Nat, d \in S PROVE d + 1 \in S
    <3> SUFFICES ASSUME d + 1 <= n PROVE Walked(u[d + 1], d + 1, turns, room, f)
      OBVIOUS
    <3>1. d + 1 \in 1..n /\ (d + 1) - 1 = d /\ Walked(u[d], d, turns, room, f)
      BY <2>2, <1>0
    <3>2. u[d + 1] = WalkTo(u[d], turns[n - (d + 1) + 1])
      BY <1>6, <3>1
    <3> QED BY <3>1, <3>2, <1>7, WalkOn
  <2>3. n \in S
    <3> HIDE DEF S
    <3> QED BY <1>0, <2>1, <2>2, NatsFrom
  <2> QED BY <1>0, <2>3
<1> DEFINE m == u[n].count
<1>9. m \in 0..n /\ u[n].room \in Nat /\ room = u[n].room + f[m]
  BY <1>0, <1>8 DEF Walked, WalkState
<1>10. Size(Selected(turns, room)) = f[m] /\ f[m] \in Nat
  <2>1. Size(SubSeq(turns, Len(turns) - m + 1, Len(turns))) = f[m]
    <3> HIDE DEF m
    <3> QED BY <1>7, <1>9, SizeOfLatest, Zenon
  <2>2. f[m] \in Nat
    <3> HIDE DEF m
    <3> QED BY <1>7, <1>9, SumsTyped, Zenon
  <2> QED BY <1>5, <2>1, <2>2, Zenon
<1>11. m < n => turns[n - m].size > u[n].room /\ turns[n - m].size \in Nat
  <2>1. m < n => n - m \in 1..n
    BY <1>0, <1>9
  <2>2. m < n => turns[n - m] \in MemTurn
    BY <2>1, ElementOfSeq
  <2> QED BY <2>2, <1>8 DEF Walked, MemTurn
<1> HIDE DEF m, n
<1>12. f[m] <= room /\ (m < n => f[m] + turns[n - m].size > room)
  BY <1>9, <1>10, <1>11
<1>13. /\ Selected(turns, room) = SubSeq(turns, n - m + 1, n)
       /\ Size(Selected(turns, room)) <= room
       /\ m < n => Size(Selected(turns, room)) + turns[n - m].size > room
  BY <1>5, <1>10, <1>12 DEF m
<1> QED BY <1>9, <1>13 DEF n

(* Turns in the order they were recorded, no more than the window holds.   *)
GoodTurns(s, last) ==
  /\ s \in Seq(MemTurn) /\ Len(s) <= MaxTurns
  /\ \A k \in 1..Len(s) : s[k].n \in 1..last
  /\ \A k \in 1..Len(s) - 1 : s[k].n < s[k + 1].n

Settling ==
  ~crowded => \/ saving = <<>> /\ memFile = wanted
              \/ Len(saving) = 1 /\ saving[1] = wanted

MemoryInv ==
  /\ recorded \in 0..MaxRecorded /\ crowded \in BOOLEAN
  /\ memory # None => GoodTurns(memory, recorded)
  /\ memFile # None => GoodTurns(memFile, recorded)
  /\ saving \in Seq(Seq(MemTurn)) /\ \A k \in 1..Len(saving) : GoodTurns(saving[k], recorded)
  /\ Settling

LEMMA EmptyIsGood == GoodTurns(<<>>, recorded) /\ None # <<>>
BY MemoryConstants DEF GoodTurns, None

(* One more turn, and the oldest leave the window.                         *)
LEMMA RecordedIsGood ==
  ASSUME MemoryInv, memory # None
  PROVE  GoodTurns(RecordTurn(memory), recorded + 1)
<1> DEFINE t == Turn(recorded + 1)
           s == Append(memory, t)
           r == RecordTurn(memory)
           n == Len(memory)
           f == IF Len(s) > MaxTurns THEN Len(s) - MaxTurns + 1 ELSE 1
<1>0. recorded \in Nat /\ MaxTurns \in Nat /\ MaxRecorded \in Nat
  BY MemoryConstants DEF MemoryInv
<1>1. GoodTurns(memory, recorded)
  BY DEF MemoryInv
<1>2. t \in MemTurn /\ t.n = recorded + 1
  BY <1>0 DEF Turn, MemTurn
<1> HIDE DEF t
<1>3. /\ memory \in Seq(MemTurn) /\ n \in Nat /\ s \in Seq(MemTurn) /\ Len(s) = n + 1
      /\ s[n + 1] = t /\ \A k \in 1..n : s[k] = memory[k]
  BY <1>1, <1>2, AppendProperties DEF GoodTurns
<1>4. \A k \in 1..n : memory[k].n \in 1..recorded
  BY <1>1 DEF GoodTurns
<1>5. \A k \in 1..n - 1 : memory[k].n < memory[k + 1].n
  BY <1>1 DEF GoodTurns
<1> HIDE DEF n, s
<1>6. \A k \in 1..n + 1 : s[k].n \in 1..recorded + 1 /\ s[k] \in MemTurn
  <2> SUFFICES ASSUME NEW k \in 1..n + 1 PROVE s[k].n \in 1..recorded + 1 /\ s[k] \in MemTurn
    OBVIOUS
  <2>1. s[k] \in MemTurn
    BY <1>3, ElementOfSeq
  <2>2. CASE k = n + 1
    BY <2>1, <2>2, <1>0, <1>2, <1>3
  <2>3. CASE k # n + 1
    <3>1. k \in 1..n
      BY <2>3, <1>3
    <3> QED BY <2>1, <3>1, <1>0, <1>3, <1>4
  <2> QED BY <2>2, <2>3
<1>7. \A k \in 1..n : s[k].n < s[k + 1].n
  <2> SUFFICES ASSUME NEW k \in 1..n PROVE s[k].n < s[k + 1].n
    OBVIOUS
  <2>1. CASE k = n
    BY <2>1, <1>0, <1>2, <1>3, <1>4
  <2>2. CASE k # n
    <3>1. k \in 1..n - 1 /\ k + 1 \in 1..n
      BY <2>2, <1>3
    <3> QED BY <3>1, <1>3, <1>5
  <2> QED BY <2>1, <2>2
<1>8. f \in Nat /\ f >= 1 /\ (n + 1) - f + 1 <= MaxTurns /\ f <= n + 2
  BY <1>0, <1>3
<1>9. r = SubSeq(s, f, n + 1)
  BY <1>3 DEF RecordTurn, Evicted, s, t
<1> HIDE DEF f
<1>10. /\ r \in Seq(MemTurn) /\ Len(r) = (IF f <= n + 1 THEN (n + 1) - f + 1 ELSE 0)
       /\ \A i \in 1..(n + 1) - f + 1 : r[i] = s[f + i - 1]
  <2>1. \A i \in f..n + 1 : s[i] \in MemTurn
    BY <1>3, <1>6, <1>8
  <2>2. f \in Int /\ n + 1 \in Int
    BY <1>3, <1>8
  <2> QED BY <1>9, <2>1, <2>2, SubSeqProperties
<1> HIDE DEF r
<1>11. Len(r) \in Nat /\ Len(r) <= MaxTurns /\ \A i \in 1..Len(r) : i \in 1..(n + 1) - f + 1
  BY <1>0, <1>3, <1>8, <1>10
<1>12. ASSUME NEW k \in 1..Len(r) PROVE r[k].n \in 1..recorded + 1
  <2>1. f + k - 1 \in 1..n + 1
    BY <1>3, <1>8, <1>10, <1>11
  <2> QED BY <2>1, <1>6, <1>10, <1>11
<1>13. ASSUME NEW k \in 1..Len(r) - 1 PROVE r[k].n < r[k + 1].n
  <2>1. k \in 1..Len(r) /\ k + 1 \in 1..Len(r)
    BY <1>11
  <2>2. f + k - 1 \in 1..n /\ f + (k + 1) - 1 = (f + k - 1) + 1
    BY <2>1, <1>3, <1>8, <1>10, <1>11
  <2>3. r[k] = s[f + k - 1] /\ r[k + 1] = s[f + (k + 1) - 1]
    BY <2>1, <1>10, <1>11
  <2> QED BY <2>2, <2>3, <1>7
<1> QED BY <1>10, <1>11, <1>12, <1>13 DEF r, GoodTurns

(* What is good stays so when more is recorded; no turn is None's.         *)
LEMMA GoodStays ==
  ASSUME NEW last \in Nat, NEW s, GoodTurns(s, last)
  PROVE  GoodTurns(s, last + 1) /\ s # None
<1>1. \A x \in 1..last : x \in 1..last + 1
  OBVIOUS
<1>2. s # None
  <2> SUFFICES ASSUME s = None PROVE FALSE
    OBVIOUS
  <2>1. Len(s) = 1 /\ s[1].n = 0
    BY DEF None, Turn
  <2> QED BY <2>1 DEF GoodTurns
<1> QED BY <1>1, <1>2 DEF GoodTurns

LEMMA MemoryInvInit == MemoryInit => MemoryInv
<1> SUFFICES ASSUME MemoryInit PROVE MemoryInv OBVIOUS
<1>1. saving \in Seq(Seq(MemTurn)) /\ Len(saving) = 0
  BY DEF MemoryInit
<1>2. recorded \in 0..MaxRecorded /\ crowded \in BOOLEAN
  <2>1. recorded = 0 /\ crowded = FALSE
    BY DEF MemoryInit
  <2>2. MaxRecorded \in Nat
    BY MemoryConstants
  <2>3. recorded \in 0..MaxRecorded
    BY <2>1, <2>2
  <2>4. crowded \in BOOLEAN
    BY <2>1, Zenon
  <2> QED BY <2>3, <2>4
<1>3. Settling /\ memory = None /\ memFile = None
  BY DEF MemoryInit, Settling
<1> QED BY <1>1, <1>2, <1>3 DEF MemoryInv

(* Recording: what was there stays good, and the new turns are.            *)
LEMMA RecordKeeps ==
  ASSUME MemoryInv, Enabled, recorded < MaxRecorded, recorded' = recorded + 1,
         memory' = RecordTurn(memory), memFile' = memFile
  PROVE  /\ recorded' \in 0..MaxRecorded /\ GoodTurns(memory', recorded')
         /\ memFile' # None => GoodTurns(memFile', recorded')
         /\ \A k \in 1..Len(saving) : GoodTurns(saving[k], recorded')
<1>1. recorded \in Nat /\ MaxRecorded \in Nat
  BY MemoryConstants DEF MemoryInv
<1>2. GoodTurns(memory', recorded')
  BY RecordedIsGood DEF Enabled
<1>3. memFile' # None => GoodTurns(memFile', recorded')
  BY <1>1, GoodStays DEF MemoryInv
<1>4. \A k \in 1..Len(saving) : GoodTurns(saving[k], recorded')
  BY <1>1, GoodStays DEF MemoryInv
<1> QED BY <1>1, <1>2, <1>3, <1>4

(* Turns on their way to the file, and one more.                           *)
LEMMA SavingOneMore ==
  ASSUME NEW q \in Seq(Seq(MemTurn)), NEW last, NEW r, GoodTurns(r, last),
         \A k \in 1..Len(q) : GoodTurns(q[k], last)
  PROVE  LET p == Append(q, r)
         IN  /\ p \in Seq(Seq(MemTurn)) /\ Len(p) = Len(q) + 1 /\ p[Len(q) + 1] = r
             /\ \A k \in 1..Len(p) : GoodTurns(p[k], last)
<1> DEFINE p == Append(q, r)
<1>1. r \in Seq(MemTurn) /\ Len(q) \in Nat
  BY DEF GoodTurns
<1>2. /\ p \in Seq(Seq(MemTurn)) /\ Len(p) = Len(q) + 1 /\ p[Len(q) + 1] = r
      /\ \A k \in 1..Len(q) : p[k] = q[k]
  BY <1>1, AppendProperties
<1>3. \A k \in 1..Len(q) + 1 : k = Len(q) + 1 \/ k \in 1..Len(q)
  BY <1>1
<1> HIDE DEF p
<1>4. \A k \in 1..Len(p) : GoodTurns(p[k], last)
  BY <1>2, <1>3
<1> QED BY <1>2, <1>4 DEF p

LEMMA RemovedIsGood ==
  ASSUME NEW q \in Seq(Seq(MemTurn)), NEW last, NEW i \in 1..Len(q),
         \A k \in 1..Len(q) : GoodTurns(q[k], last)
  PROVE  LET p == RemoveAt(q, i)
         IN  /\ p \in Seq(Seq(MemTurn)) /\ Len(p) = Len(q) - 1
             /\ \A k \in 1..Len(p) : GoodTurns(p[k], last)
<1> DEFINE n == Len(q)
           x == SubSeq(q, 1, i - 1)
           y == SubSeq(q, i + 1, n)
           p == RemoveAt(q, i)
<1>0. n \in Nat /\ i \in 1..n /\ \A k \in 1..n : q[k] \in Seq(MemTurn)
  OBVIOUS
<1>1. x \in Seq(Seq(MemTurn)) /\ Len(x) = i - 1 /\ \A k \in 1..i - 1 : x[k] = q[k]
  <2>1. \A k \in 1..i - 1 : q[k] \in Seq(MemTurn)
    BY <1>0
  <2>2. /\ x \in Seq(Seq(MemTurn)) /\ Len(x) = (IF 1 <= i - 1 THEN (i - 1) - 1 + 1 ELSE 0)
        /\ \A k \in 1..(i - 1) - 1 + 1 : x[k] = q[1 + k - 1]
    BY <2>1, SubSeqProperties
  <2> HIDE DEF x
  <2> QED BY <2>2
<1>2. y \in Seq(Seq(MemTurn)) /\ Len(y) = n - i /\ \A k \in 1..n - i : y[k] = q[i + k]
  <2>1. \A k \in i + 1..n : q[k] \in Seq(MemTurn)
    BY <1>0
  <2>2. /\ y \in Seq(Seq(MemTurn)) /\ Len(y) = (IF i + 1 <= n THEN n - (i + 1) + 1 ELSE 0)
        /\ \A k \in 1..n - (i + 1) + 1 : y[k] = q[(i + 1) + k - 1]
    BY <2>1, <1>0, SubSeqProperties
  <2>3. n - (i + 1) + 1 = n - i /\ (i + 1 <= n <=> n - i > 0) /\ \A k \in 1..n - i : (i + 1) + k - 1 = i + k
    BY <1>0
  <2> HIDE DEF y, n
  <2> QED BY <2>2, <2>3, <1>0
<1> HIDE DEF x, y
<1>3. p = x \o y
  BY DEF RemoveAt, x, y
<1> HIDE DEF p, n
<1>4. /\ p \in Seq(Seq(MemTurn)) /\ Len(p) = n - 1
      /\ \A k \in 1..n - 1 : p[k] = IF k <= i - 1 THEN x[k] ELSE y[k - (i - 1)]
  <2>1. /\ p \in Seq(Seq(MemTurn)) /\ Len(p) = Len(x) + Len(y)
        /\ \A k \in 1..Len(x) + Len(y) : p[k] = IF k <= Len(x) THEN x[k] ELSE y[k - Len(x)]
    BY <1>1, <1>2, <1>3, ConcatProperties
  <2>2. Len(x) + Len(y) = n - 1
    BY <1>0, <1>1, <1>2
  <2> QED BY <2>1, <2>2, <1>1
<1>5. ASSUME NEW k \in 1..n - 1 PROVE \E j \in 1..n : p[k] = q[j]
  <2>1. CASE k <= i - 1
    <3>1. k \in 1..i - 1 /\ k \in 1..n
      BY <2>1, <1>0
    <3> QED BY <3>1, <2>1, <1>1, <1>4
  <2>2. CASE ~(k <= i - 1)
    <3>1. k - (i - 1) \in 1..n - i /\ i + (k - (i - 1)) = k + 1 /\ k + 1 \in 1..n
      BY <2>2, <1>0
    <3> QED BY <3>1, <2>2, <1>2, <1>4
  <2> QED BY <2>1, <2>2
<1> QED BY <1>4, <1>5 DEF p, n

LEMMA RecordUserKeeps == ASSUME MemoryInv, RecordUser PROVE MemoryInv'
<1> DEFINE r == RecordTurn(memory)
<1>1. /\ Enabled /\ recorded < MaxRecorded /\ recorded' = recorded + 1 /\ memory' = r /\ memFile' = memFile
      /\ saving' = Append(saving, r) /\ wanted' = r /\ crowded' = (crowded \/ SaveUnderWay)
  BY DEF RecordUser
<1> HIDE DEF r
<1>2. /\ recorded' \in 0..MaxRecorded /\ GoodTurns(r, recorded')
      /\ memFile' # None => GoodTurns(memFile', recorded')
      /\ \A k \in 1..Len(saving) : GoodTurns(saving[k], recorded')
  BY <1>1, RecordKeeps DEF r
<1>3. /\ saving' \in Seq(Seq(MemTurn)) /\ Len(saving') = Len(saving) + 1 /\ saving'[Len(saving) + 1] = r
      /\ \A k \in 1..Len(saving') : GoodTurns(saving'[k], recorded')
  BY <1>1, <1>2, SavingOneMore DEF MemoryInv
<1>4. crowded' \in BOOLEAN
  BY <1>1 DEF MemoryInv
<1>5. Settling'
  <2> SUFFICES ASSUME ~crowded' PROVE Len(saving') = 1 /\ saving'[1] = wanted'
    BY DEF Settling
  <2>1. saving = <<>>
    BY <1>1 DEF SaveUnderWay
  <2> QED BY <2>1, <1>1, <1>3
<1>6. None' = None
  BY DEF None
<1> QED BY <1>1, <1>2, <1>3, <1>4, <1>5, <1>6 DEF MemoryInv

LEMMA RecordAssistantKeeps == ASSUME MemoryInv, RecordAssistant PROVE MemoryInv'
<1>1. /\ Enabled /\ recorded < MaxRecorded /\ recorded' = recorded + 1 /\ memory' = RecordTurn(memory)
      /\ UNCHANGED <<memFile, saving, restarts, wanted, crowded>>
  BY DEF RecordAssistant
<1>2. /\ recorded' \in 0..MaxRecorded /\ GoodTurns(memory', recorded')
      /\ memFile' # None => GoodTurns(memFile', recorded')
      /\ \A k \in 1..Len(saving) : GoodTurns(saving[k], recorded')
  BY <1>1, RecordKeeps
<1>3. None' = None
  BY DEF None
<1> QED BY <1>1, <1>2, <1>3 DEF MemoryInv, Settling

LEMMA SaveLandsKeeps == ASSUME MemoryInv, NEW k, SaveLands(k) PROVE MemoryInv'
<1>1. /\ k \in DOMAIN saving /\ memFile' = saving[k] /\ saving' = RemoveAt(saving, k)
      /\ UNCHANGED <<memory, recorded, restarts, wanted, crowded>>
  BY DEF SaveLands
<1>2. k \in 1..Len(saving) /\ saving \in Seq(Seq(MemTurn)) /\ \A i \in 1..Len(saving) : GoodTurns(saving[i], recorded)
  BY <1>1 DEF MemoryInv
<1>3. /\ saving' \in Seq(Seq(MemTurn)) /\ Len(saving') = Len(saving) - 1
      /\ \A i \in 1..Len(saving') : GoodTurns(saving'[i], recorded)
  BY <1>1, <1>2, RemovedIsGood
<1>4. Settling'
  <2> SUFFICES ASSUME ~crowded PROVE saving' = <<>> /\ memFile' = wanted'
    BY <1>1 DEF Settling
  <2>1. Len(saving) = 1 /\ saving[1] = wanted
    BY <1>2 DEF MemoryInv, Settling
  <2>2. Len(saving') = 0 /\ k = 1
    BY <2>1, <1>2, <1>3
  <2> QED BY <2>1, <2>2, <1>1, <1>3, EmptySeq
<1>5. None' = None
  BY DEF None
<1> QED BY <1>1, <1>2, <1>3, <1>4, <1>5 DEF MemoryInv

LEMMA MemoryInvStep == MemoryInv /\ [MemoryNext]_memoryVars => MemoryInv'
<1> SUFFICES ASSUME MemoryInv, [MemoryNext]_memoryVars PROVE MemoryInv' OBVIOUS
<1>0. None' = None /\ crowded \in BOOLEAN
  BY DEF None, MemoryInv
<1>1. CASE EnableMemory
  <2>1. GoodTurns(memory', recorded)
    BY <1>1, EmptyIsGood DEF EnableMemory, MemoryInv
  <2> QED BY <1>0, <1>1, <2>1 DEF EnableMemory, MemoryInv, Settling
<1>2. CASE DisableMemory
  <2>1. Settling'
    BY <1>2 DEF DisableMemory, MemoryInv, Settling, SaveUnderWay
  <2>2. memory' = None /\ memFile' = memory /\ memory # None /\ crowded' \in BOOLEAN
        /\ UNCHANGED <<saving, recorded, restarts>>
    BY <1>0, <1>2 DEF DisableMemory, Enabled
  <2> QED BY <1>0, <2>1, <2>2 DEF MemoryInv
<1>3. CASE ClearMemory
  <2>1. memory' = (IF memory # None THEN <<>> ELSE memory) /\ memFile' = None /\ wanted' = None
        /\ crowded' = (crowded \/ SaveUnderWay) /\ UNCHANGED <<saving, recorded, restarts>>
    BY <1>3 DEF ClearMemory, Enabled
  <2>2. Settling'
    BY <2>1 DEF MemoryInv, Settling, SaveUnderWay
  <2>3. crowded' \in BOOLEAN
    BY <1>0, <2>1
  <2>4. memory' # None => GoodTurns(memory', recorded)
    BY <2>1, EmptyIsGood
  <2> QED BY <1>0, <2>1, <2>2, <2>3, <2>4 DEF MemoryInv
<1>4. CASE Restart
  <2>1. saving' = <<>> /\ saving' \in Seq(Seq(MemTurn)) /\ Len(saving') = 0
    BY <1>4 DEF Restart
  <2>2. memory' = None /\ wanted' = memFile /\ UNCHANGED <<memFile, recorded, crowded>>
    BY <1>4 DEF Restart
  <2> QED BY <1>0, <2>1, <2>2 DEF MemoryInv, Settling
<1>5. CASE UNCHANGED memoryVars
  BY <1>0, <1>5 DEF memoryVars, MemoryInv, Settling
<1> QED BY <1>1, <1>2, <1>3, <1>4, <1>5, RecordUserKeeps, RecordAssistantKeeps, SaveLandsKeeps DEF MemoryNext

(* A subsequence up to the end is a suffix.                                *)
LEMMA LatestIsSuffix ==
  ASSUME NEW t \in Seq(MemTurn), NEW m \in 0..Len(t), NEW s \in Seq(MemTurn), Len(s) = m,
         \A i \in 1..m : s[i] = t[Len(t) - m + i]
  PROVE  IsSuffix(s, t)
<1> DEFINE n == Len(t)
           a == Reverse(s)
           b == Reverse(t)
           A == SubSeq(a, 1, m)
           B == SubSeq(b, 1, m)
<1>0. n \in Nat /\ m \in Nat /\ m <= n
  OBVIOUS
<1>1. a \in Seq(MemTurn) /\ Len(a) = m /\ \A i \in 1..m : a[i] = s[m - i + 1]
  <2>1. a = [i \in 1..m |-> s[m - i + 1]]
    BY DEF Reverse
  <2>2. \A i \in 1..m : s[m - i + 1] \in MemTurn
    <3> SUFFICES ASSUME NEW i \in 1..m PROVE s[m - i + 1] \in MemTurn
      OBVIOUS
    <3>1. m - i + 1 \in 1..m
      BY <1>0
    <3> QED BY <3>1, ElementOfSeq
  <2>3. a \in [1..m -> MemTurn] /\ DOMAIN a = 1..m
    <3> HIDE DEF a
    <3> QED BY <2>1, <2>2
  <2>4. a \in Seq(MemTurn)
    BY <2>3, <1>0, IsASeq
  <2>5. Len(a) = m
    <3> HIDE DEF a
    <3> QED BY <2>3, <2>4, <1>0, LenProperties
  <2> QED BY <2>1, <2>4, <2>5
<1>2. b \in Seq(MemTurn) /\ Len(b) = n /\ \A i \in 1..n : b[i] = t[n - i + 1]
  <2>1. b = [i \in 1..n |-> t[n - i + 1]]
    BY DEF Reverse
  <2>2. \A i \in 1..n : t[n - i + 1] \in MemTurn
    BY NewestIs
  <2>3. b \in [1..n -> MemTurn] /\ DOMAIN b = 1..n
    <3> HIDE DEF b
    <3> QED BY <2>1, <2>2
  <2>4. b \in Seq(MemTurn)
    BY <2>3, <1>0, IsASeq
  <2>5. Len(b) = n
    <3> HIDE DEF b
    <3> QED BY <2>3, <2>4, <1>0, LenProperties
  <2> QED BY <2>1, <2>4, <2>5
<1> HIDE DEF a, b
<1>3. \A i \in 1..m : a[i] = b[i]
  <2> SUFFICES ASSUME NEW i \in 1..m PROVE a[i] = b[i]
    OBVIOUS
  <2>1. m - i + 1 \in 1..m /\ n - m + (m - i + 1) = n - i + 1 /\ i \in 1..n
    BY <1>0
  <2>2. s[m - i + 1] = t[n - i + 1]
    BY <2>1
  <2> QED BY <2>1, <2>2, <1>1, <1>2
<1>4. A \in Seq(MemTurn) /\ Len(A) = (IF 1 <= m THEN m - 1 + 1 ELSE 0) /\ \A i \in 1..m - 1 + 1 : A[i] = a[1 + i - 1]
  <2>1. \A i \in 1..m : a[i] \in MemTurn
    BY <1>1, ElementOfSeq
  <2> QED BY <2>1, <1>0, SubSeqProperties
<1>5. B \in Seq(MemTurn) /\ Len(B) = (IF 1 <= m THEN m - 1 + 1 ELSE 0) /\ \A i \in 1..m - 1 + 1 : B[i] = b[1 + i - 1]
  <2>1. \A i \in 1..m : b[i] \in MemTurn
    BY <1>0, <1>2, ElementOfSeq
  <2> QED BY <2>1, <1>0, SubSeqProperties
<1> HIDE DEF A, B
<1>6. Len(A) = m /\ Len(B) = m /\ \A i \in 1..m : A[i] = B[i]
  <2>1. Len(A) = m /\ Len(B) = m
    BY <1>0, <1>4, <1>5
  <2>2. ASSUME NEW i \in 1..m PROVE A[i] = B[i]
    <3>1. i \in 1..m - 1 + 1 /\ 1 + i - 1 = i
      BY <1>0
    <3>2. A[i] = a[i] /\ B[i] = b[i]
      BY <3>1, <1>4, <1>5
    <3> QED BY <3>2, <1>3
  <2> QED BY <2>1, <2>2
<1>7. A = B
  BY <1>4, <1>5, <1>6, SeqEqual
<1> QED BY <1>0, <1>1, <1>2, <1>7 DEF IsSuffix, IsPrefix, A, B, a, b

LEMMA MemoryInvSays == MemoryInv => MemoryTypeOK /\ ContextIsLatest /\ FileSettles
<1> SUFFICES ASSUME MemoryInv PROVE MemoryTypeOK /\ ContextIsLatest /\ FileSettles OBVIOUS
<1>1. MemoryTypeOK
  BY DEF MemoryInv, GoodTurns, MemoryTypeOK, Enabled
<1>2. FileSettles
  BY EmptySeq, LenProperties DEF MemoryInv, Settling, FileSettles, SaveUnderWay
<1>3. ContextIsLatest
  <2> SUFFICES ASSUME Enabled
               PROVE  LET context == Selected(memory, Budget)
                          kept == Len(memory) - Len(context)
                      IN  /\ IsSuffix(context, memory) /\ Size(context) <= Budget
                          /\ kept > 0 => Size(context) + memory[kept].size > Budget
                          /\ \A k \in 1..Len(memory) - 1 : memory[k].n < memory[k + 1].n
    BY DEF ContextIsLatest
  <2> DEFINE c == Selected(memory, Budget)
             n == Len(memory)
  <2>1. memory \in Seq(MemTurn) /\ \A k \in 1..n - 1 : memory[k].n < memory[k + 1].n
    BY DEF MemoryInv, Enabled, GoodTurns
  <2>2. PICK m \in 0..n : /\ c = SubSeq(memory, n - m + 1, n) /\ Size(c) <= Budget
                          /\ m < n => Size(c) + memory[n - m].size > Budget
    BY <2>1, MemoryConstants, SelectedIs
  <2>3. PICK f : Sums(f, memory)
    BY <2>1, SizeIs
  <2> HIDE DEF c
  <2>4. c \in Seq(MemTurn) /\ Len(c) = m /\ \A i \in 1..m : c[i] = memory[n - m + i]
    BY <2>1, <2>2, <2>3, SizeOfLatest
  <2>5. IsSuffix(c, memory)
    BY <2>1, <2>4, LatestIsSuffix
  <2>6. n - Len(c) = n - m /\ (n - m > 0 => m < n)
    BY <2>1, <2>4
  <2> QED BY <2>1, <2>2, <2>5, <2>6 DEF c
<1> QED BY <1>1, <1>2, <1>3

(* For any boxes, budgets and windows, whatever writers, consumers, saves  *)
(* and restarts interleave: no message of an inbox is lost or out of       *)
(* order, only one without an id behind another such is handed over again, *)
(* an agent's context is the longest run of latest turns that fits, and    *)
(* the memory's file ends up with the latest turn unless two touch it.     *)
THEOREM MessagesAndTurnsStay == InboxSpec /\ MemorySpec => []MessagesAndTurnsKept
<1>1. InboxSpec => [](InboxTypeOK /\ NothingOverwritten /\ HandedOnce)
  BY InboxInvInit, InboxInvStep, InboxInvSays, PTL DEF InboxSpec
<1>2. MemorySpec => [](MemoryTypeOK /\ ContextIsLatest /\ FileSettles)
  BY MemoryInvInit, MemoryInvStep, MemoryInvSays, PTL DEF MemorySpec
<1>3. (InboxTypeOK /\ NothingOverwritten /\ HandedOnce) /\ (MemoryTypeOK /\ ContextIsLatest /\ FileSettles)
        => MessagesAndTurnsKept
  BY DEF MessagesAndTurnsKept
<1> QED BY <1>1, <1>2, <1>3, PTL

-----------------------------------------------------------------------------
(* The consensus of several agents                                         *)

LEMMA SmallestOf ==
  ASSUME NEW S, S \subseteq Nat, S # {}
  PROVE  \E m \in S : \A y \in S : m <= y
<1>1. PICK m \in S : \A y \in S : ~ (<<y, m>> \in OpToRel(<, Nat))
  BY WFMin, NatLessThanWellFounded, Zenon
<1>2. \A y \in S : ~ (y < m)
  BY <1>1, Zenon DEF OpToRel
<1>3. \A y \in S : y \in Nat /\ m \in Nat
  OBVIOUS
<1> QED BY <1>2, <1>3

ResponsesTyped == responses \in Seq(Response)

LEMMA ActiveIs == ASSUME ResponsesTyped PROVE Active \in Seq(Response)
<1> DEFINE n == Len(responses)
           keep == {k \in 1..n : ~responses[k].timed_out}
           W(g) == [k \in 0..n |-> IF k = 0 THEN <<>>
                                   ELSE IF responses[k].timed_out THEN g[k - 1]
                                   ELSE Append(g[k - 1], responses[k])]
<1>1. n \in Nat /\ responses \in Seq(Response) /\ \A k \in 1..n : k \in keep <=> ~responses[k].timed_out
  BY DEF ResponsesTyped
<1>2. PICK f : Collects(f, responses, keep, Response)
  <2> HIDE DEF keep
  <2> QED BY <1>1, CollectsExists
<1>3. f = W(f)
  <2>1. f \in [0..n -> Seq(Response)] /\ f[0] = <<>>
        /\ \A k \in 1..n : f[k] = IF k \in keep THEN Append(f[k - 1], responses[k]) ELSE f[k - 1]
    BY <1>2 DEF Collects
  <2>2. \A k \in 0..n : f[k] = IF k = 0 THEN <<>> ELSE IF responses[k].timed_out THEN f[k - 1]
                               ELSE Append(f[k - 1], responses[k])
    <3> HIDE DEF n, keep
    <3>1. \A k \in 0..n : k # 0 => k \in 1..n
      BY <1>1
    <3>2. \A k \in 1..n : f[k] = IF responses[k].timed_out THEN f[k - 1] ELSE Append(f[k - 1], responses[k])
      BY <2>1, <1>1, Zenon
    <3> QED BY <2>1, <3>1, <3>2, Zenon
  <2> QED BY <2>1, <2>2
<1> DEFINE u == CHOOSE g : g = W(g)
<1>4. u = W(u) /\ Active = u[n]
  <2>1. Active = u[n]
    BY DEF Active
  <2> HIDE DEF W
  <2> QED BY <2>1, <1>3
<1> HIDE DEF u
<1>5. u[0] = <<>> /\ \A k \in 1..n : u[k] = IF k \in keep THEN Append(u[k - 1], responses[k]) ELSE u[k - 1]
  <2>1. \A k \in 0..n : u[k] = IF k = 0 THEN <<>> ELSE IF responses[k].timed_out THEN u[k - 1]
                               ELSE Append(u[k - 1], responses[k])
    BY <1>4, Zenon
  <2> HIDE DEF n, keep
  <2> QED BY <2>1, <1>1
<1>6. \A d \in 0..Len(responses) : u[d] \in Seq(Response) /\ Collected(u[d], responses, keep, d)
  <2> HIDE DEF keep
  <2> QED BY <1>1, <1>5, CollectsFacts, Zenon
<1>7. n \in 0..Len(responses)
  BY <1>1
<1> QED BY <1>4, <1>6, <1>7, Zenon

LEMMA ActiveTyped ==
  ASSUME ResponsesTyped
  PROVE  /\ Len(Active) \in Nat /\ DOMAIN Active = 1..Len(Active)
         /\ \A k \in 1..Len(Active) : /\ Active[k] \in Response /\ Active[k].content \in Answers
                                      /\ Active[k].weight \in Int
         /\ Active = <<>> <=> Len(Active) = 0
         /\ Contents \subseteq Answers
<1>1. Active \in Seq(Response)
  BY ActiveIs
<1> HIDE DEF Active
<1>2. \A k \in 1..Len(Active) : Active[k] \in Response
  BY <1>1, ElementOfSeq
<1>3. \A k \in 1..Len(Active) : Active[k].content \in Answers /\ Active[k].weight \in Int
  BY <1>2, ConsensusConstants DEF Response
<1>4. Len(Active) \in Nat /\ DOMAIN Active = 1..Len(Active) /\ (Active = <<>> <=> Len(Active) = 0)
  BY <1>1, LenProperties, EmptySeq
<1> QED BY <1>2, <1>3, <1>4 DEF Contents

LEMMA WeightIs == ASSUME ResponsesTyped, NEW a PROVE Weight(a) \in Int
<1> DEFINE n == Len(Active)
           Add(k, x) == IF Active[k].content = a THEN x + Active[k].weight ELSE x
           step == [k \in 1..n |-> [x \in Int |-> Add(k, x)]]
           W(g) == [k \in 0..n |-> IF k = 0 THEN 0
                                   ELSE IF Active[k].content = a THEN g[k - 1] + Active[k].weight
                                   ELSE g[k - 1]]
<1>1. n \in Nat /\ \A k \in 1..n : Active[k].weight \in Int
  BY ActiveTyped
<1>2. \A k \in 1..n, x \in Int : Add(k, x) \in Int
  <2> HIDE DEF n
  <2> QED BY <1>1
<1>3. step \in [1..n -> [Int -> Int]]
  <2> HIDE DEF n, Add
  <2> QED BY <1>2
<1>4. PICK f : Recursion(f, n, Int, 0, step)
  <2>1. 0 \in Int
    OBVIOUS
  <2> HIDE DEF n, step
  <2> QED BY <2>1, <1>1, <1>3, RecursionExists
<1>5. f = W(f)
  <2>1. f \in [0..n -> Int] /\ f[0] = 0 /\ \A k \in 1..n : f[k] = step[k][f[k - 1]]
    BY <1>4, Zenon DEF Recursion
  <2>2. ASSUME NEW k \in 1..n PROVE f[k] = Add(k, f[k - 1])
    <3>1. k - 1 \in 0..n
      BY <1>1
    <3> HIDE DEF n, Add
    <3>2. f[k - 1] \in Int
      BY <2>1, <3>1
    <3> QED BY <2>1, <3>2
  <2>3. \A k \in 0..n : f[k] = IF k = 0 THEN 0 ELSE Add(k, f[k - 1])
    <3>1. \A k \in 0..n : k # 0 => k \in 1..n
      BY <1>1
    <3> HIDE DEF n, Add
    <3> QED BY <2>1, <2>2, <3>1
  <2>4. f = [k \in 0..n |-> f[k]]
    BY <2>1
  <2> QED BY <2>3, <2>4, Zenon
<1> DEFINE u == CHOOSE g : g = W(g)
<1>6. u = W(u) /\ Weight(a) = u[n]
  <2>1. Weight(a) = u[n]
    BY DEF Weight
  <2> HIDE DEF W
  <2> QED BY <2>1, <1>5
<1> HIDE DEF u
<1>7. u[0] = 0 /\ \A k \in 1..n : u[k] = Add(k, u[k - 1])
  <2>1. \A k \in 0..n : u[k] = IF k = 0 THEN 0 ELSE Add(k, u[k - 1])
    BY <1>6, Zenon
  <2>2. 0 \in 0..n /\ \A k \in 1..n : k \in 0..n /\ k # 0
    BY <1>1
  <2> HIDE DEF n, Add
  <2> QED BY <2>1, <2>2, Zenon
<1>8. u[n] \in Int
  <2> DEFINE S == {d \in Nat : d <= n => u[d] \in Int}
  <2>1. 0 \in S
    BY <1>7
  <2>2. ASSUME NEW d \in Nat, d \in S PROVE d + 1 \in S
    <3>1. d + 1 <= n => d + 1 \in 1..n /\ (d + 1) - 1 = d /\ u[d] \in Int
      BY <2>2, <1>1
    <3> HIDE DEF n, Add
    <3>2. d + 1 <= n => u[d + 1] \in Int
      BY <3>1, <1>2, <1>7
    <3> QED BY <3>2
  <2>3. n \in S
    <3> HIDE DEF S
    <3> QED BY <1>1, <2>1, <2>2, NatsFrom
  <2> QED BY <1>1, <2>3
<1> QED BY <1>6, <1>8

(* Votes are counted, and two answers share none.                          *)
LEMMA VotesAre ==
  ASSUME ResponsesTyped
  PROVE  /\ \A a : Votes(a) \in Nat /\ Votes(a) <= Len(Active)
         /\ \A a : Votes(a) > 0 => a \in Contents
         /\ \A a, b : a # b => Votes(a) + Votes(b) <= Len(Active)
         /\ \A a : (\A k \in 1..Len(Active) : Active[k].content = a) => Votes(a) = Len(Active)
<1> DEFINE n == Len(Active)
           D == 1..n
           Of(a) == {k \in DOMAIN Active : Active[k].content = a}
<1>0. n \in Nat /\ DOMAIN Active = D
  BY ActiveTyped
<1>1. IsFiniteSet(D) /\ Cardinality(D) = n
  <2>1. 1 \in Int /\ n \in Int
    BY <1>0
  <2> HIDE DEF n
  <2>2. IsFiniteSet(D) /\ Cardinality(D) = IF 1 > n THEN 0 ELSE n - 1 + 1
    BY <2>1, FS_Interval
  <2> QED BY <2>2, <1>0
<1> HIDE DEF n, D
<1>2. ASSUME NEW T, T \subseteq D PROVE IsFiniteSet(T) /\ Cardinality(T) \in Nat /\ Cardinality(T) <= n
  BY <1>1, <1>2, FS_Subset, FS_CardinalityType
<1>3. \A a : Of(a) \subseteq D /\ Votes(a) = Cardinality(Of(a))
  BY <1>0 DEF Votes
<1> HIDE DEF Of
<1>4. \A a : Votes(a) \in Nat /\ Votes(a) <= n
  BY <1>2, <1>3
<1>5. ASSUME NEW a, Votes(a) > 0 PROVE a \in Contents
  <2>1. Of(a) # {}
    BY <1>3, <1>5, FS_EmptySet
  <2> QED BY <2>1 DEF Of, Contents
<1>6. ASSUME NEW a, NEW b, a # b PROVE Votes(a) + Votes(b) <= n
  <2>1. Of(a) \cap Of(b) = {}
    BY <1>6 DEF Of
  <2>2. IsFiniteSet(Of(a)) /\ IsFiniteSet(Of(b)) /\ Of(a) \cup Of(b) \subseteq D
    BY <1>2, <1>3
  <2>3. Cardinality(Of(a) \cup Of(b)) = Cardinality(Of(a)) + Cardinality(Of(b)) - Cardinality(Of(a) \cap Of(b))
    BY <2>2, FS_Union
  <2>4. Cardinality(Of(a) \cap Of(b)) = 0
    BY <2>1, FS_EmptySet
  <2>5. Cardinality(Of(a) \cup Of(b)) <= n
    BY <2>2, <1>2
  <2>6. Cardinality(Of(a)) \in Nat /\ Cardinality(Of(b)) \in Nat
    BY <1>3, <1>4
  <2> QED BY <2>3, <2>4, <2>5, <2>6, <1>3
<1>7. ASSUME NEW a, \A k \in 1..n : Active[k].content = a PROVE Votes(a) = n
  <2>1. Of(a) = D
    BY <1>0, <1>7 DEF Of, D
  <2> QED BY <2>1, <1>1, <1>3
<1> QED BY <1>4, <1>5, <1>6, <1>7 DEF n

(* An answer with more than half of the votes is the majority's decision,  *)
(* and without one nothing is decided.                                     *)
LEMMA MajorityDecides ==
  ASSUME ResponsesTyped
  PROVE  /\ \A a : 2 * Votes(a) > Len(Active) => ResolveMajority = {Decided(a)}
         /\ (\A a \in Answers : ~(2 * Votes(a) > Len(Active))) => ResolveMajority = {Undecided}
<1> DEFINE n == Len(Active)
           Top == {b \in Contents : \A c \in Contents : Votes(c) <= Votes(b)}
<1>0. n \in Nat /\ Contents \subseteq Answers /\ (Active = <<>> <=> n = 0) /\ DOMAIN Active = 1..n
  BY ActiveTyped
<1>1. \A a : Votes(a) \in Nat /\ Votes(a) <= n
  BY VotesAre
<1>2. \A a : Votes(a) >= Threshold <=> 2 * Votes(a) > n
  <2> SUFFICES ASSUME NEW a PROVE Votes(a) >= Threshold <=> 2 * Votes(a) > n
    OBVIOUS
  <2> DEFINE v == Votes(a)
             q == n \div 2
  <2>1. v \in Nat /\ n \in Nat
    BY <1>0, <1>1
  <2> HIDE DEF v, n
  <2>2. q \in Nat /\ 2 * q <= n /\ n <= 2 * q + 1
    BY <2>1
  <2>3. Threshold = q + 1
    BY DEF Threshold, n
  <2> HIDE DEF q
  <2> QED BY <2>1, <2>2, <2>3 DEF v
<1>3. n # 0 => Top # {}
  <2> SUFFICES ASSUME n # 0 PROVE Top # {}
    OBVIOUS
  <2> DEFINE S == {n - Votes(b) : b \in Contents}
  <2>1. 1 \in 1..n
    BY <1>0
  <2>2. Contents # {}
    BY <1>0, <2>1 DEF Contents
  <2> HIDE DEF n
  <2>3. S \subseteq Nat
    BY <1>0, <1>1
  <2>4. S # {}
    BY <2>2
  <2>5. PICK m \in S : \A y \in S : m <= y
    <3> HIDE DEF S
    <3> QED BY <2>3, <2>4, SmallestOf
  <2>6. PICK b \in Contents : m = n - Votes(b)
    BY <2>5
  <2>7. \A c \in Contents : Votes(c) <= Votes(b)
    <3> SUFFICES ASSUME NEW c \in Contents PROVE Votes(c) <= Votes(b)
      OBVIOUS
    <3>1. n - Votes(c) \in S
      OBVIOUS
    <3>2. n - Votes(b) <= n - Votes(c)
      BY <2>5, <2>6, <3>1
    <3>3. Votes(b) \in Nat /\ Votes(c) \in Nat
      BY <1>1
    <3> QED BY <1>0, <3>2, <3>3
  <2> QED BY <2>7
<1>4. ResolveMajority = IF n = 0 THEN {Undecided}
                        ELSE {IF Votes(a) >= Threshold THEN Decided(a) ELSE Undecided : a \in Top}
  BY <1>0 DEF ResolveMajority
<1>5. ASSUME NEW a, 2 * Votes(a) > n PROVE ResolveMajority = {Decided(a)}
  <2>1. a \in Contents /\ n # 0
    BY <1>0, <1>1, <1>5, VotesAre
  <2>2. \A b : b # a => Votes(b) < Votes(a)
    <3> SUFFICES ASSUME NEW b, b # a PROVE Votes(b) < Votes(a)
      OBVIOUS
    <3>1. Votes(a) + Votes(b) <= n
      BY VotesAre
    <3> HIDE DEF n
    <3> QED BY <3>1, <1>0, <1>1, <1>5
  <2>3. \A b \in Top : b = a
    <3> SUFFICES ASSUME NEW b \in Top, b # a PROVE FALSE
      OBVIOUS
    <3>1. Votes(a) <= Votes(b)
      BY <2>1
    <3> QED BY <3>1, <2>2, <1>1
  <2>4. Top = {a}
    BY <1>3, <2>1, <2>3
  <2>5. Votes(a) >= Threshold
    BY <1>2, <1>5
  <2> HIDE DEF Top, n
  <2> QED BY <1>4, <2>1, <2>4, <2>5
<1>6. ASSUME \A a \in Answers : ~(2 * Votes(a) > n) PROVE ResolveMajority = {Undecided}
  <2>1. CASE n = 0
    BY <2>1, <1>4
  <2>2. CASE n # 0
    <3>1. \A a \in Top : ~(Votes(a) >= Threshold)
      BY <1>0, <1>2, <1>6
    <3>2. Top # {}
      BY <2>2, <1>3
    <3> HIDE DEF Top, n
    <3> QED BY <1>4, <2>2, <3>1, <3>2
  <2> QED BY <2>1, <2>2
<1> QED BY <1>5, <1>6

LEMMA ConsensusSays == ResponsesTyped => ConsensusTypeOK /\ MajorityIsOne /\ StrategiesAgree
<1> SUFFICES ASSUME ResponsesTyped PROVE ConsensusTypeOK /\ MajorityIsOne /\ StrategiesAgree OBVIOUS
<1> DEFINE n == Len(Active)
<1>0. /\ n \in Nat /\ Contents \subseteq Answers /\ (Active = <<>> <=> n = 0)
      /\ DOMAIN Active = 1..n
  BY ActiveTyped
<1>1. ConsensusTypeOK
  BY DEF ResponsesTyped, ConsensusTypeOK
<1>2. /\ Resolve("majority") = ResolveMajority /\ Resolve("weighted") = ResolveWeighted
      /\ Resolve("unanimous") = ResolveUnanimous /\ Resolve("human") = {Undecided}
  BY DEF Resolve, ResolveHumanInTheLoop
<1>3. Undecided.reached = FALSE /\ \A a : Decided(a).reached = TRUE /\ Decided(a).decision = {a}
  BY DEF Undecided, Decided
<1>4. \A a : Votes(a) \in Nat /\ Votes(a) <= n
  BY VotesAre
<1>5. MajorityIsOne
  <2>1. CASE \E a \in Answers : 2 * Votes(a) > n
    <3>1. PICK a \in Answers : 2 * Votes(a) > n
      BY <2>1
    <3>2. ResolveMajority = {Decided(a)}
      BY <3>1, MajorityDecides
    <3> DEFINE o == Decided(a)
    <3>3. Cardinality({o}) = 1
      BY FS_Singleton
    <3>4. o.reached /\ \E b \in Answers : 2 * Votes(b) > Len(Active) /\ o.decision = {b}
      BY <1>3, <3>1
    <3>5. Resolve("majority") = {o}
      BY <1>2, <3>2
    <3> HIDE DEF o, n
    <3> QED BY <3>3, <3>4, <3>5 DEF MajorityIsOne
  <2>2. CASE ~ \E a \in Answers : 2 * Votes(a) > n
    <3>1. ResolveMajority = {Undecided}
      BY <2>2, MajorityDecides
    <3> QED BY <1>2, <1>3, <2>2, <3>1, FS_Singleton DEF MajorityIsOne
  <2> QED BY <2>1, <2>2
<1>6. ASSUME NEW o \in ResolveUnanimous, o.reached
      PROVE  /\ Active # <<>> /\ ResolveMajority = {o}
             /\ ResolveWeighted = {o}
  <2>1. o # Undecided
    BY <1>3, <1>6
  <2>2. /\ Active # <<>> /\ o = Decided(Active[1].content)
        /\ \A k \in DOMAIN Active : Active[k].content = Active[1].content
    BY <1>6, <2>1 DEF ResolveUnanimous
  <2> DEFINE x == Active[1].content
  <2>3. Votes(x) = n /\ n > 0
    BY <1>0, <2>2, VotesAre
  <2>4. 2 * Votes(x) > n
    BY <2>3, <1>0
  <2>5. ResolveMajority = {Decided(x)}
    BY <2>4, MajorityDecides
  <2>6. Contents = {x}
    <3>1. 1 \in DOMAIN Active
      BY <1>0, <2>3
    <3> QED BY <2>2, <3>1 DEF Contents
  <2>7. Heaviest = {x}
    <3>1. Weight(x) \in Int
      BY WeightIs
    <3> QED BY <2>6, <3>1 DEF Heaviest
  <2>8. ResolveWeighted = {Decided(x)}
    BY <2>2, <2>7 DEF ResolveWeighted
  <2> QED BY <2>2, <2>5, <2>8
<1>7. \A o \in ResolveWeighted : o.decision \subseteq Contents /\ (o.reached => Active # <<>>)
  BY <1>3 DEF ResolveWeighted, Heaviest, Undecided
<1>8. \A o \in ResolveMajority : o.reached => Active # <<>>
  BY <1>3 DEF ResolveMajority
<1>9. StrategiesAgree
  BY <1>2, <1>3, <1>6, <1>7, <1>8 DEF StrategiesAgree
<1> QED BY <1>1, <1>5, <1>9

LEMMA ConsensusInvStep == ResponsesTyped /\ [ConsensusNext]_responses => ResponsesTyped'
BY AppendProperties DEF ResponsesTyped, ConsensusNext, Collect

LEMMA ConsensusInvInit == ConsensusInit => ResponsesTyped
BY DEF ConsensusInit, ResponsesTyped

-----------------------------------------------------------------------------
(* The choice of a backend                                                 *)

(* A function on 1..n + 1 whose values are made from one further on.       *)
Backward(f, n, V, v0, op, next) ==
  f \in [1..n + 1 -> V] /\ f[n + 1] = v0 /\ \A i \in 1..n : f[i] = op[i][f[next[i]]]

LEMMA BackwardExists ==
  ASSUME NEW n \in Nat, NEW V, NEW v0 \in V, NEW op \in [1..n -> [V -> V]], NEW next \in [1..n -> Nat],
         \A i \in 1..n : i < next[i] /\ next[i] <= n + 1
  PROVE  \E f : Backward(f, n, V, v0, op, next)
<1> DEFINE Follows(f, k) == f[n + 1] = v0 /\ \A i \in (n + 1 - k)..n : f[i] = op[i][f[next[i]]]
           S == {k \in Nat : k <= n => \E f \in [1..n + 1 -> V] : Follows(f, k)}
<1>1. 0 \in S
  <2>1. [i \in 1..n + 1 |-> v0] \in [1..n + 1 -> V] /\ Follows([i \in 1..n + 1 |-> v0], 0)
    OBVIOUS
  <2> QED
    BY <2>1
<1>2. ASSUME NEW k \in Nat, k \in S PROVE k + 1 \in S
  <2> SUFFICES ASSUME k + 1 <= n PROVE \E f \in [1..n + 1 -> V] : Follows(f, k + 1)
    OBVIOUS
  <2>1. PICK f \in [1..n + 1 -> V] : Follows(f, k)
    BY <1>2
  <2> DEFINE m == n - k
  <2>2. m \in 1..n /\ next[m] \in 1..n + 1 /\ next[m] # m /\ n + 1 - (k + 1) = m
    OBVIOUS
  <2> DEFINE v == op[m][f[next[m]]]
             g == [f EXCEPT ![m] = v]
  <2>3. v \in V
    <3>1. f[next[m]] \in V /\ op[m] \in [V -> V]
      BY <2>2
    <3> QED
      BY <3>1
  <2>4. g \in [1..n + 1 -> V] /\ g[m] = v /\ \A i \in 1..n + 1 : i # m => g[i] = f[i]
    BY <2>2, <2>3
  <2>5. ASSUME NEW i \in m..n PROVE g[i] = op[i][g[next[i]]]
    <3>1. CASE i = m
      BY <3>1, <2>2, <2>4
    <3>2. CASE i # m
      <4>1. i \in (n + 1 - k)..n /\ i \in 1..n /\ next[i] \in 1..n + 1 /\ next[i] # m
        BY <3>2, <2>2
      <4> QED
        BY <4>1, <2>1, <2>4, <3>2
    <3> QED
      BY <3>1, <3>2
  <2>6. g[n + 1] = v0
    BY <2>1, <2>2, <2>4
  <2> QED
    BY <2>2, <2>4, <2>5, <2>6
<1>3. n \in S
  <2> HIDE DEF S
  <2> QED
    BY <1>1, <1>2, NatsFrom
<1>4. PICK f \in [1..n + 1 -> V] : Follows(f, n)
  BY <1>3
<1> QED
  BY <1>4 DEF Backward

Prompts ==
  {<<>>, <<"prompt">>, <<"heading", "codex", "prompt">>, <<"heading", "codex", "gemini", "prompt">>}

RouterInv ==
  text \in Seq(Chars) /\ question \in Question /\ spawned \in Prompts /\ resumes \in 0..MaxResumes

(* Where the search finds the word next from a place, 0..Len(text).        *)
Found(word, from) == {i \in from..Len(text) : MatchAt(word, i)}
First(word, from) == CHOOSE i \in Found(word, from) : \A j \in Found(word, from) : i <= j

LEMMA FirstIs ==
  ASSUME text \in Seq(Chars), NEW word \in Seq(Chars), word # <<>>,
         NEW from \in 0..Len(text), Found(word, from) # {}
  PROVE  /\ First(word, from) \in from..Len(text) /\ MatchAt(word, First(word, from))
         /\ \A j \in from..Len(text) : MatchAt(word, j) => First(word, from) <= j
         /\ First(word, from) + Len(word) \in 0..Len(text)
         /\ Len(word) \in Nat /\ Len(word) >= 1
<1> DEFINE S == Found(word, from)
<1>0. Len(text) \in Nat /\ Len(word) \in Nat /\ Len(word) >= 1
  BY EmptySeq, LenProperties
<1>1. S \subseteq Nat
  BY <1>0 DEF Found
<1>2. PICK m \in S : \A y \in S : m <= y
  <2> HIDE DEF S
  <2> QED BY <1>1, SmallestOf DEF S
<1>3. First(word, from) \in S /\ \A j \in S : First(word, from) <= j
  <2> HIDE DEF S
  <2> QED BY <1>2 DEF First, S
<1>4. First(word, from) \in from..Len(text) /\ MatchAt(word, First(word, from))
  BY <1>3 DEF Found
<1>5. First(word, from) + Len(word) <= Len(text)
  BY <1>4 DEF MatchAt
<1> QED BY <1>0, <1>3, <1>4, <1>5 DEF Found

(* The search from a place looks at the first match, and goes on behind it *)
(* if that is not a word.                                                  *)
LEMMA SearchIs ==
  ASSUME text \in Seq(Chars), NEW word \in Seq(Chars), word # <<>>
  PROVE  \E u : /\ FindWord(word, 0) <=> u[0]
                /\ \A s \in 0..Len(text) :
                     u[s] <=> /\ Found(word, s) # {}
                              /\ \/ Bounded(word, First(word, s))
                                 \/ u[First(word, s) + Len(word)]
<1> DEFINE n == Len(text)
           Hit(s, b) == Found(word, s) # {} /\ (Bounded(word, First(word, s)) \/ b)
           W(g) == [from \in 0..n |->
                      LET found == {i \in from..n : MatchAt(word, i)}
                          pos == CHOOSE i \in found : \A j \in found : i <= j
                      IN  found # {} /\ (Bounded(word, pos) \/ g[pos + Len(word)])]
           op == [i \in 1..n |-> [b \in BOOLEAN |-> Hit(i - 1, b)]]
           next == [i \in 1..n |-> IF Found(word, i - 1) # {} THEN First(word, i - 1) + Len(word) + 1
                                   ELSE n + 1]
<1>0. n \in Nat
  OBVIOUS
<1>1. ASSUME NEW s \in 0..n, Found(word, s) # {}
      PROVE  First(word, s) + Len(word) \in 0..n /\ First(word, s) + Len(word) > s
  <2>1. First(word, s) \in s..n /\ First(word, s) + Len(word) \in 0..n /\ Len(word) \in Nat /\ Len(word) >= 1
    BY <1>1, FirstIs
  <2> HIDE DEF n
  <2> QED BY <2>1, <1>0
<1>2. next \in [1..n -> Nat] /\ \A i \in 1..n : i < next[i] /\ next[i] <= n + 1
  <2>1. ASSUME NEW i \in 1..n
        PROVE  LET x == IF Found(word, i - 1) # {} THEN First(word, i - 1) + Len(word) + 1 ELSE n + 1
               IN  x \in Nat /\ i < x /\ x <= n + 1
    <3>1. i - 1 \in 0..n
      BY <1>0
    <3>2. CASE Found(word, i - 1) # {}
      <4> DEFINE p == First(word, i - 1) + Len(word)
      <4>1. p \in 0..n /\ p > i - 1
        BY <3>1, <3>2, <1>1
      <4> HIDE DEF p, n
      <4>2. p + 1 \in Nat /\ i < p + 1 /\ p + 1 <= n + 1
        BY <4>1, <1>0
      <4> QED BY <4>2, <3>2 DEF p
    <3>3. CASE Found(word, i - 1) = {}
      BY <3>3, <1>0
    <3> QED BY <3>2, <3>3
  <2> HIDE DEF n
  <2> QED BY <2>1
<1>3. op \in [1..n -> [BOOLEAN -> BOOLEAN]]
  <2>1. \A i \in 1..n, b \in BOOLEAN : Hit(i - 1, b) \in BOOLEAN
    OBVIOUS
  <2> HIDE DEF n, Hit
  <2> QED BY <2>1
<1>4. PICK f : Backward(f, n, BOOLEAN, FALSE, op, next)
  <2> HIDE DEF n, op, next
  <2> QED BY <1>0, <1>2, <1>3, BackwardExists
<1>5. /\ f \in [1..n + 1 -> BOOLEAN] /\ f[n + 1] = FALSE
      /\ \A i \in 1..n : f[i] = op[i][f[next[i]]]
  <2> HIDE DEF n, op, next
  <2> QED BY <1>4 DEF Backward
<1> DEFINE g == [s \in 0..n |-> f[s + 1]]
<1>6. ASSUME NEW s \in 0..n PROVE g[s] = Hit(s, g[First(word, s) + Len(word)])
  <2>1. CASE s = n
    <3>1. Found(word, s) = {}
      <4> SUFFICES ASSUME Found(word, s) # {} PROVE FALSE
        OBVIOUS
      <4>1. First(word, s) + Len(word) \in 0..n /\ First(word, s) + Len(word) > n
        BY <2>1, <1>1
      <4> QED BY <4>1, <1>0
    <3>2. g[s] = FALSE
      BY <2>1, <1>0, <1>5
    <3> QED BY <3>1, <3>2
  <2>2. CASE s # n
    <3>1. s + 1 \in 1..n /\ (s + 1) - 1 = s
      BY <2>2, <1>0
    <3>2. next[s + 1] \in 1..n + 1
      <4> HIDE DEF next, n
      <4>1. next[s + 1] \in Nat /\ s + 1 < next[s + 1] /\ next[s + 1] <= n + 1
        BY <3>1, <1>2
      <4> QED BY <3>1, <4>1, <1>0
    <3>3. f[next[s + 1]] \in BOOLEAN
      <4> HIDE DEF next, n
      <4> QED BY <3>2, <1>5
    <3>4. f[s + 1] = Hit(s, f[next[s + 1]])
      <4>1. f[s + 1] = op[s + 1][f[next[s + 1]]]
        BY <3>1, <1>5, Zenon
      <4>2. op[s + 1] = [b \in BOOLEAN |-> Hit(s, b)]
        <5> HIDE DEF n, Hit
        <5> QED BY <3>1
      <4> HIDE DEF op, next, Hit
      <4> QED BY <4>1, <4>2, <3>3
    <3>5. CASE Found(word, s) # {}
      <4>1. next[s + 1] = First(word, s) + Len(word) + 1
        <5> HIDE DEF n
        <5> QED BY <3>1, <3>5
      <4>2. First(word, s) + Len(word) \in 0..n
        BY <3>5, <1>1
      <4>3. g[First(word, s) + Len(word)] = f[next[s + 1]]
        BY <4>1, <4>2
      <4>4. g[s] = f[s + 1]
        OBVIOUS
      <4> HIDE DEF Hit, g, next, n
      <4> QED BY <4>3, <4>4, <3>4
    <3>6. CASE Found(word, s) = {}
      <4>1. g[s] = f[s + 1]
        OBVIOUS
      <4>2. \A b : Hit(s, b) = FALSE
        BY <3>6
      <4> HIDE DEF Hit, g, next, n
      <4> QED BY <4>1, <4>2, <3>4
    <3> QED BY <3>5, <3>6
  <2> QED BY <2>1, <2>2
<1>7. g = W(g)
  <2>1. \A s \in 0..n : g[s] = (Found(word, s) # {} /\ (Bounded(word, First(word, s)) \/ g[First(word, s) + Len(word)]))
    BY <1>6
  <2>2. \A s \in 0..n : W(g)[s] = (Found(word, s) # {} /\ (Bounded(word, First(word, s)) \/ g[First(word, s) + Len(word)]))
    <3> HIDE DEF g
    <3> QED BY DEF Found, First
  <2>3. \A s \in 0..n : g[s] = W(g)[s]
    <3> HIDE DEF g, W
    <3> QED BY <2>1, <2>2
  <2>4. g = [s \in 0..n |-> g[s]] /\ W(g) = [s \in 0..n |-> W(g)[s]]
    <3>1. g = [s \in 0..n |-> g[s]]
      OBVIOUS
    <3>2. W(g) = [s \in 0..n |-> W(g)[s]]
      <4> HIDE DEF g
      <4> QED OBVIOUS
    <3> QED BY <3>1, <3>2
  <2> HIDE DEF g, W
  <2> QED BY <2>3, <2>4
<1> DEFINE u == CHOOSE h : h = W(h)
<1>8. u = W(u) /\ FindWord(word, 0) = u[0]
  <2>1. FindWord(word, 0) = u[0]
    BY DEF FindWord
  <2> HIDE DEF W, g
  <2> QED BY <2>1, <1>7
<1> HIDE DEF u
<1>9. \A s \in 0..n : u[s] <=> Found(word, s) # {} /\ (Bounded(word, First(word, s)) \/ u[First(word, s) + Len(word)])
  <2>1. \A s \in 0..n : W(u)[s] = (Found(word, s) # {} /\ (Bounded(word, First(word, s)) \/ u[First(word, s) + Len(word)]))
    BY DEF Found, First
  <2> HIDE DEF W
  <2> QED BY <2>1, <1>8
<1> QED BY <1>8, <1>9

(* What the search finds from a place is a word.                           *)
LEMMA SearchFindsWords ==
  ASSUME text \in Seq(Chars), NEW word \in Seq(Chars), word # <<>>, FindWord(word, 0)
  PROVE  \E i \in 0..Len(text) : MatchAt(word, i) /\ Bounded(word, i)
<1> DEFINE n == Len(text)
           Here == \E i \in 0..n : MatchAt(word, i) /\ Bounded(word, i)
<1>0. n \in Nat
  OBVIOUS
<1>1. PICK u : /\ FindWord(word, 0) <=> u[0]
               /\ \A s \in 0..n :
                    u[s] <=> /\ Found(word, s) # {}
                             /\ \/ Bounded(word, First(word, s))
                                \/ u[First(word, s) + Len(word)]
  BY SearchIs
<1> DEFINE S == {k \in Nat : \A s \in 0..n : n - s <= k /\ u[s] => Here}
<1>2. ASSUME NEW s \in 0..n, Found(word, s) # {}
      PROVE  /\ First(word, s) \in 0..n /\ MatchAt(word, First(word, s))
             /\ First(word, s) + Len(word) \in 0..n /\ First(word, s) + Len(word) > s
  <2>1. First(word, s) \in s..n /\ First(word, s) + Len(word) \in 0..n /\ Len(word) \in Nat /\ Len(word) >= 1
        /\ MatchAt(word, First(word, s))
    BY <1>2, FirstIs
  <2> HIDE DEF n
  <2> QED BY <2>1, <1>0
<1>3. ASSUME NEW s \in 0..n, u[s]
      PROVE  Here \/ \E t \in 0..n : t > s /\ u[t]
  <2>1. Found(word, s) # {} /\ (Bounded(word, First(word, s)) \/ u[First(word, s) + Len(word)])
    BY <1>1, <1>3
  <2> HIDE DEF n
  <2> QED BY <2>1, <1>2
<1> HIDE DEF Here, n
<1>4. 0 \in S
  <2> SUFFICES ASSUME NEW s \in 0..n, n - s <= 0, u[s] PROVE Here
    OBVIOUS
  <2>1. ~ \E t \in 0..n : t > s
    BY <1>0
  <2> QED BY <2>1, <1>3
<1>5. ASSUME NEW k \in Nat, k \in S PROVE k + 1 \in S
  <2> SUFFICES ASSUME NEW s \in 0..n, n - s <= k + 1, u[s] PROVE Here
    OBVIOUS
  <2>1. ASSUME NEW t \in 0..n, t > s, u[t] PROVE Here
    <3>1. n - t <= k
      BY <1>0, <2>1
    <3> QED BY <3>1, <2>1, <1>5
  <2> QED BY <2>1, <1>3
<1>6. n \in S
  <2> HIDE DEF S
  <2> QED BY <1>0, <1>4, <1>5, NatsFrom
<1>7. 0 \in 0..n /\ n - 0 <= n
  BY <1>0
<1>8. Here
  BY <1>6, <1>7, <1>1
<1> QED BY <1>8 DEF Here, n

(* Two matches less than a word apart: the word overlaps itself.           *)
LEMMA MatchesApart ==
  ASSUME text \in Seq(Chars), NEW word \in Seq(Chars), NEW p \in Nat, NEW i \in Nat,
         MatchAt(word, p), MatchAt(word, i), p < i, i < p + Len(word)
  PROVE  Overlaps(word)
<1> DEFINE L == Len(word)
           n == p + L - i
           a == SubSeq(word, 1, n)
           b == SubSeq(word, L - n + 1, L)
<1>1. L \in Nat /\ Len(text) \in Nat /\ p + L <= Len(text) /\ i + L <= Len(text)
  BY DEF MatchAt
<1>2. n \in 1..L - 1 /\ n \in Nat /\ L - n = i - p
  <2>1. i < p + L
    OBVIOUS
  <2> HIDE DEF L
  <2> QED BY <1>1, <2>1
<1>3. \A k \in 1..L : text[p + k] = word[k] /\ text[i + k] = word[k]
  <2>1. SubSeq(text, p + 1, p + L) = word /\ SubSeq(text, i + 1, i + L) = word
    BY DEF MatchAt
  <2>2. \A k \in 1..L : SubSeq(text, p + 1, p + L)[k] = text[p + k]
    <3> HIDE DEF L
    <3>1. p + 1 \in 1..Len(text) + 1 /\ p + L \in 0..Len(text)
      BY <1>1
    <3>2. \A k \in 1..L : (p + 1) + k - 1 = p + k
      BY <1>1
    <3> QED BY <1>1, <3>1, <3>2, SubSeqProperties
  <2>3. \A k \in 1..L : SubSeq(text, i + 1, i + L)[k] = text[i + k]
    <3> HIDE DEF L
    <3>1. i + 1 \in 1..Len(text) + 1 /\ i + L \in 0..Len(text)
      BY <1>1
    <3>2. \A k \in 1..L : (i + 1) + k - 1 = i + k
      BY <1>1
    <3> QED BY <1>1, <3>1, <3>2, SubSeqProperties
  <2> QED BY <2>1, <2>2, <2>3
<1>4. a \in Seq(Chars) /\ Len(a) = n /\ \A k \in 1..n : a[k] = word[k]
  <2> HIDE DEF n, L
  <2>1. n \in 0..L
    BY <1>1, <1>2
  <2> QED BY <1>1, <1>2, <2>1, SubSeqProperties DEF L
<1>5. b \in Seq(Chars) /\ Len(b) = n /\ \A k \in 1..n : b[k] = word[(L - n) + k]
  <2> HIDE DEF n, L
  <2>1. L - n + 1 \in 1..L + 1 /\ L \in 0..L /\ L - (L - n + 1) + 1 = n
    BY <1>1, <1>2
  <2>2. \A k \in 1..n : (L - n + 1) + k - 1 = (L - n) + k
    BY <1>1, <1>2
  <2> QED BY <1>1, <1>2, <2>1, <2>2, SubSeqProperties DEF L
<1>6. \A k \in 1..n : word[k] = word[(L - n) + k]
  <2> HIDE DEF L, n
  <2> TAKE k \in 1..n
  <2>1. (i - p) + k \in 1..L /\ k \in 1..L /\ p + ((i - p) + k) = i + k
    BY <1>1, <1>2
  <2> QED BY <2>1, <1>2, <1>3
<1>7. a = b
  <2> HIDE DEF a, b, n, L
  <2> QED BY <1>2, <1>4, <1>5, <1>6, SeqEqual
<1> QED BY <1>2, <1>7 DEF Overlaps

(* A word that does not overlap itself is found.                           *)
LEMMA WordsAreSearched ==
  ASSUME text \in Seq(Chars), NEW word \in Seq(Chars), word # <<>>, ~Overlaps(word),
         NEW i \in 0..Len(text), MatchAt(word, i), Bounded(word, i)
  PROVE  FindWord(word, 0)
<1> DEFINE n == Len(text)
<1>0. n \in Nat
  OBVIOUS
<1>1. PICK u : /\ FindWord(word, 0) <=> u[0]
               /\ \A s \in 0..n :
                    u[s] <=> /\ Found(word, s) # {}
                             /\ \/ Bounded(word, First(word, s))
                                \/ u[First(word, s) + Len(word)]
  BY SearchIs
<1> DEFINE S == {k \in Nat : \A s \in 0..i : i - s <= k => u[s]}
<1>2. ASSUME NEW s \in 0..i
      PROVE  u[s] \/ \E t \in 0..i : t > s /\ (u[t] => u[s])
  <2>0. s \in 0..n /\ i \in s..n
    BY <1>0
  <2>1. i \in Found(word, s)
    BY <2>0 DEF Found
  <2> DEFINE p == First(word, s)
  <2>2. p \in s..n /\ MatchAt(word, p) /\ p <= i /\ p + Len(word) \in 0..n /\ Len(word) \in Nat /\ Len(word) >= 1
    BY <2>0, <2>1, FirstIs
  <2>3. CASE p = i
    BY <2>0, <2>1, <2>3, <1>1
  <2>4. CASE p # i
    <3> HIDE DEF n, p
    <3>1. p \in Nat /\ i \in Nat /\ p < i
      BY <2>2, <2>4, <1>0
    <3>2. i >= p + Len(word)
      <4> SUFFICES ASSUME i < p + Len(word) PROVE FALSE
        BY <2>2, <3>1
      <4> QED BY <3>1, <2>2, MatchesApart
    <3>3. p + Len(word) \in 0..i /\ p + Len(word) > s
      BY <2>2, <3>1, <3>2, <1>0
    <3>4. u[p + Len(word)] => u[s]
      BY <2>0, <2>1, <1>1 DEF p
    <3> QED BY <3>3, <3>4
  <2> QED BY <2>3, <2>4
<1> HIDE DEF n
<1>3. 0 \in S
  <2> SUFFICES ASSUME NEW s \in 0..i, i - s <= 0 PROVE u[s]
    OBVIOUS
  <2>1. ~ \E t \in 0..i : t > s
    BY <1>0
  <2> QED BY <2>1, <1>2
<1>4. ASSUME NEW k \in Nat, k \in S PROVE k + 1 \in S
  <2> SUFFICES ASSUME NEW s \in 0..i, i - s <= k + 1 PROVE u[s]
    OBVIOUS
  <2>1. ASSUME NEW t \in 0..i, t > s PROVE u[t]
    <3>1. i - t <= k
      BY <1>0, <2>1
    <3> QED BY <3>1, <1>4
  <2> QED BY <2>1, <1>2
<1>5. i \in Nat /\ 0 \in 0..i /\ i - 0 <= i
  BY <1>0
<1>6. i \in S
  <2> HIDE DEF S
  <2> QED BY <1>5, <1>3, <1>4, NatsFrom
<1>7. u[0]
  BY <1>5, <1>6
<1> QED BY <1>7, <1>1

LEMMA RouterSays ==
  ASSUME RouterConstants, RouterInv
  PROVE  WordsAreFound
<1> SUFFICES ASSUME NEW word \in Keywords
             PROVE  LET isWord == \E i \in 0..Len(text) : MatchAt(word, i) /\ Bounded(word, i)
                    IN  /\ ContainsWord(word) => isWord /\ word # <<>>
                        /\ isWord /\ word # <<>> /\ ~Overlaps(word) => ContainsWord(word)
  BY DEF WordsAreFound
<1>1. word \in Seq(Chars) /\ text \in Seq(Chars)
  BY DEF RouterConstants, RouterInv, Chars
<1>2. ASSUME ContainsWord(word)
      PROVE  word # <<>> /\ \E i \in 0..Len(text) : MatchAt(word, i) /\ Bounded(word, i)
  BY <1>1, <1>2, SearchFindsWords DEF ContainsWord
<1>3. ASSUME NEW i \in 0..Len(text), MatchAt(word, i), Bounded(word, i), word # <<>>, ~Overlaps(word)
      PROVE  ContainsWord(word)
  <2>1. FindWord(word, 0)
    BY <1>1, <1>3, WordsAreSearched
  <2>2. Len(text) >= Len(word)
    BY <1>1, <1>3 DEF MatchAt
  <2> QED BY <2>1, <2>2, <1>3 DEF ContainsWord
<1> QED BY <1>2, <1>3

LEMMA RoutesSay ==
  ASSUME question \in Question
  PROVE  RoutesAreRegistered
<1> DEFINE q == question
<1>1. /\ q.available \subseteq Backends /\ q.matched \subseteq 1..2
      /\ \A k \in 1..2 : q.rules[k] \in Backends
      /\ q.default \in Backends
  BY DEF Question, Backends
<1>2. \A b \in CapabilityRoute(q) : b = NoBackend \/ b \in q.available
  BY DEF CapabilityRoute
<1>3. Applicable(q) # {} => ByRule(q) \subseteq q.available
  <2> SUFFICES ASSUME Applicable(q) # {} PROVE ByRule(q) \subseteq q.available
    OBVIOUS
  <2>1. Applicable(q) \subseteq Nat
    BY <1>1 DEF Applicable
  <2> DEFINE S == Applicable(q)
             first == CHOOSE k \in S : \A j \in S : k <= j
  <2>2. first \in S
    <3> HIDE DEF S
    <3>1. \E k \in S : \A j \in S : k <= j
      BY <2>1, SmallestOf DEF S
    <3> QED BY <3>1
  <2>3. q.rules[first] \in q.available
    <3> HIDE DEF first
    <3> QED BY <2>2 DEF Applicable
  <2>4. ByRule(q) = {q.rules[first]}
    BY DEF ByRule
  <2> QED BY <2>3, <2>4
<1>4. FirstOf(q) \subseteq q.available
  BY DEF FirstOf
<1>5. NoBackend \notin Backends
  BY DEF Backends, NoBackend
<1>6. q.available = {} => Applicable(q) = {} /\ CapabilityRoute(q) = {NoBackend}
  BY DEF Applicable, CapabilityRoute
<1>7. \A b \in KeywordRoute(q) : IF q.available = {} THEN b = NoBackend ELSE b \in q.available
  <2> HIDE DEF q
  <2> QED BY <1>3, <1>4 DEF KeywordRoute
<1>8. \A b \in SmartRoute(q) : IF q.available = {} THEN b = NoBackend ELSE b \in q.available
  <2> HIDE DEF q
  <2>1. CapabilityRoute(q) # {NoBackend} => CapabilityRoute(q) \subseteq q.available
    BY DEF CapabilityRoute
  <2> QED BY <1>3, <1>4, <2>1 DEF SmartRoute
<1>9. \A b \in ChainRoute(q) : IF q.available = {} THEN b = NoBackend ELSE b \in q.available
  <2> HIDE DEF q
  <2> SUFFICES ASSUME NEW b \in ChainRoute(q)
               PROVE  IF q.available = {} THEN b = NoBackend ELSE b \in q.available
    OBVIOUS
  <2>1. PICK c \in KeywordRoute(q) : b \in (IF c = NoBackend THEN CapabilityRoute(q) ELSE {c})
    BY DEF ChainRoute
  <2>2. CASE q.available = {}
    BY <2>1, <2>2, <1>6, <1>7
  <2>3. CASE q.available # {}
    BY <2>1, <2>3, <1>1, <1>5, <1>7
  <2> QED BY <2>2, <2>3
<1>10. ASSUME Applicable(q) = {}, Preferred(q) \notin q.available,
              NEW b \in SmartRoute(q), NEW c \in q.available, q.multi_turn => MultiTurn(c)
       PROVE  Score(q, b) <= Score(q, c) /\ (q.multi_turn => MultiTurn(b))
  <2> HIDE DEF q
  <2> DEFINE fit == {d \in q.available : q.multi_turn => MultiTurn(d)}
  <2>1. c \in fit
    BY <1>10
  <2>2. CapabilityRoute(q) = {d \in fit : \A e \in fit : Score(q, d) <= Score(q, e)}
    BY <2>1 DEF CapabilityRoute
  <2>3. CapabilityRoute(q) # {NoBackend}
    <3>1. NoBackend \notin fit
      BY <1>1, <1>5
    <3> HIDE DEF fit
    <3> QED BY <2>2, <3>1
  <2>4. SmartRoute(q) = CapabilityRoute(q)
    BY <1>10, <2>3 DEF SmartRoute
  <2>5. b \in fit /\ \A e \in fit : Score(q, b) <= Score(q, e)
    <3> HIDE DEF fit
    <3> QED BY <2>2, <2>4, <1>10
  <2> QED BY <2>1, <2>5
<1> QED
  <2> HIDE DEF q
  <2>1. \A b \in KeywordRoute(q) \cup SmartRoute(q) \cup ChainRoute(q) :
              IF q.available = {} THEN b = NoBackend ELSE b \in q.available
    BY <1>7, <1>8, <1>9
  <2>2. CapabilityRoute(q) \subseteq q.available \cup {NoBackend}
    BY <1>2
  <2>3. Applicable(q) = {} /\ Preferred(q) \notin q.available =>
              \A b \in SmartRoute(q), c \in q.available :
                 (q.multi_turn => MultiTurn(c)) => Score(q, b) <= Score(q, c) /\ (q.multi_turn => MultiTurn(b))
    BY <1>10
  <2> QED BY <2>1, <2>2, <2>3 DEF RoutesAreRegistered, q

(* No part of a spawn's prompt occurs twice.                               *)
LEMMA PromptsSay ==
  ASSUME spawned \in Prompts
  PROVE  InstructionsOnce
<1>1. \A i, j \in DOMAIN spawned : spawned[i] = spawned[j] => i = j
  <2>1. CASE spawned = <<>>
    BY <2>1
  <2>2. CASE spawned = <<"prompt">>
    BY <2>2
  <2>3. CASE spawned = <<"heading", "codex", "prompt">>
    BY <2>3
  <2>4. CASE spawned = <<"heading", "codex", "gemini", "prompt">>
    BY <2>4
  <2> QED BY <2>1, <2>2, <2>3, <2>4 DEF Prompts
<1> SUFFICES ASSUME NEW p
             PROVE  Cardinality({k \in DOMAIN spawned : spawned[k] = p}) <= 1
  BY DEF InstructionsOnce
<1> DEFINE S == {k \in DOMAIN spawned : spawned[k] = p}
<1>2. CASE S = {}
  BY <1>2, FS_EmptySet
<1>3. CASE S # {}
  <2>1. PICK k : k \in S
    BY <1>3
  <2>2. S = {k}
    BY <2>1, <1>1
  <2> HIDE DEF S
  <2>3. Cardinality(S) = 1
    BY <2>2, FS_Singleton
  <2> QED BY <2>3 DEF S
<1> QED BY <1>2, <1>3

(* The heading of the delegations, what they say, the prompt.              *)
LEMMA Spelled ==
  /\ (<<"heading">> \o <<"codex">>) \o <<"prompt">> = <<"heading", "codex", "prompt">>
  /\ (<<"heading">> \o <<"codex", "gemini">>) \o <<"prompt">> = <<"heading", "codex", "gemini", "prompt">>
<1> DEFINE P == {"heading", "codex", "gemini", "prompt"}
           h == <<"heading">>
           p == <<"prompt">>
           c == <<"codex">>
           g == <<"codex", "gemini">>
           c3 == <<"heading", "codex", "prompt">>
           g4 == <<"heading", "codex", "gemini", "prompt">>
<1>1. /\ h \in Seq(P) /\ p \in Seq(P) /\ c \in Seq(P) /\ g \in Seq(P) /\ c3 \in Seq(P) /\ g4 \in Seq(P)
      /\ Len(h) = 1 /\ Len(p) = 1 /\ Len(c) = 1 /\ Len(g) = 2 /\ Len(c3) = 3 /\ Len(g4) = 4
      /\ h[1] = "heading" /\ p[1] = "prompt" /\ c[1] = "codex" /\ g[1] = "codex" /\ g[2] = "gemini"
      /\ c3[1] = "heading" /\ c3[2] = "codex" /\ c3[3] = "prompt"
      /\ g4[1] = "heading" /\ g4[2] = "codex" /\ g4[3] = "gemini" /\ g4[4] = "prompt"
  OBVIOUS
<1> HIDE DEF P, h, p, c, g, c3, g4
<1> DEFINE hc == h \o c
           hg == h \o g
<1>2. hc \in Seq(P) /\ Len(hc) = 2 /\ hc[1] = "heading" /\ hc[2] = "codex"
  <2>1. hc \in Seq(P) /\ Len(hc) = Len(h) + Len(c)
        /\ \A i \in 1..Len(h) + Len(c) : hc[i] = IF i <= Len(h) THEN h[i] ELSE c[i - Len(h)]
    BY <1>1, ConcatProperties
  <2> HIDE DEF hc
  <2>2. Len(hc) = 2 /\ \A i \in 1..2 : hc[i] = IF i <= 1 THEN h[i] ELSE c[i - 1]
    BY <2>1, <1>1
  <2> QED BY <2>1, <2>2, <1>1
<1>3. hg \in Seq(P) /\ Len(hg) = 3 /\ hg[1] = "heading" /\ hg[2] = "codex" /\ hg[3] = "gemini"
  <2>1. hg \in Seq(P) /\ Len(hg) = Len(h) + Len(g)
        /\ \A i \in 1..Len(h) + Len(g) : hg[i] = IF i <= Len(h) THEN h[i] ELSE g[i - Len(h)]
    BY <1>1, ConcatProperties
  <2> HIDE DEF hg
  <2>2. Len(hg) = 3 /\ \A i \in 1..3 : hg[i] = IF i <= 1 THEN h[i] ELSE g[i - 1]
    BY <2>1, <1>1
  <2> QED BY <2>1, <2>2, <1>1
<1> HIDE DEF hc, hg
<1> DEFINE x == hc \o p
           y == hg \o p
<1>4. x \in Seq(P) /\ Len(x) = 3 /\ x[1] = "heading" /\ x[2] = "codex" /\ x[3] = "prompt"
  <2>1. x \in Seq(P) /\ Len(x) = Len(hc) + Len(p)
        /\ \A i \in 1..Len(hc) + Len(p) : x[i] = IF i <= Len(hc) THEN hc[i] ELSE p[i - Len(hc)]
    BY <1>1, <1>2, ConcatProperties
  <2> HIDE DEF x
  <2>2. Len(x) = 3 /\ \A i \in 1..3 : x[i] = IF i <= 2 THEN hc[i] ELSE p[i - 2]
    BY <2>1, <1>1, <1>2
  <2> QED BY <2>1, <2>2, <1>1, <1>2
<1>5. y \in Seq(P) /\ Len(y) = 4 /\ y[1] = "heading" /\ y[2] = "codex" /\ y[3] = "gemini" /\ y[4] = "prompt"
  <2>1. y \in Seq(P) /\ Len(y) = Len(hg) + Len(p)
        /\ \A i \in 1..Len(hg) + Len(p) : y[i] = IF i <= Len(hg) THEN hg[i] ELSE p[i - Len(hg)]
    BY <1>1, <1>3, ConcatProperties
  <2> HIDE DEF y
  <2>2. Len(y) = 4 /\ \A i \in 1..4 : y[i] = IF i <= 3 THEN hg[i] ELSE p[i - 3]
    BY <2>1, <1>1, <1>3
  <2> QED BY <2>1, <2>2, <1>1, <1>3
<1> HIDE DEF x, y
<1>6. x = c3
  <2>1. \A k \in 1..3 : x[k] = c3[k]
    BY <1>1, <1>4
  <2> QED BY <1>1, <1>4, <2>1, SeqEqual
<1>7. y = g4
  <2>1. \A k \in 1..4 : y[k] = g4[k]
    BY <1>1, <1>5
  <2> QED BY <1>1, <1>5, <2>1, SeqEqual
<1> QED BY <1>6, <1>7 DEF x, y, hc, hg, h, p, c, g, c3, g4

LEMMA RouterInvInit == RouterInit => RouterInv
<1> SUFFICES ASSUME RouterInit PROVE RouterInv
  OBVIOUS
<1>1. Idle \in Question
  <2>1. [len |-> 0, code |-> FALSE, paragraphs |-> 1] \in
           {[len |-> 0, code |-> FALSE, paragraphs |-> 1],
            [len |-> 0, code |-> TRUE, paragraphs |-> 1],
            [len |-> 2, code |-> TRUE, paragraphs |-> 1]}
    OBVIOUS
  <2>2. <<"codex", "gemini">> \in {<<"codex", "gemini">>, <<"gemini", "gemini">>, <<"claude", "codex">>}
    OBVIOUS
  <2>3. 0 \in 0..2 /\ FALSE \in BOOLEAN /\ "claude" \in {"claude", "gemini"} /\ {} \in SUBSET (1..2)
        /\ {} \in SUBSET Backends
    OBVIOUS
  <2> QED BY <2>1, <2>2, <2>3 DEF Idle, Question
<1>2. text \in Seq(Chars) /\ spawned \in Prompts
  BY DEF RouterInit, Prompts
<1>3. resumes \in 0..MaxResumes
  BY RouterConstants DEF RouterInit
<1> QED BY <1>1, <1>2, <1>3 DEF RouterInit, RouterInv

LEMMA RouterInvStep ==
  ASSUME RouterInv, [RouterNext]_routerVars
  PROVE  RouterInv'
<1> USE DEF RouterInv
<1>1. ASSUME NEW c \in Chars, Type(c) PROVE RouterInv'
  BY <1>1 DEF Type
<1>2. ASSUME Ask PROVE RouterInv'
  BY <1>2 DEF Ask
<1>3. ASSUME NEW d \in {<<>>, <<"codex">>, <<"codex", "gemini">>}, SpawnDelegating(d) PROVE RouterInv'
  <2>1. spawned' = FormatDelegationPrompt(d) \o <<"prompt">>
    BY <1>3 DEF SpawnDelegating, SpawnPrompt
  <2>2. CASE d = <<>>
    <3>1. spawned' = <<>> \o <<"prompt">>
      BY <2>1, <2>2 DEF FormatDelegationPrompt
    <3>2. spawned' = <<"prompt">>
      BY <3>1
    <3> QED BY <3>2, <1>3 DEF SpawnDelegating, Prompts
  <2>3. CASE d = <<"codex">>
    <3>1. d # <<>>
      BY <2>3
    <3>2. spawned' = (<<"heading">> \o <<"codex">>) \o <<"prompt">>
      BY <2>1, <2>3, <3>1 DEF FormatDelegationPrompt
    <3>3. spawned' = <<"heading", "codex", "prompt">>
      BY <3>2, Spelled
    <3> QED BY <3>3, <1>3 DEF SpawnDelegating, Prompts
  <2>4. CASE d = <<"codex", "gemini">>
    <3>1. d # <<>>
      BY <2>4
    <3>2. spawned' = (<<"heading">> \o <<"codex", "gemini">>) \o <<"prompt">>
      BY <2>1, <2>4, <3>1 DEF FormatDelegationPrompt
    <3>3. spawned' = <<"heading", "codex", "gemini", "prompt">>
      BY <3>2, Spelled
    <3> QED BY <3>3, <1>3 DEF SpawnDelegating, Prompts
  <2> QED BY <2>2, <2>3, <2>4
<1>4. ASSUME ResumeSaved PROVE RouterInv'
  <2>1. spawned' = <<>> \o spawned
    BY <1>4 DEF ResumeSaved, SpawnPrompt, ToSpawnConfig, FormatDelegationPrompt
  <2>2. spawned \in Seq({"heading", "codex", "gemini", "prompt"})
    <3> DEFINE P == {"heading", "codex", "gemini", "prompt"}
    <3>1. <<>> \in Seq(P) /\ <<"prompt">> \in Seq(P) /\ <<"heading", "codex", "prompt">> \in Seq(P)
      OBVIOUS
    <3>2. <<"heading", "codex", "gemini", "prompt">> \in Seq(P)
      OBVIOUS
    <3> HIDE DEF P
    <3> QED BY <3>1, <3>2 DEF Prompts, P
  <2>3. spawned' = spawned
    BY <2>1, <2>2, ConcatEmptySeq
  <2>4. (resumes + 1) \in 0..MaxResumes
    BY <1>4, RouterConstants DEF ResumeSaved
  <2> QED BY <2>3, <2>4, <1>4 DEF ResumeSaved
<1>5. ASSUME UNCHANGED routerVars PROVE RouterInv'
  BY <1>5 DEF routerVars
<1> QED BY <1>1, <1>2, <1>3, <1>4, <1>5 DEF RouterNext

LEMMA RouterTyped == RouterInv => RouterTypeOK
<1> SUFFICES ASSUME RouterInv PROVE RouterTypeOK
  OBVIOUS
<1>1. \A k \in DOMAIN text : text[k] \in Chars
  BY DEF RouterInv
<1> QED BY <1>1 DEF RouterInv, RouterTypeOK

\* What ChoicesAreSound says of consensus and routing (consensus/mod.rs, router.rs,
\* delegation.rs) holds in every reachable state, for all agents, answers, prompts
\* and keywords: a majority is one value's, contains_word finds exactly the whole
\* words that do not overlap themselves, and so on.
THEOREM ChoicesStaySound == ConsensusSpec /\ RouterSpec => []ChoicesAreSound
<1>1. ConsensusSpec => [](ConsensusTypeOK /\ MajorityIsOne /\ StrategiesAgree)
  BY ConsensusInvInit, ConsensusInvStep, ConsensusSays, PTL DEF ConsensusSpec
<1>2. RouterInv => RouterTypeOK /\ WordsAreFound /\ RoutesAreRegistered /\ InstructionsOnce
  BY RouterTyped, RouterSays, RoutesSay, PromptsSay, RouterConstants DEF RouterInv
<1>3. RouterSpec => [](RouterTypeOK /\ WordsAreFound /\ RoutesAreRegistered /\ InstructionsOnce)
  BY <1>2, RouterInvInit, RouterInvStep, PTL DEF RouterSpec
<1>4. (ConsensusTypeOK /\ MajorityIsOne /\ StrategiesAgree)
        /\ (RouterTypeOK /\ WordsAreFound /\ RoutesAreRegistered /\ InstructionsOnce)
        => ChoicesAreSound
  BY DEF ChoicesAreSound
<1> QED BY <1>1, <1>3, <1>4, PTL
-----------------------------------------------------------------------------
(* The task files. A cascade stands for the waits it is still to take out  *)
(* of the files, so between two of its steps every other wait is for an    *)
(* open task or known to be late.                                          *)
TaskFilesTyped ==
  /\ DOMAIN tasks \subseteq TaskIds
  /\ \A i \in DOMAIN tasks : tasks[i] \in TaskFile
  /\ cascade \in [id : 0..MaxId, left : SUBSET (DOMAIN tasks)]
  /\ cascade.id \notin cascade.left /\ (cascade.left # {} => cascade.id \in TaskIds)
  /\ late \subseteq TaskIds \X TaskIds
  /\ cuts \in 0..MaxCuts

Waits ==
  \A i \in DOMAIN tasks : \A d \in tasks[i].blocked_by : <<i, d>> \notin late =>
     /\ d # i
     /\ \/ d \in DOMAIN tasks /\ tasks[d].status # "completed"
        \/ d = cascade.id /\ i \in cascade.left

TaskInv == TaskFilesTyped /\ Waits

LEMMA IdleTasks == ASSUME StoreIdle PROVE cascade.id = 0 /\ cascade.left = {}
BY DEF StoreIdle, NoCascade

LEMMA GreatestOf ==
  ASSUME NEW n \in Nat, NEW S \in SUBSET (1..n), S # {}
  PROVE  \E i \in S : \A j \in S : j <= i
<1> DEFINE T == {n - i : i \in S}
<1>1. T \subseteq Nat /\ T # {}
  <2>1. \A i \in S : n - i \in Nat
    OBVIOUS
  <2> QED BY <2>1, Zenon
<1>2. PICK x \in T : \A y \in T : x <= y
  <2> HIDE DEF T
  <2> QED BY <1>1, SmallestOf
<1>3. PICK i \in S : x = n - i
  BY <1>2
<1>4. \A j \in S : n - i <= n - j
  BY <1>2, <1>3
<1> QED BY <1>4

LEMMA NextIsNew ==
  ASSUME TaskConstants, TaskFilesTyped
  PROVE  NextTaskId \notin DOMAIN tasks
<1> DEFINE D == DOMAIN tasks
           top == CHOOSE i \in D : \A j \in D : j <= i
<1>1. MaxId \in Nat /\ D \in SUBSET (1..MaxId)
  BY DEF TaskConstants, TaskFilesTyped, TaskIds
<1>2. CASE D = {}
  BY <1>2
<1>3. CASE D # {}
  <2>1. \E i \in D : \A j \in D : j <= i
    <3> HIDE DEF D
    <3> QED BY <1>1, <1>3, GreatestOf
  <2>2. top \in D /\ \A j \in D : j <= top
    BY <2>1
  <2>3. NextTaskId = 1 + top
    BY <1>3 DEF NextTaskId
  <2> HIDE DEF top, D
  <2>4. 1 + top \notin D
    BY <2>2, <1>1
  <2> QED BY <2>3, <2>4 DEF D
<1> QED BY <1>2, <1>3

LEMMA TaskInvInit == ASSUME TaskConstants PROVE TaskInit => TaskInv
<1> SUFFICES ASSUME TaskInit PROVE TaskInv
  OBVIOUS
<1>1. DOMAIN tasks = {}
  BY DEF TaskInit
<1> QED BY <1>1 DEF TaskInit, TaskInv, TaskFilesTyped, Waits, NoCascade, TaskConstants, TaskIds

LEMMA CreateTaskKeeps == ASSUME TaskConstants, TaskInv, CreateTask PROVE TaskInv'
<1> DEFINE n == NextTaskId
           D == DOMAIN tasks
           new == [status |-> "pending", owned |-> FALSE, blocked_by |-> {}]
<1>0. TaskFilesTyped /\ Waits
  BY DEF TaskInv
<1>1. n \notin D /\ n \in TaskIds
  BY <1>0, NextIsNew DEF CreateTask
<1>2. tasks' = [i \in D \cup {n} |-> IF i = n THEN new ELSE tasks[i]] /\ UNCHANGED <<cascade, late, cuts>>
  BY DEF CreateTask
<1>3. new \in TaskFile /\ new.blocked_by = {} /\ new.status = "pending"
  BY DEF TaskFile, TaskStatus
<1> HIDE DEF n, new
<1>4. DOMAIN tasks' = D \cup {n} /\ tasks'[n] = new /\ \A i \in D : tasks'[i] = tasks[i]
  BY <1>1, <1>2
<1>5. TaskFilesTyped'
  BY <1>0, <1>1, <1>2, <1>3, <1>4 DEF TaskFilesTyped
<1>6. Waits'
  BY <1>0, <1>1, <1>2, <1>3, <1>4 DEF Waits, TaskFilesTyped
<1> QED BY <1>5, <1>6 DEF TaskInv

(* What cascade_completion has before it, and nobody else names the task.  *)
LEMMA CascadeIs ==
  ASSUME NEW id \in 1..MaxId, NEW files, NEW c, c = CascadeFrom(id, files)
  PROVE  /\ \/ c = NoCascade
            \/ /\ c \in [id : {id}, left : SUBSET (DOMAIN files)]
               /\ id \notin c.left
         /\ \A i \in DOMAIN files : i # id /\ id \in files[i].blocked_by => i \in c.left /\ c.id = id
<1> DEFINE naming == {i \in DOMAIN files : i # id /\ id \in files[i].blocked_by}
<1>1. naming \subseteq DOMAIN files /\ id \notin naming
  OBVIOUS
<1>2. naming = {} => c = NoCascade
  BY DEF CascadeFrom
<1>3. naming # {} => c = [id |-> id, left |-> naming]
  BY DEF CascadeFrom
<1>4. \A i \in DOMAIN files : i # id /\ id \in files[i].blocked_by => i \in naming
  OBVIOUS
<1> HIDE DEF naming
<1> QED BY <1>1, <1>2, <1>3, <1>4

LEMMA UpdateTaskKeeps ==
  ASSUME TaskConstants, TaskInv, NEW id \in TaskIds, NEW s \in TaskStatus, NEW o \in BOOLEAN,
         NEW d \in SUBSET TaskIds, UpdateTask(id, s, o, d)
  PROVE  TaskInv'
<1> DEFINE D == DOMAIN tasks
           new == UpdatedBy(tasks[id], s, o, d)
           added == d \ tasks[id].blocked_by
<1>0. TaskFilesTyped /\ Waits /\ cascade.left = {}
  BY IdleTasks DEF TaskInv, UpdateTask
<1>1. id \in D /\ tasks[id] \in TaskFile
  BY <1>0 DEF UpdateTask, TaskFilesTyped
<1>2. /\ tasks' = [tasks EXCEPT ![id] = new]
      /\ cascade' = IF tasks[id].status # "completed" /\ s = "completed"
                    THEN CascadeFrom(id, tasks') ELSE NoCascade
      /\ late' = late \cup LateEdges(id, added)
      /\ cuts' = cuts
  BY DEF UpdateTask
<1>3. new \in TaskFile /\ new.status = s /\ new.blocked_by = tasks[id].blocked_by \cup d
  BY <1>1 DEF UpdatedBy, TaskFile
<1>4. D \subseteq TaskIds
  BY <1>0 DEF TaskFilesTyped
<1> HIDE DEF new
<1>5. DOMAIN tasks' = D /\ tasks'[id] = new /\ \A i \in D : i # id => tasks'[i] = tasks[i]
  BY <1>1, <1>2
<1>6. /\ NoCascade \in [id : 0..MaxId, left : SUBSET D]
      /\ NoCascade.id \notin NoCascade.left /\ NoCascade.left = {}
  BY DEF NoCascade, TaskConstants
<1>7. /\ cascade' \in [id : 0..MaxId, left : SUBSET D] /\ cascade'.id \notin cascade'.left
      /\ cascade'.left # {} => cascade'.id \in TaskIds
      /\ tasks[id].status # "completed" /\ s = "completed" =>
           \A i \in D : i # id /\ id \in tasks'[i].blocked_by => i \in cascade'.left /\ cascade'.id = id
  <2>1. CASE tasks[id].status # "completed" /\ s = "completed"
    <3>1. cascade' = CascadeFrom(id, tasks')
      BY <2>1, <1>2
    <3> DEFINE files == tasks'
               c == cascade'
    <3>2. c = CascadeFrom(id, files) /\ DOMAIN files = D /\ id \in 1..MaxId
      BY <3>1, <1>5 DEF TaskIds
    <3> HIDE DEF files, c, D
    <3>3. /\ \/ c = NoCascade
             \/ c \in [id : {id}, left : SUBSET D] /\ id \notin c.left
          /\ \A i \in D : i # id /\ id \in files[i].blocked_by => i \in c.left /\ c.id = id
      BY <3>2, CascadeIs
    <3>4. MaxId \in Nat /\ id \in 0..MaxId
      BY <3>2 DEF TaskConstants
    <3>5. /\ c \in [id : 0..MaxId, left : SUBSET D] /\ c.id \notin c.left
          /\ c.left # {} => c.id \in TaskIds
      BY <3>3, <3>4, <1>6
    <3> QED BY <3>3, <3>5 DEF files, c
  <2>2. CASE ~(tasks[id].status # "completed" /\ s = "completed")
    BY <2>2, <1>2, <1>6
  <2> QED BY <2>1, <2>2
<1>8. \A x \in d : x \notin tasks[id].blocked_by /\ (x \notin D \/ tasks[x].status = "completed" \/ x = id) =>
        <<id, x>> \in late'
  BY <1>2 DEF LateEdges
<1>9. late \subseteq late' /\ late' \subseteq TaskIds \X TaskIds
  BY <1>0, <1>2, <1>4 DEF LateEdges, TaskFilesTyped
<1>10. TaskFilesTyped'
  <2>1. \A i \in D : tasks'[i] \in TaskFile
    BY <1>0, <1>3, <1>5 DEF TaskFilesTyped
  <2> QED BY <2>1, <1>0, <1>2, <1>4, <1>5, <1>7, <1>9 DEF TaskFilesTyped
<1>11. ASSUME NEW i \in D, NEW x \in tasks'[i].blocked_by, <<i, x>> \notin late'
       PROVE  /\ x # i
              /\ \/ x \in D /\ tasks'[x].status # "completed"
                 \/ x = cascade'.id /\ i \in cascade'.left
  <2>1. <<i, x>> \notin late
    BY <1>9, <1>11
  <2>2. x # i /\ x \in D /\ tasks[x].status # "completed"
    <3>1. CASE x \in tasks[i].blocked_by
      BY <3>1, <2>1, <1>0 DEF Waits
    <3>2. CASE x \notin tasks[i].blocked_by
      <4>1. i = id /\ x \in d
        BY <3>2, <1>3, <1>5, <1>11
      <4> QED BY <4>1, <3>2, <1>8, <1>11
    <3> QED BY <3>1, <3>2
  <2>3. CASE x # id \/ s # "completed"
    BY <2>2, <2>3, <1>3, <1>5
  <2>4. CASE x = id /\ s = "completed"
    BY <2>2, <2>4, <1>7, <1>11
  <2> QED BY <2>2, <2>3, <2>4
<1>12. Waits'
  BY <1>5, <1>11 DEF Waits
<1> QED BY <1>10, <1>12 DEF TaskInv

LEMMA DeleteTaskKeeps ==
  ASSUME TaskConstants, TaskInv, NEW id \in TaskIds, DeleteTask(id)
  PROVE  TaskInv'
<1> DEFINE D == DOMAIN tasks \ {id}
<1>0. TaskFilesTyped /\ Waits /\ cascade.left = {}
  BY IdleTasks DEF TaskInv, DeleteTask
<1>1. /\ tasks' = [i \in D |-> tasks[i]] /\ cascade' = CascadeFrom(id, tasks')
      /\ late' = {e \in late : e[1] # id} /\ cuts' = cuts
  BY DEF DeleteTask
<1>2. DOMAIN tasks' = D /\ \A i \in D : tasks'[i] = tasks[i]
  BY <1>1
<1>3. /\ cascade' \in [id : 0..MaxId, left : SUBSET D] /\ cascade'.id \notin cascade'.left
      /\ cascade'.left # {} => cascade'.id \in TaskIds
      /\ \A i \in D : i # id /\ id \in tasks'[i].blocked_by => i \in cascade'.left /\ cascade'.id = id
  <2> DEFINE files == tasks'
             c == cascade'
  <2>1. c = CascadeFrom(id, files) /\ DOMAIN files = D /\ id \in 1..MaxId
    BY <1>1, <1>2 DEF TaskIds
  <2> HIDE DEF files, c, D
  <2>2. /\ \/ c = NoCascade
           \/ c \in [id : {id}, left : SUBSET D] /\ id \notin c.left
        /\ \A i \in D : i # id /\ id \in files[i].blocked_by => i \in c.left /\ c.id = id
    BY <2>1, CascadeIs
  <2>3. MaxId \in Nat /\ id \in 0..MaxId
    BY <2>1 DEF TaskConstants
  <2>4. /\ NoCascade \in [id : 0..MaxId, left : SUBSET D]
        /\ NoCascade.id \notin NoCascade.left /\ NoCascade.left = {}
    BY DEF NoCascade, TaskConstants
  <2>5. /\ c \in [id : 0..MaxId, left : SUBSET D] /\ c.id \notin c.left
        /\ c.left # {} => c.id \in TaskIds
    BY <2>2, <2>3, <2>4
  <2> QED BY <2>2, <2>5 DEF files, c
<1>4. TaskFilesTyped'
  <2>1. \A i \in D : tasks'[i] \in TaskFile
    BY <1>0, <1>2 DEF TaskFilesTyped
  <2>2. D \subseteq TaskIds /\ late' \subseteq TaskIds \X TaskIds
    BY <1>0, <1>1 DEF TaskFilesTyped
  <2> QED BY <2>1, <2>2, <1>0, <1>1, <1>2, <1>3 DEF TaskFilesTyped
<1>5. ASSUME NEW i \in D, NEW x \in tasks'[i].blocked_by, <<i, x>> \notin late'
      PROVE  /\ x # i
             /\ \/ x \in D /\ tasks'[x].status # "completed"
                \/ x = cascade'.id /\ i \in cascade'.left
  <2>1. i # id /\ x \in tasks[i].blocked_by /\ <<i, x>> \notin late
    BY <1>1, <1>2, <1>5
  <2>2. x # i /\ x \in DOMAIN tasks /\ tasks[x].status # "completed"
    BY <2>1, <1>0 DEF Waits
  <2>3. CASE x = id
    BY <2>1, <2>2, <2>3, <1>3, <1>5
  <2>4. CASE x # id
    BY <2>2, <2>4, <1>2
  <2> QED BY <2>3, <2>4
<1>6. Waits'
  BY <1>2, <1>5 DEF Waits
<1> QED BY <1>4, <1>6 DEF TaskInv

LEMMA CascadeStepKeeps == ASSUME TaskConstants, TaskInv, NEW i \in TaskIds, CascadeStep(i) PROVE TaskInv'
<1> DEFINE D == DOMAIN tasks
           id == cascade.id
           left == cascade.left \ {i}
           old == tasks[i]
           new == [old EXCEPT !.blocked_by = @ \ {id}]
<1>0. TaskFilesTyped /\ Waits
  BY DEF TaskInv
<1>1. /\ i \in cascade.left /\ i \in D /\ i # id /\ cascade \in [id : 0..MaxId, left : SUBSET D]
      /\ old \in TaskFile /\ id \in TaskIds
  BY <1>0 DEF CascadeStep, TaskFilesTyped
<1>2. /\ tasks' = [tasks EXCEPT ![i] = new]
      /\ cascade' = IF cascade.left = {i} THEN NoCascade ELSE [cascade EXCEPT !.left = left]
      /\ late' = late \ {<<i, id>>} /\ cuts' = cuts
  BY DEF CascadeStep
<1>3. new \in TaskFile /\ new.status = old.status /\ new.blocked_by = old.blocked_by \ {id}
  <2> HIDE DEF old, id
  <2> QED BY <1>1 DEF TaskFile
<1> HIDE DEF new
<1>4. DOMAIN tasks' = D /\ tasks'[i] = new /\ \A j \in D : j # i => tasks'[j] = tasks[j]
  BY <1>1, <1>2
<1>5. /\ cascade' \in [id : 0..MaxId, left : SUBSET D] /\ cascade'.id \notin cascade'.left
      /\ cascade'.left = left /\ (left # {} => cascade'.id = id) /\ id \in TaskIds
  <2>1. CASE cascade.left = {i}
    <3>1. cascade' = NoCascade /\ left = {}
      BY <2>1, <1>2
    <3> QED BY <3>1, <1>1 DEF NoCascade, TaskConstants
  <2>2. CASE cascade.left # {i}
    <3>1. cascade' = [cascade EXCEPT !.left = left]
      BY <2>2, <1>2
    <3>2. id \notin left /\ left \subseteq D /\ id \in 0..MaxId
      BY <1>0, <1>1 DEF TaskFilesTyped
    <3> HIDE DEF left
    <3> QED BY <3>1, <3>2, <1>1
  <2> QED BY <2>1, <2>2
<1>6. TaskFilesTyped'
  <2>1. \A j \in D : tasks'[j] \in TaskFile
    BY <1>0, <1>3, <1>4 DEF TaskFilesTyped
  <2>2. late' \subseteq TaskIds \X TaskIds /\ cuts' \in 0..MaxCuts /\ D \subseteq TaskIds
    BY <1>0, <1>2 DEF TaskFilesTyped
  <2> QED BY <2>1, <2>2, <1>4, <1>5 DEF TaskFilesTyped
<1>7. ASSUME NEW j \in D, NEW x \in tasks'[j].blocked_by, <<j, x>> \notin late'
      PROVE  /\ x # j
             /\ \/ x \in D /\ tasks'[x].status # "completed"
                \/ x = cascade'.id /\ j \in cascade'.left
  <2>1. x \in tasks[j].blocked_by /\ ~(j = i /\ x = id)
    BY <1>3, <1>4, <1>7
  <2>2. <<j, x>> \notin late
    BY <2>1, <1>2, <1>7
  <2>3. /\ x # j
        /\ \/ x \in D /\ tasks[x].status # "completed"
           \/ x = id /\ j \in cascade.left
    BY <2>1, <2>2, <1>0 DEF Waits
  <2>4. CASE x \in D /\ tasks[x].status # "completed"
    BY <2>3, <2>4, <1>3, <1>4
  <2>5. CASE x = id /\ j \in cascade.left
    <3>1. j \in left
      BY <2>1, <2>5
    <3> QED BY <3>1, <2>3, <2>5, <1>5
  <2> QED BY <2>3, <2>4, <2>5
<1>8. Waits'
  BY <1>4, <1>7 DEF Waits
<1> QED BY <1>6, <1>8 DEF TaskInv

LEMMA CutCascadeKeeps == ASSUME TaskConstants, TaskInv, CutCascade PROVE TaskInv'
<1>0. TaskFilesTyped /\ Waits
  BY DEF TaskInv
<1>1. /\ cuts' = cuts + 1 /\ cuts < MaxCuts /\ tasks' = tasks /\ cascade' = NoCascade
      /\ late' = late \cup (cascade.left \X {cascade.id})
  BY DEF CutCascade
<1>2. /\ NoCascade \in [id : 0..MaxId, left : SUBSET (DOMAIN tasks)]
      /\ NoCascade.id \notin NoCascade.left /\ NoCascade.left = {}
  BY DEF NoCascade, TaskConstants
<1>3. cuts' \in 0..MaxCuts
  BY <1>0, <1>1 DEF TaskFilesTyped, TaskConstants
<1>4. cascade.left # {} => cascade.id \in TaskIds
  BY <1>0 DEF TaskFilesTyped
<1>5. late' \subseteq TaskIds \X TaskIds
  BY <1>0, <1>1, <1>4 DEF TaskFilesTyped
<1> QED BY <1>0, <1>1, <1>2, <1>3, <1>5 DEF TaskInv, TaskFilesTyped, Waits

LEMMA TaskInvStep == ASSUME TaskConstants PROVE TaskInv /\ [TaskNext]_taskVars => TaskInv'
<1> SUFFICES ASSUME TaskInv, [TaskNext]_taskVars PROVE TaskInv'
  OBVIOUS
<1>1. CASE CreateTask
  BY <1>1, CreateTaskKeeps
<1>2. ASSUME NEW id \in TaskIds, NEW s \in TaskStatus, NEW o \in BOOLEAN,
             NEW d \in {{}} \cup {{x} : x \in TaskIds}, UpdateTask(id, s, o, d)
      PROVE  TaskInv'
  <2>1. d \in SUBSET TaskIds
    OBVIOUS
  <2> QED BY <2>1, <1>2, UpdateTaskKeeps
<1>3. ASSUME NEW id \in TaskIds, DeleteTask(id) PROVE TaskInv'
  BY <1>3, DeleteTaskKeeps
<1>4. ASSUME NEW i \in TaskIds, CascadeStep(i) PROVE TaskInv'
  BY <1>4, CascadeStepKeeps
<1>5. CASE CutCascade
  BY <1>5, CutCascadeKeeps
<1>6. CASE UNCHANGED taskVars
  BY <1>6 DEF taskVars, TaskInv, TaskFilesTyped, Waits
<1> QED BY <1>1, <1>2, <1>3, <1>4, <1>5, <1>6 DEF TaskNext

(* A ready task whose waits are neither late nor for a deleted task waits  *)
(* for nothing: it is one of those the smallest is offered of.             *)
LEMMA TaskInvSays ==
  ASSUME TaskConstants, TaskInv
  PROVE  TaskTypeOK /\ WaitsAreExplained /\ ReadyIsOffered
<1>0. TaskFilesTyped /\ Waits
  BY DEF TaskInv
<1>1. TaskTypeOK
  BY <1>0 DEF TaskTypeOK, TaskFilesTyped
<1>2. WaitsAreExplained
  <2> SUFFICES ASSUME StoreIdle, NEW e \in Edges \ late
               PROVE  e[2] \in DOMAIN tasks /\ tasks[e[2]].status # "completed"
    BY DEF WaitsAreExplained
  <2>1. e = <<e[1], e[2]>> /\ e[1] \in DOMAIN tasks /\ e[2] \in tasks[e[1]].blocked_by
    BY DEF Edges
  <2>2. <<e[1], e[2]>> \notin late
    BY <2>1
  <2> QED BY <2>1, <2>2, <1>0, IdleTasks DEF Waits
<1>3. ASSUME NEW i \in DOMAIN tasks,
             StoreIdle, IsReady(i), tasks[i].status = "pending", ~tasks[i].owned,
             \A d \in Deps(i) : <<i, d>> \notin late /\ tasks[d].status # "deleted"
      PROVE  NextAvailable \in 1..i
  <2> DEFINE open == {j \in Unblocked : tasks[j].status = "pending" /\ ~tasks[j].owned}
             least == CHOOSE j \in open : \A k \in open : j <= k
  <2>1. tasks[i].blocked_by = {}
    <3> SUFFICES ASSUME NEW d \in tasks[i].blocked_by PROVE FALSE
      OBVIOUS
    <3>1. d \in Deps(i)
      BY DEF Deps
    <3>2. d \in DOMAIN tasks /\ tasks[d].status = "completed"
      BY <3>1, <1>3 DEF IsReady
    <3>3. d \in DOMAIN tasks /\ tasks[d].status # "completed"
      BY <3>1, <1>0, <1>3, IdleTasks DEF Waits
    <3> QED BY <3>2, <3>3
  <2>2. i \in open
    BY <2>1, <1>3 DEF Unblocked
  <2>3. open \subseteq 1..MaxId /\ MaxId \in Nat
    BY <1>0 DEF TaskFilesTyped, TaskIds, Unblocked, TaskConstants
  <2>4. NextAvailable = least
    BY <2>2 DEF NextAvailable
  <2> HIDE DEF open
  <2>5. open \subseteq Nat
    BY <2>3
  <2>6. \E j \in open : \A k \in open : j <= k
    BY <2>2, <2>5, SmallestOf
  <2>7. least \in open /\ \A k \in open : least <= k
    BY <2>6
  <2> HIDE DEF least
  <2> QED BY <2>2, <2>3, <2>4, <2>7
<1>4. ReadyIsOffered
  BY <1>3 DEF ReadyIsOffered
<1> QED BY <1>1, <1>2, <1>4

-----------------------------------------------------------------------------
(* The checkpoints. Every checkpoint has a creation date of its own, and a *)
(* caller that is collecting knows the commit it will note; while no two   *)
(* collect at once the note about to be saved shows every completion that  *)
(* is on record.                                                           *)
Boards == [Tasks -> {"absent", "pending", "completed"}]
FileSets == UNION {[S -> 0..2] : S \in SUBSET Paths}
Begun == [kind : {"checkpoint"}, commit : Nat, created : Nat, files : FileSets]
Whole == [kind : {"checkpoint"}, commit : Nat, created : Nat, files : FileSets,
          members : SUBSET Names, tasks : Boards]
AnyNote == {NoNote, Broken} \cup Whole
Trigger ==
  [pc : {"idle"}]
    \cup [pc : {"team"}, task : Tasks, ckpt : Begun]
    \cup [pc : {"tasks"}, task : Tasks, ckpt : Begun, members : SUBSET Names]
    \cup [pc : {"save"}, task : Tasks, ckpt : Whole]

Collecting(x) == trigger[x].pc # "idle"

CheckpointsTyped ==
  /\ history \in Seq(Trees) /\ Len(history) <= MaxCommits
  /\ notes \in Seq(AnyNote) /\ Len(notes) = Len(history)
  /\ board \in Boards /\ crew \subseteq Names
  /\ trigger \in [Triggers -> Trigger]
  /\ clock \in Nat /\ crossed \in BOOLEAN
  /\ onRecord \subseteq (1..Len(history)) \X Tasks

Dated ==
  /\ \A c \in 1..Len(notes) : Readable(c) => notes[c].commit = c /\ notes[c].created \in 1..clock
  /\ \A x \in Triggers : Collecting(x) =>
        trigger[x].ckpt.commit \in 1..Len(history) /\ trigger[x].ckpt.created \in 1..clock
  /\ \A c, d \in 1..Len(notes) : Readable(c) /\ Readable(d) /\ notes[c].created = notes[d].created => c = d
  /\ \A x, y \in Triggers : Collecting(x) /\ Collecting(y) /\ trigger[x].ckpt.created = trigger[y].ckpt.created
        => x = y
  /\ \A x \in Triggers : \A c \in 1..Len(notes) :
        Collecting(x) /\ Readable(c) => trigger[x].ckpt.created # notes[c].created

Completed ==
  /\ \A r \in onRecord : board[r[2]] = "completed"
  /\ \A x \in Triggers : Collecting(x) => board[trigger[x].task] = "completed"

Recorded ==
  ~crossed =>
    /\ \A x, y \in Triggers : Collecting(x) /\ Collecting(y) => x = y
    /\ \A r \in onRecord : Readable(r[1]) /\ notes[r[1]].tasks[r[2]] = "completed"
    /\ \A x \in Triggers : trigger[x].pc = "save" =>
          /\ trigger[x].ckpt.tasks[trigger[x].task] = "completed"
          /\ \A r \in onRecord : trigger[x].ckpt.tasks[r[2]] = "completed"

CheckpointInv == CheckpointsTyped /\ Dated /\ Completed /\ Recorded

LEMMA CheckpointInvInit == ASSUME CheckpointConstants PROVE CheckpointInit => CheckpointInv
<1> SUFFICES ASSUME CheckpointInit PROVE CheckpointInv
  OBVIOUS
<1>1. /\ history = <<>> /\ notes = <<>> /\ onRecord = {} /\ clock = 0 /\ crossed = FALSE /\ crew = {}
      /\ Len(history) = 0 /\ Len(notes) = 0
  BY DEF CheckpointInit
<1>2. history \in Seq(Trees) /\ notes \in Seq(AnyNote)
  BY <1>1, EmptySeq
<1>3. board \in Boards /\ trigger \in [Triggers -> Trigger] /\ \A x \in Triggers : trigger[x].pc = "idle"
  BY DEF CheckpointInit, Boards, Trigger
<1>4. CheckpointsTyped
  <2>0. MaxCommits \in Nat /\ 0 \in Nat
    BY DEF CheckpointConstants
  <2>1. Len(history) <= MaxCommits /\ Len(notes) = Len(history)
    BY <1>1, <2>0
  <2>3. crossed \in BOOLEAN /\ clock \in Nat
    BY <1>1, <2>0
  <2>2. crew \subseteq Names /\ onRecord \subseteq (1..Len(history)) \X Tasks
    BY <1>1
  <2> QED BY <2>1, <2>2, <2>3, <1>2, <1>3 DEF CheckpointsTyped
<1>5. Dated /\ Completed /\ Recorded
  BY <1>1, <1>3 DEF Dated, Completed, Recorded, Collecting
<1> QED BY <1>4, <1>5 DEF CheckpointInv

LEMMA CommitKeeps == ASSUME CheckpointConstants, CheckpointInv, NEW tree \in Trees, Commit(tree) PROVE CheckpointInv'
<1>0. CheckpointsTyped /\ Dated /\ Completed /\ Recorded
  BY DEF CheckpointInv
<1>1. /\ Len(history) < MaxCommits /\ history' = Append(history, tree) /\ notes' = Append(notes, NoNote)
      /\ board' = board /\ crew' = crew /\ trigger' = trigger /\ clock' = clock /\ onRecord' = onRecord
      /\ crossed' = crossed
  BY DEF Commit
<1>2. NoNote \in AnyNote /\ NoNote.kind = "none"
  BY DEF AnyNote, NoNote
<1>3. PICK n : n \in Nat /\ Len(notes) = n /\ Len(history) = n /\ MaxCommits \in Nat
  BY <1>0, LenProperties DEF CheckpointsTyped, CheckpointConstants
<1>4. history' \in Seq(Trees) /\ Len(history') = n + 1
  BY <1>0, <1>1, <1>3, AppendProperties DEF CheckpointsTyped
<1>5. /\ notes' \in Seq(AnyNote) /\ Len(notes') = n + 1 /\ notes'[n + 1] = NoNote
      /\ \A c \in 1..n : notes'[c] = notes[c]
  BY <1>0, <1>1, <1>2, <1>3, AppendProperties DEF CheckpointsTyped
<1>6. CheckpointsTyped'
  <2>1. onRecord \subseteq (1..n + 1) \X Tasks
    BY <1>0, <1>3 DEF CheckpointsTyped
  <2> QED BY <2>1, <1>0, <1>1, <1>3, <1>4, <1>5 DEF CheckpointsTyped
<1>7. ~Readable(n + 1)' /\ \A c \in 1..n : Readable(c)' <=> Readable(c)
  BY <1>2, <1>5 DEF Readable
<1>8. 1..n + 1 = (1..n) \cup {n + 1} /\ 1..n \subseteq 1..n + 1
  BY <1>3
<1>9. \A x \in Triggers : Collecting(x)' <=> Collecting(x)
  BY <1>1 DEF Collecting
<1>10. Dated'
  BY <1>0, <1>1, <1>3, <1>4, <1>5, <1>7, <1>8, <1>9 DEF Dated
<1>11. Completed'
  BY <1>0, <1>1, <1>9 DEF Completed
<1>12. Recorded'
  <2>1. \A r \in onRecord : r[1] \in 1..n
    BY <1>0, <1>3 DEF CheckpointsTyped
  <2> QED BY <2>1, <1>0, <1>1, <1>5, <1>7, <1>9 DEF Recorded
<1> QED BY <1>6, <1>10, <1>11, <1>12 DEF CheckpointInv

LEMMA AddTaskKeeps == ASSUME CheckpointInv, NEW t \in Tasks, AddTask(t) PROVE CheckpointInv'
<1>0. CheckpointsTyped /\ Dated /\ Completed /\ Recorded
  BY DEF CheckpointInv
<1>1. /\ history' = history /\ notes' = notes /\ crew' = crew /\ trigger' = trigger /\ clock' = clock
      /\ onRecord' = onRecord /\ crossed' = crossed
      /\ board[t] = "absent" /\ board' = [board EXCEPT ![t] = "pending"]
  BY DEF AddTask, Change
<1>2. board' \in Boards /\ \A u : board[u] = "completed" => board'[u] = "completed"
  BY <1>0, <1>1 DEF CheckpointsTyped, Boards
<1>3. CheckpointsTyped'
  BY <1>0, <1>1, <1>2 DEF CheckpointsTyped
<1>4. Dated' /\ Recorded'
  BY <1>0, <1>1 DEF Dated, Recorded, Collecting, Readable
<1>5. Completed'
  BY <1>0, <1>1, <1>2 DEF Completed, Collecting
<1> QED BY <1>3, <1>4, <1>5 DEF CheckpointInv

LEMMA JoinKeeps == ASSUME CheckpointInv, NEW n \in Names, Join(n) PROVE CheckpointInv'
<1>0. CheckpointsTyped /\ Dated /\ Completed /\ Recorded
  BY DEF CheckpointInv
<1>1. /\ history' = history /\ notes' = notes /\ crew' = crew \cup {n} /\ trigger' = trigger
      /\ clock' = clock /\ onRecord' = onRecord /\ crossed' = crossed /\ board' = board
  BY DEF Join, Change
<1>2. CheckpointsTyped'
  BY <1>0, <1>1 DEF CheckpointsTyped
<1>3. Dated' /\ Recorded' /\ Completed'
  BY <1>0, <1>1 DEF Dated, Recorded, Completed, Collecting, Readable
<1> QED BY <1>2, <1>3 DEF CheckpointInv

(* A note taken away, or one that no longer parses.                        *)
LEMMA NoteLost ==
  ASSUME CheckpointInv, NEW c \in 1..Len(notes), NEW lost \in {NoNote, Broken},
         notes' = [notes EXCEPT ![c] = lost], onRecord' = {r \in onRecord : r[1] # c},
         UNCHANGED <<history, board, crew, trigger, clock, crossed>>
  PROVE  CheckpointInv'
<1> DEFINE n == Len(notes)
<1>0. CheckpointsTyped /\ Dated /\ Completed /\ Recorded
  BY DEF CheckpointInv
<1>1. lost \in AnyNote /\ lost.kind # "checkpoint"
  BY DEF AnyNote, NoNote, Broken
<1>2. /\ notes' \in Seq(AnyNote) /\ Len(notes') = n
      /\ \A d \in 1..n : notes'[d] = IF d = c THEN lost ELSE notes[d]
  BY <1>0, <1>1, ExceptSeq DEF CheckpointsTyped
<1>3. ~Readable(c)' /\ \A d \in 1..n : Readable(d)' => Readable(d) /\ notes'[d] = notes[d]
  BY <1>1, <1>2 DEF Readable
<1>4. \A d \in 1..n : d # c /\ Readable(d) => Readable(d)' /\ notes'[d] = notes[d]
  BY <1>2 DEF Readable
<1> HIDE DEF n
<1>5. onRecord' \subseteq onRecord
  OBVIOUS
<1>6. CheckpointsTyped'
  BY <1>0, <1>2, <1>5 DEF CheckpointsTyped, n
<1>7. \A x \in Triggers : Collecting(x)' <=> Collecting(x)
  BY DEF Collecting
<1>8. Dated'
  BY <1>0, <1>2, <1>3, <1>7 DEF Dated, n
<1>9. Completed'
  BY <1>0, <1>5, <1>7 DEF Completed
<1>10. Recorded'
  <2>1. \A r \in onRecord' : r \in onRecord /\ r[1] # c /\ r[1] \in 1..n
    BY <1>0 DEF CheckpointsTyped, n
  <2> QED BY <2>1, <1>0, <1>4, <1>7 DEF Recorded
<1> QED BY <1>6, <1>8, <1>9, <1>10 DEF CheckpointInv

LEMMA DeleteNoteKeeps == ASSUME CheckpointInv, NEW c \in DOMAIN notes, DeleteNote(c) PROVE CheckpointInv'
<1>1. c \in 1..Len(notes)
  BY LenProperties DEF CheckpointInv, CheckpointsTyped
<1>2. /\ notes' = [notes EXCEPT ![c] = NoNote] /\ onRecord' = {r \in onRecord : r[1] # c}
      /\ UNCHANGED <<history, board, crew, trigger, clock, crossed>>
  BY DEF DeleteNote, Change
<1> QED BY <1>1, <1>2, NoteLost

LEMMA BreakNoteKeeps == ASSUME CheckpointInv, NEW c \in DOMAIN notes, BreakNote(c) PROVE CheckpointInv'
<1>1. c \in 1..Len(notes)
  BY LenProperties DEF CheckpointInv, CheckpointsTyped
<1>2. /\ notes' = [notes EXCEPT ![c] = Broken] /\ onRecord' = {r \in onRecord : r[1] # c}
      /\ UNCHANGED <<history, board, crew, trigger, clock, crossed>>
  BY DEF BreakNote, Change
<1> QED BY <1>1, <1>2, NoteLost

LEMMA FilesCollected ==
  ASSUME CheckpointsTyped, NEW c \in 1..Len(history) PROVE CollectFiles(c) \in FileSets
<1> DEFINE parent == IF c = 1 THEN [p \in Paths |-> Absent] ELSE history[c - 1]
           changed == {p \in Paths : history[c][p] # parent[p]}
<1>1. history[c] \in [Paths -> 0..2]
  BY ElementOfSeq DEF CheckpointsTyped, Trees
<1>2. changed \in SUBSET Paths
  OBVIOUS
<1>3. CollectFiles(c) = [p \in changed |-> history[c][p]]
  BY DEF CollectFiles
<1> HIDE DEF changed
<1>4. CollectFiles(c) \in [changed -> 0..2]
  BY <1>1, <1>2, <1>3
<1> QED BY <1>2, <1>4 DEF FileSets

(* A caller moves on; its checkpoint keeps its commit and its date.        *)
LEMMA CollectorMoves ==
  ASSUME CheckpointInv, NEW x \in Triggers, NEW now \in Trigger, Collecting(x),
         trigger' = [trigger EXCEPT ![x] = now], now.pc # "idle", now.task = trigger[x].task,
         now.ckpt.commit = trigger[x].ckpt.commit, now.ckpt.created = trigger[x].ckpt.created,
         now.pc = "save" => now.ckpt.tasks = board,
         UNCHANGED <<history, board, crew, notes, clock, onRecord, crossed>>
  PROVE  CheckpointInv'
<1>0. CheckpointsTyped /\ Dated /\ Completed /\ Recorded
  BY DEF CheckpointInv
<1>1. /\ trigger' \in [Triggers -> Trigger] /\ trigger'[x] = now
      /\ \A y \in Triggers : y # x => trigger'[y] = trigger[y]
  BY <1>0 DEF CheckpointsTyped
<1>2. \A y \in Triggers : /\ Collecting(y)' <=> Collecting(y)
                          /\ trigger'[y].task = trigger[y].task \/ ~Collecting(y)
                          /\ trigger'[y].ckpt.commit = trigger[y].ckpt.commit
                          /\ trigger'[y].ckpt.created = trigger[y].ckpt.created
  BY <1>1 DEF Collecting
<1>3. CheckpointsTyped'
  BY <1>0, <1>1 DEF CheckpointsTyped
<1>4. \A c \in 1..Len(notes) : Readable(c)' <=> Readable(c)
  BY DEF Readable
<1>5. Dated'
  BY <1>0, <1>2, <1>4 DEF Dated
<1>6. Completed'
  BY <1>0, <1>2 DEF Completed
<1>7. Recorded'
  <2> SUFFICES ASSUME ~crossed PROVE Recorded'
    BY DEF Recorded
  <2>1. \A y, z \in Triggers : Collecting(y)' /\ Collecting(z)' => y = z
    BY <1>0, <1>2 DEF Recorded
  <2>2. \A r \in onRecord : Readable(r[1])' /\ notes[r[1]].tasks[r[2]] = "completed"
    BY <1>0 DEF Recorded, Readable
  <2>3. ASSUME NEW y \in Triggers, trigger'[y].pc = "save"
        PROVE  /\ trigger'[y].ckpt.tasks[trigger'[y].task] = "completed"
               /\ \A r \in onRecord : trigger'[y].ckpt.tasks[r[2]] = "completed"
    <3>1. y = x
      <4>1. Collecting(y)' /\ Collecting(x)'
        BY <2>3, <1>1 DEF Collecting
      <4> QED BY <4>1, <2>1
    <3>2. now.ckpt.tasks = board
      BY <3>1, <2>3, <1>1
    <3> QED BY <3>1, <3>2, <1>0, <1>1 DEF Completed
  <2> QED BY <2>1, <2>2, <2>3 DEF Recorded
<1> QED BY <1>3, <1>5, <1>6, <1>7 DEF CheckpointInv

LEMMA CollectTeamStateKeeps == ASSUME CheckpointInv, NEW x \in Triggers, CollectTeamState(x) PROVE CheckpointInv'
<1> DEFINE old == trigger[x]
           now == [pc |-> "tasks", task |-> old.task, ckpt |-> old.ckpt, members |-> crew]
<1>1. old \in Trigger /\ old.pc = "team" /\ crew \subseteq Names
  BY DEF CheckpointInv, CheckpointsTyped, CollectTeamState
<1>2. trigger' = [trigger EXCEPT ![x] = now]
  BY DEF CollectTeamState
<1>3. Collecting(x)
  BY <1>1 DEF Collecting
<1>4. now \in Trigger
  <2> HIDE DEF old
  <2>1. old.task \in Tasks /\ old.ckpt \in Begun
    BY <1>1 DEF Trigger
  <2> QED BY <2>1, <1>1 DEF Trigger
<1>5. now.pc = "tasks" /\ now.task = trigger[x].task /\ now.ckpt = trigger[x].ckpt
  OBVIOUS
<1>6. UNCHANGED <<history, board, crew, notes, clock, onRecord, crossed>>
  BY DEF CollectTeamState
<1> HIDE DEF now
<1> QED BY <1>2, <1>3, <1>4, <1>5, <1>6, CollectorMoves

LEMMA CollectTasksKeeps == ASSUME CheckpointInv, NEW x \in Triggers, CollectTasks(x) PROVE CheckpointInv'
<1> DEFINE old == trigger[x]
           ckpt == [kind |-> "checkpoint", commit |-> old.ckpt.commit, created |-> old.ckpt.created,
                    files |-> old.ckpt.files, members |-> old.members, tasks |-> board]
           now == [pc |-> "save", task |-> old.task, ckpt |-> ckpt]
<1>1. old \in Trigger /\ old.pc = "tasks" /\ board \in Boards
  BY DEF CheckpointInv, CheckpointsTyped, CollectTasks
<1>2. trigger' = [trigger EXCEPT ![x] = now]
  BY DEF CollectTasks
<1>3. Collecting(x)
  BY <1>1 DEF Collecting
<1>4. now \in Trigger
  <2>1. old.task \in Tasks /\ old.ckpt \in Begun /\ old.members \in SUBSET Names
    <3> HIDE DEF old
    <3> QED BY <1>1 DEF Trigger
  <2>2. ckpt \in Whole
    <3> HIDE DEF old
    <3> QED BY <2>1, <1>1 DEF Begun, Whole
  <2> HIDE DEF ckpt, old
  <2> QED BY <2>1, <2>2 DEF Trigger
<1>5. now.pc = "save" /\ now.task = trigger[x].task /\ now.ckpt = ckpt
  OBVIOUS
<1>6. ckpt.commit = trigger[x].ckpt.commit /\ ckpt.created = trigger[x].ckpt.created /\ ckpt.tasks = board
  OBVIOUS
<1>7. UNCHANGED <<history, board, crew, notes, clock, onRecord, crossed>>
  BY DEF CollectTasks
<1> HIDE DEF now, ckpt
<1> QED BY <1>2, <1>3, <1>4, <1>5, <1>6, <1>7, CollectorMoves

LEMMA SaveNoteKeeps == ASSUME CheckpointInv, NEW x \in Triggers, SaveNote(x) PROVE CheckpointInv'
<1> DEFINE ckpt == trigger[x].ckpt
           task == trigger[x].task
           idle == [pc |-> "idle"]
<1>0. CheckpointsTyped /\ Dated /\ Completed /\ Recorded
  BY DEF CheckpointInv
<1>1. PICK c : c = ckpt.commit
  OBVIOUS
<1>2. PICK n : n = Len(notes)
  OBVIOUS
<1>3. /\ notes' = [notes EXCEPT ![c] = ckpt] /\ onRecord' = onRecord \cup {<<c, task>>}
      /\ trigger' = [trigger EXCEPT ![x] = idle]
      /\ UNCHANGED <<history, board, crew, clock, crossed>>
  BY <1>1 DEF SaveNote, Note
<1>4. trigger[x] \in Trigger /\ trigger[x].pc = "save"
  BY <1>0 DEF CheckpointsTyped, SaveNote
<1>5. ckpt \in Whole /\ task \in Tasks /\ Collecting(x)
  BY <1>4 DEF Trigger, Collecting
<1>6. ckpt.kind = "checkpoint" /\ ckpt \in AnyNote
  BY <1>5 DEF Whole, AnyNote
<1>7. c \in 1..n /\ ckpt.created \in 1..clock /\ n = Len(history)
  BY <1>0, <1>1, <1>2, <1>5 DEF Dated, CheckpointsTyped
<1>8. board[task] = "completed"
  BY <1>0, <1>5 DEF Completed
<1>9. idle \in Trigger /\ idle.pc = "idle"
  BY DEF Trigger
<1> HIDE DEF idle
<1>10. /\ notes' \in Seq(AnyNote) /\ Len(notes') = n
       /\ notes'[c] = ckpt /\ \A d \in 1..n : d # c => notes'[d] = notes[d]
  BY <1>0, <1>2, <1>3, <1>6, <1>7, ExceptSeq DEF CheckpointsTyped
<1>11. /\ trigger' \in [Triggers -> Trigger] /\ trigger'[x].pc = "idle"
       /\ \A y \in Triggers : y # x => trigger'[y] = trigger[y]
  BY <1>0, <1>3, <1>9 DEF CheckpointsTyped
<1>12. Readable(c)' /\ \A d \in 1..n : d # c => (Readable(d)' <=> Readable(d))
  BY <1>6, <1>10 DEF Readable
<1>13. ~Collecting(x)' /\ \A y \in Triggers : y # x => (Collecting(y)' <=> Collecting(y))
  BY <1>11 DEF Collecting
<1>14. CheckpointsTyped'
  <2>1. onRecord' \subseteq (1..n) \X Tasks
    BY <1>0, <1>3, <1>5, <1>7 DEF CheckpointsTyped
  <2> QED BY <2>1, <1>0, <1>3, <1>7, <1>10, <1>11 DEF CheckpointsTyped
<1>15. Dated'
  <2>1. \A d \in 1..n : Readable(d)' => notes'[d].commit = d /\ notes'[d].created \in 1..clock
    BY <1>0, <1>1, <1>2, <1>7, <1>10, <1>12 DEF Dated
  <2>2. \A y \in Triggers : Collecting(y)' =>
          /\ y # x /\ Collecting(y) /\ trigger'[y] = trigger[y]
          /\ trigger[y].ckpt.created # ckpt.created
    BY <1>0, <1>5, <1>11, <1>13 DEF Dated
  <2>3. \A y \in Triggers : Collecting(y)' =>
          trigger'[y].ckpt.commit \in 1..n /\ trigger'[y].ckpt.created \in 1..clock
    BY <2>2, <1>0, <1>7 DEF Dated
  <2>4. \A d \in 1..n : d # c /\ Readable(d)' => notes'[d].created # ckpt.created
    BY <1>0, <1>2, <1>5, <1>10, <1>12 DEF Dated
  <2>5. \A d, e \in 1..n : Readable(d)' /\ Readable(e)' /\ notes'[d].created = notes'[e].created => d = e
    BY <2>4, <1>0, <1>2, <1>10, <1>12 DEF Dated
  <2>6. \A y, z \in Triggers :
          Collecting(y)' /\ Collecting(z)' /\ trigger'[y].ckpt.created = trigger'[z].ckpt.created => y = z
    BY <2>2, <1>0 DEF Dated
  <2>7. \A y \in Triggers : \A d \in 1..n :
          Collecting(y)' /\ Readable(d)' => trigger'[y].ckpt.created # notes'[d].created
    BY <2>2, <1>0, <1>2, <1>10, <1>12 DEF Dated
  <2> QED BY <2>1, <2>3, <2>5, <2>6, <2>7, <1>3, <1>7, <1>10 DEF Dated
<1>16. Completed'
  BY <1>0, <1>3, <1>8, <1>11, <1>13 DEF Completed
<1>17. Recorded'
  <2> SUFFICES ASSUME ~crossed PROVE Recorded'
    BY <1>3 DEF Recorded
  <2>1. \A y \in Triggers : ~Collecting(y)'
    BY <1>0, <1>5, <1>13 DEF Recorded
  <2>2. ckpt.tasks[task] = "completed" /\ \A r \in onRecord : ckpt.tasks[r[2]] = "completed"
    BY <1>0, <1>4 DEF Recorded
  <2>3. ASSUME NEW r \in onRecord'
        PROVE  Readable(r[1])' /\ notes'[r[1]].tasks[r[2]] = "completed"
    <3>1. CASE r[1] = c
      <4>1. ckpt.tasks[r[2]] = "completed"
        BY <2>2, <2>3, <1>3
      <4> QED BY <4>1, <3>1, <1>10, <1>12
    <3>2. CASE r[1] # c
      <4>1. r \in onRecord /\ r[1] \in 1..n
        BY <3>2, <1>0, <1>3, <1>7 DEF CheckpointsTyped
      <4> QED BY <4>1, <3>2, <1>0, <1>10, <1>12 DEF Recorded
    <3> QED BY <3>1, <3>2
  <2> QED BY <2>1, <2>3 DEF Recorded, Collecting
<1> QED BY <1>14, <1>15, <1>16, <1>17 DEF CheckpointInv

(* A completion starts a caller with the next date and the commit at HEAD, *)
(* or nobody when there is no commit yet.                                  *)
LEMMA CompleteKeeps ==
  ASSUME CheckpointInv, NEW x \in Triggers, NEW t \in Tasks, Complete(x, t) PROVE CheckpointInv'
<1>0. CheckpointsTyped /\ Dated /\ Completed /\ Recorded
  BY DEF CheckpointInv
<1>1. /\ board' = [board EXCEPT ![t] = "completed"]
      /\ crossed' = (crossed \/ \E y \in Triggers \ {x} : trigger[y].pc # "idle")
      /\ UNCHANGED <<history, crew, notes, onRecord>>
      /\ trigger[x].pc = "idle" /\ board[t] = "pending"
  BY DEF Complete
<1>2. board' \in Boards /\ board'[t] = "completed" /\ \A u : board[u] = "completed" => board'[u] = "completed"
  BY <1>0, <1>1 DEF CheckpointsTyped, Boards
<1>3. crossed' \in BOOLEAN
  BY <1>0, <1>1 DEF CheckpointsTyped
<1>4. ~crossed' => ~crossed /\ \A y \in Triggers \ {x} : ~Collecting(y)
  BY <1>1 DEF Collecting
<1>5. \A c : Readable(c)' <=> Readable(c)
  BY <1>1 DEF Readable
<1>6. CASE history = <<>>
  <2>1. trigger' = trigger /\ clock' = clock
    BY <1>6 DEF Complete
  <2>2. CheckpointsTyped'
    BY <2>1, <1>0, <1>1, <1>2, <1>3 DEF CheckpointsTyped
  <2>3. Dated'
    BY <2>1, <1>0, <1>1, <1>5 DEF Dated, Collecting
  <2>4. Completed'
    BY <2>1, <1>0, <1>1, <1>2 DEF Completed, Collecting
  <2>5. Recorded'
    BY <2>1, <1>0, <1>1, <1>4, <1>5 DEF Recorded, Collecting
  <2> QED BY <2>2, <2>3, <2>4, <2>5 DEF CheckpointInv
<1>7. CASE history # <<>>
  <2> DEFINE n == Len(history)
             ckpt == [kind |-> "checkpoint", commit |-> n, created |-> clock + 1,
                      files |-> CollectFiles(n)]
             now == [pc |-> "team", task |-> t, ckpt |-> ckpt]
  <2>1. n \in Nat /\ n \in 1..n /\ clock \in Nat /\ Len(notes) = n
    <3>1. n \in Nat \ {0}
      BY <1>0, <1>7, EmptySeq DEF CheckpointsTyped
    <3> QED BY <3>1, <1>0 DEF CheckpointsTyped
  <2>2. trigger' = [trigger EXCEPT ![x] = now] /\ clock' = clock + 1
    BY <1>7 DEF Complete
  <2>3. CollectFiles(n) \in FileSets
    BY <2>1, <1>0, FilesCollected
  <2>4. ckpt \in Begun /\ ckpt.commit = n /\ ckpt.created = clock + 1
    <3> HIDE DEF n
    <3> QED BY <2>1, <2>3 DEF Begun
  <2> HIDE DEF ckpt
  <2>5. now \in Trigger /\ now.pc = "team" /\ now.task = t /\ now.ckpt = ckpt
    BY <2>4 DEF Trigger
  <2> HIDE DEF now
  <2>6. /\ trigger' \in [Triggers -> Trigger] /\ trigger'[x] = now
        /\ \A y \in Triggers : y # x => trigger'[y] = trigger[y]
    BY <2>2, <2>5, <1>0 DEF CheckpointsTyped
  <2>7. Collecting(x)' /\ \A y \in Triggers : y # x => (Collecting(y)' <=> Collecting(y))
    BY <2>5, <2>6 DEF Collecting
  <2>8. CheckpointsTyped'
    BY <2>1, <2>2, <2>6, <1>0, <1>1, <1>2, <1>3 DEF CheckpointsTyped
  <2>9. trigger'[x].ckpt.commit = n /\ trigger'[x].ckpt.created = clock + 1 /\ trigger'[x].task = t
    BY <2>4, <2>5, <2>6
  <2>10. \A m \in 1..clock : m # clock + 1 /\ m \in 1..clock + 1
    BY <2>1
  <2> HIDE DEF n
  <2>11. clock + 1 \in 1..clock + 1
    BY <2>1
  <2>12. Dated'
    <3>1. \A c \in 1..n : Readable(c) => notes[c].commit = c /\ notes[c].created \in 1..clock + 1
                                           /\ notes[c].created # clock + 1
      BY <1>0, <2>1, <2>10 DEF Dated
    <3>2. \A y \in Triggers : y # x /\ Collecting(y) =>
            /\ trigger[y].ckpt.commit \in 1..n /\ trigger[y].ckpt.created \in 1..clock + 1
            /\ trigger[y].ckpt.created # clock + 1
      BY <1>0, <2>1, <2>10 DEF Dated, n
    <3>3. \A y \in Triggers : Collecting(y)' =>
            trigger'[y].ckpt.commit \in 1..n /\ trigger'[y].ckpt.created \in 1..clock + 1
      BY <3>2, <2>1, <2>6, <2>7, <2>9, <2>11
    <3>4. \A y, z \in Triggers :
            Collecting(y)' /\ Collecting(z)' /\ trigger'[y].ckpt.created = trigger'[z].ckpt.created => y = z
      BY <3>2, <2>6, <2>7, <2>9, <1>0 DEF Dated
    <3>5. \A y \in Triggers : \A c \in 1..n :
            Collecting(y)' /\ Readable(c) => trigger'[y].ckpt.created # notes[c].created
      BY <3>1, <2>1, <2>6, <2>7, <2>9, <1>0 DEF Dated
    <3>6. \A c, d \in 1..n : Readable(c) /\ Readable(d) /\ notes[c].created = notes[d].created => c = d
      BY <1>0, <2>1 DEF Dated
    <3> QED BY <3>1, <3>3, <3>4, <3>5, <3>6, <2>1, <2>2, <1>1, <1>5 DEF Dated, n
  <2>13. Completed'
    BY <2>6, <2>7, <2>9, <1>0, <1>1, <1>2 DEF Completed
  <2>14. Recorded'
    <3> SUFFICES ASSUME ~crossed' PROVE Recorded'
      BY DEF Recorded
    <3>1. \A y \in Triggers : Collecting(y)' => y = x
      BY <1>4, <2>7
    <3>2. \A y \in Triggers : trigger'[y].pc = "save" => FALSE
      <4>1. trigger'[x].pc # "save"
        BY <2>5, <2>6
      <4> QED BY <4>1, <3>1 DEF Collecting
    <3> QED BY <3>1, <3>2, <1>0, <1>1, <1>4, <1>5 DEF Recorded
  <2> QED BY <2>8, <2>12, <2>13, <2>14 DEF CheckpointInv
<1> QED BY <1>6, <1>7

LEMMA CheckpointInvStep ==
  ASSUME CheckpointConstants PROVE CheckpointInv /\ [CheckpointNext]_checkpointVars => CheckpointInv'
<1> SUFFICES ASSUME CheckpointInv, [CheckpointNext]_checkpointVars PROVE CheckpointInv'
  OBVIOUS
<1>1. ASSUME NEW tree \in Trees, Commit(tree) PROVE CheckpointInv'
  BY <1>1, CommitKeeps
<1>2. ASSUME NEW t \in Tasks, AddTask(t) PROVE CheckpointInv'
  BY <1>2, AddTaskKeeps
<1>3. ASSUME NEW n \in Names, Join(n) PROVE CheckpointInv'
  BY <1>3, JoinKeeps
<1>4. ASSUME NEW c \in DOMAIN notes, DeleteNote(c) \/ BreakNote(c) PROVE CheckpointInv'
  BY <1>4, DeleteNoteKeeps, BreakNoteKeeps
<1>5. ASSUME NEW x \in Triggers, NEW t \in Tasks, Complete(x, t) PROVE CheckpointInv'
  BY <1>5, CompleteKeeps
<1>6. ASSUME NEW x \in Triggers, CollectTeamState(x) \/ CollectTasks(x) \/ SaveNote(x) PROVE CheckpointInv'
  BY <1>6, CollectTeamStateKeeps, CollectTasksKeeps, SaveNoteKeeps
<1>7. CASE UNCHANGED checkpointVars
  BY <1>7 DEF checkpointVars, CheckpointInv, CheckpointsTyped, Dated, Completed, Recorded, Collecting, Readable
<1> QED BY <1>1, <1>2, <1>3, <1>4, <1>5, <1>6, <1>7 DEF CheckpointNext

(* A note that can be read is a whole checkpoint.                          *)
LEMMA ReadableIs ==
  ASSUME CheckpointInv, NEW c \in 1..Len(notes), Readable(c) PROVE notes[c] \in Whole
<1>1. notes[c] \in AnyNote
  BY ElementOfSeq DEF CheckpointInv, CheckpointsTyped
<1> QED BY <1>1 DEF AnyNote, Readable, NoNote, Broken

LEMMA FilesAre == ASSUME NEW f \in FileSets PROVE f \in [DOMAIN f -> 0..2]
BY DEF FileSets

LEMMA DiffSays == ASSUME CheckpointInv PROVE DiffReplays
<1> SUFFICES ASSUME NEW c \in DOMAIN notes, NEW d \in DOMAIN notes, Readable(c), Readable(d)
             PROVE  LET from == notes[c]
                        to   == notes[d]
                        diff == ComputeDiff(from, to)
                    IN  /\ [t \in Tasks |-> IF t \in DOMAIN diff.tasks THEN diff.tasks[t] ELSE from.tasks[t]]
                              = to.tasks
                        /\ (from.members \ diff.left) \cup diff.joined = to.members
                        /\ (DOMAIN from.files \ diff.removed) \cup diff.added = DOMAIN to.files
                        /\ \A p \in DOMAIN to.files \ (diff.added \cup diff.modified) : from.files[p] = to.files[p]
                        /\ NoDifferences(diff) <=>
                              <<from.files, from.tasks, from.members>> = <<to.files, to.tasks, to.members>>
  BY DEF DiffReplays
<1> DEFINE from == notes[c]
           to == notes[d]
           diff == ComputeDiff(from, to)
           other == {u \in Tasks : from.tasks[u] # to.tasks[u]}
<1>1. from \in Whole /\ to \in Whole
  <2>1. c \in 1..Len(notes) /\ d \in 1..Len(notes)
    BY LenProperties DEF CheckpointInv, CheckpointsTyped
  <2> QED BY <2>1, ReadableIs
<1> HIDE DEF from, to
<1>2. /\ diff.added = DOMAIN to.files \ DOMAIN from.files
      /\ diff.removed = DOMAIN from.files \ DOMAIN to.files
      /\ diff.modified = {p \in DOMAIN from.files \cap DOMAIN to.files : from.files[p] # to.files[p]}
      /\ diff.tasks = TasksChanged(from, to)
      /\ diff.joined = to.members \ from.members
      /\ diff.left = from.members \ to.members
  BY DEF ComputeDiff
<1> HIDE DEF diff
<1>3. diff.tasks = [t \in other |-> to.tasks[t]]
  BY <1>2 DEF TasksChanged
<1>4. /\ from.tasks \in Boards /\ to.tasks \in Boards
      /\ from.files \in FileSets /\ to.files \in FileSets
  BY <1>1 DEF Whole
<1>5. other \subseteq Tasks /\ \A t \in Tasks : t \notin other => from.tasks[t] = to.tasks[t]
  OBVIOUS
<1>6. \A t \in other : from.tasks[t] # to.tasks[t]
  OBVIOUS
<1> HIDE DEF other
<1>7. [t \in Tasks |-> IF t \in DOMAIN diff.tasks THEN diff.tasks[t] ELSE from.tasks[t]] = to.tasks
  <2>1. DOMAIN diff.tasks = other /\ \A t \in other : diff.tasks[t] = to.tasks[t]
    BY <1>3
  <2>2. \A t \in Tasks : (IF t \in DOMAIN diff.tasks THEN diff.tasks[t] ELSE from.tasks[t]) = to.tasks[t]
    BY <2>1, <1>5
  <2> DEFINE replayed == [t \in Tasks |-> IF t \in DOMAIN diff.tasks THEN diff.tasks[t] ELSE from.tasks[t]]
  <2>3. DOMAIN replayed = Tasks /\ \A t \in Tasks : replayed[t] = to.tasks[t]
    BY <2>2
  <2> HIDE DEF replayed
  <2>4. replayed = [t \in Tasks |-> to.tasks[t]]
    <3>1. replayed = [t \in Tasks |-> replayed[t]]
      BY DEF replayed
    <3> QED BY <3>1, <2>3
  <2>5. to.tasks = [t \in Tasks |-> to.tasks[t]]
    BY <1>4 DEF Boards
  <2> QED BY <2>4, <2>5 DEF replayed
<1>8. (from.members \ diff.left) \cup diff.joined = to.members
  BY <1>2
<1>9. (DOMAIN from.files \ diff.removed) \cup diff.added = DOMAIN to.files
  BY <1>2
<1>10. \A p \in DOMAIN to.files \ (diff.added \cup diff.modified) : from.files[p] = to.files[p]
  BY <1>2
<1>11. NoDifferences(diff) => from.files = to.files /\ from.tasks = to.tasks /\ from.members = to.members
  <2> SUFFICES ASSUME NoDifferences(diff)
               PROVE  from.files = to.files /\ from.tasks = to.tasks /\ from.members = to.members
    OBVIOUS
  <2>1. /\ diff.added \cup diff.removed \cup diff.modified \cup diff.joined \cup diff.left = {}
        /\ diff.tasks = <<>>
    BY DEF NoDifferences
  <2>2. DOMAIN from.files = DOMAIN to.files
    BY <2>1, <1>2
  <2>3. \A p \in DOMAIN to.files : from.files[p] = to.files[p]
    BY <2>1, <2>2, <1>2
  <2>4. from.files = to.files
    BY <2>2, <2>3, <1>4, FilesAre
  <2>5. other = {}
    BY <2>1, <1>3
  <2>6. from.tasks = to.tasks
    BY <2>5, <1>4, <1>5 DEF Boards
  <2>7. from.members = to.members
    BY <2>1, <1>2
  <2> QED BY <2>4, <2>6, <2>7
<1>12. from.files = to.files /\ from.tasks = to.tasks /\ from.members = to.members => NoDifferences(diff)
  <2> SUFFICES ASSUME from.files = to.files, from.tasks = to.tasks, from.members = to.members
               PROVE  NoDifferences(diff)
    OBVIOUS
  <2>1. other = {}
    BY <1>6
  <2>2. diff.tasks = <<>>
    BY <2>1, <1>3
  <2>3. diff.added \cup diff.removed \cup diff.modified \cup diff.joined \cup diff.left = {}
    BY <1>2
  <2> QED BY <2>2, <2>3 DEF NoDifferences
<1>13. NoDifferences(diff) <=>
         <<from.files, from.tasks, from.members>> = <<to.files, to.tasks, to.members>>
  BY <1>11, <1>12
<1> QED BY <1>7, <1>8, <1>9, <1>10, <1>13 DEF from, to, diff

(* The newest first: such an order exists for any notes whose dates differ,*)
(* and it shows every note, once.                                          *)
Descends(s) == \A j, k \in DOMAIN s : j < k => s[j].created > s[k].created

LEMMA NewestFirst ==
  ASSUME NEW S, IsFiniteSet(S), \A x \in S : x.created \in Nat,
         \A x, y \in S : x.created = y.created => x = y
  PROVE  \E s \in [1..Cardinality(S) -> S] : Descends(s)
<1> DEFINE Ordered(n) == \A T \in SUBSET S : Cardinality(T) = n => \E s \in [1..n -> T] : Descends(s)
           N == {n \in Nat : Ordered(n)}
<1>1. 0 \in N
  <2> SUFFICES ASSUME NEW T \in SUBSET S, Cardinality(T) = 0 PROVE \E s \in [1..0 -> T] : Descends(s)
    OBVIOUS
  <2> DEFINE s == [i \in 1..0 |-> CHOOSE x \in T : TRUE]
  <2>1. \A i \in 1..0 : FALSE
    OBVIOUS
  <2>2. s \in [1..0 -> T]
    BY <2>1
  <2>3. Descends(s)
    BY <2>1 DEF Descends
  <2> HIDE DEF s
  <2> QED BY <2>2, <2>3
<1>2. ASSUME NEW n \in Nat, n \in N PROVE n + 1 \in N
  <2> SUFFICES ASSUME NEW T \in SUBSET S, Cardinality(T) = n + 1
               PROVE  \E s \in [1..n + 1 -> T] : Descends(s)
    OBVIOUS
  <2>1. IsFiniteSet(T)
    BY FS_Subset
  <2>2. T # {}
    BY <2>1, FS_EmptySet
  <2> DEFINE dates == {x.created : x \in T}
  <2>3. dates \subseteq Nat /\ dates # {}
    BY <2>2
  <2>4. PICK m \in dates : \A y \in dates : m <= y
    <3> HIDE DEF dates
    <3> QED BY <2>3, SmallestOf
  <2>5. PICK x \in T : m = x.created
    BY <2>4
  <2> DEFINE U == T \ {x}
  <2>6. IsFiniteSet(U) /\ Cardinality(U) = n /\ U \in SUBSET S
    <3>1. Cardinality(U) = Cardinality(T) - 1
      BY <2>1, FS_RemoveElement
    <3> QED BY <3>1, <2>1, FS_RemoveElement
  <2>7. \A y \in U : y.created \in Nat /\ x.created \in Nat /\ y.created > x.created
    <3> SUFFICES ASSUME NEW y \in U PROVE y.created \in Nat /\ x.created \in Nat /\ y.created > x.created
      OBVIOUS
    <3>1. y \in S /\ x \in S /\ y # x
      OBVIOUS
    <3>2. y.created \in Nat /\ x.created \in Nat /\ y.created # x.created
      BY <3>1
    <3>3. x.created <= y.created
      BY <2>4, <2>5
    <3> HIDE DEF U
    <3> QED BY <3>2, <3>3
  <2>8. PICK s \in [1..n -> U] : Descends(s)
    BY <1>2, <2>6
  <2> DEFINE t == [k \in 1..n + 1 |-> IF k <= n THEN s[k] ELSE x]
  <2>9. \A k \in 1..n : k \in 1..n + 1 /\ k <= n
    OBVIOUS
  <2>10. \A k \in 1..n + 1 : k \in 1..n \/ k = n + 1
    OBVIOUS
  <2>11. ~(n + 1 <= n) /\ n + 1 \in 1..n + 1
    OBVIOUS
  <2>12. DOMAIN t = 1..n + 1 /\ t[n + 1] = x /\ \A k \in 1..n : t[k] = s[k]
    BY <2>9, <2>10, <2>11
  <2>13. U \subseteq T
    OBVIOUS
  <2> HIDE DEF U
  <2>14. t \in [1..n + 1 -> T]
    BY <2>9, <2>10, <2>13
  <2> HIDE DEF t
  <2>15. ASSUME NEW j \in 1..n + 1, NEW k \in 1..n + 1, j < k PROVE t[j].created > t[k].created
    <3>1. j \in 1..n
      BY <2>15
    <3>2. CASE k \in 1..n
      BY <3>1, <3>2, <2>8, <2>12, <2>15 DEF Descends
    <3>3. CASE k = n + 1
      BY <3>1, <3>3, <2>7, <2>12
    <3> QED BY <3>2, <3>3, <2>10
  <2>16. Descends(t)
    BY <2>12, <2>15 DEF Descends
  <2> QED BY <2>14, <2>16
<1> HIDE DEF Ordered
<1>3. \A n \in Nat : n \in N
  <2> HIDE DEF N
  <2> QED BY <1>1, <1>2, NatsFrom
<1>4. Cardinality(S) \in Nat
  BY FS_CardinalityType
<1>5. Ordered(Cardinality(S))
  BY <1>3, <1>4
<1> QED BY <1>5 DEF Ordered

LEMMA ShowsAll ==
  ASSUME NEW S, IsFiniteSet(S), \A x \in S : x.created \in Nat,
         NEW s \in [1..Cardinality(S) -> S], Descends(s)
  PROVE  S = {s[k] : k \in 1..Cardinality(S)}
<1> DEFINE n == Cardinality(S)
<1>1. n \in Nat
  BY FS_CardinalityType
<1>2. ASSUME NEW j \in 1..n, NEW k \in 1..n, s[j] = s[k] PROVE j = k
  <2>1. s[j].created \in Nat /\ DOMAIN s = 1..n
    OBVIOUS
  <2> HIDE DEF n
  <2>2. ~(j < k) /\ ~(k < j)
    BY <1>2, <2>1 DEF Descends
  <2> QED BY <2>2, <1>1
<1>3. s \in Injection(1..n, S)
  BY <1>2 DEF Injection, IsInjective
<1>4. IsFiniteSet(1..n) /\ Cardinality(1..n) = n
  <2> HIDE DEF n
  <2> QED BY <1>1, FS_Interval
<1>5. s \in Surjection(1..n, S)
  BY <1>3, <1>4, FS_Injection
<1> QED BY <1>5 DEF Surjection

(* The timeline's notes and their order.                                   *)
LEMMA TimelineIs ==
  ASSUME CheckpointConstants, CheckpointInv
  PROVE  \E s, m :
           /\ m \in 0..MaxCommits /\ DOMAIN s = 1..m
           /\ {notes[c] : c \in {d \in DOMAIN notes : Readable(d)}} = {s[k] : k \in 1..m}
           /\ \A k \in 1..m : s[k].created \in Nat
           /\ Descends(s)
           /\ \A limit \in 0..MaxCommits :
                /\ DOMAIN List(limit) = 1..(IF limit < m THEN limit ELSE m)
                /\ Len(List(limit)) = IF limit < m THEN limit ELSE m
                /\ \A k \in DOMAIN List(limit) : List(limit)[k] = s[k]
<1> DEFINE D == {d \in DOMAIN notes : Readable(d)}
           all == {notes[c] : c \in D}
           m == Cardinality(all)
           newest == CHOOSE s \in [1..m -> all] : \A j, k \in DOMAIN s : j < k => s[j].created > s[k].created
<1>0. CheckpointsTyped /\ Dated
  BY DEF CheckpointInv
<1>1. DOMAIN notes = 1..Len(notes) /\ Len(notes) \in Nat /\ Len(notes) <= MaxCommits /\ MaxCommits \in Nat
  BY <1>0, LenProperties DEF CheckpointsTyped, CheckpointConstants
<1>2. IsFiniteSet(D) /\ Cardinality(D) <= Len(notes) /\ Cardinality(D) \in Nat
  <2>1. IsFiniteSet(1..Len(notes)) /\ Cardinality(1..Len(notes)) = Len(notes)
    <3>1. PICK n \in Nat : n = Len(notes)
      BY <1>1
    <3>2. IsFiniteSet(1..n) /\ Cardinality(1..n) = n
      BY FS_Interval
    <3> QED BY <3>1, <3>2
  <2>2. D \in SUBSET (1..Len(notes))
    BY <1>1
  <2> HIDE DEF D
  <2> QED BY <2>1, <2>2, FS_Subset, FS_CardinalityType
<1>3. IsFiniteSet(all) /\ m <= Cardinality(D) /\ m \in Nat
  <2> DEFINE f == [c \in D |-> notes[c]]
  <2>1. f \in Surjection(D, all)
    BY DEF Surjection
  <2> HIDE DEF f, D, all
  <2>2. IsFiniteSet(all) /\ Cardinality(all) <= Cardinality(D)
    BY <1>2, <2>1, FS_Surjection
  <2> QED BY <2>2, FS_CardinalityType
<1>4. /\ \A x \in all : x.created \in Nat
      /\ \A x, y \in all : x.created = y.created => x = y
  <2>1. \A c \in D : c \in 1..Len(notes) /\ Readable(c) /\ notes[c].created \in 1..clock
    BY <1>0, <1>1 DEF Dated
  <2>2. \A c \in D : notes[c].created \in Nat
    BY <2>1, <1>0 DEF CheckpointsTyped
  <2>3. \A c, d \in D : notes[c].created = notes[d].created => c = d
    BY <2>1, <1>0 DEF Dated
  <2> QED BY <2>2, <2>3
<1> HIDE DEF all
<1>5. \E s \in [1..m -> all] : Descends(s)
  BY <1>3, <1>4, NewestFirst
<1>6. newest \in [1..m -> all] /\ Descends(newest)
  BY <1>5 DEF Descends
<1>7. \A limit : List(limit) = SubSeq(newest, 1, IF limit < Len(newest) THEN limit ELSE Len(newest))
  BY DEF List, all
<1> HIDE DEF newest
<1>8. all = {newest[k] : k \in 1..m}
  BY <1>3, <1>4, <1>6, ShowsAll
<1> HIDE DEF m
<1>9. Len(newest) = m
  <2>1. newest \in Seq(all)
    BY <1>3, <1>6
  <2> QED BY <2>1, <1>3, <1>6, LenProperties
<1>10. m \in 0..MaxCommits
  BY <1>1, <1>2, <1>3
<1>11. \A k \in 1..m : newest[k].created \in Nat
  BY <1>4, <1>6
<1>12. ASSUME NEW limit \in 0..MaxCommits
       PROVE  /\ DOMAIN List(limit) = 1..(IF limit < m THEN limit ELSE m)
              /\ Len(List(limit)) = IF limit < m THEN limit ELSE m
              /\ \A k \in DOMAIN List(limit) : List(limit)[k] = newest[k]
  <2> DEFINE q == IF limit < m THEN limit ELSE m
  <2>1. List(limit) = SubSeq(newest, 1, q)
    BY <1>7, <1>9
  <2>2. q \in Nat /\ q <= m
    BY <1>1, <1>3
  <2> HIDE DEF q
  <2>3. \A i \in 1..q : newest[i] \in all
    BY <2>2, <1>3, <1>6
  <2>4. /\ SubSeq(newest, 1, q) \in Seq(all) /\ Len(SubSeq(newest, 1, q)) = q
        /\ \A i \in 1..q : SubSeq(newest, 1, q)[i] = newest[i]
    <3>1. /\ SubSeq(newest, 1, q) \in Seq(all)
          /\ Len(SubSeq(newest, 1, q)) = IF 1 <= q THEN q - 1 + 1 ELSE 0
          /\ \A i \in 1..q - 1 + 1 : SubSeq(newest, 1, q)[i] = newest[1 + i - 1]
      BY <2>2, <2>3, SubSeqProperties
    <3>2. (IF 1 <= q THEN q - 1 + 1 ELSE 0) = q /\ q - 1 + 1 = q
      BY <2>2
    <3>3. \A i \in 1..q : 1 + i - 1 = i
      OBVIOUS
    <3> QED BY <3>1, <3>2, <3>3
  <2>5. DOMAIN SubSeq(newest, 1, q) = 1..q
    BY <2>4, LenProperties
  <2> QED BY <2>1, <2>4, <2>5 DEF q
<1> QED BY <1>6, <1>8, <1>10, <1>11, <1>12 DEF all

LEMMA QueriesSay == ASSUME CheckpointConstants, CheckpointInv PROVE QueriesAgree
<1> DEFINE noted == {d \in DOMAIN notes : Readable(d)}
           all == List(MaxCommits)
<1>1. PICK s, m :
        /\ m \in 0..MaxCommits /\ DOMAIN s = 1..m
        /\ {notes[c] : c \in noted} = {s[k] : k \in 1..m}
        /\ \A k \in 1..m : s[k].created \in Nat
        /\ Descends(s)
        /\ \A limit \in 0..MaxCommits :
             /\ DOMAIN List(limit) = 1..(IF limit < m THEN limit ELSE m)
             /\ Len(List(limit)) = IF limit < m THEN limit ELSE m
             /\ \A k \in DOMAIN List(limit) : List(limit)[k] = s[k]
  BY TimelineIs
<1>2. MaxCommits \in Nat /\ MaxCommits \in 0..MaxCommits
  BY DEF CheckpointConstants
<1>3. DOMAIN all = 1..m /\ Len(all) = m /\ \A k \in 1..m : all[k] = s[k]
  <2>1. ~(MaxCommits < m)
    BY <1>1, <1>2
  <2> QED BY <2>1, <1>1, <1>2
<1> HIDE DEF all
<1>4. ByBranch(Len(history)).ok => ByBranch(Len(history)).found = {all[k] : k \in DOMAIN all}
  <2> DEFINE walk == Walk(Len(history))
  <2> SUFFICES ASSUME ByBranch(Len(history)).ok
               PROVE  ByBranch(Len(history)).found = {all[k] : k \in DOMAIN all}
    OBVIOUS
  <2>1. /\ \A d \in walk : Readable(d)
        /\ ByBranch(Len(history)).found = {notes[d] : d \in walk}
    BY DEF ByBranch
  <2>2. DOMAIN notes = 1..Len(history)
    BY LenProperties DEF CheckpointInv, CheckpointsTyped
  <2>3. \A d \in noted : d \in walk
    BY <2>2 DEF Walk, Readable
  <2>4. \A d \in walk : d \in noted
    BY <2>1, <2>2 DEF Walk
  <2>5. walk = noted
    <3> HIDE DEF walk, noted
    <3> QED BY <2>3, <2>4
  <2> HIDE DEF walk, noted
  <2>6. ByBranch(Len(history)).found = {s[k] : k \in 1..m}
    BY <1>1, <2>1, <2>5
  <2>7. {s[k] : k \in 1..m} = {all[k] : k \in DOMAIN all}
    BY <1>3
  <2> QED BY <2>6, <2>7
<1>5. ASSUME NEW n \in 0..Len(all), NEW k \in 1..Len(List(n)), NEW j \in n + 1..Len(all)
      PROVE  List(n)[k].created > all[j].created
  <2>1. m \in Nat /\ n \in 0..m /\ n \in 0..MaxCommits /\ j \in n + 1..m
    BY <1>1, <1>2, <1>3
  <2>2. n < m /\ j \in 1..m
    BY <2>1
  <2>3. Len(List(n)) = n /\ DOMAIN List(n) = 1..n
    BY <1>1, <2>1, <2>2
  <2>4. k \in 1..n /\ k < j /\ k \in 1..m
    BY <2>1, <2>2, <2>3
  <2>5. List(n)[k] = s[k] /\ all[j] = s[j]
    BY <1>1, <1>3, <2>1, <2>2, <2>3, <2>4
  <2> QED BY <1>1, <2>2, <2>4, <2>5 DEF Descends
<1> QED BY <1>4, <1>5 DEF QueriesAgree, all

LEMMA CheckpointInvSays ==
  ASSUME CheckpointConstants, CheckpointInv
  PROVE  CheckpointTypeOK /\ CompletionsOnRecord /\ DiffReplays /\ QueriesAgree
<1>0. CheckpointsTyped /\ Dated /\ Recorded
  BY DEF CheckpointInv
<1>1. DOMAIN history = 1..Len(history) /\ DOMAIN notes = 1..Len(notes) /\ Len(notes) = Len(history)
  BY <1>0, LenProperties DEF CheckpointsTyped
<1>2. CheckpointTypeOK
  <2>1. \A c \in 1..Len(history) : history[c] \in Trees
    BY <1>0, ElementOfSeq DEF CheckpointsTyped
  <2>2. \A x \in Triggers : trigger[x].pc \in {"idle", "team", "tasks", "save"}
    BY <1>0 DEF CheckpointsTyped, Trigger
  <2> QED BY <2>1, <2>2, <1>0, <1>1 DEF CheckpointTypeOK, CheckpointsTyped, Dated, Boards
<1>3. CompletionsOnRecord
  BY <1>0 DEF Recorded, CompletionsOnRecord
<1> QED BY <1>2, <1>3, DiffSays, QueriesSay

\* Whatever is written to the task files and the notes, and wherever a cascade
\* is cut short, a waiting task waits for an open one, a ready one is offered,
\* and the checkpoints keep and show what was completed (update_task,
\* cascade_completion, AutoTrigger, CheckpointQuery).
THEOREM RecordsStayTrue == TaskSpec /\ CheckpointSpec => []WorkIsOnRecord
<1>1. TaskSpec => []TaskInv
  <2>1. TaskInit => TaskInv
    BY TaskConstants, TaskInvInit
  <2>2. TaskInv /\ [TaskNext]_taskVars => TaskInv'
    BY TaskConstants, TaskInvStep
  <2> QED BY <2>1, <2>2, PTL DEF TaskSpec
<1>2. CheckpointSpec => []CheckpointInv
  <2>1. CheckpointInit => CheckpointInv
    BY CheckpointConstants, CheckpointInvInit
  <2>2. CheckpointInv /\ [CheckpointNext]_checkpointVars => CheckpointInv'
    BY CheckpointConstants, CheckpointInvStep
  <2> QED BY <2>1, <2>2, PTL DEF CheckpointSpec
<1>3. TaskInv /\ CheckpointInv => WorkIsOnRecord
  BY TaskConstants, CheckpointConstants, TaskInvSays, CheckpointInvSays DEF WorkIsOnRecord
<1> QED BY <1>1, <1>2, <1>3, PTL
=============================================================================
