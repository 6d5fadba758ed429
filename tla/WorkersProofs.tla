---------------------------- MODULE WorkersProofs ----------------------------
(***************************************************************************)
(* Proofs about Workers for every set of worker names and any number of    *)
(* calls, children and faults.                                             *)
(***************************************************************************)
EXTENDS Workers, TLAPS

USE WorkersAssumption DEF Threads, NoWorker

-----------------------------------------------------------------------------
(* Where the threads can be.                                               *)

Adding   == {"probe", "relive", "relabel", "upsert", "starting", "spawn", "failed", "take",
             "ready", "persist", "undo", "running", "loop"}
Deleting == {"next", "shutdown", "release", "stopped", "record"}

Child == [of : Workers \cup {NoWorker}, alive : BOOLEAN, said : {"none", "ready", "error"}]

RecordFiles == [Workers -> MemberRecord]

Thread == [pc : Adding \cup Deleting \cup {"idle", "remove", "backfill"},
           w : Workers \cup {NoWorker}, g : Gens \cup {0}, mode : Modes,
           saved : {"none", "running", "stopped"}, todo : SUBSET Workers,
           file : RecordFiles \cup {NoFile}]

(* The lead watchdog only archives, a loop only writes its session id      *)
(* back, and a thread in the middle of an operation has a worker in hand.  *)
ThreadsFit ==
  /\ th \in [Threads -> Thread]
  /\ th["lead"].pc \in Deleting \cup {"idle"}
  /\ th["lead"].pc # "idle" => th["lead"].mode = "archive"
  /\ th["loop"].pc \in {"idle", "backfill"}
  /\ \A a \in Threads :
       /\ th[a].pc \notin {"idle", "next"} => th[a].w \in Workers
       /\ th[a].pc \in Deleting => th[a].mode \in {"remove", "archive", "purge"}
       /\ th[a].pc \in {"next", "record"} => th[a].mode # "remove"
       /\ th[a].pc \in {"take", "ready", "loop"} => th[a].g # 0

TickFits ==
  /\ tick \in [pc : {"idle", "probe", "flip"}, todo : SUBSET Workers, w : Workers \cup {NoWorker}]
  /\ tick.pc = "flip" => tick.w \in Workers

Typed == TypeOK /\ ThreadsFit /\ TickFits

LEMMA IdleIsThread == Idle \in Thread /\ Idle.pc = "idle" /\ Idle.mode = "none"
BY DEF Idle, Thread, Modes, NoFile

LEMMA TypedInit == Init => Typed
<1> SUFFICES ASSUME Init PROVE Typed
  OBVIOUS
<1>1. TypeOK
  <2>1. members \in [Workers -> MemberRecord] /\ sidecar \in [Workers -> SidecarState]
    BY DEF Init, MemberRecord, SidecarState
  <2>2. session \in [Workers -> Gens \cup {0}] /\ handle \in [Workers -> Gens \cup {0}]
    BY DEF Init
  <2>5. child \in [Gens -> Child]
    <3>1. [of |-> NoWorker, said |-> "none", alive |-> FALSE] \in Child
      BY DEF Child
    <3> QED
      BY <3>1 DEF Init
  <2>3. \A a \in Threads : th[a].todo \subseteq Workers /\ th[a].mode \in Modes
    BY DEF Init, Idle, Modes
  <2>4. /\ team \in {"none", "active", "archived"}
        /\ loops \subseteq Gens /\ told \subseteq Gens /\ broken \subseteq Gens
        /\ tick.todo \subseteq Workers /\ tick.pc \in {"idle", "probe", "flip"}
        /\ calls \in 0..MaxCalls /\ faults \in 0..MaxFaults
    BY DEF Init
  <2>6. owner \in BOOLEAN /\ lost \in BOOLEAN
    BY DEF Init
  <2> QED
    BY <2>1, <2>2, <2>3, <2>4, <2>5, <2>6 DEF TypeOK, Child
<1>2. ThreadsFit
  BY IdleIsThread DEF Init, ThreadsFit, Deleting
<1>3. TickFits
  BY DEF Init, TickFits
<1> QED
  BY <1>1, <1>2, <1>3 DEF Typed

(* The five groups of variables.                                           *)
FilesTyped ==
  /\ team \in {"none", "active", "archived"} /\ owner \in BOOLEAN /\ lost \in BOOLEAN
  /\ members \in RecordFiles /\ sidecar \in [Workers -> SidecarState]
RuntimeTyped ==
  /\ session \in [Workers -> Gens \cup {0}] /\ handle \in [Workers -> Gens \cup {0}]
  /\ loops \subseteq Gens /\ told \subseteq Gens /\ broken \subseteq Gens
  /\ child \in [Gens -> Child]
CountsTyped == calls \in 0..MaxCalls /\ faults \in 0..MaxFaults

LEMMA TypedParts == Typed <=> FilesTyped /\ RuntimeTyped /\ CountsTyped /\ ThreadsFit /\ TickFits
<1>1. Typed => FilesTyped
  BY DEF Typed, TypeOK, FilesTyped, RecordFiles
<1>2. Typed => RuntimeTyped /\ CountsTyped /\ ThreadsFit /\ TickFits
  BY DEF Typed, TypeOK, RuntimeTyped, CountsTyped, Child
<1>3. ThreadsFit => \A a \in Threads : th[a].todo \subseteq Workers /\ th[a].mode \in Modes
  BY DEF ThreadsFit, Thread
<1>4. TickFits => tick.todo \subseteq Workers /\ tick.pc \in {"idle", "probe", "flip"}
  BY DEF TickFits
<1>5. FilesTyped /\ RuntimeTyped /\ CountsTyped /\ ThreadsFit /\ TickFits => TypeOK
  BY <1>3, <1>4 DEF TypeOK, FilesTyped, RuntimeTyped, CountsTyped, Child, RecordFiles
<1> QED
  BY <1>1, <1>2, <1>5 DEF Typed

LEMMA TypedNext == FilesTyped' /\ RuntimeTyped' /\ CountsTyped' /\ ThreadsFit' /\ TickFits' => Typed'
<1>1. FilesTyped /\ RuntimeTyped /\ CountsTyped /\ ThreadsFit /\ TickFits => Typed
  BY TypedParts
<1> QED
  BY <1>1, PTL

LEMMA Still ==
  ASSUME Typed
  PROVE  /\ UNCHANGED <<team, owner, members, sidecar, lost>> => FilesTyped'
         /\ UNCHANGED <<session, handle, loops, told, child, broken>> => RuntimeTyped'
         /\ UNCHANGED <<calls, faults>> => CountsTyped'
         /\ UNCHANGED th => ThreadsFit'
         /\ UNCHANGED tick => TickFits'
<1> USE TypedParts
<1>1. UNCHANGED <<team, owner, members, sidecar, lost>> => FilesTyped'
  BY DEF FilesTyped
<1>2. UNCHANGED <<session, handle, loops, told, child, broken>> => RuntimeTyped'
  BY DEF RuntimeTyped
<1>3. UNCHANGED <<calls, faults>> => CountsTyped'
  BY DEF CountsTyped
<1>4. UNCHANGED th => ThreadsFit'
  BY DEF ThreadsFit
<1>5. UNCHANGED tick => TickFits'
  BY DEF TickFits
<1> QED
  BY <1>1, <1>2, <1>3, <1>4, <1>5

(* One thread moves on.                                                    *)
LEMMA ThreadMoves ==
  ASSUME ThreadsFit, NEW a \in Threads, NEW t \in Thread, th' = [th EXCEPT ![a] = t],
         a = "lead" => t.pc \in Deleting \cup {"idle"} /\ (t.pc # "idle" => t.mode = "archive"),
         a = "loop" => t.pc \in {"idle", "backfill"},
         t.pc \notin {"idle", "next"} => t.w \in Workers,
         t.pc \in Deleting => t.mode \in {"remove", "archive", "purge"},
         t.pc \in {"next", "record"} => t.mode # "remove",
         t.pc \in {"take", "ready", "loop"} => t.g # 0
  PROVE  ThreadsFit'
<1>1. th' \in [Threads -> Thread] /\ th'[a] = t /\ \A b \in Threads : b # a => th'[b] = th[b]
  BY DEF ThreadsFit
<1> QED
  BY <1>1 DEF ThreadsFit

-----------------------------------------------------------------------------
(* Every step keeps the types.                                             *)

LoopsHaveWorkers == \A g \in loops : child[g].of \in Workers

(* Calls, sweeps and write-backs start with a fresh thread.                *)
LEMMA StartTyped ==
  ASSUME Typed, LoopsHaveWorkers,
         \/ \E w \in Workers, m \in {"reuse", "overwrite"} : WorkerAdd(w, m)
         \/ \E w \in Workers : WorkerRemove(w)
         \/ \E m \in {"archive", "purge"} : TeamDelete(m)
         \/ LeadSweep \/ \E g \in Gens : Backfill(g)
  PROVE  Typed'
<1> USE TypedParts
<1>1. \A w \in Workers : members[w].state \in {"none", "running", "stopped"}
  BY DEF FilesTyped, RecordFiles, MemberRecord, NoRecord
<1>2. calls < MaxCalls => calls + 1 \in 0..MaxCalls
  BY DEF CountsTyped
<1>3. ASSUME NEW w \in Workers, NEW m \in {"reuse", "overwrite"}, WorkerAdd(w, m)
      PROVE  Typed'
  <2> DEFINE mode == IF members[w] = NoRecord THEN "create" ELSE m
             t == [Idle EXCEPT !.pc = "probe", !.w = w, !.mode = mode,
                               !.saved = IF mode = "reuse" THEN members[w].state ELSE "none"]
  <2>1. t \in Thread /\ t.pc = "probe" /\ t.w = w /\ t.pc \notin Deleting
    BY <1>1, IdleIsThread DEF Thread, Adding, Deleting, Modes
  <2>2. th' = [th EXCEPT !["tool"] = t] /\ CountsTyped'
    BY <1>2, <1>3 DEF WorkerAdd, CountsTyped
  <2>3. ThreadsFit'
    BY <2>1, <2>2, ThreadMoves
  <2> QED
    BY <1>3, <2>2, <2>3, Still, TypedNext DEF WorkerAdd, Files, Runtime
<1>4. ASSUME NEW w \in Workers, WorkerRemove(w) PROVE Typed'
  <2> DEFINE t == [Idle EXCEPT !.pc = "shutdown", !.w = w, !.mode = "remove"]
  <2>1. t \in Thread /\ t.pc = "shutdown" /\ t.w = w /\ t.mode = "remove"
    BY IdleIsThread DEF Thread, Deleting, Modes
  <2>2. th' = [th EXCEPT !["tool"] = t] /\ CountsTyped'
    BY <1>2, <1>4 DEF WorkerRemove, CountsTyped
  <2>3. ThreadsFit'
    BY <2>1, <2>2, ThreadMoves
  <2> QED
    BY <1>4, <2>2, <2>3, Still, TypedNext DEF WorkerRemove, Files, Runtime
<1>5. ASSUME NEW a \in {"tool", "lead"}, NEW m \in {"archive", "purge"}, StartDelete(a, m),
             a = "lead" => m = "archive"
      PROVE  ThreadsFit'
  <2> DEFINE t == [Idle EXCEPT !.pc = "next", !.mode = m,
                     !.todo = {w \in Workers : team # "none" /\ members[w].status = "active"}]
  <2>1. t \in Thread /\ t.pc = "next" /\ t.mode = m
    BY IdleIsThread DEF Thread, Deleting, Modes
  <2>2. th' = [th EXCEPT ![a] = t]
    BY <1>5 DEF StartDelete
  <2> QED
    BY <1>5, <2>1, <2>2, ThreadMoves DEF Deleting
<1>6. ASSUME NEW m \in {"archive", "purge"}, TeamDelete(m) PROVE Typed'
  <2>1. CountsTyped'
    BY <1>2, <1>6 DEF TeamDelete, CountsTyped
  <2> QED
    BY <1>5, <1>6, <2>1, Still, TypedNext DEF TeamDelete, Files, Runtime
<1>7. CASE LeadSweep
  BY <1>5, <1>7, Still, TypedNext DEF LeadSweep, Files, Runtime
<1>8. ASSUME NEW g \in Gens, Backfill(g) PROVE Typed'
  <2> DEFINE t == [Idle EXCEPT !.pc = "backfill", !.w = child[g].of]
  <2>1. child[g].of \in Workers
    BY <1>8 DEF Backfill, LoopsHaveWorkers
  <2>2. t \in Thread /\ t.pc = "backfill" /\ t.w = child[g].of /\ t.pc \notin Deleting
    BY <2>1, IdleIsThread DEF Thread, Deleting
  <2>3. th' = [th EXCEPT !["loop"] = t]
    BY <1>8 DEF Backfill
  <2>4. ThreadsFit'
    BY <2>1, <2>2, <2>3, ThreadMoves
  <2> QED
    BY <1>8, <2>4, Still, TypedNext DEF Backfill, Files, Runtime
<1> QED
  BY <1>3, <1>4, <1>6, <1>7, <1>8

(* A thread goes on to another step of its operation.                      *)
Pcs == Adding \cup Deleting \cup {"idle", "remove", "backfill"}

Moves(a, p, g, f) == th' = [th EXCEPT ![a] = [th[a] EXCEPT !.pc = p, !.g = g, !.file = f]]

LEMMA StepTyped ==
  ASSUME ThreadsFit, NEW a \in Threads, NEW p \in Pcs, NEW g \in Gens \cup {0},
         NEW f \in RecordFiles \cup {NoFile},
         th[a].pc \notin {"idle", "next"}, p # "idle",
         Moves(a, p, g, f),
         a # "tool" => p \in Deleting \/ p = th[a].pc,
         a = "loop" => p = "backfill",
         p \in Deleting => th[a].pc \in Deleting,
         p \in {"next", "record"} => th[a].mode # "remove",
         p \in {"take", "ready", "loop"} => g # 0
  PROVE  ThreadsFit'
<1> DEFINE t == [th[a] EXCEPT !.pc = p, !.g = g, !.file = f]
<1>1. th[a] \in Thread /\ th[a].w \in Workers
  BY DEF ThreadsFit
<1>2. t \in Thread
  BY <1>1 DEF Thread, Pcs
<1>3. t.pc = p /\ t.w = th[a].w /\ t.mode = th[a].mode /\ t.w \in Workers /\ t.g = g
  BY <1>1 DEF Thread
<1>4. t.pc \in Deleting => t.mode \in {"remove", "archive", "purge"}
  BY <1>3 DEF ThreadsFit
<1>5. a = "lead" => t.pc \in Deleting \cup {"idle"} /\ t.mode = "archive"
  BY <1>3 DEF ThreadsFit
<1>6. th' = [th EXCEPT ![a] = t]
  BY DEF Moves
<1> HIDE DEF t
<1> QED
  BY <1>2, <1>3, <1>4, <1>5, <1>6, ThreadMoves

LEMMA GotoTyped ==
  ASSUME ThreadsFit, NEW a \in Threads, NEW p \in Pcs, Goto(a, p),
         th[a].pc \notin {"idle", "next"}, p # "idle",
         a # "tool" => p \in Deleting, a # "loop",
         p \in Deleting => th[a].pc \in Deleting,
         p \in {"next", "record"} => th[a].mode # "remove",
         p \in {"take", "ready", "loop"} => th[a].g # 0
  PROVE  ThreadsFit'
<1>1. th \in [Threads -> Thread]
  BY DEF ThreadsFit
<1>2. th[a].g \in Gens \cup {0} /\ th[a].file \in RecordFiles \cup {NoFile}
  BY <1>1 DEF Thread
<1>3. Moves(a, p, th[a].g, th[a].file)
  BY <1>1 DEF Goto, Thread, Moves
<1> QED
  BY <1>2, <1>3, StepTyped

LEMMA IdleTyped ==
  ASSUME ThreadsFit, NEW a \in Threads, th' = [th EXCEPT ![a] = Idle]
  PROVE  ThreadsFit'
BY ThreadMoves, IdleIsThread DEF Deleting

LEMMA AddTyped ==
  ASSUME Typed, ProbeSession \/ SpawnFails \/ Spawn \/ TakeReceiver \/ ReadyCheck \/ StartLoop
  PROVE  Typed'
<1> USE TypedParts
<1> DEFINE t == th["tool"]
<1>1. th \in [Threads -> Thread] /\ t \in Thread
  BY DEF ThreadsFit
<1>2. t.g \in Gens \cup {0} /\ t.file \in RecordFiles \cup {NoFile}
  BY <1>1 DEF Thread
<1>3. t.pc \notin {"idle", "next"} => t.w \in Workers
  BY DEF ThreadsFit
<1>4. 0 \notin Gens
  BY DEF Gens
<1>5. CASE ProbeSession
  <2>1. ThreadsFit'
    BY <1>5, GotoTyped DEF ProbeSession, Pcs, Adding, Deleting
  <2>2. RuntimeTyped'
    BY <1>3, <1>5 DEF ProbeSession, DropDead, RuntimeTyped
  <2> QED
    BY <1>5, <2>1, <2>2, Still, TypedNext DEF ProbeSession, Files
<1>6. CASE SpawnFails
  <2>1. ThreadsFit'
    BY <1>6, GotoTyped DEF SpawnFails, Pcs, Adding, Deleting
  <2> QED
    BY <1>6, <2>1, Still, TypedNext DEF SpawnFails, Files, Runtime
<1>7. CASE Spawn
  <2>1. PICK g \in Gens :
          /\ child' = [child EXCEPT ![g] = [of |-> t.w, said |-> "none", alive |-> TRUE]]
          /\ session' = [session EXCEPT ![t.w] = g]
          /\ th' = [th EXCEPT !["tool"].pc = "take", !["tool"].g = g]
    BY <1>7 DEF Spawn
  <2>2. t.pc = "spawn" /\ t.w \in Workers
    BY <1>3, <1>7 DEF Spawn
  <2>3. Moves("tool", "take", g, t.file)
    BY <1>1, <2>1 DEF Thread, Moves
  <2>4. ThreadsFit'
    BY <1>2, <1>4, <2>2, <2>3, StepTyped DEF Pcs, Adding, Deleting
  <2>5. [of |-> t.w, said |-> "none", alive |-> TRUE] \in Child
    BY <2>2 DEF Child
  <2>6. RuntimeTyped'
    BY <1>7, <2>1, <2>2, <2>5 DEF Spawn, RuntimeTyped
  <2> QED
    BY <1>7, <2>4, <2>6, Still, TypedNext DEF Spawn, Files
<1>8. CASE TakeReceiver
  <2>1. PICK p \in {"ready", "persist"}, g \in {t.g, 0} :
          Moves("tool", p, g, t.file) /\ (p = "ready" => g # 0)
    <3>1. Moves("tool", "ready", t.g, t.file) \/ Moves("tool", "persist", 0, t.file)
      BY <1>1, <1>8 DEF TakeReceiver, Thread, Moves
    <3>2. t.g # 0
      BY <1>8 DEF TakeReceiver, ThreadsFit
    <3> QED
      BY <3>1, <3>2
  <2>2. t.pc = "take"
    BY <1>8 DEF TakeReceiver
  <2>3. ThreadsFit'
    BY <1>2, <2>1, <2>2, StepTyped DEF Pcs, Adding, Deleting
  <2> QED
    BY <1>8, <2>3, Still, TypedNext DEF TakeReceiver, Files, Runtime
<1>9. CASE ReadyCheck
  <2>1. ThreadsFit'
    BY <1>9, GotoTyped DEF ReadyCheck, Pcs, Adding, Deleting
  <2> QED
    BY <1>9, <2>1, Still, TypedNext DEF ReadyCheck, Files, Runtime
<1>10. CASE StartLoop
  <2>1. th' = [th EXCEPT !["tool"] = Idle] /\ t.g \in Gens /\ t.w \in Workers
    BY <1>2, <1>3, <1>10 DEF StartLoop, ThreadsFit
  <2>2. RuntimeTyped'
    BY <1>10, <2>1 DEF StartLoop, RuntimeTyped
  <2> QED
    BY <1>10, <2>1, <2>2, IdleTyped, Still, TypedNext DEF StartLoop, Files
<1> QED
  BY <1>5, <1>6, <1>7, <1>8, <1>9, <1>10

(* What a store step leaves is a record.                                   *)
LEMMA ChangedIsRecord ==
  ASSUME NEW t \in Thread, t.pc \in StoreSteps, NEW rec \in MemberRecord,
         t.pc # "upsert" => rec # NoRecord
  PROVE  /\ Changed(t, rec) \in MemberRecord
         /\ t.pc \notin {"upsert", "undo", "remove"} => Changed(t, rec).status = rec.status
<1>1. t.saved \in {"none", "running", "stopped"}
  BY DEF Thread
<1>2. [status |-> "active", state |-> t.saved] \in MemberRecord
  BY <1>1 DEF MemberRecord
<1>3. [status |-> "removed", state |-> "stopped"] \in MemberRecord
  BY DEF MemberRecord
<1>4. ASSUME rec # NoRecord, NEW s \in {"running", "stopped"}
      PROVE  [rec EXCEPT !.state = s] \in MemberRecord /\ [rec EXCEPT !.state = s].status = rec.status
  BY <1>4 DEF MemberRecord
<1>5. CASE t.pc = "upsert"
  BY <1>2, <1>5 DEF Changed, Upserted
<1>6. CASE t.pc \in {"undo", "remove"}
  BY <1>3, <1>6 DEF Changed
<1>7. CASE t.pc \in {"persist", "relive"}
  BY <1>4, <1>7 DEF Changed
<1>8. CASE t.pc = "record"
  BY <1>4, <1>8 DEF Changed
<1>9. CASE t.pc = "backfill"
  BY <1>9 DEF Changed
<1> QED
  BY <1>5, <1>6, <1>7, <1>8, <1>9 DEF StoreSteps

LEMMA StoreTyped ==
  ASSUME Typed, NEW a \in Threads, Load(a) \/ Store(a) \/ SetSidecar(a)
  PROVE  Typed'
<1> USE TypedParts
<1> DEFINE t == th[a]
<1>1. th \in [Threads -> Thread] /\ t \in Thread /\ t.pc \in Pcs
  BY DEF ThreadsFit, Thread, Pcs
<1>2. t.g \in Gens \cup {0} /\ t.file \in RecordFiles \cup {NoFile} /\ members \in RecordFiles
  BY <1>1 DEF Thread, FilesTyped
<1>3. t.pc \notin {"idle", "next"} => t.w \in Workers
  BY DEF ThreadsFit
<1>4. /\ a = "lead" => t.pc \in Deleting \cup {"idle"}
      /\ a = "loop" => t.pc \in {"idle", "backfill"}
  BY DEF ThreadsFit
<1>5. /\ t.pc \in {"next", "record"} => t.mode # "remove"
      /\ t.pc \in {"take", "ready", "loop"} => t.g # 0
  BY DEF ThreadsFit
<1>6. CASE Load(a)
  <2>1. t.pc \in StoreSteps
    BY <1>6 DEF Load
  <2>2. Moves(a, t.pc, t.g, members)
    BY <1>1, <1>6 DEF Load, Thread, Moves
  <2>3. t.pc \notin {"idle", "next"}
    BY <2>1 DEF StoreSteps
  <2>4. ThreadsFit'
    BY <1>1, <1>2, <1>4, <1>5, <2>1, <2>2, <2>3, StepTyped
  <2> QED
    BY <1>6, <2>4, Still, TypedNext DEF Load, Files, Runtime
<1>7. CASE Store(a)
  <2>1. t.pc \in StoreSteps /\ t.w \in Workers /\ t.file \in RecordFiles
    BY <1>2, <1>3, <1>7 DEF Store, StoreSteps
  <2>2. members' \in RecordFiles /\ lost' \in BOOLEAN
    <3>1. CASE UNCHANGED <<members, lost>>
      BY <3>1 DEF FilesTyped
    <3>2. CASE SaveFile(t) /\ (t.pc # "upsert" => t.file[t.w] # NoRecord)
      <4>1. t.file[t.w] \in MemberRecord
        BY <2>1 DEF RecordFiles
      <4>2. Changed(t, t.file[t.w]) \in MemberRecord
        BY <1>1, <2>1, <3>2, <4>1, ChangedIsRecord
      <4>3. members' = [t.file EXCEPT ![t.w] = Changed(t, t.file[t.w])]
        BY <3>2 DEF SaveFile
      <4>4. lost' \in BOOLEAN
        BY <3>2 DEF SaveFile
      <4> QED
        BY <2>1, <4>2, <4>3, <4>4 DEF RecordFiles
    <3> QED
      BY <1>7, <3>1, <3>2 DEF Store
  <2>3. FilesTyped'
    BY <1>7, <2>2 DEF Store, FilesTyped
  <2>4. ThreadsFit'
    <3>1. CASE AfterStore(a) = "idle"
      BY <1>7, <3>1, IdleTyped DEF Store
    <3>2. CASE AfterStore(a) # "idle"
      <4> DEFINE p == AfterStore(a)
      <4>1. /\ p \in {"starting", "failed", "running", "relabel", "next"}
            /\ p = "next" => t.pc = "record"
            /\ p # "next" => t.pc \in {"upsert", "undo", "persist", "relive"}
        BY <2>1, <3>2 DEF AfterStore, StoreSteps
      <4>2. th' = [th EXCEPT ![a].file = NoFile, ![a].pc = p]
        BY <1>7, <3>2 DEF Store
      <4> HIDE DEF p
      <4>3. Moves(a, p, t.g, NoFile)
        BY <1>1, <4>2 DEF Thread, Moves
      <4>4. p \in Pcs /\ p \notin {"idle", "take", "ready", "loop", "record"} /\ t.pc \notin {"idle", "next"}
        BY <4>1 DEF Pcs, Adding, Deleting
      <4>5. a # "tool" => p \in Deleting /\ a # "loop"
        BY <1>4, <4>1 DEF Deleting
      <4>6. p \in Deleting => t.pc \in Deleting /\ t.mode # "remove"
        BY <1>5, <4>1 DEF Deleting
      <4>7. p = "next" => t.mode # "remove"
        BY <1>5, <4>1
      <4> QED
        BY <1>2, <4>3, <4>4, <4>5, <4>6, <4>7, StepTyped
    <3> QED
      BY <3>1, <3>2
  <2> QED
    BY <1>7, <2>3, <2>4, Still, TypedNext DEF Store, Runtime
<1>8. CASE SetSidecar(a)
  <2>1. t.pc \in {"starting", "failed", "running", "relabel", "stopped"} /\ t.w \in Workers
    BY <1>3, <1>8 DEF SetSidecar, SidecarSteps
  <2>2. SidecarSteps[t.pc] \in SidecarState
    BY <2>1 DEF SidecarSteps, SidecarState
  <2>3. FilesTyped'
    BY <1>8, <2>1, <2>2 DEF SetSidecar, FilesTyped
  <2>4. th' = [th EXCEPT ![a] = Idle] \/ \E p \in Pcs :
          /\ th' = [th EXCEPT ![a].pc = p]
          /\ \/ p = "spawn" /\ t.pc = "starting"
             \/ p = "loop" /\ t.pc = "running" /\ t.g # 0
             \/ p = "remove" /\ t.pc = "stopped" /\ t.mode = "remove"
             \/ p = "record" /\ t.pc = "stopped" /\ t.mode # "remove"
    <3>1. {"spawn", "loop", "remove", "record"} \subseteq Pcs
      BY DEF Pcs, Adding, Deleting
    <3>2. t.pc = "starting" => th' = [th EXCEPT ![a].pc = "spawn"]
      BY <1>8 DEF SetSidecar
    <3>3. /\ t.pc = "running" /\ t.g # 0 => th' = [th EXCEPT ![a].pc = "loop"]
          /\ t.pc = "running" /\ t.g = 0 => th' = [th EXCEPT ![a] = Idle]
      BY <1>8 DEF SetSidecar
    <3>4. t.pc = "stopped" /\ t.mode = "remove" => th' = [th EXCEPT ![a].pc = "remove"]
      BY <1>8 DEF SetSidecar
    <3>6. t.pc = "stopped" /\ t.mode # "remove" => th' = [th EXCEPT ![a].pc = "record"]
      BY <1>8 DEF SetSidecar
    <3>5. t.pc \in {"failed", "relabel"} => th' = [th EXCEPT ![a] = Idle]
      BY <1>8 DEF SetSidecar
    <3> HIDE DEF t
    <3> QED
      BY <2>1, <3>1, <3>2, <3>3, <3>4, <3>5, <3>6
  <2>5. ThreadsFit'
    <3>1. CASE th' = [th EXCEPT ![a] = Idle]
      BY <3>1, IdleTyped
    <3>2. ASSUME NEW p \in Pcs, th' = [th EXCEPT ![a].pc = p],
                 \/ p = "spawn" /\ t.pc = "starting"
                 \/ p = "loop" /\ t.pc = "running" /\ t.g # 0
                 \/ p = "remove" /\ t.pc = "stopped" /\ t.mode = "remove" /\ a = "tool"
                 \/ p = "record" /\ t.pc = "stopped" /\ t.mode # "remove"
          PROVE  ThreadsFit'
      <4>1. Moves(a, p, t.g, t.file)
        BY <1>1, <3>2 DEF Thread, Moves
      <4>2. /\ p \notin {"idle", "next", "take", "ready"} /\ t.pc \notin {"idle", "next"}
            /\ p = "loop" => t.g # 0
            /\ p \in Deleting => t.pc \in Deleting
            /\ a # "tool" => p \in Deleting /\ a # "loop"
            /\ p = "record" => t.mode # "remove"
        BY <1>4, <3>2 DEF Deleting
      <4> QED
        BY <1>2, <4>1, <4>2, StepTyped
    <3>3. a = "lead" /\ t.pc # "idle" => t.mode = "archive"
      BY DEF ThreadsFit
    <3>4. a = "loop" => t.pc # "stopped"
      BY <1>4
    <3> QED
      BY <2>4, <3>1, <3>2, <3>3, <3>4
  <2> QED
    BY <1>8, <2>3, <2>5, Still, TypedNext DEF SetSidecar, Runtime
<1> QED
  BY <1>6, <1>7, <1>8

LEMMA DeleteTyped ==
  ASSUME Typed, NEW a \in Threads,
         Shutdown(a) \/ ShutdownFails(a) \/ ReleaseLoop(a) \/ NextMember(a) \/ DeleteTeam(a)
  PROVE  Typed'
<1> USE TypedParts
<1> DEFINE t == th[a]
<1>1. th \in [Threads -> Thread] /\ t \in Thread
  BY DEF ThreadsFit
<1>2. t.pc \notin {"idle", "next"} => t.w \in Workers
  BY DEF ThreadsFit
<1>3. a = "loop" => t.pc \in {"idle", "backfill"}
  BY DEF ThreadsFit
<1>4. /\ faults < MaxFaults => faults + 1 \in 0..MaxFaults
      /\ 0 \notin Gens
  BY DEF CountsTyped, Gens
<1>5. \A w \in Workers : session[w] \in Gens \cup {0} /\ handle[w] \in Gens \cup {0}
  BY DEF RuntimeTyped
<1>6. ASSUME NEW p \in {"release", "stopped"}, t.pc \in {"shutdown", "release"}, Goto(a, p) PROVE ThreadsFit'
  BY <1>3, <1>6, GotoTyped DEF Pcs, Deleting
<1>7. CASE Shutdown(a)
  <2>1. t.w \in Workers /\ ThreadsFit'
    BY <1>2, <1>6, <1>7 DEF Shutdown
  <2>2. child' \in [Gens -> Child]
    <3>1. CASE session[t.w] = 0
      BY <1>7, <3>1 DEF Shutdown, RuntimeTyped
    <3>2. CASE session[t.w] # 0
      <4>1. session[t.w] \in Gens /\ child' = [child EXCEPT ![session[t.w]].alive = FALSE]
        BY <1>5, <1>7, <2>1, <3>2 DEF Shutdown
      <4>2. \A c \in Child : [c EXCEPT !.alive = FALSE] \in Child
        BY DEF Child
      <4> QED
        BY <4>1, <4>2 DEF RuntimeTyped
    <3> QED
      BY <3>1, <3>2
  <2>3. RuntimeTyped'
    BY <1>7, <2>1, <2>2 DEF Shutdown, RuntimeTyped
  <2> QED
    BY <1>7, <2>1, <2>3, Still, TypedNext DEF Shutdown, Files
<1>8. CASE ShutdownFails(a)
  <2>1. t.w \in Workers /\ ThreadsFit'
    BY <1>2, <1>6, <1>8 DEF ShutdownFails
  <2>2. RuntimeTyped' /\ CountsTyped'
    BY <1>4, <1>5, <1>8, <2>1 DEF ShutdownFails, RuntimeTyped, CountsTyped
  <2> QED
    BY <1>8, <2>1, <2>2, Still, TypedNext DEF ShutdownFails, Files
<1>9. CASE ReleaseLoop(a)
  <2>1. t.w \in Workers /\ ThreadsFit'
    BY <1>2, <1>6, <1>9 DEF ReleaseLoop
  <2>2. RuntimeTyped'
    BY <1>5, <1>9, <2>1 DEF ReleaseLoop, RuntimeTyped
  <2> QED
    BY <1>9, <2>1, <2>2, Still, TypedNext DEF ReleaseLoop, Files
<1>10. CASE NextMember(a)
  <2>1. PICK w \in t.todo :
          th' = [th EXCEPT ![a].pc = "shutdown", ![a].w = w, ![a].todo = t.todo \ {w}]
    BY <1>10 DEF NextMember
  <2>2. t.pc = "next" /\ t.todo \subseteq Workers
    BY <1>1, <1>10 DEF NextMember, Thread
  <2> DEFINE s == [t EXCEPT !.pc = "shutdown", !.w = w, !.todo = t.todo \ {w}]
  <2>3. th' = [th EXCEPT ![a] = s]
    BY <1>1, <2>1 DEF Thread
  <2>4. s \in Thread /\ s.pc = "shutdown" /\ s.w \in Workers /\ s.mode = t.mode
    BY <1>1, <2>2 DEF Thread, Deleting
  <2>5. s.pc \in Deleting => s.mode \in {"remove", "archive", "purge"}
    BY <2>2, <2>4 DEF ThreadsFit, Deleting
  <2>6. a = "lead" => s.mode = "archive"
    BY <2>2, <2>4 DEF ThreadsFit
  <2>7. ThreadsFit'
    <3> HIDE DEF s
    <3> QED
      BY <1>3, <2>2, <2>3, <2>4, <2>5, <2>6, ThreadMoves DEF Deleting
  <2> QED
    BY <1>10, <2>7, Still, TypedNext DEF NextMember, Files, Runtime
<1>11. CASE DeleteTeam(a)
  <2>1. /\ team' \in {"none", "active", "archived"}
        /\ members' \in RecordFiles /\ sidecar' \in [Workers -> SidecarState]
    BY <1>11 DEF DeleteTeam, FilesTyped, RecordFiles, MemberRecord, SidecarState
  <2>2. FilesTyped'
    BY <1>11, <2>1 DEF DeleteTeam, FilesTyped
  <2>3. ThreadsFit'
    BY <1>11, IdleTyped DEF DeleteTeam
  <2> QED
    BY <1>11, <2>2, <2>3, Still, TypedNext DEF DeleteTeam, Runtime
<1> QED
  BY <1>7, <1>8, <1>9, <1>10, <1>11

LEMMA CreateTyped ==
  ASSUME Typed, NEW o \in BOOLEAN, TeamCreate(o)
  PROVE  Typed'
<1> USE TypedParts
<1>1. team' = "active" /\ owner' = TRUE /\ lost' = lost /\ sidecar' = sidecar
      /\ (members' = members \/ members' = [w \in Workers |-> NoRecord])
  BY DEF TeamCreate
<1>2. FilesTyped'
  BY <1>1 DEF FilesTyped, RecordFiles, MemberRecord
<1>3. RuntimeTyped'
  BY DEF TeamCreate, RuntimeTyped
<1>4. CountsTyped'
  BY DEF TeamCreate, CountsTyped
<1> QED
  BY <1>2, <1>3, <1>4, Still, TypedNext DEF TeamCreate

LEMMA WorldTyped ==
  ASSUME Typed,
         \/ TickList \/ TickProbe \/ TickFlip \/ OwnerDies \/ ServiceRestart
         \/ \E g \in Gens : ChildSpeaks(g) \/ ChildDies(g) \/ LoopExits(g) \/ LoopFails(g)
  PROVE  Typed'
<1> USE TypedParts
<1>1. faults < MaxFaults => faults + 1 \in 0..MaxFaults
  BY DEF CountsTyped
<1>2. CASE TickList
  <2>1. TickFits'
    BY <1>2 DEF TickList, TickFits
  <2> QED
    BY <1>2, <2>1, Still, TypedNext DEF TickList, Files, Runtime
<1>3. CASE TickProbe
  <2>1. TickFits'
    <3>1. tick.todo \subseteq Workers
      BY DEF TickFits
    <3>2. CASE tick' = [pc |-> "idle", todo |-> {}, w |-> NoWorker]
      BY <3>2 DEF TickFits
    <3>3. CASE \E w \in tick.todo :
                 tick' = [pc |-> IF IsAlive(w) THEN "probe" ELSE "flip",
                          todo |-> tick.todo \ {w},
                          w |-> IF IsAlive(w) THEN NoWorker ELSE w]
      BY <3>1, <3>3 DEF TickFits
    <3> QED
      BY <1>3, <3>2, <3>3 DEF TickProbe
  <2> QED
    BY <1>3, <2>1, Still, TypedNext DEF TickProbe, Files, Runtime
<1>4. CASE TickFlip
  <2>1. TickFits' /\ FilesTyped'
    BY <1>4 DEF TickFlip, TickFits, FilesTyped, SidecarState
  <2> QED
    BY <1>4, <2>1, Still, TypedNext DEF TickFlip, Runtime
<1>5. CASE OwnerDies
  <2>1. FilesTyped'
    BY <1>5 DEF OwnerDies, FilesTyped
  <2>2. CountsTyped'
    BY <1>1, <1>5 DEF OwnerDies, CountsTyped
  <2> QED
    BY <1>5, <2>1, <2>2, Still, TypedNext DEF OwnerDies, Runtime
<1>6. CASE ServiceRestart
  <2>1. sidecar' \in [Workers -> SidecarState]
    BY <1>6 DEF ServiceRestart, RestartDead, FilesTyped, SidecarState
  <2>2. FilesTyped'
    BY <1>6, <2>1 DEF ServiceRestart, FilesTyped
  <2>3. child' \in [Gens -> Child]
    <3>1. \A g \in Gens : [child[g] EXCEPT !.alive = FALSE] \in Child
      BY DEF RuntimeTyped, Child
    <3> QED
      BY <1>6, <3>1 DEF ServiceRestart
  <2>4. RuntimeTyped'
    BY <1>6, <2>3 DEF ServiceRestart, RuntimeTyped
  <2>5. CountsTyped' /\ TickFits'
    BY <1>1, <1>6 DEF ServiceRestart, CountsTyped, TickFits
  <2>6. ThreadsFit'
    BY <1>6, IdleIsThread DEF ServiceRestart, ThreadsFit, Deleting
  <2> QED
    BY <2>2, <2>4, <2>5, <2>6, TypedNext
<1>7. ASSUME NEW g \in Gens, ChildSpeaks(g) \/ ChildDies(g) PROVE Typed'
  <2>1. \E c \in Child : child' = [child EXCEPT ![g] = c]
    <3>1. child[g] \in Child
      BY DEF RuntimeTyped
    <3>2. /\ \A s \in {"ready", "error"} : [child[g] EXCEPT !.said = s] \in Child
          /\ [child[g] EXCEPT !.alive = FALSE] \in Child
      BY <3>1 DEF Child
    <3> QED
      BY <1>7, <3>2 DEF ChildSpeaks, ChildDies
  <2>2. RuntimeTyped'
    BY <1>7, <2>1 DEF ChildSpeaks, ChildDies, RuntimeTyped
  <2>3. UNCHANGED <<Files, th, tick, calls, faults>>
    BY <1>7 DEF ChildSpeaks, ChildDies
  <2> QED
    BY <2>2, <2>3, Still, TypedNext DEF Files
<1>8. ASSUME NEW g \in Gens, LoopExits(g) \/ LoopFails(g) PROVE Typed'
  <2>1. RuntimeTyped'
    BY <1>8 DEF LoopExits, LoopFails, RuntimeTyped
  <2>2. CountsTyped'
    BY <1>1, <1>8 DEF LoopExits, LoopFails, CountsTyped
  <2>3. UNCHANGED <<Files, th, tick>>
    BY <1>8 DEF LoopExits, LoopFails
  <2> QED
    BY <2>1, <2>2, <2>3, Still, TypedNext DEF Files
<1> QED
  BY <1>2, <1>3, <1>4, <1>5, <1>6, <1>7, <1>8

-----------------------------------------------------------------------------
(* Who serves a live session.                                              *)

(* After the spawn, worker_add holds the child until its loop runs.        *)
Starting == {"take", "ready", "persist", "running", "loop"}

BeingStarted(w) ==
  th["tool"].pc \in Starting /\ th["tool"].w = w /\ th["tool"].g = session[w]

(* Sessions, loops and the call in hand name children of their worker.     *)
Kids ==
  /\ \A w \in Workers : session[w] # 0 => child[session[w]].of = w
  /\ LoopsHaveWorkers
  /\ LET t == th["tool"] IN t.pc \in Starting /\ t.g # 0 => child[t.g].of = t.w

(* A loop nobody told to stop is the one its worker's handle stops.        *)
OneLoop == \A g \in loops \ (told \cup broken) : handle[child[g].of] = g

Served ==
  \A w \in Workers : IsAlive(w) =>
    \/ session[w] \in loops \cup told \cup broken
    \/ child[session[w]].said = "error"
    \/ BeingStarted(w)

Serving == Typed /\ Kids /\ OneLoop /\ Served

LEMMA ServingInit == Init => Serving
<1>1. Init => Kids /\ OneLoop /\ Served
  BY DEF Init, Kids, LoopsHaveWorkers, OneLoop, Served, IsAlive, Idle, Starting
<1> QED
  BY <1>1, TypedInit DEF Serving

(* The call keeps its child until the loop runs, unless the child is gone  *)
(* or its start failed.                                                    *)
ToolGoes ==
  LET t == th["tool"]  u == th'["tool"] IN
  /\ u.pc \in Starting => t.pc \in Starting /\ u.w = t.w /\ u.g \in {t.g, 0}
  /\ \A w \in Workers : BeingStarted(w) /\ IsAlive(w) =>
       \/ child[session[w]].said = "error"
       \/ u.pc \in Starting /\ u.w = t.w /\ u.g = t.g

LEMMA ServingStill ==
  ASSUME Serving, UNCHANGED <<session, handle, loops, told, child>>,
         broken \subseteq broken', ToolGoes
  PROVE  Kids' /\ OneLoop' /\ Served'
<1>1. Kids'
  <2>1. \A w \in Workers : session'[w] # 0 => child'[session'[w]].of = w
    BY DEF Serving, Kids
  <2>2. LoopsHaveWorkers'
    BY DEF Serving, Kids, LoopsHaveWorkers
  <2>3. th'["tool"].pc \in Starting /\ th'["tool"].g # 0 => child'[th'["tool"].g].of = th'["tool"].w
    BY DEF Serving, Kids, ToolGoes
  <2> QED
    BY <2>1, <2>2, <2>3 DEF Kids
<1>2. OneLoop'
  BY DEF Serving, OneLoop
<1>3. Served'
  <2> SUFFICES ASSUME NEW w \in Workers, IsAlive(w)'
               PROVE  \/ session'[w] \in loops' \cup told' \cup broken'
                      \/ child'[session'[w]].said = "error"
                      \/ BeingStarted(w)'
    BY DEF Served
  <2>1. IsAlive(w)
    BY DEF IsAlive
  <2>2. CASE BeingStarted(w)
    BY <2>1, <2>2 DEF ToolGoes, BeingStarted
  <2>3. CASE ~BeingStarted(w)
    BY <2>1, <2>3 DEF Serving, Served
  <2> QED
    BY <2>2, <2>3
<1> QED
  BY <1>1, <1>2, <1>3

LEMMA OthersGo ==
  ASSUME th'["tool"] = th["tool"]
  PROVE  ToolGoes
BY DEF ToolGoes, BeingStarted

(* The steps that leave sessions, loops and children alone.                *)
LEMMA QuietServes ==
  ASSUME Serving,
         \/ \E w \in Workers, m \in {"reuse", "overwrite"} : WorkerAdd(w, m)
         \/ \E w \in Workers : WorkerRemove(w)
         \/ \E m \in {"archive", "purge"} : TeamDelete(m)
         \/ \E o \in BOOLEAN : TeamCreate(o)
         \/ SpawnFails \/ TakeReceiver \/ ReadyCheck
         \/ \E a \in Threads : Load(a) \/ Store(a) \/ SetSidecar(a) \/ NextMember(a) \/ DeleteTeam(a)
         \/ LeadSweep \/ TickList \/ TickProbe \/ TickFlip \/ \E g \in Gens : Backfill(g)
         \/ OwnerDies
  PROVE  Kids' /\ OneLoop' /\ Served'
<1> DEFINE t == th["tool"]
           u == th'["tool"]
<1>1. th \in [Threads -> Thread] /\ t \in Thread
  BY TypedParts DEF Serving, ThreadsFit
<1>2. UNCHANGED <<session, handle, loops, told, child>> /\ broken \subseteq broken'
  BY DEF WorkerAdd, WorkerRemove, TeamDelete, TeamCreate, SpawnFails, TakeReceiver, ReadyCheck,
         Load, Store, SetSidecar, NextMember, DeleteTeam, LeadSweep, TickList, TickProbe, TickFlip,
         Backfill, OwnerDies, Runtime
<1>3. ASSUME u.pc \notin Starting, t.pc \notin Starting PROVE ToolGoes
  BY <1>3 DEF ToolGoes, BeingStarted
<1>4. ASSUME NEW w \in Workers, NEW m \in {"reuse", "overwrite"}, WorkerAdd(w, m) PROVE ToolGoes
  <2>1. u.pc = "probe" /\ t.pc = "idle"
    BY <1>1, <1>4 DEF WorkerAdd, Idle
  <2> QED
    BY <1>3, <2>1 DEF Starting
<1>5. ASSUME NEW w \in Workers, WorkerRemove(w) PROVE ToolGoes
  <2>1. u.pc = "shutdown" /\ t.pc = "idle"
    BY <1>1, <1>5 DEF WorkerRemove, Idle
  <2> QED
    BY <1>3, <2>1 DEF Starting
<1>6. ASSUME NEW m \in {"archive", "purge"}, TeamDelete(m) PROVE ToolGoes
  <2>1. u.pc = "next" /\ t.pc = "idle"
    BY <1>1, <1>6 DEF TeamDelete, StartDelete, Idle
  <2> QED
    BY <1>3, <2>1 DEF Starting
<1>7. ASSUME \/ \E o \in BOOLEAN : TeamCreate(o)
             \/ TickList \/ TickProbe \/ TickFlip \/ OwnerDies
      PROVE  ToolGoes
  <2>1. th' = th
    BY <1>7 DEF TeamCreate, TickList, TickProbe, TickFlip, OwnerDies
  <2> QED
    BY <2>1, OthersGo
<1>8. ASSUME LeadSweep \/ \E g \in Gens : Backfill(g) PROVE ToolGoes
  <2>1. u = t
    BY <1>1, <1>8 DEF LeadSweep, StartDelete, Backfill
  <2> QED
    BY <2>1, OthersGo
<1>9. ASSUME SpawnFails PROVE ToolGoes
  <2>1. t.pc = "spawn" /\ u.pc = "failed"
    BY <1>1, <1>9 DEF SpawnFails, Goto, Thread
  <2> QED
    BY <1>3, <2>1 DEF Starting
<1>10. ASSUME TakeReceiver PROVE ToolGoes
  <2>1. /\ t.pc = "take"
        /\ session[t.w] = t.g => u = [t EXCEPT !.pc = "ready"]
        /\ session[t.w] # t.g => u = [t EXCEPT !.pc = "persist", !.g = 0]
    BY <1>1, <1>10 DEF TakeReceiver, Thread
  <2> QED
    BY <1>1, <2>1 DEF ToolGoes, BeingStarted, Starting, Thread
<1>11. ASSUME ReadyCheck PROVE ToolGoes
  <2>1. CASE child[t.g].said = "ready"
    <3>1. t.pc = "ready" /\ u = [t EXCEPT !.pc = "persist"]
      BY <1>1, <1>11, <2>1 DEF ReadyCheck, Goto, Thread
    <3> QED
      BY <1>1, <3>1 DEF ToolGoes, BeingStarted, Starting, Thread
  <2>2. CASE child[t.g].said # "ready"
    <3>1. t.pc = "ready" /\ u = [t EXCEPT !.pc = "undo"] /\ (child[t.g].said # "none" \/ ~child[t.g].alive)
      BY <1>1, <1>11, <2>2 DEF ReadyCheck, Goto, Thread
    <3>2. t.g \in Gens
      BY <1>1, <3>1, TypedParts DEF Serving, ThreadsFit, Thread
    <3>3. child[t.g].said \in {"none", "ready", "error"}
      BY <3>2, TypedParts DEF Serving, RuntimeTyped, Child
    <3> QED
      BY <1>1, <2>2, <3>1, <3>3 DEF ToolGoes, BeingStarted, IsAlive, Starting, Thread
  <2> QED
    BY <2>1, <2>2
<1>12. ASSUME NEW a \in Threads, Load(a) \/ Store(a) \/ SetSidecar(a) \/ NextMember(a) \/ DeleteTeam(a),
              a # "tool"
       PROVE  ToolGoes
  <2>1. u = t
    BY <1>1, <1>12 DEF Load, Store, SetSidecar, NextMember, DeleteTeam
  <2> QED
    BY <2>1, OthersGo
<1>13. ASSUME Load("tool") PROVE ToolGoes
  <2>1. u = [t EXCEPT !.file = members]
    BY <1>1, <1>13 DEF Load
  <2> QED
    BY <1>1, <2>1 DEF ToolGoes, BeingStarted, Thread
<1>14. ASSUME Store("tool") PROVE ToolGoes
  <2>1. CASE t.pc = "persist"
    <3>1. u = [t EXCEPT !.file = NoFile, !.pc = "running"]
      BY <1>1, <1>14, <2>1 DEF Store, AfterStore
    <3> QED
      BY <1>1, <2>1, <3>1 DEF ToolGoes, BeingStarted, Starting, Thread
  <2>2. CASE t.pc # "persist"
    <3>1. t.pc \in StoreSteps
      BY <1>14 DEF Store
    <3>2. AfterStore("tool") \in {"starting", "failed", "relabel", "next", "idle"}
      BY <2>2, <3>1 DEF AfterStore, StoreSteps
    <3>3. u = Idle \/ u = [t EXCEPT !.file = NoFile, !.pc = AfterStore("tool")]
      BY <1>1, <1>14 DEF Store
    <3>6. /\ u = Idle => u.pc = "idle"
          /\ u = [t EXCEPT !.file = NoFile, !.pc = AfterStore("tool")] => u.pc = AfterStore("tool")
      <4>1. u = Idle => u.pc = "idle"
        BY DEF Idle
      <4>2. ASSUME NEW p PROVE [t EXCEPT !.file = NoFile, !.pc = p].pc = p
        BY <1>1 DEF Thread
      <4> QED
        BY <4>1, <4>2
    <3>4. u.pc \notin Starting
      BY <3>2, <3>3, <3>6 DEF Starting
    <3>5. t.pc \notin Starting
      BY <2>2, <3>1 DEF StoreSteps, Starting
    <3> QED
      BY <1>3, <3>4, <3>5
  <2> QED
    BY <2>1, <2>2
<1>15. ASSUME SetSidecar("tool") PROVE ToolGoes
  <2>1. CASE t.pc = "running"
    <3>1. CASE t.g # 0
      <4>1. u = [t EXCEPT !.pc = "loop"]
        BY <1>1, <1>15, <2>1, <3>1 DEF SetSidecar
      <4> QED
        BY <1>1, <2>1, <4>1 DEF ToolGoes, BeingStarted, Starting, Thread
    <3>2. CASE t.g = 0
      <4>1. u.pc = "idle"
        BY <1>1, <1>15, <2>1, <3>2 DEF SetSidecar, Idle
      <4> QED
        BY <3>2, <4>1 DEF ToolGoes, BeingStarted, IsAlive, Starting
    <3> QED
      BY <3>1, <3>2
  <2>2. CASE t.pc # "running"
    <3>1. t.pc \in {"starting", "failed", "relabel", "stopped"}
      BY <1>15, <2>2 DEF SetSidecar, SidecarSteps
    <3>2. u = Idle \/ \E p \in {"spawn", "remove", "record"} : u = [t EXCEPT !.pc = p]
      BY <1>1, <1>15, <2>2, <3>1 DEF SetSidecar
    <3>3. u.pc \notin Starting
      BY <1>1, <3>2 DEF Idle, Starting, Thread
    <3> QED
      BY <1>3, <3>1, <3>3 DEF Starting
  <2> QED
    BY <2>1, <2>2
<1>16. ASSUME NextMember("tool") \/ DeleteTeam("tool") PROVE ToolGoes
  <2>1. t.pc = "next"
    BY <1>16 DEF NextMember, DeleteTeam
  <2>2. NextMember("tool") => u.pc = "shutdown"
    <3> SUFFICES ASSUME NextMember("tool")
                 PROVE  u.pc = "shutdown"
      OBVIOUS
    <3>1. PICK w \in t.todo :
            th' = [th EXCEPT !["tool"].pc = "shutdown", !["tool"].w = w, !["tool"].todo = t.todo \ {w}]
      BY DEF NextMember
    <3> QED
      BY <1>1, <3>1 DEF Thread
  <2>3. DeleteTeam("tool") => u.pc = "idle"
    BY <1>1 DEF DeleteTeam, Idle
  <2> QED
    BY <1>3, <1>16, <2>1, <2>2, <2>3 DEF Starting
<1> QED
  BY <1>2, <1>4, <1>5, <1>6, <1>7, <1>8, <1>9, <1>10, <1>11, <1>12, <1>13,
     <1>14, <1>15, <1>16, ServingStill

(* The steps that move a session, a loop or a child.                       *)
LEMMA SpawnServes ==
  ASSUME Serving, Spawn
  PROVE  Kids' /\ OneLoop' /\ Served'
<1> DEFINE w == th["tool"].w
<1>1. th \in [Threads -> Thread] /\ w \in Workers
  BY TypedParts DEF Serving, ThreadsFit, Spawn
<1>2. PICK g \in Gens :
        /\ child[g].of = NoWorker
        /\ child' = [child EXCEPT ![g] = [of |-> w, said |-> "none", alive |-> TRUE]]
        /\ session' = [session EXCEPT ![w] = g]
        /\ th' = [th EXCEPT !["tool"].pc = "take", !["tool"].g = g]
  BY DEF Spawn
<1>3. th'["tool"].pc = "take" /\ th'["tool"].w = w /\ th'["tool"].g = g
  BY <1>1, <1>2 DEF Thread
<1>4. RuntimeTyped
  BY TypedParts DEF Serving
<1>5. child'[g].of = w /\ session'[w] = g /\ \A v \in Workers : v # w => session'[v] = session[v]
  BY <1>1, <1>2, <1>4 DEF RuntimeTyped
<1>6. \A h \in Gens : h # g => child'[h] = child[h]
  BY <1>2, <1>4 DEF RuntimeTyped
<1>7. g \notin loops
  BY <1>2 DEF Serving, Kids, LoopsHaveWorkers
<1>8. \A v \in Workers : session[v] \in Gens \cup {0} /\ session[v] # g
  BY <1>2, <1>4 DEF Serving, Kids, RuntimeTyped, Gens
<1>9. UNCHANGED <<handle, loops, told, broken>> /\ loops \subseteq Gens
  BY <1>4 DEF Spawn, RuntimeTyped
<1>10. Kids'
  <2>1. \A v \in Workers : session'[v] # 0 => child'[session'[v]].of = v
    BY <1>5, <1>6, <1>8 DEF Serving, Kids
  <2>2. LoopsHaveWorkers'
    BY <1>6, <1>7, <1>9 DEF Serving, Kids, LoopsHaveWorkers
  <2> QED
    BY <1>3, <1>5, <2>1, <2>2 DEF Kids
<1>11. OneLoop'
  BY <1>6, <1>7, <1>9 DEF Serving, OneLoop
<1>12. Served'
  <2> SUFFICES ASSUME NEW v \in Workers, IsAlive(v)'
               PROVE  \/ session'[v] \in loops' \cup told' \cup broken'
                      \/ child'[session'[v]].said = "error"
                      \/ BeingStarted(v)'
    BY DEF Served
  <2>1. CASE v = w
    BY <1>3, <1>5, <2>1 DEF BeingStarted, Starting
  <2>2. CASE v # w
    <3>1. IsAlive(v)
      BY <1>5, <1>6, <1>8, <2>2 DEF IsAlive
    <3>2. ~BeingStarted(v)
      BY <2>2 DEF BeingStarted
    <3> QED
      BY <1>5, <1>6, <1>8, <1>9, <2>2, <3>1, <3>2 DEF Serving, Served, IsAlive
  <2> QED
    BY <2>1, <2>2
<1> QED
  BY <1>10, <1>11, <1>12

LEMMA LoopServes ==
  ASSUME Serving, StartLoop
  PROVE  Kids' /\ OneLoop' /\ Served'
<1> DEFINE t == th["tool"]
<1>1. t.pc = "loop" /\ t.g \in Gens /\ t.w \in Workers /\ th'["tool"].pc = "idle"
  BY TypedParts DEF Serving, ThreadsFit, Thread, StartLoop, Idle
<1>2. child[t.g].of = t.w
  BY <1>1 DEF Serving, Kids, Starting, Gens
<1>3. /\ loops' = loops \cup {t.g} /\ told' = told \cup ({handle[t.w]} \ {0})
      /\ handle' = [handle EXCEPT ![t.w] = t.g]
      /\ UNCHANGED <<session, child, broken>>
  BY DEF StartLoop
<1>4. RuntimeTyped
  BY TypedParts DEF Serving
<1>5. Kids'
  BY <1>1, <1>2, <1>3 DEF Serving, Kids, LoopsHaveWorkers, Starting
<1>6. OneLoop'
  <2> SUFFICES ASSUME NEW g \in loops' \ (told' \cup broken')
               PROVE  handle'[child'[g].of] = g
    BY DEF OneLoop
  <2>1. CASE g = t.g
    BY <1>1, <1>2, <1>3, <1>4, <2>1 DEF RuntimeTyped
  <2>2. CASE g # t.g
    <3>1. g \in loops \ (told \cup broken)
      BY <1>3, <2>2
    <3>2. handle[child[g].of] = g /\ child[g].of \in Workers /\ g \in Gens
      BY <1>4, <3>1 DEF Serving, OneLoop, Kids, LoopsHaveWorkers, RuntimeTyped
    <3>3. child[g].of # t.w
      BY <1>3, <3>2 DEF Gens
    <3> QED
      BY <1>3, <1>4, <3>2, <3>3 DEF RuntimeTyped
  <2> QED
    BY <2>1, <2>2
<1>7. Served'
  BY <1>1, <1>3 DEF Serving, Served, IsAlive, BeingStarted
<1> QED
  BY <1>5, <1>6, <1>7

(* A session, a child or a loop that goes.                                 *)
Ends ==
  /\ \A w \in Workers : session'[w] \in {session[w], 0}
  /\ \A g \in Gens : /\ child'[g].of = child[g].of
                     /\ child'[g].alive => child[g].alive
                     /\ child[g].said = "error" => child'[g].said = "error"
  /\ loops' \subseteq loops /\ told \subseteq told' /\ broken \subseteq broken'
  /\ \A g \in loops \ loops' : g \in told \cup broken' \/ ~child[g].alive
  /\ \A w \in Workers : handle'[w] = handle[w] \/ handle[w] \in told' \cup {0}
  /\ \/ th'["tool"] = th["tool"]
     \/ th["tool"].pc \notin Starting /\ th'["tool"].pc \notin Starting

LEMMA EndsServe ==
  ASSUME Serving, Ends
  PROVE  Kids' /\ OneLoop' /\ Served'
<1>1. RuntimeTyped /\ ThreadsFit /\ 0 \notin Gens
  BY TypedParts DEF Serving, Gens
<1>2. \A w \in Workers : session[w] \in Gens \cup {0} /\ session'[w] \in {session[w], 0}
  BY <1>1 DEF RuntimeTyped, Ends
<1>3. loops \subseteq Gens
  BY <1>1 DEF RuntimeTyped
<1>4. th["tool"].g \in Gens \cup {0}
  BY <1>1 DEF ThreadsFit, Thread
<1>5. Kids'
  <2>1. \A w \in Workers : session'[w] # 0 => child'[session'[w]].of = w
    BY <1>2 DEF Serving, Kids, Ends
  <2>2. LoopsHaveWorkers'
    BY <1>3 DEF Serving, Kids, LoopsHaveWorkers, Ends
  <2>3. th'["tool"].pc \in Starting /\ th'["tool"].g # 0 => child'[th'["tool"].g].of = th'["tool"].w
    BY <1>4 DEF Serving, Kids, Ends
  <2> QED
    BY <2>1, <2>2, <2>3 DEF Kids
<1>6. OneLoop'
  <2> SUFFICES ASSUME NEW g \in loops' \ (told' \cup broken')
               PROVE  handle'[child'[g].of] = g
    BY DEF OneLoop
  <2>1. g \in Gens /\ g \in loops \ (told \cup broken) /\ g # 0
    BY <1>1, <1>3 DEF Ends
  <2>2. handle[child[g].of] = g /\ child[g].of \in Workers /\ child'[g].of = child[g].of
    BY <2>1 DEF Serving, OneLoop, Kids, LoopsHaveWorkers, Ends
  <2> QED
    BY <2>1, <2>2 DEF Ends
<1>7. Served'
  <2> SUFFICES ASSUME NEW w \in Workers, IsAlive(w)'
               PROVE  \/ session'[w] \in loops' \cup told' \cup broken'
                      \/ child'[session'[w]].said = "error"
                      \/ BeingStarted(w)'
    BY DEF Served
  <2>1. session'[w] = session[w] /\ session[w] \in Gens /\ child'[session[w]].alive
    BY <1>2 DEF IsAlive
  <2>2. child[session[w]].alive /\ IsAlive(w)
    BY <1>1, <2>1 DEF Ends, IsAlive
  <2>3. CASE session[w] \in loops \cup told \cup broken
    BY <2>1, <2>2, <2>3 DEF Ends
  <2>4. CASE child[session[w]].said = "error"
    BY <2>1, <2>4 DEF Ends
  <2>5. CASE BeingStarted(w)
    BY <2>1, <2>5 DEF Ends, BeingStarted
  <2> QED
    BY <2>2, <2>3, <2>4, <2>5 DEF Serving, Served
<1> QED
  BY <1>5, <1>6, <1>7

LEMMA RestartServes ==
  ASSUME Serving, ServiceRestart
  PROVE  Kids' /\ OneLoop' /\ Served'
BY DEF ServiceRestart, Kids, LoopsHaveWorkers, OneLoop, Served, IsAlive, Idle, Starting

LEMMA EndServes ==
  ASSUME Serving,
         \/ ProbeSession
         \/ \E a \in Threads : Shutdown(a) \/ ShutdownFails(a) \/ ReleaseLoop(a)
         \/ \E g \in Gens : ChildSpeaks(g) \/ ChildDies(g) \/ LoopExits(g) \/ LoopFails(g)
  PROVE  Ends
<1>1. th \in [Threads -> Thread] /\ RuntimeTyped
      /\ \A a \in Threads : th[a].pc \notin {"idle", "next"} => th[a].w \in Workers
  BY TypedParts DEF Serving, ThreadsFit
<1>2. CASE ProbeSession
  <2>1. th["tool"].pc = "probe" /\ th'["tool"].pc \in {"relive", "upsert"} /\ th["tool"].w \in Workers
    BY <1>1, <1>2 DEF ProbeSession, Goto, Thread
  <2>2. \A w \in Workers : session'[w] \in {session[w], 0}
    BY <1>1, <1>2, <2>1 DEF ProbeSession, DropDead, RuntimeTyped
  <2> QED
    BY <1>2, <2>1, <2>2 DEF ProbeSession, Ends, Starting
<1>3. ASSUME NEW a \in Threads, Shutdown(a) \/ ShutdownFails(a) \/ ReleaseLoop(a) PROVE Ends
  <2> DEFINE w == th[a].w
  <2>1. w \in Workers /\ th[a].pc \in {"shutdown", "release"}
    BY <1>1, <1>3 DEF Shutdown, ShutdownFails, ReleaseLoop
  <2>2. \/ th'["tool"] = th["tool"]
        \/ th["tool"].pc \notin Starting /\ th'["tool"].pc \notin Starting
    <3>1. PICK p \in {"release", "stopped"} : th' = [th EXCEPT ![a].pc = p]
      BY <1>3 DEF Shutdown, ShutdownFails, ReleaseLoop, Goto
    <3>2. CASE a = "tool"
      BY <1>1, <2>1, <3>1, <3>2 DEF Starting, Thread
    <3>3. CASE a # "tool"
      BY <1>1, <3>1, <3>3
    <3> QED
      BY <3>2, <3>3
  <2>3. /\ \A v \in Workers : session'[v] \in {session[v], 0}
        /\ \A v \in Workers : handle'[v] = handle[v] \/ handle[v] \in told' \cup {0}
        /\ loops' = loops /\ told \subseteq told' /\ broken \subseteq broken'
    BY <1>1, <1>3, <2>1 DEF Shutdown, ShutdownFails, ReleaseLoop, RuntimeTyped
  <2>4. \A g \in Gens : /\ child'[g].of = child[g].of
                        /\ child'[g].alive => child[g].alive
                        /\ child[g].said = "error" => child'[g].said = "error"
    <3>1. child' = child \/ \E h \in Gens \cup {0} : child' = [child EXCEPT ![h].alive = FALSE]
      BY <1>1, <1>3, <2>1 DEF Shutdown, ShutdownFails, ReleaseLoop, RuntimeTyped
    <3> QED
      BY <1>1, <3>1 DEF RuntimeTyped, Child
  <2> QED
    BY <2>2, <2>3, <2>4 DEF Ends
<1>4. ASSUME NEW h \in Gens, ChildSpeaks(h) \/ ChildDies(h) PROVE Ends
  <2>1. \A g \in Gens : /\ child'[g].of = child[g].of
                        /\ child'[g].alive => child[g].alive
                        /\ child[g].said = "error" => child'[g].said = "error"
    <3>1. CASE ChildSpeaks(h)
      BY <1>1, <3>1 DEF ChildSpeaks, RuntimeTyped, Child
    <3>2. CASE ChildDies(h)
      BY <1>1, <3>2 DEF ChildDies, RuntimeTyped, Child
    <3> QED
      BY <1>4, <3>1, <3>2
  <2> QED
    BY <1>4, <2>1 DEF ChildSpeaks, ChildDies, Ends
<1>5. ASSUME NEW g \in Gens, LoopExits(g) \/ LoopFails(g) PROVE Ends
  BY <1>5 DEF LoopExits, LoopFails, Ends
<1> QED
  BY <1>2, <1>3, <1>4, <1>5

LEMMA ServingStep ==
  ASSUME Serving, [Next]_vars
  PROVE  Serving'
<1>1. LoopsHaveWorkers /\ Typed
  BY DEF Serving, Kids
<1>2. Typed'
  <2>1. CASE UNCHANGED vars
    BY <1>1, <2>1, Still, TypedNext DEF vars
  <2>2. CASE Next
    BY <1>1, <2>2, StartTyped, AddTyped, StoreTyped, DeleteTyped, CreateTyped, WorldTyped DEF Next
  <2> QED
    BY <2>1, <2>2
<1>3. CASE UNCHANGED vars
  BY <1>2, <1>3, ServingStill, OthersGo DEF vars, Serving
<1>4. CASE Spawn
  BY <1>2, <1>4, SpawnServes DEF Serving
<1>5. CASE StartLoop
  BY <1>2, <1>5, LoopServes DEF Serving
<1>6. CASE ServiceRestart
  BY <1>2, <1>6, RestartServes DEF Serving
<1>7. CASE \/ ProbeSession
           \/ \E a \in Threads : Shutdown(a) \/ ShutdownFails(a) \/ ReleaseLoop(a)
           \/ \E g \in Gens : ChildSpeaks(g) \/ ChildDies(g) \/ LoopExits(g) \/ LoopFails(g)
  BY <1>2, <1>7, EndServes, EndsServe DEF Serving
<1>8. CASE Next /\ ~(Spawn \/ StartLoop \/ ServiceRestart \/ ProbeSession)
           /\ ~(\E a \in Threads : Shutdown(a) \/ ShutdownFails(a) \/ ReleaseLoop(a))
           /\ ~(\E g \in Gens : ChildSpeaks(g) \/ ChildDies(g) \/ LoopExits(g) \/ LoopFails(g))
  BY <1>2, <1>8, QuietServes DEF Serving, Next
<1> QED
  BY <1>3, <1>4, <1>5, <1>6, <1>7, <1>8

(* Every variable of Workers keeps its type.                               *)
THEOREM TypeCorrect == Spec => []TypeOK
<1>1. Serving => TypeOK
  BY DEF Serving, Typed
<1> QED
  BY <1>1, ServingInit, ServingStep, PTL DEF Spec

(* With any number of workers, calls, deaths and restarts, a worker that   *)
(* is reported as running has one loop that reads for it, and no second    *)
(* one.                                                                    *)
THEOREM RunningIsRead == Spec => []ServedByOneLoop
<1>1. Serving => RunningIsServed
  BY DEF Serving, Served, BeingStarted, Starting, RunningIsServed
<1>2. Serving => OneLoopPerWorker
  BY DEF Serving, OneLoop, OneLoopPerWorker
<1> QED
  BY <1>1, <1>2, ServingInit, ServingStep, PTL DEF Spec, ServedByOneLoop

-----------------------------------------------------------------------------
(* What the tool thread does.                                              *)

SameTool ==
  LET t == th["tool"]  u == th'["tool"] IN
  u.pc = t.pc /\ u.w = t.w /\ u.g = t.g /\ u.mode = t.mode /\ u.todo = t.todo

Begins ==
  LET u == th'["tool"] IN
  /\ th["tool"].pc = "idle"
  /\ UNCHANGED <<team, members>>
  /\ \/ u.pc = "probe" /\ team # "none"
     \/ u.pc = "shutdown" /\ u.mode = "remove"
     \/ u.pc = "next" /\ u.mode # "remove"
        /\ u.todo = {w \in Workers : team # "none" /\ members[w].status = "active"}

GoesOn ==
  LET t == th["tool"]  u == th'["tool"] IN
  /\ u.w = t.w /\ u.mode = t.mode /\ u.todo = t.todo
  /\ \/ /\ t.pc \in Adding /\ u.pc \in Adding \ {"ready", "undo", "starting", "spawn"}
        /\ UNCHANGED team
     \/ t.pc = "upsert" /\ u.pc = "starting" /\ Store("tool")
     \/ t.pc = "starting" /\ u.pc = "spawn" /\ UNCHANGED <<team, members>>
     \/ u.pc = "ready" /\ u.g = t.g /\ TakeReceiver /\ session[t.w] = t.g
     \/ u.pc = "undo" /\ ReadyCheck
     \/ u.pc = "release" /\ (Shutdown("tool") \/ ShutdownFails("tool"))
     \/ t.pc = "release" /\ u.pc = "stopped"
     \/ t.pc = "stopped" /\ u.pc = "remove" /\ t.mode = "remove"
     \/ t.pc = "stopped" /\ u.pc = "record"
     \/ t.pc = "record" /\ u.pc = "next"

Takes ==
  LET t == th["tool"]  u == th'["tool"] IN
  /\ t.pc = "next" /\ u.pc = "shutdown" /\ u.mode = t.mode
  /\ u.w \in t.todo /\ u.todo = t.todo \ {u.w}

LEMMA ToolSteps ==
  ASSUME Typed, [Next]_vars
  PROVE  SameTool \/ th'["tool"].pc = "idle" \/ Begins \/ GoesOn \/ Takes
<1> DEFINE t == th["tool"]
           u == th'["tool"]
<1>1. th \in [Threads -> Thread] /\ t \in Thread
  BY TypedParts DEF ThreadsFit
<1>2. u = t => SameTool
  BY DEF SameTool
<1>3. ASSUME NEW p, u = [t EXCEPT !.pc = p]
      PROVE  u.pc = p /\ u.w = t.w /\ u.g = t.g /\ u.mode = t.mode /\ u.todo = t.todo
  BY <1>1, <1>3 DEF Thread
<1>4. CASE \/ UNCHANGED vars \/ TickList \/ TickProbe \/ TickFlip \/ OwnerDies
           \/ \E o \in BOOLEAN : TeamCreate(o)
           \/ \E g \in Gens : ChildSpeaks(g) \/ ChildDies(g) \/ LoopExits(g) \/ LoopFails(g)
  <2>1. u = t
    BY <1>4 DEF vars, TickList, TickProbe, TickFlip, OwnerDies, TeamCreate,
                ChildSpeaks, ChildDies, LoopExits, LoopFails
  <2> QED
    BY <1>2, <2>1
<1>5. CASE LeadSweep \/ \E g \in Gens : Backfill(g)
  <2>1. u = t
    BY <1>1, <1>5 DEF LeadSweep, StartDelete, Backfill
  <2> QED
    BY <1>2, <2>1
<1>6. CASE ServiceRestart
  BY <1>6 DEF ServiceRestart, Idle
<1>7. ASSUME NEW a \in Threads, a # "tool",
             \/ Load(a) \/ Store(a) \/ SetSidecar(a) \/ Shutdown(a) \/ ShutdownFails(a)
             \/ ReleaseLoop(a) \/ NextMember(a) \/ DeleteTeam(a)
      PROVE  u = t
  BY <1>1, <1>7 DEF Load, Store, SetSidecar, Shutdown, ShutdownFails, ReleaseLoop, NextMember, DeleteTeam, Goto
<1>8. ASSUME NEW w \in Workers, NEW m \in {"reuse", "overwrite"}, WorkerAdd(w, m) PROVE Begins
  <2>1. u.pc = "probe" /\ t.pc = "idle"
    BY <1>1, <1>8 DEF WorkerAdd, Idle
  <2> QED
    BY <1>8, <2>1 DEF Begins, WorkerAdd, Files
<1>9. ASSUME NEW w \in Workers, WorkerRemove(w) PROVE Begins
  <2>1. u.pc = "shutdown" /\ u.mode = "remove" /\ t.pc = "idle"
    BY <1>1, <1>9 DEF WorkerRemove, Idle
  <2> QED
    BY <1>9, <2>1 DEF Begins, WorkerRemove, Files
<1>10. ASSUME NEW m \in {"archive", "purge"}, TeamDelete(m) PROVE Begins
  <2>1. /\ u.pc = "next" /\ u.mode = m /\ t.pc = "idle"
        /\ u.todo = {w \in Workers : team # "none" /\ members[w].status = "active"}
    BY <1>1, <1>10 DEF TeamDelete, StartDelete, Idle
  <2> QED
    BY <1>10, <2>1 DEF Begins, TeamDelete, Files
<1>11. CASE ProbeSession \/ SpawnFails
  <2>1. /\ t.pc \in {"probe", "spawn"} /\ UNCHANGED team
        /\ u = [t EXCEPT !.pc = "relive"] \/ u = [t EXCEPT !.pc = "upsert"] \/ u = [t EXCEPT !.pc = "failed"]
    BY <1>1, <1>11 DEF ProbeSession, SpawnFails, Goto, Files
  <2> QED
    BY <1>3, <2>1 DEF GoesOn, Adding
<1>12. CASE Spawn
  <2>1. PICK g \in Gens : th' = [th EXCEPT !["tool"].pc = "take", !["tool"].g = g]
    BY <1>12 DEF Spawn
  <2>2. u.pc = "take" /\ u.w = t.w /\ u.mode = t.mode /\ u.todo = t.todo
    BY <1>1, <2>1 DEF Thread
  <2>3. t.pc = "spawn" /\ UNCHANGED team
    BY <1>12 DEF Spawn, Files
  <2> QED
    BY <2>2, <2>3 DEF GoesOn, Adding
<1>13. CASE TakeReceiver
  <2>1. t.pc = "take" /\ UNCHANGED team
    BY <1>13 DEF TakeReceiver, Files
  <2>2. CASE session[t.w] = t.g
    <3>1. u = [t EXCEPT !.pc = "ready"]
      BY <1>1, <1>13, <2>2 DEF TakeReceiver
    <3> QED
      BY <1>3, <1>13, <2>2, <3>1 DEF GoesOn
  <2>3. CASE session[t.w] # t.g
    <3>1. u = [t EXCEPT !.pc = "persist", !.g = 0]
      BY <1>1, <1>13, <2>3 DEF TakeReceiver
    <3>2. u.pc = "persist" /\ u.w = t.w /\ u.mode = t.mode /\ u.todo = t.todo
      BY <1>1, <3>1 DEF Thread
    <3> QED
      BY <2>1, <3>2 DEF GoesOn, Adding
  <2> QED
    BY <2>2, <2>3
<1>14. CASE ReadyCheck
  <2>1. t.pc = "ready" /\ UNCHANGED team
    BY <1>14 DEF ReadyCheck, Files
  <2>2. u = [t EXCEPT !.pc = "persist"] \/ u = [t EXCEPT !.pc = "undo"]
    BY <1>1, <1>14 DEF ReadyCheck, Goto
  <2> QED
    BY <1>3, <1>14, <2>1, <2>2 DEF GoesOn, Adding
<1>15. CASE StartLoop
  BY <1>1, <1>15 DEF StartLoop, Idle
<1>16. CASE Load("tool")
  <2>1. u = [t EXCEPT !.file = members]
    BY <1>1, <1>16 DEF Load
  <2> QED
    BY <1>1, <2>1 DEF SameTool, Thread
<1>17. CASE Store("tool")
  <2>1. t.pc \in StoreSteps /\ UNCHANGED team
    BY <1>17 DEF Store
  <2>2. CASE AfterStore("tool") = "idle"
    BY <1>1, <1>17, <2>2 DEF Store, Idle
  <2>3. CASE AfterStore("tool") # "idle"
    <3> DEFINE p == AfterStore("tool")
    <3>1. \/ t.pc = "upsert" /\ p = "starting"
          \/ t.pc \in {"undo", "persist", "relive"} /\ p \in {"failed", "running", "relabel"}
          \/ t.pc = "record" /\ p = "next"
      BY <2>1, <2>3 DEF AfterStore, StoreSteps
    <3>2. u = [t EXCEPT !.file = NoFile, !.pc = p]
      BY <1>1, <1>17, <2>3 DEF Store
    <3> HIDE DEF p
    <3>3. u.pc = p /\ u.w = t.w /\ u.mode = t.mode /\ u.todo = t.todo
      BY <1>1, <3>2 DEF Thread
    <3> QED
      BY <1>17, <2>1, <3>1, <3>3 DEF GoesOn, Adding
  <2> QED
    BY <2>2, <2>3
<1>18. CASE SetSidecar("tool")
  <2>1. t.pc \in {"starting", "failed", "running", "relabel", "stopped"} /\ UNCHANGED <<team, members>>
    BY <1>18 DEF SetSidecar, SidecarSteps
  <2>2. t.pc = "starting" => u = [t EXCEPT !.pc = "spawn"]
    BY <1>1, <1>18 DEF SetSidecar
  <2>3. t.pc = "running" => u = [t EXCEPT !.pc = "loop"] \/ u = Idle
    BY <1>1, <1>18 DEF SetSidecar
  <2>4. t.pc = "stopped" => (t.mode = "remove" /\ u = [t EXCEPT !.pc = "remove"])
                            \/ u = [t EXCEPT !.pc = "record"]
    BY <1>1, <1>18 DEF SetSidecar
  <2>5. t.pc \in {"failed", "relabel"} => u = Idle
    BY <1>1, <1>18 DEF SetSidecar
  <2>6. u = Idle => u.pc = "idle"
    BY DEF Idle
  <2> QED
    BY <1>3, <2>1, <2>2, <2>3, <2>4, <2>5, <2>6 DEF GoesOn, Adding
<1>19. CASE Shutdown("tool") \/ ShutdownFails("tool") \/ ReleaseLoop("tool")
  <2>1. \/ u = [t EXCEPT !.pc = "release"] /\ (Shutdown("tool") \/ ShutdownFails("tool"))
        \/ u = [t EXCEPT !.pc = "stopped"] /\ t.pc = "release"
    BY <1>1, <1>19 DEF Shutdown, ShutdownFails, ReleaseLoop, Goto
  <2> QED
    BY <1>3, <2>1 DEF GoesOn
<1>20. CASE NextMember("tool")
  <2>1. PICK w \in t.todo :
          th' = [th EXCEPT !["tool"].pc = "shutdown", !["tool"].w = w, !["tool"].todo = t.todo \ {w}]
    BY <1>20 DEF NextMember
  <2>2. u.pc = "shutdown" /\ u.w = w /\ u.mode = t.mode /\ u.todo = t.todo \ {w}
    BY <1>1, <2>1 DEF Thread
  <2>3. t.pc = "next"
    BY <1>20 DEF NextMember
  <2> QED
    BY <2>2, <2>3 DEF Takes
<1>21. CASE DeleteTeam("tool")
  BY <1>1, <1>21 DEF DeleteTeam, Idle
<1> QED
  BY <1>2, <1>4, <1>5, <1>6, <1>7, <1>8, <1>9, <1>10, <1>11, <1>12, <1>13, <1>14, <1>15,
     <1>16, <1>17, <1>18, <1>19, <1>20, <1>21 DEF Next

-----------------------------------------------------------------------------
(* What team_delete can rely on.                                           *)

(* A live child nobody failed to stop and whose start has not failed.      *)
Kept(w) == IsAlive(w) /\ session[w] \notin broken /\ child[session[w]].said # "error"

Removing ==
  LET t == th["tool"] IN
  t.pc = "remove" \/ (t.mode = "remove" /\ t.pc \in {"release", "stopped"})
Emptying == th["tool"].pc \in Deleting /\ th["tool"].mode # "remove"

(* A record is marked removed only after its child was stopped.            *)
GoneFirst ==
  LET t == th["tool"] IN
  /\ t.pc = "ready" => session[t.w] \in {0, t.g}
  /\ t.pc = "undo" \/ Removing => ~Kept(t.w)

TeamStands == th["tool"].pc \in Adding => team # "none"

(* As long as no write was lost, such a child has an active record, and so *)
(* has the worker that is about to be spawned.                             *)
KeptIsActive ==
  ~lost =>
    /\ \A w \in Workers : Kept(w) => team # "none" /\ members[w].status = "active"
    /\ th["tool"].pc \in {"starting", "spawn"} => members[th["tool"].w].status = "active"

(* and team_delete, which lists the active records once, has it in hand.   *)
ListIsComplete ==
  ~lost /\ Emptying =>
    \A w \in Workers : Kept(w) =>
      w \in th["tool"].todo \/ (th["tool"].pc = "shutdown" /\ th["tool"].w = w)

Deletable == Serving /\ GoneFirst /\ TeamStands /\ KeptIsActive /\ ListIsComplete

LEMMA DeletableInit == Init => Deletable
<1>1. Init => GoneFirst /\ TeamStands /\ KeptIsActive /\ ListIsComplete
  BY DEF Init, GoneFirst, TeamStands, KeptIsActive, ListIsComplete, Removing, Emptying,
         Deleting, Adding, Kept, IsAlive, Idle
<1> QED
  BY <1>1, ServingInit DEF Deletable

(* Only the spawn of a worker gives it a session or a live child.          *)
LEMMA OnlySpawnKeeps ==
  ASSUME Serving, [Next]_vars, NEW w \in Workers, ~(Spawn /\ th["tool"].w = w)
  PROVE  session'[w] \in {session[w], 0} /\ (Kept(w)' => session'[w] = session[w] /\ Kept(w))
<1>1. RuntimeTyped /\ session[w] \in Gens \cup {0} /\ 0 \notin Gens
  BY TypedParts DEF Serving, RuntimeTyped, Gens
<1>2. CASE Ends
  BY <1>1, <1>2 DEF Ends, Kept, IsAlive
<1>3. CASE Spawn
  <2>1. PICK g \in Gens :
          /\ child[g].of = NoWorker
          /\ child' = [child EXCEPT ![g] = [of |-> th["tool"].w, said |-> "none", alive |-> TRUE]]
          /\ session' = [session EXCEPT ![th["tool"].w] = g]
    BY <1>3 DEF Spawn
  <2>2. session'[w] = session[w]
    BY <1>1, <1>3, <2>1 DEF RuntimeTyped
  <2>3. session[w] # g
    BY <1>1, <2>1 DEF Serving, Kids
  <2>4. session[w] # 0 => child'[session[w]] = child[session[w]]
    BY <1>1, <2>1, <2>3 DEF RuntimeTyped
  <2>5. broken' = broken
    BY <1>3 DEF Spawn
  <2> QED
    BY <2>2, <2>4, <2>5 DEF Kept, IsAlive
<1>4. CASE ServiceRestart
  BY <1>4 DEF ServiceRestart, Kept, IsAlive
<1>5. CASE UNCHANGED <<session, child>> /\ broken \subseteq broken'
  BY <1>5 DEF Kept, IsAlive
<1>6. CASE \/ \E v \in Workers, m \in {"reuse", "overwrite"} : WorkerAdd(v, m)
           \/ \E v \in Workers : WorkerRemove(v)
           \/ \E m \in {"archive", "purge"} : TeamDelete(m)
           \/ \E o \in BOOLEAN : TeamCreate(o)
           \/ SpawnFails \/ TakeReceiver \/ ReadyCheck \/ StartLoop
           \/ \E a \in Threads : Load(a) \/ Store(a) \/ SetSidecar(a) \/ NextMember(a) \/ DeleteTeam(a)
           \/ LeadSweep \/ TickList \/ TickProbe \/ TickFlip \/ \E g \in Gens : Backfill(g)
           \/ OwnerDies \/ UNCHANGED vars
  <2>1. UNCHANGED <<session, child>> /\ broken \subseteq broken'
    BY <1>6 DEF WorkerAdd, WorkerRemove, TeamDelete, TeamCreate, SpawnFails, TakeReceiver, ReadyCheck,
         StartLoop, Load, Store, SetSidecar, NextMember, DeleteTeam, LeadSweep, TickList, TickProbe,
         TickFlip, Backfill, OwnerDies, Runtime, vars
  <2> QED
    BY <1>5, <2>1
<1> QED
  BY <1>2, <1>3, <1>4, <1>6, EndServes DEF Next

LEMMA FitsNext == Serving' => ThreadsFit'
<1>1. Serving => ThreadsFit
  BY TypedParts DEF Serving
<1> QED
  BY <1>1, PTL

LEMMA GoneFirstStep ==
  ASSUME Deletable, [Next]_vars
  PROVE  GoneFirst'
<1> DEFINE t == th["tool"]
           u == th'["tool"]
<1>1. /\ t \in Thread
      /\ t.pc \notin {"idle", "next"} => t.w \in Workers
      /\ t.pc \in {"next", "record"} => t.mode # "remove"
      /\ t.pc = "ready" => t.g # 0
  BY TypedParts DEF Deletable, Serving, ThreadsFit
<1>2. u.pc # "take" => ~Spawn
  BY <1>1, TypedParts DEF Spawn, Deletable, Serving, ThreadsFit, Thread
<1>3. ASSUME NEW w \in Workers, w = t.w, u.pc # "take"
      PROVE  session'[w] \in {session[w], 0} /\ (Kept(w)' => session'[w] = session[w] /\ Kept(w))
  BY <1>2, <1>3, OnlySpawnKeeps DEF Deletable
<1>4. SUFFICES ASSUME NEW w \in Workers, w = u.w
               PROVE  /\ u.pc = "ready" => session'[w] \in {0, u.g}
                      /\ u.pc = "undo" \/ u.pc = "remove" \/ (u.mode = "remove" /\ u.pc \in {"release", "stopped"})
                           => ~Kept(w)'
  <2>1. ThreadsFit'
    BY ServingStep, FitsNext DEF Deletable
  <2>2. u.pc \notin {"idle", "next"} => u.w \in Workers
    BY <2>1 DEF ThreadsFit
  <2>3. u.pc = "ready" => session'[u.w] \in {0, u.g}
    BY <1>4, <2>2
  <2>4. ASSUME u.pc = "undo" \/ u.pc = "remove" \/ (u.mode = "remove" /\ u.pc \in {"release", "stopped"})
        PROVE  ~Kept(t.w)'
    BY <1>4, <2>2, <2>4 DEF Kept, IsAlive
  <2> QED
    BY <2>3, <2>4 DEF GoneFirst, Removing, Kept, IsAlive
<1>5. CASE SameTool
  <2>1. w = t.w /\ u.pc = t.pc /\ u.g = t.g /\ u.mode = t.mode
    BY <1>4, <1>5 DEF SameTool
  <2>2. CASE u.pc = "take"
    BY <2>2
  <2>3. CASE u.pc # "take"
    <3>1. t.pc = "ready" => session[w] \in {0, t.g}
      BY <2>1 DEF Deletable, GoneFirst
    <3>2. t.pc = "undo" \/ t.pc = "remove" \/ (t.mode = "remove" /\ t.pc \in {"release", "stopped"}) => ~Kept(w)
      BY <2>1 DEF Deletable, GoneFirst, Removing
    <3> QED
      BY <1>3, <2>1, <2>3, <3>1, <3>2
  <2> QED
    BY <2>2, <2>3
<1>6. CASE u.pc = "idle" \/ Begins \/ Takes
  BY <1>6 DEF Begins, Takes
<1>7. CASE GoesOn
  <2>1. u.w = t.w /\ u.mode = t.mode /\ w = t.w
    BY <1>4, <1>7 DEF GoesOn
  <2>2. CASE u.pc = "ready"
    <3>1. u.g = t.g /\ session[t.w] = t.g /\ t.pc = "take"
      BY <1>7, <2>2 DEF GoesOn, TakeReceiver
    <3> QED
      BY <1>3, <2>1, <2>2, <3>1
  <2>3. CASE u.pc = "undo"
    <3>1. ReadyCheck /\ t.pc = "ready"
      BY <1>7, <2>3 DEF GoesOn, ReadyCheck
    <3>2. child[t.g].said # "ready" /\ (child[t.g].said # "none" \/ ~child[t.g].alive)
      <4>1. child[t.g].said = "ready" => u.pc = "persist"
        BY <1>1, <3>1, TypedParts DEF ReadyCheck, Goto, Thread, Deletable, Serving, ThreadsFit
      <4> QED
        BY <2>3, <3>1, <4>1 DEF ReadyCheck
    <3>3. child[t.g].said \in {"none", "ready", "error"}
      BY <1>1, <3>1, TypedParts DEF Deletable, Serving, Thread, RuntimeTyped, Child
    <3>4. session[t.w] \in {0, t.g}
      BY <3>1 DEF Deletable, GoneFirst
    <3>5. ~Kept(w)
      BY <2>1, <3>2, <3>3, <3>4 DEF Kept, IsAlive
    <3> QED
      BY <1>3, <2>1, <2>3, <3>5
  <2>4. CASE u.pc = "release"
    <3>1. Shutdown("tool") \/ ShutdownFails("tool")
      BY <1>7, <2>4 DEF GoesOn, Adding
    <3>2. t.pc = "shutdown" /\ t.w \in Workers
      BY <1>1, <3>1 DEF Shutdown, ShutdownFails
    <3>3. session'[w] = 0 \/ session'[w] \in broken'
      BY <2>1, <3>1, <3>2, TypedParts DEF Shutdown, ShutdownFails, Deletable, Serving, RuntimeTyped
    <3> QED
      BY <2>1, <2>4, <3>3 DEF Kept, IsAlive
  <2>5. CASE u.pc \in {"stopped", "remove"}
    <3>1. \/ t.pc = "release" /\ u.pc = "stopped"
          \/ t.pc = "stopped" /\ u.pc = "remove" /\ t.mode = "remove"
      BY <1>7, <2>5 DEF GoesOn, Adding
    <3>2. t.mode = "remove" /\ t.pc \in {"release", "stopped"} => ~Kept(w)
      BY <2>1 DEF Deletable, GoneFirst, Removing
    <3> QED
      BY <1>3, <2>1, <2>5, <3>1, <3>2
  <2> QED
    BY <2>2, <2>3, <2>4, <2>5
<1> QED
  BY <1>5, <1>6, <1>7, ToolSteps DEF Deletable, Serving

LEMMA TeamStandsStep ==
  ASSUME Deletable, [Next]_vars
  PROVE  TeamStands'
<1> DEFINE t == th["tool"]
           u == th'["tool"]
<1>1. th["lead"].pc # "idle" => th["lead"].mode = "archive"
  BY TypedParts DEF Deletable, Serving, ThreadsFit
<1>2. th["loop"].pc \in {"idle", "backfill"}
  BY TypedParts DEF Deletable, Serving, ThreadsFit
<1>3. UNCHANGED team \/ team' # "none" \/ DeleteTeam("tool")
  <2>1. \A a \in Threads : DeleteTeam(a) /\ a # "tool" => team' # "none" \/ UNCHANGED team
    BY <1>1, <1>2 DEF DeleteTeam
  <2>2. \A o \in BOOLEAN : TeamCreate(o) => team' # "none"
    BY DEF TeamCreate
  <2>3. Next => UNCHANGED team \/ team' # "none" \/ DeleteTeam("tool")
    BY <2>1, <2>2 DEF Next, WorkerAdd, WorkerRemove, TeamDelete, ProbeSession, SpawnFails, Spawn,
       TakeReceiver, ReadyCheck, StartLoop, Load, Store, SetSidecar, Shutdown, ShutdownFails,
       ReleaseLoop, NextMember, LeadSweep, TickList, TickProbe, TickFlip, ChildSpeaks, ChildDies,
       Backfill, LoopExits, LoopFails, OwnerDies, ServiceRestart, Files
  <2> QED
    BY <2>3 DEF vars
<1>4. DeleteTeam("tool") => t.pc = "next" /\ u.pc = "idle"
  BY TypedParts DEF DeleteTeam, Deletable, Serving, ThreadsFit, Idle
<1>5. u.pc \in Adding => t.pc \in Adding \/ (t.pc = "idle" /\ Begins)
  <2>1. SameTool \/ u.pc = "idle" \/ Begins \/ GoesOn \/ Takes
    BY ToolSteps DEF Deletable, Serving
  <2>2. SameTool => u.pc = t.pc
    BY DEF SameTool
  <2>3. Begins => t.pc = "idle"
    BY DEF Begins
  <2>4. GoesOn /\ u.pc \in Adding => t.pc \in Adding
    BY DEF GoesOn, Adding, TakeReceiver, ReadyCheck
  <2>5. Takes => u.pc = "shutdown"
    BY DEF Takes
  <2>6. "idle" \notin Adding /\ "shutdown" \notin Adding
    BY DEF Adding
  <2> QED
    BY <2>1, <2>2, <2>3, <2>4, <2>5, <2>6
<1>6. t.pc \in Adding => team # "none"
  BY DEF Deletable, TeamStands
<1>7. Begins /\ u.pc \in Adding => team' # "none"
  BY DEF Begins, Adding
<1> QED
  BY <1>3, <1>4, <1>5, <1>6, <1>7 DEF TeamStands, Adding

(* While no write is lost, an active record is removed only by the steps   *)
(* of the tool thread that mean to.                                        *)
LEMMA RecordStays ==
  ASSUME Deletable, [Next]_vars, ~lost', NEW w \in Workers, team # "none", members[w].status = "active"
  PROVE  /\ ~lost
         /\ \/ team' # "none" /\ members'[w].status = "active"
            \/ Store("tool") /\ th["tool"].pc \in {"undo", "remove"} /\ th["tool"].w = w
            \/ DeleteTeam("tool")
            \/ TeamCreate(TRUE)
<1>1. /\ th \in [Threads -> Thread] /\ members \in RecordFiles
      /\ th["lead"].pc \in Deleting \cup {"idle"} /\ th["loop"].pc \in {"idle", "backfill"}
      /\ th["lead"].pc # "idle" => th["lead"].mode = "archive"
      /\ \A a \in Threads : th[a].pc \notin {"idle", "next"} => th[a].w \in Workers
  BY TypedParts DEF Deletable, Serving, ThreadsFit, FilesTyped
<1>2. ASSUME NEW a \in Threads, Store(a)
      PROVE  /\ ~lost /\ UNCHANGED team
             /\ \/ members'[w].status = "active"
                \/ a = "tool" /\ th[a].pc \in {"undo", "remove"} /\ th[a].w = w
  <2> DEFINE t == th[a]
  <2>1. t.pc \in StoreSteps /\ t.w \in Workers /\ UNCHANGED team
    BY <1>1, <1>2 DEF Store, StoreSteps
  <2>2. CASE UNCHANGED <<members, lost>>
    BY <2>1, <2>2
  <2>3. CASE SaveFile(t)
    <3>1. ~lost /\ t.file = members
      BY <2>3 DEF SaveFile
    <3>2. members' = [members EXCEPT ![t.w] = Changed(t, members[t.w])]
      BY <2>3, <3>1 DEF SaveFile
    <3>3. CASE t.w # w
      BY <1>1, <2>1, <3>1, <3>2, <3>3 DEF RecordFiles
    <3>4. CASE t.w = w
      <4>1. members'[w] = Changed(t, members[w])
        BY <1>1, <3>2, <3>4 DEF RecordFiles
      <4>2. members[w] \in MemberRecord /\ members[w] # NoRecord /\ t \in Thread
        BY <1>1 DEF RecordFiles, NoRecord
      <4>3. t.pc = "upsert" => Changed(t, members[w]).status = "active"
        BY DEF Changed, Upserted
      <4>4. t.pc \notin {"upsert", "undo", "remove"} => Changed(t, members[w]).status = "active"
        BY <2>1, <4>2, ChangedIsRecord
      <4>5. t.pc \in {"undo", "remove"} => a = "tool"
        BY <1>1 DEF Deleting
      <4> QED
        BY <2>1, <3>1, <3>4, <4>1, <4>3, <4>4, <4>5
    <3> QED
      BY <3>3, <3>4
  <2> QED
    BY <1>2, <2>2, <2>3 DEF Store
<1>3. ASSUME NEW a \in Threads, DeleteTeam(a), a # "tool"
      PROVE  ~lost /\ team' # "none" /\ members' = members
  <2>1. a = "lead" /\ th[a].mode = "archive"
    BY <1>1, <1>3 DEF DeleteTeam
  <2> QED
    BY <1>3, <2>1 DEF DeleteTeam
<1>4. TeamCreate(FALSE) => ~lost /\ team' # "none" /\ members' = members
  BY DEF TeamCreate
<1>5. DeleteTeam("tool") \/ TeamCreate(TRUE) => ~lost
  BY DEF DeleteTeam, TeamCreate
<1>6. CASE UNCHANGED <<team, members, lost>>
  BY <1>6
<1>7. CASE Next /\ ~(\E a \in Threads : Store(a) \/ DeleteTeam(a)) /\ ~(\E o \in BOOLEAN : TeamCreate(o))
  <2>1. UNCHANGED <<team, members, lost>>
    BY <1>7 DEF Next, WorkerAdd, WorkerRemove, TeamDelete, ProbeSession, SpawnFails, Spawn,
       TakeReceiver, ReadyCheck, StartLoop, Load, SetSidecar, Shutdown, ShutdownFails,
       ReleaseLoop, NextMember, LeadSweep, TickList, TickProbe, TickFlip, ChildSpeaks, ChildDies,
       Backfill, LoopExits, LoopFails, OwnerDies, ServiceRestart, Files
  <2> QED
    BY <1>6, <2>1
<1>8. CASE UNCHANGED vars
  BY <1>6, <1>8 DEF vars
<1> QED
  BY <1>2, <1>3, <1>4, <1>5, <1>7, <1>8

LEMMA KeptIsActiveStep ==
  ASSUME Deletable, [Next]_vars
  PROVE  KeptIsActive'
<1> DEFINE t == th["tool"]
           u == th'["tool"]
<1> SUFFICES ASSUME ~lost'
             PROVE  /\ \A w \in Workers : Kept(w)' => team' # "none" /\ members'[w].status = "active"
                    /\ u.pc \in {"starting", "spawn"} => members'[u.w].status = "active"
  BY DEF KeptIsActive
<1>1. /\ t \in Thread
      /\ t.pc \notin {"idle", "next"} => t.w \in Workers
      /\ t.pc \in {"next", "record"} => t.mode # "remove"
  BY TypedParts DEF Deletable, Serving, ThreadsFit
<1>2. ~lost
  <2>1. ~lost \/ UNCHANGED lost
    BY DEF Next, vars, WorkerAdd, WorkerRemove, TeamDelete, TeamCreate, ProbeSession, SpawnFails, Spawn,
       TakeReceiver, ReadyCheck, StartLoop, Load, Store, SaveFile, SetSidecar, Shutdown, ShutdownFails,
       ReleaseLoop, NextMember, DeleteTeam, LeadSweep, TickList, TickProbe, TickFlip, ChildSpeaks,
       ChildDies, Backfill, LoopExits, LoopFails, OwnerDies, ServiceRestart, Files
  <2> QED
    BY <2>1
<1>3. DeleteTeam("tool") => t.pc = "next" /\ t.todo = {} /\ Emptying
  BY <1>1 DEF DeleteTeam, Emptying, Deleting
<1>4. ASSUME NEW w \in Workers, Kept(w)'
      PROVE  team' # "none" /\ members'[w].status = "active"
  <2>1. CASE Spawn /\ t.w = w
    <3>1. t.pc = "spawn" /\ UNCHANGED <<team, members>>
      BY <2>1 DEF Spawn, Files
    <3> QED
      BY <1>2, <2>1, <3>1 DEF Deletable, TeamStands, KeptIsActive, Adding
  <2>2. CASE ~(Spawn /\ t.w = w)
    <3>1. Kept(w) /\ session'[w] = session[w]
      BY <1>4, <2>2, OnlySpawnKeeps DEF Deletable
    <3>2. team # "none" /\ members[w].status = "active"
      BY <1>2, <3>1 DEF Deletable, KeptIsActive
    <3>3. ~(t.pc \in {"undo", "remove"} /\ t.w = w)
      BY <3>1 DEF Deletable, GoneFirst, Removing
    <3>4. ~DeleteTeam("tool")
      BY <1>2, <1>3, <3>1 DEF Deletable, ListIsComplete
    <3>5. ~TeamCreate(TRUE)
      <4>1. TeamCreate(TRUE) => session[w] \in broken' \/ session[w] = 0
        BY DEF TeamCreate
      <4> QED
        BY <1>4, <3>1, <4>1 DEF Kept, IsAlive
    <3> QED
      BY <3>2, <3>3, <3>4, <3>5, RecordStays
  <2> QED
    BY <2>1, <2>2
<1>5. ASSUME u.pc \in {"starting", "spawn"}
      PROVE  members'[u.w].status = "active"
  <2>1. CASE SameTool
    <3>1. t.pc \in {"starting", "spawn"} /\ u.w = t.w /\ t.w \in Workers
      BY <1>1, <1>5, <2>1 DEF SameTool
    <3>2. team # "none" /\ members[t.w].status = "active"
      BY <1>2, <3>1 DEF Deletable, TeamStands, KeptIsActive, Adding
    <3>3. ~DeleteTeam("tool") /\ ~TeamCreate(TRUE)
      BY <3>1 DEF DeleteTeam, TeamCreate
    <3> QED
      BY <3>1, <3>2, <3>3, RecordStays
  <2>2. CASE GoesOn
    <3>1. u.w = t.w
      BY <2>2 DEF GoesOn
    <3>2. \/ t.pc = "upsert" /\ Store("tool")
          \/ t.pc = "starting" /\ UNCHANGED <<team, members>>
      BY <1>5, <2>2 DEF GoesOn, Adding
    <3>3. CASE t.pc = "upsert" /\ Store("tool")
      <4>1. members' = [t.file EXCEPT ![t.w] = Changed(t, t.file[t.w])] /\ t.w \in Workers
        BY <1>1, <3>3 DEF Store, SaveFile
      <4>2. t.file \in RecordFiles
        BY <1>1, <3>3 DEF Store, Thread
      <4>3. Changed(t, t.file[t.w]).status = "active"
        BY <3>3 DEF Changed, Upserted
      <4> QED
        BY <3>1, <4>1, <4>2, <4>3 DEF RecordFiles
    <3>4. CASE t.pc = "starting" /\ UNCHANGED <<team, members>>
      BY <1>2, <3>1, <3>4 DEF Deletable, KeptIsActive
    <3> QED
      BY <3>2, <3>3, <3>4
  <2>3. ~Begins /\ ~Takes
    BY <1>5 DEF Begins, Takes
  <2> QED
    BY <1>5, <2>1, <2>2, <2>3, ToolSteps DEF Deletable, Serving
<1> QED
  BY <1>4, <1>5

LEMMA ListIsCompleteStep ==
  ASSUME Deletable, [Next]_vars
  PROVE  ListIsComplete'
<1> DEFINE t == th["tool"]
           u == th'["tool"]
<1> SUFFICES ASSUME ~lost', u.pc \in Deleting, u.mode # "remove", NEW w \in Workers, Kept(w)'
             PROVE  w \in u.todo \/ (u.pc = "shutdown" /\ u.w = w)
  BY DEF ListIsComplete, Emptying
<1>1. /\ t \in Thread
      /\ t.pc \in {"next", "record"} => t.mode # "remove"
  BY TypedParts DEF Deletable, Serving, ThreadsFit
<1>2. ~lost
  <2>1. ~lost \/ UNCHANGED lost
    BY DEF Next, vars, WorkerAdd, WorkerRemove, TeamDelete, TeamCreate, ProbeSession, SpawnFails, Spawn,
       TakeReceiver, ReadyCheck, StartLoop, Load, Store, SaveFile, SetSidecar, Shutdown, ShutdownFails,
       ReleaseLoop, NextMember, DeleteTeam, LeadSweep, TickList, TickProbe, TickFlip, ChildSpeaks,
       ChildDies, Backfill, LoopExits, LoopFails, OwnerDies, ServiceRestart, Files
  <2> QED
    BY <2>1
<1>3. ~Spawn
  <2>1. Spawn => u.pc = "take"
    BY TypedParts DEF Spawn, Deletable, Serving, ThreadsFit, Thread
  <2> QED
    BY <2>1 DEF Deleting
<1>4. Kept(w) /\ session'[w] = session[w] /\ session[w] # 0
  BY <1>3, OnlySpawnKeeps DEF Deletable, Kept, IsAlive
<1>5. ASSUME t.pc \in Deleting, t.mode # "remove" PROVE w \in t.todo \/ (t.pc = "shutdown" /\ t.w = w)
  BY <1>2, <1>4, <1>5 DEF Deletable, ListIsComplete, Emptying
<1>6. CASE SameTool
  BY <1>5, <1>6 DEF SameTool
<1>7. CASE Begins
  <2>1. u.todo = {v \in Workers : team # "none" /\ members[v].status = "active"}
    BY <1>7 DEF Begins, Deleting
  <2> QED
    BY <1>2, <1>4, <2>1 DEF Deletable, KeptIsActive
<1>8. CASE Takes
  BY <1>1, <1>5, <1>8 DEF Takes, Deleting
<1>9. CASE GoesOn
  <2>1. u.todo = t.todo /\ u.w = t.w /\ u.mode = t.mode
    BY <1>9 DEF GoesOn
  <2>2. CASE Shutdown("tool") \/ ShutdownFails("tool")
    <3>1. t.pc = "shutdown"
      BY <2>2 DEF Shutdown, ShutdownFails
    <3>2. t.w # w
      BY <1>4, <2>2, TypedParts DEF Shutdown, ShutdownFails, Deletable, Serving, RuntimeTyped, Kept
    <3> QED
      BY <1>5, <2>1, <3>1, <3>2 DEF Deleting
  <2>3. CASE t.pc \in {"release", "stopped", "record"}
    BY <1>5, <2>1, <2>3 DEF Deleting
  <2> QED
    BY <1>9, <2>2, <2>3 DEF GoesOn, Adding, Deleting
<1> QED
  BY <1>6, <1>7, <1>8, <1>9, ToolSteps DEF Deletable, Serving, Deleting

LEMMA DeletableStep == Deletable /\ [Next]_vars => Deletable'
BY ServingStep, GoneFirstStep, TeamStandsStep, KeptIsActiveStep, ListIsCompleteStep DEF Deletable

(* When team_delete ends, no child of the team lives but those whose       *)
(* shutdown or start failed or whose team was overwritten, unless a write  *)
(* of members.json was lost: for any number of workers, with both          *)
(* watchdogs, the loops and worker_add's own failures around it.           *)
THEOREM DeleteStops == Spec => DeleteStopsWorkers
<1>1. ASSUME Deletable, [Next]_vars, th["tool"].pc = "next", th'["tool"].pc = "idle", ~lost,
             NEW w \in Workers, IsAlive(w)'
      PROVE  session[w] \in broken \/ child[session[w]].said = "error"
  <2> DEFINE t == th["tool"]
             u == th'["tool"]
  <2>1. th \in [Threads -> Thread] /\ t.mode # "remove"
    BY <1>1, TypedParts DEF Deletable, Serving, ThreadsFit
  <2>2. CASE UNCHANGED vars \/ TickList \/ TickProbe \/ TickFlip \/ OwnerDies
             \/ \E g \in Gens : ChildSpeaks(g) \/ ChildDies(g) \/ LoopExits(g) \/ LoopFails(g)
    BY <1>1, <2>2 DEF vars, TickList, TickProbe, TickFlip, OwnerDies, ChildSpeaks, ChildDies, LoopExits, LoopFails
  <2>3. CASE LeadSweep \/ \E g \in Gens : Backfill(g)
    BY <1>1, <2>1, <2>3 DEF LeadSweep, StartDelete, Backfill
  <2>4. CASE ServiceRestart
    BY <1>1, <2>4 DEF ServiceRestart, IsAlive
  <2>5. ASSUME NEW a \in Threads, a # "tool",
               \/ Load(a) \/ Store(a) \/ SetSidecar(a) \/ Shutdown(a) \/ ShutdownFails(a)
               \/ ReleaseLoop(a) \/ NextMember(a) \/ DeleteTeam(a)
        PROVE  FALSE
    <3>1. u = t
      BY <2>1, <2>5 DEF Load, Store, SetSidecar, Shutdown, ShutdownFails, ReleaseLoop, NextMember, DeleteTeam, Goto
    <3> QED
      BY <1>1, <3>1
  <2>6. /\ ~Load("tool") /\ ~Store("tool") /\ ~SetSidecar("tool") /\ ~Shutdown("tool")
        /\ ~ShutdownFails("tool") /\ ~ReleaseLoop("tool")
    BY <1>1 DEF Load, Store, SetSidecar, Shutdown, ShutdownFails, ReleaseLoop, StoreSteps, SidecarSteps
  <2>7. ~NextMember("tool")
    <3> SUFFICES ASSUME NextMember("tool")
                 PROVE  FALSE
      OBVIOUS
    <3>1. PICK v \in t.todo :
            th' = [th EXCEPT !["tool"].pc = "shutdown", !["tool"].w = v, !["tool"].todo = t.todo \ {v}]
      BY DEF NextMember
    <3> QED
      BY <1>1, <2>1, <3>1 DEF Thread
  <2>8. /\ ~ProbeSession /\ ~SpawnFails /\ ~Spawn /\ ~TakeReceiver /\ ~ReadyCheck /\ ~StartLoop
        /\ \A v \in Workers, m \in {"reuse", "overwrite"} : ~WorkerAdd(v, m)
        /\ \A v \in Workers : ~WorkerRemove(v)
        /\ \A m \in {"archive", "purge"} : ~TeamDelete(m)
        /\ \A o \in BOOLEAN : ~TeamCreate(o)
    BY <1>1 DEF ProbeSession, SpawnFails, Spawn, TakeReceiver, ReadyCheck, StartLoop, WorkerAdd,
                WorkerRemove, TeamDelete, TeamCreate
  <2>9. CASE DeleteTeam("tool")
    <3>1. t.todo = {} /\ UNCHANGED <<session, child>>
      BY <2>9 DEF DeleteTeam, Runtime
    <3>2. IsAlive(w)
      BY <1>1, <3>1 DEF IsAlive
    <3>3. ~Kept(w)
      BY <1>1, <2>1, <3>1 DEF Deletable, ListIsComplete, Emptying, Deleting
    <3> QED
      BY <3>2, <3>3 DEF Kept
  <2> QED
    BY <1>1, <2>2, <2>3, <2>4, <2>5, <2>6, <2>7, <2>8, <2>9 DEF Next
<1>2. Deletable /\ [Next]_vars =>
        [th["tool"].pc = "next" /\ th'["tool"].pc = "idle" /\ ~lost =>
           \A w \in Workers : IsAlive(w)' =>
             session[w] \in broken \/ child[session[w]].said = "error"]_vars
  BY <1>1
<1> QED
  BY <1>2, DeletableInit, DeletableStep, PTL DEF Spec, DeleteStopsWorkers

=============================================================================
