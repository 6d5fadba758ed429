----------------------------- MODULE LeadPending -----------------------------
(***************************************************************************)
(* The lead-notification queue of one team.  A request thread of the       *)
(* service saves a message addressed to the lead and then appends an entry *)
(* to <team>/lead_pending.jsonl under .lead_pending.lock.  Hook processes  *)
(* of the lead's Claude Code (CC) drain that file without taking the lock: *)
(* rename it to a private name, read it, remove it, and inject what they   *)
(* read into the lead's context.  A Stop hook polls in the background and  *)
(* wakes an idle CC; a mid-turn hook runs after a tool call.  Stop hooks   *)
(* of one CC replace one another: a new one kills its siblings and writes  *)
(* its pid to stop-hook-<cc>.lock, an older one that survives steps down   *)
(* when the lock file names somebody else.                                 *)
(*                                                                         *)
(* A file is an inode, named by the append that created it.  path is the   *)
(* inode lead_pending.jsonl names, fd the inode an append has open, tmp    *)
(* the inode a hook has renamed and not read.                              *)
(***************************************************************************)
EXTENDS JsonLines

CONSTANTS Msgs,       \* messages addressed to the lead, one send each
          StopHooks,  \* slots for Stop-hook processes (async wake)
          MidHooks,   \* slots for PostToolUse-hook processes (mid turn)
          None,       \* no file, no lock holder
          MaxFaults   \* bound on crashes, I/O errors, kills, failed starts

Hooks  == StopHooks \cup MidHooks
Causes == {"late", "joined", "undecodable", "swept", "killed", "no_reader"}

ASSUME LeadPendingConstants ==
    /\ MaxFaults \in Nat
    /\ StopHooks \cap MidHooks = {}
    /\ None \notin Msgs \cup Hooks
    /\ Msgs \cap Broken = {}
    /\ Malformed # Undecodable

VARIABLES
    saved,     \* messages in the team's transcript
    wpc,       \* where each message's send_inner call is
    lock,      \* the send that holds .lead_pending.lock, or None
    fd,        \* inode an append has open
    disk,      \* inode -> contents
    path,      \* inode lead_pending.jsonl names, or None
    hpc,       \* where each hook process is
    tmp,       \* inode a hook renamed and has not read
    found,     \* lines a hook has read and not injected
    injected,  \* what the lead's context has received, in order
    owner,     \* Stop hook named by stop-hook-<cc>.lock, or None
    cc,        \* the lead's CC: in a turn, idle, or gone
    faults,    \* number of faults so far
    lost       \* history: entries gone, each with the step that lost it

writer == <<saved, wpc, lock, fd>>
hook   == <<hpc, tmp, found>>
vars   == <<saved, wpc, lock, fd, disk, path, hpc, tmp, found, injected,
            owner, cc, faults, lost>>

WriterPc == {"new", "saved", "locked", "opened", "written", "done", "failed"}
HookPc   == {"off", "start", "claim", "poll", "renamed", "check", "grace",
             "renamed2", "inject"}

TypeOK ==
    /\ saved \subseteq Msgs
    /\ wpc \in [Msgs -> WriterPc]
    /\ lock \in Msgs \cup {None}
    /\ fd \in [Msgs -> Msgs \cup {None}]
    /\ disk \in [Msgs -> JsonFile(Msgs)]
    /\ path \in Msgs \cup {None}
    /\ hpc \in [Hooks -> HookPc]
    /\ tmp \in [Hooks -> Msgs \cup {None}]
    /\ found \in [Hooks -> Seq(Msgs \cup Broken)]
    /\ injected \in Seq(Msgs \cup Broken)
    /\ owner \in StopHooks \cup {None}
    /\ cc \in {"turn", "idle", "gone"}
    /\ faults \in 0..MaxFaults
    /\ lost \subseteq Msgs \X Causes

Init ==
    /\ saved = {}
    /\ wpc = [m \in Msgs |-> "new"]
    /\ lock = None
    /\ fd = [m \in Msgs |-> None]
    /\ disk = [m \in Msgs |-> EmptyFile]
    /\ path = None
    /\ hpc = [h \in Hooks |-> "off"]
    /\ tmp = [h \in Hooks |-> None]
    /\ found = [h \in Hooks |-> <<>>]
    /\ injected = <<>>
    /\ owner = None
    /\ cc = "turn"
    /\ faults = 0
    /\ lost = {}

Fault == faults < MaxFaults /\ faults' = faults + 1

LostBy(S, cause) == S \X {cause}

-----------------------------------------------------------------------------
(* The sender: the tail of MessageService::send_inner and maybe_write.     *)

(* message_store.save returns Ok.                                          *)
SaveMessage(m) ==
    /\ wpc[m] = "new"
    /\ saved' = saved \cup {m}
    /\ wpc' = [wpc EXCEPT ![m] = "saved"]
    /\ UNCHANGED <<lock, fd, disk, path, hook, injected, owner, cc, faults,
                   lost>>

(* Mutant of LockFree: the append does not take the lock.                 *)
LockIgnored == TRUE

LockFree == lock = None

AcquireLock(m) ==
    /\ wpc[m] = "saved"
    /\ LockFree
    /\ lock' = m
    /\ wpc' = [wpc EXCEPT ![m] = "locked"]
    /\ UNCHANGED <<saved, fd, disk, path, hook, injected, owner, cc, faults,
                   lost>>

(* create(true).append(true).open(path): the named inode, or a new one.    *)
OpenPending(m) ==
    /\ wpc[m] = "locked"
    /\ path' = IF path = None THEN m ELSE path
    /\ fd' = [fd EXCEPT ![m] = path']
    /\ wpc' = [wpc EXCEPT ![m] = "opened"]
    /\ UNCHANGED <<saved, lock, disk, hook, injected, owner, cc, faults,
                   lost>>

(* Some hook will still read inode f.                                      *)
Reachable(f) == f = path \/ \E h \in Hooks : tmp[h] = f

(* The entry of an unterminated last line: bytes added now destroy it.     *)
TailEntry(file) ==
    IF file.eol THEN {} ELSE {file.lines[Len(file.lines)]} \ Broken

AppendLine(m) ==
    LET file == disk[fd[m]]
    IN  /\ wpc[m] = "opened"
        /\ disk' = [disk EXCEPT ![fd[m]] = WriteLine(file, m)]
        /\ lost' = lost \cup
                     (IF file.eol THEN {} ELSE LostBy({m}, "joined")) \cup
                     (IF Reachable(fd[m])
                      THEN LostBy(TailEntry(file), "joined")
                      ELSE LostBy({m}, "late"))
        /\ wpc' = [wpc EXCEPT ![m] = "written"]
        /\ UNCHANGED <<saved, lock, fd, path, hook, injected, owner, cc,
                       faults>>

(* The newline is written, the handle closed and the lock released.        *)
FinishAppend(m) ==
    /\ wpc[m] = "written"
    /\ disk' = [disk EXCEPT ![fd[m]] = WriteNewline(@)]
    /\ lock' = None
    /\ wpc' = [wpc EXCEPT ![m] = "done"]
    /\ UNCHANGED <<saved, fd, path, hook, injected, owner, cc, faults, lost>>

(* What an interrupted write leaves in the file.                           *)
TornFiles(file) ==
    {file} \cup {WriteTorn(file, mark) : mark \in Broken}

(* create_dir_all, the lock, the open or the write fails: logged, and the  *)
(* send still returns Ok.                                                  *)
AppendFails(m) ==
    /\ Fault
    /\ wpc[m] \in {"saved", "locked", "opened", "written"}
    /\ IF wpc[m] = "opened"
       THEN \E torn \in TornFiles(disk[fd[m]]) :
              /\ disk' = [disk EXCEPT ![fd[m]] = torn]
              /\ lost' = lost \cup
                   (IF torn # disk[fd[m]] /\ Reachable(fd[m])
                    THEN LostBy(TailEntry(disk[fd[m]]), "joined") ELSE {})
       ELSE UNCHANGED <<disk, lost>>
    /\ lock' = IF lock = m THEN None ELSE lock
    /\ wpc' = [wpc EXCEPT ![m] = "failed"]
    /\ UNCHANGED <<saved, fd, path, hook, injected, owner, cc>>

(* The service process stops: sends in flight end where they are.          *)
ServiceCrash ==
    /\ Fault
    /\ IF lock # None /\ wpc[lock] = "opened"
       THEN \E torn \in TornFiles(disk[fd[lock]]) :
              /\ disk' = [disk EXCEPT ![fd[lock]] = torn]
              /\ lost' = lost \cup
                   (IF torn # disk[fd[lock]] /\ Reachable(fd[lock])
                    THEN LostBy(TailEntry(disk[fd[lock]]), "joined") ELSE {})
       ELSE UNCHANGED <<disk, lost>>
    /\ lock' = None
    /\ wpc' = [m \in Msgs |->
                 IF wpc[m] \in {"new", "done"} THEN wpc[m] ELSE "failed"]
    /\ UNCHANGED <<saved, fd, path, hook, injected, owner, cc>>

-----------------------------------------------------------------------------
(* The hooks: run_async_wake_hook, run_mid_turn_hook, drain_pending_file.  *)

Running(h) == hpc[h] # "off"

(* CC ends its turn and spawns a Stop hook.                                *)
StopEvent(h) ==
    /\ cc = "turn"
    /\ ~Running(h)
    /\ \A g \in MidHooks : ~Running(g)
    /\ cc' = "idle"
    /\ hpc' = [hpc EXCEPT ![h] = "start"]
    /\ UNCHANGED <<writer, disk, path, tmp, found, injected, owner, faults,
                   lost>>

(* The user starts a turn while older Stop hooks keep polling.             *)
UserPrompt ==
    /\ cc = "idle"
    /\ cc' = "turn"
    /\ UNCHANGED <<writer, disk, path, hook, injected, owner, faults, lost>>

(* No healthy runtime, or /lead-pending/my-teams fails: exit 1.            *)
StartFails(h) ==
    /\ Fault
    /\ hpc[h] = "start"
    /\ hpc' = [hpc EXCEPT ![h] = "off"]
    /\ UNCHANGED <<writer, disk, path, tmp, found, injected, owner, cc, lost>>

(* What the processes in K hold in memory or under a private file name.    *)
Holdings(K) ==
    UNION {EntriesOf(found[h]) \cup
             (IF tmp[h] = None THEN {} ELSE EntriesOf(disk[tmp[h]].lines)) :
           h \in K}

(* The processes in K are killed.                                          *)
KillAll(K) ==
    /\ tmp' = [h \in Hooks |-> IF h \in K THEN None ELSE tmp[h]]
    /\ found' = [h \in Hooks |-> IF h \in K THEN <<>> ELSE found[h]]

(* sweep_sibling_async_wake_hooks: every other Stop hook of this CC that   *)
(* can be found and killed is, whatever it is doing.                       *)
Sweep(h) ==
    /\ hpc[h] = "start"
    /\ \E K \in SUBSET {g \in StopHooks \ {h} : Running(g)} :
         /\ KillAll(K)
         /\ hpc' = [g \in Hooks |-> IF g \in K THEN "off"
                                    ELSE IF g = h THEN "claim" ELSE hpc[g]]
         /\ lost' = lost \cup LostBy(Holdings(K), "swept")
    /\ UNCHANGED <<writer, disk, path, injected, owner, cc, faults>>

(* write_stop_hook_lock.                                                   *)
ClaimLock(h) ==
    /\ hpc[h] = "claim"
    /\ owner' = h
    /\ hpc' = [hpc EXCEPT ![h] = "poll"]
    /\ UNCHANGED <<writer, disk, path, tmp, found, injected, cc, faults, lost>>

(* Its error is ignored: the hook polls under a lock file that names       *)
(* somebody else, or nobody.                                               *)
ClaimFails(h) ==
    /\ Fault
    /\ hpc[h] = "claim"
    /\ hpc' = [hpc EXCEPT ![h] = "poll"]
    /\ UNCHANGED <<writer, disk, path, tmp, found, injected, owner, cc, lost>>

(* CC runs a PostToolUse hook.                                             *)
ToolCall(h) ==
    /\ cc = "turn"
    /\ ~Running(h)
    /\ hpc' = [hpc EXCEPT ![h] = "poll"]
    /\ UNCHANGED <<writer, disk, path, tmp, found, injected, owner, cc, faults,
                   lost>>

(* Mutant: read the shared file, which keeps its name, and clear it later. *)
TakeByReading(h) ==
    /\ tmp' = [tmp EXCEPT ![h] = path]
    /\ UNCHANGED path

(* fs::rename(pending_path, tmp): only one process gets the file.          *)
TakePending(h) ==
    /\ tmp' = [tmp EXCEPT ![h] = path]
    /\ path' = None

(* The first drain of a poll, the only one of a mid-turn hook, and the one *)
(* after the batch grace sleep.                                            *)
DrainRename(h) ==
    /\ hpc[h] \in {"poll", "grace"}
    /\ path # None
    /\ TakePending(h)
    /\ hpc' = [hpc EXCEPT ![h] = IF @ = "poll" THEN "renamed" ELSE "renamed2"]
    /\ UNCHANGED <<writer, disk, found, injected, owner, cc, faults, lost>>

(* Mutant: a Stop hook exits when its first drain finds nothing.           *)
GiveUpAfterEmptyPoll(h) == "off"

(* Where a poll with nothing to inject goes on.                            *)
AfterEmptyPoll(h) == IF h \in StopHooks THEN "check" ELSE "off"

(* The pending file does not exist.                                        *)
DrainNothing(h) ==
    /\ path = None
    /\ \/ /\ hpc[h] = "poll"
          /\ hpc' = [hpc EXCEPT ![h] = AfterEmptyPoll(h)]
       \/ /\ hpc[h] = "grace"
          /\ hpc' = [hpc EXCEPT ![h] = "inject"]
    /\ UNCHANGED <<writer, disk, path, tmp, found, injected, owner, cc, faults,
                   lost>>

(* read_to_string(..).unwrap_or_default(): one undecodable byte empties    *)
(* the whole batch.                                                        *)
ReadLines(file) ==
    IF \E i \in DOMAIN file.lines : file.lines[i] = Undecodable
    THEN <<>> ELSE file.lines

(* Mutant: what the second drain found is pushed as one item.              *)
PushBatch(batch, more) == Append(batch, more)

(* found.extend(..)                                                        *)
Extend(batch, more) == batch \o more

DrainRead(h) ==
    LET file == disk[tmp[h]]
        more == ReadLines(file)
        all  == Extend(found[h], more)
    IN  /\ hpc[h] \in {"renamed", "renamed2"}
        /\ found' = [found EXCEPT ![h] =
                       IF EntriesOf(all) = {} THEN <<>> ELSE all]
        /\ tmp' = [tmp EXCEPT ![h] = None]
        /\ lost' = lost \cup
             LostBy(EntriesOf(file.lines) \ EntriesOf(more), "undecodable")
        /\ hpc' = [hpc EXCEPT ![h] =
                     IF @ = "renamed2" THEN "inject"
                     ELSE IF EntriesOf(all) = {} THEN AfterEmptyPoll(h)
                     ELSE IF h \in StopHooks THEN "grace" ELSE "inject"]
        /\ UNCHANGED <<writer, disk, path, injected, owner, cc, faults>>

(* stop_hook_lock_held_by_self fails open: a missing lock file counts as   *)
(* held.                                                                   *)
HeldBySelf(h) == owner \in {h, None}

(* The end of one polling round of a Stop hook.                            *)
PollAgain(h) ==
    /\ hpc[h] = "check"
    /\ cc # "gone"
    /\ HeldBySelf(h)
    /\ hpc' = [hpc EXCEPT ![h] = "poll"]
    /\ UNCHANGED <<writer, disk, path, tmp, found, injected, owner, cc, faults,
                   lost>>

StepDown(h) ==
    /\ hpc[h] = "check"
    /\ cc # "gone"
    /\ ~HeldBySelf(h)
    /\ hpc' = [hpc EXCEPT ![h] = "off"]
    /\ UNCHANGED <<writer, disk, path, tmp, found, injected, owner, cc, faults,
                   lost>>

(* cc_parent_alive is false: remove the lock file and exit 0.              *)
ExitOrphaned(h) ==
    /\ hpc[h] = "check"
    /\ cc = "gone"
    /\ hpc' = [hpc EXCEPT ![h] = "off"]
    /\ owner' = None
    /\ UNCHANGED <<writer, disk, path, tmp, found, injected, cc, faults, lost>>

(* Write the reminder and exit.  A Stop hook then removes the lock file,   *)
(* whoever it names, and its exit code 2 wakes CC.                         *)
Inject(h) ==
    /\ hpc[h] = "inject"
    /\ IF cc = "gone"
       THEN /\ lost' = lost \cup LostBy(EntriesOf(found[h]), "no_reader")
            /\ UNCHANGED <<injected, cc>>
       ELSE /\ injected' = injected \o found[h]
            /\ cc' = "turn"
            /\ UNCHANGED lost
    /\ owner' = IF h \in StopHooks THEN None ELSE owner
    /\ hpc' = [hpc EXCEPT ![h] = "off"]
    /\ found' = [found EXCEPT ![h] = <<>>]
    /\ UNCHANGED <<writer, disk, path, tmp, faults>>

(* CC's hook timeout, or the operating system, kills a hook.               *)
KillHook(h) ==
    /\ Fault
    /\ Running(h)
    /\ KillAll({h})
    /\ hpc' = [hpc EXCEPT ![h] = "off"]
    /\ lost' = lost \cup LostBy(Holdings({h}), "killed")
    /\ UNCHANGED <<writer, disk, path, injected, owner, cc>>

CcExit ==
    /\ Fault
    /\ cc # "gone"
    /\ cc' = "gone"
    /\ UNCHANGED <<writer, disk, path, hook, injected, owner, lost>>

-----------------------------------------------------------------------------
SenderStep(m) ==
    SaveMessage(m) \/ AcquireLock(m) \/ OpenPending(m) \/ AppendLine(m)
        \/ FinishAppend(m)

HookStep(h) ==
    \/ DrainRename(h) \/ DrainNothing(h) \/ DrainRead(h) \/ Inject(h)
    \/ h \in StopHooks /\ (Sweep(h) \/ ClaimLock(h) \/ PollAgain(h)
                             \/ StepDown(h) \/ ExitOrphaned(h))

FaultStep ==
    \/ \E m \in Msgs : AppendFails(m)
    \/ ServiceCrash
    \/ \E h \in StopHooks : StartFails(h) \/ ClaimFails(h)
    \/ \E h \in Hooks : KillHook(h)
    \/ CcExit

Next ==
    \/ \E m \in Msgs : SenderStep(m)
    \/ \E h \in Hooks : HookStep(h)
    \/ \E h \in StopHooks : StopEvent(h)
    \/ \E h \in MidHooks : ToolCall(h)
    \/ UserPrompt
    \/ FaultStep

Spec == Init /\ [][Next]_vars

(* Threads of the service and started hook processes keep running, and CC  *)
(* ends its turns; nothing makes the user type or CC call a tool.          *)
FairSpec ==
    /\ Spec
    /\ \A m \in Msgs : WF_vars(SenderStep(m))
    /\ \A h \in Hooks : WF_vars(HookStep(h))
    /\ WF_vars(\E h \in StopHooks : StopEvent(h))
-----------------------------------------------------------------------------
(* Properties.                                                             *)

(* No reply reaches the lead's context twice, however many Stop and        *)
(* mid-turn hooks drain the file at the same time: the duplicate injection *)
(* the rename in drain_pending_file was introduced against.                *)
AtMostOnce ==
    \A i, j \in DOMAIN injected :
        injected[i] = injected[j] /\ injected[i] \in Msgs => i = j

(* The lead is never told of a message it could not look up: an entry in   *)
(* any file, in any hook's memory or in the lead's context belongs to a    *)
(* message already in the transcript, across crashes and failed appends.   *)
NotifiedIsSaved ==
    /\ \A f \in Msgs : EntriesOf(disk[f].lines) \subseteq saved
    /\ \A h \in Hooks : EntriesOf(found[h]) \subseteq saved
    /\ EntriesOf(injected) \subseteq saved

(* Entries somebody will still inject, or that have been injected.         *)
InFlight ==
    (UNION {EntriesOf(disk[f].lines) : f \in {g \in Msgs : Reachable(g)}})
        \cup Holdings(Hooks) \cup EntriesOf(injected)

(* Every appended entry is on its way to the lead, was injected, or was    *)
(* lost at one of the six places the model names (Causes): the queue has   *)
(* no other leak, whatever the interleaving of appends, drains, hook       *)
(* replacement, kills and crashes.                                         *)
EveryEntryAccounted ==
    \A m \in Msgs : wpc[m] \in {"written", "done"} =>
        m \in InFlight \/ \E c \in Causes : <<m, c>> \in lost

(* While nothing fails, an entry is lost in only two ways: its append had  *)
(* the file open when a hook drained it, or a newer Stop hook killed the   *)
(* hook that held it.  The lock keeps concurrent appends from joining      *)
(* lines, and no other order of steps costs the lead a reply.              *)
FaultFreeLosses ==
    faults = 0 =>
        \A m \in Msgs, c \in Causes \ {"late", "swept"} : <<m, c>> \notin lost

(* The lead is told of saved messages only, every entry is on its way or   *)
(* lost at a named place, and two of these places are all there is while   *)
(* nothing fails (maybe_write, drain_pending_file, the hooks' sweep).      *)
EntriesAccounted == NotifiedIsSaved /\ EveryEntryAccounted /\ FaultFreeLosses

(* Hook replacement never leaves an idle lead without a Stop hook: the     *)
(* sweep, the lock file's unconditional removal and the step-down check    *)
(* cannot between them remove the last one.                                *)
IdleLeadHasHook ==
    faults = 0 /\ cc = "idle" => \E h \in StopHooks : Running(h)

(* Every appended entry is eventually injected or lost for a named cause,  *)
(* unless something fails or the user interrupts the idle lead for ever:   *)
(* each new Stop hook kills the one before it, so prompts that keep coming *)
(* faster than a hook starts can starve the queue.                         *)
EventuallyNotified ==
    \/ \A m \in Msgs :
         wpc[m] = "done" ~>
           m \in EntriesOf(injected) \/ \E c \in Causes : <<m, c>> \in lost
    \/ []<><<UserPrompt>>_vars
    \/ <>(faults > 0)

=============================================================================
