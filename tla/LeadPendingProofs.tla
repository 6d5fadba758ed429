-------------------------- MODULE LeadPendingProofs --------------------------
(***************************************************************************)
(* Proofs about LeadPending for every set of messages, any number of Stop  *)
(* and mid-turn hooks and any number of faults.                            *)
(***************************************************************************)
EXTENDS LeadPending, TLAPS

USE LeadPendingConstants DEF Broken

-----------------------------------------------------------------------------
(* Lemmas about lines.                                                     *)

Lines == Seq(Msgs \cup Broken)

(* No entry stands in two of the lines.                                    *)
Once(s) == \A i, j \in DOMAIN s : s[i] = s[j] /\ s[i] \in Msgs => i = j

(* Lines put after one another have the entries of both.                   *)
LEMMA ConcatLines ==
  ASSUME NEW s \in Lines, NEW t \in Lines
  PROVE  /\ s \o t \in Lines
         /\ EntriesOf(s \o t) = EntriesOf(s) \cup EntriesOf(t)
         /\ Once(s) /\ Once(t) /\ EntriesOf(s) \cap EntriesOf(t) = {} => Once(s \o t)
<1>1. s \o t \in Lines /\ Len(s) \in Nat /\ Len(t) \in Nat
      /\ DOMAIN s = 1..Len(s) /\ DOMAIN t = 1..Len(t) /\ DOMAIN (s \o t) = 1..(Len(s) + Len(t))
  BY DEF Lines
<1>2. \A i \in DOMAIN s : i \in DOMAIN (s \o t) /\ (s \o t)[i] = s[i]
  BY <1>1 DEF Lines
<1>3. \A i \in DOMAIN t : i + Len(s) \in DOMAIN (s \o t) /\ (s \o t)[i + Len(s)] = t[i]
  BY <1>1 DEF Lines
<1>4. ASSUME NEW k \in DOMAIN (s \o t)
      PROVE  \/ k \in DOMAIN s /\ (s \o t)[k] = s[k]
             \/ k - Len(s) \in DOMAIN t /\ (s \o t)[k] = t[k - Len(s)]
  BY <1>1, <1>4 DEF Lines
<1>5. EntriesOf(s \o t) = EntriesOf(s) \cup EntriesOf(t)
  <2>1. EntriesOf(s \o t) \subseteq EntriesOf(s) \cup EntriesOf(t)
    BY <1>4 DEF EntriesOf
  <2>2. EntriesOf(s) \subseteq EntriesOf(s \o t)
    BY <1>2 DEF EntriesOf
  <2>3. EntriesOf(t) \subseteq EntriesOf(s \o t)
    BY <1>3 DEF EntriesOf
  <2> QED
    BY <2>1, <2>2, <2>3
<1>6. ASSUME Once(s), Once(t), EntriesOf(s) \cap EntriesOf(t) = {}
      PROVE  Once(s \o t)
  <2> SUFFICES ASSUME NEW i \in DOMAIN (s \o t), NEW j \in DOMAIN (s \o t),
                      (s \o t)[i] = (s \o t)[j], (s \o t)[i] \in Msgs
               PROVE  i = j
    BY DEF Once
  <2>1. \A k \in DOMAIN s : s[k] \in Msgs => s[k] \in EntriesOf(s)
    BY DEF EntriesOf
  <2>2. \A k \in DOMAIN t : t[k] \in Msgs => t[k] \in EntriesOf(t)
    BY DEF EntriesOf
  <2>3. i \in Nat /\ j \in Nat
    BY <1>1
  <2>4. CASE i \in DOMAIN s /\ (s \o t)[i] = s[i]
    <3>1. ~(j - Len(s) \in DOMAIN t /\ (s \o t)[j] = t[j - Len(s)])
      BY <1>6, <2>1, <2>2, <2>4
    <3> QED
      BY <1>4, <1>6, <2>4, <3>1 DEF Once
  <2>5. CASE i - Len(s) \in DOMAIN t /\ (s \o t)[i] = t[i - Len(s)]
    <3>1. ~(j \in DOMAIN s /\ (s \o t)[j] = s[j])
      BY <1>6, <2>1, <2>2, <2>5
    <3>2. j - Len(s) \in DOMAIN t /\ (s \o t)[j] = t[j - Len(s)]
      BY <1>4, <3>1
    <3>3. i - Len(s) = j - Len(s)
      BY <1>6, <2>5, <3>2 DEF Once
    <3> QED
      BY <1>1, <2>3, <3>3
  <2> QED
    BY <1>4, <2>4, <2>5
<1> QED
  BY <1>1, <1>5, <1>6

Files == JsonFile(Msgs)

(* An unterminated line is a line.                                         *)
WellFormed(f) == f.eol \/ Len(f.lines) > 0

(* The file g follows f when a line, or part of it, was written that adds  *)
(* the entries E: no other entry comes in, and only that of an             *)
(* unterminated last line is gone.                                         *)
Follows(g, f, E) ==
  /\ g \in Files /\ WellFormed(g)
  /\ EntriesOf(g.lines) \subseteq EntriesOf(f.lines) \cup E
  /\ EntriesOf(f.lines) \subseteq EntriesOf(g.lines) \cup TailEntry(f)
  /\ Once(f.lines) /\ EntriesOf(f.lines) \cap E = {} => Once(g.lines)

(* A line of its own.                                                      *)
LEMMA AppendFollows ==
  ASSUME NEW f \in Files, f.eol, NEW e \in Msgs \cup Broken,
         NEW g, g = [lines |-> Append(f.lines, e), eol |-> FALSE]
  PROVE  /\ Follows(g, f, {e} \cap Msgs)
         /\ EntriesOf(g.lines) = EntriesOf(f.lines) \cup ({e} \cap Msgs)
<1>1. f.lines \in Lines /\ <<e>> \in Lines
  BY DEF Files, JsonFile, Lines
<1>2. Append(f.lines, e) = f.lines \o <<e>>
  BY <1>1 DEF Lines
<1>3. EntriesOf(<<e>>) = {e} \cap Msgs /\ Once(<<e>>)
  BY DEF EntriesOf, Once
<1>4. EntriesOf(g.lines) = EntriesOf(f.lines) \cup ({e} \cap Msgs)
  BY <1>1, <1>2, <1>3, ConcatLines
<1>5. g \in Files /\ Len(g.lines) > 0
  BY <1>1, <1>2 DEF Files, JsonFile, Lines
<1>6. Once(f.lines) /\ EntriesOf(f.lines) \cap ({e} \cap Msgs) = {} => Once(g.lines)
  BY <1>1, <1>2, <1>3, ConcatLines
<1> QED
  BY <1>4, <1>5, <1>6 DEF Follows, WellFormed

(* Bytes that join the last line.                                          *)
LEMMA JoinFollows ==
  ASSUME NEW f \in Files, WellFormed(f), ~f.eol, NEW mark \in Broken, NEW E,
         NEW g, g = [lines |-> [f.lines EXCEPT ![Len(f.lines)] = mark], eol |-> FALSE]
  PROVE  /\ Follows(g, f, E)
         /\ EntriesOf(g.lines) \subseteq EntriesOf(f.lines)
<1>1. f.lines \in Lines /\ Len(f.lines) \in DOMAIN f.lines /\ Len(f.lines) > 0
  BY DEF Files, JsonFile, Lines, WellFormed
<1>2. g.lines \in Lines /\ DOMAIN g.lines = DOMAIN f.lines /\ Len(g.lines) = Len(f.lines)
  BY <1>1 DEF Lines
<1>3. \A i \in DOMAIN f.lines : g.lines[i] = IF i = Len(f.lines) THEN mark ELSE f.lines[i]
  BY <1>1 DEF Lines
<1>4. EntriesOf(g.lines) \subseteq EntriesOf(f.lines)
  BY <1>2, <1>3 DEF EntriesOf
<1>5. EntriesOf(f.lines) \subseteq EntriesOf(g.lines) \cup TailEntry(f)
  BY <1>2, <1>3 DEF EntriesOf, TailEntry
<1>6. Once(f.lines) => Once(g.lines)
  BY <1>2, <1>3 DEF Once
<1>7. g \in Files
  BY <1>2 DEF Files, JsonFile, Lines
<1> QED
  BY <1>1, <1>2, <1>4, <1>5, <1>6, <1>7 DEF Follows, WellFormed

(* The three ways bytes reach a file.                                      *)
LEMMA WriteLineFollows ==
  ASSUME NEW f \in Files, WellFormed(f), NEW m \in Msgs
  PROVE  /\ Follows(WriteLine(f, m), f, {m})
         /\ f.eol => EntriesOf(WriteLine(f, m).lines) = EntriesOf(f.lines) \cup {m}
         /\ ~f.eol => EntriesOf(WriteLine(f, m).lines) \subseteq EntriesOf(f.lines)
<1>1. CASE f.eol
  <2>1. WriteLine(f, m) = [lines |-> Append(f.lines, m), eol |-> FALSE]
    BY <1>1 DEF WriteLine
  <2>2. {m} \cap Msgs = {m}
    OBVIOUS
  <2>3. m \in Msgs \cup Broken
    OBVIOUS
  <2>4. /\ Follows(WriteLine(f, m), f, {m} \cap Msgs)
        /\ EntriesOf(WriteLine(f, m).lines) = EntriesOf(f.lines) \cup ({m} \cap Msgs)
    BY <1>1, <2>1, <2>3, AppendFollows
  <2> QED
    BY <1>1, <2>2, <2>4
<1>2. CASE ~f.eol
  <2>1. Joined(f.lines[Len(f.lines)]) \in Broken
    BY DEF Joined
  <2>2. WriteLine(f, m) = [lines |-> [f.lines EXCEPT ![Len(f.lines)] = Joined(f.lines[Len(f.lines)])],
                           eol |-> FALSE]
    BY <1>2 DEF WriteLine
  <2> QED
    BY <1>2, <2>1, <2>2, JoinFollows
<1> QED
  BY <1>1, <1>2

LEMMA TornFollows ==
  ASSUME NEW f \in Files, WellFormed(f), NEW g \in TornFiles(f)
  PROVE  /\ Follows(g, f, {})
         /\ EntriesOf(g.lines) \subseteq EntriesOf(f.lines)
         /\ g = f \/ EntriesOf(f.lines) \subseteq EntriesOf(g.lines) \cup TailEntry(f)
<1>1. CASE g = f
  BY <1>1 DEF Follows
<1>2. ASSUME NEW mark \in Broken, g = WriteTorn(f, mark)
      PROVE  Follows(g, f, {})
  <2>1. CASE f.eol
    <3>1. WriteTorn(f, mark) = [lines |-> Append(f.lines, mark), eol |-> FALSE]
      BY <2>1 DEF WriteTorn
    <3>2. {mark} \cap Msgs = {}
      OBVIOUS
    <3>3. mark \in Msgs \cup Broken
      OBVIOUS
    <3>4. Follows(g, f, {mark} \cap Msgs)
      BY <1>2, <2>1, <3>1, <3>3, AppendFollows
    <3> QED
      BY <3>2, <3>4
  <2>2. CASE ~f.eol
    <3> DEFINE last == IF mark = Undecodable THEN Undecodable ELSE Joined(f.lines[Len(f.lines)])
    <3>1. last \in Broken
      BY DEF Joined
    <3>2. WriteTorn(f, mark) = [lines |-> [f.lines EXCEPT ![Len(f.lines)] = last], eol |-> FALSE]
      BY <2>2 DEF WriteTorn
    <3> QED
      BY <1>2, <2>2, <3>1, <3>2, JoinFollows
  <2> QED
    BY <2>1, <2>2
<1> QED
  BY <1>1, <1>2 DEF TornFiles, Follows

LEMMA NewlineFollows ==
  ASSUME NEW f \in Files
  PROVE  /\ WriteNewline(f) \in Files /\ WellFormed(WriteNewline(f))
         /\ WriteNewline(f).lines = f.lines
BY DEF WriteNewline, Files, JsonFile, WellFormed

(* What a hook takes out of a file is its lines, or nothing.               *)
LEMMA ReadLinesOf ==
  ASSUME NEW f \in Files
  PROVE  /\ ReadLines(f) \in Lines /\ EntriesOf(ReadLines(f)) \subseteq EntriesOf(f.lines)
         /\ Once(f.lines) => Once(ReadLines(f))
BY DEF ReadLines, Files, JsonFile, Lines, EntriesOf, Once

-----------------------------------------------------------------------------
(* Who names which file.                                                   *)

FdNamed  == \A m \in Msgs : wpc[m] \in {"opened", "written"} => fd[m] \in Msgs
LockHeld == \A m \in Msgs : wpc[m] \in {"locked", "opened", "written"} => lock = m
Saved    == \A m \in Msgs : wpc[m] # "new" => m \in saved
TmpFits  == \A h \in Hooks : tmp[h] \in Msgs <=> hpc[h] \in {"renamed", "renamed2"}
Ended    == \A f \in Msgs : WellFormed(disk[f])

(* A file has one name: the shared one, or the private one of one hook.    *)
OneName ==
  /\ \A h \in Hooks : tmp[h] # None => tmp[h] # path
  /\ \A g, h \in Hooks : tmp[g] = tmp[h] /\ tmp[g] # None => g = h

(* The inode a send will create is nowhere before the send opens the file. *)
Untouched ==
  \A m \in Msgs : wpc[m] \in {"new", "saved", "locked"} =>
    /\ disk[m] = EmptyFile /\ path # m
    /\ \A h \in Hooks : tmp[h] # m
    /\ \A n \in Msgs : fd[n] # m

Control == TypeOK /\ FdNamed /\ LockHeld /\ Saved /\ TmpFits /\ Ended /\ OneName /\ Untouched

(* The steps that move no line and no file.                                *)
Quiet ==
  \/ \E h \in StopHooks : StopEvent(h) \/ StartFails(h) \/ ClaimLock(h) \/ ClaimFails(h)
                            \/ PollAgain(h) \/ StepDown(h) \/ ExitOrphaned(h)
  \/ \E h \in MidHooks : ToolCall(h)
  \/ \E h \in Hooks : DrainNothing(h)
  \/ UserPrompt \/ CcExit
  \/ UNCHANGED vars

LEMMA Steps ==
  ASSUME [Next]_vars
  PROVE  \/ Quiet
         \/ \E m \in Msgs : \/ SaveMessage(m) \/ AcquireLock(m) \/ OpenPending(m)
                             \/ AppendLine(m) \/ FinishAppend(m) \/ AppendFails(m)
         \/ ServiceCrash
         \/ \E h \in Hooks : DrainRename(h) \/ DrainRead(h) \/ Inject(h) \/ KillHook(h)
         \/ \E h \in StopHooks : Sweep(h)
BY DEF Next, SenderStep, HookStep, FaultStep, Quiet

LEMMA QuietSteps ==
  ASSUME TypeOK, Quiet
  PROVE  /\ UNCHANGED <<saved, wpc, lock, fd, disk, path, tmp, found, injected, lost>>
         /\ hpc' \in [Hooks -> HookPc] /\ owner' \in StopHooks \cup {None}
         /\ cc' \in {"turn", "idle", "gone"} /\ faults' \in 0..MaxFaults /\ faults' >= faults
         /\ \A h \in Hooks : hpc[h] \in {"renamed", "renamed2"} <=> hpc'[h] \in {"renamed", "renamed2"}
<1> StopHooks \subseteq Hooks /\ MidHooks \subseteq Hooks
  BY DEF Hooks
<1>1. ASSUME NEW h \in StopHooks,
             StopEvent(h) \/ StartFails(h) \/ ClaimFails(h) \/ PollAgain(h) \/ StepDown(h)
      PROVE  /\ UNCHANGED <<saved, wpc, lock, fd, disk, path, tmp, found, injected, lost, owner>>
             /\ \E pc \in HookPc \ {"renamed", "renamed2"} : hpc' = [hpc EXCEPT ![h] = pc]
             /\ hpc[h] \notin {"renamed", "renamed2"}
             /\ cc' \in {"turn", "idle", "gone"} /\ faults' \in 0..MaxFaults /\ faults' >= faults
  BY <1>1 DEF TypeOK, StopEvent, StartFails, ClaimFails, PollAgain, StepDown, Fault, Running, HookPc, writer
<1>2. CASE \E h \in StopHooks : ClaimLock(h) \/ ExitOrphaned(h)
  BY <1>2 DEF TypeOK, ClaimLock, ExitOrphaned, HookPc, writer
<1>3. CASE \E h \in MidHooks : ToolCall(h)
  BY <1>3 DEF TypeOK, ToolCall, Running, HookPc, writer
<1>4. ASSUME NEW h \in Hooks, DrainNothing(h)
      PROVE  /\ UNCHANGED <<saved, wpc, lock, fd, disk, path, tmp, found, injected, lost, owner, cc, faults>>
             /\ \E pc \in HookPc \ {"renamed", "renamed2"} : hpc' = [hpc EXCEPT ![h] = pc]
             /\ hpc[h] \notin {"renamed", "renamed2"}
  BY <1>4 DEF TypeOK, DrainNothing, AfterEmptyPoll, HookPc, writer
<1>5. CASE UserPrompt \/ CcExit \/ UNCHANGED vars
  BY <1>5 DEF TypeOK, UserPrompt, CcExit, Fault, vars, writer, hook
<1>6. \A h \in Hooks, pc \in HookPc \ {"renamed", "renamed2"} :
        hpc' = [hpc EXCEPT ![h] = pc] /\ hpc[h] \notin {"renamed", "renamed2"}
        => /\ hpc' \in [Hooks -> HookPc]
           /\ \A g \in Hooks : hpc[g] \in {"renamed", "renamed2"} <=> hpc'[g] \in {"renamed", "renamed2"}
  BY DEF TypeOK
<1>7. owner \in StopHooks \cup {None} /\ cc \in {"turn", "idle", "gone"} /\ faults \in 0..MaxFaults /\ faults >= faults
  BY DEF TypeOK
<1>8. CASE \E h \in StopHooks : StopEvent(h) \/ StartFails(h) \/ ClaimFails(h) \/ PollAgain(h) \/ StepDown(h)
  BY <1>1, <1>6, <1>7, <1>8
<1>9. CASE \E h \in Hooks : DrainNothing(h)
  BY <1>4, <1>6, <1>7, <1>9
<1> QED
  BY <1>2, <1>3, <1>5, <1>8, <1>9 DEF Quiet

-----------------------------------------------------------------------------
(* The control part of the invariant holds in every state.                 *)

LEMMA ControlInit == Init => Control
BY DEF Init, Control, TypeOK, FdNamed, LockHeld, Saved, TmpFits, Ended, OneName, Untouched,
       WriterPc, HookPc, EmptyFile, JsonFile, WellFormed

LEMMA FilesOnDisk ==
  ASSUME Control
  PROVE  \A f \in Msgs : disk[f] \in Files /\ WellFormed(disk[f]) /\ disk[f].lines \in Lines
BY DEF Control, TypeOK, Ended, Files, JsonFile, Lines

(* A send that does not write.                                             *)
LEMMA ControlSend ==
  ASSUME Control, NEW m \in Msgs, SaveMessage(m) \/ AcquireLock(m) \/ OpenPending(m)
  PROVE  Control'
<1>1. CASE SaveMessage(m)
  <2>1. TypeOK'
    BY <1>1 DEF Control, TypeOK, SaveMessage, WriterPc, hook
  <2> QED
    BY <1>1, <2>1 DEF Control, TypeOK, SaveMessage, hook,
                      FdNamed, LockHeld, Saved, TmpFits, Ended, OneName, Untouched
<1>2. CASE AcquireLock(m)
  <2>1. TypeOK'
    BY <1>2 DEF Control, TypeOK, AcquireLock, WriterPc, hook
  <2>2. \A n \in Msgs : wpc[n] \notin {"locked", "opened", "written"}
    BY <1>2 DEF Control, LockHeld, AcquireLock, LockFree
  <2> QED
    BY <1>2, <2>1, <2>2 DEF Control, TypeOK, AcquireLock, hook,
                      FdNamed, LockHeld, Saved, TmpFits, Ended, OneName, Untouched
<1>3. CASE OpenPending(m)
  <2>1. path' \in Msgs
    BY <1>3 DEF Control, TypeOK, OpenPending
  <2>2. TypeOK'
    BY <1>3, <2>1 DEF Control, TypeOK, OpenPending, WriterPc, hook
  <2>3. OneName'
    BY <1>3 DEF Control, OneName, Untouched, OpenPending, hook
  <2>4. Untouched'
    BY <1>3 DEF Control, TypeOK, LockHeld, Untouched, OpenPending, hook
  <2> QED
    BY <1>3, <2>1, <2>2, <2>3, <2>4 DEF Control, TypeOK, OpenPending, hook,
                      FdNamed, LockHeld, Saved, TmpFits, Ended
<1> QED
  BY <1>1, <1>2, <1>3

(* The step replaces a file d some send has opened by g, and takes sends   *)
(* only forward.                                                           *)
Writing(d, g) ==
  /\ d \in Msgs /\ g \in Files /\ WellFormed(g) /\ disk' = [disk EXCEPT ![d] = g]
  /\ \A m \in Msgs : wpc[m] \in {"new", "saved", "locked"} => d # m
  /\ wpc' \in [Msgs -> WriterPc]
  /\ \A m \in Msgs : \/ wpc'[m] \in {wpc[m], "done", "failed"}
                     \/ wpc[m] = "opened" /\ wpc'[m] = "written"
  /\ \A m \in Msgs : wpc[m] = "new" => wpc'[m] = "new"
  /\ lock' \in Msgs \cup {None}
  /\ \A m \in Msgs : wpc'[m] \in {"locked", "opened", "written"} => lock' = lock
  /\ lost' \subseteq Msgs \X Causes /\ faults' \in 0..MaxFaults
  /\ UNCHANGED <<saved, fd, path, hpc, tmp, found, injected, owner, cc>>

LEMMA ControlWrite ==
  ASSUME Control, NEW d, NEW g, Writing(d, g)
  PROVE  Control'
<1>1. TypeOK'
  BY DEF Control, TypeOK, Files, Writing
<1>2. Ended'
  BY DEF Control, TypeOK, Ended, Writing
<1>3. Untouched'
  BY DEF Control, TypeOK, Untouched, Writing
<1> QED
  BY <1>1, <1>2, <1>3 DEF Control, TypeOK, FdNamed, LockHeld, Saved, TmpFits, OneName, Writing

(* Nobody else has opened a file while a send writes.                      *)
LEMMA FdIsTouched ==
  ASSUME Control, NEW n \in Msgs, wpc[n] \in {"opened", "written"}
  PROVE  /\ fd[n] \in Msgs /\ disk[fd[n]] \in Files /\ WellFormed(disk[fd[n]])
         /\ \A m \in Msgs : wpc[m] \in {"new", "saved", "locked"} => fd[n] # m
BY FilesOnDisk DEF Control, FdNamed, Untouched

LEMMA LostTyped ==
  ASSUME Control
  PROVE  /\ \A f \in Msgs : TailEntry(disk[f]) \subseteq Msgs
         /\ \A s \in Lines : EntriesOf(s) \subseteq Msgs
         /\ \A S \in SUBSET Msgs, c \in Causes : LostBy(S, c) \subseteq Msgs \X Causes
         /\ \A K \in SUBSET Hooks : Holdings(K) \subseteq Msgs
<1>1. \A s \in Lines : EntriesOf(s) \subseteq Msgs
  BY DEF Lines, EntriesOf
<1>2. \A f \in Msgs : TailEntry(disk[f]) \subseteq Msgs
  <2> SUFFICES ASSUME NEW f \in Msgs, ~disk[f].eol
               PROVE  disk[f].lines[Len(disk[f].lines)] \in Msgs \cup Broken
    BY DEF TailEntry
  <2> QED
    BY FilesOnDisk DEF WellFormed, Lines
<1>3. \A K \in SUBSET Hooks : Holdings(K) \subseteq Msgs
  <2>1. \A h \in Hooks : found[h] \in Lines /\ (tmp[h] # None => tmp[h] \in Msgs)
    BY DEF Control, TypeOK, Lines
  <2> QED
    BY <1>1, <2>1, FilesOnDisk DEF Holdings
<1> QED
  BY <1>1, <1>2, <1>3 DEF LostBy

(* What a send does to the file it has open.                               *)
LEMMA AppendWrites ==
  ASSUME Control, NEW m \in Msgs, AppendLine(m)
  PROVE  /\ Writing(fd[m], WriteLine(disk[fd[m]], m))
         /\ wpc[m] = "opened" /\ wpc'[m] = "written" /\ \A n \in Msgs \ {m} : wpc'[n] = wpc[n]
<1> DEFINE g == WriteLine(disk[fd[m]], m)
<1>1. wpc[m] = "opened" /\ fd[m] \in Msgs /\ disk[fd[m]] \in Files /\ WellFormed(disk[fd[m]])
  BY FdIsTouched DEF AppendLine
<1>2. g \in Files /\ WellFormed(g)
  BY <1>1, WriteLineFollows DEF Follows
<1>3. lost' \subseteq Msgs \X Causes
  <2>1. /\ LostBy({m}, "joined") \subseteq Msgs \X Causes /\ LostBy({m}, "late") \subseteq Msgs \X Causes
        /\ LostBy(TailEntry(disk[fd[m]]), "joined") \subseteq Msgs \X Causes
    BY <1>1, LostTyped DEF Causes
  <2> QED
    BY <2>1 DEF AppendLine, Control, TypeOK
<1>4. /\ wpc' = [wpc EXCEPT ![m] = "written"] /\ disk' = [disk EXCEPT ![fd[m]] = g]
      /\ UNCHANGED <<saved, lock, fd, path, hpc, tmp, found, injected, owner, cc, faults>>
  BY DEF AppendLine, hook
<1>5. wpc' \in [Msgs -> WriterPc] /\ lock \in Msgs \cup {None} /\ faults \in 0..MaxFaults
  BY <1>4 DEF Control, TypeOK, WriterPc
<1>6. \A n \in Msgs : wpc'[n] = IF n = m THEN "written" ELSE wpc[n]
  BY <1>4 DEF Control, TypeOK
<1>7. \A n \in Msgs : wpc[n] \in {"new", "saved", "locked"} => fd[m] # n
  BY <1>1, FdIsTouched
<1> HIDE DEF g
<1>8. Writing(fd[m], g)
  BY <1>1, <1>2, <1>3, <1>4, <1>5, <1>6, <1>7 DEF Writing
<1> QED
  BY <1>1, <1>6, <1>8 DEF g

LEMMA FinishWrites ==
  ASSUME Control, NEW m \in Msgs, FinishAppend(m)
  PROVE  /\ Writing(fd[m], WriteNewline(disk[fd[m]])) /\ UNCHANGED <<lost, faults>>
         /\ wpc[m] = "written" /\ wpc'[m] = "done" /\ \A n \in Msgs \ {m} : wpc'[n] = wpc[n]
<1> DEFINE g == WriteNewline(disk[fd[m]])
<1>1. wpc[m] = "written" /\ fd[m] \in Msgs /\ disk[fd[m]] \in Files
  BY FdIsTouched DEF FinishAppend
<1>2. g \in Files /\ WellFormed(g)
  BY <1>1, NewlineFollows
<1>3. /\ wpc' = [wpc EXCEPT ![m] = "done"] /\ disk' = [disk EXCEPT ![fd[m]] = g] /\ lock' = None
      /\ UNCHANGED <<saved, fd, path, hpc, tmp, found, injected, owner, cc, faults, lost>>
  BY DEF FinishAppend, hook
<1>4. wpc' \in [Msgs -> WriterPc] /\ faults \in 0..MaxFaults /\ lost' \subseteq Msgs \X Causes
  BY <1>3 DEF Control, TypeOK, WriterPc
<1>5. \A n \in Msgs : wpc'[n] = IF n = m THEN "done" ELSE wpc[n]
  BY <1>3 DEF Control, TypeOK
<1>6. \A n \in Msgs : wpc'[n] \notin {"locked", "opened", "written"}
  BY <1>1, <1>5 DEF Control, LockHeld
<1>7. \A n \in Msgs : wpc[n] \in {"new", "saved", "locked"} => fd[m] # n
  BY <1>1, FdIsTouched
<1> HIDE DEF g
<1>8. Writing(fd[m], g)
  BY <1>1, <1>2, <1>3, <1>4, <1>5, <1>6, <1>7 DEF Writing
<1> QED
  BY <1>1, <1>3, <1>5, <1>8 DEF g

(* A send that fails, or all of them at once, may tear the line the open   *)
(* send m was writing.                                                     *)
Tearing(m) ==
  \E torn \in TornFiles(disk[fd[m]]) :
    /\ Writing(fd[m], torn) /\ Follows(torn, disk[fd[m]], {})
    /\ lost' = lost \cup (IF torn # disk[fd[m]] /\ Reachable(fd[m])
                          THEN LostBy(TailEntry(disk[fd[m]]), "joined") ELSE {})

(* Nothing is written: the sends that were on their way have failed.       *)
Failing ==
  /\ UNCHANGED <<saved, fd, disk, path, hpc, tmp, found, injected, owner, cc, lost>>
  /\ wpc' \in [Msgs -> WriterPc] /\ lock' \in Msgs \cup {None} /\ faults' \in 0..MaxFaults
  /\ \A n \in Msgs : wpc'[n] = wpc[n] \/ (wpc[n] # "new" /\ wpc'[n] = "failed")
  /\ \A n \in Msgs : wpc'[n] \in {"locked", "opened", "written"} => lock' = lock

LEMMA FailureTears ==
  ASSUME Control, ServiceCrash \/ \E m \in Msgs : AppendFails(m)
  PROVE  /\ Failing \/ \E m \in Msgs : wpc[m] = "opened" /\ Tearing(m)
         /\ faults' > faults
         /\ \A n \in Msgs : wpc'[n] # wpc[n] => wpc'[n] = "failed"
<1>1. ASSUME NEW m \in Msgs, AppendFails(m)
      PROVE  /\ Failing \/ (wpc[m] = "opened" /\ Tearing(m))
             /\ faults' > faults
             /\ \A n \in Msgs : wpc'[n] # wpc[n] => wpc'[n] = "failed"
  <2>1. /\ wpc[m] \in {"saved", "locked", "opened", "written"} /\ wpc' = [wpc EXCEPT ![m] = "failed"]
        /\ lock' = IF lock = m THEN None ELSE lock
        /\ UNCHANGED <<saved, fd, path, hpc, tmp, found, injected, owner, cc>>
        /\ faults' \in 0..MaxFaults /\ faults' > faults
    BY <1>1 DEF AppendFails, Fault, Control, TypeOK, hook
  <2>2. wpc' \in [Msgs -> WriterPc] /\ lock' \in Msgs \cup {None}
    BY <2>1 DEF Control, TypeOK, WriterPc
  <2>3. \A n \in Msgs : wpc'[n] = IF n = m THEN "failed" ELSE wpc[n]
    BY <2>1 DEF Control, TypeOK
  <2>4. \A n \in Msgs : wpc'[n] \in {"locked", "opened", "written"} => lock' = lock
    BY <2>1, <2>3 DEF Control, LockHeld
  <2>5. CASE wpc[m] = "opened"
    <3>1. PICK torn \in TornFiles(disk[fd[m]]) :
            /\ disk' = [disk EXCEPT ![fd[m]] = torn]
            /\ lost' = lost \cup (IF torn # disk[fd[m]] /\ Reachable(fd[m])
                                  THEN LostBy(TailEntry(disk[fd[m]]), "joined") ELSE {})
      BY <1>1, <2>5 DEF AppendFails
    <3>2. torn \in Files /\ WellFormed(torn) /\ Follows(torn, disk[fd[m]], {})
      BY <2>5, FdIsTouched, TornFollows DEF Follows
    <3>3. lost' \subseteq Msgs \X Causes
      BY <2>5, <3>1, FdIsTouched, LostTyped DEF Control, TypeOK, Causes
    <3>4. fd[m] \in Msgs /\ \A n \in Msgs : wpc[n] \in {"new", "saved", "locked"} => fd[m] # n
      BY <2>5, FdIsTouched
    <3>5. Writing(fd[m], torn)
      BY <2>1, <2>2, <2>3, <2>4, <2>5, <3>1, <3>2, <3>3, <3>4 DEF Writing
    <3>6. Tearing(m)
      BY <3>1, <3>2, <3>5 DEF Tearing
    <3> QED
      BY <2>1, <2>3, <2>5, <3>6
  <2>6. CASE wpc[m] # "opened"
    <3>1. UNCHANGED <<disk, lost>>
      BY <1>1, <2>6 DEF AppendFails
    <3>2. Failing
      BY <2>1, <2>2, <2>3, <2>4, <3>1 DEF Failing
    <3> QED
      BY <2>1, <2>3, <3>2
  <2> QED
    BY <2>5, <2>6
<1>2. ASSUME ServiceCrash
      PROVE  /\ Failing \/ \E m \in Msgs : wpc[m] = "opened" /\ Tearing(m)
             /\ faults' > faults
             /\ \A n \in Msgs : wpc'[n] # wpc[n] => wpc'[n] = "failed"
  <2>1. /\ lock' = None /\ UNCHANGED <<saved, fd, path, hpc, tmp, found, injected, owner, cc>>
        /\ faults' \in 0..MaxFaults /\ faults' > faults
        /\ wpc' = [m \in Msgs |-> IF wpc[m] \in {"new", "done"} THEN wpc[m] ELSE "failed"]
    BY <1>2 DEF ServiceCrash, Fault, Control, TypeOK, hook
  <2>2. /\ wpc' \in [Msgs -> WriterPc]
        /\ \A n \in Msgs : wpc'[n] = IF wpc[n] \in {"new", "done"} THEN wpc[n] ELSE "failed"
    BY <2>1 DEF WriterPc, Control, TypeOK
  <2>3. \A n \in Msgs : wpc'[n] \notin {"locked", "opened", "written"}
    BY <2>2
  <2>4. CASE lock # None /\ wpc[lock] = "opened"
    <3>0. lock \in Msgs
      BY <2>4 DEF Control, TypeOK
    <3>1. PICK torn \in TornFiles(disk[fd[lock]]) :
            /\ disk' = [disk EXCEPT ![fd[lock]] = torn]
            /\ lost' = lost \cup (IF torn # disk[fd[lock]] /\ Reachable(fd[lock])
                                  THEN LostBy(TailEntry(disk[fd[lock]]), "joined") ELSE {})
      BY <1>2, <2>4 DEF ServiceCrash
    <3>2. torn \in Files /\ WellFormed(torn) /\ Follows(torn, disk[fd[lock]], {})
      BY <2>4, <3>0, FdIsTouched, TornFollows DEF Follows
    <3>3. lost' \subseteq Msgs \X Causes
      BY <2>4, <3>0, <3>1, FdIsTouched, LostTyped DEF Control, TypeOK, Causes
    <3>4. fd[lock] \in Msgs /\ \A n \in Msgs : wpc[n] \in {"new", "saved", "locked"} => fd[lock] # n
      BY <2>4, <3>0, FdIsTouched
    <3>5. Writing(fd[lock], torn)
      BY <2>1, <2>2, <2>3, <2>4, <3>0, <3>1, <3>2, <3>3, <3>4 DEF Writing
    <3>6. Tearing(lock)
      BY <3>1, <3>2, <3>5 DEF Tearing
    <3> QED
      BY <2>1, <2>2, <2>4, <3>0, <3>6
  <2>5. CASE ~(lock # None /\ wpc[lock] = "opened")
    <3>1. UNCHANGED <<disk, lost>>
      BY <1>2, <2>5 DEF ServiceCrash
    <3>2. Failing
      BY <2>1, <2>2, <2>3, <3>1 DEF Failing
    <3> QED
      BY <2>1, <2>2, <3>2
  <2> QED
    BY <2>4, <2>5
<1> QED
  BY <1>1, <1>2

LEMMA ControlAppend ==
  ASSUME Control, NEW m \in Msgs, AppendLine(m) \/ FinishAppend(m)
  PROVE  Control'
BY AppendWrites, FinishWrites, ControlWrite

LEMMA ControlFailure ==
  ASSUME Control, ServiceCrash \/ \E m \in Msgs : AppendFails(m)
  PROVE  Control'
<1>1. CASE Failing
  <2>1. TypeOK'
    BY <1>1 DEF Control, TypeOK, Failing
  <2> QED
    BY <1>1, <2>1 DEF Control, TypeOK, FdNamed, LockHeld, Saved, TmpFits, Ended, OneName,
                      Untouched, Failing
<1>2. CASE \E m \in Msgs : Tearing(m)
  <2>1. PICK m \in Msgs : Tearing(m)
    BY <1>2
  <2>2. PICK torn \in TornFiles(disk[fd[m]]) : Writing(fd[m], torn)
    BY <2>1 DEF Tearing
  <2> QED
    BY <2>2, ControlWrite
<1> QED
  BY <1>1, <1>2, FailureTears

(* The processes in K end.                                                 *)
LEMMA ControlKill ==
  ASSUME Control, NEW K \in SUBSET Hooks, KillAll(K),
         hpc' \in [Hooks -> HookPc],
         \A h \in Hooks \ K : hpc[h] \in {"renamed", "renamed2"} <=> hpc'[h] \in {"renamed", "renamed2"},
         \A h \in K : hpc'[h] = "off",
         lost' \subseteq Msgs \X Causes, faults' \in 0..MaxFaults,
         UNCHANGED <<saved, wpc, lock, fd, disk, path, injected, owner, cc>>
  PROVE  Control'
<1>1. /\ tmp' \in [Hooks -> Msgs \cup {None}]
      /\ \A h \in Hooks : tmp'[h] = IF h \in K THEN None ELSE tmp[h]
  BY DEF KillAll, Control, TypeOK
<1>2. found' \in [Hooks -> Seq(Msgs \cup Broken)]
  BY DEF KillAll, Control, TypeOK
<1>3. TypeOK'
  BY <1>1, <1>2 DEF Control, TypeOK
<1>4. TmpFits'
  BY <1>1 DEF Control, TmpFits
<1> QED
  BY <1>1, <1>3, <1>4 DEF Control, FdNamed, LockHeld, Saved, Ended, OneName, Untouched

LEMMA ControlDrain ==
  ASSUME Control, NEW h \in Hooks, DrainRename(h) \/ DrainRead(h) \/ Inject(h) \/ KillHook(h)
  PROVE  Control'
<1>1. CASE DrainRename(h)
  <2>1. /\ tmp' = [tmp EXCEPT ![h] = path] /\ path' = None /\ path \in Msgs
        /\ UNCHANGED <<saved, wpc, lock, fd, disk, found, injected, owner, cc, faults, lost>>
    BY <1>1 DEF DrainRename, TakePending, Control, TypeOK, writer
  <2>2. hpc' \in [Hooks -> HookPc] /\ hpc'[h] \in {"renamed", "renamed2"}
        /\ \A g \in Hooks \ {h} : hpc'[g] = hpc[g]
    BY <1>1 DEF DrainRename, Control, TypeOK, HookPc
  <2>3. /\ tmp' \in [Hooks -> Msgs \cup {None}]
        /\ \A g \in Hooks : tmp'[g] = IF g = h THEN path ELSE tmp[g]
    BY <2>1 DEF Control, TypeOK
  <2>4. TypeOK'
    BY <2>1, <2>2, <2>3 DEF Control, TypeOK
  <2>5. TmpFits'
    BY <2>1, <2>2, <2>3 DEF Control, TmpFits
  <2>6. OneName'
    BY <2>1, <2>3 DEF Control, OneName
  <2>7. Untouched'
    BY <2>1, <2>3 DEF Control, Untouched
  <2> QED
    BY <2>1, <2>4, <2>5, <2>6, <2>7 DEF Control, FdNamed, LockHeld, Saved, Ended
<1>2. CASE DrainRead(h)
  <2>1. /\ tmp' = [tmp EXCEPT ![h] = None] /\ tmp[h] \in Msgs
        /\ UNCHANGED <<saved, wpc, lock, fd, disk, path, injected, owner, cc, faults>>
    BY <1>2 DEF DrainRead, Control, TmpFits, writer
  <2>2. hpc' \in [Hooks -> HookPc] /\ hpc'[h] \notin {"renamed", "renamed2"}
        /\ \A g \in Hooks \ {h} : hpc'[g] = hpc[g]
    BY <1>2 DEF DrainRead, AfterEmptyPoll, Control, TypeOK, HookPc
  <2>3. /\ tmp' \in [Hooks -> Msgs \cup {None}]
        /\ \A g \in Hooks : tmp'[g] = IF g = h THEN None ELSE tmp[g]
    BY <2>1 DEF Control, TypeOK
  <2>4. found' \in [Hooks -> Seq(Msgs \cup Broken)]
    <3>1. found[h] \in Lines /\ ReadLines(disk[tmp[h]]) \in Lines
      BY <2>1, FilesOnDisk, ReadLinesOf DEF Control, TypeOK, Lines
    <3>2. found[h] \o ReadLines(disk[tmp[h]]) \in Lines /\ <<>> \in Lines
      BY <3>1, ConcatLines DEF Lines
    <3> QED
      BY <1>2, <3>2 DEF DrainRead, Extend, Control, TypeOK, Lines
  <2>5. lost' \subseteq Msgs \X Causes
    BY <1>2, <2>1, FilesOnDisk, LostTyped DEF DrainRead, Control, TypeOK, Causes
  <2>6. TypeOK'
    BY <2>1, <2>2, <2>3, <2>4, <2>5 DEF Control, TypeOK
  <2>7. TmpFits'
    BY <2>2, <2>3 DEF Control, TmpFits
  <2> QED
    BY <2>1, <2>3, <2>6, <2>7 DEF Control, FdNamed, LockHeld, Saved, Ended, OneName, Untouched
<1>3. CASE Inject(h)
  <2>1. /\ UNCHANGED <<saved, wpc, lock, fd, disk, path, tmp, faults>>
        /\ hpc[h] = "inject" /\ hpc' = [hpc EXCEPT ![h] = "off"]
        /\ found' = [found EXCEPT ![h] = <<>>]
    BY <1>3 DEF Inject, writer
  <2>2. injected' \in Seq(Msgs \cup Broken) /\ cc' \in {"turn", "idle", "gone"}
        /\ lost' \subseteq Msgs \X Causes
    <3>1. injected \in Lines /\ found[h] \in Lines
      BY DEF Control, TypeOK, Lines
    <3>2. injected \o found[h] \in Lines
      BY <3>1, ConcatLines
    <3> QED
      BY <1>3, <3>1, <3>2, LostTyped DEF Inject, Control, TypeOK, Lines, Causes
  <2>3. TypeOK'
    BY <1>3, <2>1, <2>2 DEF Inject, Control, TypeOK, HookPc
  <2> QED
    BY <2>1, <2>3 DEF Control, TypeOK, FdNamed, LockHeld, Saved, TmpFits, Ended, OneName, Untouched
<1>4. CASE KillHook(h)
  <2>1. lost' \subseteq Msgs \X Causes
    BY <1>4, LostTyped DEF KillHook, Control, TypeOK, Causes
  <2>2. hpc' \in [Hooks -> HookPc] /\ hpc'[h] = "off" /\ \A g \in Hooks \ {h} : hpc'[g] = hpc[g]
    BY <1>4 DEF KillHook, Control, TypeOK, HookPc
  <2>3. faults' \in 0..MaxFaults
    BY <1>4 DEF KillHook, Fault, Control, TypeOK
  <2>4. {h} \in SUBSET Hooks /\ KillAll({h})
        /\ UNCHANGED <<saved, wpc, lock, fd, disk, path, injected, owner, cc>>
    BY <1>4 DEF KillHook, writer
  <2> QED
    BY <2>1, <2>2, <2>3, <2>4, ControlKill
<1> QED
  BY <1>1, <1>2, <1>3, <1>4

(* What a sweep by h does.                                                 *)
LEMMA SweepKills ==
  ASSUME Control, NEW h \in StopHooks, Sweep(h)
  PROVE  \E K \in SUBSET (StopHooks \ {h}) :
           /\ K \in SUBSET Hooks /\ KillAll(K) /\ h \in Hooks /\ hpc[h] = "start"
           /\ hpc' \in [Hooks -> HookPc]
           /\ \A g \in Hooks : hpc'[g] = IF g \in K THEN "off" ELSE IF g = h THEN "claim" ELSE hpc[g]
           /\ lost' = lost \cup LostBy(Holdings(K), "swept")
           /\ UNCHANGED <<saved, wpc, lock, fd, disk, path, injected, owner, cc, faults>>
<1>1. PICK K \in SUBSET {g \in StopHooks \ {h} : Running(g)} :
        /\ KillAll(K)
        /\ hpc' = [g \in Hooks |-> IF g \in K THEN "off" ELSE IF g = h THEN "claim" ELSE hpc[g]]
        /\ lost' = lost \cup LostBy(Holdings(K), "swept")
  BY DEF Sweep
<1>2. hpc' \in [Hooks -> HookPc]
  BY <1>1 DEF Control, TypeOK, HookPc
<1> QED
  BY <1>1, <1>2 DEF Sweep, Hooks, writer

LEMMA ControlSweep ==
  ASSUME Control, NEW h \in StopHooks, Sweep(h)
  PROVE  Control'
<1>1. PICK K \in SUBSET (StopHooks \ {h}) :
           /\ K \in SUBSET Hooks /\ KillAll(K) /\ h \in Hooks /\ hpc[h] = "start"
           /\ hpc' \in [Hooks -> HookPc]
           /\ \A g \in Hooks : hpc'[g] = IF g \in K THEN "off" ELSE IF g = h THEN "claim" ELSE hpc[g]
           /\ lost' = lost \cup LostBy(Holdings(K), "swept")
           /\ UNCHANGED <<saved, wpc, lock, fd, disk, path, injected, owner, cc, faults>>
  BY SweepKills
<1>2. lost' \subseteq Msgs \X Causes /\ faults' \in 0..MaxFaults
  BY <1>1, LostTyped DEF Control, TypeOK, Causes
<1> QED
  BY <1>1, <1>2, ControlKill

LEMMA ControlStep ==
  ASSUME Control, [Next]_vars
  PROVE  Control'
<1>1. CASE Quiet
  <2>1. TypeOK
    BY DEF Control
  <2>2. TypeOK'
    BY <1>1, <2>1, QuietSteps DEF TypeOK
  <2> QED
    BY <1>1, <2>1, <2>2, QuietSteps DEF Control, FdNamed, LockHeld, Saved, TmpFits, Ended, OneName, Untouched
<1> QED
  BY <1>1, Steps, ControlSend, ControlAppend, ControlFailure, ControlDrain, ControlSweep

(* The queue's files, the senders, the hooks and their lock file keep      *)
(* their types, for any number of messages, hooks and faults.              *)
THEOREM TypeCorrect == Spec => []TypeOK
<1>1. Control /\ [Next]_vars => Control'
  BY ControlStep
<1>2. Control => TypeOK
  BY DEF Control
<1> QED
  BY <1>1, <1>2, ControlInit, PTL DEF Spec

-----------------------------------------------------------------------------
(* An idle lead has a Stop hook.                                           *)

(* While nothing fails the lock file names a hook that runs, or one is     *)
(* about to claim it: that hook outlives whoever steps down.               *)
Claiming  == \E h \in StopHooks : hpc[h] = "claim"
Succeeded ==
  faults = 0 =>
    /\ cc # "gone"
    /\ cc = "idle" => \E h \in StopHooks : Running(h)
    /\ owner # None => Running(owner) \/ Claiming

LEMMA SucceededInit == Init => Succeeded
BY DEF Init, Succeeded

(* A Stop hook runs on, unless it is one of K, and so does a claim; the    *)
(* lock file keeps its owner.                                              *)
LEMMA StaySucceeded ==
  ASSUME Control, Succeeded, faults' >= faults, faults \in Nat, faults' \in Nat,
         cc' = cc \/ cc' = "turn", owner' \in {owner, None},
         \A h \in StopHooks : Running(h) => Running(h)',
         \A h \in StopHooks : hpc[h] = "claim" => hpc'[h] = "claim"
  PROVE  Succeeded'
<1>1. SUFFICES ASSUME faults' = 0
               PROVE  Succeeded'
  BY DEF Succeeded
<1>2. faults = 0
  BY <1>1
<1>3. owner # None => owner \in StopHooks
  BY DEF Control, TypeOK
<1> QED
  BY <1>2, <1>3 DEF Succeeded, Claiming

LEMMA SucceededStep ==
  ASSUME Control, Succeeded, [Next]_vars
  PROVE  Succeeded'
<1> USE DEF Hooks
<1>1. faults \in Nat /\ hpc \in [Hooks -> HookPc] /\ owner \in StopHooks \cup {None}
      /\ None \notin StopHooks
  BY DEF Control, TypeOK
<1>2. ASSUME Fault PROVE Succeeded'
  BY <1>1, <1>2 DEF Fault, Succeeded
<1>3. ASSUME NEW m \in Msgs, SenderStep(m) PROVE Succeeded'
  <2>1. UNCHANGED <<hpc, owner, cc, faults>>
    BY <1>3 DEF SenderStep, SaveMessage, AcquireLock, OpenPending, AppendLine, FinishAppend, hook
  <2> QED
    BY <2>1, <1>1, StaySucceeded DEF Running
<1>4. ASSUME NEW h \in Hooks, DrainRename(h) \/ DrainNothing(h) \/ DrainRead(h) PROVE Succeeded'
  <2>1. /\ UNCHANGED <<owner, cc, faults>> /\ hpc[h] \notin {"claim", "off"}
        /\ \A g \in Hooks \ {h} : hpc'[g] = hpc[g]
        /\ h \in StopHooks => hpc'[h] # "off"
    BY <1>1, <1>4 DEF DrainRename, DrainNothing, DrainRead, AfterEmptyPoll
  <2> QED
    BY <2>1, <1>1, StaySucceeded DEF Running
<1>5. ASSUME NEW h \in Hooks, Inject(h) PROVE Succeeded'
  <2>1. /\ faults' = faults /\ hpc[h] = "inject" /\ hpc'[h] = "off"
        /\ \A g \in Hooks \ {h} : hpc'[g] = hpc[g]
        /\ owner' = (IF h \in StopHooks THEN None ELSE owner)
        /\ (cc # "gone" => cc' = "turn")
    BY <1>1, <1>5 DEF Inject
  <2> QED
    BY <1>1, <2>1 DEF Succeeded, Claiming, Running
<1>6. ASSUME NEW h \in StopHooks, Sweep(h) PROVE Succeeded'
  <2>1. hpc'[h] = "claim" /\ UNCHANGED <<owner, cc, faults>>
    BY <1>6, SweepKills
  <2> QED
    BY <1>1, <2>1 DEF Succeeded, Claiming, Running
<1>7. ASSUME NEW h \in StopHooks, ClaimLock(h) PROVE Succeeded'
  <2>1. hpc'[h] = "poll" /\ owner' = h /\ UNCHANGED <<cc, faults>>
    BY <1>1, <1>7 DEF ClaimLock
  <2> QED
    BY <1>1, <2>1 DEF Succeeded, Running
<1>8. ASSUME NEW h \in StopHooks, PollAgain(h) PROVE Succeeded'
  <2>1. UNCHANGED <<owner, cc, faults>> /\ hpc[h] = "check" /\ hpc'[h] = "poll"
        /\ \A g \in Hooks \ {h} : hpc'[g] = hpc[g]
    BY <1>1, <1>8 DEF PollAgain
  <2> QED
    BY <2>1, <1>1, StaySucceeded DEF Running
<1>9. ASSUME NEW h \in StopHooks, StepDown(h) PROVE Succeeded'
  <2>1. UNCHANGED <<owner, cc, faults>> /\ hpc[h] = "check" /\ owner \notin {h, None}
        /\ \A g \in Hooks \ {h} : hpc'[g] = hpc[g]
    BY <1>1, <1>9 DEF StepDown, HeldBySelf
  <2> QED
    BY <1>1, <2>1 DEF Succeeded, Claiming, Running
<1>10. ASSUME NEW h \in StopHooks, ExitOrphaned(h) PROVE Succeeded'
  BY <1>10 DEF ExitOrphaned, Succeeded
<1>11. ASSUME NEW h \in StopHooks, StopEvent(h) PROVE Succeeded'
  <2>1. UNCHANGED <<owner, faults>> /\ ~Running(h) /\ hpc'[h] = "start" /\ cc' = "idle"
        /\ \A g \in Hooks \ {h} : hpc'[g] = hpc[g]
    BY <1>1, <1>11 DEF StopEvent
  <2> QED
    BY <1>1, <2>1 DEF Succeeded, Claiming, Running
<1>12. ASSUME NEW h \in MidHooks, ToolCall(h) PROVE Succeeded'
  <2>1. UNCHANGED <<owner, cc, faults>> /\ hpc'[h] = "poll" /\ ~Running(h)
        /\ \A g \in Hooks \ {h} : hpc'[g] = hpc[g]
    BY <1>1, <1>12 DEF ToolCall
  <2> QED
    BY <2>1, <1>1, StaySucceeded DEF Running
<1>13. ASSUME UserPrompt \/ UNCHANGED vars PROVE Succeeded'
  <2>1. UNCHANGED <<hpc, owner, faults>> /\ cc' \in {cc, "turn"}
    BY <1>13 DEF UserPrompt, hook, vars
  <2> QED
    BY <2>1, <1>1, StaySucceeded DEF Running
<1>14. FaultStep => Fault
  BY DEF FaultStep, AppendFails, ServiceCrash, StartFails, ClaimFails, KillHook, CcExit
<1>15. ASSUME NEW h \in Hooks, HookStep(h) PROVE Succeeded'
  BY <1>4, <1>5, <1>6, <1>7, <1>8, <1>9, <1>10, <1>15 DEF HookStep
<1> QED
  BY <1>2, <1>3, <1>11, <1>12, <1>13, <1>14, <1>15 DEF Next

(* Hook replacement never leaves an idle lead without a Stop hook, with    *)
(* any number of hooks in any order of sweeps, claims and step-downs.      *)
THEOREM LeadKeepsHook == Spec => []IdleLeadHasHook
<1>1. Control /\ Succeeded /\ [Next]_vars => Control' /\ Succeeded'
  BY ControlStep, SucceededStep
<1>2. Control /\ Succeeded => IdleLeadHasHook
  BY DEF Succeeded, IdleLeadHasHook
<1> QED
  BY <1>1, <1>2, ControlInit, SucceededInit, PTL DEF Spec

-----------------------------------------------------------------------------
(* Where an entry is.                                                      *)

On(f) == EntriesOf(disk[f].lines)
Has(h) == EntriesOf(found[h])
Told == EntriesOf(injected)

(* A send that has not written its entry.                                  *)
Early(m) == wpc[m] \in {"new", "saved", "locked", "opened"}

NotYet ==
  \A m \in Msgs : Early(m) =>
    /\ \A f \in Msgs : m \notin On(f)
    /\ \A h \in Hooks : m \notin Has(h)
    /\ m \notin Told

OnceEach ==
  /\ \A f \in Msgs : Once(disk[f].lines)
  /\ \A h \in Hooks : Once(found[h])
  /\ Once(injected)

(* An entry is in one file; while a hook can still read that file, nobody  *)
(* has the entry; and one hook has it until the lead is told.              *)
Apart ==
  /\ \A f, g \in Msgs : f # g => On(f) \cap On(g) = {}
  /\ \A f \in Msgs : Reachable(f) => /\ \A h \in Hooks : On(f) \cap Has(h) = {}
                                     /\ On(f) \cap Told = {}
  /\ \A g, h \in Hooks : g # h => Has(g) \cap Has(h) = {}
  /\ \A h \in Hooks : Has(h) \cap Told = {}

OnlySaved ==
  /\ \A f \in Msgs : On(f) \subseteq saved
  /\ \A h \in Hooks : Has(h) \subseteq saved
  /\ Told \subseteq saved

Content == NotYet /\ OnceEach /\ Apart /\ OnlySaved

LEMMA NoEntries == EntriesOf(<<>>) = {} /\ Once(<<>>)
BY DEF EntriesOf, Once

LEMMA ContentInit == Init => Content
<1> SUFFICES ASSUME Init PROVE Content
  OBVIOUS
<1>1. /\ \A f \in Msgs : On(f) = {} /\ Once(disk[f].lines)
      /\ \A h \in Hooks : Has(h) = {} /\ Once(found[h])
      /\ Told = {} /\ Once(injected)
  BY NoEntries DEF Init, On, Has, Told, EmptyFile
<1> QED
  BY <1>1 DEF Content, NotYet, OnceEach, Apart, OnlySaved

(* No line moves and no file comes within reach but an empty one.          *)
LEMMA ContentStays ==
  ASSUME Content, UNCHANGED <<disk, found, injected>>, saved \subseteq saved',
         \A m \in Msgs : Early(m)' => Early(m),
         \A f \in Msgs : Reachable(f)' => Reachable(f) \/ On(f) = {}
  PROVE  Content'
<1>1. /\ \A f \in Msgs : On(f)' = On(f) /\ disk'[f] = disk[f]
      /\ \A h \in Hooks : Has(h)' = Has(h) /\ found'[h] = found[h]
      /\ Told' = Told
  BY DEF On, Has, Told
<1>2. NotYet'
  BY <1>1 DEF Content, NotYet
<1>3. OnceEach'
  BY <1>1 DEF Content, OnceEach
<1>4. Apart'
  BY <1>1 DEF Content, Apart
<1>5. OnlySaved'
  BY <1>1 DEF Content, OnlySaved
<1> QED
  BY <1>2, <1>3, <1>4, <1>5 DEF Content

(* A send adds its entry, or nothing, to the file d.                       *)
LEMMA ContentWrite ==
  ASSUME Control, Content, NEW d, NEW g, Writing(d, g), NEW E \in SUBSET Msgs,
         Follows(g, disk[d], E), E \subseteq saved,
         \A m \in E : Early(m) /\ ~Early(m)'
  PROVE  Content'
<1>1. /\ d \in Msgs /\ On(d)' \subseteq On(d) \cup E /\ Once(disk'[d].lines) 
      /\ \A f \in Msgs : f # d => On(f)' = On(f) /\ disk'[f] = disk[f]
  <2>1. /\ d \in Msgs /\ disk'[d] = g /\ EntriesOf(g.lines) \subseteq EntriesOf(disk[d].lines) \cup E
        /\ \A f \in Msgs : f # d => disk'[f] = disk[f]
    BY DEF Writing, Follows, Control, TypeOK
  <2>2. On(d) \cap E = {} /\ Once(disk[d].lines)
    BY <2>1 DEF Content, NotYet, OnceEach
  <2>3. Once(g.lines)
    BY <2>2 DEF Follows, On
  <2> QED
    BY <2>1, <2>3 DEF On
<1>2. /\ \A h \in Hooks : Has(h)' = Has(h) /\ found'[h] = found[h]
      /\ Told' = Told /\ UNCHANGED <<saved, injected>>
      /\ \A f \in Msgs : Reachable(f)' <=> Reachable(f)
  BY DEF Has, Told, Writing, Reachable
<1>3. \A m \in Msgs : Early(m)' => Early(m)
  BY DEF Writing, Early
<1>4. \A m \in E : /\ \A f \in Msgs : m \notin On(f)
                   /\ \A h \in Hooks : m \notin Has(h)
                   /\ m \notin Told
  BY DEF Content, NotYet
<1>5. NotYet'
  BY <1>1, <1>2, <1>3 DEF Content, NotYet
<1>6. OnceEach'
  BY <1>1, <1>2 DEF Content, OnceEach
<1>7. Apart'
  <2>1. \A f, h \in Msgs : f # h => On(f)' \cap On(h)' = {}
    BY <1>1, <1>4 DEF Content, Apart
  <2>2. \A f \in Msgs : Reachable(f)' => /\ \A h \in Hooks : On(f)' \cap Has(h)' = {}
                                         /\ On(f)' \cap Told' = {}
    BY <1>1, <1>2, <1>4 DEF Content, Apart
  <2> QED
    BY <1>2, <2>1, <2>2 DEF Content, Apart
<1>8. OnlySaved'
  BY <1>1, <1>2 DEF Content, OnlySaved
<1> QED
  BY <1>5, <1>6, <1>7, <1>8 DEF Content

(* The hooks in K lose what they have; every other keeps it.               *)
LEMMA ContentKill ==
  ASSUME Control, Content, NEW K \in SUBSET Hooks, KillAll(K),
         UNCHANGED <<saved, wpc, disk, path, injected>>
  PROVE  Content'
<1>1. \A h \in Hooks : /\ tmp'[h] = IF h \in K THEN None ELSE tmp[h]
                       /\ found'[h] = IF h \in K THEN <<>> ELSE found[h]
  BY DEF KillAll
<1>2. \A h \in Hooks : Once(found'[h]) /\ Has(h)' \subseteq Has(h)
  BY <1>1, NoEntries DEF Has, Content, OnceEach
<1>3. /\ \A f \in Msgs : On(f)' = On(f)
      /\ \A m \in Msgs : Early(m)' <=> Early(m)
      /\ Told' = Told
  BY DEF On, Told, Early
<1>4. \A f \in Msgs : Reachable(f)' => Reachable(f)
  BY <1>1 DEF Reachable
<1>5. NotYet' /\ OnlySaved' /\ OnceEach'
  BY <1>2, <1>3 DEF Content, NotYet, OnlySaved, OnceEach
<1>6. Apart'
  BY <1>2, <1>3, <1>4 DEF Content, Apart
<1> QED
  BY <1>5, <1>6 DEF Content

(* What a drain takes out of the file it renamed.                          *)
LEMMA DrainTakes ==
  ASSUME Control, NEW h \in Hooks, DrainRead(h)
  PROVE  /\ tmp[h] \in Msgs /\ UNCHANGED <<writer, disk, path, injected, owner, cc, faults>>
         /\ \A g \in Hooks : /\ tmp'[g] = IF g = h THEN None ELSE tmp[g]
                             /\ g # h => found'[g] = found[g]
         /\ \E more \in Lines :
              /\ EntriesOf(more) \subseteq On(tmp[h])
              /\ Once(disk[tmp[h]].lines) => Once(more)
              /\ found[h] \in Lines
              /\ EntriesOf(found'[h]) = EntriesOf(found[h] \o more)
              /\ found'[h] \in {found[h] \o more, <<>>}
              /\ lost' = lost \cup LostBy(On(tmp[h]) \ EntriesOf(more), "undecodable")
<1>1. hpc[h] \in {"renamed", "renamed2"} /\ tmp[h] \in Msgs
  BY DEF DrainRead, Control, TmpFits
<1>2. disk[tmp[h]] \in Files /\ found[h] \in Lines
  BY <1>1, FilesOnDisk DEF Control, TypeOK, Lines
<1> DEFINE more == ReadLines(disk[tmp[h]])
<1>3. /\ more \in Lines /\ EntriesOf(more) \subseteq On(tmp[h])
      /\ Once(disk[tmp[h]].lines) => Once(more)
  BY <1>2, ReadLinesOf DEF On
<1>4. /\ found'[h] = IF EntriesOf(found[h] \o more) = {} THEN <<>> ELSE found[h] \o more
      /\ lost' = lost \cup LostBy(On(tmp[h]) \ EntriesOf(more), "undecodable")
      /\ UNCHANGED <<writer, disk, path, injected, owner, cc, faults>>
      /\ \A g \in Hooks : /\ tmp'[g] = IF g = h THEN None ELSE tmp[g]
                          /\ g # h => found'[g] = found[g]
  BY DEF DrainRead, Extend, On, Control, TypeOK
<1> HIDE DEF more
<1>5. EntriesOf(found'[h]) = EntriesOf(found[h] \o more)
  BY <1>4, NoEntries
<1> QED
  BY <1>1, <1>2, <1>3, <1>4, <1>5

LEMMA ContentRead ==
  ASSUME Control, Content, NEW h \in Hooks, DrainRead(h)
  PROVE  Content'
<1>0. PICK f \in Msgs : f = tmp[h]
  BY DrainTakes
<1>1. /\ UNCHANGED <<saved, wpc, disk, path, injected>>
      /\ \A g \in Hooks : /\ tmp'[g] = IF g = h THEN None ELSE tmp[g]
                          /\ g # h => found'[g] = found[g]
  BY DrainTakes DEF writer
<1>2. Has(h)' \subseteq Has(h) \cup On(f) /\ Once(found'[h])
  <2>1. PICK more \in Lines :
          /\ EntriesOf(more) \subseteq On(f)
          /\ Once(disk[f].lines) => Once(more)
          /\ found[h] \in Lines
          /\ EntriesOf(found'[h]) = EntriesOf(found[h] \o more)
          /\ found'[h] \in {found[h] \o more, <<>>}
    BY <1>0, DrainTakes
  <2>2. Has(h) \cap On(f) = {} /\ Once(found[h]) /\ Once(disk[f].lines)
    BY <1>0 DEF Content, Apart, OnceEach, Reachable
  <2>3. Once(found[h] \o more) /\ EntriesOf(found[h] \o more) = EntriesOf(found[h]) \cup EntriesOf(more)
    BY <2>1, <2>2, ConcatLines DEF Has
  <2> QED
    BY <2>1, <2>3, NoEntries DEF Has
<1>3. /\ \A g \in Msgs : On(g)' = On(g)
      /\ \A m \in Msgs : Early(m)' <=> Early(m)
      /\ Told' = Told
      /\ \A g \in Hooks : g # h => Has(g)' = Has(g)
  BY <1>1 DEF On, Told, Early, Has
<1>4. /\ ~Reachable(f)' /\ Reachable(f)
      /\ \A g \in Msgs : Reachable(g)' => Reachable(g)
  BY <1>0, <1>1 DEF Reachable, Control, OneName
<1>5. NotYet' /\ OnlySaved' /\ OnceEach'
  BY <1>1, <1>2, <1>3 DEF Content, NotYet, OnlySaved, OnceEach
<1>6. Apart'
  <2>1. \A g \in Msgs : Reachable(g)' => On(g) \cap On(f) = {}
    BY <1>1, <1>4 DEF Content, Apart
  <2>2. /\ \A g \in Hooks : On(f) \cap Has(g) = {}
        /\ On(f) \cap Told = {}
    BY <1>1, <1>4 DEF Content, Apart
  <2> QED
    BY <1>2, <1>3, <1>4, <2>1, <2>2 DEF Content, Apart
<1> QED
  BY <1>5, <1>6 DEF Content

(* An injection moves what the hook has to the lead, or nowhere.           *)
LEMMA InjectTells ==
  ASSUME Control, NEW h \in Hooks, Inject(h)
  PROVE  /\ UNCHANGED <<writer, disk, path, tmp, faults>> /\ Has(h)' = {} /\ Once(found'[h])
         /\ \A g \in Hooks : g # h => Has(g)' = Has(g) /\ found'[g] = found[g]
         /\ \/ /\ UNCHANGED injected /\ cc = "gone"
               /\ lost' = lost \cup LostBy(Has(h), "no_reader")
            \/ /\ injected' = injected \o found[h] /\ Told' = Told \cup Has(h)
               /\ UNCHANGED lost
<1>1. found[h] \in Lines /\ injected \in Lines
  BY DEF Control, TypeOK, Lines
<1>2. /\ found'[h] = <<>>
      /\ \A g \in Hooks : g # h => Has(g)' = Has(g) /\ found'[g] = found[g]
  BY DEF Inject, Control, TypeOK, Has
<1>3. injected' = injected \o found[h] => Told' = Told \cup Has(h)
  BY <1>1, ConcatLines DEF Told, Has
<1>4. Has(h)' = {} /\ Once(found'[h])
  BY <1>2, NoEntries DEF Has
<1> QED
  BY <1>2, <1>3, <1>4 DEF Inject, Has

LEMMA ContentInject ==
  ASSUME Control, Content, NEW h \in Hooks, Inject(h)
  PROVE  Content'
<1>1. UNCHANGED <<saved, wpc, disk, path, tmp>>
  BY InjectTells DEF writer
<1>2. Told' \subseteq Told \cup Has(h) /\ Once(injected')
  <2>1. injected \in Lines /\ found[h] \in Lines
    BY DEF Control, TypeOK, Lines
  <2>2. Once(injected) /\ Once(found[h]) /\ EntriesOf(injected) \cap EntriesOf(found[h]) = {}
    BY DEF Content, OnceEach, Apart, Has, Told
  <2>3. Once(injected \o found[h])
    BY <2>1, <2>2, ConcatLines
  <2> QED
    BY <2>2, <2>3, InjectTells DEF Told
<1>3. /\ \A g \in Msgs : On(g)' = On(g)
      /\ \A m \in Msgs : Early(m)' <=> Early(m)
      /\ \A g \in Hooks : Has(g)' \subseteq Has(g)
      /\ Has(h)' = {}
      /\ \A g \in Msgs : Reachable(g)' <=> Reachable(g)
  BY <1>1, InjectTells DEF On, Early, Reachable
<1>4. \A g \in Hooks : Once(found'[g])
  BY InjectTells DEF Content, OnceEach
<1>5. NotYet' /\ OnlySaved' /\ OnceEach'
  BY <1>1, <1>2, <1>3, <1>4 DEF Content, NotYet, OnlySaved, OnceEach
<1>6. Apart'
  BY <1>2, <1>3 DEF Content, Apart
<1> QED
  BY <1>5, <1>6 DEF Content

LEMMA ContentStep ==
  ASSUME Control, Content, [Next]_vars
  PROVE  Content'
<1>1. CASE Quiet
  <2>1. UNCHANGED <<saved, wpc, disk, path, tmp, found, injected>>
    BY <1>1, QuietSteps DEF Control
  <2> QED
    BY <2>1, ContentStays DEF Early, Reachable
<1>2. ASSUME NEW m \in Msgs, SaveMessage(m) \/ AcquireLock(m) PROVE Content'
  <2>1. UNCHANGED <<disk, path, tmp, found, injected>> /\ saved \subseteq saved'
        /\ \A n \in Msgs : Early(n)' => Early(n)
    BY <1>2 DEF SaveMessage, AcquireLock, hook, Early, Control, TypeOK
  <2> QED
    BY <2>1, ContentStays DEF Reachable
<1>3. ASSUME NEW m \in Msgs, OpenPending(m) PROVE Content'
  <2>1. /\ UNCHANGED <<saved, disk, tmp, found, injected>> /\ path' \in {path, m}
        /\ \A n \in Msgs : Early(n)' => Early(n)
        /\ disk[m] = EmptyFile
    BY <1>3 DEF OpenPending, hook, Early, Control, TypeOK, Untouched
  <2>2. On(m) = {}
    BY <2>1, NoEntries DEF On, EmptyFile
  <2> QED
    BY <2>1, <2>2, ContentStays DEF Reachable
<1>4. ASSUME NEW m \in Msgs, AppendLine(m) PROVE Content'
  <2>1. Follows(WriteLine(disk[fd[m]], m), disk[fd[m]], {m})
    BY <1>4, AppendWrites, FdIsTouched, WriteLineFollows
  <2>2. m \in saved
    BY <1>4 DEF AppendLine, Control, Saved
  <2> QED
    BY <1>4, <2>1, <2>2, AppendWrites, ContentWrite DEF Early
<1>5. ASSUME NEW m \in Msgs, FinishAppend(m) PROVE Content'
  <2>1. disk[fd[m]] \in Files
    BY <1>5, FdIsTouched DEF FinishAppend
  <2>2. Follows(WriteNewline(disk[fd[m]]), disk[fd[m]], {})
    BY <2>1, NewlineFollows DEF Follows
  <2> QED
    BY <1>5, <2>2, FinishWrites, ContentWrite
<1>6. ASSUME ServiceCrash \/ \E m \in Msgs : AppendFails(m) PROVE Content'
  <2>1. CASE Failing
    <3>1. \A n \in Msgs : Early(n)' => Early(n)
      BY <2>1 DEF Failing, Early
    <3> QED
      BY <2>1, <3>1, ContentStays DEF Failing, Reachable
  <2>2. ASSUME NEW m \in Msgs, Tearing(m) PROVE Content'
    <3>1. PICK torn \in TornFiles(disk[fd[m]]) : Writing(fd[m], torn) /\ Follows(torn, disk[fd[m]], {})
      BY <2>2 DEF Tearing
    <3> QED
      BY <3>1, ContentWrite
  <2> QED
    BY <1>6, <2>1, <2>2, FailureTears
<1>7. ASSUME NEW h \in Hooks, DrainRename(h) PROVE Content'
  <2>1. UNCHANGED <<saved, wpc, disk, found, injected>> /\ path' = None
        /\ tmp' = [tmp EXCEPT ![h] = path]
    BY <1>7 DEF DrainRename, TakePending, writer
  <2>2. \A f \in Msgs : Reachable(f)' => Reachable(f)
    BY <2>1 DEF Reachable, Control, TypeOK
  <2> QED
    BY <2>1, <2>2, ContentStays DEF Early
<1>8. ASSUME NEW h \in Hooks, KillHook(h) PROVE Content'
  <2>1. {h} \in SUBSET Hooks /\ KillAll({h}) /\ UNCHANGED <<saved, wpc, disk, path, injected>>
    BY <1>8 DEF KillHook, writer
  <2> QED
    BY <2>1, ContentKill
<1>9. ASSUME NEW h \in StopHooks, Sweep(h) PROVE Content'
  <2>1. PICK K \in SUBSET Hooks : KillAll(K) /\ UNCHANGED <<saved, wpc, disk, path, injected>>
    BY <1>9, SweepKills
  <2> QED
    BY <2>1, ContentKill
<1> QED
  BY <1>1, <1>2, <1>3, <1>4, <1>5, <1>6, <1>7, <1>8, <1>9, ContentRead, ContentInject, Steps

(* No reply reaches the lead twice: a reply is in one file, and whoever    *)
(* reads that file was the only one to rename it.                          *)
THEOREM ToldOnce == Spec => []AtMostOnce
<1>1. Control /\ Content /\ [Next]_vars => Control' /\ Content'
  BY ControlStep, ContentStep
<1>2. Content => AtMostOnce
  BY DEF Content, OnceEach, Once, AtMostOnce
<1> QED
  BY <1>1, <1>2, ControlInit, ContentInit, PTL DEF Spec

-----------------------------------------------------------------------------
(* No entry leaves the queue unaccounted for.                              *)

Waiting(m) ==
  \/ \E f \in Msgs : Reachable(f) /\ m \in On(f)
  \/ \E h \in Hooks : m \in Has(h)
  \/ m \in Told

Lost(m)      == \E c \in Causes : <<m, c>> \in lost
Accounted(m) == Waiting(m) \/ Lost(m)
AllAccounted == \A m \in Msgs : wpc[m] \in {"written", "done"} => Accounted(m)

LEMMA WaitingIsInFlight ==
  ASSUME Control, NEW m \in Msgs
  PROVE  Waiting(m) => m \in InFlight
<1>1. ASSUME NEW f \in Msgs, Reachable(f), m \in On(f) PROVE m \in InFlight
  BY <1>1 DEF InFlight, On
<1>2. Holdings(Hooks) \subseteq InFlight /\ Told \subseteq InFlight
  BY DEF InFlight, Told
<1>3. ASSUME NEW h \in Hooks, m \in Has(h) PROVE m \in Holdings(Hooks)
  BY <1>3 DEF Holdings, Has
<1> QED
  BY <1>1, <1>2, <1>3 DEF Waiting

LEMMA LostIsLost ==
  ASSUME NEW S, NEW m \in S, NEW c \in Causes, LostBy(S, c) \subseteq lost'
  PROVE  Lost(m)'
BY DEF Lost, LostBy

(* What was reachable, read or told stays so.                              *)
LEMMA WaitingStays ==
  ASSUME NEW m \in Msgs, Accounted(m), lost \subseteq lost',
         \A f \in Msgs : Reachable(f) /\ m \in On(f) => (Reachable(f)' /\ m \in On(f)') \/ Lost(m)',
         \A h \in Hooks : m \in Has(h) => m \in Has(h)' \/ Lost(m)',
         m \in Told => m \in Told'
  PROVE  Accounted(m)'
<1>1. Lost(m) => Lost(m)'
  BY DEF Lost
<1> QED
  BY <1>1 DEF Accounted, Waiting

(* A write to the file d loses nothing but the entry whose line it joins.  *)
LEMMA AccountedWrite ==
  ASSUME Control, NEW d, NEW g, Writing(d, g), NEW E, Follows(g, disk[d], E),
         NEW m \in Msgs, Accounted(m), lost \subseteq lost',
         Reachable(d) /\ g # disk[d] => LostBy(TailEntry(disk[d]), "joined") \subseteq lost'
  PROVE  Accounted(m)'
<1>1. /\ d \in Msgs /\ On(d)' = EntriesOf(g.lines) /\ On(d) \subseteq On(d)' \cup TailEntry(disk[d])
      /\ g = disk[d] => On(d)' = On(d)
      /\ \A f \in Msgs : f # d => On(f)' = On(f)
  BY DEF Writing, Follows, On, Control, TypeOK
<1>2. /\ \A f \in Msgs : Reachable(f)' <=> Reachable(f)
      /\ \A h \in Hooks : Has(h)' = Has(h)
      /\ Told' = Told
  BY DEF Writing, Reachable, Has, Told
<1>3. Reachable(d) /\ g # disk[d] => \A n \in TailEntry(disk[d]) : Lost(n)'
  BY LostIsLost DEF Causes
<1> QED
  BY <1>1, <1>2, <1>3, WaitingStays

LEMMA AccountedKill ==
  ASSUME Control, NEW K \in SUBSET Hooks, KillAll(K), UNCHANGED <<disk, path, injected>>,
         NEW c \in Causes, lost' = lost \cup LostBy(Holdings(K), c),
         NEW m \in Msgs, Accounted(m)
  PROVE  Accounted(m)'
<1>1. \A h \in Hooks : /\ tmp'[h] = IF h \in K THEN None ELSE tmp[h]
                       /\ found'[h] = IF h \in K THEN <<>> ELSE found[h]
  BY DEF KillAll
<1>2. m \in Holdings(K) => Lost(m)'
  BY LostIsLost
<1>3. \A h \in K : /\ m \in Has(h) => m \in Holdings(K)
                   /\ tmp[h] # None /\ m \in On(tmp[h]) => m \in Holdings(K)
  BY DEF Holdings, Has, On
<1>4. \A f \in Msgs : /\ On(f)' = On(f)
                      /\ Reachable(f) /\ m \in On(f) => Reachable(f)' \/ Lost(m)'
  BY <1>1, <1>2, <1>3 DEF Reachable, On
<1>5. \A h \in Hooks : m \in Has(h) => m \in Has(h)' \/ Lost(m)'
  BY <1>1, <1>2, <1>3 DEF Has
<1>6. Told' = Told /\ lost \subseteq lost'
  BY DEF Told
<1> QED
  BY <1>4, <1>5, <1>6, WaitingStays

LEMMA AccountedRead ==
  ASSUME Control, NEW h \in Hooks, DrainRead(h), NEW m \in Msgs, Accounted(m)
  PROVE  Accounted(m)'
<1>0. PICK f \in Msgs : f = tmp[h]
  BY DrainTakes
<1>1. PICK more \in Lines :
        /\ EntriesOf(more) \subseteq On(f)
        /\ found[h] \in Lines
        /\ EntriesOf(found'[h]) = EntriesOf(found[h] \o more)
        /\ lost' = lost \cup LostBy(On(f) \ EntriesOf(more), "undecodable")
  BY <1>0, DrainTakes
<1>2. Has(h)' = Has(h) \cup EntriesOf(more)
  BY <1>1, ConcatLines DEF Has
<1>3. \A n \in On(f) \ EntriesOf(more) : Lost(n)'
  BY <1>1, LostIsLost DEF Causes
<1>4. /\ UNCHANGED <<disk, path, injected>>
      /\ \A g \in Hooks : /\ tmp'[g] = IF g = h THEN None ELSE tmp[g]
                          /\ g # h => found'[g] = found[g]
  BY DrainTakes
<1>5. \A g \in Msgs : On(g)' = On(g) /\ (g # f /\ Reachable(g) => Reachable(g)')
  BY <1>0, <1>4 DEF On, Reachable
<1>6. \A g \in Hooks : Has(g) \subseteq Has(g)'
  BY <1>2, <1>4 DEF Has
<1>7. Told' = Told /\ lost \subseteq lost'
  BY <1>1, <1>4 DEF Told
<1>8. m \in On(f) => Lost(m)' \/ m \in Has(h)'
  BY <1>2, <1>3
<1>9. Lost(m) => Lost(m)'
  BY <1>7 DEF Lost
<1> QED
  BY <1>5, <1>6, <1>7, <1>8, <1>9 DEF Accounted, Waiting

LEMMA AccountedInject ==
  ASSUME Control, NEW h \in Hooks, Inject(h), NEW m \in Msgs, Accounted(m)
  PROVE  Accounted(m)'
<1>1. /\ \A f \in Msgs : On(f)' = On(f) /\ (Reachable(f) => Reachable(f)')
      /\ \A g \in Hooks : g # h => Has(g)' = Has(g)
  BY InjectTells DEF On, Reachable
<1>2. lost \subseteq lost' /\ Told \subseteq Told' /\ (m \in Has(h) => m \in Told' \/ Lost(m)')
  <2>1. CASE injected' = injected /\ lost' = lost \cup LostBy(Has(h), "no_reader")
    BY <2>1, LostIsLost DEF Causes, Told
  <2>2. CASE Told' = Told \cup Has(h) /\ UNCHANGED lost
    BY <2>2
  <2> QED
    BY <2>1, <2>2, InjectTells
<1>3. Lost(m) => Lost(m)'
  BY <1>2 DEF Lost
<1> QED
  BY <1>1, <1>2, <1>3 DEF Accounted, Waiting

(* The step of an append that writes the line.                             *)
LEMMA AppendAccounts ==
  ASSUME Control, NEW m \in Msgs, AppendLine(m)
  PROVE  /\ Accounted(m)'
         /\ \A n \in Msgs : Accounted(n) => Accounted(n)'
<1> DEFINE d == fd[m]
           g == WriteLine(disk[fd[m]], m)
<1>1. Writing(d, g) /\ d \in Msgs /\ disk[d] \in Files /\ WellFormed(disk[d])
  BY AppendWrites, FdIsTouched
<1>2. /\ Follows(g, disk[d], {m})
      /\ disk[d].eol => m \in EntriesOf(g.lines)
  <2>1. /\ Follows(g, disk[d], {m})
        /\ disk[d].eol => EntriesOf(g.lines) = EntriesOf(disk[d].lines) \cup {m}
    BY <1>1, WriteLineFollows
  <2> QED
    BY <2>1
<1>3. lost' = lost \cup (IF disk[d].eol THEN {} ELSE LostBy({m}, "joined"))
                   \cup (IF Reachable(d) THEN LostBy(TailEntry(disk[d]), "joined")
                         ELSE LostBy({m}, "late"))
  BY DEF AppendLine
<1> HIDE DEF g
<1>4. ASSUME NEW n \in Msgs, Accounted(n) PROVE Accounted(n)'
  <2>1. lost \subseteq lost' /\ (Reachable(d) => LostBy(TailEntry(disk[d]), "joined") \subseteq lost')
    BY <1>3
  <2> QED
    BY <1>1, <1>2, <1>4, <2>1, AccountedWrite
<1>5. Accounted(m)'
  <2>1. CASE ~disk[d].eol
    <3>1. LostBy({m}, "joined") \subseteq lost'
      BY <1>3, <2>1
    <3> QED
      BY <3>1, LostIsLost DEF Causes, Accounted
  <2>2. CASE ~Reachable(d)
    <3>1. LostBy({m}, "late") \subseteq lost'
      BY <1>3, <2>2
    <3> QED
      BY <3>1, LostIsLost DEF Causes, Accounted
  <2>3. CASE disk[d].eol /\ Reachable(d)
    <3>1. PICK f \in Msgs : f = d
      BY <1>1
    <3>2. disk'[f] = g /\ UNCHANGED <<path, tmp>>
      BY <1>1, <3>1 DEF Writing, Control, TypeOK
    <3>3. m \in On(f)' /\ Reachable(f)'
      BY <1>2, <2>3, <3>1, <3>2 DEF On, Reachable
    <3> QED
      BY <3>3 DEF Accounted, Waiting
  <2> QED
    BY <2>1, <2>2, <2>3
<1> QED
  BY <1>4, <1>5

LEMMA AccountedStep ==
  ASSUME Control, [Next]_vars, NEW m \in Msgs, Accounted(m)
  PROVE  Accounted(m)'
<1>1. CASE UNCHANGED <<disk, tmp, found, injected, lost>> /\ (path' = path \/ path = None)
  <2>1. \A f \in Msgs : On(f)' = On(f) /\ (Reachable(f) => Reachable(f)')
    BY <1>1 DEF On, Reachable
  <2>2. Told' = Told /\ (Lost(m)' <=> Lost(m)) /\ \A h \in Hooks : Has(h)' = Has(h)
    BY <1>1 DEF Told, Lost, Has
  <2> QED
    BY <2>1, <2>2 DEF Accounted, Waiting
<1>2. CASE Quiet
  BY <1>1, <1>2, QuietSteps DEF Control
<1>3. ASSUME NEW n \in Msgs, SaveMessage(n) \/ AcquireLock(n) \/ OpenPending(n)
      PROVE  UNCHANGED <<disk, tmp, found, injected, lost>> /\ (path' = path \/ path = None)
  BY <1>3 DEF SaveMessage, AcquireLock, OpenPending, hook
<1>4. ASSUME NEW n \in Msgs, FinishAppend(n) PROVE Accounted(m)'
  <2>1. disk[fd[n]] \in Files
    BY <1>4, FdIsTouched DEF FinishAppend
  <2>2. Follows(WriteNewline(disk[fd[n]]), disk[fd[n]], {})
    BY <2>1, NewlineFollows DEF Follows
  <2>3. Writing(fd[n], WriteNewline(disk[fd[n]])) /\ lost' = lost
    BY <1>4, FinishWrites
  <2>4. /\ \A f \in Msgs : On(f)' = On(f) /\ (Reachable(f) => Reachable(f)')
        /\ \A h \in Hooks : Has(h)' = Has(h)
        /\ Told' = Told
    BY <2>1, <2>3, NewlineFollows DEF Writing, On, Has, Told, Reachable, Control, TypeOK
  <2> QED
    BY <2>3, <2>4, WaitingStays
<1>5. ASSUME ServiceCrash \/ \E n \in Msgs : AppendFails(n) PROVE Accounted(m)'
  <2>1. CASE Failing
    BY <1>1, <2>1 DEF Failing
  <2>2. ASSUME NEW n \in Msgs, Tearing(n) PROVE Accounted(m)'
    <3>1. PICK torn \in TornFiles(disk[fd[n]]) :
            /\ Writing(fd[n], torn) /\ Follows(torn, disk[fd[n]], {})
            /\ lost' = lost \cup (IF torn # disk[fd[n]] /\ Reachable(fd[n])
                                  THEN LostBy(TailEntry(disk[fd[n]]), "joined") ELSE {})
      BY <2>2 DEF Tearing
    <3>2. lost \subseteq lost' /\ (Reachable(fd[n]) /\ torn # disk[fd[n]]
                                   => LostBy(TailEntry(disk[fd[n]]), "joined") \subseteq lost')
      BY <3>1
    <3> QED
      BY <3>1, <3>2, AccountedWrite
  <2> QED
    BY <1>5, <2>1, <2>2, FailureTears
<1>6. ASSUME NEW h \in Hooks, DrainRename(h) PROVE Accounted(m)'
  <2>1. UNCHANGED <<disk, found, injected, lost>> /\ tmp' = [tmp EXCEPT ![h] = path]
        /\ hpc[h] \notin {"renamed", "renamed2"}
    BY <1>6 DEF DrainRename, TakePending, writer
  <2>2. tmp[h] = None
    BY <2>1 DEF Control, TypeOK, TmpFits
  <2>3. \A f \in Msgs : On(f)' = On(f) /\ (Reachable(f) => Reachable(f)')
    BY <2>1, <2>2 DEF On, Reachable, Control, TypeOK
  <2>4. Told' = Told /\ \A g \in Hooks : Has(g)' = Has(g)
    BY <2>1 DEF Told, Has
  <2> QED
    BY <2>1, <2>3, <2>4, WaitingStays
<1>7. ASSUME NEW h \in Hooks, KillHook(h) PROVE Accounted(m)'
  <2>1. {h} \in SUBSET Hooks /\ KillAll({h}) /\ UNCHANGED <<disk, path, injected>>
        /\ lost' = lost \cup LostBy(Holdings({h}), "killed") /\ "killed" \in Causes
    BY <1>7 DEF KillHook, writer, Causes
  <2> QED
    BY <2>1, AccountedKill
<1>8. ASSUME NEW h \in StopHooks, Sweep(h) PROVE Accounted(m)'
  <2>1. PICK K \in SUBSET Hooks : /\ KillAll(K) /\ UNCHANGED <<disk, path, injected>>
                                  /\ lost' = lost \cup LostBy(Holdings(K), "swept")
    BY <1>8, SweepKills
  <2>2. "swept" \in Causes
    BY DEF Causes
  <2> QED
    BY <2>1, <2>2, AccountedKill
<1> QED
  BY <1>1, <1>2, <1>3, <1>4, <1>5, <1>6, <1>7, <1>8,
     AppendAccounts, AccountedRead, AccountedInject, Steps

LEMMA AllAccountedStep ==
  ASSUME Control, AllAccounted, [Next]_vars
  PROVE  AllAccounted'
<1> SUFFICES ASSUME NEW m \in Msgs, wpc'[m] \in {"written", "done"}
             PROVE  Accounted(m)'
  BY DEF AllAccounted
<1>1. CASE wpc[m] \in {"written", "done"}
  BY <1>1, AccountedStep DEF AllAccounted
<1>2. CASE wpc[m] \notin {"written", "done"}
  <2>1. \A n \in Msgs : ~FinishAppend(n)
    <3> SUFFICES ASSUME NEW n \in Msgs, FinishAppend(n)
                 PROVE  FALSE
      OBVIOUS
    <3> QED
      BY <1>2, FinishWrites
  <2>2. ~Quiet
    BY <1>2, QuietSteps DEF Control
  <2>3. \A n \in Msgs : ~(SaveMessage(n) \/ AcquireLock(n) \/ OpenPending(n))
    BY <1>2 DEF SaveMessage, AcquireLock, OpenPending, Control, TypeOK
  <2>4. ~(ServiceCrash \/ \E n \in Msgs : AppendFails(n))
    BY <1>2, FailureTears
  <2>5. \A h \in Hooks : ~(DrainRename(h) \/ DrainRead(h) \/ Inject(h) \/ KillHook(h))
    BY <1>2 DEF DrainRename, DrainRead, Inject, KillHook, writer
  <2>6. \A h \in StopHooks : ~Sweep(h)
    BY <1>2, SweepKills
  <2>7. PICK n \in Msgs : AppendLine(n)
    BY <2>1, <2>2, <2>3, <2>4, <2>5, <2>6, Steps
  <2>8. n = m
    BY <1>2, <2>7, AppendWrites
  <2> QED
    BY <2>7, <2>8, AppendAccounts
<1> QED
  BY <1>1, <1>2

-----------------------------------------------------------------------------
(* While nothing fails.                                                    *)

(* Every file ends in a newline, but the one whose append is about to      *)
(* write it, and every line can be decoded.                                *)
Clean ==
  faults = 0 =>
    \A f \in Msgs :
      /\ disk[f].eol \/ \E m \in Msgs : wpc[m] = "written" /\ fd[m] = f
      /\ \A i \in DOMAIN disk[f].lines : disk[f].lines[i] # Undecodable

LEMMA CleanInit == Init => Clean /\ FaultFreeLosses
BY DEF Init, Clean, FaultFreeLosses, EmptyFile

(* An append finds the file it has open terminated, and adds its line.     *)
LEMMA CleanAppend ==
  ASSUME Control, Clean, faults = 0, NEW m \in Msgs, AppendLine(m)
  PROVE  /\ Clean'
         /\ lost' = lost \/ lost' = lost \cup LostBy({m}, "late")
<1>1. wpc[m] = "opened" /\ fd[m] \in Msgs /\ disk[fd[m]] \in Files
  BY FdIsTouched DEF AppendLine
<1>2. disk[fd[m]].eol
  BY <1>1 DEF Clean, Control, LockHeld
<1>3. TailEntry(disk[fd[m]]) = {}
  BY <1>2 DEF TailEntry
<1>4. lost' = lost \/ lost' = lost \cup LostBy({m}, "late")
  BY <1>2, <1>3 DEF AppendLine, LostBy
<1>5. PICK d \in Msgs : d = fd[m]
  BY <1>1
<1>6. /\ disk'[d] = [lines |-> Append(disk[d].lines, m), eol |-> FALSE]
      /\ \A f \in Msgs : f # d => disk'[f] = disk[f]
      /\ wpc'[m] = "written" /\ fd' = fd
      /\ \A n \in Msgs \ {m} : wpc'[n] = wpc[n]
  BY <1>2, <1>5 DEF AppendLine, WriteLine, Control, TypeOK
<1>7. disk[d].lines \in Lines /\ m # Undecodable
  BY FilesOnDisk
<1>8. \A i \in DOMAIN disk'[d].lines : disk'[d].lines[i] # Undecodable
  BY <1>6, <1>7 DEF Clean, Lines
<1>9. ASSUME NEW f \in Msgs
      PROVE  /\ disk'[f].eol \/ \E n \in Msgs : wpc'[n] = "written" /\ fd'[n] = f
             /\ \A i \in DOMAIN disk'[f].lines : disk'[f].lines[i] # Undecodable
  <2>1. CASE f = d
    BY <1>5, <1>6, <1>8, <2>1
  <2>2. CASE f # d
    <3>1. /\ disk[f].eol \/ \E n \in Msgs : wpc[n] = "written" /\ fd[n] = f
          /\ \A i \in DOMAIN disk[f].lines : disk[f].lines[i] # Undecodable
      BY DEF Clean
    <3>2. \A n \in Msgs : wpc[n] = "written" => wpc'[n] = "written" /\ fd'[n] = fd[n]
      BY <1>1, <1>6
    <3> QED
      BY <1>6, <2>2, <3>1, <3>2
  <2> QED
    BY <2>1, <2>2
<1>10. Clean'
  BY <1>9 DEF Clean
<1> QED
  BY <1>4, <1>10

LEMMA CleanFinish ==
  ASSUME Control, Clean, NEW m \in Msgs, FinishAppend(m)
  PROVE  Clean'
<1>1. wpc[m] = "written" /\ fd[m] \in Msgs
  BY FdIsTouched DEF FinishAppend
<1>2. PICK d \in Msgs : d = fd[m]
  BY <1>1
<1>3. /\ disk'[d] = WriteNewline(disk[d]) /\ UNCHANGED <<fd, faults>>
      /\ \A f \in Msgs : f # d => disk'[f] = disk[f]
      /\ \A n \in Msgs \ {m} : wpc'[n] = wpc[n]
  BY <1>2 DEF FinishAppend, Control, TypeOK
<1>4. disk'[d].eol /\ disk'[d].lines = disk[d].lines
  BY <1>3 DEF WriteNewline
<1>5. ASSUME faults = 0, NEW f \in Msgs, f # d
      PROVE  disk'[f].eol \/ \E n \in Msgs : wpc'[n] = "written" /\ fd'[n] = f
  BY <1>2, <1>3, <1>5 DEF Clean
<1> QED
  BY <1>3, <1>4, <1>5 DEF Clean

LEMMA CleanStep ==
  ASSUME Control, Succeeded, Clean, FaultFreeLosses, [Next]_vars
  PROVE  Clean' /\ FaultFreeLosses'
<1>1. faults \in Nat /\ faults' \in Nat /\ faults' >= faults
  <2>1. Control'
    BY ControlStep
  <2>2. faults \in Nat /\ faults' \in Nat
    BY <2>1 DEF Control, TypeOK
  <2>3. ASSUME Fault PROVE faults' >= faults
    BY <2>2, <2>3 DEF Fault
  <2>4. Fault \/ faults' = faults
    BY DEF Next, SenderStep, HookStep, FaultStep, SaveMessage, AcquireLock, OpenPending, AppendLine,
           FinishAppend, AppendFails, ServiceCrash, StopEvent, UserPrompt, StartFails, Sweep,
           ClaimLock, ClaimFails, ToolCall, DrainRename, DrainNothing, DrainRead, PollAgain,
           StepDown, ExitOrphaned, Inject, KillHook, CcExit, vars
  <2> QED
    BY <2>2, <2>3, <2>4
<1> SUFFICES ASSUME faults' = 0
             PROVE  Clean' /\ FaultFreeLosses'
  BY DEF Clean, FaultFreeLosses
<1>2. faults = 0
  BY <1>1
<1>3. ASSUME UNCHANGED lost PROVE FaultFreeLosses'
  BY <1>2, <1>3 DEF FaultFreeLosses
<1>4. ASSUME NEW S, lost' = lost \cup LostBy(S, "late") \/ lost' = lost \cup LostBy(S, "swept")
      PROVE  FaultFreeLosses'
  <2>1. \A m \in Msgs, c \in Causes, x \in {"late", "swept"} :
          <<m, c>> \in LostBy(S, x) => c \in {"late", "swept"}
    BY DEF LostBy
  <2> QED
    BY <1>2, <1>4, <2>1 DEF FaultFreeLosses
<1>5. ASSUME UNCHANGED disk, \A m \in Msgs : wpc[m] = "written" => wpc'[m] = "written" /\ fd'[m] = fd[m]
      PROVE  Clean'
  BY <1>2, <1>5 DEF Clean
<1>6. CASE Quiet
  BY <1>3, <1>5, <1>6, QuietSteps DEF Control
<1>7. ASSUME NEW m \in Msgs, SaveMessage(m) \/ AcquireLock(m) \/ OpenPending(m)
      PROVE  Clean' /\ FaultFreeLosses'
  <2>1. /\ UNCHANGED <<disk, lost>>
        /\ \A n \in Msgs : wpc[n] = "written" => wpc'[n] = "written" /\ fd'[n] = fd[n]
    BY <1>7 DEF SaveMessage, AcquireLock, OpenPending, Control, TypeOK
  <2> QED
    BY <1>3, <1>5, <2>1
<1>8. ASSUME NEW m \in Msgs, AppendLine(m) PROVE Clean' /\ FaultFreeLosses'
  BY <1>2, <1>3, <1>4, <1>8, CleanAppend
<1>9. ASSUME NEW m \in Msgs, FinishAppend(m) PROVE Clean' /\ FaultFreeLosses'
  BY <1>3, <1>9, CleanFinish, FinishWrites
<1>10. ~(ServiceCrash \/ \E n \in Msgs : AppendFails(n))
  BY <1>1, <1>2, FailureTears
<1>11. ASSUME NEW h \in Hooks, DrainRename(h) \/ DrainRead(h) \/ Inject(h) \/ KillHook(h)
       PROVE  Clean' /\ FaultFreeLosses'
  <2>1. UNCHANGED <<disk, wpc, fd>>
    BY <1>11 DEF DrainRename, DrainRead, Inject, KillHook, writer
  <2>2. UNCHANGED lost
    <3>1. CASE DrainRename(h)
      BY <3>1 DEF DrainRename
    <3>2. CASE DrainRead(h)
      <4>1. tmp[h] \in Msgs
        BY <3>2, DrainTakes
      <4>2. ReadLines(disk[tmp[h]]) = disk[tmp[h]].lines
        BY <1>2, <4>1 DEF ReadLines, Clean
      <4> QED
        BY <3>2, <4>2 DEF DrainRead, LostBy
    <3>3. CASE Inject(h)
      BY <1>2, <3>3 DEF Inject, Succeeded
    <3>4. ~KillHook(h)
      BY <1>1, <1>2 DEF KillHook, Fault
    <3> QED
      BY <1>11, <3>1, <3>2, <3>3, <3>4
  <2> QED
    BY <1>3, <1>5, <2>1, <2>2
<1>12. ASSUME NEW h \in StopHooks, Sweep(h) PROVE Clean' /\ FaultFreeLosses'
  <2>1. UNCHANGED <<disk, wpc, fd>> /\ \E S : lost' = lost \cup LostBy(S, "swept")
    BY <1>12, SweepKills
  <2> QED
    BY <1>4, <1>5, <2>1
<1> QED
  BY <1>6, <1>7, <1>8, <1>9, <1>10, <1>11, <1>12, Steps

(* The lead is told of saved messages only, every entry is on its way or   *)
(* lost at a named place, and only the open-file window of an append and   *)
(* the sweep lose any while nothing fails.                                 *)
THEOREM QueueAccounts == Spec => []EntriesAccounted
<1> DEFINE Inv == Control /\ Succeeded /\ Content /\ AllAccounted /\ Clean /\ FaultFreeLosses
<1>1. Init => Inv
  <2>1. Init => AllAccounted
    BY DEF Init, AllAccounted
  <2> QED
    BY <2>1, ControlInit, SucceededInit, ContentInit, CleanInit
<1>2. Inv /\ [Next]_vars => Inv'
  BY ControlStep, SucceededStep, ContentStep, AllAccountedStep, CleanStep
<1>3. Inv => EntriesAccounted
  <2> SUFFICES ASSUME Inv PROVE EntriesAccounted
    OBVIOUS
  <2>1. NotifiedIsSaved
    BY DEF Content, OnlySaved, NotifiedIsSaved, On, Has, Told
  <2>2. EveryEntryAccounted
    BY WaitingIsInFlight DEF AllAccounted, EveryEntryAccounted, Accounted, Lost
  <2> QED
    BY <2>1, <2>2 DEF EntriesAccounted
<1> QED
  BY <1>1, <1>2, <1>3, PTL DEF Spec

=============================================================================
