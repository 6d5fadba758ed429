------------------------ MODULE TranscriptStoreProofs ------------------------
(***************************************************************************)
(* Proofs about TranscriptStore for every set of ids, actors and clients   *)
(* and every number of interrupted appends.                                *)
(***************************************************************************)
EXTENDS TranscriptStore, TLAPS

-----------------------------------------------------------------------------
(* Lemmas about the file.                                                  *)

(* An append to a terminated file adds one line and keeps the others.      *)
LEMMA AppendLines ==
  ASSUME NEW f \in JsonFile(Entry), NEW e \in Entry \cup Broken, f.eol
  PROVE  /\ WriteLine(f, e) \in JsonFile(Entry)
         /\ WriteLine(f, e).lines = Append(f.lines, e)
         /\ ~WriteLine(f, e).eol
         /\ Len(WriteLine(f, e).lines) = Len(f.lines) + 1
         /\ DOMAIN WriteLine(f, e).lines = 1..(Len(f.lines) + 1)
         /\ WriteLine(f, e).lines[Len(f.lines) + 1] = e
         /\ \A i \in DOMAIN f.lines :
              /\ i \in 1..Len(f.lines)
              /\ WriteLine(f, e).lines[i] = f.lines[i]
<1>1. f.lines \in Seq(Entry \cup Broken) /\ Len(f.lines) \in Nat
  BY DEF JsonFile
<1>2. WriteLine(f, e) = [lines |-> Append(f.lines, e), eol |-> FALSE]
  BY DEF WriteLine
<1>3. Append(f.lines, e) \in Seq(Entry \cup Broken)
  BY <1>1
<1> QED
  BY <1>1, <1>2, <1>3 DEF JsonFile

(* Of the lines that carry a version, an entry of id adds one.             *)
LEMMA LinesAfterAppend ==
  ASSUME NEW f \in JsonFile(Entry), NEW e \in Entry \cup Broken, f.eol,
         NEW id \in Ids
  PROVE  LinesOf(WriteLine(f, e), id) =
           IF e \notin Broken /\ e.id = id
           THEN LinesOf(f, id) \cup {Len(f.lines) + 1}
           ELSE LinesOf(f, id)
<1>1. Len(f.lines) \in Nat /\ DOMAIN f.lines = 1..Len(f.lines)
  BY DEF JsonFile
<1> QED
  BY <1>1, AppendLines DEF LinesOf

(* The latest entry of an id is one of the file's lines, of that id.       *)
LEMMA LatestIsEntry ==
  ASSUME NEW f \in JsonFile(Entry), NEW id \in Ids, HasEntry(f, id)
  PROVE  /\ LastLine(f, id) \in DOMAIN f.lines
         /\ LatestEntry(f, id) \in Entry
         /\ LatestEntry(f, id).id = id
<1>1. LastLine(f, id) \in LinesOf(f, id)
  BY DEF HasEntry, LastLine
<1>2. \A i \in DOMAIN f.lines : f.lines[i] \in Entry \cup Broken
  BY DEF JsonFile
<1> QED
  BY <1>1, <1>2 DEF LinesOf, LatestEntry

(* Appending an entry makes it the latest of its id; appending any line    *)
(* leaves the latest entries of the other ids.                             *)
LEMMA LatestAfterAppend ==
  ASSUME NEW f \in JsonFile(Entry), NEW e \in Entry \cup Broken, f.eol
  PROVE  /\ e \notin Broken =>
              /\ e.id \in Ids
              /\ HasEntry(WriteLine(f, e), e.id)
              /\ LatestEntry(WriteLine(f, e), e.id) = e
         /\ \A id \in Ids : (e \in Broken \/ e.id # id) =>
              /\ LinesOf(WriteLine(f, e), id) = LinesOf(f, id)
              /\ HasEntry(WriteLine(f, e), id) <=> HasEntry(f, id)
              /\ HasEntry(f, id) =>
                   LatestEntry(WriteLine(f, e), id) = LatestEntry(f, id)
<1> DEFINE g == WriteLine(f, e)
           n == Len(f.lines) + 1
<1>0. Len(f.lines) \in Nat /\ DOMAIN f.lines = 1..Len(f.lines)
  BY DEF JsonFile
<1>1. \A id \in Ids : \A i \in LinesOf(f, id) : i \in 1..Len(f.lines)
  BY <1>0 DEF LinesOf
<1>2. ASSUME e \notin Broken
      PROVE  /\ e.id \in Ids
             /\ HasEntry(g, e.id)
             /\ LatestEntry(g, e.id) = e
  <2>1. e.id \in Ids
    BY <1>2 DEF Entry
  <2>2. LinesOf(g, e.id) = LinesOf(f, e.id) \cup {n}
    BY <1>2, <2>1, LinesAfterAppend
  <2>3. IsLast(n, LinesOf(g, e.id))
    BY <1>0, <1>1, <2>1, <2>2 DEF IsLast
  <2>4. \A i \in LinesOf(g, e.id) : IsLast(i, LinesOf(g, e.id)) => i = n
    <3> SUFFICES ASSUME NEW i \in LinesOf(g, e.id), n <= i
                 PROVE  i = n
      BY <2>2 DEF IsLast
    <3>1. i \in 1..Len(f.lines) \/ i = n
      BY <1>1, <2>1, <2>2
    <3> QED
      BY <1>0, <3>1
  <2>5. LastLine(g, e.id) = n
    BY <2>2, <2>3, <2>4 DEF LastLine
  <2>6. g.lines[n] = e
    BY AppendLines
  <2> QED
    BY <2>1, <2>2, <2>3, <2>5, <2>6 DEF HasEntry, LatestEntry
<1>3. ASSUME NEW id \in Ids, e \in Broken \/ e.id # id
      PROVE  /\ LinesOf(g, id) = LinesOf(f, id)
             /\ HasEntry(g, id) <=> HasEntry(f, id)
             /\ HasEntry(f, id) => LatestEntry(g, id) = LatestEntry(f, id)
  <2>1. LinesOf(g, id) = LinesOf(f, id)
    BY <1>3, LinesAfterAppend
  <2>2. LastLine(g, id) = LastLine(f, id)
    BY <2>1 DEF LastLine
  <2>3. ASSUME HasEntry(f, id)
        PROVE  LatestEntry(g, id) = LatestEntry(f, id)
    BY <2>2, <2>3, LatestIsEntry, AppendLines DEF LatestEntry
  <2> QED
    BY <2>1, <2>3 DEF HasEntry
<1> QED
  BY <1>2, <1>3

(* The newline changes no line.                                            *)
LEMMA NewlineKeepsLines ==
  ASSUME NEW f \in JsonFile(Entry)
  PROVE  /\ WriteNewline(f) \in JsonFile(Entry)
         /\ WriteNewline(f).lines = f.lines
         /\ WriteNewline(f).eol
BY DEF WriteNewline, JsonFile

(* Two files with the same lines have the same entries.                    *)
LEMMA SameLines ==
  ASSUME NEW f, NEW g, f.lines = g.lines, NEW id
  PROVE  /\ LinesOf(f, id) = LinesOf(g, id)
         /\ HasEntry(f, id) <=> HasEntry(g, id)
         /\ LatestEntry(f, id) = LatestEntry(g, id)
         /\ Active(f, id) <=> Active(g, id)
<1>1. LinesOf(f, id) = LinesOf(g, id)
  BY DEF LinesOf
<1>2. LastLine(f, id) = LastLine(g, id)
  BY <1>1 DEF LastLine
<1> QED
  BY <1>1, <1>2 DEF HasEntry, LatestEntry, Active

(* A torn write to a terminated file is the append of its mark.            *)
LEMMA TornIsAppend ==
  ASSUME NEW f, f.eol, NEW mark
  PROVE  WriteTorn(f, mark) = WriteLine(f, mark)
BY DEF WriteTorn, WriteLine

(* Bytes joined to an unterminated line leave a file.                      *)
LEMMA JoinedFile ==
  ASSUME NEW f \in JsonFile(Entry), ~f.eol, Len(f.lines) > 0,
         NEW e, NEW mark \in Broken
  PROVE  /\ WriteLine(f, e) \in JsonFile(Entry)
         /\ WriteTorn(f, mark) \in JsonFile(Entry)
         /\ Len(WriteLine(f, e).lines) = Len(f.lines)
         /\ Len(WriteTorn(f, mark).lines) = Len(f.lines)
<1> DEFINE n == Len(f.lines)
<1>1. f.lines \in Seq(Entry \cup Broken) /\ n \in DOMAIN f.lines
  BY DEF JsonFile
<1>2. ASSUME NEW x \in Broken
      PROVE  /\ [f.lines EXCEPT ![n] = x] \in Seq(Entry \cup Broken)
             /\ Len([f.lines EXCEPT ![n] = x]) = n
  BY <1>1
<1>3. Joined(f.lines[n]) \in Broken
  BY DEF Joined, Broken
<1> QED
  BY <1>2, <1>3 DEF WriteLine, WriteTorn, JsonFile, Broken

-----------------------------------------------------------------------------
(* The inductive invariant.                                                *)

(* The empty transcript satisfies the invariant.                           *)
LEMMA InitIInv == Init => IInv
<1> SUFFICES ASSUME Init PROVE IInv
  OBVIOUS
<1>1. EmptyFile \in JsonFile(Entry) /\ EmptyFile.eol /\ EmptyFile.lines = <<>>
  BY DEF EmptyFile, JsonFile
<1>2. DOMAIN file.lines = {}
  BY <1>1 DEF Init
<1>3. \A id \in Ids : LinesOf(file, id) = {}
  BY <1>2 DEF LinesOf
<1>4. TypeOK
  <2>1. 0 \in 0..MaxFaults
    BY TranscriptConstants
  <2>2. file \in JsonFile(Entry) /\ faults \in 0..MaxFaults
    BY <1>1, <2>1 DEF Init
  <2> QED
    BY <2>2 DEF Init, TypeOK
<1>5. Good
  BY <1>2, <1>3 DEF Init, Good, BrokenOnlyAtTail, FreshIds, PendingFits,
                   WrittenShows, AllToldShows
<1> QED
  BY <1>1, <1>4, <1>5 DEF IInv, TailShape, Init

(* What the first step of every operation keeps.                           *)
LEMMA BeginStep ==
  ASSUME IInv, NEW c \in Clients, NEW e \in Entry, Begin(c, e),
         UNCHANGED <<file, written, told, faults, joined>>,
         used \subseteq used', used' \subseteq Ids,
         ~joined => Fits(e) /\ e.id \in used'
  PROVE  IInv'
<1>0. /\ TypeOK /\ TailShape /\ (~joined => Good)
      /\ pending[c] = None /\ lock = None
      /\ lock' = c /\ pending' = [pending EXCEPT ![c] = e]
      /\ None \notin Entry /\ None \notin Clients
  BY TranscriptConstants DEF IInv, Begin, LockFree
<1>1. \A d \in Clients : pending[d] = None
  BY <1>0 DEF TypeOK
<1>2. /\ pending'[c] = e
      /\ \A d \in Clients \ {c} : pending'[d] = None
  BY <1>0, <1>1 DEF TypeOK
<1>3. written = {}
  BY <1>1 DEF TypeOK, IInv
<1>4. TypeOK'
  BY <1>0, <1>2, <1>3 DEF TypeOK
<1>5. ASSUME ~joined PROVE Good'
  <2>1. Good /\ Fits(e) /\ e.id \in used'
    BY <1>0, <1>5
  <2>2. BrokenOnlyAtTail' /\ AllToldShows'
    BY <2>1 DEF Good, BrokenOnlyAtTail, AllToldShows, Shows
  <2>3. FreshIds'
    BY <1>2, <2>1 DEF Good, FreshIds
  <2>4. PendingFits'
    <3>1. Fits(e)'  <=> Fits(e)
      BY DEF Fits
    <3> QED
      BY <1>2, <2>1, <3>1 DEF PendingFits, Fits
  <2>5. WrittenShows'
    BY <1>3 DEF WrittenShows
  <2> QED
    BY <2>2, <2>3, <2>4, <2>5 DEF Good
<1> QED
  BY <1>0, <1>4, <1>5 DEF IInv, TailShape

(* A save of a fresh id keeps the invariant.                               *)
LEMMA SaveStep ==
  ASSUME IInv, NEW c \in Clients, NEW id \in Ids, Save(c, id)
  PROVE  IInv'
<1> DEFINE e == [id |-> id, live |-> TRUE, read |-> {}, acked |-> {}]
<1>1. e \in Entry /\ e.id = id
  BY DEF Entry
<1>2. ~joined => Fits(e)
  <2>1. id \in Ids \ used
    BY DEF Save
  <2> QED
    BY <1>1, <2>1 DEF IInv, Good, FreshIds, Fits
<1>3. used \subseteq used' /\ used' \subseteq Ids /\ id \in used'
  BY DEF Save, IInv, TypeOK
<1> HIDE DEF e
<1> QED
  BY <1>1, <1>2, <1>3, BeginStep DEF Save, e

(* An id with a line has been saved.                                       *)
LEMMA EntryIsUsed ==
  ASSUME IInv, ~joined, NEW id \in Ids, HasEntry(file, id)
  PROVE  id \in used
BY DEF IInv, Good, FreshIds, HasEntry

(* A receipt computed under the lock keeps the invariant.                  *)
LEMMA ReceiptStep ==
  ASSUME IInv, NEW c \in Clients, NEW id \in Ids, NEW actor \in Actors,
         NEW ack \in BOOLEAN, Receipt(c, id, actor, ack)
  PROVE  IInv'
<1> DEFINE old == LatestEntry(file, id)
           e   == WithReceipt(old, actor, ack)
<1>1. file \in JsonFile(Entry) /\ HasEntry(file, id) /\ Active(file, id)
  BY DEF Receipt, Active, IInv, TypeOK
<1>2. old \in Entry /\ old.id = id
  BY <1>1, LatestIsEntry
<1>3. e \in Entry /\ e.id = id
  BY <1>2 DEF WithReceipt, Entry
<1>4. ~joined => Fits(e)
  BY <1>1, <1>3 DEF Receipt, Fits
<1>5. ~joined => id \in used
  BY <1>1, EntryIsUsed
<1>6. used \subseteq used' /\ used' \subseteq Ids /\ used' = used
  BY DEF Receipt, IInv, TypeOK
<1> HIDE DEF e
<1> QED
  BY <1>3, <1>4, <1>5, <1>6, BeginStep DEF Receipt, e

(* A tombstone about to be appended keeps the invariant.                   *)
LEMMA DeleteStep ==
  ASSUME IInv, NEW c \in Clients, NEW id \in Ids, Delete(c, id)
  PROVE  IInv'
<1> DEFINE e == [id |-> id, live |-> FALSE, read |-> {}, acked |-> {}]
<1>1. e \in Entry /\ e.id = id /\ ~e.live
  BY DEF Entry
<1>2. ~joined => Fits(e)
  BY <1>1 DEF Delete, Fits
<1>3. ~joined => id \in used
  BY EntryIsUsed DEF Delete
<1>4. used \subseteq used' /\ used' \subseteq Ids /\ used' = used
  BY DEF Delete, IInv, TypeOK
<1> HIDE DEF e
<1> QED
  BY <1>1, <1>2, <1>3, <1>4, BeginStep DEF Delete, e

(* While the pending entry fits, appending it keeps what callers were told *)
(* of its id.                                                              *)
LEMMA FitsKeepsTold ==
  ASSUME IInv, NEW e \in Entry, Fits(e), told[e.id] # None, Shows(e.id)
  PROVE  \/ ~e.live
         \/ /\ told[e.id].live
            /\ told[e.id].read \subseteq e.read
            /\ told[e.id].acked \subseteq e.acked
<1>0. e.id \in Ids
  BY DEF Entry
<1>1. CASE Active(file, e.id) /\ \E actor \in Recipients[e.id], ack \in BOOLEAN :
            e = WithReceipt(LatestEntry(file, e.id), actor, ack)
  <2>1. LatestEntry(file, e.id) \in Entry
    BY <1>0, <1>1, LatestIsEntry DEF Active, IInv, TypeOK
  <2>2. /\ LatestEntry(file, e.id).read \subseteq e.read
        /\ LatestEntry(file, e.id).acked \subseteq e.acked
    BY <1>1, <2>1 DEF WithReceipt, Entry
  <2> QED
    BY <1>1, <2>2 DEF Shows, Active
<1> QED
  BY <1>1 DEF Fits

(* Writing the line keeps the invariant.                                   *)
LEMMA AppendStep ==
  ASSUME IInv, NEW c \in Clients, AppendLine(c)
  PROVE  IInv'
<1> DEFINE e == pending[c]
<1>0. /\ TypeOK /\ TailShape /\ (~joined => Good)
      /\ e # None /\ e \in Entry /\ e \notin Broken /\ c \notin written
      /\ lock = c /\ file \in JsonFile(Entry)
  BY TranscriptConstants DEF IInv, TypeOK, AppendLine
<1>1. /\ file' = WriteLine(file, e)
      /\ joined' = (joined \/ ~file.eol)
      /\ written' = written \cup {c}
      /\ UNCHANGED <<lock, pending, used, told, faults>>
  BY DEF AppendLine
<1>2. \A d \in Clients : pending[d] # None => d = c
  BY <1>0 DEF TypeOK
<1>3. file' \in JsonFile(Entry) /\ TailShape'
  <2>1. CASE file.eol
    <3>1. Len(file.lines) \in Nat
      BY <1>0 DEF JsonFile
    <3> QED
      BY <1>0, <1>1, <2>1, <3>1, AppendLines DEF TailShape
  <2>2. CASE ~file.eol
    <3>1. Malformed \in Broken
      BY DEF Broken
    <3> QED
      BY <1>0, <1>1, <2>2, <3>1, JoinedFile DEF TailShape
  <2> QED
    BY <2>1, <2>2 
<1>4. TypeOK'
  BY <1>0, <1>1, <1>3 DEF TypeOK
<1>5. ASSUME ~joined' PROVE Good'
  <2>0. ~joined /\ file.eol /\ Good /\ Fits(e) /\ e.id \in Ids
    BY <1>0, <1>1, <1>5 DEF Good, PendingFits, Entry
  <2>1. /\ HasEntry(file', e.id)
        /\ LatestEntry(file', e.id) = e
        /\ \A id \in Ids \ {e.id} :
             /\ LinesOf(file', id) = LinesOf(file, id)
             /\ HasEntry(file', id) <=> HasEntry(file, id)
             /\ HasEntry(file, id) => LatestEntry(file', id) = LatestEntry(file, id)
    BY <1>0, <1>1, <2>0, LatestAfterAppend
  <2>2. BrokenOnlyAtTail'
    <3>1. ASSUME NEW i \in DOMAIN file'.lines, file'.lines[i] \in Broken
          PROVE  FALSE
      <4>1. Len(file.lines) \in Nat /\ DOMAIN file.lines = 1..Len(file.lines)
        BY <1>0 DEF JsonFile
      <4>2. i \in 1..(Len(file.lines) + 1)
        BY <1>0, <1>1, <2>0, <3>1, AppendLines
      <4>3. CASE i = Len(file.lines) + 1
        BY <1>0, <1>1, <2>0, <3>1, <4>3, AppendLines
      <4>4. CASE i \in DOMAIN file.lines
        BY <1>0, <1>1, <2>0, <3>1, <4>4, AppendLines DEF Good, BrokenOnlyAtTail
      <4> QED
        BY <4>1, <4>2, <4>3, <4>4
    <3> QED
      BY <3>1 DEF BrokenOnlyAtTail
  <2>3. FreshIds'
    BY <1>0, <1>1, <2>0, <2>1 DEF Good, FreshIds
  <2>4. PendingFits'
    BY <1>1, <1>2 DEF PendingFits
  <2>5. WrittenShows'
    <3>1. \A d \in written : d \in Clients /\ pending[d] # None
      BY <1>0 DEF TypeOK
    <3>2. written' = {c}
      BY <1>0, <1>1, <1>2, <3>1
    <3>3. file'.lines[Len(file'.lines)] = e
      BY <1>0, <1>1, <2>0, AppendLines
    <3> QED
      BY <1>1, <2>1, <3>2, <3>3 DEF WrittenShows
  <2>6. AllToldShows'
    <3> SUFFICES ASSUME NEW id \in Ids, told[id] # None
                 PROVE  Shows(id)'
      BY <1>1 DEF AllToldShows
    <3>1. Shows(id)
      BY <2>0 DEF Good, AllToldShows
    <3>2. CASE id = e.id
      BY <1>0, <1>1, <2>0, <2>1, <3>1, <3>2, FitsKeepsTold DEF Shows
    <3>3. CASE id # e.id
      BY <1>1, <2>1, <3>1, <3>3 DEF Shows
    <3> QED
      BY <3>2, <3>3
  <2> QED
    BY <2>2, <2>3, <2>4, <2>5, <2>6 DEF Good
<1> QED
  BY <1>3, <1>4, <1>5 DEF IInv

(* Writing the newline and answering the caller keeps the invariant.       *)
LEMMA FinishStep ==
  ASSUME IInv, NEW c \in Clients, Finish(c)
  PROVE  IInv'
<1> DEFINE e == pending[c]
<1>0. /\ TypeOK /\ TailShape /\ (~joined => Good)
      /\ c \in written /\ e # None /\ e \in Entry /\ lock = c
      /\ e.id \in Ids /\ file \in JsonFile(Entry)
      /\ None \notin Entry
  BY TranscriptConstants DEF IInv, TypeOK, Finish, Entry
<1>1. /\ file' = WriteNewline(file)
      /\ lock' = None
      /\ told' = [told EXCEPT ![e.id] = e]
      /\ pending' = [pending EXCEPT ![c] = None]
      /\ written' = written \ {c}
      /\ UNCHANGED <<used, faults, joined>>
  BY DEF Finish
<1>2. file' \in JsonFile(Entry) /\ file'.lines = file.lines /\ file'.eol
  BY <1>0, <1>1, NewlineKeepsLines
<1>3. \A d \in Clients : pending'[d] = None
  BY <1>0, <1>1 DEF TypeOK
<1>4. written' = {}
  BY <1>0, <1>1 DEF TypeOK
<1>5. told' \in [Ids -> Entry \cup {None}] /\ told'[e.id] = e
      /\ \A id \in Ids \ {e.id} : told'[id] = told[id]
  BY <1>0, <1>1 DEF TypeOK
<1>6. TypeOK'
  BY <1>0, <1>1, <1>2, <1>3, <1>4, <1>5 DEF TypeOK
<1>7. \A id \in Ids : /\ LinesOf(file', id) = LinesOf(file, id)
                      /\ HasEntry(file', id) <=> HasEntry(file, id)
                      /\ LatestEntry(file', id) = LatestEntry(file, id)
  BY <1>2, SameLines
<1>8. ASSUME ~joined' PROVE Good'
  <2>0. Good /\ HasEntry(file, e.id) /\ LatestEntry(file, e.id) = e
    BY <1>0, <1>1, <1>8 DEF Good, WrittenShows
  <2>1. e.id \in used
    BY <1>0, <1>1, <1>8, <2>0, EntryIsUsed
  <2>2. BrokenOnlyAtTail'
    <3>1. ASSUME NEW i \in DOMAIN file.lines, file.lines[i] \in Broken
          PROVE  FALSE
      <4>1. i = Len(file.lines)
        BY <2>0, <3>1 DEF Good, BrokenOnlyAtTail
      <4>2. file.lines[Len(file.lines)] = e
        BY <1>0, <2>0 DEF Good, WrittenShows
      <4> QED
        BY <1>0, <3>1, <4>1, <4>2, TranscriptConstants
    <3> QED
      BY <1>2, <3>1 DEF BrokenOnlyAtTail
  <2>3. FreshIds'
    BY <1>1, <1>3, <1>5, <1>7, <2>0, <2>1 DEF Good, FreshIds
  <2>4. PendingFits' /\ WrittenShows'
    BY <1>3, <1>4 DEF PendingFits, WrittenShows
  <2>5. AllToldShows'
    <3> SUFFICES ASSUME NEW id \in Ids, told'[id] # None
                 PROVE  Shows(id)'
      BY DEF AllToldShows
    <3>1. CASE id = e.id
      BY <1>5, <1>7, <2>0, <3>1 DEF Shows
    <3>2. CASE id # e.id
      BY <1>5, <1>7, <2>0, <3>2 DEF Shows, Good, AllToldShows
    <3> QED
      BY <3>1, <3>2
  <2> QED
    BY <2>2, <2>3, <2>4, <2>5 DEF Good
<1> QED
  BY <1>0, <1>2, <1>6, <1>8 DEF IInv, TailShape

(* An interrupted append leaves the file alone or tears its own line.      *)
LEMMA InterruptStep ==
  ASSUME IInv, NEW c \in Clients, Interrupt(c)
  PROVE  IInv'
<1>0. /\ TypeOK /\ TailShape /\ (~joined => Good)
      /\ pending[c] # None /\ lock = c /\ file \in JsonFile(Entry)
      /\ TornMarks \subseteq Broken
  BY TranscriptConstants DEF IInv, TypeOK, Interrupt
<1>1. /\ lock' = None
      /\ pending' = [pending EXCEPT ![c] = None]
      /\ written' = written \ {c}
      /\ UNCHANGED <<used, told>>
      /\ faults < MaxFaults /\ faults' = faults + 1
  BY DEF Interrupt
<1>2. \A d \in Clients : pending'[d] = None
  BY <1>0, <1>1 DEF TypeOK
<1>3. written' = {}
  BY <1>0, <1>1 DEF TypeOK
<1>4. faults' \in 0..MaxFaults
  BY <1>0, <1>1, TranscriptConstants DEF TypeOK
<1>5. CASE UNCHANGED <<file, joined>>
  <2>1. TypeOK'
    BY <1>0, <1>1, <1>2, <1>3, <1>4, <1>5 DEF TypeOK
  <2>2. ASSUME ~joined' PROVE Good'
    <3>1. Good
      BY <1>0, <1>5, <2>2
    <3>2. BrokenOnlyAtTail' /\ AllToldShows'
      BY <1>1, <1>5, <3>1 DEF Good, BrokenOnlyAtTail, AllToldShows, Shows
    <3>3. FreshIds'
      BY <1>1, <1>2, <1>5, <3>1 DEF Good, FreshIds
    <3> QED
      BY <1>2, <1>3, <3>2, <3>3 DEF Good, PendingFits, WrittenShows
  <2> QED
    BY <1>0, <1>5, <2>1, <2>2 DEF IInv, TailShape
<1>6. CASE /\ c \notin written
           /\ \E mark \in TornMarks : file' = WriteTorn(file, mark)
           /\ joined' = (joined \/ ~file.eol)
  <2>0. PICK mark \in TornMarks : file' = WriteTorn(file, mark)
    BY <1>6
  <2>1. mark \in Broken
    BY <1>0, <2>0
  <2>2. CASE ~file.eol
    <3>1. file' \in JsonFile(Entry) /\ Len(file'.lines) = Len(file.lines)
      BY <1>0, <2>0, <2>1, <2>2, JoinedFile DEF TailShape
    <3>2. TypeOK'
      BY <1>0, <1>1, <1>2, <1>3, <1>4, <1>6, <3>1 DEF TypeOK
    <3> QED
      BY <1>0, <1>6, <2>2, <3>1, <3>2 DEF IInv, TailShape
  <2>3. CASE file.eol
    <3>0. file' = WriteLine(file, mark)
      BY <2>0, <2>3, TornIsAppend
    <3>1. /\ file' \in JsonFile(Entry)
          /\ ~file'.eol
          /\ Len(file'.lines) = Len(file.lines) + 1
          /\ DOMAIN file'.lines = 1..(Len(file.lines) + 1)
          /\ \A i \in DOMAIN file.lines : file'.lines[i] = file.lines[i]
      BY <1>0, <2>1, <2>3, <3>0, AppendLines
    <3>2. Len(file.lines) \in Nat /\ DOMAIN file.lines = 1..Len(file.lines)
      BY <1>0 DEF JsonFile
    <3>3. TailShape'
      BY <3>1, <3>2 DEF TailShape
    <3>4. TypeOK'
      BY <1>0, <1>1, <1>2, <1>3, <1>4, <1>6, <3>1 DEF TypeOK
    <3>5. \A id \in Ids :
            /\ LinesOf(file', id) = LinesOf(file, id)
            /\ HasEntry(file', id) <=> HasEntry(file, id)
            /\ HasEntry(file, id) =>
                 LatestEntry(file', id) = LatestEntry(file, id)
      BY <1>0, <2>1, <2>3, <3>0, LatestAfterAppend
    <3>6. ASSUME ~joined' PROVE Good'
      <4>1. Good
        BY <1>0, <1>6, <3>6
      <4>2. BrokenOnlyAtTail'
        <5> SUFFICES ASSUME NEW i \in DOMAIN file'.lines,
                            file'.lines[i] \in Broken
                     PROVE  i = Len(file'.lines)
          BY <3>1 DEF BrokenOnlyAtTail
        <5>1. CASE i \in DOMAIN file.lines
          BY <2>3, <3>1, <4>1, <5>1 DEF Good, BrokenOnlyAtTail
        <5> QED
          BY <3>1, <3>2, <5>1
      <4>3. FreshIds'
        BY <1>1, <1>2, <3>5, <4>1 DEF Good, FreshIds
      <4>4. AllToldShows'
        BY <1>1, <3>5, <4>1 DEF Good, AllToldShows, Shows
      <4> QED
        BY <1>2, <1>3, <4>2, <4>3, <4>4 DEF Good, PendingFits, WrittenShows
    <3> QED
      BY <3>3, <3>4, <3>6 DEF IInv
  <2> QED
    BY <2>2, <2>3
<1> QED
  BY <1>5, <1>6 DEF Interrupt

(* A step that changes nothing keeps everything.                           *)
LEMMA StutterStep ==
  ASSUME IInv, UNCHANGED vars
  PROVE  IInv'
<1>1. TypeOK' /\ TailShape'
  BY DEF IInv, TypeOK, TailShape, vars
<1>2. ASSUME ~joined' PROVE Good'
  BY <1>2 DEF IInv, Good, BrokenOnlyAtTail, FreshIds, PendingFits, Fits,
              WrittenShows, AllToldShows, Shows, vars
<1> QED
  BY <1>1, <1>2 DEF IInv

(* Every step of the store keeps the invariant.                            *)
LEMMA NextIInv == IInv /\ [Next]_vars => IInv'
<1> SUFFICES ASSUME IInv, [Next]_vars PROVE IInv'
  OBVIOUS
<1>1. ASSUME NEW c \in Clients, NEW id \in Ids, Save(c, id) PROVE IInv'
  BY <1>1, SaveStep
<1>2. ASSUME NEW c \in Clients, NEW id \in Ids, Delete(c, id) PROVE IInv'
  BY <1>2, DeleteStep
<1>3. ASSUME NEW c \in Clients, NEW id \in Ids, NEW actor \in Actors,
             NEW ack \in BOOLEAN, Receipt(c, id, actor, ack)
      PROVE  IInv'
  BY <1>3, ReceiptStep
<1>4. ASSUME NEW c \in Clients, AppendLine(c) PROVE IInv'
  BY <1>4, AppendStep
<1>5. ASSUME NEW c \in Clients, Finish(c) PROVE IInv'
  BY <1>5, FinishStep
<1>6. ASSUME NEW c \in Clients, Interrupt(c) PROVE IInv'
  BY <1>6, InterruptStep
<1>7. CASE UNCHANGED vars
  BY <1>7, StutterStep
<1> QED
  BY <1>1, <1>2, <1>3, <1>4, <1>5, <1>6, <1>7 DEF Next

(* The invariant holds in every reachable state.                           *)
LEMMA Inductive == Spec => []IInv
<1>1. Init => IInv
  BY InitIInv
<1>2. IInv /\ [Next]_vars => IInv'
  BY NextIInv
<1> QED
  BY <1>1, <1>2, PTL DEF Spec

-----------------------------------------------------------------------------
(* The theorems.                                                           *)

(* The transcript lock keeps every operation alone between its snapshot    *)
(* and its append: whoever has an entry to append holds the lock.          *)
THEOREM TypeCorrect == Spec => []TypeOK
<1>1. IInv => TypeOK
  BY DEF IInv
<1> QED
  BY <1>1, Inductive, PTL

(* snapshot_locked tolerates a torn final line: until bytes are joined to  *)
(* it, everything callers were told is in the transcript.                  *)
THEOREM TornTail == Spec => []TornTailTolerated
<1>1. IInv => TornTailTolerated
  <2> SUFFICES ASSUME IInv, ~joined,
                      \A i \in DOMAIN file.lines : file.lines[i] # Undecodable
               PROVE  Readable(file) /\ AllToldShows
    BY DEF TornTailTolerated
  <2>1. \A i \in DOMAIN file.lines :
          file.lines[i] = Malformed => i = Len(file.lines)
    BY DEF IInv, Good, BrokenOnlyAtTail, Broken
  <2> QED
    BY <2>1 DEF IInv, Good, Readable
<1> QED
  BY <1>1, Inductive, PTL

-----------------------------------------------------------------------------
(* Refinement.                                                             *)

(* Files with the same latest entries show the same mailbox.               *)
LEMMA SameBox ==
  ASSUME NEW f, NEW g,
         \A id \in Ids : /\ HasEntry(f, id) <=> HasEntry(g, id)
                         /\ HasEntry(f, id) =>
                              LatestEntry(f, id) = LatestEntry(g, id)
  PROVE  BoxOf(f) = BoxOf(g)
BY DEF BoxOf, Active

(* The append of an entry that fits is one operation of the mailbox.       *)
LEMMA AppendIsMailboxStep ==
  ASSUME IInv, NEW c \in Clients, AppendLine(c), ~joined'
  PROVE  MB!Next
<1> DEFINE e == pending[c]
           old == LatestEntry(file, e.id)
<1>0. /\ file \in JsonFile(Entry) /\ e \in Entry /\ e \notin Broken
      /\ file.eol /\ Fits(e) /\ e.id \in Ids
      /\ file' = WriteLine(file, e)
  BY TranscriptConstants DEF IInv, TypeOK, AppendLine, Good, PendingFits, Entry
<1>1. /\ HasEntry(file', e.id)
      /\ LatestEntry(file', e.id) = e
      /\ \A id \in Ids \ {e.id} :
           /\ HasEntry(file', id) <=> HasEntry(file, id)
           /\ HasEntry(file, id) => LatestEntry(file', id) = LatestEntry(file, id)
  BY <1>0, LatestAfterAppend
<1>2. \A id \in Ids \ {e.id} : box'[id] = box[id]
  BY <1>1 DEF box, BoxOf, Active
<1>3. box \in [Ids -> {box[id] : id \in Ids}] /\ DOMAIN box = Ids
      /\ DOMAIN box' = Ids /\ box' = [id \in Ids |-> box'[id]]
      /\ box = [id \in Ids |-> box[id]]
  BY DEF box, BoxOf
<1>4. ASSUME NEW v, box'[e.id] = v
      PROVE  box' = [box EXCEPT ![e.id] = v]
  BY <1>0, <1>2, <1>3, <1>4
<1>5. box'[e.id] = IF e.live
                   THEN [st |-> "live", read |-> e.read, acked |-> e.acked]
                   ELSE MB!NoReceipts("deleted")
  BY <1>0, <1>1 DEF box, BoxOf, Active, MB!NoReceipts
<1>6. CASE /\ LinesOf(file, e.id) = {}
           /\ e = [id |-> e.id, live |-> TRUE, read |-> {}, acked |-> {}]
  <2>1. box[e.id].st = "none"
    BY <1>0, <1>6 DEF box, BoxOf, HasEntry
  <2>2. box'[e.id] = MB!NoReceipts("live")
    <3>1. e.live /\ e.read = {} /\ e.acked = {}
      BY <1>6
    <3> QED
      BY <1>5, <3>1 DEF MB!NoReceipts
  <2>3. MB!Post(e.id)
    BY <1>4, <2>1, <2>2 DEF MB!Post
  <2> QED
    BY <1>0, <2>3 DEF MB!Next
<1>7. CASE HasEntry(file, e.id) /\ ~e.live
  <2>1. box[e.id].st # "none"
    BY <1>0, <1>7 DEF box, BoxOf
  <2>2. MB!Remove(e.id)
    BY <1>4, <1>5, <1>7, <2>1 DEF MB!Remove
  <2> QED
    BY <1>0, <2>2 DEF MB!Next
<1>8. CASE /\ Active(file, e.id)
           /\ \E actor \in Recipients[e.id], ack \in BOOLEAN :
                e = WithReceipt(old, actor, ack)
  <2>1. PICK actor \in Recipients[e.id], ack \in BOOLEAN :
               e = WithReceipt(old, actor, ack)
    BY <1>8
  <2>2. old \in Entry /\ old.live
    BY <1>0, <1>8, LatestIsEntry DEF Active
  <2>3. /\ e.live
        /\ e.read = old.read \cup {actor}
        /\ e.acked = IF ack THEN old.acked \cup {actor} ELSE old.acked
    BY <2>1, <2>2 DEF WithReceipt, Entry
  <2>4. box[e.id] = [st |-> "live", read |-> old.read, acked |-> old.acked]
    BY <1>0, <1>8 DEF box, BoxOf, Active
  <2>5. MB!Receipt(e.id, actor, ack)
    BY <1>3, <1>4, <1>5, <2>1, <2>3, <2>4 DEF MB!Receipt
  <2> QED
    BY <1>0, <2>5 DEF MB!Next
<1> QED
  BY <1>0, <1>6, <1>7, <1>8 DEF Fits

(* No other step changes what a reader sees, unless it joins bytes to an   *)
(* unterminated line.                                                      *)
LEMMA OtherStepsKeepBox ==
  ASSUME IInv, [Next]_vars, ~joined',
         \A c \in Clients : ~AppendLine(c)
  PROVE  UNCHANGED box
<1>0. file \in JsonFile(Entry)
  BY DEF IInv, TypeOK
<1>1. CASE UNCHANGED file
  BY <1>1 DEF box, BoxOf, Active, HasEntry, LatestEntry
<1>2. ASSUME NEW c \in Clients, Finish(c)
      PROVE  UNCHANGED box
  <2>1. file'.lines = file.lines
    BY <1>0, <1>2, NewlineKeepsLines DEF Finish
  <2>2. \A id \in Ids : /\ HasEntry(file', id) <=> HasEntry(file, id)
                        /\ LatestEntry(file', id) = LatestEntry(file, id)
    BY <2>1, SameLines
  <2>3. BoxOf(file') = BoxOf(file)
    BY <2>2, SameBox
  <2> QED
    BY <2>3 DEF box
<1>3. ASSUME NEW c \in Clients, Interrupt(c), ~UNCHANGED file
      PROVE  UNCHANGED box
  <2>1. PICK mark \in TornMarks : file' = WriteTorn(file, mark) /\ file.eol
    BY <1>3 DEF Interrupt
  <2>2. mark \in Broken /\ file' = WriteLine(file, mark)
    BY <2>1, TornIsAppend, TranscriptConstants
  <2>3. \A id \in Ids : /\ HasEntry(file', id) <=> HasEntry(file, id)
                        /\ HasEntry(file', id) =>
                             LatestEntry(file', id) = LatestEntry(file, id)
    BY <1>0, <2>1, <2>2, LatestAfterAppend
  <2>4. BoxOf(file') = BoxOf(file)
    BY <2>3, SameBox
  <2> QED
    BY <2>4 DEF box
<1>4. CASE Next
  BY <1>1, <1>2, <1>3, <1>4 DEF Next, Save, Delete, Receipt
<1> QED
  BY <1>1, <1>4 DEF vars

(* The transcript implements the mailbox, step by step, whatever is        *)
(* interrupted, up to the first append that lands on an unterminated line. *)
THEOREM RefinesUntilJoined == Spec => MailboxUntilJoined
<1>1. IInv /\ [Next]_vars => [joined' \/ MB!Next \/ UNCHANGED box]_vars
  BY AppendIsMailboxStep, OtherStepsKeepBox
<1> QED
  BY <1>1, Inductive, PTL DEF Spec, MailboxUntilJoined

(* Without an interrupted append, only a client that is still writing      *)
(* leaves a line unterminated, and nothing is ever joined to it.           *)
NoFaultShape == faults = 0 => ~joined /\ (~file.eol => written # {})

(* Without faults no step leaves an unterminated line unattended.          *)
LEMMA NextNoFaultShape == IInv /\ NoFaultShape /\ [Next]_vars => NoFaultShape'
<1> SUFFICES ASSUME IInv, NoFaultShape, [Next]_vars, faults' = 0
             PROVE  ~joined' /\ (~file'.eol => written' # {})
  BY DEF NoFaultShape
<1>1. ASSUME NEW c \in Clients, AppendLine(c)
      PROVE  ~joined' /\ written' # {}
  <2>1. faults = 0 /\ c \notin written /\ pending[c] # None
    BY <1>1 DEF AppendLine
  <2>2. written = {}
    BY <2>1 DEF IInv, TypeOK
  <2> QED
    BY <1>1, <2>1, <2>2 DEF AppendLine, NoFaultShape
<1>2. ASSUME NEW c \in Clients, Finish(c)
      PROVE  ~joined' /\ file'.eol
  BY <1>2, NewlineKeepsLines DEF Finish, NoFaultShape, IInv, TypeOK
<1>3. ASSUME NEW c \in Clients, Interrupt(c)
      PROVE  FALSE
  BY <1>3, TranscriptConstants DEF Interrupt, IInv, TypeOK
<1>4. CASE UNCHANGED <<file, written, faults, joined>>
  BY <1>4 DEF NoFaultShape
<1> QED
  BY <1>1, <1>2, <1>3, <1>4 DEF Next, Save, Delete, Receipt, vars

(* If no append is interrupted, the transcript is a mailbox: the receipts  *)
(* of concurrent readers accumulate, none is lost to another's update, and *)
(* a deleted message stays deleted.                                        *)
THEOREM RefinesMailbox == ASSUME MaxFaults = 0 PROVE Spec => IsMailbox
<1>1. Init => MB!Init
  <2> SUFFICES ASSUME Init PROVE box = [id \in Ids |-> MB!NoReceipts("none")]
    BY DEF MB!Init
  <2>1. \A id \in Ids : ~HasEntry(file, id)
    BY DEF Init, EmptyFile, HasEntry, LinesOf
  <2> QED
    BY <2>1 DEF box, BoxOf, MB!NoReceipts
<1>2. Init => NoFaultShape
  BY DEF Init, NoFaultShape, EmptyFile
<1>3. IInv /\ NoFaultShape => ~joined
  BY DEF IInv, TypeOK, NoFaultShape
<1>4. IInv /\ ~joined' /\ [Next]_vars => [MB!Next]_box
  BY AppendIsMailboxStep, OtherStepsKeepBox
<1> QED
  BY <1>1, <1>2, <1>3, <1>4, Inductive, NextNoFaultShape, PTL
     DEF Spec, IsMailbox, MB!Spec

(* No operation of the store makes an unreadable transcript readable: an   *)
(* append leaves every earlier line, and what it joins to the last one     *)
(* does not mend it.                                                       *)
THEOREM NoRepair == Spec => UnreadableForGood
<1>1. ASSUME NEW f \in JsonFile(Entry), NEW e \in Entry \cup Broken, f.eol,
             ~Readable(f)
      PROVE  ~Readable(WriteLine(f, e))
  <2>1. PICK i \in DOMAIN f.lines :
               \/ f.lines[i] = Undecodable
               \/ f.lines[i] = Malformed /\ i # Len(f.lines)
    BY <1>1 DEF Readable
  <2>2. i \in 1..Len(f.lines) /\ Len(f.lines) \in Nat
    BY <2>1 DEF JsonFile
  <2>3. /\ i \in DOMAIN WriteLine(f, e).lines
        /\ i # Len(WriteLine(f, e).lines)
        /\ WriteLine(f, e).lines[i] = f.lines[i]
    BY <1>1, <2>2, AppendLines
  <2> QED
    BY <2>1, <2>3 DEF Readable
<1>2. ASSUME NEW f \in JsonFile(Entry), ~f.eol, ~Readable(f),
             NEW x \in {Joined(f.lines[Len(f.lines)]), Undecodable}, NEW g,
             g.lines = [f.lines EXCEPT ![Len(f.lines)] = x]
      PROVE  ~Readable(g)
  <2>1. PICK i \in DOMAIN f.lines :
               \/ f.lines[i] = Undecodable
               \/ f.lines[i] = Malformed /\ i # Len(f.lines)
    BY <1>2 DEF Readable
  <2>2. i \in DOMAIN g.lines /\ Len(g.lines) = Len(f.lines)
    BY <1>2, <2>1 DEF JsonFile
  <2>3. CASE i = Len(f.lines)
    <3>1. g.lines[i] = Undecodable
      BY <1>2, <2>1, <2>3 DEF Joined
    <3> QED
      BY <2>2, <3>1 DEF Readable
  <2>4. CASE i # Len(f.lines)
    <3>1. g.lines[i] = f.lines[i]
      BY <1>2, <2>1, <2>4
    <3> QED
      BY <2>1, <2>2, <2>4, <3>1 DEF Readable
  <2> QED
    BY <2>3, <2>4
<1>3. ASSUME IInv, [Next]_vars, ~Readable(file) PROVE ~Readable(file')
  <2>0. file \in JsonFile(Entry)
    BY <1>3 DEF IInv, TypeOK
  <2>1. ASSUME NEW c \in Clients, AppendLine(c) PROVE ~Readable(file')
    <3>1. pending[c] \in Entry /\ file' = WriteLine(file, pending[c])
      BY <1>3, <2>1 DEF AppendLine, IInv, TypeOK
    <3>2. CASE file.eol
      BY <1>1, <1>3, <2>0, <3>1, <3>2
    <3>3. CASE ~file.eol
      <4>1. file'.lines = [file.lines EXCEPT ![Len(file.lines)] =
                             Joined(file.lines[Len(file.lines)])]
        BY <3>1, <3>3 DEF WriteLine
      <4> QED
        BY <1>2, <1>3, <2>0, <3>3, <4>1
    <3> QED
      BY <3>2, <3>3
  <2>2. ASSUME NEW c \in Clients, Finish(c) PROVE ~Readable(file')
    BY <1>3, <2>0, <2>2, NewlineKeepsLines DEF Finish, Readable
  <2>3. ASSUME NEW c \in Clients, Interrupt(c), ~UNCHANGED file
        PROVE  ~Readable(file')
    <3>1. PICK mark \in TornMarks : file' = WriteTorn(file, mark)
      BY <2>3 DEF Interrupt
    <3>2. mark \in Broken
      BY <3>1, TranscriptConstants
    <3>3. CASE file.eol
      BY <1>1, <1>3, <2>0, <3>1, <3>2, <3>3, TornIsAppend
    <3>4. CASE ~file.eol
      <4>1. PICK x \in {Joined(file.lines[Len(file.lines)]), Undecodable} :
              file'.lines = [file.lines EXCEPT ![Len(file.lines)] = x]
        BY <3>1, <3>4 DEF WriteTorn
      <4> QED
        BY <1>2, <1>3, <2>0, <3>4, <4>1
    <3> QED
      BY <3>3, <3>4
  <2>4. CASE UNCHANGED file
    BY <1>3, <2>4
  <2> QED
    BY <1>3, <2>1, <2>2, <2>3, <2>4 DEF Next, Save, Delete, Receipt, vars
<1>4. IInv /\ [Next]_vars => [~Readable(file) => ~Readable(file')]_vars
  BY <1>3
<1> QED
  BY <1>4, Inductive, PTL DEF Spec, UnreadableForGood
=============================================================================
