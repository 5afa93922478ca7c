---------------------------- MODULE RefreshProofs ----------------------------
(***************************************************************************)
(* Theorems about Refresh, for any number of processes, notes, database    *)
(* files and contents, and for any bound on the logical clock: first what  *)
(* the rows of indexed_files vouch for, then what a reader of the tables   *)
(* can rely on (TablesAgree, which unlike RowsVouch covers notes edited    *)
(* under a scan), and what a command does that is alone or undisturbed     *)
(* (LoneCommandKeepsDatabase, QuietRunsServe, RebuildsAreNeeded).          *)
(***************************************************************************)
EXTENDS Refresh, TLAPS

USE RefreshAssumption

-----------------------------------------------------------------------------
(***************************************************************************)
(* Type correctness.                                                       *)
(***************************************************************************)

\* A write transaction of some process keeps the worktree and the clock typed.
LEMMA DbWrittenType ==
  ASSUME TypeOK, NEW p, DbWritten(p)
  PROVE  /\ fs' \in [Path -> File \cup {None}]
         /\ clock' \in Nat
         /\ raced' \in [Proc -> BOOLEAN]
<1>1. raced' \in [Proc -> BOOLEAN]
  BY DEF DbWritten, TypeOK
<1>2. CASE DbFile = {}
  BY <1>1, <1>2 DEF DbWritten, TypeOK
<1>3. CASE DbFile # {}
  <2>1. clock' \in Nat /\ clock + 1 \in Nat
    BY <1>3 DEF DbWritten, TypeOK
  <2>2. [content |-> clock + 1, mtime |-> clock + 1] \in File
    BY <2>1 DEF File, Body
  <2>3. fs' \in [Path -> File \cup {None}]
    BY <1>3, <2>2 DEF DbWritten, TypeOK
  <2>4. QED
    BY <1>1, <2>1, <2>3
<1>4. QED
  BY <1>2, <1>3

\* Reading a file yields bytes or the mark of a failed read.
LEMMA ReadType ==
  ASSUME TypeOK, NEW x \in Path
  PROVE  /\ Read(x) \in Body \cup {Unread}
         /\ fs[x] # None => fs[x] \in File
BY DEF TypeOK, Read, File

\* A command that returns leaves every variable typed.
LEMMA ReturnType ==
  ASSUME TypeOK, NEW p \in Proc, Return(p)
  PROVE  TypeOK'
BY DEF Return, TypeOK, dbVars, NoRows, NoNodes, Cmd

LEMMA InitType == Init => TypeOK
<1> SUFFICES ASSUME Init PROVE TypeOK
  OBVIOUS
<1>1. fs \in [Path -> File \cup {None}]
  BY DEF Init, File, Body
<1>2. QED
  BY <1>1 DEF Init, TypeOK, NoRows, NoNodes, Cmd

LEMMA OpenType ==
  ASSUME TypeOK, NEW p \in Proc, Probe(p) \/ Drop(p) \/ Create(p)
  PROVE  TypeOK'
<1>1. CASE Probe(p)
  BY <1>1 DEF Probe, Goto, TypeOK, dbVars, memVars, history, Busy
<1>2. CASE Drop(p)
  <2>1. DbWritten(p)
    BY <1>2 DEF Drop
  <2>2. QED
    BY <1>2, <2>1, DbWrittenType
    DEF Drop, Goto, TypeOK, memVars, NoNodes, NoRows, Busy
<1>3. CASE Create(p)
  <2>1. /\ fs' \in [Path -> File \cup {None}] /\ clock' \in Nat
        /\ raced' \in [Proc -> BOOLEAN] /\ tables' \in BOOLEAN
    <3>1. CASE UNCHANGED <<tables, fs, clock, raced>>
      BY <3>1 DEF TypeOK
    <3>2. CASE tables' = TRUE /\ DbWritten(p)
      BY <3>2, DbWrittenType
    <3>3. QED
      BY <1>3, <3>1, <3>2 DEF Create
  <2>2. pc' \in [Proc -> {"idle"} \cup Busy \cup Finished]
    BY <1>3 DEF Create, TypeOK, Busy, Pass, Finished, Cmd
  <2>3. todo' \in [Proc -> SUBSET (Path \cup Stamp)]
    <3>1. inv[p] \cap Note \subseteq Path \cup Stamp
      BY DEF Path
    <3>2. QED
      BY <1>3, <3>1 DEF Create, TypeOK
  <2>4. QED
    BY <1>3, <2>1, <2>2, <2>3 DEF Create, TypeOK
<1>4. QED
  BY <1>1, <1>2, <1>3

LEMMA DecideType ==
  ASSUME TypeOK, NEW p \in Proc,
         \/ Decide(p) \/ CountNodes(p) \/ LoadPrior(p) \/ BuildInventory(p)
         \/ Diff(p) \/ \E k \in Stamp : WriteStamp(p, k)
  PROVE  TypeOK'
<1>1. CASE Decide(p)
  BY <1>1 DEF Decide, Goto, TypeOK, dbVars, history, Busy
<1>2. CASE CountNodes(p)
  BY <1>2 DEF CountNodes, HasNodes, Goto, TypeOK, dbVars, history, Busy
<1>3. CASE LoadPrior(p)
  BY <1>3 DEF LoadPrior, Goto, TypeOK, dbVars, history, Busy
<1>4. CASE BuildInventory(p)
  BY <1>4 DEF BuildInventory, Worktree, Goto, TypeOK, dbVars, history, Busy
<1>5. CASE Diff(p)
  <2>1. pc' \in [Proc -> {"idle"} \cup Busy \cup Finished]
    <3>1. \/ pc' = [pc EXCEPT ![p] = "stamp"]
          \/ pc' = [pc EXCEPT ![p] = "scan"]
      BY <1>5, Zenon DEF Diff
    <3>2. pc \in [Proc -> {"idle"} \cup Busy \cup Finished]
      BY DEF TypeOK
    <3>3. "stamp" \in Busy /\ "scan" \in Busy
      BY DEF Busy
    <3>4. QED
      BY <3>1, <3>2, <3>3
  <2>2. todo' \in [Proc -> SUBSET (Path \cup Stamp)]
    BY <1>5 DEF Diff, TypeOK
  <2>3. prior' \in [Proc -> [Path -> Row \cup {None}]]
    BY <1>5 DEF Diff, TypeOK, NoRows
  <2>4. QED
    BY <1>5, <2>1, <2>2, <2>3 DEF Diff, TypeOK, dbVars, history
<1>6. ASSUME NEW k \in Stamp, WriteStamp(p, k)
      PROVE  TypeOK'
  <2>1. DbWritten(p)
    BY <1>6 DEF WriteStamp
  <2>2. at' \in {"refresh", "rebuild", None} /\ mode' \in {"refresh", "rebuild", None}
    BY <1>6 DEF WriteStamp, TypeOK
  <2>3. todo' \in [Proc -> SUBSET (Path \cup Stamp)]
    BY <1>6 DEF WriteStamp, TypeOK
  <2>4. pc' \in [Proc -> {"idle"} \cup Busy \cup Finished]
    BY <1>6 DEF WriteStamp, TypeOK, Busy, Finished
  <2>5. QED
    BY <1>6, <2>1, <2>2, <2>3, <2>4, DbWrittenType DEF WriteStamp, TypeOK
<1>7. QED
  BY <1>1, <1>2, <1>3, <1>4, <1>5, <1>6

LEMMA NodesType ==
  ASSUME TypeOK, NEW p \in Proc, NEW f \in Note, NEW n \in Node
  PROVE  [gNodes EXCEPT ![p] = [@ EXCEPT ![f] = n]]
           \in [Proc -> [Note -> Node \cup {None}]]
BY DEF TypeOK

LEMMA RowsType ==
  ASSUME TypeOK, NEW p \in Proc, NEW x \in Path, NEW r \in Row
  PROVE  [gRows EXCEPT ![p] = [@ EXCEPT ![x] = r]]
           \in [Proc -> [Path -> Row \cup {None}]]
BY DEF TypeOK

\* Visiting a file leaves everything typed but what the visit builds.
LEMMA VisitType ==
  ASSUME TypeOK, NEW p \in Proc, NEW pass, NEW x, Visit(p, pass, x),
         gNodes' \in [Proc -> [Note -> Node \cup {None}]],
         gDocs' \in [Proc -> [Note -> Body \cup {None}]],
         gRows' \in [Proc -> [Path -> Row \cup {None}]],
         hashing' \in [Proc -> Hashed \cup {None}]
  PROVE  TypeOK'
<1>1. todo' \in [Proc -> SUBSET (Path \cup Stamp)]
  BY DEF Visit, TypeOK
<1>2. QED
  BY <1>1 DEF Visit, TypeOK, dbVars, history

LEMMA ScanType ==
  ASSUME TypeOK, NEW p \in Proc,
         \/ Scan(p) \/ NextPass(p)
         \/ \E f \in Note : ReadNote(p, f) \/ ReadLinks(p, f) \/ ReadDoc(p, f)
         \/ \E x \in Path : Hash(p, x) \/ Stat(p, x)
  PROVE  TypeOK'
<1>1. CASE Scan(p)
  BY <1>1 DEF Scan, Goto, Worktree, TypeOK, dbVars, NoNodes, NoRows, Busy,
              Pass, Path
<1>2. CASE NextPass(p)
  <2>1. pc' \in [Proc -> {"idle"} \cup Busy \cup Finished]
    BY <1>2 DEF NextPass, TypeOK, Busy, Pass
  <2>2. todo' \in [Proc -> SUBSET (Path \cup Stamp)]
    <3>1. inv[p] \subseteq Path \cup Stamp /\ inv[p] \cap Note \subseteq Path \cup Stamp
      BY DEF TypeOK
    <3>2. QED
      BY <1>2, <3>1 DEF NextPass, TypeOK
  <2>3. QED
    BY <1>2, <2>1, <2>2 DEF NextPass, TypeOK, dbVars, history
<1>3. ASSUME NEW f \in Note, ReadNote(p, f)
      PROVE  TypeOK'
  <2>1. [fm |-> Read(f), links |-> Unread] \in Node
    BY ReadType DEF Node, Path
  <2>2. QED
    BY <1>3, <2>1, NodesType, VisitType DEF ReadNote, TypeOK
<1>4. ASSUME NEW f \in Note, ReadLinks(p, f)
      PROVE  TypeOK'
  <2>1. [fm |-> gNodes[p][f].fm, links |-> Read(f)] \in Node
    <3>1. gNodes[p] \in [Note -> Node \cup {None}]
      BY DEF TypeOK
    <3>2. gNodes[p][f] \in Node
      BY <1>4, <3>1 DEF ReadLinks
    <3>3. f \in Path
      BY DEF Path
    <3>4. Read(f) \in Body \cup {Unread}
      BY <3>3, ReadType
    <3>5. QED
      BY <3>2, <3>4 DEF Node
  <2>2. QED
    BY <1>4, <2>1, NodesType, VisitType DEF ReadLinks, TypeOK
<1>5. ASSUME NEW f \in Note, ReadDoc(p, f)
      PROVE  TypeOK'
  <2>1. gDocs' \in [Proc -> [Note -> Body \cup {None}]]
    BY <1>5, ReadType DEF ReadDoc, TypeOK, File, Path
  <2>2. QED
    BY <1>5, <2>1, VisitType DEF ReadDoc, TypeOK
<1>6. ASSUME NEW x \in Path, Hash(p, x)
      PROVE  TypeOK'
  <2>1. [path |-> x, hash |-> Read(x)] \in Hashed
    BY ReadType DEF Hashed
  <2>2. hashing' \in [Proc -> Hashed \cup {None}]
    BY <1>6, <2>1 DEF Hash, TypeOK
  <2>3. QED
    BY <1>6, <2>2 DEF Hash, TypeOK, dbVars, history
<1>7. ASSUME NEW x \in Path, Stat(p, x)
      PROVE  TypeOK'
  <2> DEFINE m == IF fs[x] = None THEN 0 ELSE fs[x].mtime
  <2>1. hashing[p] \in Hashed /\ m \in Nat
    BY <1>7, ReadType DEF Stat, TypeOK, File
  <2>2. [hash |-> hashing[p].hash, mtime |-> m] \in Row
    BY <2>1 DEF Hashed, Row
  <2>3. gRows' \in [Proc -> [Path -> Row \cup {None}]]
    BY <1>7, <2>2, RowsType DEF Stat
  <2>4. hashing' \in [Proc -> Hashed \cup {None}]
    BY <1>7 DEF Stat, TypeOK
  <2>5. QED
    BY <1>7, <2>3, <2>4, VisitType DEF Stat, TypeOK
<1>8. QED
  BY <1>1, <1>2, <1>3, <1>4, <1>5, <1>6, <1>7

LEMMA SaveType ==
  ASSUME TypeOK, NEW p \in Proc,
         Save(p) \/ Commit(p) \/ Finish(p) \/ Fail(p) \/ Kill(p)
  PROVE  TypeOK'
<1>1. CASE Save(p)
  BY <1>1 DEF Save, Goto, TypeOK, dbVars, memVars, history, Busy
<1>2. CASE Commit(p)
  <2>1. DbWritten(p)
    BY <1>2 DEF Commit
  <2>2. at' \in {"refresh", "rebuild", None} /\ mode' \in {"refresh", "rebuild", None}
    BY <1>2 DEF Commit, RunMode, SavedNodes, SavedDocs, TypeOK
  <2>3. /\ nodes' \in [Note -> Node \cup {None}]
        /\ docs' \in [Note -> Body \cup {None}]
        /\ rows' \in [Path -> Row \cup {None}]
        /\ dbTorn' \in SUBSET Note /\ touched' \in BOOLEAN
    BY <1>2 DEF Commit, RunMode, SavedNodes, SavedDocs, TypeOK
  <2>4. pc' \in [Proc -> {"idle"} \cup Busy \cup Finished]
    BY <1>2 DEF Commit, Goto, TypeOK, Finished
  <2>5. QED
    BY <1>2, <2>1, <2>2, <2>3, <2>4, DbWrittenType DEF Commit, TypeOK, memVars
<1>3. CASE Return(p)
  BY <1>3, ReturnType
<1>4. QED
  BY <1>1, <1>2, <1>3 DEF Finish, Fail, Kill

LEMMA StartType ==
  ASSUME TypeOK, NEW p \in Proc, NEW c \in Cmd, Start(p, c)
  PROVE  TypeOK'
BY DEF Start, TypeOK, dbVars, Busy, Pass

\* The user's edits and the wipe of the tables.
LEMMA UserType ==
  ASSUME TypeOK, UserStep \/ DeleteAll
  PROVE  TypeOK'
<1>0. clock + 1 \in Nat
  BY DEF TypeOK
<1>1. ASSUME NEW f \in Note, NoteChanged(f)
      PROVE  /\ edited' \in [Proc -> BOOLEAN] /\ touched' \in BOOLEAN
             /\ torn' \in [Proc -> SUBSET Note]
  BY <1>1 DEF NoteChanged, TypeOK
<1>2. ASSUME NEW f \in Note, NEW file \in File \cup {None}, Change(f, file)
      PROVE  clock' \in Nat /\ fs' \in [Path -> File \cup {None}]
  <2>1. fs \in [Path -> File \cup {None}]
    BY DEF TypeOK
  <2>2. QED
    BY <1>0, <1>2, <2>1 DEF Change
<1>3. \A c \in Content : [content |-> c, mtime |-> clock + 1] \in File
  BY <1>0 DEF File, Body
<1>4. ASSUME NEW f \in Note, Write(f)
      PROVE  TypeOK'
  <2>1. PICK c \in Content : /\ Change(f, [content |-> c, mtime |-> clock + 1])
                            /\ NoteChanged(f)
    BY <1>4 DEF Write
  <2>2. clock' \in Nat /\ fs' \in [Path -> File \cup {None}]
    BY <2>1, <1>2, <1>3
  <2>3. QED
    BY <2>1, <2>2, <1>1 DEF Change, TypeOK, dbVars, memVars
<1>5. ASSUME NEW f \in Note, Delete(f)
      PROVE  TypeOK'
  <2>1. clock' \in Nat /\ fs' \in [Path -> File \cup {None}]
    BY <1>5, <1>2 DEF Delete
  <2>2. QED
    BY <1>5, <2>1, <1>1 DEF Delete, Change, TypeOK, dbVars, memVars
<1>6. ASSUME NEW f \in Note, Touch(f)
      PROVE  TypeOK'
  <2>1. fs[f] \in File
    BY <1>6 DEF Touch, TypeOK, Path
  <2>2. [fs[f] EXCEPT !.mtime = clock + 1] \in File
    BY <2>1, <1>0 DEF File
  <2>3. clock' \in Nat /\ fs' \in [Path -> File \cup {None}]
    BY <1>6, <2>2, <1>2 DEF Touch
  <2>4. QED
    BY <1>6, <2>3 DEF Touch, Change, TypeOK, dbVars, memVars
<1>7. CASE DeleteAll
  <2>1. /\ fs' \in [Path -> File \cup {None}] /\ clock' \in Nat
        /\ raced' \in [Proc -> BOOLEAN]
    BY <1>7, DbWrittenType DEF DeleteAll
  <2>2. QED
    BY <1>7, <2>1 DEF DeleteAll, TypeOK, NoNodes, memVars
<1>8. QED
  BY <1>4, <1>5, <1>6, <1>7 DEF UserStep

\* Every step of a command and of its environment keeps the types.
LEMMA NextType == TypeOK /\ [Next]_vars => TypeOK'
<1> SUFFICES ASSUME TypeOK, [Next]_vars PROVE TypeOK'
  OBVIOUS
<1>1. CASE UserStep \/ DeleteAll
  BY <1>1, UserType
<1>2. ASSUME NEW p \in Proc, Step(p) \/ Kill(p)
      PROVE  TypeOK'
  BY <1>2, OpenType, DecideType, ScanType, SaveType DEF Step
<1>3. ASSUME NEW p \in Proc, NEW c \in Cmd, Start(p, c)
      PROVE  TypeOK'
  BY <1>3, StartType
<1>4. CASE UNCHANGED vars
  BY <1>4 DEF vars, dbVars, memVars, history, TypeOK
<1>5. QED
  BY <1>1, <1>2, <1>3, <1>4 DEF Next, Interference

\* The database, the worktree and the memory of every running command keep
\* their shape, however commands, edits and crashes interleave.
THEOREM TypeCorrect == Spec => []TypeOK
<1>1. Init => TypeOK
  BY InitType
<1>2. TypeOK /\ [Next]_vars => TypeOK'
  BY NextType
<1>3. QED
  BY <1>1, <1>2, PTL DEF Spec

-----------------------------------------------------------------------------
(***************************************************************************)
(* IInv is an invariant of Refresh, and RowsVouch follows from it: whatever*)
(* the number of commands, notes and contents, an indexed_files row that   *)
(* matches a file vouches for the node and the document of that file.      *)
(***************************************************************************)
-----------------------------------------------------------------------------
(***************************************************************************)
(* What a step does to the worktree and to the recorded mtimes.            *)
(***************************************************************************)

\* A write transaction touches no note.
LEMMA DbWrittenKeepsNotes ==
  ASSUME TypeOK, MtimesPast, NEW p, DbWritten(p)
  PROVE  /\ \A f \in Note : fs'[f] = fs[f]
         /\ clock' >= clock
         /\ \A x \in Path : fs'[x] # None => fs'[x].mtime <= clock'
<1>1. CASE DbFile = {}
  BY <1>1 DEF DbWritten, TypeOK, MtimesPast
<1>2. CASE DbFile # {}
  <2>1. /\ clock \in Nat /\ clock' = clock + 1
        /\ fs' = [x \in Path |->
                    IF x \in DbFile
                      THEN [content |-> clock + 1, mtime |-> clock + 1]
                      ELSE fs[x]]
    BY <1>2 DEF DbWritten, TypeOK
  <2>2. \A f \in Note : fs'[f] = fs[f]
    BY <2>1 DEF Path
  <2>3. ASSUME NEW x \in Path, fs'[x] # None
        PROVE  fs'[x].mtime <= clock'
    <3>1. CASE x \in DbFile
      BY <2>1, <3>1
    <3>2. CASE x \notin DbFile
      <4>1. fs'[x] = fs[x] /\ fs[x] \in File
        BY <2>1, <2>3, <3>2 DEF TypeOK
      <4>2. QED
        BY <2>1, <2>3, <4>1 DEF MtimesPast, File
    <3>3. QED
      BY <3>1, <3>2
  <2>4. QED
    BY <2>1, <2>2, <2>3
<1>3. QED
  BY <1>1, <1>2

\* A note's file stays as it is, goes, or takes an mtime later than any
\* mtime recorded so far.
LaterMtime(f) ==
  fs'[f] # fs[f] => fs'[f] = None \/ fs'[f].mtime = clock + 1

\* Every step leaves the worktree alone, is a write transaction or is an edit.
LEMMA StepKinds ==
  ASSUME TypeOK, [Next]_vars
  PROVE  \/ UNCHANGED <<fs, clock>>
         \/ \E p \in Proc \cup {None} : DbWritten(p)
         \/ \E f \in Note, file \in File \cup {None} :
              Change(f, file) /\ (file = None \/ file.mtime = clock + 1)
<1>1. ASSUME NEW p \in Proc, Step(p)
      PROVE  UNCHANGED <<fs, clock>> \/ DbWritten(p)
  <2>1. CASE \/ Probe(p) \/ Decide(p) \/ CountNodes(p) \/ LoadPrior(p)
             \/ BuildInventory(p) \/ Diff(p) \/ Scan(p) \/ NextPass(p)
             \/ Save(p)
    BY <2>1 DEF Probe, Decide, CountNodes, LoadPrior, BuildInventory, Diff,
                Scan, NextPass, Save
  <2>2. CASE \/ \E f \in Note : ReadNote(p, f) \/ ReadLinks(p, f) \/ ReadDoc(p, f)
             \/ \E x \in Path : Hash(p, x) \/ Stat(p, x)
    BY <2>2 DEF ReadNote, ReadLinks, ReadDoc, Hash, Stat, Visit
  <2>3. CASE Finish(p) \/ Fail(p)
    BY <2>3 DEF Finish, Fail, Return
  <2>4. CASE \/ Drop(p) \/ Create(p) \/ Commit(p)
             \/ \E k \in Stamp : WriteStamp(p, k)
    BY <2>4 DEF Drop, Create, Commit, WriteStamp
  <2>5. QED
    BY <1>1, <2>1, <2>2, <2>3, <2>4 DEF Step
<1>2. ASSUME UserStep
      PROVE  \E f \in Note, file \in File \cup {None} :
               Change(f, file) /\ (file = None \/ file.mtime = clock + 1)
  <2>0. clock + 1 \in Nat
    BY DEF TypeOK
  <2>1. ASSUME NEW f \in Note, NEW c \in Content,
               Change(f, [content |-> c, mtime |-> clock + 1])
        PROVE  \E file \in File \cup {None} :
                 Change(f, file) /\ (file = None \/ file.mtime = clock + 1)
    <3>1. [content |-> c, mtime |-> clock + 1] \in File
      BY <2>0 DEF File, Body
    <3>2. QED
      BY <2>1, <3>1
  <2>2. ASSUME NEW f \in Note, Touch(f)
        PROVE  \E file \in File \cup {None} :
                 Change(f, file) /\ (file = None \/ file.mtime = clock + 1)
    <3>1. fs[f] \in File
      BY <2>2 DEF Touch, TypeOK, Path
    <3>2. /\ [fs[f] EXCEPT !.mtime = clock + 1] \in File
          /\ [fs[f] EXCEPT !.mtime = clock + 1].mtime = clock + 1
      BY <2>0, <3>1 DEF File
    <3>3. QED
      BY <2>2, <3>2 DEF Touch
  <2>3. QED
    BY <1>2, <2>1, <2>2 DEF UserStep, Write, Delete
<1>3. ASSUME NEW p \in Proc, Kill(p) \/ \E c \in Cmd : Start(p, c)
      PROVE  UNCHANGED <<fs, clock>>
  BY <1>3 DEF Kill, Return, Start
<1>4. DeleteAll => DbWritten(None)
  BY DEF DeleteAll
<1>5. UNCHANGED vars => UNCHANGED <<fs, clock>>
  BY DEF vars
<1>6. QED
  BY <1>1, <1>2, <1>3, <1>4, <1>5 DEF Next, Interference

LEMMA WorktreeStep ==
  ASSUME TypeOK, MtimesPast, [Next]_vars
  PROVE  /\ clock' >= clock
         /\ \A x \in Path : fs'[x] # None => fs'[x].mtime <= clock'
         /\ \A f \in Note : LaterMtime(f)
<1>1. CASE UNCHANGED <<fs, clock>>
  BY <1>1 DEF TypeOK, MtimesPast, LaterMtime
<1>2. ASSUME NEW p \in Proc \cup {None}, DbWritten(p)
      PROVE  /\ clock' >= clock
             /\ \A x \in Path : fs'[x] # None => fs'[x].mtime <= clock'
             /\ \A f \in Note : LaterMtime(f)
  BY <1>2, DbWrittenKeepsNotes DEF LaterMtime
<1>3. ASSUME NEW g \in Note, NEW file \in File \cup {None}, Change(g, file),
             file = None \/ file.mtime = clock + 1
      PROVE  /\ clock' >= clock
             /\ \A x \in Path : fs'[x] # None => fs'[x].mtime <= clock'
             /\ \A f \in Note : LaterMtime(f)
  <2>1. clock \in Nat /\ clock' = clock + 1 /\ fs' = [fs EXCEPT ![g] = file]
    BY <1>3 DEF Change, TypeOK
  <2>2. ASSUME NEW x \in Path, fs'[x] # None
        PROVE  fs'[x].mtime <= clock'
    <3>1. CASE x = g
      BY <1>3, <2>1, <2>2, <3>1 DEF TypeOK
    <3>2. CASE x # g
      <4>1. fs'[x] = fs[x] /\ fs[x] \in File
        BY <2>1, <2>2, <3>2 DEF TypeOK
      <4>2. QED
        BY <2>1, <2>2, <4>1 DEF MtimesPast, File
    <3>3. QED
      BY <3>1, <3>2
  <2>3. \A f \in Note : LaterMtime(f)
    BY <1>3, <2>1 DEF LaterMtime, TypeOK, Path
  <2>4. QED
    BY <2>1, <2>2, <2>3
<1>4. QED
  BY <1>1, <1>2, <1>3, StepKinds

\* Rows and held rows come from where they were, or from a stat.
LEMMA RowsOrigin ==
  ASSUME TypeOK, [Next]_vars
  PROVE  /\ \/ rows' = rows \/ rows' = NoRows
            \/ \E p \in Proc : Commit(p)
         /\ \A p \in Proc : \/ gRows'[p] = gRows[p] \/ gRows'[p] = NoRows
                            \/ \E x \in Path : Stat(p, x)
<1>1. ASSUME NEW p \in Proc, Step(p)
      PROVE  /\ rows' = rows \/ rows' = NoRows \/ Commit(p)
             /\ \/ gRows' = gRows
                \/ gRows' = [gRows EXCEPT ![p] = NoRows]
                \/ \E x \in Path : Stat(p, x) /\ \A q \in Proc \ {p} : gRows'[q] = gRows[q]
  <2>1. CASE \/ Probe(p) \/ Decide(p) \/ CountNodes(p) \/ LoadPrior(p)
             \/ BuildInventory(p) \/ Diff(p) \/ Scan(p) \/ NextPass(p)
             \/ Save(p)
    BY <2>1 DEF Probe, Decide, CountNodes, LoadPrior, BuildInventory, Diff,
                Scan, NextPass, Save, dbVars, memVars
  <2>2. CASE \/ \E f \in Note : ReadNote(p, f) \/ ReadLinks(p, f) \/ ReadDoc(p, f)
             \/ \E x \in Path : Hash(p, x)
    BY <2>2 DEF ReadNote, ReadLinks, ReadDoc, Hash, Visit, dbVars
  <2>3. CASE \E x \in Path : Stat(p, x)
    BY <2>3 DEF Stat, Visit, dbVars, TypeOK
  <2>4. CASE Finish(p) \/ Fail(p)
    BY <2>4 DEF Finish, Fail, Return, dbVars
  <2>5. CASE \/ Drop(p) \/ Create(p) \/ Commit(p)
             \/ \E k \in Stamp : WriteStamp(p, k)
    BY <2>5 DEF Drop, Create, Commit, WriteStamp, memVars
  <2>6. QED
    BY <1>1, <2>1, <2>2, <2>3, <2>4, <2>5 DEF Step
<1>2. ASSUME NEW p \in Proc, Kill(p)
      PROVE  rows' = rows /\ gRows' = [gRows EXCEPT ![p] = NoRows]
  BY <1>2 DEF Kill, Return, dbVars
<1>3. ASSUME \/ UserStep \/ DeleteAll \/ UNCHANGED vars
             \/ \E p \in Proc, c \in Cmd : Start(p, c)
      PROVE  rows' = rows /\ gRows' = gRows
  BY <1>3 DEF UserStep, Write, Delete, Touch, Change, DeleteAll, Start, vars,
              dbVars, memVars
<1>4. QED
  BY <1>1, <1>2, <1>3 DEF Next, Interference, TypeOK

LEMMA MtimesStep ==
  ASSUME TypeOK, MtimesPast, [Next]_vars
  PROVE  MtimesPast'
<1>1. /\ clock \in Nat /\ clock' \in Nat /\ clock' >= clock
      /\ \A x \in Path : fs'[x] # None => fs'[x].mtime <= clock'
  BY WorktreeStep, NextType DEF TypeOK
<1>2. ASSUME NEW x \in Path, NEW r \in Row, r.mtime <= clock
      PROVE  r.mtime <= clock'
  BY <1>1, <1>2 DEF Row
<1>3. ASSUME NEW x \in Path, rows'[x] # None
      PROVE  rows'[x].mtime <= clock'
  <2>1. CASE rows' = rows
    BY <1>2, <1>3, <2>1 DEF MtimesPast, TypeOK
  <2>2. ASSUME NEW p \in Proc, Commit(p)
        PROVE  rows'[x].mtime <= clock'
    <3>1. rows' = gRows[p]
      BY <2>2 DEF Commit
    <3>2. QED
      BY <1>2, <1>3, <3>1 DEF MtimesPast, TypeOK
  <2>3. QED
    BY <1>3, <2>1, <2>2, RowsOrigin DEF NoRows
<1>4. ASSUME NEW p \in Proc, NEW x \in Path, gRows'[p][x] # None
      PROVE  gRows'[p][x].mtime <= clock'
  <2>1. CASE gRows'[p] = gRows[p]
    BY <1>2, <1>4, <2>1 DEF MtimesPast, TypeOK
  <2>2. ASSUME NEW y \in Path, Stat(p, y)
        PROVE  gRows'[p][x].mtime <= clock'
    <3>1. CASE x = y
      <4>1. gRows'[p][x].mtime = IF fs[x] = None THEN 0 ELSE fs[x].mtime
        BY <2>2, <3>1 DEF Stat, TypeOK
      <4>2. fs' = fs /\ clock' = clock
        BY <2>2 DEF Stat, Visit
      <4>3. QED
        BY <1>1, <4>1, <4>2 DEF MtimesPast
    <3>2. CASE x # y
      <4>1. gRows'[p][x] = gRows[p][x]
        BY <2>2, <3>2 DEF Stat, TypeOK
      <4>2. QED
        BY <1>2, <1>4, <4>1 DEF MtimesPast, TypeOK
    <3>3. QED
      BY <3>1, <3>2
  <2>3. QED
    BY <1>4, <2>1, <2>2, RowsOrigin DEF NoRows
<1>5. QED
  BY <1>1, <1>3, <1>4 DEF MtimesPast

-----------------------------------------------------------------------------
(***************************************************************************)
(* What the database says of a note stays settled.                         *)
(***************************************************************************)

\* The committed tables, and the notes they may be wrong about.
LEMMA TablesOrigin ==
  ASSUME TypeOK, [Next]_vars
  PROVE  \/ UNCHANGED <<scopes, nodes, docs, rows, dbTorn>>
         \/ scopes' = FALSE
         \/ \E p \in Proc : Commit(p)
<1>1. ASSUME NEW p \in Proc, Step(p)
      PROVE  \/ UNCHANGED <<scopes, nodes, docs, rows, dbTorn>>
             \/ scopes' = FALSE \/ Commit(p)
  <2>1. CASE \/ Probe(p) \/ Decide(p) \/ CountNodes(p) \/ LoadPrior(p)
             \/ BuildInventory(p) \/ Diff(p) \/ Scan(p) \/ NextPass(p)
             \/ Save(p)
    BY <2>1 DEF Probe, Decide, CountNodes, LoadPrior, BuildInventory, Diff,
                Scan, NextPass, Save, dbVars, history
  <2>2. CASE \/ \E f \in Note : ReadNote(p, f) \/ ReadLinks(p, f) \/ ReadDoc(p, f)
             \/ \E x \in Path : Hash(p, x) \/ Stat(p, x)
    BY <2>2 DEF ReadNote, ReadLinks, ReadDoc, Hash, Stat, Visit, dbVars, history
  <2>3. CASE Finish(p) \/ Fail(p)
    BY <2>3 DEF Finish, Fail, Return, dbVars
  <2>4. CASE \/ Drop(p) \/ Create(p) \/ Commit(p)
             \/ \E k \in Stamp : WriteStamp(p, k)
    BY <2>4 DEF Drop, Create, Commit, WriteStamp
  <2>5. QED
    BY <1>1, <2>1, <2>2, <2>3, <2>4 DEF Step
<1>2. ASSUME NEW p \in Proc, Kill(p)
      PROVE  UNCHANGED <<scopes, nodes, docs, rows, dbTorn>>
  BY <1>2 DEF Kill, Return, dbVars
<1>3. ASSUME \/ UserStep \/ UNCHANGED vars
             \/ \E p \in Proc, c \in Cmd : Start(p, c)
      PROVE  UNCHANGED <<scopes, nodes, docs, rows, dbTorn>>
  BY <1>3 DEF UserStep, Write, Delete, Touch, Change, Start, vars, dbVars,
              history
<1>4. QED
  BY <1>1, <1>2, <1>3 DEF Next, Interference, DeleteAll

\* No step gives a note other bytes under an mtime already recorded.
LEMMA MtimeKept ==
  ASSUME TypeOK, MtimesPast, [Next]_vars, NEW f \in Note, NEW r \in Row,
         r.mtime <= clock,
         fs[f] # None /\ fs[f].mtime = r.mtime => fs[f].content = r.hash
  PROVE  fs'[f] # None /\ fs'[f].mtime = r.mtime => fs'[f].content = r.hash
<1>1. r.mtime \in Nat /\ clock \in Nat
  BY DEF Row, TypeOK
<1>2. LaterMtime(f)
  BY WorktreeStep
<1>3. QED
  BY <1>1, <1>2 DEF LaterMtime

LEMMA RowsSettledStep ==
  ASSUME TypeOK, IInv, [Next]_vars
  PROVE  RowsSettled'
<1> SUFFICES ASSUME NEW f \in Note, f \notin dbTorn', scopes', rows'[f] # None
             PROVE  Settled(nodes[f], docs[f], rows[f], f)'
  BY DEF RowsSettled
<1>1. f \in Path /\ MtimesPast
  BY DEF Path, IInv
<1>2. CASE UNCHANGED <<scopes, nodes, docs, rows, dbTorn>>
  <2>1. rows[f] \in Row /\ rows[f].mtime <= clock
    BY <1>1, <1>2 DEF TypeOK, MtimesPast
  <2>2. Settled(nodes[f], docs[f], rows[f], f)
    BY <1>2 DEF IInv, RowsSettled
  <2>3. QED
    BY <1>1, <1>2, <2>1, <2>2, MtimeKept DEF Settled
<1>3. ASSUME NEW p \in Proc, Commit(p)
      PROVE  Settled(nodes[f], docs[f], rows[f], f)'
  <2>1. /\ nodes' = gNodes[p] /\ docs' = gDocs[p] /\ rows' = gRows[p]
        /\ f \notin torn[p] /\ pc[p] = "commit"
    BY <1>3 DEF Commit, Goto, SavedNodes, SavedDocs
  <2>2. InInventory(p) /\ Holding(p)
    BY <2>1 DEF IInv, ScanInv, ScanOf, Holding
  <2>3. f \in inv[p]
    BY <2>1, <2>2 DEF InInventory
  <2>4. Settled(gNodes[p][f], gDocs[p][f], gRows[p][f], f)
    BY <2>1, <2>3 DEF IInv, ScanInv, ScanOf, Undisturbed
  <2>5. gRows[p][f] \in Row /\ gRows[p][f].mtime <= clock
    BY <1>1, <2>1 DEF TypeOK, MtimesPast
  <2>6. QED
    BY <1>1, <2>1, <2>4, <2>5, MtimeKept DEF Settled
<1>4. QED
  BY <1>2, <1>3, TablesOrigin

-----------------------------------------------------------------------------
(***************************************************************************)
(* What a command holds of a note nobody edited in its window stays right. *)
(***************************************************************************)
Memory(p) ==
  <<pc[p], cmd[p], inv[p], todo[p], gNodes[p], gDocs[p], gRows[p], hashing[p],
    torn[p]>>

\* A step that leaves p's memory and the notes alone.
LEMMA ScanKept ==
  ASSUME NEW p \in Proc, ScanOf(p), UNCHANGED Memory(p),
         \A f \in Note : fs'[f] = fs[f]
  PROVE  ScanOf(p)'
<1>1. InInventory(p)'
  BY DEF ScanOf, InInventory, Holding, Memory
<1>2. ASSUME NEW f \in Note, Undisturbed(p, f)
      PROVE  Undisturbed(p, f)'
  BY <1>2 DEF Undisturbed, Settled, Read, Memory
<1>3. QED
  BY <1>1, <1>2 DEF ScanOf, Memory

\* A command that holds no scan owes nothing.
LEMMA NothingHeld ==
  ASSUME NEW p \in Proc, ~Holding(p)'
  PROVE  ScanOf(p)'
BY DEF ScanOf, InInventory, Undisturbed, Holding, Pass

\* An edit of a note p has read and not yet stat'ed tears p's record of it;
\* after the stat the edit cannot reuse the recorded mtime.
LEMMA ScanEdited ==
  ASSUME TypeOK, IInv, NEW p \in Proc, NEW g \in Note,
         NEW file \in File \cup {None}, Change(g, file), NoteChanged(g),
         [Next]_vars
  PROVE  ScanOf(p)'
<1>1. /\ UNCHANGED <<pc, cmd, inv, todo, gNodes, gDocs, gRows, hashing>>
      /\ \A f \in Note \ {g} : fs'[f] = fs[f]
  BY DEF Change, memVars, TypeOK
<1>2. InInventory(p)'
  BY <1>1 DEF IInv, ScanInv, ScanOf, InInventory, Holding
<1>3. torn'[p] = IF InWindow(p, g) THEN torn[p] \cup {g} ELSE torn[p]
  BY DEF NoteChanged
<1>4. ASSUME NEW f \in (inv[p] \cap Note) \ torn'[p]
      PROVE  Undisturbed(p, f)'
  <2>1. Undisturbed(p, f) /\ (f = g => ~InWindow(p, g))
    BY <1>3, <1>4 DEF IInv, ScanInv, ScanOf
  <2>2. CASE f # g
    BY <1>1, <2>1, <2>2 DEF Undisturbed, Settled, Read
  <2>3. CASE f = g
    <3>1. f \in inv[p] /\ ~InWindow(p, f)
      BY <2>1, <2>3
    <3>2. \/ pc[p] = "index" /\ f \notin todo[p]
          \/ pc[p] \in {"save", "commit"}
          => Settled(gNodes[p][f], gDocs[p][f], gRows[p][f], f)'
      <4>1. SUFFICES ASSUME \/ pc[p] = "index" /\ f \notin todo[p]
                            \/ pc[p] \in {"save", "commit"}
                     PROVE  Settled(gNodes[p][f], gDocs[p][f], gRows[p][f], f)'
        OBVIOUS
      <4>2. gRows[p][f] # None /\ Settled(gNodes[p][f], gDocs[p][f], gRows[p][f], f)
        BY <2>1, <4>1 DEF Undisturbed
      <4>3. f \in Path /\ MtimesPast
        BY DEF Path, IInv
      <4>4. gRows[p][f] \in Row /\ gRows[p][f].mtime <= clock
        BY <4>2, <4>3 DEF TypeOK, MtimesPast
      <4>5. QED
        BY <1>1, <4>2, <4>3, <4>4, MtimeKept DEF Settled
    <3>3. QED
      BY <1>1, <2>1, <3>1, <3>2 DEF Undisturbed, InWindow
  <2>4. QED
    BY <2>2, <2>3
<1>5. QED
  BY <1>1, <1>2, <1>4 DEF ScanOf

\* A touch moves the mtime past every recorded one.
LEMMA ScanTouched ==
  ASSUME TypeOK, IInv, NEW p \in Proc, NEW g \in Note, Touch(g), [Next]_vars
  PROVE  ScanOf(p)'
<1>1. /\ UNCHANGED <<pc, cmd, inv, todo, gNodes, gDocs, gRows, hashing, torn>>
      /\ \A f \in Note : Read(f)' = Read(f)
  <2>1. g \in Path /\ fs[g] \in File
    BY DEF Touch, TypeOK, Path
  <2>2. fs' = [fs EXCEPT ![g] = [fs[g] EXCEPT !.mtime = clock + 1]]
    BY DEF Touch, Change
  <2>3. [fs[g] EXCEPT !.mtime = clock + 1].content = fs[g].content
    BY <2>1 DEF File
  <2>4. [fs[g] EXCEPT !.mtime = clock + 1] # None
    <3>0. clock + 1 \in Nat
      BY DEF TypeOK
    <3>1. [fs[g] EXCEPT !.mtime = clock + 1] \in File
      BY <2>1, <3>0 DEF File
    <3>2. QED
      BY <3>1, NoneIsNoRecord
  <2>5. QED
    BY <2>1, <2>2, <2>3, <2>4 DEF Touch, Change, memVars, Read, TypeOK, Path
<1>2. InInventory(p)'
  BY <1>1 DEF IInv, ScanInv, ScanOf, InInventory, Holding
<1>3. ASSUME NEW f \in (inv[p] \cap Note) \ torn[p]
      PROVE  Undisturbed(p, f)'
  <2>1. Undisturbed(p, f)
    BY <1>3 DEF IInv, ScanInv, ScanOf
  <2>2. ASSUME \/ pc[p] = "index" /\ f \notin todo[p]
               \/ pc[p] \in {"save", "commit"}
        PROVE  Settled(gNodes[p][f], gDocs[p][f], gRows[p][f], f)'
    <3>1. gRows[p][f] # None /\ Settled(gNodes[p][f], gDocs[p][f], gRows[p][f], f)
      BY <2>1, <2>2 DEF Undisturbed
    <3>2. f \in Path /\ MtimesPast
      BY DEF Path, IInv
    <3>3. gRows[p][f] \in Row /\ gRows[p][f].mtime <= clock
      BY <3>1, <3>2 DEF TypeOK, MtimesPast
    <3>4. QED
      BY <1>1, <3>1, <3>2, <3>3, MtimeKept DEF Settled
  <2>3. QED
    BY <1>1, <2>1, <2>2 DEF Undisturbed
<1>4. QED
  BY <1>1, <1>2, <1>3 DEF ScanOf

\* A command's step leaves the other commands' memory alone.
LEMMA OthersMemory ==
  ASSUME TypeOK, NEW p \in Proc, NEW q \in Proc, q # p,
         Step(p) \/ Kill(p) \/ \E c \in Cmd : Start(p, c)
  PROVE  UNCHANGED Memory(q)
<1> USE DEF Memory, TypeOK
<1>1. CASE Probe(p) \/ Drop(p) \/ Create(p)
  BY <1>1 DEF Probe, Drop, Create, Goto, memVars, history
<1>2. CASE Decide(p) \/ CountNodes(p) \/ LoadPrior(p) \/ BuildInventory(p)
  BY <1>2 DEF Decide, CountNodes, LoadPrior, BuildInventory, Goto, history
<1>3. CASE Diff(p) \/ \E k \in Stamp : WriteStamp(p, k)
  BY <1>3 DEF Diff, WriteStamp, history
<1>4. CASE Scan(p)
  BY <1>4 DEF Scan, Goto
<1>5. CASE NextPass(p)
  BY <1>5 DEF NextPass, history
<1>6. CASE \E f \in Note : ReadNote(p, f) \/ ReadLinks(p, f) \/ ReadDoc(p, f)
  BY <1>6 DEF ReadNote, ReadLinks, ReadDoc, Visit, history
<1>7. CASE \E x \in Path : Hash(p, x) \/ Stat(p, x)
  BY <1>7 DEF Hash, Stat, Visit, history
<1>8. CASE Save(p) \/ Commit(p)
  BY <1>8 DEF Save, Commit, Goto, memVars, history
<1>9. CASE Return(p)
  BY <1>9 DEF Return
<1>10. CASE \E c \in Cmd : Start(p, c)
  BY <1>10 DEF Start
<1>11. QED
  BY <1>1, <1>2, <1>3, <1>4, <1>5, <1>6, <1>7, <1>8, <1>9, <1>10
  DEF Step, Finish, Fail, Kill

\* Only the user changes a note.
LEMMA NotesKept ==
  ASSUME TypeOK, IInv, NEW p \in Proc,
         Step(p) \/ Kill(p) \/ \E c \in Cmd : Start(p, c)
  PROVE  \A f \in Note : fs'[f] = fs[f]
<1>1. UNCHANGED <<fs, clock>> \/ DbWritten(p)
  <2>1. CASE \/ Probe(p) \/ Decide(p) \/ CountNodes(p) \/ LoadPrior(p)
             \/ BuildInventory(p) \/ Diff(p) \/ Scan(p) \/ NextPass(p)
             \/ Save(p)
    BY <2>1 DEF Probe, Decide, CountNodes, LoadPrior, BuildInventory, Diff,
                Scan, NextPass, Save
  <2>2. CASE \/ \E f \in Note : ReadNote(p, f) \/ ReadLinks(p, f) \/ ReadDoc(p, f)
             \/ \E x \in Path : Hash(p, x) \/ Stat(p, x)
    BY <2>2 DEF ReadNote, ReadLinks, ReadDoc, Hash, Stat, Visit
  <2>3. CASE Finish(p) \/ Fail(p) \/ Kill(p) \/ \E c \in Cmd : Start(p, c)
    BY <2>3 DEF Finish, Fail, Kill, Return, Start
  <2>4. CASE \/ Drop(p) \/ Create(p) \/ Commit(p)
             \/ \E k \in Stamp : WriteStamp(p, k)
    BY <2>4 DEF Drop, Create, Commit, WriteStamp
  <2>5. QED
    BY <2>1, <2>2, <2>3, <2>4 DEF Step
<1>2. QED
  BY <1>1, DbWrittenKeepsNotes DEF IInv

\* The steps before the scan, the stamps and the ends of a run.
LEMMA IdleSteps ==
  ASSUME TypeOK, NEW p \in Proc,
         \/ Decide(p) \/ CountNodes(p) \/ LoadPrior(p) \/ BuildInventory(p)
         \/ Diff(p) \/ \E k \in Stamp : WriteStamp(p, k)
         \/ Commit(p) \/ Return(p) \/ \E c \in Cmd : Start(p, c)
  PROVE  ScanOf(p)'
<1> SUFFICES ~Holding(p)'
  BY NothingHeld
<1> USE DEF Holding, Pass, TypeOK
<1>1. CASE Decide(p) \/ CountNodes(p) \/ LoadPrior(p) \/ BuildInventory(p)
  BY <1>1 DEF Decide, CountNodes, LoadPrior, BuildInventory, Goto
<1>2. CASE Diff(p)
  <2>1. pc'[p] \in {"stamp", "scan"}
    BY <1>2 DEF Diff
  <2>2. QED
    BY <2>1
<1>3. CASE \E k \in Stamp : WriteStamp(p, k)
  <2>1. pc'[p] \in {"stamp", "noop"}
    BY <1>3 DEF WriteStamp
  <2>2. QED
    BY <2>1
<1>4. CASE Commit(p) \/ Return(p)
  BY <1>4 DEF Commit, Return, Goto
<1>5. CASE \E c \in Cmd : Start(p, c)
  <2>1. \/ pc'[p] = "scan"
        \/ pc'[p] = "open" /\ cmd'[p] # "build"
    BY <1>5 DEF Start
  <2>2. QED
    BY <2>1
<1>6. QED
  BY <1>1, <1>2, <1>3, <1>4, <1>5

\* Opening the store: a build keeps the scan it made, the others hold none.
LEMMA OpenSteps ==
  ASSUME TypeOK, IInv, NEW p \in Proc, Probe(p) \/ Drop(p) \/ Create(p)
  PROVE  ScanOf(p)'
<1>1. /\ UNCHANGED <<cmd, inv, gNodes, gDocs, gRows, hashing, torn>>
      /\ pc[p] \in {"open", "drop", "create"}
      /\ \A f \in Note : fs'[f] = fs[f]
  <2>1. \A f \in Note : fs'[f] = fs[f]
    BY NotesKept DEF Step
  <2>2. QED
    BY <2>1 DEF Probe, Drop, Create, Goto, memVars, history
<1>2. CASE cmd[p] # "build"
  <2>1. pc'[p] \in {"drop", "create", "decide", "opened"}
    BY <1>2 DEF Probe, Drop, Create, Goto, TypeOK, Cmd
  <2>2. QED
    BY <1>1, <1>2, <2>1, NothingHeld DEF Holding, Pass
<1>3. CASE cmd[p] = "build"
  <2>1. \/ pc'[p] \in {"drop", "create"}
        \/ pc'[p] = "docs" /\ todo'[p] = inv[p] \cap Note
    BY <1>3 DEF Probe, Drop, Create, Goto, TypeOK
  <2>2. Holding(p) /\ ScanOf(p)
    BY <1>1, <1>3 DEF IInv, ScanInv, Holding
  <2>3. InInventory(p)'
    BY <1>1, <2>1, <2>2 DEF ScanOf, InInventory, Pass
  <2>4. ASSUME NEW f \in (inv[p] \cap Note) \ torn[p]
        PROVE  Undisturbed(p, f)'
    <3>1. gNodes[p][f] = Scanned(Read(f))
      BY <1>1, <1>3, <2>2, <2>4 DEF ScanOf, Undisturbed
    <3>2. gNodes'[p][f] = Scanned(Read(f)')
      BY <1>1, <3>1 DEF Read, Scanned
    <3>3. QED
      BY <1>1, <2>1, <2>4, <3>2 DEF Undisturbed
  <2>5. QED
    BY <1>1, <2>3, <2>4 DEF ScanOf
<1>4. QED
  BY <1>2, <1>3

\* Between two passes every listed note has been visited.
LEMMA PassSteps ==
  ASSUME TypeOK, IInv, NEW p \in Proc, Scan(p) \/ NextPass(p) \/ Save(p)
  PROVE  ScanOf(p)'
<1>1. CASE Scan(p)
  <2>1. /\ pc'[p] = "notes" /\ inv'[p] = Worktree
        /\ todo'[p] = Worktree \cap Note
        /\ gNodes'[p] = NoNodes /\ gDocs'[p] = NoNodes /\ gRows'[p] = NoRows
    BY <1>1 DEF Scan, Goto, TypeOK
  <2>2. InInventory(p)'
    BY <2>1 DEF InInventory, NoNodes, NoRows, Path
  <2>3. \A f \in inv'[p] \cap Note : Undisturbed(p, f)'
    BY <2>1 DEF Undisturbed
  <2>4. QED
    BY <2>2, <2>3 DEF ScanOf
<1>2. CASE NextPass(p)
  <2>1. /\ UNCHANGED <<fs, cmd, inv, gNodes, gDocs, gRows, hashing, torn>>
        /\ hashing[p] = None /\ todo[p] = {}
        /\ \/ pc[p] = "notes" /\ pc'[p] = "links" /\ todo'[p] = inv[p] \cap Note
           \/ pc[p] = "links" /\ pc'[p] = "open" /\ cmd[p] = "build"
           \/ pc[p] = "links" /\ pc'[p] = "docs" /\ todo'[p] = inv[p] \cap Note
           \/ pc[p] = "docs" /\ pc'[p] = "index" /\ todo'[p] = inv[p]
           \/ pc[p] = "index" /\ pc'[p] = "save"
    BY <1>2 DEF NextPass, TypeOK, history, Pass
  <2>2. Holding(p) /\ ScanOf(p)
    BY <2>1 DEF IInv, ScanInv, Holding, Pass
  <2>3. InInventory(p)'
    BY <2>1, <2>2 DEF ScanOf, InInventory, Pass
  <2>4. ASSUME NEW f \in (inv[p] \cap Note) \ torn[p]
        PROVE  Undisturbed(p, f)'
    <3>1. Undisturbed(p, f) /\ f \notin todo[p] /\ f \in inv[p] /\ Read(f)' = Read(f)
      BY <2>1, <2>2, <2>4 DEF ScanOf, Read
    <3>2. CASE pc'[p] = "links"
      BY <2>1, <2>4, <3>1, <3>2 DEF Undisturbed
    <3>3. CASE pc'[p] = "open"
      BY <2>1, <3>1, <3>3 DEF Undisturbed, Scanned
    <3>4. CASE pc'[p] = "docs"
      BY <2>1, <2>4, <3>1, <3>4 DEF Undisturbed, Scanned
    <3>5. CASE pc'[p] = "index"
      BY <2>1, <3>1, <3>5 DEF Undisturbed, Scanned, DocOf
    <3>6. CASE pc'[p] = "save"
      <4>1. /\ gRows[p][f] # None
            /\ Settled(gNodes[p][f], gDocs[p][f], gRows[p][f], f)
        BY <2>1, <3>1, <3>6 DEF Undisturbed
      <4>2. QED
        BY <2>1, <3>6, <4>1 DEF Undisturbed, Settled
    <3>7. QED
      BY <2>1, <3>2, <3>3, <3>4, <3>5, <3>6
  <2>5. QED
    BY <2>1, <2>3, <2>4 DEF ScanOf
<1>3. CASE Save(p)
  <2>1. /\ UNCHANGED <<fs, cmd, inv, gNodes, gDocs, gRows, hashing, torn>>
        /\ pc[p] = "save" /\ pc'[p] = "commit"
    BY <1>3 DEF Save, Goto, memVars, history, TypeOK
  <2>2. Holding(p) /\ ScanOf(p)
    BY <2>1 DEF IInv, ScanInv, Holding
  <2>3. InInventory(p)'
    BY <2>1, <2>2 DEF ScanOf, InInventory, Pass
  <2>4. ASSUME NEW f \in (inv[p] \cap Note) \ torn[p]
        PROVE  Undisturbed(p, f)'
    BY <2>1, <2>2, <2>4 DEF ScanOf, Undisturbed, Settled
  <2>5. QED
    BY <2>1, <2>3, <2>4 DEF ScanOf
<1>4. QED
  BY <1>1, <1>2, <1>3

\* The two passes over the notes.
LEMMA ReadSteps ==
  ASSUME TypeOK, IInv, NEW p \in Proc, NEW g \in Note,
         ReadNote(p, g) \/ ReadLinks(p, g) \/ ReadDoc(p, g)
  PROVE  ScanOf(p)'
<1>1. /\ UNCHANGED <<fs, pc, cmd, inv, gRows, hashing, torn>>
      /\ todo'[p] = todo[p] \ {g} /\ g \in todo[p]
      /\ pc[p] \in {"notes", "links", "docs"}
  BY DEF ReadNote, ReadLinks, ReadDoc, Visit, history, TypeOK
<1>2. Holding(p) /\ ScanOf(p) /\ g \in inv[p]
  BY <1>1 DEF IInv, ScanInv, ScanOf, InInventory, Holding, Pass
<1>3. \A f \in Note \ {g} : gNodes'[p][f] = gNodes[p][f] /\ gDocs'[p][f] = gDocs[p][f]
  BY DEF ReadNote, ReadLinks, ReadDoc, TypeOK
<1>4. InInventory(p)'
  BY <1>1, <1>2, <1>3 DEF ScanOf, InInventory, Pass
<1>5. ASSUME NEW f \in (inv[p] \cap Note) \ torn[p]
      PROVE  Undisturbed(p, f)'
  <2>1. Undisturbed(p, f) /\ Read(f)' = Read(f)
    BY <1>1, <1>2, <1>5 DEF ScanOf, Read
  <2>2. CASE f # g
    BY <1>1, <1>3, <2>1, <2>2 DEF Undisturbed
  <2>3. CASE f = g /\ ReadNote(p, g)
    <3>1. pc[p] = "notes" /\ gNodes'[p][f] = [fm |-> Read(f), links |-> Unread]
      BY <2>3 DEF ReadNote, Visit, TypeOK
    <3>2. QED
      BY <1>1, <2>1, <3>1 DEF Undisturbed
  <2>4. CASE f = g /\ ReadLinks(p, g)
    <3>1. /\ pc[p] = "links"
          /\ gNodes'[p][f] = [fm |-> gNodes[p][f].fm, links |-> Read(f)]
      BY <2>4 DEF ReadLinks, Visit, TypeOK
    <3>2. gNodes[p][f].fm = Read(f)
      BY <2>1, <3>1 DEF Undisturbed
    <3>3. QED
      BY <1>1, <2>1, <2>4, <3>1, <3>2 DEF Undisturbed
  <2>5. CASE f = g /\ ReadDoc(p, g)
    <3>1. /\ pc[p] = "docs" /\ gNodes' = gNodes
          /\ gDocs'[p][f] = IF fs[f] = None THEN None ELSE fs[f].content
      BY <2>5 DEF ReadDoc, Visit, TypeOK
    <3>2. fs[f] # None => fs[f].content # Unread
      BY DEF TypeOK, Path, File, Body
    <3>3. gDocs'[p][f] = DocOf(Read(f)')
      BY <2>1, <3>1, <3>2 DEF DocOf, Read
    <3>4. QED
      BY <1>1, <2>1, <3>1, <3>3 DEF Undisturbed, Scanned
  <2>6. QED
    BY <2>2, <2>3, <2>4, <2>5
<1>6. QED
  BY <1>1, <1>4, <1>5 DEF ScanOf

\* Hash and stat of one file.
LEMMA IndexSteps ==
  ASSUME TypeOK, IInv, NEW p \in Proc, NEW x \in Path, Hash(p, x) \/ Stat(p, x)
  PROVE  ScanOf(p)'
<1>1. /\ UNCHANGED <<fs, pc, cmd, inv, gNodes, gDocs, torn>>
      /\ pc[p] = "index" /\ x \in todo[p]
      /\ \A f \in Note : Read(f)' = Read(f)
  BY DEF Hash, Stat, Visit, history, Read
<1>2. Holding(p) /\ ScanOf(p) /\ x \in inv[p]
  BY <1>1 DEF IInv, ScanInv, ScanOf, InInventory, Holding, Pass
<1>3. CASE Hash(p, x)
  <2>1. /\ todo' = todo /\ gRows' = gRows
        /\ hashing'[p] = [path |-> x, hash |-> Read(x)]
    BY <1>3 DEF Hash, TypeOK
  <2>2. InInventory(p)'
    BY <1>1, <1>2, <2>1 DEF ScanOf, InInventory, Pass
  <2>3. ASSUME NEW f \in (inv[p] \cap Note) \ torn[p]
        PROVE  Undisturbed(p, f)'
    BY <1>1, <1>2, <2>1, <2>3 DEF ScanOf, Undisturbed, Settled
  <2>4. QED
    BY <1>1, <2>2, <2>3 DEF ScanOf
<1>4. CASE Stat(p, x)
  <2> DEFINE m == IF fs[x] = None THEN 0 ELSE fs[x].mtime
  <2>1. /\ todo'[p] = todo[p] \ {x} /\ hashing'[p] = None
        /\ hashing[p] # None /\ hashing[p].path = x
        /\ gRows'[p][x] = [hash |-> hashing[p].hash, mtime |-> m]
        /\ \A y \in Path \ {x} : gRows'[p][y] = gRows[p][y]
    BY <1>4 DEF Stat, Visit, TypeOK
  <2>2. InInventory(p)'
    BY <1>1, <1>2, <2>1 DEF ScanOf, InInventory, Pass, Path
  <2>3. ASSUME NEW f \in (inv[p] \cap Note) \ torn[p]
        PROVE  Undisturbed(p, f)'
    <3>1. Undisturbed(p, f) /\ f \in Path
      BY <1>2, <2>3 DEF ScanOf, Path
    <3>2. CASE f # x
      BY <1>1, <2>1, <3>1, <3>2 DEF Undisturbed, Settled
    <3>3. CASE f = x
      <4>1. /\ gNodes[p][f] = Scanned(Read(f)) /\ gDocs[p][f] = DocOf(Read(f))
            /\ hashing[p].hash = Read(f)
        BY <1>1, <2>1, <3>1, <3>3 DEF Undisturbed
      <4>2. gRows'[p][f] # None
        <5>1. hashing[p] \in Hashed /\ m \in Nat
          BY <2>1, <3>1, <3>3 DEF TypeOK, File
        <5>2. [hash |-> hashing[p].hash, mtime |-> m] \in Row
          BY <5>1 DEF Hashed, Row
        <5>3. QED
          BY <2>1, <3>3, <5>2, NoneIsNoRecord
      <4>3. gRows'[p][f].hash = Read(f)
        BY <2>1, <3>3, <4>1
      <4>4. Settled(gNodes[p][f], gDocs[p][f], gRows[p][f], f)'
        BY <1>1, <4>1, <4>3 DEF Settled, Read, Scanned, DocOf
      <4>5. QED
        BY <1>1, <2>1, <3>3, <4>2, <4>4 DEF Undisturbed
    <3>4. QED
      BY <3>2, <3>3
  <2>4. QED
    BY <1>1, <2>2, <2>3 DEF ScanOf
<1>5. QED
  BY <1>3, <1>4

LEMMA ScanInvStep ==
  ASSUME TypeOK, IInv, [Next]_vars
  PROVE  ScanInv'
<1> SUFFICES ASSUME NEW q \in Proc PROVE ScanOf(q)'
  BY DEF ScanInv
<1>0. ScanOf(q)
  BY DEF IInv, ScanInv
<1>1. ASSUME NEW p \in Proc, Step(p) \/ Kill(p) \/ \E c \in Cmd : Start(p, c)
      PROVE  ScanOf(q)'
  <2>1. CASE p = q
    BY <1>1, <2>1, IdleSteps, OpenSteps, PassSteps, ReadSteps, IndexSteps
    DEF Step, Finish, Fail, Kill
  <2>2. CASE p # q
    BY <1>0, <1>1, <2>2, OthersMemory, NotesKept, ScanKept
  <2>3. QED
    BY <2>1, <2>2
<1>2. CASE UserStep
  <2>1. ASSUME NEW f \in Note, Write(f)
        PROVE  ScanOf(q)'
    <3>1. PICK c \in Content : /\ Change(f, [content |-> c, mtime |-> clock + 1])
                              /\ NoteChanged(f)
      BY <2>1 DEF Write
    <3>2. clock + 1 \in Nat
      BY DEF TypeOK
    <3>3. [content |-> c, mtime |-> clock + 1] \in File
      BY <3>2 DEF File, Body
    <3>4. QED
      BY <3>1, <3>3, ScanEdited
  <2>2. ASSUME NEW f \in Note, Delete(f)
        PROVE  ScanOf(q)'
    BY <2>2, ScanEdited DEF Delete
  <2>3. QED
    BY <1>2, <2>1, <2>2, ScanTouched DEF UserStep
<1>3. CASE DeleteAll
  <2>1. \A f \in Note : fs'[f] = fs[f]
    BY <1>3, DbWrittenKeepsNotes DEF DeleteAll, IInv
  <2>2. UNCHANGED Memory(q)
    BY <1>3 DEF DeleteAll, Memory, memVars
  <2>3. QED
    BY <1>0, <2>1, <2>2, ScanKept
<1>4. CASE UNCHANGED vars
  BY <1>0, <1>4, ScanKept DEF vars, memVars, history, Memory
<1>5. QED
  BY <1>1, <1>2, <1>3, <1>4 DEF Next, Interference

-----------------------------------------------------------------------------
(***************************************************************************)
(* The theorems.                                                           *)
(***************************************************************************)
LEMMA IInvInit == Init => IInv
<1> SUFFICES ASSUME Init PROVE IInv
  OBVIOUS
<1>1. MtimesPast
  BY DEF Init, MtimesPast, NoRows
<1>2. RowsSettled
  BY DEF Init, RowsSettled
<1>3. ScanInv
  BY DEF Init, ScanInv, ScanOf, InInventory, Holding, Pass
<1>4. QED
  BY <1>1, <1>2, <1>3 DEF IInv

\* What a command has read of a note nobody edited since is what it commits,
\* and what it commits stays right about the note until the note's mtime moves.
THEOREM ScanStaysRight == Spec => []IInv
<1>1. Init => TypeOK /\ IInv
  BY InitType, IInvInit
<1>2. TypeOK /\ IInv /\ [Next]_vars => TypeOK' /\ IInv'
  <2> SUFFICES ASSUME TypeOK, IInv, [Next]_vars PROVE TypeOK' /\ IInv'
    OBVIOUS
  <2>1. TypeOK'
    BY NextType
  <2>2. MtimesPast'
    BY MtimesStep DEF IInv
  <2>3. RowsSettled'
    BY RowsSettledStep
  <2>4. ScanInv'
    BY ScanInvStep
  <2>5. QED
    BY <2>1, <2>2, <2>3, <2>4 DEF IInv
<1>3. QED
  BY <1>1, <1>2, PTL DEF Spec

LEMMA SettledVouches == TypeOK /\ IInv => RowsVouch
<1> SUFFICES ASSUME TypeOK, IInv,
                    NEW f \in Note, f \notin dbTorn,
                    scopes, rows[f] # None, fs[f] # None,
                    rows[f].mtime = fs[f].mtime \/ rows[f].hash = fs[f].content
             PROVE  Indexed(f, fs[f].content)
  BY DEF RowsVouch
<1>1. Settled(nodes[f], docs[f], rows[f], f)
  BY DEF IInv, RowsSettled
<1>2. rows[f].hash = fs[f].content
  BY <1>1 DEF Settled
<1>3. fs[f].content # Unread
  BY DEF TypeOK, Path, File, Body
<1>4. QED
  BY <1>1, <1>2, <1>3 DEF Settled, Scanned, DocOf, Indexed

\* The no-op path of a refresh may trust an indexed_files row whose mtime, or
\* whose hash, still matches the file: node and search document carry the
\* file's bytes, unless the note was edited inside the read window of the run
\* that committed last.
THEOREM RowsMayBeTrusted == Spec => []RowsVouch
<1>1. TypeOK /\ IInv => RowsVouch
  BY SettledVouches
<1>2. QED
  BY <1>1, TypeCorrect, ScanStaysRight, PTL

-----------------------------------------------------------------------------
(***************************************************************************)
(* The strengthening: a scan leaves a node and a row for every note it     *)
(* listed, and whoever is about to commit holds the lock of a database     *)
(* that has its tables.                                                    *)
(***************************************************************************)
HasNode(p) ==
  Holding(p) =>
    \A f \in inv[p] \cap Note :
      gNodes[p][f] # None \/ (pc[p] = "notes" /\ f \in todo[p])

HasRow(p) ==
  pc[p] \in {"index", "save", "commit"} =>
    \A f \in inv[p] \cap Note :
      gRows[p][f] # None \/ (pc[p] = "index" /\ f \in todo[p])

Complete(p) == HasNode(p) /\ HasRow(p)

Locked(p) == pc[p] = "commit" => tables /\ lock = p

TInv == DbCoherent /\ \A p \in Proc : Complete(p) /\ Locked(p)

-----------------------------------------------------------------------------
(***************************************************************************)
(* The scan is complete.                                                   *)
(***************************************************************************)

\* A command that is not scanning owes no record.
LEMMA NothingOwed ==
  ASSUME NEW p \in Proc, ~Holding(p)'
  PROVE  Complete(p)'
BY DEF Complete, HasNode, HasRow, Holding, Pass

LEMMA CompleteKept ==
  ASSUME NEW p \in Proc, Complete(p), UNCHANGED Memory(p)
  PROVE  Complete(p)'
BY DEF Complete, HasNode, HasRow, Holding, Memory

\* The steps before the scan, the stamps and the ends of a run.
LEMMA IdleOwesNothing ==
  ASSUME TypeOK, NEW p \in Proc,
         \/ Decide(p) \/ CountNodes(p) \/ LoadPrior(p) \/ BuildInventory(p)
         \/ Diff(p) \/ \E k \in Stamp : WriteStamp(p, k)
         \/ Commit(p) \/ Return(p) \/ \E c \in Cmd : Start(p, c)
  PROVE  Complete(p)'
<1> SUFFICES ~Holding(p)'
  BY NothingOwed
<1> USE DEF Holding, Pass, TypeOK
<1>1. CASE Decide(p) \/ CountNodes(p) \/ LoadPrior(p) \/ BuildInventory(p)
  BY <1>1 DEF Decide, CountNodes, LoadPrior, BuildInventory, Goto
<1>2. CASE Diff(p)
  <2>1. pc'[p] \in {"stamp", "scan"}
    BY <1>2 DEF Diff
  <2>2. QED
    BY <2>1
<1>3. CASE \E k \in Stamp : WriteStamp(p, k)
  <2>1. pc'[p] \in {"stamp", "noop"}
    BY <1>3 DEF WriteStamp
  <2>2. QED
    BY <2>1
<1>4. CASE Commit(p) \/ Return(p)
  BY <1>4 DEF Commit, Return, Goto
<1>5. CASE \E c \in Cmd : Start(p, c)
  <2>1. \/ pc'[p] = "scan"
        \/ pc'[p] = "open" /\ cmd'[p] # "build"
    BY <1>5 DEF Start
  <2>2. QED
    BY <2>1
<1>6. QED
  BY <1>1, <1>2, <1>3, <1>4, <1>5

\* Opening the store and taking the write lock.
LEMMA OpenStaysComplete ==
  ASSUME TypeOK, NEW p \in Proc, Complete(p),
         Probe(p) \/ Drop(p) \/ Create(p) \/ Save(p)
  PROVE  Complete(p)'
<1>1. UNCHANGED <<cmd, inv, gNodes, gRows>>
  BY DEF Probe, Drop, Create, Save, memVars
<1>2. \/ pc[p] = "save" /\ pc'[p] = "commit"
      \/ /\ pc[p] \in {"open", "drop", "create"}
         /\ \/ cmd[p] = "build" /\ pc'[p] \in {"drop", "create", "docs"}
            \/ pc'[p] \in {"drop", "create", "decide", "opened"}
  BY DEF Probe, Drop, Create, Save, Goto, TypeOK, Cmd
<1>3. Holding(p)' => Holding(p) /\ pc[p] # "notes"
  BY <1>1, <1>2 DEF Holding, Pass
<1>4. HasNode(p)'
  BY <1>1, <1>3 DEF Complete, HasNode
<1>5. pc'[p] \in {"index", "save", "commit"} => pc[p] = "save"
  BY <1>2
<1>6. HasRow(p)'
  BY <1>1, <1>5 DEF Complete, HasRow
<1>7. QED
  BY <1>4, <1>6 DEF Complete

\* A pass ends when nothing is left to visit.
LEMMA PassStaysComplete ==
  ASSUME TypeOK, NEW p \in Proc, Complete(p), Scan(p) \/ NextPass(p)
  PROVE  Complete(p)'
<1>1. CASE Scan(p)
  <2>1. /\ pc'[p] = "notes" /\ inv'[p] = Worktree
        /\ todo'[p] = Worktree \cap Note
    BY <1>1 DEF Scan, Goto, TypeOK
  <2>2. QED
    BY <2>1 DEF Complete, HasNode, HasRow
<1>2. CASE NextPass(p)
  <2>1. /\ UNCHANGED <<cmd, inv, gNodes, gRows>> /\ todo[p] = {}
        /\ \/ pc[p] = "notes" /\ pc'[p] = "links"
           \/ pc[p] = "links" /\ pc'[p] = "open" /\ cmd[p] = "build"
           \/ pc[p] = "links" /\ pc'[p] = "docs"
           \/ pc[p] = "docs" /\ pc'[p] = "index" /\ todo'[p] = inv[p]
           \/ pc[p] = "index" /\ pc'[p] = "save"
    BY <1>2 DEF NextPass, TypeOK, Pass
  <2>2. QED
    BY <2>1 DEF Complete, HasNode, HasRow, Holding, Pass
<1>3. QED
  BY <1>1, <1>2

\* A note that vanished keeps a bare node, whichever pass missed it.
LEMMA ReadStaysComplete ==
  ASSUME TypeOK, NEW p \in Proc, NEW g \in Note, Complete(p),
         ReadNote(p, g) \/ ReadLinks(p, g) \/ ReadDoc(p, g)
  PROVE  Complete(p)'
<1>1. /\ UNCHANGED <<pc, cmd, inv, gRows>>
      /\ todo'[p] = todo[p] \ {g}
      /\ pc[p] \in {"notes", "links", "docs"}
  BY DEF ReadNote, ReadLinks, ReadDoc, Visit, TypeOK
<1>2. \A n \in Node : n # None
  BY NoneIsNoRecord
<1>3. \A f \in Note : gNodes'[p][f] # gNodes[p][f] => f = g /\ gNodes'[p][f] \in Node
  <2>1. g \in Path /\ Read(g) \in Body \cup {Unread}
    BY ReadType DEF Path
  <2>2. CASE ReadNote(p, g)
    <3>1. [fm |-> Read(g), links |-> Unread] \in Node
      BY <2>1 DEF Node
    <3>2. QED
      BY <2>2, <3>1 DEF ReadNote, TypeOK
  <2>3. CASE ReadLinks(p, g)
    <3>1. gNodes[p][g] \in Node
      BY <2>3 DEF ReadLinks, TypeOK
    <3>2. [fm |-> gNodes[p][g].fm, links |-> Read(g)] \in Node
      BY <2>1, <3>1 DEF Node
    <3>3. QED
      BY <2>3, <3>2 DEF ReadLinks, TypeOK
  <2>4. CASE ReadDoc(p, g)
    BY <2>4 DEF ReadDoc
  <2>5. QED
    BY <2>2, <2>3, <2>4
<1>4. pc[p] = "notes" => gNodes'[p][g] # None
  <2>1. SUFFICES ASSUME pc[p] = "notes" PROVE gNodes'[p][g] # None
    OBVIOUS
  <2>2. gNodes'[p][g] = [fm |-> Read(g), links |-> Unread]
    BY <2>1 DEF ReadNote, ReadLinks, ReadDoc, Visit, TypeOK
  <2>3. g \in Path /\ Read(g) \in Body \cup {Unread}
    BY ReadType DEF Path
  <2>4. [fm |-> Read(g), links |-> Unread] \in Node
    BY <2>3 DEF Node
  <2>5. QED
    BY <1>2, <2>2, <2>4
<1>5. ASSUME NEW f \in inv[p] \cap Note, Holding(p)
      PROVE  gNodes'[p][f] # None \/ (pc[p] = "notes" /\ f \in todo'[p])
  <2>1. gNodes[p][f] # None \/ (pc[p] = "notes" /\ f \in todo[p])
    BY <1>5 DEF Complete, HasNode
  <2>2. CASE gNodes'[p][f] = gNodes[p][f]
    BY <1>1, <1>4, <2>1, <2>2
  <2>3. CASE gNodes'[p][f] # gNodes[p][f]
    BY <1>2, <1>3, <2>3
  <2>4. QED
    BY <2>2, <2>3
<1>6. HasNode(p)'
  BY <1>1, <1>5 DEF HasNode, Holding
<1>7. HasRow(p)'
  BY <1>1 DEF HasRow
<1>8. QED
  BY <1>6, <1>7 DEF Complete

\* A row is written for every listed file, the unreadable ones included.
LEMMA IndexStaysComplete ==
  ASSUME TypeOK, NEW p \in Proc, NEW x \in Path, Complete(p),
         Hash(p, x) \/ Stat(p, x)
  PROVE  Complete(p)'
<1>1. UNCHANGED <<pc, cmd, inv, gNodes>> /\ pc[p] = "index"
  BY DEF Hash, Stat, Visit
<1>2. HasNode(p)'
  <2>1. \A f \in inv[p] \cap Note : gNodes[p][f] # None
    BY <1>1 DEF Complete, HasNode, Holding, Pass
  <2>2. QED
    BY <1>1, <2>1 DEF HasNode
<1>3. CASE Hash(p, x)
  BY <1>1, <1>2, <1>3 DEF Hash, Complete, HasRow
<1>4. CASE Stat(p, x)
  <2> DEFINE m == IF fs[x] = None THEN 0 ELSE fs[x].mtime
             r == [hash |-> hashing[p].hash, mtime |-> m]
  <2>1. /\ todo'[p] = todo[p] \ {x}
        /\ gRows'[p][x] = r
        /\ \A y \in Path \ {x} : gRows'[p][y] = gRows[p][y]
    BY <1>4 DEF Stat, Visit, TypeOK
  <2>2. r # None
    <3>1. hashing[p] \in Hashed /\ m \in Nat
      BY <1>4 DEF Stat, TypeOK, File
    <3>2. r \in Row
      BY <3>1 DEF Hashed, Row
    <3>3. QED
      BY <3>2, NoneIsNoRecord
  <2>3. ASSUME NEW f \in inv[p] \cap Note
        PROVE  gRows'[p][f] # None \/ f \in todo'[p]
    <3>1. f \in Path /\ (gRows[p][f] # None \/ f \in todo[p])
      BY <1>1, <2>3 DEF Complete, HasRow, Path
    <3>2. QED
      BY <2>1, <2>2, <3>1
  <2>4. HasRow(p)'
    BY <1>1, <2>3 DEF HasRow
  <2>5. QED
    BY <1>2, <2>4 DEF Complete
<1>5. QED
  BY <1>3, <1>4

-----------------------------------------------------------------------------
(***************************************************************************)
(* The lock.                                                               *)
(***************************************************************************)

\* The tables go only when nobody writes, and the lock is taken from nobody.
LEMMA TablesStayLocked ==
  ASSUME TypeOK, NEW p \in Proc, NEW q \in Proc, p # q, Locked(p), Locked(q),
         Step(p) \/ Kill(p) \/ \E c \in Cmd : Start(p, c)
  PROVE  Locked(q)'
<1>1. pc'[q] = pc[q]
  BY OthersMemory DEF Memory
<1>2. SUFFICES ASSUME pc[q] = "commit", tables, lock = q
               PROVE  tables' /\ lock' = q
  BY <1>1 DEF Locked
<1>3. CASE \/ Probe(p) \/ Decide(p) \/ CountNodes(p) \/ LoadPrior(p)
           \/ BuildInventory(p) \/ Diff(p) \/ Scan(p) \/ NextPass(p)
  BY <1>2, <1>3 DEF Probe, Decide, CountNodes, LoadPrior, BuildInventory, Diff,
                    Scan, NextPass, dbVars
<1>4. CASE \/ \E f \in Note : ReadNote(p, f) \/ ReadLinks(p, f) \/ ReadDoc(p, f)
           \/ \E x \in Path : Hash(p, x) \/ Stat(p, x)
  BY <1>2, <1>4 DEF ReadNote, ReadLinks, ReadDoc, Hash, Stat, Visit, dbVars
<1>5. CASE Drop(p) \/ Create(p) \/ Save(p) \/ \E k \in Stamp : WriteStamp(p, k)
  BY <1>2, <1>5 DEF Drop, Create, Save, WriteStamp
<1>6. CASE Commit(p)
  BY <1>2, <1>6 DEF Commit, Goto, Locked
<1>7. CASE Return(p) \/ \E c \in Cmd : Start(p, c)
  BY <1>2, <1>7 DEF Return, Start, dbVars
<1>8. QED
  BY <1>3, <1>4, <1>5, <1>6, <1>7 DEF Step, Finish, Fail, Kill

\* Only Save leads to the commit.
LEMMA CommitIsLocked ==
  ASSUME TypeOK, NEW p \in Proc,
         Step(p) \/ Kill(p) \/ \E c \in Cmd : Start(p, c)
  PROVE  Locked(p)'
<1> SUFFICES ASSUME pc'[p] = "commit" PROVE tables' /\ lock' = p
  BY DEF Locked
<1> USE DEF TypeOK
<1>1. CASE Save(p)
  BY <1>1 DEF Save, dbVars
<1>2. CASE Probe(p) \/ Drop(p) \/ Create(p)
  BY <1>2 DEF Probe, Drop, Create, Goto, Cmd
<1>3. CASE Decide(p) \/ CountNodes(p) \/ LoadPrior(p) \/ BuildInventory(p)
  BY <1>3 DEF Decide, CountNodes, LoadPrior, BuildInventory, Goto
<1>4. CASE Diff(p)
  <2>1. pc'[p] \in {"stamp", "scan"}
    BY <1>4 DEF Diff
  <2>2. QED
    BY <2>1
<1>5. CASE \E k \in Stamp : WriteStamp(p, k)
  <2>1. pc'[p] \in {"stamp", "noop"}
    BY <1>5 DEF WriteStamp
  <2>2. QED
    BY <2>1
<1>6. CASE Scan(p) \/ NextPass(p)
  BY <1>6 DEF Scan, NextPass, Goto, Pass
<1>7. CASE \E f \in Note : ReadNote(p, f) \/ ReadLinks(p, f) \/ ReadDoc(p, f)
  BY <1>7 DEF ReadNote, ReadLinks, ReadDoc, Visit
<1>8. CASE \E x \in Path : Hash(p, x) \/ Stat(p, x)
  BY <1>8 DEF Hash, Stat, Visit
<1>9. CASE Commit(p) \/ Return(p)
  BY <1>9 DEF Commit, Return, Goto
<1>10. CASE \E c \in Cmd : Start(p, c)
  BY <1>10 DEF Start
<1>11. QED
  BY <1>1, <1>2, <1>3, <1>4, <1>5, <1>6, <1>7, <1>8, <1>9, <1>10
  DEF Step, Finish, Fail, Kill

-----------------------------------------------------------------------------
(***************************************************************************)
(* The tables.                                                             *)
(***************************************************************************)

\* Only Drop and DeleteAll empty the tables, and only Commit fills them.
LEMMA TablesKept ==
  ASSUME [Next]_vars, ~\E p \in Proc : Drop(p) \/ Commit(p), ~DeleteAll
  PROVE  UNCHANGED <<schema, scopes, nodes, docs, rows>> /\ (tables => tables')
<1>1. ASSUME NEW p \in Proc, Step(p)
      PROVE  UNCHANGED <<schema, scopes, nodes, docs, rows>> /\ (tables => tables')
  <2>1. CASE \/ Probe(p) \/ Decide(p) \/ CountNodes(p) \/ LoadPrior(p)
             \/ BuildInventory(p) \/ Diff(p) \/ Scan(p) \/ NextPass(p)
             \/ Save(p)
    BY <2>1 DEF Probe, Decide, CountNodes, LoadPrior, BuildInventory, Diff,
                Scan, NextPass, Save, dbVars
  <2>2. CASE \/ \E f \in Note : ReadNote(p, f) \/ ReadLinks(p, f) \/ ReadDoc(p, f)
             \/ \E x \in Path : Hash(p, x) \/ Stat(p, x)
    BY <2>2 DEF ReadNote, ReadLinks, ReadDoc, Hash, Stat, Visit, dbVars
  <2>3. CASE Return(p)
    BY <2>3 DEF Return, dbVars
  <2>4. CASE Create(p) \/ \E k \in Stamp : WriteStamp(p, k)
    BY <2>4 DEF Create, WriteStamp
  <2>5. QED
    BY <1>1, <2>1, <2>2, <2>3, <2>4 DEF Step, Finish, Fail
<1>2. CASE \/ UserStep \/ UNCHANGED vars
           \/ \E p \in Proc : Kill(p) \/ \E c \in Cmd : Start(p, c)
  BY <1>2 DEF UserStep, Write, Delete, Touch, Change, Kill, Return, Start,
              vars, dbVars
<1>3. QED
  BY <1>1, <1>2 DEF Next, Interference

\* A commit writes a complete scan into a database that has its tables.
LEMMA CommitIsCoherent ==
  ASSUME TypeOK, IInv, TInv, NEW p \in Proc, Commit(p)
  PROVE  DbCoherent'
<1>1. /\ nodes' = gNodes[p] /\ docs' = gDocs[p] /\ rows' = gRows[p]
      /\ schema' = "current" /\ scopes' = TRUE /\ tables' = tables
      /\ pc[p] = "commit"
  BY DEF Commit, Goto, SavedNodes, SavedDocs
<1>2. tables
  BY <1>1 DEF TInv, Locked
<1>3. /\ \A f \in Note \cap inv[p] : gNodes[p][f] # None /\ gRows[p][f] # None
      /\ \A f \in Note \ inv[p] :
           gNodes[p][f] = None /\ gDocs[p][f] = None /\ gRows[p][f] = None
  <2>1. Holding(p) /\ InInventory(p) /\ Complete(p)
    BY <1>1 DEF Holding, IInv, ScanInv, ScanOf, TInv
  <2>2. QED
    BY <1>1, <2>1 DEF Complete, HasNode, HasRow, InInventory
<1>4. QED
  BY <1>1, <1>2, <1>3 DEF DbCoherent

LEMMA CoherentStep ==
  ASSUME TypeOK, IInv, TInv, [Next]_vars
  PROVE  DbCoherent'
<1>1. CASE \E p \in Proc : Drop(p)
  BY <1>1 DEF Drop, DbCoherent, NoNodes
<1>2. CASE DeleteAll
  BY <1>2 DEF DeleteAll, DbCoherent, NoNodes
<1>3. CASE \E p \in Proc : Commit(p)
  BY <1>3, CommitIsCoherent
<1>4. CASE ~DeleteAll /\ ~\E p \in Proc : Drop(p) \/ Commit(p)
  BY <1>4, TablesKept DEF TInv, DbCoherent
<1>5. QED
  BY <1>1, <1>2, <1>3, <1>4

LEMMA MemoryStep ==
  ASSUME TypeOK, TInv, [Next]_vars, NEW q \in Proc
  PROVE  Complete(q)' /\ Locked(q)'
<1>0. \A p \in Proc : Complete(p) /\ Locked(p)
  BY DEF TInv
<1>1. ASSUME NEW p \in Proc, Step(p) \/ Kill(p) \/ \E c \in Cmd : Start(p, c)
      PROVE  Complete(q)' /\ Locked(q)'
  <2>1. CASE p = q
    <3>1. Complete(q)'
      BY <1>0, <1>1, <2>1, IdleOwesNothing, OpenStaysComplete,
         PassStaysComplete, ReadStaysComplete, IndexStaysComplete
      DEF Step, Finish, Fail, Kill
    <3>2. QED
      BY <1>1, <2>1, <3>1, CommitIsLocked
  <2>2. CASE p # q
    BY <1>0, <1>1, <2>2, OthersMemory, CompleteKept, TablesStayLocked
  <2>3. QED
    BY <2>1, <2>2
<1>2. CASE UserStep \/ DeleteAll \/ UNCHANGED vars
  <2>1. UNCHANGED <<pc, cmd, inv, todo, gNodes, gRows, tables, lock>>
    BY <1>2 DEF UserStep, Write, Delete, Touch, Change, DeleteAll, vars,
                memVars, dbVars
  <2>2. QED
    BY <1>0, <2>1 DEF Complete, HasNode, HasRow, Holding, Locked
<1>3. QED
  BY <1>1, <1>2 DEF Next, Interference

-----------------------------------------------------------------------------
\* A reader that opens the database between any two steps of any number of
\* commands finds a note's node exactly where it finds its indexed_files row,
\* no document without a node, and all of it under the current schema.
THEOREM TablesAgree == Spec => []DbCoherent
<1>1. Init => TInv
  BY DEF Init, TInv, DbCoherent, NoNodes, NoRows, Complete, HasNode, HasRow,
         Holding, Pass, Locked
<1>2. TypeOK /\ IInv /\ TInv /\ [Next]_vars => TInv'
  BY CoherentStep, MemoryStep DEF TInv
<1>3. TInv => DbCoherent
  BY DEF TInv
<1>4. QED
  BY <1>1, <1>2, <1>3, TypeCorrect, ScanStaysRight, PTL DEF Spec

-----------------------------------------------------------------------------
(***************************************************************************)
(* A command that is alone.                                                *)
(***************************************************************************)
Alone == \A p, q \in Proc : p = q

DropsOldOnly == \A p \in Proc : pc[p] = "drop" => schema # "current"

\* Only Probe leads to the drop.
LEMMA ProbeBeforeDrop ==
  ASSUME TypeOK, NEW p \in Proc, pc'[p] = "drop", ~Probe(p),
         Step(p) \/ Kill(p) \/ \E c \in Cmd : Start(p, c)
  PROVE  pc[p] = "drop" /\ UNCHANGED schema
<1> USE DEF TypeOK
<1>1. CASE Drop(p) \/ Create(p)
  BY <1>1 DEF Drop, Create, Goto, Cmd
<1>2. CASE Decide(p) \/ CountNodes(p) \/ LoadPrior(p) \/ BuildInventory(p)
  BY <1>2 DEF Decide, CountNodes, LoadPrior, BuildInventory, Goto
<1>3. CASE Diff(p)
  <2>1. pc'[p] \in {"stamp", "scan"}
    BY <1>3 DEF Diff
  <2>2. QED
    BY <2>1
<1>4. CASE \E k \in Stamp : WriteStamp(p, k)
  <2>1. pc'[p] \in {"stamp", "noop"}
    BY <1>4 DEF WriteStamp
  <2>2. QED
    BY <2>1
<1>5. CASE Scan(p) \/ NextPass(p)
  BY <1>5 DEF Scan, NextPass, Goto, Pass
<1>6. CASE \E f \in Note : ReadNote(p, f) \/ ReadLinks(p, f) \/ ReadDoc(p, f)
  BY <1>6 DEF ReadNote, ReadLinks, ReadDoc, Visit, dbVars
<1>7. CASE \E x \in Path : Hash(p, x) \/ Stat(p, x)
  BY <1>7 DEF Hash, Stat, Visit, dbVars
<1>8. CASE Save(p) \/ Commit(p) \/ Return(p)
  BY <1>8 DEF Save, Commit, Return, Goto
<1>9. CASE \E c \in Cmd : Start(p, c)
  BY <1>9 DEF Start
<1>10. QED
  BY <1>1, <1>2, <1>3, <1>4, <1>5, <1>6, <1>7, <1>8, <1>9
  DEF Step, Finish, Fail, Kill

LEMMA DropStep ==
  ASSUME TypeOK, Alone, DropsOldOnly, [Next]_vars
  PROVE  /\ DropsOldOnly'
         /\ schema = "current" => schema' = "current"
<1>1. ASSUME NEW p \in Proc, Step(p) \/ Kill(p) \/ \E c \in Cmd : Start(p, c)
      PROVE  /\ pc'[p] = "drop" => schema' # "current"
             /\ schema = "current" => schema' = "current"
  <2>1. CASE Probe(p)
    BY <2>1 DEF Probe, Goto, Drifted, TypeOK, dbVars
  <2>2. CASE ~Probe(p)
    <3>1. pc'[p] = "drop" => schema' # "current"
      BY <1>1, <2>2, ProbeBeforeDrop DEF DropsOldOnly
    <3>2. CASE Drop(p)
      BY <3>1, <3>2 DEF Drop, Goto, DropsOldOnly
    <3>3. CASE Commit(p)
      BY <3>1, <3>3 DEF Commit
    <3>4. CASE Kill(p) \/ \E c \in Cmd : Start(p, c)
      BY <3>1, <3>4 DEF Kill, Return, Start, dbVars
    <3>5. CASE Step(p) /\ ~Drop(p) /\ ~Commit(p)
      <4>1. ~\E q \in Proc : Drop(q) \/ Commit(q)
        BY <3>5 DEF Alone
      <4>2. CASE DeleteAll
        BY <3>1, <4>2 DEF DeleteAll
      <4>3. QED
        BY <3>1, <4>1, <4>2, TablesKept
    <3>6. QED
      BY <1>1, <3>2, <3>3, <3>4, <3>5
  <2>3. QED
    BY <2>1, <2>2
<1>2. CASE UserStep \/ DeleteAll \/ UNCHANGED vars
  <2>1. UNCHANGED <<pc, schema>>
    BY <1>2 DEF UserStep, Write, Delete, Touch, Change, DeleteAll, vars, dbVars
  <2>2. QED
    BY <2>1 DEF DropsOldOnly
<1>3. ASSUME NEW p \in Proc, Step(p) \/ Kill(p) \/ \E c \in Cmd : Start(p, c)
      PROVE  DropsOldOnly'
  BY <1>1, <1>3 DEF Alone, DropsOldOnly
<1>4. QED
  BY <1>1, <1>2, <1>3 DEF Next, Interference

\* As long as commands come one at a time, opening the store throws away
\* databases of another schema only.  Without `Alone` it does not hold: that is
\* what the run refresh_drop_race shows.
THEOREM LoneCommandKeepsDatabase == Alone => (Spec => NeverDropsCurrent)
<1> SUFFICES ASSUME Alone PROVE Spec => NeverDropsCurrent
  OBVIOUS
<1>1. Init => DropsOldOnly
  BY DEF Init, DropsOldOnly
<1>2. TypeOK /\ DropsOldOnly /\ [Next]_vars =>
        DropsOldOnly' /\ [schema = "current" => schema' = "current"]_schema
  BY DropStep
<1>3. QED
  BY <1>1, <1>2, TypeCorrect, PTL DEF Spec, NeverDropsCurrent

-----------------------------------------------------------------------------
(***************************************************************************)
(* A quiet run: nobody edits a note or writes the database while it lasts. *)
(* What it has learned so far still holds, step by step.                   *)
(***************************************************************************)
Present == {f \in Note : fs[f] # None}

\* Before the comparison: the mode and the loaded rows are the database's, the
\* inventory is the worktree's.
Informed(p) ==
  /\ pc[p] \in {"load", "inventory", "diff"} /\ ~raced[p] /\ chosen[p] = "refresh"
       => scopes
  /\ pc[p] \in {"inventory", "diff"} /\ ~raced[p] => prior[p] = rows
  /\ pc[p] = "diff" /\ ~edited[p] => inv[p] \cap Note = Present

\* From the scan to the commit: the notes listed are the ones there are, and
\* each recorded hash is the note's.
Faithful(p) ==
  Holding(p) /\ ~edited[p] =>
    /\ inv[p] \cap Note = Present /\ torn[p] = {}
    /\ pc[p] \in {"index", "save", "commit"} =>
         \A f \in inv[p] \cap Note :
           (pc[p] = "index" /\ f \in todo[p]) \/ gRows[p][f].hash = Read(f)

\* In the end the database describes the worktree.
Served(p) ==
  pc[p] \in {"stamp", "noop", "full"} /\ ~edited[p] /\ ~raced[p] =>
    \A f \in Note \ dbTorn : Fresh(f)

QuietOf(p) == Informed(p) /\ Faithful(p) /\ Served(p)

QInv == \A p \in Proc : QuietOf(p)

LEMMA NothingLearned ==
  ASSUME NEW p \in Proc, ~Holding(p)',
         pc'[p] \notin {"load", "inventory", "diff", "stamp", "noop", "full"}
  PROVE  QuietOf(p)'
BY DEF QuietOf, Informed, Faithful, Served

\* What p knows of the database and of the notes stays so until p is raced or
\* a note is edited.
SameTables == UNCHANGED <<scopes, nodes, docs, rows, dbTorn>>

SameNotes == \A f \in Note : (fs'[f] = None <=> fs[f] = None) /\ Read(f)' = Read(f)

LEMMA FreshKept ==
  ASSUME NEW f \in Note, Fresh(f), SameTables, SameNotes
  PROVE  Fresh(f)'
<1>1. /\ nodes'[f] = nodes[f] /\ docs'[f] = docs[f] /\ rows'[f] = rows[f]
      /\ fs'[f] = None <=> fs[f] = None
  BY DEF SameTables, SameNotes
<1>2. fs[f] # None => fs'[f].content = fs[f].content
  BY DEF SameNotes, Read
<1>3. QED
  BY <1>1, <1>2 DEF Fresh, Indexed

LEMMA QuietKept ==
  ASSUME NEW p \in Proc, QuietOf(p),
         UNCHANGED <<pc[p], cmd[p], chosen[p], prior[p], inv[p], todo[p],
                     gRows[p]>>,
         ~raced'[p] => ~raced[p] /\ SameTables,
         ~edited'[p] => ~edited[p] /\ torn'[p] = torn[p] /\ SameNotes
  PROVE  QuietOf(p)'
<1>1. Informed(p)'
  <2>1. ~edited'[p] => Present' = Present
    BY DEF Present, SameNotes
  <2>2. QED
    BY <2>1 DEF QuietOf, Informed, SameTables
<1>2. Faithful(p)'
  <2>1. Holding(p)' = Holding(p)
    BY DEF Holding
  <2>2. SUFFICES ASSUME Holding(p), ~edited'[p]
                 PROVE  /\ inv[p] \cap Note = Present' /\ torn'[p] = {}
                        /\ pc[p] \in {"index", "save", "commit"} =>
                             \A f \in inv[p] \cap Note :
                               \/ pc[p] = "index" /\ f \in todo[p]
                               \/ gRows[p][f].hash = Read(f)'
    BY <2>1 DEF Faithful
  <2>3. Present' = Present
    BY <2>2 DEF Present, SameNotes
  <2>4. QED
    BY <2>2, <2>3 DEF QuietOf, Faithful, SameNotes
<1>3. Served(p)'
  <2>1. SUFFICES ASSUME pc[p] \in {"stamp", "noop", "full"},
                        ~edited'[p], ~raced'[p],
                        NEW f \in Note, f \notin dbTorn'
                 PROVE  Fresh(f)'
    BY DEF Served
  <2>2. Fresh(f)
    BY <2>1 DEF QuietOf, Served, SameTables
  <2>3. QED
    BY <2>1, <2>2, FreshKept
<1>4. QED
  BY <1>1, <1>2, <1>3 DEF QuietOf

-----------------------------------------------------------------------------
(***************************************************************************)
(* The others.                                                             *)
(***************************************************************************)

\* A command's step leaves the plans of the others alone.
LEMMA OthersPlans ==
  ASSUME TypeOK, NEW p \in Proc, NEW q \in Proc, q # p,
         Step(p) \/ Kill(p) \/ \E c \in Cmd : Start(p, c)
  PROVE  UNCHANGED <<chosen[q], prior[q], edited[q]>> /\ (raced[q] => raced'[q])
<1> USE DEF TypeOK
<1>1. CASE Probe(p) \/ Drop(p) \/ Create(p)
  BY <1>1 DEF Probe, Drop, Create, DbWritten, memVars, history
<1>2. CASE Decide(p) \/ CountNodes(p) \/ LoadPrior(p) \/ BuildInventory(p)
  BY <1>2 DEF Decide, CountNodes, LoadPrior, BuildInventory, history
<1>3. CASE Diff(p) \/ \E k \in Stamp : WriteStamp(p, k)
  BY <1>3 DEF Diff, WriteStamp, DbWritten, history
<1>4. CASE Scan(p) \/ NextPass(p)
  BY <1>4 DEF Scan, NextPass, history
<1>5. CASE \E f \in Note : ReadNote(p, f) \/ ReadLinks(p, f) \/ ReadDoc(p, f)
  BY <1>5 DEF ReadNote, ReadLinks, ReadDoc, Visit, history
<1>6. CASE \E x \in Path : Hash(p, x) \/ Stat(p, x)
  BY <1>6 DEF Hash, Stat, Visit, history
<1>7. CASE Save(p) \/ Commit(p)
  BY <1>7 DEF Save, Commit, DbWritten, memVars, history
<1>8. CASE Return(p)
  BY <1>8 DEF Return
<1>9. CASE \E c \in Cmd : Start(p, c)
  BY <1>9 DEF Start
<1>10. QED
  BY <1>1, <1>2, <1>3, <1>4, <1>5, <1>6, <1>7, <1>8, <1>9
  DEF Step, Finish, Fail, Kill

\* Whoever changes the tables races the others.
LEMMA WritersRace ==
  ASSUME TypeOK, [Next]_vars, NEW q \in Proc, ~raced'[q],
         ~Drop(q), ~Commit(q)
  PROVE  SameTables
<1>1. ~DeleteAll /\ \A p \in Proc : ~Drop(p) /\ ~Commit(p)
  <2>1. ASSUME NEW w \in Proc \cup {None}, DbWritten(w) PROVE w = q
    BY <2>1 DEF DbWritten, TypeOK
  <2>2. QED
    BY <2>1 DEF DeleteAll, Drop, Commit
<1>2. UNCHANGED <<scopes, nodes, docs, rows>>
  BY <1>1, TablesKept
<1>3. dbTorn' = dbTorn
  <2>1. ASSUME NEW p \in Proc, Step(p) PROVE dbTorn' = dbTorn
    <3>1. CASE \/ Probe(p) \/ Decide(p) \/ CountNodes(p) \/ LoadPrior(p)
               \/ BuildInventory(p) \/ Diff(p) \/ Scan(p) \/ NextPass(p)
               \/ Save(p)
      BY <3>1 DEF Probe, Decide, CountNodes, LoadPrior, BuildInventory, Diff,
                  Scan, NextPass, Save, history
    <3>2. CASE \/ \E f \in Note : ReadNote(p, f) \/ ReadLinks(p, f) \/ ReadDoc(p, f)
               \/ \E x \in Path : Hash(p, x) \/ Stat(p, x)
      BY <3>2 DEF ReadNote, ReadLinks, ReadDoc, Hash, Stat, Visit, history
    <3>3. CASE Return(p)
      BY <3>3 DEF Return
    <3>4. CASE Drop(p) \/ Create(p) \/ \E k \in Stamp : WriteStamp(p, k)
      BY <3>4 DEF Drop, Create, WriteStamp
    <3>5. QED
      BY <1>1, <2>1, <3>1, <3>2, <3>3, <3>4 DEF Step, Finish, Fail
  <2>2. CASE \/ UserStep \/ UNCHANGED vars
             \/ \E p \in Proc : Kill(p) \/ \E c \in Cmd : Start(p, c)
    BY <2>2 DEF UserStep, Write, Delete, Touch, Change, Kill, Return, Start,
                vars, history
  <2>3. QED
    BY <1>1, <2>1, <2>2 DEF Next, Interference
<1>4. QED
  BY <1>2, <1>3 DEF SameTables

LEMMA OthersKeepQuiet ==
  ASSUME TypeOK, IInv, [Next]_vars, NEW p \in Proc, NEW q \in Proc, q # p,
         QuietOf(q), Step(p) \/ Kill(p) \/ \E c \in Cmd : Start(p, c)
  PROVE  QuietOf(q)'
<1>1. /\ UNCHANGED <<pc[q], cmd[q], inv[q], todo[q], gRows[q], torn[q]>>
      /\ UNCHANGED <<chosen[q], prior[q], edited[q]>>
      /\ raced[q] => raced'[q]
  BY OthersMemory, OthersPlans DEF Memory
<1>2. SameNotes
  BY NotesKept DEF SameNotes, Read
<1>3. ~Drop(q) /\ ~Commit(q)
  BY <1>1 DEF Drop, Commit, Goto, TypeOK
<1>4. ~raced'[q] => SameTables
  BY <1>3, WritersRace
<1>5. QED
  BY <1>1, <1>2, <1>4, QuietKept

\* A touch moves the mtime and leaves the bytes alone.
LEMMA TouchKeepsNotes ==
  ASSUME TypeOK, NEW g \in Note, Touch(g)
  PROVE  SameNotes
<1>1. g \in Path /\ fs[g] \in File /\ clock + 1 \in Nat
  BY DEF Touch, TypeOK, Path
<1>2. fs' = [fs EXCEPT ![g] = [fs[g] EXCEPT !.mtime = clock + 1]]
  BY DEF Touch, Change
<1>3. /\ [fs[g] EXCEPT !.mtime = clock + 1] \in File
      /\ [fs[g] EXCEPT !.mtime = clock + 1].content = fs[g].content
  BY <1>1 DEF File
<1>4. [fs[g] EXCEPT !.mtime = clock + 1] # None
  BY <1>3, NoneIsNoRecord
<1>5. QED
  BY <1>2, <1>3, <1>4 DEF Touch, SameNotes, Read, TypeOK, Path

\* An edit ends the quiet, a touch does not.
LEMMA UserKeepsQuiet ==
  ASSUME TypeOK, NEW q \in Proc, QuietOf(q), UserStep
  PROVE  QuietOf(q)'
<1>1. /\ UNCHANGED <<pc, cmd, chosen, prior, inv, todo, gRows, raced>>
      /\ SameTables
  BY DEF UserStep, Write, Delete, Touch, Change, dbVars, memVars, SameTables
<1>2. CASE \E f \in Note : Write(f) \/ Delete(f)
  <2>1. edited'[q]
    BY <1>2 DEF Write, Delete, NoteChanged
  <2>2. QED
    BY <1>1, <2>1, QuietKept
<1>3. ASSUME NEW g \in Note, Touch(g) PROVE QuietOf(q)'
  <2>1. SameNotes /\ UNCHANGED <<edited, torn>>
    BY <1>3, TouchKeepsNotes DEF Touch
  <2>2. QED
    BY <1>1, <2>1, QuietKept
<1>4. QED
  BY <1>2, <1>3 DEF UserStep

-----------------------------------------------------------------------------
(***************************************************************************)
(* The run itself.                                                         *)
(***************************************************************************)

\* Starting, ending and opening, for a command that has scanned nothing.
LEMMA NothingToLose ==
  ASSUME TypeOK, NEW p \in Proc,
         \/ \E c \in Cmd : Start(p, c)
         \/ Return(p)
         \/ cmd[p] # "build" /\ (Probe(p) \/ Drop(p) \/ Create(p))
  PROVE  QuietOf(p)'
<1>1. CASE \E c \in Cmd : Start(p, c)
  <2>1. \/ pc'[p] = "scan"
        \/ pc'[p] = "open" /\ cmd'[p] # "build"
    BY <1>1 DEF Start, TypeOK
  <2>2. QED
    BY <2>1, NothingLearned DEF Holding, Pass
<1>2. CASE Return(p)
  <2>1. pc'[p] = "idle"
    BY <1>2 DEF Return, TypeOK
  <2>2. QED
    BY <2>1, NothingLearned DEF Holding, Pass
<1>3. CASE cmd[p] # "build" /\ (Probe(p) \/ Drop(p) \/ Create(p))
  <2>1. /\ pc'[p] \in {"drop", "create", "decide", "opened"}
        /\ cmd'[p] # "build"
    BY <1>3 DEF Probe, Drop, Create, Goto, memVars, TypeOK, Cmd
  <2>2. QED
    BY <2>1, NothingLearned DEF Holding, Pass
<1>4. QED
  BY <1>1, <1>2, <1>3

\* A build opens the store with its scan in hand.
LEMMA BuildStaysQuiet ==
  ASSUME TypeOK, IInv, NEW p \in Proc, QuietOf(p), cmd[p] = "build",
         Probe(p) \/ Drop(p) \/ Create(p)
  PROVE  QuietOf(p)'
<1>1. /\ UNCHANGED <<cmd, inv, torn, edited>>
      /\ pc[p] \in {"open", "drop", "create"}
      /\ pc'[p] \in {"drop", "create", "docs"}
  BY DEF Probe, Drop, Create, Goto, memVars, history, TypeOK
<1>2. SameNotes
  BY NotesKept DEF Step, SameNotes, Read
<1>3. Holding(p) /\ (~edited[p] => inv[p] \cap Note = Present /\ torn[p] = {})
  BY <1>1 DEF Holding, QuietOf, Faithful
<1>4. Present' = Present
  BY <1>2 DEF Present, SameNotes
<1>5. QED
  BY <1>1, <1>3, <1>4 DEF QuietOf, Informed, Faithful, Served

\* Deciding, loading and listing.
LEMMA PlanStaysQuiet ==
  ASSUME TypeOK, NEW p \in Proc, QuietOf(p),
         Decide(p) \/ CountNodes(p) \/ LoadPrior(p) \/ BuildInventory(p)
  PROVE  QuietOf(p)'
<1> USE DEF TypeOK
<1>1. UNCHANGED <<scopes, rows, raced, edited, fs>>
  BY DEF Decide, CountNodes, LoadPrior, BuildInventory, dbVars, history
<1>2. CASE Decide(p)
  <2>1. pc'[p] \in {"count", "load"} /\ chosen'[p] = "rebuild"
    BY <1>2 DEF Decide, Goto
  <2>2. QED
    BY <2>1 DEF QuietOf, Informed, Faithful, Served, Holding, Pass
<1>3. CASE CountNodes(p)
  <2>1. pc'[p] = "load" /\ (chosen'[p] = "refresh" => scopes)
    BY <1>3 DEF CountNodes, Goto, HasNodes
  <2>2. QED
    BY <1>1, <2>1 DEF QuietOf, Informed, Faithful, Served, Holding, Pass
<1>4. CASE LoadPrior(p)
  <2>1. /\ pc[p] = "load" /\ pc'[p] = "inventory"
        /\ chosen' = chosen /\ prior'[p] = rows
    BY <1>4 DEF LoadPrior, Goto
  <2>2. Informed(p)'
    BY <1>1, <2>1 DEF QuietOf, Informed
  <2>3. QED
    BY <2>1, <2>2 DEF QuietOf, Faithful, Served, Holding, Pass
<1>5. CASE BuildInventory(p)
  <2>1. /\ pc[p] = "inventory" /\ pc'[p] = "diff"
        /\ chosen' = chosen /\ prior' = prior
        /\ inv'[p] = Worktree /\ Worktree \cap Note = Present
    BY <1>5 DEF BuildInventory, Goto, Worktree, Present, Path
  <2>2. Present' = Present
    BY <1>1 DEF Present
  <2>3. Informed(p)'
    BY <1>1, <2>1, <2>2 DEF QuietOf, Informed
  <2>4. QED
    BY <2>1, <2>3 DEF QuietOf, Faithful, Served, Holding, Pass
<1>6. QED
  BY <1>2, <1>3, <1>4, <1>5

\* The comparison is right: a quiet run that finds no difference has none to
\* find.
LEMMA NoDiffNoChange ==
  ASSUME TypeOK, IInv, DbCoherent, NEW p \in Proc, QuietOf(p),
         pc[p] = "diff", chosen[p] = "refresh", NoDiff(p),
         ~edited[p], ~raced[p], NEW f \in Note \ dbTorn
  PROVE  Fresh(f)
<1>1. scopes /\ prior[p] = rows /\ inv[p] \cap Note = Present
  BY DEF QuietOf, Informed
<1>2. f \in Path /\ ~Added(p, f) /\ ~Changed(p, f) /\ ~Deleted(p, f)
  BY DEF NoDiff, Path
<1>3. CASE fs[f] = None
  <2>1. rows[f] = None
    BY <1>1, <1>2, <1>3 DEF Deleted, Present
  <2>2. QED
    BY <1>1, <1>3, <2>1 DEF DbCoherent, Fresh
<1>4. CASE fs[f] # None
  <2>1. rows[f] # None
    BY <1>1, <1>2, <1>4 DEF Added, Present
  <2>2. fs[f].mtime = rows[f].mtime \/ fs[f].content = rows[f].hash
    BY <1>1, <1>2, <1>4, <2>1 DEF Changed, Present
  <2>3. Settled(nodes[f], docs[f], rows[f], f)
    BY <1>1, <2>1 DEF IInv, RowsSettled
  <2>4. rows[f].hash = fs[f].content
    BY <1>4, <2>2, <2>3 DEF Settled
  <2>5. fs[f].content # Unread
    BY <1>2, <1>4 DEF TypeOK, File, Body
  <2>6. QED
    BY <1>4, <2>1, <2>3, <2>4, <2>5
    DEF Settled, Scanned, DocOf, Fresh, Indexed
<1>5. QED
  BY <1>3, <1>4

\* The comparison and the two stamps of a run that found no difference.
LEMMA StampStaysQuiet ==
  ASSUME TypeOK, IInv, DbCoherent, [Next]_vars, NEW p \in Proc, QuietOf(p),
         Diff(p) \/ \E k \in Stamp : WriteStamp(p, k)
  PROVE  QuietOf(p)'
<1>1. CASE Diff(p)
  <2>1. UNCHANGED <<fs, scopes, nodes, docs, rows, dbTorn, edited, raced>>
    BY <1>1 DEF Diff, dbVars, history
  <2>2. CASE pc'[p] = "stamp"
    <3>1. pc[p] = "diff" /\ chosen[p] = "refresh" /\ NoDiff(p)
      <4>1. pc' = [pc EXCEPT ![p] = "scan"] => pc'[p] = "scan"
        BY DEF TypeOK
      <4>2. QED
        BY <1>1, <2>2, <4>1 DEF Diff
    <3>2. Served(p)'
      BY <2>1, <3>1, NoDiffNoChange DEF Served, Fresh, Indexed
    <3>3. QED
      BY <2>2, <3>2 DEF QuietOf, Informed, Faithful, Holding, Pass
  <2>3. CASE pc'[p] # "stamp"
    <3>1. pc'[p] = "scan"
      BY <1>1, <2>3 DEF Diff, TypeOK
    <3>2. QED
      BY <3>1, NothingLearned DEF Holding, Pass
  <2>4. QED
    BY <2>2, <2>3
<1>2. ASSUME NEW k \in Stamp, WriteStamp(p, k) PROVE QuietOf(p)'
  <2>1. /\ pc[p] = "stamp" /\ pc'[p] \in {"stamp", "noop"}
        /\ raced'[p] = raced[p] /\ edited' = edited
    BY <1>2 DEF WriteStamp, DbWritten, TypeOK
  <2>2. SameTables
    BY <1>2 DEF WriteStamp, SameTables
  <2>3. SameNotes
    BY <1>2, NotesKept DEF Step, SameNotes, Read
  <2>4. Served(p)'
    <3>1. SUFFICES ASSUME ~edited[p], ~raced[p], NEW f \in Note \ dbTorn
                   PROVE  Fresh(f)'
      BY <2>1, <2>2 DEF Served, SameTables
    <3>2. Fresh(f)
      BY <2>1, <3>1 DEF QuietOf, Served
    <3>3. QED
      BY <2>2, <2>3, <3>2, FreshKept
  <2>5. QED
    BY <2>1, <2>4 DEF QuietOf, Informed, Faithful, Holding, Pass
<1>3. QED
  BY <1>1, <1>2

\* The scan begins, a pass ends, the lock is taken.
LEMMA PassStaysQuiet ==
  ASSUME TypeOK, NEW p \in Proc, QuietOf(p), Scan(p) \/ NextPass(p) \/ Save(p)
  PROVE  QuietOf(p)'
<1>1. UNCHANGED <<fs, edited, cmd>>
  BY DEF Scan, NextPass, Save, memVars, history
<1>2. Present' = Present /\ \A f \in Note : Read(f)' = Read(f)
  BY <1>1 DEF Present, Read
<1>3. CASE Scan(p)
  <2>1. /\ pc'[p] = "notes" /\ inv'[p] = Worktree /\ torn'[p] = {}
        /\ Worktree \cap Note = Present
    BY <1>3 DEF Scan, Goto, TypeOK, Worktree, Present, Path
  <2>2. QED
    BY <1>2, <2>1 DEF QuietOf, Informed, Faithful, Served
<1>4. CASE NextPass(p) \/ Save(p)
  <2>1. /\ UNCHANGED <<inv, gRows, torn>>
        /\ \/ /\ pc[p] = "links" /\ cmd[p] = "build"
              /\ pc'[p] = "open"
           \/ /\ pc[p] \in {"notes", "links"}
              /\ pc'[p] \in {"links", "docs"}
           \/ pc[p] = "docs" /\ pc'[p] = "index" /\ todo'[p] = inv[p]
           \/ pc[p] = "index" /\ pc'[p] = "save" /\ todo[p] = {}
           \/ pc[p] = "save" /\ pc'[p] = "commit"
    BY <1>4 DEF NextPass, Save, Goto, memVars, history, TypeOK, Pass
  <2>2. Holding(p)
    BY <2>1 DEF Holding, Pass
  <2>3. ~edited[p] => inv[p] \cap Note = Present /\ torn[p] = {}
    BY <2>2 DEF QuietOf, Faithful
  <2>4. ASSUME ~edited[p], pc'[p] \in {"index", "save", "commit"},
               NEW f \in inv[p] \cap Note
        PROVE  (pc'[p] = "index" /\ f \in todo'[p]) \/ gRows[p][f].hash = Read(f)
    BY <2>1, <2>2, <2>4 DEF QuietOf, Faithful
  <2>5. Faithful(p)'
    BY <1>1, <1>2, <2>1, <2>3, <2>4 DEF Faithful
  <2>6. QED
    BY <2>1, <2>5 DEF QuietOf, Informed, Served
<1>5. QED
  BY <1>3, <1>4

\* What the index records of a note that nobody edits is the note's hash.
LEMMA VisitStaysQuiet ==
  ASSUME TypeOK, IInv, NEW p \in Proc, QuietOf(p),
         \/ \E f \in Note : ReadNote(p, f) \/ ReadLinks(p, f) \/ ReadDoc(p, f)
         \/ \E x \in Path : Hash(p, x) \/ Stat(p, x)
  PROVE  QuietOf(p)'
<1>1. /\ UNCHANGED <<fs, pc, cmd, inv, torn, edited>>
      /\ pc[p] \in {"notes", "links", "docs", "index"}
  BY DEF ReadNote, ReadLinks, ReadDoc, Hash, Stat, Visit, history
<1>2. Present' = Present /\ \A f \in Note : Read(f)' = Read(f)
  BY <1>1 DEF Present, Read
<1>3. Holding(p) /\ (~edited[p] => inv[p] \cap Note = Present /\ torn[p] = {})
  BY <1>1 DEF QuietOf, Faithful, Holding, Pass
<1>4. ASSUME ~edited[p], pc[p] = "index", NEW f \in inv[p] \cap Note,
             f \notin todo'[p]
      PROVE  gRows'[p][f].hash = Read(f)
  <2>1. f \in todo[p] \/ gRows[p][f].hash = Read(f)
    BY <1>3, <1>4 DEF QuietOf, Faithful
  <2>2. PICK x \in Path : Hash(p, x) \/ Stat(p, x)
    BY <1>4 DEF ReadNote, ReadLinks, ReadDoc, Visit
  <2>3. CASE Hash(p, x)
    BY <1>4, <2>1, <2>3 DEF Hash
  <2>4. CASE Stat(p, x)
    <3>1. /\ hashing[p] # None /\ hashing[p].path = x
          /\ x \in todo[p] /\ todo'[p] = todo[p] \ {x}
          /\ gRows'[p] = [gRows[p] EXCEPT ![x] =
               [hash |-> hashing[p].hash,
                mtime |-> IF fs[x] = None THEN 0 ELSE fs[x].mtime]]
      BY <2>4 DEF Stat, Visit, TypeOK
    <3>2. gRows[p] \in [Path -> Row \cup {None}] /\ f \in Path
      BY DEF TypeOK, Path
    <3>3. CASE f # x
      BY <1>4, <2>1, <3>1, <3>2, <3>3
    <3>4. CASE f = x
      <4>1. Undisturbed(p, f)
        BY <1>3, <1>4 DEF IInv, ScanInv, ScanOf
      <4>2. hashing[p].hash = Read(f)
        BY <1>4, <3>1, <3>4, <4>1 DEF Undisturbed
      <4>3. QED
        BY <3>1, <3>2, <3>4, <4>2
    <3>5. QED
      BY <3>3, <3>4
  <2>5. QED
    BY <2>2, <2>3, <2>4
<1>5. Faithful(p)'
  BY <1>1, <1>2, <1>3, <1>4 DEF Faithful
<1>6. QED
  BY <1>1, <1>5 DEF QuietOf, Informed, Served

\* What a quiet run commits is what the worktree holds.
LEMMA CommitFresh ==
  ASSUME TypeOK, IInv, NEW p \in Proc, QuietOf(p), Commit(p), ~edited[p],
         NEW f \in Note
  PROVE  Fresh(f)'
<1>1. /\ nodes' = gNodes[p] /\ docs' = gDocs[p] /\ rows' = gRows[p]
      /\ edited' = edited /\ pc[p] = "commit" /\ pc'[p] = "full"
  BY DEF Commit, Goto, SavedNodes, SavedDocs, TypeOK
<1>2. \A g \in Note : fs'[g] = fs[g]
  BY NotesKept DEF Step
<1>3. Holding(p) /\ ScanOf(p)
  BY <1>1 DEF Holding, IInv, ScanInv
<1>4. /\ inv[p] \cap Note = Present /\ torn[p] = {}
      /\ \A g \in inv[p] \cap Note : gRows[p][g].hash = Read(g)
  BY <1>1, <1>3 DEF QuietOf, Faithful
<1>5. CASE fs[f] = None
  <2>1. gNodes[p][f] = None /\ gDocs[p][f] = None /\ gRows[p][f] = None
    BY <1>3, <1>4, <1>5 DEF ScanOf, InInventory, Present
  <2>2. QED
    BY <1>1, <1>2, <1>5, <2>1 DEF Fresh
<1>6. CASE fs[f] # None
  <2>1. f \in inv[p] \cap Note
    BY <1>4, <1>6 DEF Present
  <2>2. Undisturbed(p, f)
    BY <1>3, <1>4, <2>1 DEF ScanOf
  <2>3. /\ gRows[p][f] # None
        /\ Settled(gNodes[p][f], gDocs[p][f], gRows[p][f], f)
    BY <1>1, <2>2 DEF Undisturbed
  <2>4. gRows[p][f].hash = fs[f].content
    BY <1>4, <1>6, <2>1 DEF Read
  <2>5. fs[f].content # Unread
    BY <1>6 DEF TypeOK, Path, File, Body
  <2>6. QED
    BY <1>1, <1>2, <1>6, <2>3, <2>4, <2>5
    DEF Settled, Scanned, DocOf, Fresh, Indexed
<1>7. QED
  BY <1>5, <1>6

LEMMA CommitServes ==
  ASSUME TypeOK, IInv, NEW p \in Proc, QuietOf(p), Commit(p)
  PROVE  QuietOf(p)'
<1>1. edited' = edited /\ pc'[p] = "full"
  BY DEF Commit, Goto, TypeOK
<1>2. ~edited[p] => \A f \in Note : Fresh(f)'
  BY CommitFresh
<1>3. QED
  BY <1>1, <1>2 DEF QuietOf, Informed, Faithful, Served, Holding, Pass

LEMMA QuietStep ==
  ASSUME TypeOK, IInv, DbCoherent, QInv, [Next]_vars
  PROVE  QInv'
<1> SUFFICES ASSUME NEW q \in Proc PROVE QuietOf(q)'
  BY DEF QInv
<1>0. QuietOf(q)
  BY DEF QInv
<1>1. ASSUME NEW p \in Proc, Step(p) \/ Kill(p) \/ \E c \in Cmd : Start(p, c)
      PROVE  QuietOf(q)'
  <2>1. CASE p = q
    BY <1>0, <1>1, <2>1, NothingToLose, BuildStaysQuiet, PlanStaysQuiet,
       StampStaysQuiet, PassStaysQuiet, VisitStaysQuiet, CommitServes
    DEF Step, Finish, Fail, Kill
  <2>2. CASE p # q
    BY <1>0, <1>1, <2>2, OthersKeepQuiet
  <2>3. QED
    BY <2>1, <2>2
<1>2. CASE UserStep
  BY <1>0, <1>2, UserKeepsQuiet
<1>3. CASE DeleteAll
  <2>1. \A f \in Note : fs'[f] = fs[f]
    BY <1>3, DbWrittenKeepsNotes DEF DeleteAll, IInv
  <2>2. /\ raced'[q]
        /\ UNCHANGED <<pc, cmd, chosen, prior, inv, todo, gRows, edited, torn>>
    BY <1>3 DEF DeleteAll, DbWritten, memVars
  <2>3. SameNotes
    BY <2>1 DEF SameNotes, Read
  <2>4. QED
    BY <1>0, <2>2, <2>3, QuietKept
<1>4. CASE UNCHANGED vars
  <2>1. /\ UNCHANGED <<pc, cmd, chosen, prior, inv, todo, gRows, edited, torn, raced>>
        /\ SameTables /\ SameNotes
    BY <1>4 DEF vars, dbVars, memVars, history, SameTables, SameNotes, Read
  <2>2. QED
    BY <1>0, <2>1, QuietKept
<1>5. QED
  BY <1>1, <1>2, <1>3, <1>4 DEF Next, Interference

\* What an undisturbed command has learned of database and worktree holds.
THEOREM QuietStaysKnown == Spec => []QInv
<1>1. Init => QInv
  BY DEF Init, QInv, QuietOf, Informed, Faithful, Served, Holding, Pass
<1>2. TypeOK /\ IInv /\ DbCoherent /\ QInv /\ [Next]_vars => QInv'
  BY QuietStep
<1>3. QED
  BY <1>1, <1>2, TypeCorrect, ScanStaysRight, TablesAgree, PTL DEF Spec

\* A build or a refresh that succeeds, and that nobody disturbed while it ran,
\* leaves a database that describes the worktree: every note and no other has
\* its node, its document and its row, with the note's bytes.  What came before
\* does not matter, except for notes edited inside the read window of the run
\* that committed last.
THEOREM QuietRunsServe == Spec => []QuietRunFresh
<1>1. QInv => QuietRunFresh
  BY DEF QInv, QuietOf, Served, QuietRunFresh
<1>2. QED
  BY <1>1, QuietStaysKnown, PTL

-----------------------------------------------------------------------------
(***************************************************************************)
(* A rebuild has a reason.  Until a note changes, the database that the    *)
(* last run committed describes the worktree; and a change that a quiet    *)
(* run notices is one since then.                                          *)
(***************************************************************************)
StillFresh == scopes /\ ~touched => \A f \in Note : Fresh(f)

EditsTouch ==
  \A p \in Proc : pc[p] # "idle" /\ edited[p] /\ ~raced[p] => touched

NInv == StillFresh /\ EditsTouch /\ NoNeedlessRebuild

\* Only a commit forgets that a note was changed, and it races the others.
LEMMA TouchedKept ==
  ASSUME TypeOK, [Next]_vars
  PROVE  (\E p \in Proc : Commit(p)) \/ (touched => touched')
<1>1. ASSUME NEW p \in Proc, Step(p), ~Commit(p) PROVE touched' = touched
  <2>1. CASE \/ Probe(p) \/ Decide(p) \/ CountNodes(p) \/ LoadPrior(p)
             \/ BuildInventory(p) \/ Diff(p) \/ Scan(p) \/ NextPass(p)
             \/ Save(p)
    BY <2>1 DEF Probe, Decide, CountNodes, LoadPrior, BuildInventory, Diff,
                Scan, NextPass, Save, history
  <2>2. CASE \/ \E f \in Note : ReadNote(p, f) \/ ReadLinks(p, f) \/ ReadDoc(p, f)
             \/ \E x \in Path : Hash(p, x) \/ Stat(p, x)
    BY <2>2 DEF ReadNote, ReadLinks, ReadDoc, Hash, Stat, Visit, history
  <2>3. CASE Return(p)
    BY <2>3 DEF Return
  <2>4. CASE Drop(p) \/ Create(p) \/ \E k \in Stamp : WriteStamp(p, k)
    BY <2>4 DEF Drop, Create, WriteStamp
  <2>5. QED
    BY <1>1, <2>1, <2>2, <2>3, <2>4 DEF Step, Finish, Fail
<1>2. CASE UserStep
  BY <1>2 DEF UserStep, Write, Delete, Touch, NoteChanged
<1>3. CASE \/ DeleteAll \/ UNCHANGED vars
           \/ \E p \in Proc : Kill(p) \/ \E c \in Cmd : Start(p, c)
  BY <1>3 DEF DeleteAll, Kill, Return, Start, vars, history
<1>4. QED
  BY <1>1, <1>2, <1>3 DEF Next, Interference

\* Only the user changes what a note holds, and that counts as a touch.
LEMMA NotesKeptUntouched ==
  ASSUME TypeOK, IInv, [Next]_vars
  PROVE  SameNotes \/ (touched' /\ \A p \in Proc : edited'[p])
<1>1. ASSUME NEW p \in Proc, Step(p) \/ Kill(p) \/ \E c \in Cmd : Start(p, c)
      PROVE  SameNotes
  BY <1>1, NotesKept DEF SameNotes, Read
<1>2. ASSUME NEW g \in Note, Touch(g) PROVE SameNotes
  BY <1>2, TouchKeepsNotes
<1>3. CASE \E f \in Note : Write(f) \/ Delete(f)
  BY <1>3 DEF Write, Delete, NoteChanged
<1>4. CASE DeleteAll
  BY <1>4, DbWrittenKeepsNotes DEF DeleteAll, IInv, SameNotes, Read
<1>5. CASE UNCHANGED vars
  BY <1>5 DEF vars, SameNotes, Read
<1>6. QED
  BY <1>1, <1>2, <1>3, <1>4, <1>5 DEF Next, Interference, UserStep

\* A commit races every other command.
LEMMA CommitRaces ==
  ASSUME TypeOK, NEW p \in Proc, NEW q \in Proc, Commit(p), ~raced'[q]
  PROVE  p = q /\ pc[q] = "commit" /\ pc'[q] = "full"
<1>1. p = q
  BY DEF Commit, DbWritten, TypeOK
<1>2. QED
  BY <1>1 DEF Commit, Goto, TypeOK

LEMMA StillFreshStep ==
  ASSUME TypeOK, IInv, QInv, StillFresh, [Next]_vars
  PROVE  StillFresh'
<1> SUFFICES ASSUME scopes', ~touched', NEW f \in Note PROVE Fresh(f)'
  BY DEF StillFresh
<1>1. CASE UNCHANGED <<scopes, nodes, docs, rows, dbTorn>>
      /\ ~\E p \in Proc : Commit(p)
  <2>1. Fresh(f)
    BY <1>1, TouchedKept DEF StillFresh
  <2>2. SameNotes
    BY NotesKeptUntouched
  <2>3. QED
    BY <1>1, <2>1, <2>2, FreshKept DEF SameTables
<1>2. ASSUME NEW p \in Proc, Commit(p) PROVE Fresh(f)'
  <2>1. ~edited[p] /\ QuietOf(p)
    BY <1>2 DEF Commit, QInv
  <2>2. QED
    BY <1>2, <2>1, CommitFresh
<1>3. QED
  BY <1>1, <1>2, TablesOrigin

\* A step of a run does not reset what is known of its surroundings.
LEMMA OwnHistory ==
  ASSUME TypeOK, NEW p \in Proc, Step(p), pc'[p] # "idle"
  PROVE  pc[p] # "idle" /\ edited' = edited /\ raced'[p] = raced[p]
<1> USE DEF TypeOK
<1>1. CASE Probe(p) \/ Drop(p) \/ Create(p)
  BY <1>1 DEF Probe, Drop, Create, Goto, DbWritten, history
<1>2. CASE Decide(p) \/ CountNodes(p) \/ LoadPrior(p) \/ BuildInventory(p)
  BY <1>2 DEF Decide, CountNodes, LoadPrior, BuildInventory, Goto, history
<1>3. CASE Diff(p)
  BY <1>3 DEF Diff, history
<1>4. CASE \E k \in Stamp : WriteStamp(p, k)
  BY <1>4 DEF WriteStamp, DbWritten
<1>5. CASE Scan(p) \/ NextPass(p)
  BY <1>5 DEF Scan, NextPass, Goto, Pass, history
<1>6. CASE \/ \E f \in Note : ReadNote(p, f) \/ ReadLinks(p, f) \/ ReadDoc(p, f)
           \/ \E x \in Path : Hash(p, x) \/ Stat(p, x)
  BY <1>6 DEF ReadNote, ReadLinks, ReadDoc, Hash, Stat, Visit, history
<1>7. CASE Save(p) \/ Commit(p)
  BY <1>7 DEF Save, Commit, Goto, DbWritten, history
<1>8. CASE Return(p)
  BY <1>8 DEF Return
<1>9. QED
  BY <1>1, <1>2, <1>3, <1>4, <1>5, <1>6, <1>7, <1>8 DEF Step, Finish, Fail

\* A refresh comes to the scan from the comparison only.
LEMMA ScanComesFrom ==
  ASSUME TypeOK, NEW p \in Proc, pc'[p] = "scan", cmd'[p] = "refresh", ~Diff(p)
  PROVE  ~Step(p) /\ ~Kill(p) /\ ~\E c \in Cmd : Start(p, c)
<1> USE DEF TypeOK
<1>1. ~Probe(p) /\ ~Drop(p) /\ ~Create(p)
  BY DEF Probe, Drop, Create, Goto, Cmd
<1>2. ~Decide(p) /\ ~CountNodes(p) /\ ~LoadPrior(p) /\ ~BuildInventory(p)
  BY DEF Decide, CountNodes, LoadPrior, BuildInventory, Goto
<1>3. ~\E k \in Stamp : WriteStamp(p, k)
  <2>1. SUFFICES ASSUME NEW k \in Stamp, WriteStamp(p, k) PROVE FALSE
    OBVIOUS
  <2>2. pc'[p] \in {"stamp", "noop"}
    BY <2>1 DEF WriteStamp
  <2>3. QED
    BY <2>2
<1>4. ~Scan(p) /\ ~NextPass(p) /\ ~Save(p) /\ ~Commit(p)
  BY DEF Scan, NextPass, Save, Commit, Goto, Pass
<1>5. /\ ~\E f \in Note : ReadNote(p, f) \/ ReadLinks(p, f) \/ ReadDoc(p, f)
      /\ ~\E x \in Path : Hash(p, x) \/ Stat(p, x)
  BY DEF ReadNote, ReadLinks, ReadDoc, Hash, Stat, Visit
<1>6. ~Return(p) /\ ~\E c \in Cmd : Start(p, c)
  BY DEF Return, Start
<1>7. QED
  BY <1>1, <1>2, <1>3, <1>4, <1>5, <1>6 DEF Step, Finish, Fail, Kill

LEMMA EditsTouchStep ==
  ASSUME TypeOK, IInv, EditsTouch, [Next]_vars
  PROVE  EditsTouch'
<1> SUFFICES ASSUME NEW q \in Proc, pc'[q] # "idle", edited'[q], ~raced'[q]
             PROVE  touched'
  BY DEF EditsTouch
<1>1. ASSUME NEW p \in Proc, Step(p) \/ Kill(p) \/ \E c \in Cmd : Start(p, c)
      PROVE  touched'
  <2>1. CASE p # q
    <3>1. /\ pc'[q] = pc[q] /\ edited'[q] = edited[q] /\ (raced[q] => raced'[q])
      BY <1>1, <2>1, OthersMemory, OthersPlans DEF Memory
    <3>2. touched
      BY <3>1 DEF EditsTouch
    <3>3. ~\E r \in Proc : Commit(r)
      BY <3>1, CommitRaces
    <3>4. QED
      BY <3>2, <3>3, TouchedKept
  <2>2. CASE p = q /\ Step(p)
    <3>1. /\ pc[q] # "idle" /\ edited[q] /\ ~raced[q]
      BY <2>2, OwnHistory
    <3>2. touched
      BY <3>1 DEF EditsTouch
    <3>3. CASE Commit(q)
      BY <3>1, <3>3 DEF Commit
    <3>4. CASE \A r \in Proc : ~Commit(r)
      BY <3>2, <3>4, TouchedKept
    <3>5. CASE \E r \in Proc : r # q /\ Commit(r)
      BY <3>5, CommitRaces
    <3>6. QED
      BY <3>3, <3>4, <3>5
  <2>3. CASE p = q /\ (Kill(p) \/ \E c \in Cmd : Start(p, c))
    BY <2>3 DEF Kill, Return, Start, TypeOK
  <2>4. QED
    BY <1>1, <2>1, <2>2, <2>3
<1>2. CASE UserStep
  <2>1. UNCHANGED <<pc, raced>>
    BY <1>2 DEF UserStep, Write, Delete, Touch, Change
  <2>2. touched' \/ UNCHANGED <<edited, touched>>
    BY <1>2 DEF UserStep, Write, Delete, Touch, NoteChanged
  <2>3. QED
    BY <2>1, <2>2 DEF EditsTouch
<1>3. CASE DeleteAll
  BY <1>3 DEF DeleteAll, DbWritten, TypeOK
<1>4. CASE UNCHANGED vars
  BY <1>4 DEF vars, history, EditsTouch
<1>5. QED
  BY <1>1, <1>2, <1>3, <1>4 DEF Next, Interference

\* Nothing differs from a database that describes the worktree.
LEMMA FreshNoDiff ==
  ASSUME DbFile = {}, TypeOK, QInv, NInv, NEW p \in Proc, pc[p] = "diff",
         chosen[p] = "refresh", ~raced[p], ~touched
  PROVE  NoDiff(p)
<1>1. scopes /\ prior[p] = rows /\ inv[p] \cap Note = Present
  BY DEF QInv, QuietOf, Informed, NInv, EditsTouch
<1>2. \A f \in Note : Fresh(f)
  BY <1>1 DEF NInv, StillFresh
<1>3. QED
  BY <1>1, <1>2 DEF NoDiff, Added, Changed, Deleted, Fresh, Present, Path

LEMMA NeedStep ==
  ASSUME DbFile = {}, TypeOK, IInv, QInv, NInv, [Next]_vars
  PROVE  NoNeedlessRebuild'
<1> SUFFICES ASSUME NEW q \in Proc, pc'[q] = "scan", cmd'[q] = "refresh",
                    chosen'[q] = "refresh", ~raced'[q]
             PROVE  touched'
  BY DEF NoNeedlessRebuild
<1>0. ~\E p \in Proc : Commit(p)
  BY CommitRaces
<1>1. CASE UNCHANGED <<pc[q], cmd[q], chosen[q]>> /\ (raced[q] => raced'[q])
  BY <1>0, <1>1, TouchedKept DEF NInv, NoNeedlessRebuild
<1>2. CASE Diff(q)
  <2>1. pc[q] = "diff" /\ chosen' = chosen /\ raced' = raced /\ ~NoDiff(q)
    <3>1. pc' = [pc EXCEPT ![q] = "stamp"] => pc'[q] = "stamp"
      BY DEF TypeOK
    <3>2. QED
      BY <1>2, <3>1 DEF Diff, history
  <2>2. touched
    BY <2>1, FreshNoDiff
  <2>3. QED
    BY <1>0, <2>2, TouchedKept
<1>3. ASSUME NEW p \in Proc, Step(p) \/ Kill(p) \/ \E c \in Cmd : Start(p, c),
             ~Diff(q)
      PROVE  touched'
  <2>1. CASE p # q
    BY <1>1, <1>3, <2>1, OthersMemory, OthersPlans DEF Memory
  <2>2. CASE p = q
    BY <1>3, <2>2, ScanComesFrom
  <2>3. QED
    BY <2>1, <2>2
<1>4. CASE UserStep \/ DeleteAll \/ UNCHANGED vars
  <2>1. UNCHANGED <<pc, cmd, chosen>> /\ (raced[q] => raced'[q])
    BY <1>4 DEF UserStep, Write, Delete, Touch, Change, DeleteAll, DbWritten,
                vars, memVars, history, TypeOK
  <2>2. QED
    BY <1>1, <2>1
<1>5. QED
  BY <1>2, <1>3, <1>4 DEF Next, Interference

\* Where git ignores the database or it lies outside the campaign, a refresh
\* that could have been incremental and takes the heavy path does so because a
\* note's bytes changed since the last committed run began; touches, crashes
\* and its own writes are no reason.  With the database in the tree they are:
\* that is what the run refresh_db_in_tree shows.
THEOREM RebuildsAreNeeded == DbFile = {} => (Spec => []NoNeedlessRebuild)
<1> SUFFICES ASSUME DbFile = {} PROVE Spec => []NoNeedlessRebuild
  OBVIOUS
<1>1. Init => NInv
  BY DEF Init, NInv, StillFresh, EditsTouch, NoNeedlessRebuild
<1>2. TypeOK /\ IInv /\ QInv /\ NInv /\ [Next]_vars => NInv'
  BY StillFreshStep, EditsTouchStep, NeedStep DEF NInv
<1>3. NInv => NoNeedlessRebuild
  BY DEF NInv
<1>4. QED
  BY <1>1, <1>2, <1>3, TypeCorrect, ScanStaysRight, QuietStaysKnown, PTL DEF Spec
=============================================================================
