---------------------------- MODULE ViewersProofs ----------------------------
(***************************************************************************)
(* Theorems about Viewers.                                                 *)
(*                                                                         *)
(* Entries of the table are made by Launch, changed by Becomes, and taken  *)
(* out one by one or all at once.  One lemma says what each of these does  *)
(* to the parts of the invariant that speak of the table.                  *)
(***************************************************************************)
EXTENDS Viewers, FiniteSetTheorems, TLAPS

-----------------------------------------------------------------------------
(* The invariant.                                                          *)

\* No two readers have an entry, whatever their processes do.
OneEntry == \A r, s \in DOMAIN table \cap Readers : r = s

\* If no file was tried since, a reader's entry is of the last document.
OpenIsLast ==
    undisturbed => \A r \in DOMAIN table \cap Readers : table[r].file = last_document

VInv ==
    /\ ViewersTypeOK
    /\ ReferencesMatchTable
    /\ OneEntry
    /\ OpenIsLast
    /\ OpenBookIsStored

\* The shape of the table alone.
TableOK ==
    /\ DOMAIN table \subseteq Apps
    /\ table \in [DOMAIN table -> [process : Processes, file : Books \cup {"none"}]]

-----------------------------------------------------------------------------
(* The table.                                                              *)

\* The programs of the shell are finitely many, so what is counted is finite.
LEMMA TableFinite ==
    ASSUME TableOK
    PROVE  IsFiniteSet(DOMAIN table) /\ IsFiniteSet(KeepAwake)
<1>1. IsFiniteSet(Apps)
  <2>1. IsFiniteSet({MUSIC})
    BY FS_Singleton
  <2> QED
    BY <2>1, AppsAssumption, FS_Union DEF Apps
<1>2. IsFiniteSet(DOMAIN table)
  BY <1>1, FS_Subset DEF TableOK
<1>3. KeepAwake \subseteq DOMAIN table
  BY DEF KeepAwake
<1> QED
  BY <1>2, <1>3, FS_Subset

\* Where there is room for a document, no reader has an entry.
LEMMA RoomForReader ==
    ASSUME TableOK, Room
    PROVE  DOMAIN table \cap Readers = {}
<1> DEFINE Others == DOMAIN table \ {MUSIC}
<1>1. IsFiniteSet(Others)
  BY TableFinite, FS_Subset
<1>2. Cardinality(Others) \in Nat /\ Cardinality(Others) < 1
  BY <1>1, FS_CardinalityType DEF Room, RunningViewers, maxDocuments
<1>3. Others = {}
  BY <1>1, <1>2, FS_EmptySet
<1>4. MUSIC \notin Readers
  BY AppsAssumption
<1> QED
  BY <1>3, <1>4

\* A program that is started gets an entry, and keeps the device awake if it
\* is one of those and could be started.
LEMMA LaunchKeeps ==
    ASSUME TableOK, ReferencesMatchTable, idle \in Nat, dropped' = dropped,
           dropped \in BOOLEAN,
           NEW a \in Apps, a \notin DOMAIN table, NEW file \in Files \cup {"none"},
           a \in Readers => file \in Books \cup {"none"},
           NEW started \in BOOLEAN, Launch(a, file, started)
    PROVE  /\ TableOK' /\ ReferencesMatchTable' /\ idle' \in Nat
           /\ DOMAIN table' = DOMAIN table \cup {a}
           /\ \A x \in DOMAIN table : table'[x] = table[x]
           /\ a \in Readers => table'[a].file = file
<1> DEFINE process == IF started THEN "starting" ELSE "unforked"
<1>1. /\ table' = [x \in DOMAIN table \cup {a} |->
                     IF x # a THEN table[x]
                     ELSE [process |-> process,
                           file |-> IF a \in Readers THEN file ELSE "none"]]
      /\ idle' = IF started /\ Awake(a) THEN idle + 1 ELSE idle
  BY DEF Launch
<1>2. /\ DOMAIN table' = DOMAIN table \cup {a}
      /\ \A x \in DOMAIN table : table'[x] = table[x]
      /\ table'[a] = [process |-> process,
                      file |-> IF a \in Readers THEN file ELSE "none"]
  BY <1>1
<1>3. table'[a] \in [process : Processes, file : Books \cup {"none"}]
  BY <1>2 DEF Processes
<1>4. TableOK'
  <2>1. \A x \in DOMAIN table' : table'[x] \in [process : Processes, file : Books \cup {"none"}]
    BY <1>2, <1>3 DEF TableOK
  <2>2. table' = [x \in DOMAIN table' |-> table'[x]]
    BY <1>1
  <2> QED
    BY <1>2, <2>1, <2>2 DEF TableOK
<1>5. IsFiniteSet(KeepAwake) /\ Cardinality(KeepAwake) \in Nat
  BY TableFinite, FS_CardinalityType
<1>6. ReferencesMatchTable' /\ idle' \in Nat
  <2>1. CASE started /\ Awake(a)
    <3>1. KeepAwake' = KeepAwake \cup {a} /\ a \notin KeepAwake
      BY <1>2, <2>1 DEF KeepAwake, Awake
    <3>2. Cardinality(KeepAwake') = Cardinality(KeepAwake) + 1
      BY <1>5, <3>1, FS_AddElement
    <3> QED
      BY <1>1, <1>5, <2>1, <3>2 DEF ReferencesMatchTable
  <2>2. CASE ~(started /\ Awake(a))
    <3>1. KeepAwake' = KeepAwake
      BY <1>2, <2>2 DEF KeepAwake, Awake
    <3> QED
      BY <1>1, <1>5, <2>2, <3>1 DEF ReferencesMatchTable
  <2> QED
    BY <2>1, <2>2
<1> QED
  BY <1>2, <1>4, <1>6

\* A process that was started goes on to another state, and keeps its file.
LEMMA BecomesKeeps ==
    ASSUME VInv, NEW a \in DOMAIN table, table[a].process \in {"starting", "running"},
           NEW process \in Processes \ {"unforked"}, Becomes(a, process)
    PROVE  VInv'
<1>1. /\ DOMAIN table' = DOMAIN table
      /\ \A x \in DOMAIN table \ {a} : table'[x] = table[x]
      /\ table'[a] = [table[a] EXCEPT !.process = process]
      /\ UNCHANGED <<last_document, idle, closing, on, resume, undisturbed, dropped, promise>>
  BY DEF Becomes, shellDocuments, shellPower
<1>2. table[a] \in [process : Processes, file : Books \cup {"none"}]
  BY DEF VInv, ViewersTypeOK
<1>3. /\ table'[a] \in [process : Processes, file : Books \cup {"none"}]
      /\ table'[a].process = process /\ table'[a].file = table[a].file
  BY <1>1, <1>2
<1>4. ViewersTypeOK'
  <2>1. \A x \in DOMAIN table' : table'[x] \in [process : Processes, file : Books \cup {"none"}]
    BY <1>1, <1>3 DEF VInv, ViewersTypeOK
  <2>2. table' = [x \in DOMAIN table' |-> table'[x]]
    BY DEF Becomes, VInv, ViewersTypeOK
  <2>3. DOMAIN table' \subseteq Apps /\ table' \in [DOMAIN table' -> [process : Processes, file : Books \cup {"none"}]]
    BY <1>1, <2>1, <2>2 DEF VInv, ViewersTypeOK
  <2> QED
    BY <1>1, <2>3 DEF VInv, ViewersTypeOK
<1>5. KeepAwake' = KeepAwake
  BY <1>1, <1>3 DEF KeepAwake, Awake
<1>6. ReferencesMatchTable' /\ OneEntry' /\ OpenBookIsStored'
  BY <1>1, <1>5 DEF VInv, ReferencesMatchTable, OneEntry, OpenBookIsStored
<1>7. OpenIsLast'
  BY <1>1, <1>3 DEF VInv, OpenIsLast
<1> QED
  BY <1>4, <1>6, <1>7 DEF VInv

\* A program is started, or gets a message if it has an entry: no entry of
\* another is touched, and that of a reader that had none is of the file.
LEMMA StartViewerKeeps ==
    ASSUME VInv, dropped' = dropped,
           NEW a \in Apps, NEW file \in Files \cup {"none"},
           a \in Readers => file \in Books \cup {"none"},
           NEW found \in BOOLEAN, StartViewer(a, file, found)
    PROVE  /\ TableOK' /\ ReferencesMatchTable' /\ idle' \in Nat
           /\ DOMAIN table' = DOMAIN table \cup {a}
           /\ \A x \in DOMAIN table : table'[x] = table[x]
           /\ a \in Readers \ DOMAIN table => table'[a].file = file
<1>1. TableOK /\ ReferencesMatchTable /\ idle \in Nat /\ dropped \in BOOLEAN
  BY DEF VInv, ViewersTypeOK, TableOK
<1>2. CASE a \notin DOMAIN table /\ Launch(a, file, found)
  BY <1>1, <1>2, LaunchKeeps
<1>3. CASE a \in DOMAIN table /\ Message
  <2>1. UNCHANGED <<table, idle>>
    BY <1>3 DEF Message
  <2>2. KeepAwake' = KeepAwake
    BY <2>1 DEF KeepAwake, Awake
  <2> QED
    BY <1>1, <1>3, <2>1, <2>2 DEF TableOK, ReferencesMatchTable
<1> QED
  BY <1>2, <1>3 DEF StartViewer

\* A file is opened or refused.  A reader is started only where there is room,
\* and then it has the only entry of a reader.
LEMMA OpenKeeps ==
    ASSUME VInv, dropped' = dropped, NEW file \in Files, OpenContentFile(file)
    PROVE  /\ TableOK' /\ ReferencesMatchTable' /\ idle' \in Nat
           /\ OneEntry' /\ OpenIsLast'
           /\ last_document' \in Files \cup {"none"} /\ undisturbed' \in BOOLEAN
<1>1. TableOK /\ ReferencesMatchTable /\ idle \in Nat /\ OneEntry
  BY DEF VInv, ViewersTypeOK, TableOK
<1>2. MUSIC \notin Readers /\ TUNE \notin Books
  BY AppsAssumption, BooksAssumption
<1>3. ASSUME NEW found \in BOOLEAN, Tried(file, found)
      PROVE  /\ last_document' \in Files \cup {"none"} /\ undisturbed' \in BOOLEAN
             /\ undisturbed' => found /\ file \in Books /\ last_document' = file
  BY <1>3 DEF Tried, Remember
<1>4. CASE /\ file = TUNE
           /\ \E found \in BOOLEAN : StartViewer(MUSIC, file, found) /\ Tried(file, found)
  <2>1. PICK found \in BOOLEAN : StartViewer(MUSIC, file, found) /\ Tried(file, found)
    BY <1>4
  <2>2. /\ TableOK' /\ ReferencesMatchTable' /\ idle' \in Nat
        /\ DOMAIN table' = DOMAIN table \cup {MUSIC}
    BY <1>2, <2>1, StartViewerKeeps DEF Apps
  <2>3. OneEntry'
    BY <1>1, <1>2, <2>2 DEF OneEntry
  <2>4. OpenIsLast'
    BY <1>2, <1>3, <1>4, <2>1 DEF OpenIsLast
  <2> QED
    BY <1>3, <2>1, <2>2, <2>3, <2>4
<1>5. CASE /\ file \in Books /\ Room /\ ViewerOf[file] # "none"
           /\ \E found \in BOOLEAN :
                StartViewer(ViewerOf[file], file, found) /\ Tried(file, found)
  <2>1. PICK found \in BOOLEAN :
          StartViewer(ViewerOf[file], file, found) /\ Tried(file, found)
    BY <1>5
  <2>2. ViewerOf[file] \in Readers
    BY <1>5, BooksAssumption
  <2>3. DOMAIN table \cap Readers = {}
    BY <1>1, <1>5, RoomForReader
  <2>4. /\ TableOK' /\ ReferencesMatchTable' /\ idle' \in Nat
        /\ DOMAIN table' = DOMAIN table \cup {ViewerOf[file]}
        /\ table'[ViewerOf[file]].file = file
    <3> DEFINE r == ViewerOf[file]
    <3>1. r \in Apps /\ r \in Readers \ DOMAIN table
      BY <2>2, <2>3 DEF Apps
    <3>2. file \in Files \cup {"none"} /\ file \in Books \cup {"none"}
      BY <1>5
    <3>3. StartViewer(r, file, found)
      BY <2>1
    <3> HIDE DEF r
    <3>4. /\ TableOK' /\ ReferencesMatchTable' /\ idle' \in Nat
          /\ DOMAIN table' = DOMAIN table \cup {r}
          /\ r \in Readers \ DOMAIN table => table'[r].file = file
      BY <3>1, <3>2, <3>3, StartViewerKeeps
    <3> QED
      BY <3>1, <3>4 DEF r
  <2>5. DOMAIN table' \cap Readers = {ViewerOf[file]}
    BY <2>2, <2>3, <2>4
  <2>6. OneEntry'
    BY <2>5 DEF OneEntry
  <2>7. OpenIsLast'
    BY <1>3, <2>1, <2>4, <2>5 DEF OpenIsLast
  <2> QED
    BY <1>3, <2>1, <2>4, <2>6, <2>7
<1>6. CASE Tried(file, FALSE) /\ UNCHANGED <<table, idle>>
  <2>1. KeepAwake' = KeepAwake
    BY <1>6 DEF KeepAwake, Awake
  <2>2. TableOK' /\ ReferencesMatchTable' /\ idle' \in Nat /\ OneEntry'
    BY <1>1, <1>6, <2>1 DEF TableOK, ReferencesMatchTable, OneEntry
  <2>3. OpenIsLast'
    BY <1>3, <1>6 DEF OpenIsLast
  <2> QED
    BY <1>3, <1>6, <2>2, <2>3
<1> QED
  BY <1>4, <1>5, <1>6 DEF OpenContentFile

\* Where the table is emptied and idle switched on again, no more has to be
\* shown than that the rest keeps its shape and the book its promise.
LEMMA EmptiedKeeps ==
    ASSUME VInv, table' = NoViewers, idle' = 0,
           dropped' \in BOOLEAN, closing' \in BOOLEAN, on' \in BOOLEAN,
           UNCHANGED shellDocuments
    PROVE  VInv'
<1>1. DOMAIN table' = {}
  BY DEF NoViewers
<1>2. KeepAwake' = {}
  BY <1>1 DEF KeepAwake
<1>3. Cardinality(KeepAwake') = 0
  BY <1>2, FS_EmptySet
<1>4. ReferencesMatchTable' /\ OneEntry' /\ OpenIsLast'
  BY <1>1, <1>3 DEF ReferencesMatchTable, OneEntry, OpenIsLast
<1>5. TableOK'
  <2>1. table' = [x \in DOMAIN table' |-> table'[x]]
    BY DEF NoViewers
  <2> QED
    BY <1>1, <2>1 DEF TableOK
<1>6. ViewersTypeOK' /\ OpenBookIsStored'
  BY <1>5 DEF VInv, ViewersTypeOK, TableOK, OpenBookIsStored, shellDocuments
<1> QED
  BY <1>4, <1>6 DEF VInv

-----------------------------------------------------------------------------
(* The actions.                                                            *)

\* A program ends: its entry goes, and with it the reference it held.
LEMMA FinishedKeeps == ASSUME VInv, Finished PROVE VInv'
<1>1. PICK a \in DOMAIN table :
        /\ table[a].process = "ended"
        /\ table' = Restrict(table, DOMAIN table \ {a})
        /\ idle' = PostStop(a)
  BY DEF Finished
<1>2. UNCHANGED <<last_document, closing, on, resume, undisturbed, dropped, promise>>
  BY DEF Finished, shellDocuments, shellPower
<1>3. /\ DOMAIN table' = DOMAIN table \ {a}
      /\ \A x \in DOMAIN table' : table'[x] = table[x]
      /\ table' = [x \in DOMAIN table' |-> table'[x]]
  BY <1>1 DEF Restrict
<1>4. TableOK /\ IsFiniteSet(KeepAwake) /\ Cardinality(KeepAwake) \in Nat
  BY TableFinite, FS_CardinalityType DEF VInv, ViewersTypeOK, TableOK
<1>5. KeepAwake' = KeepAwake \ {a} /\ (a \in KeepAwake <=> Awake(a))
  BY <1>1, <1>3 DEF KeepAwake, Awake
<1>6. /\ Cardinality(KeepAwake') = IF Awake(a) THEN Cardinality(KeepAwake) - 1
                                   ELSE Cardinality(KeepAwake)
      /\ Cardinality(KeepAwake') \in Nat
  BY <1>4, <1>5, FS_RemoveElement, FS_CardinalityType
<1>7. ReferencesMatchTable' /\ idle' \in Nat
  <2>1. idle \in Nat /\ ReferencesMatchTable
    BY DEF VInv, ViewersTypeOK
  <2>2. idle' = IF Awake(a) /\ idle > 0 THEN idle - 1 ELSE idle
    BY <1>1 DEF PostStop
  <2>3. /\ idle' \in Nat /\ idle' <= Cardinality(KeepAwake')
        /\ ~dropped => idle' = Cardinality(KeepAwake')
    BY <1>4, <1>6, <2>1, <2>2 DEF ReferencesMatchTable
  <2> QED
    BY <1>2, <2>3 DEF ReferencesMatchTable
<1>8. TableOK'
  BY <1>3, <1>4 DEF TableOK
<1>9. ViewersTypeOK' /\ OpenBookIsStored'
  BY <1>2, <1>7, <1>8 DEF VInv, ViewersTypeOK, TableOK, OpenBookIsStored
<1>10. OneEntry' /\ OpenIsLast'
  BY <1>2, <1>3 DEF VInv, OneEntry, OpenIsLast
<1> QED
  BY <1>7, <1>9, <1>10 DEF VInv

\* A program without a file is no reader, so neither the readers' entries nor
\* the last document change.
LEMMA StartProgramKeeps == ASSUME VInv, StartProgram PROVE VInv'
<1>1. PICK a \in Programs \cup {MUSIC}, found \in BOOLEAN : StartViewer(a, "none", found)
  BY DEF StartProgram
<1>2. UNCHANGED <<last_document, closing, on, resume, undisturbed, dropped, promise>>
  BY DEF StartProgram, shellDocuments, shellPower
<1>3. a \in Apps /\ a \notin Readers
  BY AppsAssumption DEF Apps
<1>4. /\ TableOK' /\ ReferencesMatchTable' /\ idle' \in Nat
      /\ DOMAIN table' = DOMAIN table \cup {a}
      /\ \A x \in DOMAIN table : table'[x] = table[x]
  BY <1>1, <1>2, <1>3, StartViewerKeeps
<1>5. DOMAIN table' \cap Readers = DOMAIN table \cap Readers
  BY <1>3, <1>4
<1>6. OneEntry' /\ OpenIsLast'
  BY <1>2, <1>4, <1>5 DEF VInv, OneEntry, OpenIsLast
<1> QED
  BY <1>2, <1>4, <1>6 DEF VInv, ViewersTypeOK, TableOK, OpenBookIsStored

\* All references are dropped: no more are left than programs hold.
LEMMA SlideShowKeeps == ASSUME VInv, SlideShowEnds PROVE VInv'
<1>1. idle' = 0 /\ dropped' = TRUE /\ UNCHANGED <<table, shellDocuments, shellPower>>
  BY DEF SlideShowEnds
<1>2. KeepAwake' = KeepAwake
  BY <1>1 DEF KeepAwake, Awake
<1>3. Cardinality(KeepAwake) \in Nat
  BY TableFinite, FS_CardinalityType DEF VInv, ViewersTypeOK, TableOK
<1>4. ReferencesMatchTable'
  BY <1>1, <1>2, <1>3 DEF ReferencesMatchTable
<1> QED
  BY <1>1, <1>4 DEF VInv, ViewersTypeOK, OneEntry, OpenIsLast, OpenBookIsStored,
                    shellDocuments, shellPower

\* A shutdown is announced: the last document is stored, which is the book that
\* is open.
LEMMA AnnouncedKeeps == ASSUME VInv, AboutToShutdown PROVE VInv'
<1>1. CASE RunningViewers = 0 /\ Shutdown /\ UNCHANGED <<resume, promise>>
  BY <1>1, EmptiedKeeps DEF Shutdown, StopAllApplications, shellDocuments
<1>2. CASE /\ RunningViewers > 0
           /\ resume' = last_document /\ closing' = TRUE
           /\ IF \E b \in Books : BookOpen(b)
              THEN \E b \in Books : BookOpen(b) /\ promise' = b
              ELSE promise' = "none"
           /\ UNCHANGED <<table, idle, dropped, last_document, undisturbed, on>>
  <2>1. \A b \in Books : BookOpen(b) => last_document = b
    BY DEF VInv, OpenIsLast, BookOpen, Reads, Lives
  <2>2. /\ promise' \in Books \cup {"none"}
        /\ promise' # "none" => promise' = last_document
    BY <1>2, <2>1, Zenon
  <2>3. KeepAwake' = KeepAwake
    BY <1>2 DEF KeepAwake, Awake
  <2>4. ReferencesMatchTable' /\ OneEntry' /\ OpenIsLast' /\ OpenBookIsStored'
    BY <1>2, <2>2, <2>3
    DEF VInv, ReferencesMatchTable, OneEntry, OpenIsLast, OpenBookIsStored
  <2>5. ViewersTypeOK'
    BY <1>2, <2>2 DEF VInv, ViewersTypeOK
  <2> QED
    BY <2>4, <2>5 DEF VInv
<1> QED
  BY <1>1, <1>2 DEF AboutToShutdown

\* The shell starts again, with or without the document that was stored.
LEMMA BootKeeps == ASSUME VInv, BootToDesktop \/ BootToDocument PROVE VInv'
<1>1. CASE BootToDesktop
  <2>1. KeepAwake' = KeepAwake
    BY <1>1 DEF BootToDesktop, KeepAwake, Awake
  <2> QED
    BY <1>1, <2>1 DEF BootToDesktop, VInv, ViewersTypeOK, ReferencesMatchTable,
                      OneEntry, OpenIsLast, OpenBookIsStored
<1>2. CASE BootToDocument
  <2>1. /\ on' = TRUE /\ resume' = "none" /\ promise' = "none"
        /\ closing' = closing /\ dropped' = dropped
    BY <1>2 DEF BootToDocument
  <2>2. /\ TableOK' /\ ReferencesMatchTable' /\ idle' \in Nat
        /\ OneEntry' /\ OpenIsLast'
        /\ last_document' \in Files \cup {"none"} /\ undisturbed' \in BOOLEAN
    <3>1. CASE resume # "none" /\ OpenContentFile(resume)
      <4>1. resume \in Files
        BY <3>1 DEF VInv, ViewersTypeOK
      <4> QED
        BY <2>1, <3>1, <4>1, OpenKeeps
    <3>2. CASE Tried("none", FALSE) /\ UNCHANGED <<table, idle>>
      <4>1. KeepAwake' = KeepAwake
        BY <3>2 DEF KeepAwake, Awake
      <4>2. undisturbed' = FALSE /\ last_document' = "none"
        BY <3>2 DEF Tried, Remember
      <4> QED
        BY <2>1, <3>2, <4>1, <4>2 DEF VInv, ViewersTypeOK, TableOK,
           ReferencesMatchTable, OneEntry, OpenIsLast
    <3> QED
      BY <1>2, <3>1, <3>2 DEF BootToDocument
  <2> QED
    BY <2>1, <2>2 DEF VInv, ViewersTypeOK, TableOK, OpenBookIsStored
<1> QED
  BY <1>1, <1>2

\* The user opens a file.
LEMMA UserOpensKeeps == ASSUME VInv, UserOpens PROVE VInv'
<1>1. PICK file \in Files : OpenContentFile(file)
  BY DEF UserOpens
<1>2. UNCHANGED <<closing, on, resume, dropped, promise>>
  BY DEF UserOpens, shellPower
<1>3. /\ TableOK' /\ ReferencesMatchTable' /\ idle' \in Nat
      /\ OneEntry' /\ OpenIsLast'
      /\ last_document' \in Files \cup {"none"} /\ undisturbed' \in BOOLEAN
  BY <1>1, <1>2, OpenKeeps
<1> QED
  BY <1>2, <1>3 DEF VInv, ViewersTypeOK, TableOK, OpenBookIsStored

\* Every step keeps the invariant.
LEMMA VInvStep == ASSUME VInv, [NextViewers]_viewersVars PROVE VInv'
<1>1. CASE ProcessStarts
  BY <1>1, BecomesKeeps DEF ProcessStarts, Processes
<1>2. CASE ProcessFails
  BY <1>2, BecomesKeeps DEF ProcessFails, Processes
<1>3. CASE ProcessEnds
  BY <1>3, BecomesKeeps DEF ProcessEnds, Processes
<1>4. CASE StopAll
  BY <1>4, EmptiedKeeps
  DEF StopAll, StopAllApplications, shellPower, VInv, ViewersTypeOK
<1>5. CASE ShutdownAtOnce \/ ShutdownTimeout
  BY <1>5, EmptiedKeeps
  DEF ShutdownAtOnce, ShutdownTimeout, Shutdown, StopAllApplications, shellDocuments
<1>6. CASE PowerLost
  BY <1>6, EmptiedKeeps DEF PowerLost
<1>7. CASE UNCHANGED viewersVars
  <2>1. KeepAwake' = KeepAwake
    BY <1>7 DEF viewersVars, KeepAwake, Awake
  <2> QED
    BY <1>7, <2>1 DEF viewersVars, VInv, ViewersTypeOK, ReferencesMatchTable,
                      OneEntry, OpenIsLast, OpenBookIsStored
<1> QED
  BY <1>1, <1>2, <1>3, <1>4, <1>5, <1>6, <1>7, FinishedKeeps, StartProgramKeeps,
     SlideShowKeeps, AnnouncedKeeps, BootKeeps, UserOpensKeeps
  DEF NextViewers, ViewersDisturb

\* The shell starts with an empty table.
LEMMA VInvStarts == ASSUME InitViewers PROVE VInv
<1>1. table = NoViewers /\ DOMAIN table = {} /\ table = [x \in DOMAIN table |-> table[x]]
  BY DEF InitViewers, NoViewers
<1>2. KeepAwake = {} /\ Cardinality(KeepAwake) = 0
  BY <1>1, FS_EmptySet DEF KeepAwake
<1>3. ReferencesMatchTable /\ OneEntry /\ OpenIsLast /\ OpenBookIsStored
  BY <1>1, <1>2
  DEF InitViewers, ReferencesMatchTable, OneEntry, OpenIsLast, OpenBookIsStored
<1>4. ViewersTypeOK
  BY <1>1 DEF InitViewers, ViewersTypeOK
<1> QED
  BY <1>3, <1>4 DEF VInv

-----------------------------------------------------------------------------
(* The theorems.                                                           *)

LEMMA VInvAlways == SpecViewers => []VInv
  BY VInvStarts, VInvStep, PTL DEF SpecViewers

\* Every variable keeps its shape, for any programs and documents.
THEOREM ViewersTypeCorrect == SpecViewers => []ViewersTypeOK
<1>1. VInv => ViewersTypeOK
  BY DEF VInv
<1> QED
  BY <1>1, VInvAlways, PTL

\* Idle is off once for each program that keeps the device awake, or less often
\* after all references were dropped.
THEOREM ReferencesArePaired == SpecViewers => []ReferencesMatchTable
<1>1. VInv => ReferencesMatchTable
  BY DEF VInv
<1> QED
  BY <1>1, VInvAlways, PTL

\* Two readers never run at a time, however many the shell knows.
THEOREM OneReaderAtATime == SpecViewers => []OneReader
<1>1. VInv => OneReader
  BY DEF VInv, OneEntry, OneReader, Reads
<1> QED
  BY <1>1, VInvAlways, PTL

\* A book that was open when a shutdown was announced is stored for the next
\* start.
THEOREM OpenBookStored == SpecViewers => []OpenBookIsStored
<1>1. VInv => OpenBookIsStored
  BY DEF VInv
<1> QED
  BY <1>1, VInvAlways, PTL

-----------------------------------------------------------------------------
(* The shell implements IdleReferences.                                    *)

\* What the programs in the table have asked for: one reference each.
Asked == KeepAwake \X {1}

\* With nobody in the table who asks for one, no reference is left.
LEMMA NoneHeld == ASSUME VInv, Asked = {} PROVE ~(idle > 0)
<1>1. KeepAwake = {}
  <2>1. \A a \in KeepAwake : <<a, 1>> \in Asked
    BY DEF Asked
  <2> QED
    BY <2>1
<1>2. Cardinality(KeepAwake) = 0
  BY <1>1, FS_EmptySet
<1> QED
  BY <1>2 DEF VInv, ReferencesMatchTable, ViewersTypeOK

\* Where no program is launched, no more is held than before.
LEMMA FewerHeld ==
    ASSUME VInv, VInv', idle' <= idle, KeepAwake' \subseteq KeepAwake
    PROVE  [IR!Next]_(IR!vars)
<1>1. (idle > 0)' => idle > 0
  BY DEF VInv, ViewersTypeOK
<1>2. Asked' = {} => ~(idle > 0)'
  <2>1. (VInv /\ Asked = {} => ~(idle > 0))'
    BY NoneHeld, PTL
  <2> QED
    BY <2>1
<1>3. Asked' \in SUBSET Asked
  BY DEF Asked
<1>4. IR!Lose
  BY <1>1, <1>2, <1>3, Zenon DEF IR!Lose, Asked
<1> QED
  BY <1>4 DEF IR!Next

\* A program that is launched takes a reference if it keeps the device awake.
LEMMA LaunchTakes ==
    ASSUME VInv, VInv', NEW a \in Apps, NEW file, NEW started \in BOOLEAN,
           StartViewer(a, file, started)
    PROVE  [IR!Next]_(IR!vars)
<1>1. CASE a \in DOMAIN table /\ Message
  <2>1. KeepAwake' = KeepAwake /\ idle' = idle
    BY <1>1 DEF Message, KeepAwake, Awake
  <2> QED
    BY <2>1 DEF IR!vars
<1>2. CASE a \notin DOMAIN table /\ Launch(a, file, started)
  <2>1. /\ DOMAIN table' = DOMAIN table \cup {a}
        /\ \A x \in DOMAIN table : table'[x] = table[x]
        /\ table'[a].process = IF started THEN "starting" ELSE "unforked"
        /\ idle' = IF started /\ Awake(a) THEN idle + 1 ELSE idle
    BY <1>2 DEF Launch
  <2>2. CASE started /\ Awake(a)
    <3>1. KeepAwake' = KeepAwake \cup {a} /\ a \in {MUSIC, BROWSER}
      BY <2>1, <2>2 DEF KeepAwake, Awake
    <3>2. (idle > 0)' = TRUE
      BY <2>1, <2>2 DEF VInv, ViewersTypeOK
    <3>3. a \notin KeepAwake
      BY <1>2 DEF KeepAwake
    <3>4. /\ <<a, 1>> \in (KeepAwake' \X {1}) \ (KeepAwake \X {1}) /\ <<a, 1>>[1] = a
          /\ KeepAwake' \X {1} = (KeepAwake \X {1}) \cup {<<a, 1>>}
      BY <3>1, <3>3
    <3>5. IR!Take(a)
      BY <3>2, <3>4 DEF IR!Take
    <3> QED
      BY <3>1, <3>5 DEF IR!Next
  <2>3. CASE ~(started /\ Awake(a))
    <3>1. KeepAwake' = KeepAwake /\ idle' = idle
      BY <2>1, <2>3 DEF KeepAwake, Awake
    <3> QED
      BY <3>1 DEF IR!vars
  <2> QED
    BY <2>2, <2>3
<1> QED
  BY <1>1, <1>2 DEF StartViewer

\* So does a file that is opened; one that is refused changes nothing.
LEMMA OpenTakes ==
    ASSUME VInv, VInv', NEW file \in Files, OpenContentFile(file)
    PROVE  [IR!Next]_(IR!vars)
<1>1. CASE \E found \in BOOLEAN : StartViewer(MUSIC, file, found)
  BY <1>1, LaunchTakes DEF Apps
<1>2. CASE /\ file \in Books /\ ViewerOf[file] # "none"
           /\ \E found \in BOOLEAN : StartViewer(ViewerOf[file], file, found)
  <2>1. ViewerOf[file] \in Apps
    BY <1>2, BooksAssumption DEF Apps
  <2> QED
    BY <1>2, <2>1, LaunchTakes
<1>3. CASE UNCHANGED <<table, idle>>
  <2>1. KeepAwake' = KeepAwake /\ idle' = idle
    BY <1>3 DEF KeepAwake, Awake
  <2> QED
    BY <2>1 DEF IR!vars
<1> QED
  BY <1>1, <1>2, <1>3 DEF OpenContentFile

\* Every step of the shell is a step of IdleReferences, or none there.
LEMMA ShellStep ==
    ASSUME VInv, VInv', [NextViewers]_viewersVars
    PROVE  [IR!Next]_(IR!vars)
<1>i. idle \in Nat
  BY DEF VInv, ViewersTypeOK
<1>1. CASE UserOpens
  BY <1>1, OpenTakes DEF UserOpens
<1>2. CASE StartProgram
  <2>1. PICK a \in Programs \cup {MUSIC}, found \in BOOLEAN : StartViewer(a, "none", found)
    BY <1>2 DEF StartProgram
  <2> QED
    BY <2>1, LaunchTakes DEF Apps
<1>3. CASE BootToDocument
  <2>1. CASE resume # "none" /\ OpenContentFile(resume)
    <3>1. resume \in Files
      BY <2>1 DEF VInv, ViewersTypeOK
    <3> QED
      BY <2>1, <3>1, OpenTakes
  <2>2. CASE UNCHANGED <<table, idle>>
    <3>1. KeepAwake' = KeepAwake
      BY <2>2 DEF KeepAwake, Awake
    <3> QED
      BY <2>2, <3>1 DEF IR!vars
  <2> QED
    BY <1>3, <2>1, <2>2 DEF BootToDocument
<1>4. CASE Finished
  <2>1. PICK a \in DOMAIN table :
          /\ table' = Restrict(table, DOMAIN table \ {a})
          /\ idle' = PostStop(a)
    BY <1>4 DEF Finished
  <2>2. /\ DOMAIN table' = DOMAIN table \ {a}
        /\ \A x \in DOMAIN table' : table'[x] = table[x]
    BY <2>1 DEF Restrict
  <2>3. KeepAwake' \subseteq KeepAwake
    BY <2>2 DEF KeepAwake, Awake
  <2>4. idle' <= idle
    BY <1>i, <2>1 DEF PostStop
  <2> QED
    BY <2>3, <2>4, FewerHeld
<1>5. CASE ProcessStarts \/ ProcessFails \/ ProcessEnds
  <2>1. PICK a \in DOMAIN table, p \in {"running", "failed", "ended"} :
          table[a].process \in {"starting", "running"} /\ Becomes(a, p)
    BY <1>5 DEF ProcessStarts, ProcessFails, ProcessEnds
  <2>2. /\ DOMAIN table' = DOMAIN table /\ idle' = idle
        /\ \A x \in DOMAIN table \ {a} : table'[x] = table[x]
    BY <2>1 DEF Becomes
  <2>3. KeepAwake' \subseteq KeepAwake
    BY <2>1, <2>2 DEF KeepAwake, Awake
  <2> QED
    BY <1>i, <2>2, <2>3, FewerHeld
<1>6. CASE StopAll \/ ShutdownAtOnce \/ ShutdownTimeout \/ PowerLost
           \/ (AboutToShutdown /\ Shutdown)
  <2>1. table' = NoViewers /\ idle' = 0
    BY <1>6 DEF StopAll, ShutdownAtOnce, ShutdownTimeout, PowerLost, Shutdown,
                StopAllApplications
  <2>2. KeepAwake' = {}
    BY <2>1 DEF KeepAwake, NoViewers
  <2> QED
    BY <1>i, <2>1, <2>2, FewerHeld
<1>7. CASE \/ SlideShowEnds \/ BootToDesktop \/ UNCHANGED viewersVars
           \/ (AboutToShutdown /\ UNCHANGED <<table, idle>>)
  <2>1. table' = table /\ (idle' = idle \/ idle' = 0)
    BY <1>7 DEF SlideShowEnds, BootToDesktop, viewersVars
  <2>2. KeepAwake' = KeepAwake /\ idle' <= idle
    BY <1>i, <2>1 DEF KeepAwake, Awake
  <2> QED
    BY <2>2, FewerHeld
<1>8. AboutToShutdown => Shutdown \/ UNCHANGED <<table, idle>>
  BY DEF AboutToShutdown
<1> QED
  BY <1>1, <1>2, <1>3, <1>4, <1>5, <1>6, <1>7, <1>8 DEF NextViewers, ViewersDisturb

\* The shell implements IdleReferences, as the count of the daemon does for all
\* clients together: the start of music or the browser keeps the device awake
\* at once, nothing else does, and the last of them to go lets it sleep.
THEOREM ShellImplementsReferences == SpecViewers => ShellKeepsPromise
<1>1. InitViewers => IR!Init
  BY DEF InitViewers, NoViewers, KeepAwake, IR!Init
<1>2. VInv /\ VInv' /\ [NextViewers]_viewersVars => [IR!Next]_(IR!vars)
  BY ShellStep
<1> QED
  BY <1>1, <1>2, VInvAlways, PTL DEF SpecViewers, ShellKeepsPromise, IR!Spec
=============================================================================
