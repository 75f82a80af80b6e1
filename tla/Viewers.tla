------------------------------- MODULE Viewers -------------------------------
(***************************************************************************)
(* SystemController of the shell: the programs it has started.             *)
(*                                                                         *)
(* applications_ holds a process for each program until its finished()     *)
(* signal.  One document may be open at a time, the music player apart;    *)
(* while music or the browser runs, the shell keeps the device awake.      *)
(* Before a shutdown it stores the book that is open, to open it again     *)
(* when the device starts.                                                 *)
(*                                                                         *)
(* A process that cannot be started sends no finished(): its entry stays   *)
(* until all applications are stopped.                                     *)
(***************************************************************************)
EXTENDS Integers, FiniteSets, Functions

CONSTANTS
    Readers,    \* viewers of documents
    Programs,   \* other programs of the shell: browser, dictionary, notes ...
    Books,      \* documents
    ViewerOf    \* service(): the reader of a book, "none" if there is none

MUSIC   == "music_player"
BROWSER == "web_browser"

Apps == Readers \cup Programs \cup {MUSIC}
TUNE == "tune"      \* any file of the music player
Files == Books \cup {TUNE}

ASSUME AppsAssumption ==
    /\ IsFiniteSet(Readers) /\ IsFiniteSet(Programs)
    /\ Readers \cap (Programs \cup {MUSIC, BROWSER, "none"}) = {}
ASSUME BooksAssumption ==
    /\ Books \cap {TUNE, "none"} = {}
    /\ ViewerOf \in [Books -> Readers \cup {"none"}]

VARIABLES
    table,          \* applications_: the process of each program, its file
    last_document,  \* last_document_
    idle,           \* how often idle was switched off, as the daemon counts
    closing,        \* the single shot of onAboutToShutdown() is pending
    on,             \* the shell runs
    resume,         \* the document stored for the next start (external: UserDB)
    undisturbed,    \* history: no file was tried since the open book
    dropped,        \* history: references were dropped by another program
    promise         \* history: the book that was open when a shutdown began

viewersVars == <<table, last_document, idle, closing, on, resume, undisturbed,
                 dropped, promise>>

shellDocuments == <<last_document, resume, undisturbed, promise>>
shellPower == <<closing, on>>

\* A process sends finished() when it has "ended"; not when fork() ("unforked")
\* or exec() ("failed") has failed.
Processes == {"unforked", "starting", "failed", "running", "ended"}
Lives(a) == a \in DOMAIN table /\ table[a].process \in {"starting", "running"}
Reads(r) == r \in Readers /\ Lives(r)

NoViewers == [a \in {} |-> [process |-> "ended", file |-> "none"]]

InitViewers ==
    /\ table = NoViewers /\ last_document = "none" /\ idle = 0
    /\ closing = FALSE /\ on = TRUE /\ resume = "none"
    /\ undisturbed = FALSE /\ dropped = FALSE /\ promise = "none"

-----------------------------------------------------------------------------
\* runningViewers(), of any entry but the music player's
RunningViewers == Cardinality(DOMAIN table \ {MUSIC})

maxDocuments == 1

\* Mutant: one document more.
RoomForTwo == RunningViewers <= maxDocuments

\* Check if we can open more documents.
Room == RunningViewers < maxDocuments

\* postStart(), postStop(): those which keep the device awake.
Awake(a) == a \in {MUSIC, BROWSER}

\* startViewer() of a program that is not in the table.  When fork() fails,
\* onProcessFinished() is called, but finds no sender: the entry stays.
Launch(a, file, started) ==
    /\ table' = [x \in DOMAIN table \cup {a} |->
                   IF x # a THEN table[x]
                   ELSE [process |-> IF started THEN "starting" ELSE "unforked",
                         file |-> IF a \in Readers THEN file ELSE "none"]]
    /\ idle' = IF started /\ Awake(a) THEN idle + 1 ELSE idle

\* startViewer() of a program that is in the table: a message, if only to the
\* entry of a dead process.
Message == UNCHANGED <<table, idle>>

\* startViewer(); what it returns is whether a viewer was found.
StartViewer(a, file, found) ==
    \/ a \notin DOMAIN table /\ Launch(a, file, found)
    \/ a \in DOMAIN table /\ Message /\ found

\* Mutant: the last document is remembered if it could not be opened.
RememberFailed(file, found) == IF found THEN "none" ELSE file

\* last_document_ after openContentFile()
Remember(file, found) == IF found THEN file ELSE "none"

\* What openContentFile() leaves behind, with or without a viewer.
Tried(file, found) ==
    /\ last_document' = Remember(file, found)
    /\ undisturbed' = (found /\ file \in Books)

\* openContentFile(): any number of documents may be open beside a tune.
OpenContentFile(file) ==
    \/ /\ file = TUNE
       /\ \E found \in BOOLEAN : StartViewer(MUSIC, file, found) /\ Tried(file, found)
    \/ /\ file \in Books /\ Room /\ ViewerOf[file] # "none"
       /\ \E found \in BOOLEAN :
            StartViewer(ViewerOf[file], file, found) /\ Tried(file, found)
    \/ /\ file \in Books
       /\ ~Room \/ ViewerOf[file] = "none"
       /\ Tried(file, FALSE) /\ UNCHANGED <<table, idle>>

\* processFileNode()
UserOpens ==
    /\ on
    /\ \E file \in Files : OpenContentFile(file)
    /\ UNCHANGED <<shellPower, resume, dropped, promise>>

\* navigateTo(), openDictionary() and others like it, and requestMusicService():
\* no check for room, no last document.
StartProgram ==
    /\ on
    /\ \E a \in Programs \cup {MUSIC}, found \in BOOLEAN : StartViewer(a, "none", found)
    /\ UNCHANGED <<shellDocuments, shellPower, dropped>>

-----------------------------------------------------------------------------
(* Processes.                                                              *)

Becomes(a, process) ==
    /\ table' = [table EXCEPT ![a].process = process]
    /\ UNCHANGED <<idle, shellDocuments, shellPower, dropped>>

\* exec() in the new process; its failure is an error(), which nobody hears.
ProcessStarts ==
    \E a \in DOMAIN table : table[a].process = "starting" /\ Becomes(a, "running")
ProcessFails ==
    \E a \in DOMAIN table : table[a].process = "starting" /\ Becomes(a, "failed")

\* A program ends, crashes or is killed.
ProcessEnds ==
    \E a \in DOMAIN table : table[a].process = "running" /\ Becomes(a, "ended")

\* Mutant: idle stays off.
KeepsReference(a) == idle

\* Mutant: the count goes below zero.
UnclippedStop(a) == IF Awake(a) THEN idle - 1 ELSE idle

\* postStop(): enableIdle(true), which does not count below zero.
PostStop(a) == IF Awake(a) /\ idle > 0 THEN idle - 1 ELSE idle

\* onProcessFinished()
Finished ==
    /\ on
    /\ \E a \in DOMAIN table :
         /\ table[a].process = "ended"
         /\ table' = Restrict(table, DOMAIN table \ {a})
         /\ idle' = PostStop(a)
    /\ UNCHANGED <<shellDocuments, shellPower, dropped>>

\* A reader ends its slide show (external): resetIdle().
SlideShowEnds ==
    /\ \E r \in DOMAIN table : Reads(r)
    /\ idle' = 0 /\ dropped' = TRUE
    /\ UNCHANGED <<table, shellDocuments, shellPower>>

\* stopAllApplications(): every process is killed, none is heard of again.
StopAllApplications == table' = NoViewers /\ idle' = 0 /\ dropped' = FALSE

\* F11, also in onForceQuit(), unless the calibration runs.
StopAll ==
    /\ on
    /\ StopAllApplications
    /\ UNCHANGED <<shellDocuments, shellPower>>

-----------------------------------------------------------------------------
(* Shutdown and start.                                                     *)

\* ModelView::shutdown(): the applications are stopped, and the device.
Shutdown ==
    /\ StopAllApplications
    /\ on' = FALSE /\ closing' = FALSE
    /\ UNCHANGED <<last_document, undisturbed>>

\* handleBatteryEvent(), and the menu of the shell.
ShutdownAtOnce == on /\ Shutdown /\ UNCHANGED <<resume, promise>>

\* A book that is open, and the file that was tried last.
BookOpen(b) == undisturbed /\ \E r \in DOMAIN table : Reads(r) /\ table[r].file = b

\* onAboutToShutdown(): "Give applications time to store options".
AboutToShutdown ==
    /\ on
    /\ \/ /\ RunningViewers > 0
          /\ resume' = last_document /\ closing' = TRUE
          /\ IF \E b \in Books : BookOpen(b)
             THEN \E b \in Books : BookOpen(b) /\ promise' = b
             ELSE promise' = "none"
          /\ UNCHANGED <<table, idle, dropped, last_document, undisturbed, on>>
       \/ /\ RunningViewers = 0
          /\ Shutdown /\ UNCHANGED <<resume, promise>>

\* 1.5 seconds later.
ShutdownTimeout == closing /\ Shutdown /\ UNCHANGED <<resume, promise>>

\* The battery is empty, or taken out.
PowerLost ==
    /\ on
    /\ on' = FALSE /\ closing' = FALSE /\ table' = NoViewers /\ idle' = 0
    /\ dropped' = FALSE
    /\ UNCHANGED shellDocuments

\* The shell starts, and the user has chosen to start with the desktop.
BootToDesktop ==
    /\ ~on /\ on' = TRUE
    /\ last_document' = "none" /\ undisturbed' = FALSE /\ promise' = "none"
    /\ UNCHANGED <<table, idle, closing, resume, dropped>>

\* openResumeDocument(): the stored document is taken out, and opened if its
\* file exists.
BootToDocument ==
    /\ ~on /\ on' = TRUE
    /\ resume' = "none" /\ promise' = "none"
    /\ \/ resume # "none" /\ OpenContentFile(resume)
       \/ Tried("none", FALSE) /\ UNCHANGED <<table, idle>>
    /\ UNCHANGED <<closing, dropped>>

\* What users, other programs and the power do.
ViewersDisturb ==
    \/ UserOpens \/ StartProgram \/ ProcessFails \/ SlideShowEnds \/ StopAll
    \/ ShutdownAtOnce \/ AboutToShutdown \/ PowerLost
    \/ BootToDesktop \/ BootToDocument

NextViewers == ViewersDisturb \/ ProcessStarts \/ ProcessEnds \/ Finished \/ ShutdownTimeout

SpecViewers == InitViewers /\ [][NextViewers]_viewersVars

\* Processes start, the end of one is heard of, and timers fire.  No program
\* has to end.
FairViewers ==
    /\ SpecViewers
    /\ WF_viewersVars(ProcessStarts) /\ WF_viewersVars(Finished)
    /\ WF_viewersVars(ShutdownTimeout)

-----------------------------------------------------------------------------
\* Every variable keeps its shape.
ViewersTypeOK ==
    /\ DOMAIN table \subseteq Apps
    /\ table \in [DOMAIN table -> [process : Processes, file : Books \cup {"none"}]]
    /\ last_document \in Files \cup {"none"} /\ resume \in Files \cup {"none"}
    /\ idle \in Nat
    /\ closing \in BOOLEAN /\ on \in BOOLEAN
    /\ undisturbed \in BOOLEAN /\ dropped \in BOOLEAN
    /\ promise \in Books \cup {"none"}

\* The programs that keep the device awake and were started, as far as known.
KeepAwake == {a \in DOMAIN table : Awake(a) /\ table[a].process # "unforked"}

\* postStart() and postStop() are paired, whichever way programs start, fail to
\* start, end, crash or are killed: idle is off once for each program that
\* keeps the device awake, unless a slide show has dropped all references, and
\* then it is off no more often.
ReferencesMatchTable ==
    /\ idle <= Cardinality(KeepAwake)
    /\ ~dropped => idle = Cardinality(KeepAwake)

\* "only one document can be opened": two readers never run at a time, and none
\* outlives its entry in the table, although programs without a file may be
\* started beside a reader.
OneReader == \A r, s \in DOMAIN table : Reads(r) /\ Reads(s) => r = s

\* "Store the book that we're opening": if a book was open when the daemon
\* announced a shutdown, and no file was tried after it, the book is stored for
\* the next start, whatever is done in the 1.5 seconds that are left.
OpenBookIsStored == promise # "none" => resume = promise

\* When all programs have ended or crashed, and none failed to start, the next
\* book is not refused and the device is not kept awake.
RoomAgain ==
    <>[][~ViewersDisturb]_viewersVars /\
    <>[](on /\ \A a \in DOMAIN table : table[a].process = "ended")
        => <>[](Room /\ idle = 0)

\* The requests of the programs, one of each that keeps the device awake.
IR == INSTANCE IdleReferences
        WITH Clients <- {MUSIC, BROWSER}, requests <- KeepAwake \X {1},
             awake <- idle > 0

\* What the shell does to the idle references is what IdleReferences promises:
\* the device is kept awake from the start of music or the browser, by nothing
\* else, and no longer than one of them is in the table.
ShellKeepsPromise == IR!Spec
=============================================================================
