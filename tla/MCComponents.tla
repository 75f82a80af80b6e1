----------------------------- MODULE MCComponents -----------------------------
(***************************************************************************)
(* Components that share no state, side by side for TLC: part says which   *)
(* of them moves in a behaviour, while the others stay as they begin.      *)
(***************************************************************************)
EXTENDS KeyboardFilter, Viewers, ImageTasks, Speech

VARIABLE part

MCReaders  == {"naboo_reader", "image_reader"}
MCPrograms == {BROWSER}
MCBooks    == {"epub", "png", "unknown"}
MCViewerOf == [b \in MCBooks |-> CASE b = "epub" -> "naboo_reader"
                                   [] b = "png"  -> "image_reader"
                                   [] OTHER      -> "none"]

\* A book with text on every page, and one that begins with a picture.
MCSilences == {{}, {0}}

MCInit ==
    /\ part \in {"keys", "viewers", "images", "speech"}
    /\ Init /\ (part = "keys" \/ last = "usb")
    /\ InitViewers /\ InitImages
    /\ InitSpeech /\ (part = "speech" \/ (silent = {} /\ screen = 0))

Keys   == part = "keys" /\ UNCHANGED <<part, viewersVars, imageVars, speechVars>>
Shell  == part = "viewers" /\ UNCHANGED <<part, vars, imageVars, speechVars>>
Images == part = "images" /\ UNCHANGED <<part, vars, viewersVars, speechVars>>
Voice  == part = "speech" /\ UNCHANGED <<part, vars, viewersVars, imageVars>>

MCNext ==
    \/ Keys /\ Moves
    \/ Keys /\ KeyEvent
    \/ Keys /\ OnTimeout
    \/ Keys /\ IgnoreKeyboardEvent
    \/ Shell /\ UserOpens
    \/ Shell /\ StartProgram
    \/ Shell /\ ProcessStarts
    \/ Shell /\ ProcessFails
    \/ Shell /\ ProcessEnds
    \/ Shell /\ Finished
    \/ Shell /\ SlideShowEnds
    \/ Shell /\ StopAll
    \/ Shell /\ ShutdownAtOnce
    \/ Shell /\ AboutToShutdown
    \/ Shell /\ ShutdownTimeout
    \/ Shell /\ PowerLost
    \/ Shell /\ BootToDesktop
    \/ Shell /\ BootToDocument
    \/ Images /\ ImageUser
    \/ Images /\ OnPrerendering
    \/ Images /\ OnImageReady
    \/ Images /\ Clear
    \/ Images /\ Check
    \/ Images /\ Abort
    \/ Images /\ Put
    \/ Images /\ Start
    \/ Images /\ ClearTasks
    \/ Images /\ Look
    \/ Images /\ TakeLast
    \/ Images /\ Leave
    \/ Images /\ Switch
    \/ Images /\ Exec
    \/ Images /\ Render
    \/ Images /\ RenderFails
    \/ Images /\ Report
    \/ Images /\ Delete
    \/ Images /\ Retrieve
    \/ Images /\ Take
    \/ Images /\ Over
    \/ Voice /\ SpeechUser
    \/ Voice /\ SynthDone
    \/ Voice /\ Navigate
    \/ Voice /\ PaintSurface
    \/ Voice /\ PlayerEnds
    \/ Voice /\ ExecRender
    \/ Voice /\ PlayVoiceOnCurrentScreen
    \/ Voice /\ OnTTSPlayFinished

MCVars == <<part, vars, viewersVars, imageVars, speechVars>>

\* Each component with the fairness of its own specification.
MCSpec ==
    /\ MCInit /\ [][MCNext]_MCVars
    /\ WF_MCVars(Keys /\ OnTimeout)
    /\ WF_MCVars(Shell /\ ProcessStarts) /\ WF_MCVars(Shell /\ Finished)
    /\ WF_MCVars(Shell /\ ShutdownTimeout)
    /\ WF_MCVars(Images /\ AddTask) /\ WF_MCVars(Images /\ ClearTasks)
    /\ WF_MCVars(Images /\ Execute)
    /\ WF_MCVars(Images /\ OnImageReady) /\ WF_MCVars(Images /\ OnPrerendering)
    /\ WF_MCVars(Voice /\ SpeechReturns) /\ WF_MCVars(Voice /\ PlayerEnds)
    /\ WF_MCVars(Voice /\ ExecRender) /\ WF_MCVars(Voice /\ PlayVoiceOnCurrentScreen)
    /\ WF_MCVars(Voice /\ OnTTSPlayFinished)
=============================================================================
