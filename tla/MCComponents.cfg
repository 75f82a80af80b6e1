SPECIFICATION MCSpec
CONSTANTS
    Readers <- MCReaders
    Programs <- MCPrograms
    Books <- MCBooks
    ViewerOf <- MCViewerOf
    Total = 2
    Fit = 1
    MaxReady = 0
    MaxFurther = 0
    LastScreen = 1
    Silences <- MCSilences
    PageKeys = {"next"}
    MaxNested = 2
    MaxSounds = 2
INVARIANT TypeOK
INVARIANT ReportedAsItStands
INVARIANT ViewersTypeOK
INVARIANT ReferencesMatchTable
INVARIANT OneReader
INVARIANT OpenBookIsStored
INVARIANT ImagesTypeOK
INVARIANT NoTaskLeftBehind
INVARIANT PageOnItsWay
INVARIANT ThreadOwnsTask
INVARIANT SpeechTypeOK
INVARIANT QuietWhenNotPlaying
INVARIANT ReadingGoesOn
PROPERTY LastMoveReported
PROPERTY RoomAgain
PROPERTY PageShown
PROPERTY CloseReturns
PROPERTY ReadToTheEnd
