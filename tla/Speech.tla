-------------------------------- MODULE Speech --------------------------------
(***************************************************************************)
(* The reader reads a book aloud, page by page.                            *)
(*                                                                         *)
(* NabooView gives the text of the page on the screen to the widget, the   *)
(* widget to the engine, the engine's sound to a thread of the pool.  When *)
(* it has been played the next page is rendered, and then read.  The same  *)
(* renderer serves the user, who turns pages, pauses and goes on.          *)
(*                                                                         *)
(* Two of the steps run the event loop in their middle: the engine when it *)
(* has the sound of a text, the renderer while it draws.  Whatever happens *)
(* there happens inside of them: stack says what is not finished yet.      *)
(*                                                                         *)
(* Which events may come where: signals that have been posted arrive       *)
(* before a timer fires, while a key may overtake them.                    *)
(***************************************************************************)
EXTENDS Integers, Sequences

CONSTANTS
    LastScreen, \* number of the last page
    Silences,   \* the documents: which of their pages have no text
    PageKeys,   \* bound: the keys by which the user turns pages
    MaxNested,  \* bound: steps inside of each other
    MaxSounds   \* bound: texts that are synthesized, played or reported at a time

ASSUME SpeechAssumption ==
    /\ LastScreen \in Nat /\ Silences \subseteq SUBSET (0..LastScreen)
    /\ PageKeys \subseteq {"next", "prev"}
    /\ MaxNested \in Nat \ {0} /\ MaxSounds \in Nat \ {0}

Screens == 0..LastScreen
Directions == {"next", "prev", "back"}

VARIABLES
    silent,     \* the pages without text
    screen,     \* the renderer's position
    painted,    \* render_conf_: the position that was drawn last
    pending,    \* TasksHandler: the request that waits, if any
    render,     \* AdobeRenderConf::exec(): the request it is executing, if it is on
    need        \* render_conf_: needPlayVoice()

VARIABLES
    shown,      \* the TTS widget is visible
    state,      \* TTS::state(); an idle reference is held just while "playing"
    range,      \* tts_range_: the page that was read last
    voice,      \* tts_timer_ is running
    players,    \* number of SoundRunnables in the thread pool
    finished,   \* number of their finished() on the way
    stack,      \* the steps that are in the event loop, the innermost first
    refused     \* history: the page to be read next could not be turned to

speechVars == <<silent, screen, painted, pending, render, need, shown, state,
                range, voice, players, finished, stack, refused>>

speechRender == <<silent, screen, painted, pending, render>>
speechSound == <<state, players, finished>>

NoRender == [on |-> FALSE, to |-> "back", need |-> FALSE, aborted |-> FALSE, moved |-> FALSE]

InitSpeech ==
    /\ silent \in Silences
    /\ screen \in Screens /\ painted = screen /\ range = screen
    /\ pending = <<>> /\ render = NoRender /\ need = FALSE
    /\ shown = FALSE /\ state = "stopped" /\ voice = FALSE
    /\ players = 0 /\ finished = 0 /\ stack = <<>> /\ refused = FALSE

AtEnd == screen = LastScreen
Within(step) == stack # <<>> /\ Head(stack) = step

-----------------------------------------------------------------------------
(* TTS and TTSWidget.                                                      *)

\* The frames of onSynthDone().
Synthesizing == Len(SelectSeq(stack, LAMBDA step : step # "render"))

CanNest == Len(stack) < MaxNested
CanSpeak == CanNest /\ players + finished + Synthesizing < MaxSounds

\* setState(), for TTS_PAUSED and TTS_STOPPED: a player that runs is cut short and
\* reports as if it had played all, one that waits returns; sound_ is deleted.
Quiet(to) ==
    /\ state' = to
    /\ players' = 0
    /\ \E cut \in 0..players : finished' = finished + cut

\* startPlaying(), up to the event loop of onSynthDone().
Speak(from) ==
    /\ state' = "playing" /\ stack' = <<from>> \o stack
    /\ refused' = FALSE
    /\ UNCHANGED <<players, finished>>

\* Mutant: the state is not looked at again after the event loop.
PlaysUnlessStopped == state # "stopped"

\* Does onSynthDone() send the sound to the player?
Plays == state = "playing"

\* The rest of onSynthDone(), and of playVoiceOnCurrentScreen() if it was that.
SynthDone ==
    /\ Within("voice") \/ Within("click")
    /\ stack' = Tail(stack)
    /\ players' = IF Plays THEN players + 1 ELSE players
    /\ need' = (need /\ Within("click"))
    /\ UNCHANGED <<speechRender, shown, state, range, voice, finished, refused>>

\* SoundRunnable::run() has played its data.
PlayerEnds ==
    /\ players > 0
    /\ players' = players - 1 /\ finished' = finished + 1
    /\ UNCHANGED <<speechRender, need, shown, state, range, voice, stack, refused>>

\* onPlayClicked(); nothing has been read yet when it is stopped.
PlayClicked ==
    /\ shown
    /\ \/ state = "playing" /\ Quiet("paused") /\ UNCHANGED <<stack, refused>>
       \/ state = "paused" /\ CanSpeak /\ Speak("click")
    /\ UNCHANGED <<speechRender, need, shown, range, voice>>

\* onCloseClicked()
CloseClicked ==
    /\ shown
    /\ shown' = FALSE
    /\ Quiet("stopped")
    /\ UNCHANGED <<speechRender, need, range, voice, stack, refused>>

-----------------------------------------------------------------------------
(* The renderer.                                                           *)

\* Mutant: the request that waits is kept.
QueuedAll(request) == <<request>> \o pending

\* addTask() of the SDK's TasksHandler: instead of the request that waits.
Queued(request) == <<request>>

\* sendRenderRequest(): the request that is executed is aborted.
Send(to, play) ==
    /\ pending' = Queued([to |-> to, need |-> play])
    /\ render' = [render EXCEPT !.aborted = @ \/ render.on]
    /\ UNCHANGED <<silent, screen, painted>>

\* Only one is executed at a time: its timer does not fire inside of itself.
ExecRender ==
    /\ pending # <<>> /\ ~render.on /\ CanNest /\ finished = 0
    /\ pending' = <<>>
    /\ render' = [NoRender EXCEPT !.on = TRUE, !.to = Head(pending).to,
                                  !.need = Head(pending).need]
    /\ stack' = <<"render">> \o stack
    /\ UNCHANGED <<silent, screen, painted, need, shown, speechSound, range, voice, refused>>

\* Where the request leads to, if it can be done.
Target(to) == {p \in Screens : CASE to = "next" -> p = screen + 1
                                 [] to = "prev" -> p = screen - 1
                                 [] OTHER       -> p = painted}

RenderReturns == render' = NoRender /\ stack' = Tail(stack)

\* navigate(): it runs the event loop too, and when the request is aborted there
\* the position may have changed or not.
Navigate ==
    /\ Within("render") /\ ~render.moved
    /\ \/ /\ ~render.aborted
          /\ screen' \in Target(render.to)
          /\ render' = [render EXCEPT !.moved = TRUE]
          /\ UNCHANGED <<stack, refused>>
       \/ /\ ~render.aborted /\ Target(render.to) = {}
          /\ RenderReturns
          /\ refused' = (refused \/ (render.need /\ state = "playing"))
          /\ UNCHANGED screen
       \/ /\ render.aborted
          /\ screen' \in Target(render.to) \cup {screen}
          /\ RenderReturns
          /\ UNCHANGED refused
    /\ UNCHANGED <<silent, painted, pending, need, shown, speechSound, range, voice>>

\* paintSurface(), updateRenderConf(): the request becomes the configuration, and
\* the page is read if that says so.
PaintSurface ==
    /\ Within("render") /\ render.moved
    /\ RenderReturns
    /\ IF render.aborted
       THEN UNCHANGED <<painted, need, voice>>
       ELSE /\ painted' = screen
            /\ need' = render.need
            /\ voice' = (voice \/ render.need)
    /\ UNCHANGED <<silent, screen, pending, shown, speechSound, range, refused>>

-----------------------------------------------------------------------------
(* NabooView.                                                              *)

IsLocked == render.on

\* Mutant: no page is to be read while one is rendered.
RequestUnlessLocked == voice' = ~IsLocked

RequestPlayingVoice == voice' = TRUE

\* startTTS() from the menu, which has ended the reading by then.
StartTTS ==
    /\ IF shown THEN Quiet("stopped") ELSE UNCHANGED speechSound
    /\ shown' = TRUE /\ RequestPlayingVoice
    /\ UNCHANGED <<speechRender, need, range, stack, refused>>

\* nextScreen(), prevScreen() with ttsGotoPage(): reading goes on when the page is
\* drawn.
TurnScreen(to) ==
    /\ IF state = "playing"
       THEN Quiet("paused") /\ need' = TRUE
       ELSE UNCHANGED <<speechSound, need>>
    /\ Send(to, need')
    /\ UNCHANGED <<shown, range, voice, stack, refused>>

\* resizeEvent(): the page is drawn again.
ResizeEvent ==
    /\ Send("back", need)
    /\ UNCHANGED <<need, shown, speechSound, range, voice, stack, refused>>

\* The single shot of tts_timer_.
PlayVoiceOnCurrentScreen ==
    /\ voice /\ finished = 0 /\ CanSpeak
    /\ \/ /\ ~shown
          /\ voice' = FALSE
          /\ UNCHANGED <<need, speechSound, range, stack, refused>>
       \/ /\ shown /\ IsLocked
          /\ range' = screen /\ RequestPlayingVoice
          /\ UNCHANGED <<need, speechSound, stack, refused>>
       \/ /\ shown /\ ~IsLocked
          /\ voice' = FALSE /\ range' = screen
          /\ \/ /\ screen \notin silent
                /\ Speak("voice") /\ UNCHANGED need
             \/ /\ screen \in silent
                /\ IF AtEnd THEN Quiet("paused") ELSE UNCHANGED speechSound
                /\ need' = FALSE /\ UNCHANGED <<stack, refused>>
    /\ UNCHANGED <<speechRender, shown>>

\* Mutant: the page on the screen is always read.
NeverRead == FALSE

\* Is the page that was read still on the screen?
StillShown == range = screen

\* onTTSPlayFinished(): on to the next page.
OnTTSPlayFinished ==
    /\ finished > 0
    /\ LET reading == shown /\ state = "playing"
       IN  \/ /\ ~reading
              /\ finished' = finished - 1
              /\ UNCHANGED <<speechRender, need, state, voice, players>>
           \/ /\ reading /\ AtEnd
              /\ need' = FALSE
              /\ state' = "paused" /\ players' = 0
              /\ \E cut \in 0..players : finished' = finished - 1 + cut
              /\ UNCHANGED <<speechRender, voice>>
           \/ /\ reading /\ ~AtEnd
              /\ finished' = finished - 1
              /\ \/ /\ StillShown
                    /\ need' = TRUE /\ Send("next", TRUE)
                    /\ UNCHANGED voice
                 \/ /\ ~StillShown
                    /\ RequestPlayingVoice
                    /\ UNCHANGED <<speechRender, need>>
              /\ UNCHANGED <<state, players>>
    /\ UNCHANGED <<shown, range, stack, refused>>

-----------------------------------------------------------------------------
SpeechUser ==
    StartTTS \/ PlayClicked \/ CloseClicked \/ ResizeEvent \/ \E key \in PageKeys : TurnScreen(key)

SpeechReturns == SynthDone \/ Navigate \/ PaintSurface

NextSpeech ==
    \/ SpeechUser \/ SpeechReturns \/ PlayerEnds
    \/ ExecRender \/ PlayVoiceOnCurrentScreen \/ OnTTSPlayFinished

SpecSpeech == InitSpeech /\ [][NextSpeech]_speechVars

\* Handlers return, sounds end, signals arrive and timers fire.
FairSpeech ==
    /\ SpecSpeech
    /\ WF_speechVars(SpeechReturns) /\ WF_speechVars(PlayerEnds)
    /\ WF_speechVars(ExecRender) /\ WF_speechVars(PlayVoiceOnCurrentScreen)
    /\ WF_speechVars(OnTTSPlayFinished)

-----------------------------------------------------------------------------
\* Every variable keeps its shape, and no more than one request waits.
SpeechTypeOK ==
    /\ silent \subseteq Screens
    /\ screen \in Screens /\ painted \in Screens /\ range \in Screens
    /\ Len(pending) <= 1
    /\ pending \in Seq([to : Directions, need : BOOLEAN])
    /\ render \in [on : BOOLEAN, to : Directions, need : BOOLEAN, aborted : BOOLEAN,
                  moved : BOOLEAN]
    /\ need \in BOOLEAN /\ shown \in BOOLEAN /\ voice \in BOOLEAN /\ refused \in BOOLEAN
    /\ state \in {"stopped", "paused", "playing"}
    /\ players \in Nat /\ finished \in Nat
    /\ stack \in Seq({"voice", "click", "render"})

\* Once the user has paused or ended the reading there is no sound any more, and
\* no player that still refers to the deleted Sound: also when it was done in the
\* middle of a synthesis, whose sound is then not played.
QuietWhenNotPlaying == state # "playing" => players = 0

\* What will bring the reading on.
Continues ==
    \/ voice \/ players > 0 \/ finished > 0
    \/ \E i \in DOMAIN stack : stack[i] # "render"
    \/ \E i \in DOMAIN pending : pending[i].need
    \/ render.on /\ render.need /\ ~render.aborted

\* Reading does not fall silent in the middle of the book, whatever is aborted,
\* overtaken or drawn again, but at a page without text.
ReadingGoesOn == state = "playing" => Continues \/ range \in silent \/ refused

\* A reading that is left alone reads on to the end of the book, and is over there.
ReadToTheEnd ==
    <>[][~SpeechUser]_speechVars => <>[](state # "playing" \/ range \in silent \/ refused)

(* Why it ends: a measure which everything but the user's steps uses up.       *)

\* Requests that may lead back to an earlier page.
Astray ==
    (IF pending # <<>> /\ Head(pending).to # "next" THEN 1 ELSE 0)
    + (IF render.on /\ ~render.moved /\ render.to # "next" THEN 1 ELSE 0)

\* The pages that may still be turned to, were every request executed.
PagesLeft == (LastScreen - screen) + (LastScreen + 1) * Astray

\* The texts in the engine: the steps in the event loop but the rendering.
Texts == Len(stack) - (IF render.on THEN 1 ELSE 0)

\* A page to be read again as it is not the one that was read last, or read.
ToRead == IF range # screen THEN (IF voice THEN 9 ELSE 8) ELSE (IF voice THEN 6 ELSE 0)

\* How far a request is.
Drawing ==
    (IF pending = <<>> THEN 0 ELSE 2)
    + (IF ~render.on THEN 0 ELSE IF render.moved THEN 10 ELSE 1)

\* What is left to do to the end of the book.
ReadingLeft ==
    20 * PagesLeft + ToRead + 5 * Texts + 4 * players + 3 * finished + Drawing

\* A reading that is left alone does not go round in circles: every step that is
\* not the user's takes it nearer to the end, although a page may be read twice,
\* a request aborted, and the timer fire in vain while a page is drawn.
ReadingRunsDown == [][SpeechUser \/ ReadingLeft' < ReadingLeft]_speechVars
=============================================================================
