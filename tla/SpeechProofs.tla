----------------------------- MODULE SpeechProofs -----------------------------
(***************************************************************************)
(* Theorems about Speech, for a book of any length with any pages without  *)
(* text, and without a bound on nested steps and on sounds.                *)
(***************************************************************************)
EXTENDS Speech, SequenceTheorems, TLAPS

-----------------------------------------------------------------------------
(* The steps that are inside of each other.                                *)

NestedSteps == {"voice", "click", "render"}

HasVoice(s)  == \E i \in DOMAIN s : s[i] # "render"
HasRender(s) == \E i \in DOMAIN s : s[i] = "render"
OneRender(s) == \A i, j \in DOMAIN s : s[i] = "render" /\ s[j] = "render" => i = j

\* A step begins inside of the others.
LEMMA Begins ==
    ASSUME NEW s \in Seq(NestedSteps), NEW e \in NestedSteps
    PROVE  /\ <<e>> \o s \in Seq(NestedSteps)
           /\ e # "render" \/ HasVoice(s) => HasVoice(<<e>> \o s)
           /\ HasRender(<<e>> \o s) => e = "render" \/ HasRender(s)
           /\ OneRender(s) /\ (e = "render" => ~HasRender(s)) => OneRender(<<e>> \o s)
<1> DEFINE t == <<e>> \o s
<1>1. /\ t \in Seq(NestedSteps) /\ DOMAIN t = 1..Len(s) + 1 /\ DOMAIN s = 1..Len(s)
      /\ Len(s) \in Nat
  OBVIOUS
<1>2. t[1] = e /\ \A i \in 1..Len(s) + 1 : i # 1 => i - 1 \in DOMAIN s /\ t[i] = s[i - 1]
  OBVIOUS
<1>3. \A i \in DOMAIN s : i + 1 \in DOMAIN t /\ t[i + 1] = s[i]
  OBVIOUS
<1> HIDE DEF t
<1>4. e # "render" \/ HasVoice(s) => HasVoice(t)
  BY <1>1, <1>2, <1>3 DEF HasVoice
<1>5. HasRender(t) => e = "render" \/ HasRender(s)
  BY <1>1, <1>2 DEF HasRender
<1>6. ASSUME OneRender(s), e = "render" => ~HasRender(s) PROVE OneRender(t)
  <2> SUFFICES ASSUME NEW i \in DOMAIN t, NEW j \in DOMAIN t, t[i] = "render", t[j] = "render"
               PROVE  i = j
    BY DEF OneRender
  <2>1. CASE i = 1 \/ j = 1
    BY <2>1, <1>1, <1>2, <1>6 DEF HasRender
  <2>2. CASE i # 1 /\ j # 1
    BY <2>2, <1>1, <1>2, <1>6 DEF OneRender
  <2> QED
    BY <2>1, <2>2
<1> QED
  BY <1>1, <1>4, <1>5, <1>6 DEF t

\* The innermost step returns.
LEMMA Returns ==
    ASSUME NEW s \in Seq(NestedSteps), s # <<>>
    PROVE  /\ Tail(s) \in Seq(NestedSteps)
           /\ HasVoice(s) /\ Head(s) = "render" => HasVoice(Tail(s))
           /\ HasRender(Tail(s)) => HasRender(s)
           /\ OneRender(s) => OneRender(Tail(s))
           /\ Head(s) = "render" => HasRender(s)
           /\ OneRender(s) /\ Head(s) = "render" => ~HasRender(Tail(s))
<1> DEFINE t == Tail(s)
<1>1. /\ t \in Seq(NestedSteps) /\ DOMAIN s = 1..Len(s) /\ DOMAIN t = 1..Len(s) - 1
      /\ Len(s) \in Nat \ {0} /\ Head(s) = s[1]
  OBVIOUS
<1>2. \A i \in DOMAIN t : i + 1 \in DOMAIN s /\ t[i] = s[i + 1]
  OBVIOUS
<1>3. \A i \in DOMAIN s : i # 1 => i - 1 \in DOMAIN t /\ t[i - 1] = s[i]
  OBVIOUS
<1> HIDE DEF t
<1>4. HasVoice(s) /\ Head(s) = "render" => HasVoice(t)
  BY <1>1, <1>3 DEF HasVoice
<1>5. (HasRender(t) => HasRender(s)) /\ (Head(s) = "render" => HasRender(s))
  BY <1>1, <1>2 DEF HasRender
<1>6. OneRender(s) => OneRender(t)
  BY <1>1, <1>2 DEF OneRender
<1>7. OneRender(s) /\ Head(s) = "render" => ~HasRender(t)
  BY <1>1, <1>2 DEF OneRender, HasRender
<1> QED
  BY <1>1, <1>4, <1>5, <1>6, <1>7 DEF t

-----------------------------------------------------------------------------
(* The invariant.                                                          *)

\* A rendering that is in the event loop has the request it executes.
RenderHasRequest == OneRender(stack) /\ (HasRender(stack) => render.on)

\* Only a reading that is shown plays.
Visible == state = "playing" => shown

\* A newer request has aborted the one that is executed.
Superseded == render.on /\ pending # <<>> => render.aborted

\* Some request will have the page read when it is painted.
Wanted ==
    \/ \E i \in DOMAIN pending : pending[i].need
    \/ render.on /\ render.need /\ ~render.aborted

\* ReadingGoesOn, where the configuration also knows of the request: a later
\* request, which copies it, will then have the page read, too.
GoesOn ==
    state = "playing" =>
        \/ voice \/ players > 0 \/ finished > 0 \/ HasVoice(stack)
        \/ need /\ Wanted
        \/ range \in silent \/ refused

SpeechInv ==
    /\ SpeechTypeOK /\ QuietWhenNotPlaying /\ RenderHasRequest
    /\ Visible /\ Superseded /\ GoesOn

\* The invariant says what the properties say.
LEMMA InvariantIsEnough == SpeechInv => ReadingGoesOn
  BY DEF SpeechInv, GoesOn, ReadingGoesOn, Continues, Wanted, HasVoice

\* It holds at the start.
LEMMA SpeechStarts == InitSpeech => SpeechInv
<1> SUFFICES ASSUME InitSpeech PROVE SpeechInv
  OBVIOUS
<1> USE DEF InitSpeech
<1>1. stack = <<>> /\ stack \in Seq(NestedSteps) /\ DOMAIN stack = {}
  <2>1. DOMAIN <<>> = {}
    OBVIOUS
  <2> QED
    BY <2>1
<1>2. RenderHasRequest
  BY <1>1 DEF RenderHasRequest, OneRender, HasRender
<1>3. silent \subseteq Screens
  BY SpeechAssumption DEF Screens
<1>4. pending \in Seq([to : Directions, need : BOOLEAN]) /\ Len(pending) <= 1
  <2>1. <<>> \in Seq([to : Directions, need : BOOLEAN]) /\ Len(<<>>) = 0
    OBVIOUS
  <2> QED
    BY <2>1
<1>5. render \in [on : BOOLEAN, to : Directions, need : BOOLEAN, aborted : BOOLEAN,
                  moved : BOOLEAN]
  BY DEF NoRender, Directions
<1>6. SpeechTypeOK
  BY <1>1, <1>3, <1>4, <1>5 DEF SpeechTypeOK, NestedSteps
<1> QED
  BY <1>2, <1>6 DEF SpeechInv, QuietWhenNotPlaying, Visible, Superseded, GoesOn, NoRender

\* When reading is paused or stopped, the number of sounds stays a number.
LEMMA Quieted ==
    ASSUME SpeechTypeOK, NEW to \in {"stopped", "paused"}, Quiet(to)
    PROVE  state' = to /\ players' = 0 /\ finished' \in Nat
  BY DEF SpeechTypeOK, Quiet

\* The request that is sent is the only one, and the executed one is aborted.
LEMMA Sent ==
    ASSUME SpeechTypeOK, NEW to \in Directions, NEW play \in BOOLEAN, Send(to, play)
    PROVE  /\ Len(pending') <= 1 /\ pending' \in Seq([to : Directions, need : BOOLEAN])
           /\ DOMAIN pending' = {1} /\ pending'[1].need = play
           /\ render' \in [on : BOOLEAN, to : Directions, need : BOOLEAN, aborted : BOOLEAN,
                           moved : BOOLEAN]
           /\ render'.on = render.on /\ (render.on => render'.aborted)
           /\ UNCHANGED <<silent, screen, painted>>
<1>1. pending' = <<[to |-> to, need |-> play]>>
  BY DEF Send, Queued
<1>2. DOMAIN pending' = {1} /\ pending'[1].need = play /\ Len(pending') = 1
  BY <1>1
<1>3. pending' \in Seq([to : Directions, need : BOOLEAN])
  BY <1>1
<1> QED
  BY <1>2, <1>3 DEF Send, SpeechTypeOK

\* The invariant only speaks of the variables.
LEMMA SpeechStutters == SpeechInv /\ UNCHANGED speechVars => SpeechInv'
  BY DEF SpeechInv, speechVars, SpeechTypeOK, QuietWhenNotPlaying, RenderHasRequest,
     Visible, Superseded, GoesOn, Wanted, HasVoice, HasRender, OneRender

-----------------------------------------------------------------------------
(* One lemma for each action.                                              *)

\* TTS and its widget.
LEMMA SynthDonePreserves == SpeechInv /\ SynthDone => SpeechInv'
<1> SUFFICES ASSUME SpeechInv, SynthDone PROVE SpeechInv'
  OBVIOUS
<1> USE DEF SpeechInv
<1>1. stack \in Seq(NestedSteps) /\ stack # <<>> /\ stack' = Tail(stack)
  BY DEF SpeechTypeOK, NestedSteps, SynthDone, Within
<1>2. /\ stack' \in Seq(NestedSteps)
      /\ OneRender(stack) => OneRender(stack')
      /\ HasRender(stack') => HasRender(stack)
  BY <1>1, Returns
<1>3. players' \in Nat /\ (state = "playing" => players' > 0) /\ (state # "playing" => players' = players)
  BY DEF SynthDone, Plays, SpeechTypeOK
<1>4. /\ UNCHANGED <<silent, screen, painted, pending, render>>
      /\ UNCHANGED <<shown, state, range, voice, finished, refused>> /\ need' \in BOOLEAN
  BY DEF SynthDone, speechRender, SpeechTypeOK
<1>5. SpeechTypeOK' /\ QuietWhenNotPlaying'
  BY <1>2, <1>3, <1>4 DEF SpeechTypeOK, QuietWhenNotPlaying, NestedSteps
<1>6. RenderHasRequest'
  BY <1>2, <1>4 DEF RenderHasRequest, OneRender, HasRender
<1>7. Visible' /\ Superseded' /\ GoesOn'
  BY <1>3, <1>4 DEF Visible, Superseded, GoesOn
<1> QED
  BY <1>5, <1>6, <1>7

LEMMA PlayerEndsPreserves == SpeechInv /\ PlayerEnds => SpeechInv'
<1> SUFFICES ASSUME SpeechInv, PlayerEnds PROVE SpeechInv'
  OBVIOUS
<1> USE DEF SpeechInv
<1>1. /\ players > 0 /\ players' = players - 1 /\ finished' = finished + 1
      /\ players \in Nat /\ finished \in Nat
      /\ UNCHANGED <<silent, screen, painted, pending, render, need, shown, state, range,
                     voice, stack, refused>>
  BY DEF PlayerEnds, speechRender, SpeechTypeOK
<1>2. SpeechTypeOK'
  BY <1>1 DEF SpeechTypeOK
<1>3. QuietWhenNotPlaying' /\ finished' > 0
  BY <1>1 DEF QuietWhenNotPlaying
<1>4. RenderHasRequest' /\ Visible' /\ Superseded'
  BY <1>1 DEF RenderHasRequest, OneRender, HasRender, Visible, Superseded
<1> QED
  BY <1>2, <1>3, <1>4 DEF GoesOn

LEMMA PlayClickedPreserves == SpeechInv /\ PlayClicked => SpeechInv'
<1> SUFFICES ASSUME SpeechInv, PlayClicked PROVE SpeechInv'
  OBVIOUS
<1> USE DEF SpeechInv
<1>1. /\ shown
      /\ UNCHANGED <<silent, screen, painted, pending, render, need, shown, range, voice>>
  BY DEF PlayClicked, speechRender
<1>2. CASE Quiet("paused") /\ UNCHANGED <<stack, refused>>
  <2>1. state' = "paused" /\ players' = 0 /\ finished' \in Nat
    BY <1>2, Quieted
  <2>2. SpeechTypeOK'
    BY <1>1, <1>2, <2>1 DEF SpeechTypeOK
  <2>3. RenderHasRequest' /\ Superseded'
    BY <1>1, <1>2 DEF RenderHasRequest, OneRender, HasRender, Superseded
  <2> QED
    BY <2>1, <2>2, <2>3 DEF QuietWhenNotPlaying, Visible, GoesOn
<1>3. CASE Speak("click")
  <2>1. /\ state' = "playing" /\ stack' = <<"click">> \o stack /\ refused' = FALSE
        /\ UNCHANGED <<players, finished>> /\ stack \in Seq(NestedSteps)
    BY <1>3 DEF Speak, SpeechTypeOK, NestedSteps
  <2>2. /\ stack' \in Seq(NestedSteps) /\ HasVoice(stack')
        /\ HasRender(stack') => HasRender(stack)
        /\ OneRender(stack) => OneRender(stack')
    BY <2>1, Begins DEF NestedSteps
  <2>3. SpeechTypeOK'
    BY <1>1, <2>1, <2>2 DEF SpeechTypeOK, NestedSteps
  <2>4. RenderHasRequest' /\ Superseded'
    BY <1>1, <2>2 DEF RenderHasRequest, OneRender, HasRender, Superseded
  <2>5. GoesOn'
    BY <2>2 DEF GoesOn, HasVoice
  <2> QED
    BY <1>1, <2>1, <2>3, <2>4, <2>5 DEF QuietWhenNotPlaying, Visible
<1> QED
  BY <1>2, <1>3 DEF PlayClicked

LEMMA CloseClickedPreserves == SpeechInv /\ CloseClicked => SpeechInv'
<1> SUFFICES ASSUME SpeechInv, CloseClicked PROVE SpeechInv'
  OBVIOUS
<1> USE DEF SpeechInv
<1>1. /\ shown' = FALSE /\ Quiet("stopped")
      /\ UNCHANGED <<silent, screen, painted, pending, render, need, range, voice, stack, refused>>
  BY DEF CloseClicked, speechRender
<1>2. state' = "stopped" /\ players' = 0 /\ finished' \in Nat
  BY <1>1, Quieted
<1>3. SpeechTypeOK'
  BY <1>1, <1>2 DEF SpeechTypeOK
<1>4. RenderHasRequest' /\ Superseded'
  BY <1>1 DEF RenderHasRequest, OneRender, HasRender, Superseded
<1> QED
  BY <1>2, <1>3, <1>4 DEF QuietWhenNotPlaying, Visible, GoesOn

\* The renderer.
LEMMA ExecRenderPreserves == SpeechInv /\ ExecRender => SpeechInv'
<1> SUFFICES ASSUME SpeechInv, ExecRender PROVE SpeechInv'
  OBVIOUS
<1> USE DEF SpeechInv
<1>1. /\ pending # <<>> /\ ~render.on /\ pending' = <<>> /\ stack' = <<"render">> \o stack
      /\ render' = [NoRender EXCEPT !.on = TRUE, !.to = Head(pending).to,
                                    !.need = Head(pending).need]
      /\ UNCHANGED <<silent, screen, painted, need, shown, state, players, finished, range,
                     voice, refused>>
  BY DEF ExecRender, speechSound
<1>2. /\ pending \in Seq([to : Directions, need : BOOLEAN]) /\ Len(pending) <= 1
      /\ stack \in Seq(NestedSteps)
  BY DEF SpeechTypeOK, NestedSteps
<1>3. /\ Head(pending) \in [to : Directions, need : BOOLEAN]
      /\ \A i \in DOMAIN pending : pending[i] = Head(pending)
  <2>1. DOMAIN pending = {1} /\ Head(pending) = pending[1]
    BY <1>1, <1>2
  <2>2. pending[1] \in [to : Directions, need : BOOLEAN]
    BY <1>2, <2>1, 1 \in DOMAIN pending, ElementOfSeq, DOMAIN pending = 1..Len(pending)
  <2> QED
    BY <2>1, <2>2
<1>4. /\ stack' \in Seq(NestedSteps) /\ (HasVoice(stack) => HasVoice(stack'))
      /\ OneRender(stack')
  BY <1>1, <1>2, Begins DEF NestedSteps, RenderHasRequest
<1>5. /\ render' \in [on : BOOLEAN, to : Directions, need : BOOLEAN, aborted : BOOLEAN,
                      moved : BOOLEAN]
      /\ render'.on /\ render'.need = Head(pending).need /\ ~render'.aborted
  BY <1>1, <1>3 DEF NoRender
<1>6. pending' \in Seq([to : Directions, need : BOOLEAN]) /\ Len(pending') <= 1
  BY <1>1
<1>7. SpeechTypeOK'
  BY <1>1, <1>4, <1>5, <1>6 DEF SpeechTypeOK, NestedSteps
<1>8. RenderHasRequest' /\ Superseded'
  BY <1>1, <1>4, <1>5 DEF RenderHasRequest, OneRender, HasRender, Superseded
<1>9. Wanted => Wanted'
  BY <1>1, <1>3, <1>5 DEF Wanted
<1>10. GoesOn'
  BY <1>1, <1>4, <1>9 DEF GoesOn, HasVoice
<1> QED
  BY <1>1, <1>7, <1>8, <1>10 DEF QuietWhenNotPlaying, Visible

LEMMA NavigatePreserves == SpeechInv /\ Navigate => SpeechInv'
<1> SUFFICES ASSUME SpeechInv, Navigate PROVE SpeechInv'
  OBVIOUS
<1> USE DEF SpeechInv
<1>1. /\ stack # <<>> /\ Head(stack) = "render" /\ stack \in Seq(NestedSteps)
      /\ UNCHANGED <<silent, painted, pending, need, shown, state, players, finished, range,
                     voice>>
  BY DEF Navigate, Within, speechSound, SpeechTypeOK, NestedSteps
<1>2. screen' \in Screens
  BY DEF Navigate, Target, SpeechTypeOK
<1>3. CASE ~render.aborted /\ render' = [render EXCEPT !.moved = TRUE] /\ UNCHANGED <<stack, refused>>
  <2>1. /\ render' \in [on : BOOLEAN, to : Directions, need : BOOLEAN, aborted : BOOLEAN,
                        moved : BOOLEAN]
        /\ render'.on = render.on /\ render'.need = render.need
        /\ render'.aborted = render.aborted
    BY <1>3 DEF SpeechTypeOK
  <2>2. SpeechTypeOK'
    BY <1>1, <1>2, <1>3, <2>1 DEF SpeechTypeOK
  <2>3. RenderHasRequest' /\ Superseded' /\ Wanted' = Wanted
    BY <1>1, <1>3, <2>1 DEF RenderHasRequest, OneRender, HasRender, Superseded, Wanted
  <2>4. GoesOn'
    BY <1>1, <1>3, <2>3 DEF GoesOn, HasVoice
  <2> QED
    BY <1>1, <2>2, <2>3, <2>4 DEF QuietWhenNotPlaying, Visible
<1>4. CASE /\ RenderReturns
           /\ render.aborted \/ refused' = (refused \/ (render.need /\ state = "playing"))
           /\ refused' = refused \/ ~render.aborted
  <2>1. /\ stack' \in Seq(NestedSteps) /\ (HasVoice(stack) => HasVoice(stack'))
        /\ OneRender(stack') /\ ~HasRender(stack')
    BY <1>1, <1>4, Returns DEF RenderReturns, RenderHasRequest
  <2>2. refused' \in BOOLEAN /\ (refused => refused')
    BY <1>4 DEF SpeechTypeOK
  <2>3. /\ render' \in [on : BOOLEAN, to : Directions, need : BOOLEAN, aborted : BOOLEAN,
                        moved : BOOLEAN]
        /\ ~render'.on
    BY <1>4 DEF RenderReturns, NoRender, Directions
  <2>4. SpeechTypeOK'
    BY <1>1, <1>2, <2>1, <2>2, <2>3 DEF SpeechTypeOK, NestedSteps
  <2>5. RenderHasRequest' /\ Superseded'
    BY <2>1, <2>3 DEF RenderHasRequest, OneRender, HasRender, Superseded
  <2>6. Wanted /\ state = "playing" => Wanted' \/ refused'
    BY <1>1, <1>4 DEF Wanted
  <2>7. GoesOn'
    BY <1>1, <2>1, <2>2, <2>6 DEF GoesOn, HasVoice
  <2> QED
    BY <1>1, <2>4, <2>5, <2>7 DEF QuietWhenNotPlaying, Visible
<1> QED
  BY <1>3, <1>4 DEF Navigate

LEMMA PaintSurfacePreserves == SpeechInv /\ PaintSurface => SpeechInv'
<1> SUFFICES ASSUME SpeechInv, PaintSurface PROVE SpeechInv'
  OBVIOUS
<1> USE DEF SpeechInv
<1>1. /\ stack # <<>> /\ Head(stack) = "render" /\ stack \in Seq(NestedSteps) /\ RenderReturns
      /\ UNCHANGED <<silent, screen, pending, shown, state, players, finished, range, refused>>
  BY DEF PaintSurface, Within, speechSound, SpeechTypeOK, NestedSteps
<1>2. /\ painted' \in Screens /\ need' \in BOOLEAN /\ voice' \in BOOLEAN /\ (voice => voice')
      /\ render.aborted => UNCHANGED <<need, voice>>
      /\ ~render.aborted => voice' = (voice \/ render.need)
  BY DEF PaintSurface, SpeechTypeOK
<1>3. /\ stack' \in Seq(NestedSteps) /\ (HasVoice(stack) => HasVoice(stack'))
      /\ OneRender(stack') /\ ~HasRender(stack') /\ render.on
  BY <1>1, Returns DEF RenderReturns, RenderHasRequest
<1>4. /\ render' \in [on : BOOLEAN, to : Directions, need : BOOLEAN, aborted : BOOLEAN,
                      moved : BOOLEAN]
      /\ ~render'.on
  BY <1>1 DEF RenderReturns, NoRender, Directions
<1>5. SpeechTypeOK'
  BY <1>1, <1>2, <1>3, <1>4 DEF SpeechTypeOK, NestedSteps
<1>6. RenderHasRequest' /\ Superseded'
  BY <1>3, <1>4 DEF RenderHasRequest, OneRender, HasRender, Superseded
<1>7. need /\ Wanted => voice' \/ (need' /\ Wanted')
  <2>1. CASE render.aborted
    BY <2>1, <1>1, <1>2 DEF Wanted
  <2>2. CASE ~render.aborted
    <3>1. pending = <<>>
      BY <2>2, <1>3 DEF Superseded
    <3>2. ~\E i \in DOMAIN pending : pending[i].need
      BY <3>1
    <3> QED
      BY <2>2, <3>2, <1>2 DEF Wanted
  <2> QED
    BY <2>1, <2>2
<1>8. GoesOn'
  BY <1>1, <1>2, <1>3, <1>7 DEF GoesOn, HasVoice
<1> QED
  BY <1>1, <1>5, <1>6, <1>8 DEF QuietWhenNotPlaying, Visible

\* The view.
LEMMA StartTTSPreserves == SpeechInv /\ StartTTS => SpeechInv'
<1> SUFFICES ASSUME SpeechInv, StartTTS PROVE SpeechInv'
  OBVIOUS
<1> USE DEF SpeechInv
<1>1. /\ shown' = TRUE /\ voice' = TRUE
      /\ UNCHANGED <<silent, screen, painted, pending, render, need, range, stack, refused>>
  BY DEF StartTTS, RequestPlayingVoice, speechRender
<1>2. /\ state' \in {"stopped", "paused", "playing"} /\ players' \in Nat /\ finished' \in Nat
      /\ state' # "playing" => players' = 0
  <2>1. CASE shown
    <3>1. Quiet("stopped")
      BY <2>1 DEF StartTTS
    <3> QED
      BY <3>1, Quieted
  <2>2. CASE ~shown
    BY <2>2 DEF StartTTS, speechSound, SpeechTypeOK, QuietWhenNotPlaying
  <2> QED
    BY <2>1, <2>2
<1>3. SpeechTypeOK'
  BY <1>1, <1>2 DEF SpeechTypeOK
<1>4. RenderHasRequest' /\ Superseded'
  BY <1>1 DEF RenderHasRequest, OneRender, HasRender, Superseded
<1> QED
  BY <1>1, <1>2, <1>3, <1>4 DEF QuietWhenNotPlaying, Visible, GoesOn

LEMMA TurnScreenPreserves ==
    ASSUME SpeechInv, NEW key \in PageKeys, TurnScreen(key) PROVE SpeechInv'
<1> USE DEF SpeechInv
<1>1. UNCHANGED <<shown, range, voice, stack, refused>> /\ Send(key, need') /\ key \in Directions
  BY SpeechAssumption DEF TurnScreen, Directions
<1>2. /\ state' \in {"stopped", "paused"} /\ players' = 0 /\ finished' \in Nat
      /\ need' \in BOOLEAN
  <2>1. CASE state = "playing"
    <3>1. Quiet("paused") /\ need' = TRUE
      BY <2>1 DEF TurnScreen
    <3> QED
      BY <3>1, Quieted
  <2>2. CASE state # "playing"
    BY <2>2 DEF TurnScreen, speechSound, SpeechTypeOK, QuietWhenNotPlaying
  <2> QED
    BY <2>1, <2>2
<1>3. /\ Len(pending') <= 1 /\ pending' \in Seq([to : Directions, need : BOOLEAN])
      /\ render' \in [on : BOOLEAN, to : Directions, need : BOOLEAN, aborted : BOOLEAN,
                      moved : BOOLEAN]
      /\ render'.on = render.on /\ (render.on => render'.aborted)
      /\ UNCHANGED <<silent, screen, painted>>
  BY <1>1, <1>2, Sent
<1>4. SpeechTypeOK'
  BY <1>1, <1>2, <1>3 DEF SpeechTypeOK
<1>5. RenderHasRequest' /\ Superseded'
  BY <1>1, <1>3 DEF RenderHasRequest, OneRender, HasRender, Superseded
<1> QED
  BY <1>2, <1>4, <1>5 DEF QuietWhenNotPlaying, Visible, GoesOn

LEMMA ResizeEventPreserves == SpeechInv /\ ResizeEvent => SpeechInv'
<1> SUFFICES ASSUME SpeechInv, ResizeEvent PROVE SpeechInv'
  OBVIOUS
<1> USE DEF SpeechInv
<1>1. /\ Send("back", need) /\ need \in BOOLEAN /\ "back" \in Directions
      /\ UNCHANGED <<need, shown, state, players, finished, range, voice, stack, refused>>
  BY DEF ResizeEvent, speechSound, SpeechTypeOK, Directions
<1>2. /\ Len(pending') <= 1 /\ pending' \in Seq([to : Directions, need : BOOLEAN])
      /\ DOMAIN pending' = {1} /\ pending'[1].need = need
      /\ render' \in [on : BOOLEAN, to : Directions, need : BOOLEAN, aborted : BOOLEAN,
                      moved : BOOLEAN]
      /\ render'.on = render.on /\ (render.on => render'.aborted)
      /\ UNCHANGED <<silent, screen, painted>>
  BY <1>1, Sent
<1>3. SpeechTypeOK'
  BY <1>1, <1>2 DEF SpeechTypeOK
<1>4. RenderHasRequest' /\ Superseded'
  BY <1>1, <1>2 DEF RenderHasRequest, OneRender, HasRender, Superseded
<1>5. need => need' /\ Wanted'
  BY <1>1, <1>2 DEF Wanted
<1>6. GoesOn'
  BY <1>1, <1>2, <1>5 DEF GoesOn, HasVoice
<1> QED
  BY <1>1, <1>3, <1>4, <1>6 DEF QuietWhenNotPlaying, Visible

LEMMA PlayVoicePreserves == SpeechInv /\ PlayVoiceOnCurrentScreen => SpeechInv'
<1> SUFFICES ASSUME SpeechInv, PlayVoiceOnCurrentScreen PROVE SpeechInv'
  OBVIOUS
<1> USE DEF SpeechInv
<1>1. UNCHANGED <<silent, screen, painted, pending, render, shown>> /\ stack \in Seq(NestedSteps)
  BY DEF PlayVoiceOnCurrentScreen, speechRender, SpeechTypeOK, NestedSteps
<1>2. CASE /\ ~shown /\ voice' = FALSE
           /\ UNCHANGED <<need, speechSound, range, stack, refused>>
  <2>1. UNCHANGED <<state, players, finished>>
    BY <1>2 DEF speechSound
  <2>2. SpeechTypeOK' /\ QuietWhenNotPlaying' /\ Visible'
    BY <1>1, <1>2, <2>1 DEF SpeechTypeOK, QuietWhenNotPlaying, Visible
  <2>3. RenderHasRequest' /\ Superseded'
    BY <1>1, <1>2 DEF RenderHasRequest, OneRender, HasRender, Superseded
  <2> QED
    BY <1>2, <2>1, <2>2, <2>3 DEF Visible, GoesOn
<1>3. CASE /\ range' = screen /\ RequestPlayingVoice
           /\ UNCHANGED <<need, speechSound, stack, refused>>
  <2>1. voice' = TRUE /\ UNCHANGED <<state, players, finished>>
    BY <1>3 DEF speechSound, RequestPlayingVoice
  <2>2. SpeechTypeOK' /\ QuietWhenNotPlaying' /\ Visible'
    BY <1>1, <1>3, <2>1 DEF SpeechTypeOK, QuietWhenNotPlaying, Visible
  <2>3. RenderHasRequest' /\ Superseded'
    BY <1>1, <1>3 DEF RenderHasRequest, OneRender, HasRender, Superseded
  <2> QED
    BY <2>1, <2>2, <2>3 DEF GoesOn
<1>4. CASE shown /\ voice' = FALSE /\ range' = screen /\ Speak("voice") /\ UNCHANGED need
  <2>1. /\ state' = "playing" /\ stack' = <<"voice">> \o stack /\ refused' = FALSE
        /\ UNCHANGED <<players, finished>>
    BY <1>4 DEF Speak
  <2>2. /\ stack' \in Seq(NestedSteps) /\ HasVoice(stack')
        /\ HasRender(stack') => HasRender(stack)
        /\ OneRender(stack) => OneRender(stack')
    BY <1>1, <2>1, Begins DEF NestedSteps
  <2>3. SpeechTypeOK'
    BY <1>1, <1>4, <2>1, <2>2 DEF SpeechTypeOK, NestedSteps
  <2>4. RenderHasRequest' /\ Superseded'
    BY <1>1, <2>2 DEF RenderHasRequest, OneRender, HasRender, Superseded
  <2>5. GoesOn'
    BY <2>2 DEF GoesOn, HasVoice
  <2> QED
    BY <1>1, <1>4, <2>1, <2>3, <2>4, <2>5 DEF QuietWhenNotPlaying, Visible
<1>5. CASE /\ voice' = FALSE /\ range' = screen /\ screen \in silent
           /\ IF AtEnd THEN Quiet("paused") ELSE UNCHANGED speechSound
           /\ need' = FALSE /\ UNCHANGED <<stack, refused>>
  <2>1. /\ state' \in {state, "paused"} /\ players' \in Nat /\ finished' \in Nat
        /\ state' # "playing" => players' = 0
    <3>1. CASE AtEnd
      <4>1. Quiet("paused")
        BY <1>5, <3>1
      <4> QED
        BY <4>1, Quieted
    <3>2. CASE ~AtEnd
      BY <1>5, <3>2 DEF speechSound, SpeechTypeOK, QuietWhenNotPlaying
    <3> QED
      BY <3>1, <3>2
  <2>2. SpeechTypeOK'
    BY <1>1, <1>5, <2>1 DEF SpeechTypeOK
  <2>3. RenderHasRequest' /\ Superseded'
    BY <1>1, <1>5 DEF RenderHasRequest, OneRender, HasRender, Superseded
  <2> QED
    BY <1>1, <1>5, <2>1, <2>2, <2>3 DEF QuietWhenNotPlaying, Visible, GoesOn
<1> QED
  BY <1>2, <1>3, <1>4, <1>5 DEF PlayVoiceOnCurrentScreen

LEMMA PlayFinishedPreserves == SpeechInv /\ OnTTSPlayFinished => SpeechInv'
<1> SUFFICES ASSUME SpeechInv, OnTTSPlayFinished PROVE SpeechInv'
  OBVIOUS
<1> USE DEF SpeechInv
<1>1. /\ finished > 0 /\ finished \in Nat /\ players \in Nat
      /\ UNCHANGED <<shown, range, stack, refused>>
  BY DEF OnTTSPlayFinished, SpeechTypeOK
<1>2. CASE /\ ~(shown /\ state = "playing") /\ finished' = finished - 1
           /\ UNCHANGED <<speechRender, need, state, voice, players>>
  <2>1. UNCHANGED <<silent, screen, painted, pending, render>> /\ state # "playing"
    BY <1>2 DEF speechRender, Visible
  <2>2. SpeechTypeOK'
    BY <1>1, <1>2, <2>1 DEF SpeechTypeOK
  <2>3. RenderHasRequest' /\ Superseded'
    BY <1>1, <1>2, <2>1 DEF RenderHasRequest, OneRender, HasRender, Superseded
  <2> QED
    BY <1>2, <2>1, <2>2, <2>3 DEF QuietWhenNotPlaying, Visible, GoesOn
<1>3. CASE /\ need' = FALSE /\ state' = "paused" /\ players' = 0
           /\ \E cut \in 0..players : finished' = finished - 1 + cut
           /\ UNCHANGED <<speechRender, voice>>
  <2>1. UNCHANGED <<silent, screen, painted, pending, render>> /\ finished' \in Nat
    BY <1>1, <1>3 DEF speechRender
  <2>2. SpeechTypeOK'
    BY <1>1, <1>3, <2>1 DEF SpeechTypeOK
  <2>3. RenderHasRequest' /\ Superseded'
    BY <1>1, <1>3, <2>1 DEF RenderHasRequest, OneRender, HasRender, Superseded
  <2> QED
    BY <1>3, <2>2, <2>3 DEF QuietWhenNotPlaying, Visible, GoesOn
<1>4. CASE /\ shown /\ finished' = finished - 1 /\ UNCHANGED <<state, players>>
           /\ need' = TRUE /\ Send("next", TRUE) /\ UNCHANGED voice
  <2>1. /\ Len(pending') <= 1 /\ pending' \in Seq([to : Directions, need : BOOLEAN])
        /\ DOMAIN pending' = {1} /\ pending'[1].need = TRUE
        /\ render' \in [on : BOOLEAN, to : Directions, need : BOOLEAN, aborted : BOOLEAN,
                        moved : BOOLEAN]
        /\ render'.on = render.on /\ (render.on => render'.aborted)
        /\ UNCHANGED <<silent, screen, painted>>
    <3>1. "next" \in Directions /\ TRUE \in BOOLEAN
      BY DEF Directions
    <3> QED
      BY <1>4, <3>1, Sent
  <2>2. SpeechTypeOK'
    BY <1>1, <1>4, <2>1 DEF SpeechTypeOK
  <2>3. RenderHasRequest' /\ Superseded'
    BY <1>1, <2>1 DEF RenderHasRequest, OneRender, HasRender, Superseded
  <2>4. Wanted'
    BY <2>1 DEF Wanted
  <2>5. GoesOn'
    BY <1>4, <2>4 DEF GoesOn
  <2> QED
    BY <1>1, <1>4, <2>2, <2>3, <2>5 DEF QuietWhenNotPlaying, Visible
<1>5. CASE /\ shown /\ finished' = finished - 1 /\ UNCHANGED <<state, players>>
           /\ RequestPlayingVoice /\ UNCHANGED <<speechRender, need>>
  <2>1. UNCHANGED <<silent, screen, painted, pending, render>> /\ voice' = TRUE
    BY <1>5 DEF speechRender, RequestPlayingVoice
  <2>2. SpeechTypeOK'
    BY <1>1, <1>5, <2>1 DEF SpeechTypeOK
  <2>3. RenderHasRequest' /\ Superseded'
    BY <1>1, <2>1 DEF RenderHasRequest, OneRender, HasRender, Superseded
  <2> QED
    BY <1>1, <1>5, <2>1, <2>2, <2>3 DEF QuietWhenNotPlaying, Visible, GoesOn
<1> QED
  BY <1>2, <1>3, <1>4, <1>5 DEF OnTTSPlayFinished

\* Every step keeps the invariant.
LEMMA SpeechSteps == SpeechInv /\ [NextSpeech]_speechVars => SpeechInv'
<1> SUFFICES ASSUME SpeechInv, [NextSpeech]_speechVars PROVE SpeechInv'
  OBVIOUS
<1>1. CASE SpeechUser
  BY <1>1, StartTTSPreserves, PlayClickedPreserves, CloseClickedPreserves,
     ResizeEventPreserves, TurnScreenPreserves DEF SpeechUser
<1>2. CASE SpeechReturns
  BY <1>2, SynthDonePreserves, NavigatePreserves, PaintSurfacePreserves DEF SpeechReturns
<1>3. CASE UNCHANGED speechVars
  BY <1>3, SpeechStutters
<1> QED
  BY <1>1, <1>2, <1>3, PlayerEndsPreserves, ExecRenderPreserves, PlayVoicePreserves,
     PlayFinishedPreserves DEF NextSpeech

-----------------------------------------------------------------------------
(* The theorems.                                                           *)

LEMMA SpeechInvAlways == SpecSpeech => []SpeechInv
  BY SpeechStarts, SpeechSteps, PTL DEF SpecSpeech

\* Every variable keeps its shape, and never more than one request waits for the
\* renderer.
THEOREM SpeechIsWellTyped == SpecSpeech => []SpeechTypeOK
<1>1. SpeechInv => SpeechTypeOK
  BY DEF SpeechInv
<1> QED
  BY <1>1, SpeechInvAlways, PTL

\* After pause and close no sound is played, however deep the steps are nested
\* that are in the middle of a synthesis.
THEOREM PausedIsQuiet == SpecSpeech => []QuietWhenNotPlaying
<1>1. SpeechInv => QuietWhenNotPlaying
  BY DEF SpeechInv
<1> QED
  BY <1>1, SpeechInvAlways, PTL

\* In a book of any length a reading always has something that brings it on: a
\* timer, a sound, a report, a synthesis or a request that will have a page read.
THEOREM ReadingDoesNotStall == SpecSpeech => []ReadingGoesOn
  BY InvariantIsEnough, SpeechInvAlways, PTL

-----------------------------------------------------------------------------
(* A reading that is left alone comes to its end.                          *)

\* A request is executed only by a rendering that has not returned.
Executed == render.on => HasRender(stack)

\* An inner step leaves the rendering that it is inside of.
LEMMA StillRendering ==
    ASSUME NEW s \in Seq(NestedSteps), NEW e \in NestedSteps
    PROVE  /\ HasRender(s) => HasRender(<<e>> \o s)
           /\ HasRender(<<"render">> \o s)
           /\ s # <<>> /\ HasRender(s) /\ Head(s) # "render" => HasRender(Tail(s))
<1>1. /\ DOMAIN (<<e>> \o s) = 1..Len(s) + 1 /\ DOMAIN s = 1..Len(s) /\ Len(s) \in Nat
      /\ \A i \in DOMAIN s : i + 1 \in DOMAIN (<<e>> \o s) /\ (<<e>> \o s)[i + 1] = s[i]
  OBVIOUS
<1>2. 1 \in DOMAIN (<<"render">> \o s) /\ (<<"render">> \o s)[1] = "render"
  OBVIOUS
<1>3. s # <<>> => \A i \in DOMAIN s : s[i] # Head(s) => i - 1 \in DOMAIN Tail(s) /\ Tail(s)[i - 1] = s[i]
  OBVIOUS
<1>4. HasRender(s) => HasRender(<<e>> \o s)
  BY <1>1 DEF HasRender
<1>5. HasRender(<<"render">> \o s)
  BY <1>2 DEF HasRender
<1>6. s # <<>> /\ HasRender(s) /\ Head(s) # "render" => HasRender(Tail(s))
  BY <1>3 DEF HasRender
<1> QED
  BY <1>4, <1>5, <1>6

LEMMA ExecutedAlways == SpecSpeech => []Executed
<1>1. InitSpeech => Executed
  BY DEF InitSpeech, NoRender, Executed
<1>2. ASSUME SpeechInv, Executed, [NextSpeech]_speechVars PROVE Executed'
  <2>1. stack \in Seq(NestedSteps)
    BY <1>2 DEF SpeechInv, SpeechTypeOK, NestedSteps
  <2>2. CASE SynthDone
    BY <1>2, <2>1, <2>2, StillRendering DEF SynthDone, Within, speechRender, Executed, NestedSteps
  <2>3. CASE ExecRender
    BY <2>1, <2>3, StillRendering DEF ExecRender, Executed, NestedSteps
  <2>4. CASE Navigate \/ PaintSurface
    <3>1. (stack' = stack /\ render'.on = render.on) \/ ~render'.on
      BY <1>2, <2>4 DEF Navigate, PaintSurface, RenderReturns, NoRender, SpeechInv, SpeechTypeOK
    <3> QED
      BY <1>2, <3>1 DEF Executed
  <2>5. CASE PlayClicked \/ PlayVoiceOnCurrentScreen
    <3>1. render' = render /\ \/ stack' = stack
                              \/ \E e \in {"voice", "click"} : stack' = <<e>> \o stack
      BY <2>5 DEF PlayClicked, PlayVoiceOnCurrentScreen, Speak, speechRender
    <3> QED
      BY <1>2, <2>1, <3>1, StillRendering DEF Executed, NestedSteps
  <2>6. CASE \/ StartTTS \/ CloseClicked \/ ResizeEvent \/ \E key \in PageKeys : TurnScreen(key)
             \/ PlayerEnds \/ OnTTSPlayFinished \/ UNCHANGED speechVars
    <3>1. stack' = stack /\ render'.on = render.on
      BY <1>2, <2>6 DEF StartTTS, CloseClicked, ResizeEvent, TurnScreen, Send, PlayerEnds,
         OnTTSPlayFinished, speechRender, speechVars, SpeechInv, SpeechTypeOK
    <3> QED
      BY <1>2, <3>1 DEF Executed
  <2> QED
    BY <1>2, <2>2, <2>3, <2>4, <2>5, <2>6 DEF NextSpeech, SpeechUser, SpeechReturns
<1> QED
  BY <1>1, <1>2, SpeechInvAlways, PTL DEF SpecSpeech

\* What is known in every state.
ReadingInv == SpeechInv /\ Executed

LEMMA ReadingInvAlways == SpecSpeech => []ReadingInv
  BY SpeechInvAlways, ExecutedAlways, PTL DEF ReadingInv

\* The two requests that may lead astray, each apart.
AstrayPending == IF pending # <<>> /\ Head(pending).to # "next" THEN 1 ELSE 0
AstrayRender == IF render.on /\ ~render.moved /\ render.to # "next" THEN 1 ELSE 0

LEMMA AstrayParts ==
    /\ Astray = AstrayPending + AstrayRender
    /\ AstrayPending \in {0, 1} /\ AstrayRender \in {0, 1}
  BY DEF Astray, AstrayPending, AstrayRender

\* The pages that are left from a position.
LeftFrom(s, a) == (LastScreen - s) + (LastScreen + 1) * a

\* A page on leaves fewer, and so does a request less that leads astray, wherever
\* it has led to.
LEMMA FewerPages ==
    ASSUME NEW s \in Screens, NEW s2 \in Screens,
           NEW a \in {0, 1, 2}, NEW a2 \in {0, 1, 2}
    PROVE  /\ LeftFrom(s, a) \in Nat
           /\ s2 = s /\ a2 <= a => LeftFrom(s2, a2) <= LeftFrom(s, a)
           /\ s2 = s + 1 /\ a2 <= a => LeftFrom(s2, a2) < LeftFrom(s, a)
           /\ a2 < a => LeftFrom(s2, a2) < LeftFrom(s, a)
<1>1. LastScreen \in Nat /\ s \in 0..LastScreen /\ s2 \in 0..LastScreen
  BY SpeechAssumption DEF Screens
<1>2. \A b \in {0, 1, 2} : (LastScreen + 1) * b \in Nat
  BY <1>1
<1>3. \A b, c \in {0, 1, 2} : c < b => (LastScreen + 1) * c + LastScreen < (LastScreen + 1) * b
  BY <1>1
<1>4. a2 <= a => (LastScreen + 1) * a2 <= (LastScreen + 1) * a
  <2>1. CASE a2 < a
    BY <1>1, <1>2, <1>3, <2>1
  <2>2. CASE a2 = a
    BY <1>2, <2>2
  <2> QED
    BY <2>1, <2>2
<1> QED
  BY <1>1, <1>2, <1>3, <1>4 DEF LeftFrom

\* Every part of the measure is a number.
LEMMA ReadingMeasured ==
    ASSUME ReadingInv
    PROVE  /\ PagesLeft \in Nat /\ Astray \in {0, 1, 2} /\ PagesLeft = LeftFrom(screen, Astray)
           /\ ToRead \in {0, 6, 8, 9}
           /\ Texts \in Nat /\ players \in Nat /\ finished \in Nat /\ Drawing \in Nat
           /\ ReadingLeft \in Nat
<1> USE DEF ReadingInv, SpeechInv, SpeechTypeOK
<1>1. Astray \in {0, 1, 2}
  BY AstrayParts
<1>2. PagesLeft = LeftFrom(screen, Astray)
  BY DEF PagesLeft, LeftFrom
<1>3. PagesLeft \in Nat
  BY <1>1, <1>2, FewerPages
<1>4. ToRead \in {0, 6, 8, 9}
  BY DEF ToRead
<1>5. Texts \in Nat
  <2>1. Len(stack) \in Nat /\ (render.on => Len(stack) > 0)
    BY DEF Executed, HasRender
  <2> QED
    BY <2>1 DEF Texts
<1>6. Drawing \in Nat
  BY DEF Drawing
<1>7. players \in Nat /\ finished \in Nat
  OBVIOUS
<1>8. ReadingLeft \in Nat
  <2>1. ToRead \in Nat
    BY <1>4
  <2> QED
    BY <1>3, <1>5, <1>6, <1>7, <2>1 DEF ReadingLeft
<1> QED
  BY <1>1, <1>2, <1>3, <1>4, <1>5, <1>6, <1>7, <1>8

\* The same after the step.
LEMMA BothMeasured ==
    ASSUME ReadingInv, ReadingInv'
    PROVE  /\ PagesLeft \in Nat /\ PagesLeft' \in Nat
           /\ Astray \in {0, 1, 2} /\ Astray' \in {0, 1, 2}
           /\ PagesLeft = LeftFrom(screen, Astray) /\ PagesLeft' = LeftFrom(screen', Astray')
           /\ ToRead \in Nat /\ ToRead' \in Nat /\ ToRead <= 9 /\ ToRead' <= 9
           /\ Texts \in Nat /\ Texts' \in Nat /\ Drawing \in Nat /\ Drawing' \in Nat
           /\ players \in Nat /\ players' \in Nat /\ finished \in Nat /\ finished' \in Nat
           /\ screen \in Screens /\ screen' \in Screens
<1>1. (ReadingInv => /\ PagesLeft \in Nat /\ Astray \in {0, 1, 2}
                     /\ PagesLeft = LeftFrom(screen, Astray) /\ ToRead \in {0, 6, 8, 9}
                     /\ Texts \in Nat /\ players \in Nat /\ finished \in Nat /\ Drawing \in Nat)'
  BY ReadingMeasured, PTL
<1>2. screen \in Screens /\ screen' \in Screens
  BY DEF ReadingInv, SpeechInv, SpeechTypeOK
<1>3. ToRead \in {0, 6, 8, 9} /\ ToRead' \in {0, 6, 8, 9}
  BY <1>1, ReadingMeasured
<1>4. ToRead \in Nat /\ ToRead' \in Nat /\ ToRead <= 9 /\ ToRead' <= 9
  BY <1>3
<1> QED
  BY <1>1, <1>2, <1>4, ReadingMeasured

\* What the parts of the measure do not depend on.
LEMMA SameParts ==
    /\ UNCHANGED <<screen, pending, render>> => UNCHANGED <<PagesLeft, Drawing>>
    /\ UNCHANGED <<screen, range, voice>> => UNCHANGED ToRead
    /\ UNCHANGED <<stack, render>> => UNCHANGED Texts
<1>1. UNCHANGED <<screen, pending, render>> => UNCHANGED <<PagesLeft, Drawing>>
  BY DEF PagesLeft, Astray, Drawing
<1>2. UNCHANGED <<screen, range, voice>> => UNCHANGED ToRead
  BY DEF ToRead
<1>3. UNCHANGED <<stack, render>> => UNCHANGED Texts
  BY DEF Texts
<1> QED
  BY <1>1, <1>2, <1>3

\* A text has been synthesized, and is played or not.
LEMMA SynthDoneNearer ==
    ASSUME ReadingInv, ReadingInv', SynthDone PROVE ReadingLeft' < ReadingLeft
<1>1. stack \in Seq(NestedSteps) /\ stack # <<>> /\ stack' = Tail(stack)
  BY DEF ReadingInv, SpeechInv, SpeechTypeOK, NestedSteps, SynthDone, Within
<1>2. UNCHANGED <<screen, pending, render, range, voice, finished>> /\ players' <= players + 1
  BY DEF SynthDone, speechRender, ReadingInv, SpeechInv, SpeechTypeOK
<1>3. UNCHANGED <<PagesLeft, Drawing, ToRead>>
  BY <1>2, SameParts
<1>4. Texts' = Texts - 1
  <2>1. Len(stack') = Len(stack) - 1 /\ Len(stack) \in Nat /\ render'.on = render.on
    BY <1>1, <1>2
  <2> QED
    BY <2>1 DEF Texts
<1> QED
  BY <1>2, <1>3, <1>4, BothMeasured DEF ReadingLeft

\* A sound has been played.
LEMMA PlayerEndsNearer ==
    ASSUME ReadingInv, ReadingInv', PlayerEnds PROVE ReadingLeft' < ReadingLeft
<1>1. /\ UNCHANGED <<screen, pending, render, range, voice, stack>>
      /\ players' = players - 1 /\ finished' = finished + 1
  BY DEF PlayerEnds, speechRender
<1>2. UNCHANGED <<PagesLeft, Drawing, ToRead, Texts>>
  BY <1>1, SameParts
<1> QED
  BY <1>1, <1>2, BothMeasured DEF ReadingLeft

\* A request begins to be executed.
LEMMA ExecRenderNearer ==
    ASSUME ReadingInv, ReadingInv', ExecRender PROVE ReadingLeft' < ReadingLeft
<1>1. /\ pending # <<>> /\ ~render.on /\ pending' = <<>> /\ stack' = <<"render">> \o stack
      /\ render'.on /\ render'.to = Head(pending).to /\ ~render'.moved
      /\ UNCHANGED <<screen, range, voice, players, finished>>
  BY DEF ExecRender, speechSound, NoRender
<1>2. Astray' = Astray
  BY <1>1 DEF Astray
<1>3. PagesLeft' = PagesLeft /\ ToRead' = ToRead
  BY <1>1, <1>2, SameParts DEF PagesLeft
<1>4. Texts' = Texts
  <2>1. Len(stack') = Len(stack) + 1 /\ Len(stack) \in Nat
    BY <1>1 DEF ReadingInv, SpeechInv, SpeechTypeOK
  <2> QED
    BY <1>1, <2>1 DEF Texts
<1>5. Drawing' < Drawing
  BY <1>1 DEF Drawing
<1>6. players' = players /\ finished' = finished
  BY <1>1
<1> QED
  BY <1>3, <1>4, <1>5, <1>6, BothMeasured DEF ReadingLeft

\* A rendering that returns takes its request with it.
LEMMA RenderReturned ==
    ASSUME ReadingInv, Within("render"), RenderReturns, pending' = pending
    PROVE  /\ Texts' = Texts
           /\ Drawing' < Drawing
           /\ render.moved => Drawing' + 10 <= Drawing
           /\ Astray' <= Astray
           /\ ~render.moved /\ render.to # "next" => Astray' < Astray
<1>1. stack \in Seq(NestedSteps) /\ stack # <<>> /\ render.on
  BY Returns DEF ReadingInv, SpeechInv, SpeechTypeOK, NestedSteps, Within, RenderHasRequest
<1>2. Len(stack') = Len(stack) - 1 /\ Len(stack) \in Nat /\ ~render'.on
  BY <1>1 DEF RenderReturns, NoRender
<1>3. Texts' = Texts
  BY <1>1, <1>2 DEF Texts
<1>4. Drawing' < Drawing /\ (render.moved => Drawing' + 10 <= Drawing)
  BY <1>1, <1>2 DEF Drawing
<1>5. /\ Astray' <= Astray
      /\ ~render.moved /\ render.to # "next" => Astray' < Astray
  BY <1>1, <1>2 DEF Astray
<1> QED
  BY <1>3, <1>4, <1>5

\* A page is turned to, or the request returns without.
LEMMA NavigateNearer ==
    ASSUME ReadingInv, ReadingInv', Navigate PROVE ReadingLeft' < ReadingLeft
<1>1. /\ Within("render") /\ ~render.moved
      /\ UNCHANGED <<pending, range, voice, players, finished>>
  BY DEF Navigate, speechSound
<1>2. render.on
  BY <1>1, Returns DEF ReadingInv, SpeechInv, SpeechTypeOK, NestedSteps, Within, RenderHasRequest
<1>3. ASSUME screen' \in Target(render.to), Astray' <= Astray,
             render.to # "next" => Astray' < Astray
      PROVE  PagesLeft' < PagesLeft
  <2>1. CASE render.to = "next"
    <3>1. screen' = screen + 1
      BY <1>3, <2>1 DEF Target
    <3> QED
      BY <1>3, <3>1, BothMeasured, FewerPages
  <2>2. CASE render.to # "next"
    BY <1>3, <2>2, BothMeasured, FewerPages
  <2> QED
    BY <2>1, <2>2
<1>4. CASE /\ screen' \in Target(render.to) /\ render' = [render EXCEPT !.moved = TRUE]
           /\ stack' = stack
  <2>1. render'.on /\ render'.moved /\ render'.to = render.to
    BY <1>2, <1>4 DEF ReadingInv, SpeechInv, SpeechTypeOK
  <2>2. Astray' <= Astray /\ (render.to # "next" => Astray' < Astray)
    BY <1>1, <1>2, <2>1 DEF Astray
  <2>3. PagesLeft' < PagesLeft
    BY <1>3, <1>4, <2>2
  <2>4. Texts' = Texts
    BY <1>2, <1>4, <2>1 DEF Texts
  <2>5. Drawing' <= Drawing + 9
    BY <1>1, <1>2, <2>1 DEF Drawing
  <2> QED
    BY <1>1, <2>3, <2>4, <2>5, BothMeasured DEF ReadingLeft
<1>5. CASE RenderReturns /\ screen' \in Target(render.to) \cup {screen}
  <2>1. /\ Texts' = Texts /\ Drawing' < Drawing /\ Astray' <= Astray
        /\ render.to # "next" => Astray' < Astray
    BY <1>1, <1>5, RenderReturned
  <2>2. CASE screen' = screen
    <3>1. PagesLeft' <= PagesLeft
      BY <2>1, <2>2, BothMeasured, FewerPages
    <3>2. ToRead' = ToRead
      BY <1>1, <2>2, SameParts
    <3>3. players' = players /\ finished' = finished
      BY <1>1
    <3> QED
      BY <2>1, <3>1, <3>2, <3>3, BothMeasured DEF ReadingLeft
  <2>3. CASE screen' \in Target(render.to)
    <3>1. PagesLeft' < PagesLeft
      BY <1>3, <2>1, <2>3
    <3>2. players' = players /\ finished' = finished
      BY <1>1
    <3> QED
      BY <2>1, <3>1, <3>2, BothMeasured DEF ReadingLeft
  <2> QED
    BY <1>5, <2>2, <2>3
<1> QED
  BY <1>4, <1>5 DEF Navigate

\* A page is drawn, and is to be read.
LEMMA PaintSurfaceNearer ==
    ASSUME ReadingInv, ReadingInv', PaintSurface PROVE ReadingLeft' < ReadingLeft
<1>1. /\ Within("render") /\ render.moved /\ RenderReturns
      /\ UNCHANGED <<screen, pending, range, players, finished>>
  BY DEF PaintSurface, speechSound
<1>2. Texts' = Texts /\ Drawing' + 10 <= Drawing /\ Astray' <= Astray
  BY <1>1, RenderReturned
<1>3. PagesLeft' <= PagesLeft
  BY <1>1, <1>2, BothMeasured, FewerPages
<1>4. ToRead' <= ToRead + 6
  BY <1>1 DEF ToRead, PaintSurface
<1>5. players' = players /\ finished' = finished
  BY <1>1
<1> QED
  BY <1>2, <1>3, <1>4, <1>5, BothMeasured DEF ReadingLeft

\* The sounds that are cut short have less to report than they had to play.
LEMMA QuietNearer ==
    ASSUME ReadingInv, ReadingInv', NEW to, Quiet(to)
    PROVE  4 * players' + 3 * finished' <= 4 * players + 3 * finished
<1>1. PICK cut \in 0..players : finished' = finished + cut
  BY DEF Quiet
<1>2. players' = 0 /\ players \in Nat /\ finished \in Nat
  BY DEF Quiet, ReadingInv, SpeechInv, SpeechTypeOK
<1> QED
  BY <1>1, <1>2

\* The page on the screen is read, or there is nothing to read.
LEMMA PlayVoiceNearer ==
    ASSUME ReadingInv, ReadingInv', PlayVoiceOnCurrentScreen, ~UNCHANGED speechVars
    PROVE  ReadingLeft' < ReadingLeft
<1>1. voice /\ UNCHANGED <<screen, pending, render>>
  BY DEF PlayVoiceOnCurrentScreen, speechRender
<1>2. PagesLeft' = PagesLeft /\ Drawing' = Drawing
  BY <1>1, SameParts
<1>3. CASE voice' = FALSE /\ UNCHANGED <<speechSound, range, stack>>
  <2>1. ToRead' < ToRead
    BY <1>1, <1>3 DEF ToRead
  <2>2. Texts' = Texts /\ players' = players /\ finished' = finished
    BY <1>1, <1>3, SameParts DEF speechSound
  <2> QED
    BY <1>2, <2>1, <2>2, BothMeasured DEF ReadingLeft
<1>4. CASE /\ range' = screen /\ RequestPlayingVoice
           /\ UNCHANGED <<shown, need, speechSound, stack, refused>>
  <2>1. voice' = TRUE /\ UNCHANGED <<state, players, finished, stack, need, shown, refused>>
    BY <1>4 DEF RequestPlayingVoice, speechSound
  <2>2. range # screen
    BY <1>1, <1>4, <2>1 DEF speechVars, PlayVoiceOnCurrentScreen, speechRender, ReadingInv,
       SpeechInv, SpeechTypeOK
  <2>3. ToRead' < ToRead
    BY <1>1, <1>4, <2>1, <2>2 DEF ToRead
  <2>4. Texts' = Texts
    BY <1>1, <2>1, SameParts
  <2>5. players' = players /\ finished' = finished
    BY <2>1
  <2> QED
    BY <1>2, <2>3, <2>4, <2>5, BothMeasured DEF ReadingLeft
<1>5. CASE voice' = FALSE /\ range' = screen /\ Speak("voice")
  <2>1. ToRead' + 6 <= ToRead
    BY <1>1, <1>5 DEF ToRead
  <2>2. Texts' = Texts + 1
    <3>1. Len(stack') = Len(stack) + 1 /\ Len(stack) \in Nat
      BY <1>5 DEF Speak, ReadingInv, SpeechInv, SpeechTypeOK
    <3> QED
      BY <1>1, <3>1 DEF Texts
  <2>3. players' = players /\ finished' = finished
    BY <1>5 DEF Speak
  <2> QED
    BY <1>2, <2>1, <2>2, <2>3, BothMeasured DEF ReadingLeft
<1>6. CASE /\ voice' = FALSE /\ range' = screen /\ stack' = stack
           /\ IF AtEnd THEN Quiet("paused") ELSE UNCHANGED speechSound
  <2>1. ToRead' + 6 <= ToRead
    BY <1>1, <1>6 DEF ToRead
  <2>2. Texts' = Texts
    BY <1>1, <1>6, SameParts
  <2>3. 4 * players' + 3 * finished' <= 4 * players + 3 * finished
    <3>1. CASE AtEnd
      BY <1>6, <3>1, QuietNearer
    <3>2. CASE ~AtEnd
      BY <1>6, <3>2, BothMeasured DEF speechSound
    <3> QED
      BY <3>1, <3>2
  <2> QED
    BY <1>2, <2>1, <2>2, <2>3, BothMeasured DEF ReadingLeft
<1> QED
  BY <1>3, <1>4, <1>5, <1>6 DEF PlayVoiceOnCurrentScreen

\* The end of a sound is noted, and the next page asked for.
LEMMA PlayFinishedNearer ==
    ASSUME ReadingInv, ReadingInv', OnTTSPlayFinished PROVE ReadingLeft' < ReadingLeft
<1>1. finished > 0 /\ UNCHANGED <<range, stack>>
  BY DEF OnTTSPlayFinished
<1>2. CASE /\ UNCHANGED <<speechRender, voice>>
           /\ \/ finished' = finished - 1 /\ players' = players
              \/ players' = 0 /\ \E cut \in 0..players : finished' = finished - 1 + cut
  <2>1. PagesLeft' = PagesLeft /\ Drawing' = Drawing /\ ToRead' = ToRead /\ Texts' = Texts
    BY <1>1, <1>2, SameParts DEF speechRender
  <2>2. 4 * players' + 3 * finished' < 4 * players + 3 * finished
    BY <1>2, BothMeasured
  <2> QED
    BY <2>1, <2>2, BothMeasured DEF ReadingLeft
<1>3. CASE Send("next", TRUE) /\ UNCHANGED <<voice, players>> /\ finished' = finished - 1
  <2>1. /\ pending' # <<>> /\ Head(pending').to = "next" /\ screen' = screen
        /\ render'.on = render.on /\ render'.moved = render.moved /\ render'.to = render.to
    BY <1>3 DEF Send, Queued, ReadingInv, SpeechInv, SpeechTypeOK
  <2>2. Astray' <= Astray
    BY <2>1 DEF Astray
  <2>3. PagesLeft' <= PagesLeft
    BY <2>1, <2>2, BothMeasured, FewerPages
  <2>4. Drawing' <= Drawing + 2
    BY <2>1 DEF Drawing
  <2>5. ToRead' = ToRead
    BY <1>1, <1>3, <2>1, SameParts
  <2>6. Texts' = Texts
    BY <1>1, <2>1 DEF Texts
  <2> QED
    BY <1>3, <2>3, <2>4, <2>5, <2>6, BothMeasured DEF ReadingLeft
<1>4. CASE /\ range # screen /\ voice' = TRUE /\ UNCHANGED <<speechRender, players>>
           /\ finished' = finished - 1
  <2>1. UNCHANGED <<screen, pending, render>>
    BY <1>4 DEF speechRender
  <2>2. PagesLeft' = PagesLeft /\ Drawing' = Drawing /\ Texts' = Texts
    BY <1>1, <2>1, SameParts
  <2>3. ToRead' <= ToRead + 1
    BY <1>1, <1>4, <2>1 DEF ToRead
  <2> QED
    BY <1>4, <2>2, <2>3, BothMeasured DEF ReadingLeft
<1> QED
  BY <1>2, <1>3, <1>4 DEF OnTTSPlayFinished, StillShown, RequestPlayingVoice

\* The measure is a number that every step but the user's makes smaller, in a book
\* of any length: a reading does not go round in circles, however often requests
\* are aborted and pages read twice.  As long as it has not fallen silent something
\* brings it on (ReadingDoesNotStall); what ReadToTheEnd adds to the two theorems is
\* the fairness.
THEOREM ReadingEnds == SpecSpeech => [](ReadingLeft \in Nat) /\ ReadingRunsDown
<1>1. ReadingInv => ReadingLeft \in Nat
  BY ReadingMeasured
<1>2. ReadingInv /\ ReadingInv' /\ [NextSpeech]_speechVars =>
        [SpeechUser \/ ReadingLeft' < ReadingLeft]_speechVars
  BY SynthDoneNearer, NavigateNearer, PaintSurfaceNearer, PlayerEndsNearer,
     ExecRenderNearer, PlayVoiceNearer, PlayFinishedNearer DEF NextSpeech, SpeechReturns
<1> QED
  BY <1>1, <1>2, ReadingInvAlways, PTL DEF SpecSpeech, ReadingRunsDown
=============================================================================
