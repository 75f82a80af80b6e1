------------------------ MODULE KeyboardFilterProofs ------------------------
(***************************************************************************)
(* Theorems about KeyboardFilter.                                          *)
(***************************************************************************)
EXTENDS KeyboardFilter, TLAPS

\* What the timer will report of the switch that waits for it.
WaitingAsItStands ==
    \A k \in Switches \ lost : previous_key = k => value[k] = position[k]

KInv == TypeOK /\ ReportedAsItStands /\ WaitingAsItStands

\* The switches stand as they were read when the filter was made.
LEMMA StartsAsItStands == ASSUME Init PROVE KInv
<1>1. position \in [Switches -> BOOLEAN]
  BY DEF Init
<1>2. value = position /\ reported = position
  BY DEF Init
<1>3. /\ previous_key = "none" /\ is_pressed = FALSE /\ count = 0
      /\ lost = {} /\ last \in Switches
  BY DEF Init
<1>4. ReportedAsItStands /\ WaitingAsItStands
  BY <1>2 DEF ReportedAsItStands, WaitingAsItStands
<1>5. TypeOK
  <2>1. value \in [Switches -> BOOLEAN] /\ reported \in [Switches -> BOOLEAN]
    BY <1>1, <1>2, Zenon
  <2>2. count \in 0..1 /\ lost \subseteq Switches
    BY <1>3
  <2>3. is_pressed \in BOOLEAN
    BY <1>3
  <2>4. previous_key \in Switches \cup {"none"}
    BY <1>3, Zenon
  <2> QED
    BY <1>1, <1>3, <2>1, <2>2, <2>3, <2>4, Zenon DEF TypeOK
<1> QED
  BY <1>4, <1>5 DEF KInv

\* filter() lets releases through or not, but leaves every variable its shape.
LEMMA TypeStep == ASSUME TypeOK, [Next]_vars PROVE TypeOK'
<1> USE DEF TypeOK, Switches
<1>1. ASSUME NEW k \in Switches, SwitchMoves(k) PROVE TypeOK'
  <2>1. position' \in [Switches -> BOOLEAN] /\ position'[k] \in BOOLEAN
    BY <1>1 DEF SwitchMoves
  <2>2. last' \in Switches /\ reported' \in [Switches -> BOOLEAN]
    BY <1>1 DEF SwitchMoves
  <2>3. CASE Ignored(position'[k]) /\ Ignore /\ lost' = lost \cup {k}
    <3>1. count' \in 0..1
      BY <2>3 DEF Ignored, Ignore
    <3> QED
      BY <2>1, <2>2, <2>3, <3>1 DEF Ignore
  <2>4. CASE SwitchEvent(k, position'[k])
             /\ lost' = (lost \ {k}) \cup ({previous_key} \ {"none", k})
    BY <2>1, <2>2, <2>4 DEF SwitchEvent
  <2> QED
    BY <1>1, <2>3, <2>4 DEF SwitchMoves
<1>2. CASE KeyEvent
  <2>1. PICK pressed \in BOOLEAN :
           \/ Ignored(pressed) /\ Ignore
           \/ ~Ignored(pressed) /\ is_pressed' = pressed
              /\ UNCHANGED <<count, value, previous_key>>
    BY <1>2 DEF KeyEvent
  <2>2. count' \in 0..1 /\ is_pressed' \in BOOLEAN
    BY <2>1 DEF Ignored, Ignore
  <2> QED
    BY <1>2, <2>1, <2>2 DEF KeyEvent, Ignore
<1>3. CASE OnTimeout
  BY <1>3 DEF OnTimeout
<1>4. CASE IgnoreKeyboardEvent
  BY <1>4 DEF IgnoreKeyboardEvent
<1>5. CASE UNCHANGED vars
  BY <1>5 DEF vars
<1> QED
  BY <1>1, <1>2, <1>3, <1>4, <1>5 DEF Next, Moves

\* Every variable keeps its shape, and no more than one release is ignored.
THEOREM TypeCorrect == Spec => []TypeOK
<1>1. Init => TypeOK
  BY StartsAsItStands DEF KInv
<1> QED
  BY <1>1, TypeStep, PTL DEF Spec

-----------------------------------------------------------------------------
\* A switch that moves waits for the timer, unless its event is lost; the
\* switch that waited until then is lost, and no other is touched.
LEMMA MoveKeeps ==
    ASSUME KInv, NEW k \in Switches, SwitchMoves(k)
    PROVE  ReportedAsItStands' /\ WaitingAsItStands'
<1> USE DEF KInv, TypeOK
<1>1. /\ position' = [position EXCEPT ![k] = ~@] /\ reported' = reported
      /\ \A s \in Switches \ {k} : position'[s] = position[s]
  BY DEF SwitchMoves
<1>2. CASE Ignored(position'[k]) /\ Ignore /\ lost' = lost \cup {k}
  <2>1. value' = value /\ previous_key' = previous_key
    BY <1>2 DEF Ignore
  <2>2. \A s \in Switches \ lost' : s \in Switches \ lost /\ s # k
    BY <1>2
  <2> QED
    BY <1>1, <2>1, <2>2 DEF ReportedAsItStands, WaitingAsItStands
<1>3. CASE SwitchEvent(k, position'[k])
           /\ lost' = (lost \ {k}) \cup ({previous_key} \ {"none", k})
  <2>1. previous_key' = k /\ value' = [value EXCEPT ![k] = position'[k]]
    BY <1>3 DEF SwitchEvent
  <2>2. WaitingAsItStands'
    BY <2>1 DEF WaitingAsItStands
  <2>3. ASSUME NEW s \in Switches \ lost', previous_key' # s
        PROVE  reported'[s] = position'[s]
    <3>1. s # k
      BY <2>1, <2>3
    <3>2. s \notin lost /\ previous_key # s
      BY <1>3, <2>3, <3>1 DEF Switches
    <3> QED
      BY <1>1, <2>3, <3>1, <3>2 DEF ReportedAsItStands
  <2> QED
    BY <2>2, <2>3 DEF ReportedAsItStands
<1> QED
  BY <1>2, <1>3 DEF SwitchMoves

\* The timer reports the switch that waits as it stands, and no other.
LEMMA TimeoutKeeps ==
    ASSUME KInv, OnTimeout
    PROVE  ReportedAsItStands' /\ WaitingAsItStands'
<1> USE DEF KInv, TypeOK
<1>1. /\ position' = position /\ lost' = lost /\ previous_key' = "none"
      /\ previous_key \in Switches
      /\ reported' = [reported EXCEPT ![previous_key] = value[previous_key]]
  BY DEF OnTimeout
<1>2. ASSUME NEW s \in Switches \ lost' PROVE reported'[s] = position'[s]
  <2>1. CASE s = previous_key
    BY <1>1, <1>2, <2>1 DEF WaitingAsItStands
  <2>2. CASE s # previous_key
    BY <1>1, <1>2, <2>2 DEF ReportedAsItStands
  <2> QED
    BY <2>1, <2>2
<1> QED
  BY <1>1, <1>2 DEF ReportedAsItStands, WaitingAsItStands, Switches

\* Other keys and the drain at wake-up touch no switch.
LEMMA OthersKeep ==
    ASSUME KInv, KeyEvent \/ IgnoreKeyboardEvent \/ UNCHANGED vars
    PROVE  ReportedAsItStands' /\ WaitingAsItStands'
<1>1. UNCHANGED <<position, value, previous_key, reported, lost>>
  BY DEF KeyEvent, Ignore, IgnoreKeyboardEvent, vars
<1> QED
  BY <1>1 DEF KInv, ReportedAsItStands, WaitingAsItStands

\* The invariant holds at the start and is kept by every step.
LEMMA KInvAlways == Spec => []KInv
<1>1. Init => KInv
  BY StartsAsItStands
<1>2. KInv /\ [Next]_vars => KInv'
  <2> SUFFICES ASSUME KInv, [Next]_vars PROVE KInv'
    OBVIOUS
  <2>1. TypeOK'
    BY TypeStep DEF KInv
  <2>2. ReportedAsItStands' /\ WaitingAsItStands'
    BY MoveKeeps, TimeoutKeeps, OthersKeep DEF Next, Moves
  <2> QED
    BY <2>1, <2>2 DEF KInv
<1> QED
  BY <1>1, <1>2, PTL DEF Spec

\* A switch that does not wait was last reported as it stands, in any order of
\* bounces, keys and wake-ups, unless one of its events was lost.
THEOREM SwitchesReported == Spec => []ReportedAsItStands
BY KInvAlways, PTL DEF KInv

-----------------------------------------------------------------------------
(* The last move is reported.  The fairness of FairSpec is stated with the *)
(* condition under which the timer fires in the place of ENABLED, which    *)
(* the provers do not know: OnTimeout always changes previous_key.         *)

\* WF_vars(OnTimeout): a timer that runs fires some time.
TimerRuns == []([](previous_key # "none") => <><<OnTimeout>>_vars)

\* When the timer has fired and no switch moves, none waits any more.
LEMMA RestsWhenReported ==
    ASSUME [Next]_vars, [~Moves]_vars,
           previous_key = "none" \/ <<OnTimeout>>_vars
    PROVE  previous_key' = "none"
<1>1. CASE OnTimeout
  BY <1>1 DEF OnTimeout
<1>2. CASE previous_key = "none" /\ (KeyEvent \/ IgnoreKeyboardEvent \/ UNCHANGED vars)
  BY <1>2 DEF KeyEvent, Ignore, IgnoreKeyboardEvent, vars
<1> QED
  BY <1>1, <1>2 DEF Next, vars

\* If the timer runs, then once the switches rest the one that moved last is
\* reported as it stands for good, unless its event was ignored as a key.
THEOREM LastMoveIsReported == Spec /\ TimerRuns => LastMoveReported
<1> SUFFICES ASSUME NEW k \in Switches
             PROVE  Spec /\ TimerRuns /\ <>[][~Moves]_vars
                      /\ <>[](last = k /\ k \notin lost)
                      => <>[](reported[k] = position[k])
  BY DEF LastMoveReported
<1>1. [Next]_vars /\ [~Moves]_vars /\ previous_key = "none"
        => (previous_key = "none")'
  BY RestsWhenReported
<1>2. [Next]_vars /\ [~Moves]_vars /\ <<OnTimeout>>_vars
        => (previous_key = "none")'
  BY RestsWhenReported
<1>3. KInv /\ previous_key = "none" /\ last = k /\ k \notin lost
        => reported[k] = position[k]
  BY DEF KInv, ReportedAsItStands, Switches
<1>4. (previous_key # "none") <=> ~(previous_key = "none")
  OBVIOUS
<1> QED
  BY <1>1, <1>2, <1>3, <1>4, KInvAlways, PTL DEF Spec, TimerRuns
=============================================================================
