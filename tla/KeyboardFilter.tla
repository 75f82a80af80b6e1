--------------------------- MODULE KeyboardFilter ---------------------------
(***************************************************************************)
(* SysKeyboardFilter: the switches of the device are keys to the kernel.   *)
(*                                                                         *)
(* The USB cable, the stylus in its slot and the 3G power switch bounce,   *)
(* so their events are reported only after 700 ms without another.  The    *)
(* three share one timer and one previous_key_.  While the device wakes    *)
(* up, postSuspend() also has one key release ignored, whatever its key.   *)
(***************************************************************************)
EXTENDS Integers

VARIABLES
    position,      \* where each switch stands: is its key pressed
    value,         \* usb_connected_, stylus_inserted_, power_on_
    previous_key,  \* previous_key_, "none" for 0
    is_pressed,    \* is_pressed_: the last event let through was a press
    count,         \* count_: releases to ignore
    reported,      \* history: what the last signal of each switch said
    lost,          \* history: the switches whose last event was lost
    last           \* history: the switch that moved last

vars == <<position, value, previous_key, is_pressed, count, reported, lost,
          last>>

Switches == {"usb", "stylus", "power"}

Init ==
    /\ position = [k \in Switches |-> FALSE]
    /\ value = position /\ reported = position
    /\ previous_key = "none"
    /\ is_pressed = FALSE
    /\ count = 0
    /\ lost = {} /\ last \in Switches

-----------------------------------------------------------------------------
\* Mutant: ... whether or not it is to ignore any.
IgnoredAlways(pressed) == is_pressed /\ ~pressed

\* filter() drops the first release after a press while count_ asks for it.
Ignored(pressed) == count > 0 /\ is_pressed /\ ~pressed

Ignore == count' = count - 1 /\ UNCHANGED <<value, previous_key, is_pressed>>

\* Mutant: while a switch waits, its further events change nothing.
SwitchEventFirst(k, pressed) ==
    /\ is_pressed' = pressed
    /\ value' = IF previous_key = k THEN value ELSE [value EXCEPT ![k] = pressed]
    /\ previous_key' = k
    /\ UNCHANGED count

\* Mutant: a switch that waits is not pushed aside by another.
SwitchEventWaits(k, pressed) ==
    /\ is_pressed' = pressed
    /\ value' = [value EXCEPT ![k] = pressed]
    /\ previous_key' = IF previous_key = "none" THEN k ELSE previous_key
    /\ UNCHANGED count

\* onUSBEvent(), onStylusEvent(), onPowerSwitchEvent(): remember the event and
\* start the timer again.
SwitchEvent(k, pressed) ==
    /\ is_pressed' = pressed
    /\ value' = [value EXCEPT ![k] = pressed]
    /\ previous_key' = k
    /\ UNCHANGED count

\* Switch k is moved, or bounces, and filter() gets its event.
SwitchMoves(k) ==
    /\ position' = [position EXCEPT ![k] = ~@]
    /\ last' = k
    /\ \/ /\ Ignored(position'[k])
          /\ Ignore
          /\ lost' = lost \cup {k}
       \/ /\ ~Ignored(position'[k])
          /\ SwitchEvent(k, position'[k])
          /\ lost' = (lost \ {k}) \cup ({previous_key} \ {"none", k})
    /\ UNCHANGED reported

\* Any other key is pressed or released.
KeyEvent ==
    /\ \E pressed \in BOOLEAN :
         \/ Ignored(pressed) /\ Ignore
         \/ ~Ignored(pressed) /\ is_pressed' = pressed
            /\ UNCHANGED <<count, value, previous_key>>
    /\ UNCHANGED <<position, reported, lost, last>>

\* 700 ms without an event of a switch.
OnTimeout ==
    /\ previous_key # "none"
    /\ reported' = [reported EXCEPT ![previous_key] = value[previous_key]]
    /\ previous_key' = "none"
    /\ UNCHANGED <<position, value, is_pressed, count, lost, last>>

\* ignoreKeyboardEvent(): 1 before postSuspend() drains the keys and 0 after,
\* in any order as its activations may be nested.
IgnoreKeyboardEvent ==
    /\ count' \in 0..1
    /\ UNCHANGED <<position, value, previous_key, is_pressed, reported, lost, last>>

Moves == \E k \in Switches : SwitchMoves(k)

Next == Moves \/ KeyEvent \/ OnTimeout \/ IgnoreKeyboardEvent

Spec == Init /\ [][Next]_vars

\* The timer runs.  Nobody has to touch a key or a switch, or wake up.
FairSpec == Spec /\ WF_vars(OnTimeout)

-----------------------------------------------------------------------------
\* Every variable keeps its shape.
TypeOK ==
    /\ position \in [Switches -> BOOLEAN]
    /\ value \in [Switches -> BOOLEAN]
    /\ reported \in [Switches -> BOOLEAN]
    /\ previous_key \in Switches \cup {"none"}
    /\ is_pressed \in BOOLEAN
    /\ count \in 0..1
    /\ lost \subseteq Switches
    /\ last \in Switches

\* Debouncing tells no lies: a switch that is not waiting for the timer was last
\* reported as it stands, unless an event of it was lost because another
\* switch moved within 700 ms, or because it came while the keys were drained.
ReportedAsItStands ==
    \A k \in Switches \ lost : previous_key # k => reported[k] = position[k]

\* When the switches rest, the one that moved last is reported as it stands,
\* however many had moved before it, unless its event was ignored as a key.
LastMoveReported ==
    \A k \in Switches :
        <>[][~Moves]_vars /\ <>[](last = k /\ k \notin lost)
            => <>[](reported[k] = position[k])
=============================================================================
