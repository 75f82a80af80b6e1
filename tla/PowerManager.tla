----------------------------- MODULE PowerManager -----------------------------
(***************************************************************************)
(* PowerManager: when an unused device idles, suspends or shuts down.      *)
(*                                                                         *)
(* The screen saver of the window system (external) calls save() after 2   *)
(* seconds, 1 second more and the interval of the user's policy.  At the   *)
(* middle level idle() puts the CPU to rest again and again: a timer of    *)
(* 3 minutes (EPIT) wakes it to let events in and to see whether the       *)
(* interval has passed.  The events may set another policy, take or give   *)
(* references that keep the device awake, or enter idle() again.           *)
(*                                                                         *)
(* One slot holds the interval and one field says what it is for, although *)
(* the dialog of the shell and the configuration know two intervals.       *)
(***************************************************************************)
EXTENDS Integers, Sequences, FiniteSets

CONSTANTS
    Clients,    \* those who call enableIdle()
    Choices,    \* the rows of the dialog: minutes to standby and to shutdown
    Factory,    \* what is configured before the user has chosen anything
    Epit,       \* minutes between two wakes by the EPIT timer
    MaxDepth,   \* bound: activations of idle() within each other
    MaxRequests \* bound: calls enableIdle(false) that were not taken back

Policies == [standby : Nat, shutdown : Nat]

ASSUME ClientsAssumption == IsFiniteSet(Clients)
ASSUME ChoicesAssumption ==
    /\ Choices \subseteq Policies
    /\ Factory \in Policies
ASSUME BoundsAssumption ==
    Epit \in Nat \ {0} /\ MaxDepth \in Nat \ {0} /\ MaxRequests \in Nat \ {0}

VARIABLES
    conf,       \* SystemConfig: both intervals, kept over a restart
    interval,   \* INTERVALS[LAST_INDEX]
    type,       \* type_: what that interval is for
    count,      \* idle_count_
    requests,   \* history: the calls enableIdle(false) that were not taken back,
                \* each a client and a number
    saver,      \* the screen saver: its level, is its timer running
    loops,      \* the activations of idle(), newest first
    usb,        \* isUSBConnected()
    moved,      \* the cable was moved, its event has not arrived
    dialog,     \* the open dialog: what it read, the calls it has to make
    chosen,     \* history: the row chosen last, and wholly set
    torn,       \* history: a row was chosen since, and set by half
    told        \* history: what the policy asked for since the last key

vars == <<conf, interval, type, count, requests, saver, loops, usb, moved,
          dialog, chosen, torn, told>>

policy == <<conf, interval, type, dialog, chosen, torn>>
references == <<count, requests>>
cable == <<usb, moved>>

DEEP_SLEEP == "deep sleep"
SHUTDOWN   == "shutdown"

\* The levels of the saver: after 2 seconds, after another, after the interval.
IDLE_INDEX == 1
LAST_INDEX == 2

\* What a policy put in the one slot is, a configured shutdown winning.
IntervalOf(c) == IF c.shutdown > 0 THEN c.shutdown ELSE c.standby
TypeOf(c) == IF c.shutdown > 0 THEN SHUTDOWN
             ELSE IF c.standby > 0 THEN DEEP_SLEEP ELSE "none"

\* suspendInterval(), shutdownInterval()
Reported == [standby  |-> IF type = DEEP_SLEEP THEN interval ELSE 0,
             shutdown |-> IF type = SHUTDOWN THEN interval ELSE 0]

Reset  == [level |-> 0, armed |-> TRUE]
Closed == [open |-> FALSE, read |-> Factory, pick |-> Factory, todo |-> <<>>]
Silent == [what |-> "nothing", early |-> FALSE]

Init ==
    /\ conf = Factory
    /\ interval = IntervalOf(Factory) /\ type = TypeOf(Factory)
    /\ count = 0 /\ requests = {}
    /\ saver = Reset
    /\ loops = <<>>
    /\ usb = FALSE /\ moved = FALSE
    /\ dialog = Closed /\ chosen = Factory /\ torn = FALSE
    /\ told = Silent

\* idle() runs and the CPU rests: nothing is dispatched.
Resting == loops # <<>> /\ Head(loops).resting

-----------------------------------------------------------------------------
(* The policy.                                                             *)

\* Mutant: type_ stays when its interval is taken away.
KeepType(what, minutes) == IF minutes > 0 THEN what ELSE type

\* type_ after an interval has been set.
NewType(what, minutes) ==
    IF minutes > 0 THEN what ELSE IF type = what THEN "none" ELSE type

\* setSuspendInterval() or setShutdownInterval(); the saver starts again.
SetInterval(what, minutes) ==
    /\ conf' = IF what = DEEP_SLEEP THEN [conf EXCEPT !.standby = minutes]
               ELSE [conf EXCEPT !.shutdown = minutes]
    /\ interval' = minutes
    /\ type' = NewType(what, minutes)
    /\ saver' = Reset

\* The dialog opens and reads both intervals.
OpenDialog ==
    /\ ~Resting /\ ~dialog.open
    /\ dialog' = [Closed EXCEPT !.open = TRUE, !.read = Reported]
    /\ UNCHANGED <<conf, interval, type, references, saver, loops, cable, chosen,
                   torn, told>>

\* Mutant: the standby interval is always set first.
StandbyFirst(standby, shutdown, s) == standby \o shutdown

\* onOkClicked(): the interval that is to be 0 first.
CallOrder(standby, shutdown, s) ==
    IF s = 0 THEN standby \o shutdown ELSE shutdown \o standby

\* PowerManagementDialog::setSuspendInterval(), setShutdownInterval(): only what
\* differs from what was read is set.
Call(what, new, old) ==
    IF new = old THEN <<>> ELSE <<[what |-> what, minutes |-> new]>>

Calls(c, read) == CallOrder(Call(DEEP_SLEEP, c.standby, read.standby),
                            Call(SHUTDOWN, c.shutdown, read.shutdown), c.standby)

\* onButtonChanged(): a row is chosen.
Choose(c) ==
    /\ ~Resting /\ dialog.open /\ dialog.todo = <<>>
    /\ LET calls == Calls(c, dialog.read)
       IN  /\ dialog' = IF calls = <<>> THEN Closed
                        ELSE [dialog EXCEPT !.pick = c, !.todo = calls]
           /\ chosen' = IF calls = <<>> THEN c ELSE chosen
           /\ torn' = (torn /\ calls # <<>>)
    /\ UNCHANGED <<conf, interval, type, references, saver, loops, cable, told>>

\* The next call of the dialog arrives.
SetNext ==
    /\ ~Resting /\ dialog.todo # <<>>
    /\ SetInterval(Head(dialog.todo).what, Head(dialog.todo).minutes)
    /\ told' = Silent
    /\ IF Len(dialog.todo) = 1
       THEN dialog' = Closed /\ chosen' = dialog.pick /\ torn' = FALSE
       ELSE /\ dialog' = [dialog EXCEPT !.todo = Tail(@)]
            /\ UNCHANGED chosen /\ torn' = TRUE
    /\ UNCHANGED <<references, loops, cable>>

\* The device starts again, at any point.
Restart ==
    /\ interval' = IntervalOf(conf) /\ type' = TypeOf(conf)
    /\ count' = 0 /\ requests' = {} /\ loops' = <<>> /\ saver' = Reset
    /\ dialog' = Closed /\ told' = Silent /\ moved' = FALSE
    /\ UNCHANGED <<conf, chosen, torn, usb>>

-----------------------------------------------------------------------------
(* References.                                                             *)

\* Mutant: the count goes below zero.
Unclipped(n) == n

\* enableIdle(true) never leaves a count below zero.
Clipped(n) == IF n < 0 THEN 0 ELSE n

Requests == Clients \X (1..MaxRequests)
Of(c) == {r \in requests : r[1] = c}

\* enableIdle(false): a viewer, the clock, speech, the 3G or Wi-Fi manager.  Who
\* has asked may ask again: connect3g() does after a modem was not found.
Take(c) ==
    /\ ~Resting
    /\ count' = count + 1
    /\ Cardinality(requests) < MaxRequests
    /\ \E n \in 1..MaxRequests :
         /\ \A m \in 1..MaxRequests : <<c, m>> \in requests <=> m < n
         /\ requests' = requests \cup {<<c, n>>}
    /\ UNCHANGED <<policy, saver, loops, cable, told>>

\* enableIdle(true), also by one whose request was dropped, or who made none:
\* WpaConnectionManager::stop(), disconnect3g().
Give(c) ==
    /\ ~Resting
    /\ count' = Clipped(count - 1)
    /\ \/ Of(c) = {} /\ UNCHANGED requests
       \/ \E r \in Of(c) : /\ \A q \in Of(c) : q[2] <= r[2]
                            /\ requests' = requests \ {r}
    /\ UNCHANGED <<policy, saver, loops, cable, told>>

\* resetIdle(): when all applications are stopped, or at the end of a slide
\* show, whose own request it is meant for.
ResetIdle ==
    /\ ~Resting
    /\ count' = 0
    /\ \E gone \in SUBSET Clients :
         requests' = {r \in requests : r[1] \notin gone}
    /\ UNCHANGED <<policy, saver, loops, cable, told>>

-----------------------------------------------------------------------------
(* The screen saver and idle().                                            *)

\* What the saver does when save(level) has returned true: the next level, if
\* it has an interval.
Advance(level) == [level |-> level + 1,
                   armed |-> level < IDLE_INDEX \/ interval > 0]

\* save(LAST_INDEX) reaches the listeners: onAboutToSuspend() and
\* onAboutToShutdown() say nothing while the battery is charged.
SaveLast(early) ==
    told' = IF type # "none" /\ ~usb THEN [what |-> type, early |-> early] ELSE told

\* The timer of level 0: the CPU monitor takes a sample.
ShortIdle ==
    /\ ~Resting /\ saver.armed /\ saver.level = 0
    /\ saver' = Advance(0)
    /\ UNCHANGED <<policy, references, loops, cable, told>>

\* Level 1 on the cable: idle() is not called, the last level comes next.
StayOnCable ==
    /\ ~Resting /\ saver.armed /\ saver.level = IDLE_INDEX
    /\ usb
    /\ saver' = Advance(IDLE_INDEX)
    /\ UNCHANGED <<policy, references, loops, cable, told>>

\* Level 1: the CPU was used or plays sound.  The saver starts again.
Busy ==
    /\ ~Resting /\ saver.armed /\ saver.level = IDLE_INDEX
    /\ ~usb
    /\ saver' = Reset
    /\ UNCHANGED <<policy, references, loops, cable, told>>

\* Level 1: somebody keeps the device awake.  The same level comes again.
StayAwake ==
    /\ ~Resting /\ saver.armed /\ saver.level = IDLE_INDEX
    /\ ~usb /\ count > 0
    /\ saver' = Advance(0)
    /\ UNCHANGED <<policy, references, loops, cable, told>>

\* Level 1: idle() puts the CPU to rest.
Idle ==
    /\ ~Resting /\ saver.armed /\ saver.level = IDLE_INDEX
    /\ ~usb /\ count <= 0 /\ Len(loops) < MaxDepth
    /\ loops' = <<[elapsed |-> 0, resting |-> TRUE, touched |-> FALSE]>> \o loops
    /\ saver' = [saver EXCEPT !.armed = FALSE]
    /\ UNCHANGED <<policy, references, cable, told>>

\* Level 2: the interval has passed since the last reset of the saver.
LongIdle ==
    /\ ~Resting /\ saver.armed /\ saver.level = LAST_INDEX
    /\ SaveLast(FALSE)
    /\ saver' = [saver EXCEPT !.armed = FALSE]
    /\ UNCHANGED <<policy, references, loops, cable>>

\* A key while idle() is running does not end its loops.
Touched(ls) == [i \in DOMAIN ls |-> [ls[i] EXCEPT !.touched = TRUE]]

\* Any interrupt but the EPIT timer ends the newest idle(): the saver starts
\* again and goes one level up.
KeyWakes ==
    /\ Resting
    /\ loops' = Touched(Tail(loops)) /\ saver' = Advance(0)
    /\ told' = Silent
    /\ UNCHANGED <<policy, references, cable>>

\* The EPIT timer wakes the CPU: events are let in for a second.
EpitWakes ==
    /\ Resting
    /\ loops' = [loops EXCEPT ![1].resting = FALSE]
    /\ UNCHANGED <<policy, references, saver, cable, told>>

\* Mutant: every rest is counted from zero.
ElapsedAnew == Epit

\* ms_elapsed, in the loop of idle()
Elapsed == Head(loops).elapsed + Epit

\* The second is over, and the CPU rests again.
RestsAgain ==
    /\ loops # <<>> /\ ~Resting
    /\ Elapsed < interval
    /\ loops' = [loops EXCEPT ![1].elapsed = Elapsed, ![1].resting = TRUE]
    /\ UNCHANGED <<policy, references, saver, cable, told>>

\* The second is over, and the interval: idle() saves and returns.
IdleEnds ==
    /\ loops # <<>> /\ ~Resting
    /\ Elapsed >= interval
    /\ SaveLast(Head(loops).touched)
    /\ loops' = Tail(loops) /\ saver' = Advance(0)
    /\ UNCHANGED <<policy, references, cable>>

\* The second is over, and the battery is too low to go on.
BatteryLow ==
    /\ loops # <<>> /\ ~Resting
    /\ ~usb
    /\ loops' = Tail(loops) /\ saver' = Advance(0)
    /\ UNCHANGED <<policy, references, cable, told>>

-----------------------------------------------------------------------------
(* The user and the cable.                                                 *)

\* A key: the saver starts again.
UserKey ==
    /\ ~Resting
    /\ saver' = Reset /\ loops' = Touched(loops) /\ told' = Silent
    /\ UNCHANGED <<policy, references, cable>>

\* onBatteryChanged(), onSDChanged()
ScreenSaverActivate ==
    /\ ~Resting
    /\ saver' = Reset
    /\ UNCHANGED <<policy, references, loops, cable, told>>

\* The cable is plugged in or out.
MoveCable ==
    /\ usb' = ~usb /\ moved' = TRUE
    /\ UNCHANGED <<policy, references, saver, loops, told>>

\* Mutant: the saver is not told that the cable is gone.
UnpluggedUnheard == saver

\* "Need to reset timer as Qt does not use key release event"
Unplugged == IF usb THEN saver ELSE Reset

\* onUSBCableChanged()
USBCableChanged ==
    /\ ~Resting /\ moved
    /\ moved' = FALSE /\ saver' = Unplugged
    /\ UNCHANGED <<policy, references, loops, usb, told>>

\* What others do to the device.
Disturb ==
    \/ OpenDialog \/ SetNext \/ Restart
    \/ \E c \in Choices : Choose(c)
    \/ \E c \in Clients : Take(c) \/ Give(c)
    \/ ResetIdle \/ Busy \/ KeyWakes \/ BatteryLow
    \/ UserKey \/ ScreenSaverActivate \/ MoveCable

\* What the device does by itself.
Saver == ShortIdle \/ StayOnCable \/ StayAwake \/ Idle \/ LongIdle
Loop == RestsAgain \/ IdleEnds

Next == Disturb \/ Saver \/ EpitWakes \/ Loop \/ USBCableChanged

Spec == Init /\ [][Next]_vars

\* Timers fire, and events that have arrived are handled.
FairSpec ==
    /\ Spec
    /\ WF_vars(Saver) /\ WF_vars(EpitWakes) /\ WF_vars(Loop)
    /\ SF_vars(USBCableChanged)

-----------------------------------------------------------------------------
Activations == [elapsed : Nat, resting : BOOLEAN, touched : BOOLEAN]
PolicyCalls == [what : {DEEP_SLEEP, SHUTDOWN}, minutes : Nat]

\* Every variable keeps its shape.
TypeOK ==
    /\ conf \in Policies
    /\ interval \in Nat
    /\ type \in {DEEP_SLEEP, SHUTDOWN, "none"}
    /\ count \in Nat
    /\ requests \subseteq Requests
    /\ saver \in [level : 0..2, armed : BOOLEAN]
    /\ loops \in Seq(Activations)
    /\ usb \in BOOLEAN /\ moved \in BOOLEAN
    /\ dialog \in [open : BOOLEAN, read : Policies, pick : Policies,
                   todo : Seq(PolicyCalls)]
    /\ chosen \in Policies /\ torn \in BOOLEAN
    /\ told \in [what : {DEEP_SLEEP, SHUTDOWN, "nothing"}, early : BOOLEAN]

\* setSuspendInterval() and setShutdownInterval() share one interval and one
\* type: there is an interval if and only if it is known what it is for, though
\* the dialog sets one to zero and the other not.
SlotMatchesType == type = "none" <=> interval = 0

\* Where the rows set one interval at most (PM_INCLUSIVE is not set), the device
\* does what the user chose last, with restarts before, after or between the
\* calls of the dialog; but a row that was set by half, in between or since a
\* restart there, leaves it as after "Never" until a row is chosen again.
PolicyAsChosen == IF torn THEN type = "none" ELSE Reported = chosen

\* Who chose "Never", and chose no other row since, is never put to sleep nor
\* shut down, also after a restart.
NeverMeansNever ==
    ~torn /\ chosen.standby = 0 /\ chosen.shutdown = 0 => type = "none"

\* The device is put away "after 3 minutes" without use: not if a key was
\* pressed while idle() looked whether they are over.
UnusedForInterval == ~told.early

\* A device that nobody uses or keeps awake, and that is not on the cable, is
\* put away, wherever the saver and idle() were when the last user left it, and
\* although the saver had come to its end while the cable was in.
UnusedDeviceSleeps ==
    <>[][~Disturb]_vars /\ <>[](type # "none" /\ count = 0 /\ ~usb)
        => <>[](told.what = type)

\* A device that is to be put away is never forgotten: as long as it was not,
\* the saver runs, idle() runs, or the cable's event is still to come.
NotForgotten ==
    type # "none" /\ ~usb /\ ~moved
        => saver.armed \/ loops # <<>> \/ told.what = type

\* How often the saver may still fire, and the event of the cable be handled.
SaverLeft == (IF saver.armed THEN 3 - saver.level ELSE 0) + (IF moved THEN 4 ELSE 0)

\* How much of the interval the newest idle() has left.
LoopLeft ==
    IF loops = <<>> \/ Head(loops).elapsed >= interval THEN 0
    ELSE 2 * (interval - Head(loops).elapsed)

RestLeft == IF Resting THEN 1 ELSE 0

\* What is left of the way to the end of the interval: each turn of the saver
\* may begin one more idle().
SleepLeft == (2 * interval + 2) * SaverLeft + LoopLeft + RestLeft

\* Each thing that the device does by itself, while nobody uses it, brings it
\* nearer to be put away, or puts it away.
UnusedRunsDown ==
    [][(Saver \/ EpitWakes \/ Loop \/ USBCableChanged)
         /\ type # "none" /\ count = 0 /\ ~usb
       => told'.what = type \/ SleepLeft' < SleepLeft]_vars

-----------------------------------------------------------------------------
\* A client that asks is heard, and nothing is kept awake when all have taken back
\* what they asked for.
IR == INSTANCE IdleReferences WITH awake <- count > 0

\* enableIdle() and resetIdle() keep what IdleReferences promises.
ReferencesKept == IR!Spec
=============================================================================
