------------------------ MODULE SuspendResumeProofs ------------------------
(***************************************************************************)
(* Theorems about SuspendResume, for every set of clients and every bound. *)
(***************************************************************************)
EXTENDS SuspendResume, SequenceTheorems, TLAPS

-----------------------------------------------------------------------------
(* The stack of activations.                                               *)

\* The newest activation is the first of the stack.
LEMMA TopIsFirst ==
    ASSUME frames \in Seq(Frame), frames # <<>>
    PROVE  /\ Top = frames[1] /\ Top \in Frame
           /\ 1 \in 1..Len(frames) /\ DOMAIN frames = 1..Len(frames)
  BY HeadTailProperties, LenProperties, EmptySeq DEF Top

\* Replacing the newest activation by another one.
LEMMA NewTop ==
    ASSUME frames \in Seq(Frame), frames # <<>>, NEW f \in Frame,
           frames' = [frames EXCEPT ![1] = f]
    PROVE  /\ frames' \in Seq(Frame) /\ frames' # <<>>
           /\ Len(frames') = Len(frames) /\ Top' = f
           /\ \A i \in 2..Len(frames) : frames'[i] = frames[i]
<1>1. 1 \in 1..Len(frames)
  BY TopIsFirst
<1>2. /\ frames' \in Seq(Frame) /\ Len(frames') = Len(frames)
      /\ \A i \in 1..Len(frames) : frames'[i] = IF i = 1 THEN f ELSE frames[i]
  BY <1>1, ExceptSeq
<1>3. frames' # <<>>
  BY <1>1, <1>2, EmptySeq
<1>4. Top' = frames'[1]
  BY <1>2, <1>3 DEF Top
<1> QED
  BY <1>1, <1>2, <1>3, <1>4

\* Moving the newest activation on changes only where it is.
LEMMA GotoTop ==
    ASSUME frames \in Seq(Frame), frames # <<>>,
           NEW pc \in Pumping \cup {"asleep"}, frames' = Goto(pc)
    PROVE  /\ frames' \in Seq(Frame) /\ frames' # <<>>
           /\ Len(frames') = Len(frames) /\ Top' = [Top EXCEPT !.pc = pc]
           /\ \A i \in 2..Len(frames) : frames'[i] = frames[i]
<1>1. /\ Top = frames[1] /\ Top \in Frame
      /\ 1 \in 1..Len(frames) /\ DOMAIN frames = 1..Len(frames)
  BY TopIsFirst
<1>2. frames' = [frames EXCEPT ![1] = [Top EXCEPT !.pc = pc]]
  BY <1>1 DEF Goto
<1>3. [Top EXCEPT !.pc = pc] \in Frame
  BY <1>1 DEF Frame
<1> QED
  BY <1>2, <1>3, NewTop

\* Returning from the newest activation.
LEMMA PopTop ==
    ASSUME frames \in Seq(Frame), frames # <<>>, frames' = Tail(frames)
    PROVE  /\ frames' \in Seq(Frame) /\ Len(frames') = Len(frames) - 1
           /\ \A i \in 1..Len(frames') : frames'[i] = frames[i + 1]
  BY HeadTailProperties

\* Entering suspend() puts a new activation on top of the others.
LEMMA PushTop ==
    ASSUME frames \in Seq(Frame), NEW f \in Frame,
           frames' = <<f>> \o [i \in DOMAIN frames |-> Reenter(frames[i])]
    PROVE  /\ frames' \in Seq(Frame) /\ frames' # <<>>
           /\ Len(frames') = Len(frames) + 1 /\ Top' = f
           /\ \A i \in 2..Len(frames') : frames'[i].reentered
<1> DEFINE older == [i \in DOMAIN frames |-> Reenter(frames[i])]
<1>1. \A g \in Frame : Reenter(g) \in Frame /\ Reenter(g).reentered
  BY DEF Reenter, Frame
<1>2. Len(frames) \in Nat /\ DOMAIN frames = 1..Len(frames)
      /\ \A i \in 1..Len(frames) : frames[i] \in Frame
  BY LenProperties, ElementOfSeq
<1>3. older \in [1..Len(frames) -> Frame]
  BY <1>1, <1>2
<1>4. older \in Seq(Frame) /\ Len(older) = Len(frames)
      /\ \A i \in 1..Len(frames) : older[i].reentered
  BY <1>1, <1>2, <1>3
<1>5. <<f>> \in Seq(Frame) /\ Len(<<f>>) = 1 /\ <<f>>[1] = f
  OBVIOUS
<1> HIDE DEF older
<1>6. /\ <<f>> \o older \in Seq(Frame)
      /\ Len(<<f>> \o older) = Len(frames) + 1
      /\ \A i \in 1..(Len(frames) + 1) :
           (<<f>> \o older)[i] = IF i <= 1 THEN <<f>>[i] ELSE older[i - 1]
  BY <1>4, <1>5, ConcatProperties
<1>7. frames' = <<f>> \o older
  BY DEF older
<1>8. frames' # <<>> /\ Top' = frames'[1]
  BY <1>2, <1>6, <1>7, EmptySeq DEF Top
<1>9. Top' = f
  BY <1>2, <1>5, <1>6, <1>7, <1>8
<1>10. ASSUME NEW i \in 2..Len(frames')
       PROVE  frames'[i].reentered
  <2>1. i \in 1..(Len(frames) + 1) /\ ~(i <= 1) /\ i - 1 \in 1..Len(frames)
    BY <1>2, <1>6, <1>7
  <2>2. frames'[i] = older[i - 1]
    BY <2>1, <1>6, <1>7
  <2> QED
    BY <2>1, <2>2, <1>4
<1> QED
  BY <1>6, <1>7, <1>8, <1>9, <1>10

\* The D-Bus timeout of the shell leaves the stack as it is.
LEMMA TimeoutFrames ==
    ASSUME frames \in Seq(Frame),
           frames' = [i \in DOMAIN frames |-> [frames[i] EXCEPT !.awaited = FALSE]]
    PROVE  /\ frames' \in Seq(Frame) /\ Len(frames') = Len(frames)
           /\ \A i \in 1..Len(frames) :
                frames'[i] = [frames[i] EXCEPT !.awaited = FALSE]
<1>1. Len(frames) \in Nat /\ DOMAIN frames = 1..Len(frames)
      /\ \A i \in 1..Len(frames) : frames[i] \in Frame
  BY LenProperties, ElementOfSeq
<1>2. \A g \in Frame : [g EXCEPT !.awaited = FALSE] \in Frame
  BY DEF Frame
<1>3. frames' \in [1..Len(frames) -> Frame]
  BY <1>1, <1>2
<1> QED
  BY <1>1, <1>3

-----------------------------------------------------------------------------
(* Type correctness.                                                       *)

\* Every variable keeps its shape initially.
LEMMA InitType == Init => TypeOK
<1> SUFFICES ASSUME Init PROVE TypeOK
  OBVIOUS
<1>1. frames \in Seq(Frame)
  BY EmptySeq DEF Init
<1>2. shell \in Shells
  <2>1. <<>> \in Seq(Signals)
    BY EmptySeq
  <2> QED
    BY <2>1 DEF Init, Shells
<1>3. /\ context \in Contexts /\ device \in Devices
      /\ timers \in Timers /\ battery \in Batteries /\ card \in Cards
  BY DEF Init, Contexts, Devices, Timers, Batteries, Cards, UsbStates, Voltages
<1> QED
  BY <1>1, <1>2, <1>3 DEF Init, TypeOK

\* Telling the shell something, and answering it.
LEMMA ShellType ==
    ASSUME TypeOK
    PROVE  /\ \A signal \in Signals : Tell(signal) \in Shells
           /\ \A s \in Shells : Answered(s) \in Shells
<1>1. ASSUME NEW signal \in Signals
      PROVE  Tell(signal) \in Shells
  <2>1. shell \in Shells /\ shell.signals \in Seq(Signals)
    BY DEF TypeOK, Shells
  <2>2. Append(shell.signals, signal) \in Seq(Signals)
    BY <2>1, AppendProperties
  <2> QED
    BY <2>1, <2>2 DEF Tell, Shells
<1>2. ASSUME NEW s \in Shells
      PROVE  Answered(s) \in Shells
  BY DEF Answered, Shells
<1> QED
  BY <1>1, <1>2

\* Leaving deepSleep(), either way.
LEMMA LeaveType ==
    ASSUME TypeOK, frames # <<>>, NEW voltage, NEW told \in Shells,
           LeaveDeepSleep(voltage, told)
    PROVE  /\ frames' \in Seq(Frame) /\ shell' \in Shells
           /\ condemned' \in BOOLEAN /\ dark' \in BOOLEAN
  BY ShellType, GotoTop, PopTop DEF TypeOK, LeaveDeepSleep, Pumping

\* The steps of suspend() keep the shape of every variable.
LEMMA SuspendStepsType == TypeOK /\ SuspendSteps => TypeOK'
<1> SUFFICES ASSUME TypeOK, SuspendSteps PROVE TypeOK'
  OBVIOUS
<1>t. /\ context \in Contexts /\ device \in Devices /\ frames \in Seq(Frame)
      /\ timers \in Timers /\ shell \in Shells /\ battery \in Batteries
      /\ card \in Cards /\ cable \in BOOLEAN /\ condemned \in BOOLEAN
      /\ dark \in BOOLEAN /\ off \in BOOLEAN
  BY DEF TypeOK
<1>a. ASSUME NEW pc, At(pc)
      PROVE  frames # <<>> /\ Top \in Frame /\ Top = frames[1]
             /\ DOMAIN frames = 1..Len(frames) /\ 1 \in 1..Len(frames)
  BY <1>a, <1>t, TopIsFirst DEF At
<1>1. CASE SuspendCall
  <2> DEFINE new == [pc |-> "pre_script", inserted |-> card.mounted,
                     awaited |-> shell.calling /\ shell.calls = 1,
                     wifi |-> FALSE, tg |-> FALSE, settled |-> CardSettled,
                     reentered |-> FALSE]
  <2>1. new \in Frame
    BY <1>t DEF Frame, Pumping, CardSettled, Cards
  <2>2. frames' \in Seq(Frame)
    BY <1>1, <1>t, <2>1, PushTop DEF SuspendCall
  <2>3. shell' \in Shells
    <3>1. shell.calls \in Nat /\ shell.calls > 0
      BY <1>1, <1>t DEF SuspendCall, Shells
    <3>2. shell.calls - 1 \in Nat
      BY <3>1
    <3>3. shell' = [shell EXCEPT !.calls = shell.calls - 1]
      BY <1>1 DEF SuspendCall
    <3> QED
      BY <3>2, <3>3, <1>t DEF Shells
  <2>4. context' \in Contexts /\ device' \in Devices
    BY <1>1, <1>t DEF SuspendCall, Contexts, Devices
  <2> QED
    BY <1>1, <1>t, <2>2, <2>3, <2>4 DEF SuspendCall, TypeOK
<1>2. CASE PreSuspend
  <2> DEFINE new == [Top EXCEPT !.pc = "asleep", !.wifi = device.wifi,
                                !.tg = device.tg]
  <2>1. frames # <<>> /\ Top \in Frame /\ frames' = [frames EXCEPT ![1] = new]
    BY <1>2, <1>a DEF PreSuspend
  <2>2. new \in Frame
    BY <1>t, <2>1 DEF Frame, Devices
  <2>3. frames' \in Seq(Frame)
    BY <1>t, <2>1, <2>2, NewTop
  <2>4. context' \in Contexts /\ device' \in Devices
    BY <1>2, <1>t DEF PreSuspend, Contexts, Devices
  <2> QED
    BY <1>2, <1>t, <2>3, <2>4 DEF PreSuspend, TypeOK
<1>3. CASE WakeupByEPIT
  <2>1. frames' \in Seq(Frame)
    BY <1>3, <1>t, <1>a, GotoTop DEF WakeupByEPIT, Pumping
  <2> QED
    BY <1>3, <1>t, <2>1 DEF WakeupByEPIT, TypeOK
<1>4. CASE WakeupByKey
  BY <1>4, <1>t, <1>a, LeaveType DEF WakeupByKey, TypeOK
<1>5. CASE EPITLoopEnds
  <2>1. frames # <<>> /\ battery' \in Batteries
    BY <1>5, <1>t, <1>a DEF EPITLoopEnds, Batteries
  <2>2. CASE cable \/ battery.cell = "good"
    <3>1. frames' \in Seq(Frame) /\ shell' = shell /\ UNCHANGED <<condemned, dark>>
      BY <1>5, <1>t, <2>1, <2>2, GotoTop DEF EPITLoopEnds
    <3> QED
      BY <1>5, <1>t, <2>1, <3>1 DEF EPITLoopEnds, TypeOK
  <2>3. CASE ~cable /\ battery.cell # "good"
    <3> DEFINE told == IF Room THEN Tell("aboutToShutdown") ELSE shell
    <3>1. told \in Shells
      BY <1>t, ShellType DEF Signals
    <3>2. LeaveDeepSleep(battery.cell, told)
      BY <1>5, <2>3 DEF EPITLoopEnds
    <3>3. /\ frames' \in Seq(Frame) /\ shell' \in Shells
          /\ condemned' \in BOOLEAN /\ dark' \in BOOLEAN
      BY <2>1, <3>1, <3>2, LeaveType
    <3> QED
      BY <1>5, <1>t, <2>1, <3>3 DEF EPITLoopEnds, TypeOK
  <2> QED
    BY <2>2, <2>3
<1>6. CASE PostSuspend
  <2>1. frames' \in Seq(Frame)
    BY <1>6, <1>t, <1>a, GotoTop DEF PostSuspend, Pumping
  <2>2. device' \in Devices
    BY <1>6, <1>t DEF PostSuspend, Devices, Contexts
  <2> QED
    BY <1>6, <1>t, <2>1, <2>2 DEF PostSuspend, TypeOK
<1>7. CASE SuspendReturns
  <2>1. frames' \in Seq(Frame)
    BY <1>7, <1>t, <1>a, PopTop DEF SuspendReturns
  <2>2. context' \in Contexts /\ device' \in Devices
    BY <1>7, <1>t DEF SuspendReturns, Contexts, Devices, AwakeContext
  <2>3. timers' \in Timers
    BY <1>7, <1>t DEF SuspendReturns, Timers, Reconnect
  <2>4. card' \in Cards
    BY <1>7, <1>t DEF SuspendReturns, Cards, Contexts, RecheckSd
  <2>5. shell' \in Shells
    BY <1>7, <1>t, ShellType DEF SuspendReturns
  <2> QED
    BY <1>7, <1>t, <2>1, <2>2, <2>3, <2>4, <2>5 DEF SuspendReturns, TypeOK
<1> QED
  BY <1>1, <1>2, <1>3, <1>4, <1>5, <1>6, <1>7 DEF SuspendSteps

\* So do the requests to suspend and to shut down.
LEMMA RequestStepsType == TypeOK /\ RequestSteps => TypeOK'
<1> SUFFICES ASSUME TypeOK, RequestSteps PROVE TypeOK'
  OBVIOUS
<1>t. /\ context \in Contexts /\ device \in Devices /\ frames \in Seq(Frame)
      /\ timers \in Timers /\ shell \in Shells /\ battery \in Batteries
      /\ card \in Cards /\ cable \in BOOLEAN /\ condemned \in BOOLEAN
      /\ dark \in BOOLEAN /\ off \in BOOLEAN
  BY DEF TypeOK
<1>b. ASSUME NEW toggled \in BOOLEAN, BroadcastSuspendSignal(toggled)
      PROVE  context' \in Contexts /\ shell' \in Shells /\ timers' \in Timers
  <2>1. Tell("aboutToSuspend") \in Shells
    BY ShellType DEF Signals
  <2>2. shell' \in Shells
    BY <1>b, <1>t, <2>1 DEF BroadcastSuspendSignal
  <2>3. context' \in Contexts
    <3>1. context.suspend_count + 1 \in Nat
      BY <1>t DEF Contexts
    <3>2. context' = [context EXCEPT !.suspend_count = context.suspend_count + 1,
                                     !.sleeping = toggled]
      BY <1>b DEF BroadcastSuspendSignal
    <3> QED
      BY <1>t, <3>1, <3>2 DEF Contexts
  <2>4. timers' \in Timers
    BY <1>b, <1>t DEF BroadcastSuspendSignal, Timers
  <2> QED
    BY <2>2, <2>3, <2>4
<1>s. shell.signals # <<>> => Tail(shell.signals) \in Seq(Signals)
  BY <1>t, HeadTailProperties DEF Shells
<1>c. ASSUME NEW signals \in Seq(Signals), ShellCalls(signals)
      PROVE  shell' \in Shells
  <2>1. shell.calls + 1 \in Nat
    BY <1>t DEF Shells
  <2>2. shell' = [shell EXCEPT !.calling = TRUE, !.calls = shell.calls + 1,
                               !.signals = signals]
    BY <1>c DEF ShellCalls
  <2> QED
    BY <1>t, <2>1, <2>2 DEF Shells
<1>1. CASE StandbyPressed
  <2>1. (~context.sleeping) \in BOOLEAN
    BY <1>t DEF Contexts
  <2>2. context' \in Contexts /\ shell' \in Shells /\ timers' \in Timers
    <3>1. CASE BroadcastSuspendSignal(~context.sleeping)
      BY <2>1, <3>1, <1>b
    <3>2. CASE context' = [context EXCEPT !.sleeping = ~@] /\ UNCHANGED <<shell, timers>>
      BY <1>t, <2>1, <3>2 DEF Contexts
    <3> QED
      BY <1>1, <3>1, <3>2 DEF StandbyPressed
  <2> QED
    BY <1>1, <1>t, <2>2 DEF StandbyPressed, TypeOK
<1>2. CASE AutoSuspend
  <2>1. battery' \in Batteries
    BY <1>2, <1>t DEF AutoSuspend, Batteries
  <2>2. context' \in Contexts /\ shell' \in Shells /\ timers' \in Timers
    BY <1>2, <1>t, <1>b DEF AutoSuspend, Contexts
  <2> QED
    BY <1>2, <1>t, <2>1, <2>2 DEF AutoSuspend, TypeOK
<1>3. CASE CleanSuspend
  <2>1. timers' \in Timers
    <3>1. timers.clean - 1 \in Nat
      BY <1>3, <1>t DEF CleanSuspend, Timers
    <3> QED
      BY <1>3, <1>t, <3>1 DEF CleanSuspend, Timers
  <2>2. context' \in Contexts
    <3> DEFINE n == IF context.suspend_count - 1 < 0 THEN 0
                    ELSE context.suspend_count - 1
    <3>1. n \in Nat
      BY <1>t DEF Contexts
    <3>2. context' = [context EXCEPT !.suspend_count = n]
      BY <1>3 DEF CleanSuspend
    <3> HIDE DEF n
    <3> QED
      BY <1>t, <3>1, <3>2 DEF Contexts
  <2> QED
    BY <1>3, <1>t, <2>1, <2>2 DEF CleanSuspend, TypeOK
<1>4. CASE ShutdownPressed
  <2>1. shell' \in Shells
    BY <1>4, ShellType DEF ShutdownPressed, Signals
  <2>2. context' \in Contexts /\ timers' \in Timers
    BY <1>4, <1>t DEF ShutdownPressed, Contexts, Timers
  <2> QED
    BY <1>4, <1>t, <2>1, <2>2 DEF ShutdownPressed, TypeOK
<1>5. CASE ShutdownTimeout
  <2>1. timers.shutdown - 1 \in Nat
    BY <1>5, <1>t DEF ShutdownTimeout, Timers
  <2>2. timers' \in Timers
    BY <1>5, <1>t, <2>1 DEF ShutdownTimeout, Timers
  <2>3. device' \in Devices /\ off' \in BOOLEAN
    BY <1>5, <1>t DEF ShutdownTimeout, Shutdown, Devices
  <2> QED
    BY <1>5, <1>t, <2>2, <2>3 DEF ShutdownTimeout, Shutdown, TypeOK
<1>6. CASE ShutdownCall
  <2>1. shell' \in Shells
    BY <1>6, <1>t DEF ShutdownCall, Shells
  <2>2. device' \in Devices /\ off' \in BOOLEAN
    BY <1>6, <1>t DEF ShutdownCall, Shutdown, Devices
  <2> QED
    BY <1>6, <1>t, <2>1, <2>2 DEF ShutdownCall, Shutdown, TypeOK
<1>7. CASE ShellSuspends
  <2>1. shell' \in Shells
    BY <1>7, <1>s, <1>c DEF ShellSuspends
  <2> QED
    BY <1>7, <1>t, <2>1 DEF ShellSuspends, TypeOK
<1>8. CASE MenuSuspends
  <2>1. shell' \in Shells
    <3>1. shell.signals \in Seq(Signals)
      BY <1>t DEF Shells
    <3> QED
      BY <1>8, <3>1, <1>c DEF MenuSuspends
  <2> QED
    BY <1>8, <1>t, <2>1 DEF MenuSuspends, TypeOK
<1>9. CASE ShellShutsDown
  <2>1. shell' \in Shells
    BY <1>9, <1>t, <1>s DEF ShellShutsDown, Shells
  <2> QED
    BY <1>9, <1>t, <2>1 DEF ShellShutsDown, TypeOK
<1>10. CASE ShellTimeout
  <2>1. frames' \in Seq(Frame)
    BY <1>10, <1>t, TimeoutFrames DEF ShellTimeout
  <2>2. shell' \in Shells
    BY <1>10, <1>t DEF ShellTimeout, Shells
  <2> QED
    BY <1>10, <1>t, <2>1, <2>2 DEF ShellTimeout, TypeOK
<1> QED
  BY <1>1, <1>2, <1>3, <1>4, <1>5, <1>6, <1>7, <1>8, <1>9, <1>10 DEF RequestSteps

\* So do the events of the other devices.
LEMMA DeviceStepsType == TypeOK /\ DeviceSteps => TypeOK'
<1> SUFFICES ASSUME TypeOK, DeviceSteps PROVE TypeOK'
  OBVIOUS
<1>t. /\ context \in Contexts /\ device \in Devices /\ frames \in Seq(Frame)
      /\ timers \in Timers /\ shell \in Shells /\ battery \in Batteries
      /\ card \in Cards /\ cable \in BOOLEAN /\ condemned \in BOOLEAN
      /\ dark \in BOOLEAN /\ off \in BOOLEAN
  BY DEF TypeOK
<1>l. LeaveSlaveMode => context' \in Contexts /\ device' \in Devices /\ dark' \in BOOLEAN
  BY <1>t DEF LeaveSlaveMode, Contexts, Devices, UsbStates
<1>g. Connect3g => context' \in Contexts /\ device' = device
  BY <1>t DEF Connect3g, Contexts, UsbStates
<1>1. CASE EnableWifi
  <2>1. device' \in Devices
    BY <1>1, <1>t DEF EnableWifi, Devices
  <2> QED
    BY <1>1, <1>t, <2>1 DEF EnableWifi, TypeOK
<1>2. CASE ThreeGEvent
  <2>1. context' \in Contexts /\ device' \in Devices
    <3>1. CASE Connect3g
      BY <3>1, <1>g, <1>t
    <3>2. CASE /\ \E connected \in BOOLEAN : device' = [device EXCEPT !.tg = connected]
               /\ UNCHANGED context
      BY <3>2, <1>t DEF Devices
    <3> QED
      BY <1>2, <3>1, <3>2 DEF ThreeGEvent
  <2> QED
    BY <1>2, <1>t, <2>1 DEF ThreeGEvent, TypeOK
<1>3. CASE ReconnectTimeout
  <2>1. timers.reconnect - 1 \in Nat
    BY <1>3, <1>t DEF ReconnectTimeout, Timers
  <2>2. timers' \in Timers
    BY <1>3, <1>t, <2>1 DEF ReconnectTimeout, Timers
  <2>3. context' \in Contexts /\ device' \in Devices
    BY <1>3, <1>g, <1>t DEF ReconnectTimeout
  <2> QED
    BY <1>3, <1>t, <2>2, <2>3 DEF ReconnectTimeout, TypeOK
<1>4. CASE SdCardChanged
  <2>1. context' \in Contexts
    BY <1>4, <1>t DEF SdCardChanged, Contexts
  <2> QED
    BY <1>4, <1>t, <2>1 DEF SdCardChanged, TypeOK
<1>5. CASE SDChanged
  <2>1. card' \in Cards
    BY <1>5, <1>t DEF SDChanged, Cards, Contexts
  <2> QED
    BY <1>5, <1>t, <2>1 DEF SDChanged, TypeOK
<1>6. CASE PlugOrUnplug
  BY <1>6, <1>t DEF PlugOrUnplug, TypeOK
<1>7. CASE USBCableChanged
  <2>1. context' \in Contexts /\ device' \in Devices /\ dark' \in BOOLEAN
    BY <1>7, <1>t, <1>l DEF USBCableChanged, Contexts, UsbStates
  <2> QED
    BY <1>7, <1>t, <2>1 DEF USBCableChanged, TypeOK
<1>8. CASE UdevUSBDisconnect
  BY <1>8, <1>t, <1>l DEF UdevUSBDisconnect, TypeOK
<1>9. CASE WorkInUSBSlaveMode
  <2>1. context' \in Contexts /\ device' \in Devices /\ card' \in Cards
    BY <1>9, <1>t DEF WorkInUSBSlaveMode, Contexts, Devices, Cards, UsbStates
  <2> QED
    BY <1>9, <1>t, <2>1 DEF WorkInUSBSlaveMode, TypeOK
<1>10. CASE SetSystemBusy
  <2>1. device' \in Devices
    BY <1>10, <1>t DEF SetSystemBusy, Devices
  <2> QED
    BY <1>10, <1>t, <2>1 DEF SetSystemBusy, TypeOK
<1>11. CASE ResetTouchScreen
  <2>1. device' \in Devices
    BY <1>11, <1>t DEF ResetTouchScreen, Devices
  <2> QED
    BY <1>11, <1>t, <2>1 DEF ResetTouchScreen, TypeOK
<1>12. CASE CellChanges
  <2>1. battery' \in Batteries
    BY <1>12, <1>t DEF CellChanges, Batteries, Voltages
  <2> QED
    BY <1>12, <1>t, <2>1 DEF CellChanges, TypeOK
<1>13. CASE UpdateBattery
  <2>1. battery' \in Batteries
    BY <1>13, <1>t DEF UpdateBattery, Batteries
  <2>2. shell' \in Shells
    BY <1>13, <1>t, ShellType DEF UpdateBattery, Signals
  <2> QED
    BY <1>13, <1>t, <2>1, <2>2 DEF UpdateBattery, TypeOK
<1> QED
  BY <1>1, <1>2, <1>3, <1>4, <1>5, <1>6, <1>7, <1>8, <1>9, <1>10, <1>11,
     <1>12, <1>13 DEF DeviceSteps

\* The system manager, the shell and the hardware never leave the values their
\* code declares: the counters stay above zero, the stack stays a stack.
THEOREM TypeCorrect == Spec => []TypeOK
<1>1. Init => TypeOK
  BY InitType
<1>2. TypeOK /\ [Next]_vars => TypeOK'
  <2> SUFFICES ASSUME TypeOK, [Next]_vars PROVE TypeOK'
    OBVIOUS
  <2>1. CASE UNCHANGED vars
    BY <2>1 DEF vars, TypeOK
  <2> QED
    BY <2>1, SuspendStepsType, RequestStepsType, DeviceStepsType DEF Next
<1> QED
  BY <1>1, <1>2, PTL DEF Spec

-----------------------------------------------------------------------------
(* The key, the touch screen and the broadcasts come back.                 *)

\* What the steps outside suspend() leave alone.
LEMMA OutsideSteps ==
    ASSUME TypeOK, RequestSteps \/ DeviceSteps
    PROVE  /\ context'.broadcast = context.broadcast
           /\ context'.wifi_state = context.wifi_state
           /\ context'.threeg_connected = context.threeg_connected
           /\ device'.standby = device.standby
           /\ device.touch => device'.touch
           /\ (device.touch => device.reset) => (device'.touch => device'.reset)
           /\ condemned' = condemned
           /\ (frames' = frames \/ ShellTimeout)
<1> USE DEF TypeOK, Contexts, Devices
<1>1. CASE RequestSteps
  BY <1>1 DEF RequestSteps, StandbyPressed, AutoSuspend, CleanSuspend,
     ShutdownPressed, ShutdownTimeout, ShutdownCall, ShellSuspends,
     MenuSuspends, ShellShutsDown, ShellTimeout, BroadcastSuspendSignal, Shutdown
<1>2. CASE DeviceSteps
  BY <1>2 DEF DeviceSteps, EnableWifi, ThreeGEvent, ReconnectTimeout,
     SdCardChanged, SDChanged, PlugOrUnplug, USBCableChanged,
     UdevUSBDisconnect, ResetTouchScreen, WorkInUSBSlaveMode, SetSystemBusy, CellChanges,
     UpdateBattery, LeaveSlaveMode, Connect3g
<1> QED
  BY <1>1, <1>2

\* An activation that gives up leaves the device condemned; any other step of
\* suspend() but its return leaves the stack non-empty.
LEMMA StackOrCondemned ==
    ASSUME TypeOK, SuspendSteps
    PROVE  frames' # <<>> \/ condemned' \/ SuspendReturns
<1>t. frames \in Seq(Frame)
  BY DEF TypeOK
<1>a. ASSUME NEW pc, At(pc)
      PROVE  frames # <<>> /\ Top \in Frame
  BY <1>a, <1>t, TopIsFirst DEF At
<1>1. CASE SuspendCall
  <2> DEFINE new == [pc |-> "pre_script", inserted |-> card.mounted,
                     awaited |-> shell.calling /\ shell.calls = 1,
                     wifi |-> FALSE, tg |-> FALSE, settled |-> CardSettled,
                     reentered |-> FALSE]
  <2>1. new \in Frame
    BY DEF Frame, Pumping, CardSettled, TypeOK, Cards
  <2> QED
    BY <1>1, <1>t, <2>1, PushTop DEF SuspendCall
<1>2. CASE PreSuspend
  <2>1. Len(frames') = Len(frames) /\ frames' # <<>>
    <3>1. [Top EXCEPT !.pc = "asleep", !.wifi = device.wifi, !.tg = device.tg]
            \in Frame
      BY <1>2, <1>a DEF PreSuspend, Frame, TypeOK, Devices
    <3>2. frames' = [frames EXCEPT ![1] = [Top EXCEPT !.pc = "asleep",
                        !.wifi = device.wifi, !.tg = device.tg]]
      BY <1>2, <1>a, <1>t, TopIsFirst DEF PreSuspend
    <3> QED
      BY <1>2, <1>a, <1>t, <3>1, <3>2, NewTop DEF PreSuspend
  <2> QED
    BY <2>1
<1>3. CASE WakeupByEPIT
  BY <1>3, <1>t, <1>a, GotoTop DEF WakeupByEPIT, Pumping
<1>w. ASSUME frames # <<>>, NEW voltage, NEW told, LeaveDeepSleep(voltage, told)
      PROVE  frames' # <<>> \/ condemned'
  BY <1>w, <1>t, GotoTop DEF LeaveDeepSleep, Pumping
<1>4. CASE WakeupByKey
  BY <1>4, <1>a, <1>w DEF WakeupByKey
<1>5. CASE EPITLoopEnds
  BY <1>5, <1>t, <1>a, <1>w, GotoTop DEF EPITLoopEnds
<1>6. CASE PostSuspend
  BY <1>6, <1>t, <1>a, GotoTop DEF PostSuspend, Pumping
<1> QED
  BY <1>1, <1>2, <1>3, <1>4, <1>5, <1>6 DEF SuspendSteps

\* A step preserves AwakeRestored.
LEMMA AwakeRestoredStep ==
    TypeOK /\ AwakeRestored /\ [Next]_vars => AwakeRestored'
<1> SUFFICES ASSUME TypeOK, AwakeRestored, [Next]_vars PROVE AwakeRestored'
  OBVIOUS
<1>1. CASE UNCHANGED vars
  BY <1>1 DEF vars, AwakeRestored
<1>2. CASE RequestSteps \/ DeviceSteps
  <2>1. frames' = <<>> => frames = <<>>
    <3>1. CASE ShellTimeout
      BY <3>1, TimeoutFrames, EmptySeq, LenProperties DEF ShellTimeout, TypeOK
    <3> QED
      BY <1>2, <3>1, OutsideSteps
  <2> QED
    BY <1>2, <2>1, OutsideSteps DEF AwakeRestored
<1>3. CASE SuspendSteps
  <2>1. CASE SuspendReturns
    BY <2>1 DEF SuspendReturns, AwakeRestored, TypeOK, Contexts, Devices,
       AwakeContext
  <2> QED
    BY <1>3, <2>1, StackOrCondemned DEF AwakeRestored
<1> QED
  BY <1>1, <1>2, <1>3 DEF Next

\* However suspend() was re-entered, timed out or interrupted, an awake device
\* has its standby key, touch screen and broadcasts back.
THEOREM AwakeIsRestored == Spec => []AwakeRestored
<1>1. Init => AwakeRestored
  <2> SUFFICES ASSUME Init PROVE AwakeRestored
    OBVIOUS
  <2>1. context.broadcast = TRUE /\ device.standby = TRUE /\ device.touch = TRUE
    BY DEF Init
  <2> QED
    BY <2>1 DEF AwakeRestored
<1> QED
  BY <1>1, TypeCorrect, AwakeRestoredStep, PTL DEF Spec

-----------------------------------------------------------------------------
(* The suspend count is backed by timers.                                  *)

\* A step preserves SuspendCountBacked.
LEMMA SuspendCountStep ==
    TypeOK /\ SuspendCountBacked /\ [Next]_vars => SuspendCountBacked'
<1> SUFFICES ASSUME TypeOK, SuspendCountBacked, [Next]_vars
             PROVE  SuspendCountBacked'
  OBVIOUS
<1>t. /\ context.suspend_count \in Nat /\ timers.clean \in Nat
      /\ timers.shutdown \in Nat /\ context \in Contexts /\ timers \in Timers
  BY DEF TypeOK, Contexts, Timers
<1>k. ASSUME context'.suspend_count = context.suspend_count, off' = off,
             timers'.clean = timers.clean, timers'.shutdown = timers.shutdown
      PROVE  SuspendCountBacked'
  BY <1>k DEF SuspendCountBacked
<1>b. ASSUME NEW toggled, BroadcastSuspendSignal(toggled), off' = off
      PROVE  SuspendCountBacked'
  BY <1>b, <1>t DEF BroadcastSuspendSignal, SuspendCountBacked, Contexts, Timers
<1>1. CASE UNCHANGED vars
  BY <1>1, <1>k DEF vars
<1>2. CASE SuspendReturns
  BY <1>2, <1>t DEF SuspendReturns, SuspendCountBacked, Contexts, Timers,
     AwakeContext, Reconnect
<1>3. CASE SuspendSteps /\ ~SuspendReturns
  BY <1>3, <1>k, <1>t DEF SuspendSteps, SuspendCall, PreSuspend, WakeupByEPIT,
     WakeupByKey, EPITLoopEnds, PostSuspend, Contexts
<1>4. CASE StandbyPressed
  BY <1>4, <1>b, <1>k, <1>t DEF StandbyPressed, Contexts
<1>5. CASE AutoSuspend
  BY <1>5, <1>b, <1>k DEF AutoSuspend
<1>6. CASE CleanSuspend
  BY <1>6, <1>t DEF CleanSuspend, SuspendCountBacked, Contexts, Timers
<1>7. CASE ShutdownPressed
  BY <1>7, <1>t DEF ShutdownPressed, SuspendCountBacked, Contexts, Timers
<1>8. CASE ShutdownTimeout \/ ShutdownCall
  BY <1>8 DEF ShutdownTimeout, ShutdownCall, Shutdown, SuspendCountBacked
<1>9. CASE ShellSuspends \/ MenuSuspends \/ ShellShutsDown \/ ShellTimeout
  BY <1>9, <1>k DEF ShellSuspends, MenuSuspends, ShellShutsDown, ShellTimeout
<1>10. CASE DeviceSteps
  BY <1>10, <1>k, <1>t DEF DeviceSteps, EnableWifi, ThreeGEvent,
     ReconnectTimeout, SdCardChanged, SDChanged, PlugOrUnplug, USBCableChanged,
     UdevUSBDisconnect, ResetTouchScreen, WorkInUSBSlaveMode, SetSystemBusy, CellChanges,
     UpdateBattery, LeaveSlaveMode, Connect3g, Contexts, Timers
<1> QED
  BY <1>1, <1>2, <1>3, <1>4, <1>5, <1>6, <1>7, <1>8, <1>9, <1>10
     DEF Next, RequestSteps

\* suspend_count never exceeds the timers that are going to lower it: the
\* standby key is never blocked for good.
THEOREM SuspendCountIsBacked == Spec => []SuspendCountBacked
<1>1. Init => SuspendCountBacked
  <2> SUFFICES ASSUME Init PROVE SuspendCountBacked
    OBVIOUS
  <2>1. context.suspend_count = 0 /\ timers.clean = 0 /\ timers.shutdown = 0
    BY DEF Init
  <2> QED
    BY <2>1 DEF SuspendCountBacked
<1> QED
  BY <1>1, TypeCorrect, SuspendCountStep, PTL DEF Spec

-----------------------------------------------------------------------------
(* What an activation keeps while it lasts.  Only the newest activation may *)
(* not have been re-entered, and until it is, the state it turned off stays *)
(* off and what it stored in the context stays there.                       *)

\* Every activation but the newest was re-entered.
OlderReentered == \A i \in 2..Len(frames) : frames[i].reentered

\* What the newest activation has taken away and stored, if not re-entered.
TopStored ==
    frames # <<>> /\ ~Top.reentered =>
        /\ Top.pc \in {"pre_script", "asleep", "epit_loop"} => ~context.broadcast
        /\ Top.pc \in {"asleep", "epit_loop"} =>
               ~device.standby /\ (device.touch => device.reset)
        /\ Top.pc \in {"asleep", "epit_loop", "post_script"} =>
               context.wifi_state = Top.wifi
        /\ Top.pc \in {"asleep", "epit_loop", "post_script", "key_loop"} =>
               context.threeg_connected = Top.tg

StackInv == OlderReentered /\ TopStored

\* Steps that leave the fields of TopStored and move the newest activation on
\* to a place where less, or the same, is asked of it.
LEMMA MovedOn ==
    ASSUME TypeOK, StackInv, frames # <<>>, NEW pc \in Pumping \cup {"asleep"},
           frames' = Goto(pc), context' = context,
           device'.standby = device.standby, device'.touch = device.touch,
           device'.reset = device.reset,
           \/ Top.pc \in {"asleep", "epit_loop"}
              /\ pc \in {"asleep", "epit_loop", "post_script"}
           \/ Top.pc = "post_script" /\ pc = "key_loop"
    PROVE  StackInv'
<1>1. /\ frames \in Seq(Frame) /\ Top \in Frame
  BY TopIsFirst DEF TypeOK
<1>2. /\ Len(frames') = Len(frames) /\ Top' = [Top EXCEPT !.pc = pc]
      /\ \A i \in 2..Len(frames) : frames'[i] = frames[i]
  BY <1>1, GotoTop
<1>3. /\ Top'.pc = pc /\ Top'.reentered = Top.reentered
      /\ Top'.wifi = Top.wifi /\ Top'.tg = Top.tg
  BY <1>1, <1>2 DEF Frame
<1>4. OlderReentered'
  BY <1>2 DEF StackInv, OlderReentered
<1>5. TopStored'
  BY <1>3 DEF StackInv, TopStored
<1> QED
  BY <1>4, <1>5 DEF StackInv

\* After a return the newest activation, if any, was re-entered.
LEMMA Popped ==
    ASSUME TypeOK, StackInv, frames # <<>>, frames' = Tail(frames)
    PROVE  StackInv'
<1>1. /\ frames \in Seq(Frame) /\ Len(frames) \in Nat /\ frames' \in Seq(Frame)
      /\ Len(frames') = Len(frames) - 1
      /\ \A i \in 1..Len(frames') : frames'[i] = frames[i + 1]
  BY PopTop, LenProperties DEF TypeOK
<1>2. \A i \in 1..Len(frames') : frames'[i].reentered
  <2> SUFFICES ASSUME NEW i \in 1..Len(frames') PROVE frames'[i].reentered
    OBVIOUS
  <2>1. i + 1 \in 2..Len(frames) /\ frames'[i] = frames[i + 1]
    BY <1>1
  <2> QED
    BY <2>1 DEF StackInv, OlderReentered
<1>3. OlderReentered'
  BY <1>1, <1>2 DEF OlderReentered
<1>4. TopStored'
  <2> SUFFICES ASSUME frames' # <<>> PROVE Top'.reentered
    BY DEF TopStored
  <2>1. Top' = frames'[1] /\ 1 \in 1..Len(frames')
    BY <1>1, EmptySeq, HeadTailProperties DEF Top
  <2> QED
    BY <1>2, <2>1
<1> QED
  BY <1>3, <1>4 DEF StackInv

\* Leaving deepSleep(), either way.
LEMMA LeftDeepSleep ==
    ASSUME TypeOK, StackInv, frames # <<>>, NEW voltage, NEW told,
           LeaveDeepSleep(voltage, told), Top.pc \in {"asleep", "epit_loop"},
           context' = context, device' = device
    PROVE  StackInv'
  BY MovedOn, Popped DEF LeaveDeepSleep, Pumping

\* A step of suspend() preserves StackInv.
LEMMA SuspendStepsStack == TypeOK /\ StackInv /\ SuspendSteps => StackInv'
<1> SUFFICES ASSUME TypeOK, StackInv, SuspendSteps PROVE StackInv'
  OBVIOUS
<1>t. frames \in Seq(Frame) /\ device \in Devices /\ context \in Contexts
  BY DEF TypeOK
<1>a. ASSUME NEW pc, At(pc)
      PROVE  frames # <<>> /\ Top \in Frame /\ Top.pc = pc
             /\ Top = frames[1] /\ 1 \in DOMAIN frames
  BY <1>a, <1>t, TopIsFirst DEF At
<1>1. CASE SuspendCall
  <2> DEFINE new == [pc |-> "pre_script", inserted |-> card.mounted,
                     awaited |-> shell.calling /\ shell.calls = 1,
                     wifi |-> FALSE, tg |-> FALSE, settled |-> CardSettled,
                     reentered |-> FALSE]
  <2>1. new \in Frame
    BY DEF Frame, Pumping, CardSettled, TypeOK, Cards
  <2>2. Top' = new /\ \A i \in 2..Len(frames') : frames'[i].reentered
    BY <1>1, <1>t, <2>1, PushTop DEF SuspendCall
  <2>3. ~context'.broadcast
    BY <1>1, <1>t DEF SuspendCall, Contexts
  <2>4. Top'.pc = "pre_script"
    BY <2>2
  <2> QED
    BY <2>2, <2>3, <2>4 DEF StackInv, OlderReentered, TopStored
<1>2. CASE PreSuspend
  <2> DEFINE new == [Top EXCEPT !.pc = "asleep", !.wifi = device.wifi,
                                !.tg = device.tg]
  <2>1. /\ frames # <<>> /\ Top \in Frame /\ Top.pc = "pre_script"
        /\ frames' = [frames EXCEPT ![1] = new]
    BY <1>2, <1>a DEF PreSuspend
  <2>2. new \in Frame
    BY <1>t, <2>1 DEF Frame, Devices
  <2>3. /\ Len(frames') = Len(frames) /\ Top' = new
        /\ \A i \in 2..Len(frames) : frames'[i] = frames[i]
    BY <1>t, <2>1, <2>2, NewTop
  <2>4. /\ Top'.pc = "asleep" /\ Top'.reentered = Top.reentered
        /\ Top'.wifi = device.wifi /\ Top'.tg = device.tg
    BY <2>1, <2>3 DEF Frame
  <2>5. /\ ~device'.standby /\ ~device'.touch /\ ~device'.reset
        /\ context'.broadcast = context.broadcast
        /\ context'.wifi_state = device.wifi
        /\ context'.threeg_connected = device.tg
    BY <1>2, <1>t DEF PreSuspend, Contexts, Devices
  <2>6. OlderReentered'
    BY <2>3 DEF StackInv, OlderReentered
  <2>7. TopStored'
    BY <2>1, <2>4, <2>5 DEF StackInv, TopStored
  <2> QED
    BY <2>6, <2>7 DEF StackInv
<1>3. CASE WakeupByEPIT
  BY <1>3, <1>a, MovedOn DEF WakeupByEPIT, Pumping
<1>4. CASE WakeupByKey
  BY <1>4, <1>a, LeftDeepSleep DEF WakeupByKey
<1>5. CASE EPITLoopEnds
  <2>1. /\ frames # <<>> /\ Top.pc = "epit_loop" /\ context' = context
        /\ device' = device
    BY <1>5, <1>a DEF EPITLoopEnds
  <2>2. CASE frames' = Goto("asleep")
    BY <2>1, <2>2, MovedOn
  <2>3. CASE LeaveDeepSleep(battery.cell,
                            IF Room THEN Tell("aboutToShutdown") ELSE shell)
    BY <2>1, <2>3, LeftDeepSleep
  <2> QED
    BY <1>5, <2>2, <2>3 DEF EPITLoopEnds
<1>6. CASE PostSuspend
  <2>1. /\ device'.standby = device.standby /\ device'.touch = device.touch
        /\ device'.reset = device.reset
    BY <1>6, <1>t DEF PostSuspend, Devices
  <2> QED
    BY <1>6, <2>1, <1>a, MovedOn DEF PostSuspend, Pumping
<1>7. CASE SuspendReturns
  BY <1>7, <1>a, Popped DEF SuspendReturns
<1> QED
  BY <1>1, <1>2, <1>3, <1>4, <1>5, <1>6, <1>7 DEF SuspendSteps

\* Any other step preserves StackInv: none touches what it speaks of.
LEMMA OutsideStepsStack ==
    TypeOK /\ StackInv /\ (RequestSteps \/ DeviceSteps) => StackInv'
<1> SUFFICES ASSUME TypeOK, StackInv, RequestSteps \/ DeviceSteps
             PROVE  StackInv'
  OBVIOUS
<1>1. CASE frames' = frames
  BY <1>1, OutsideSteps DEF StackInv, OlderReentered, TopStored, Top
<1>2. CASE ShellTimeout
  <2>1. /\ frames \in Seq(Frame) /\ frames' \in Seq(Frame)
        /\ Len(frames') = Len(frames) /\ Len(frames) \in Nat
        /\ \A i \in 1..Len(frames) : frames[i] \in Frame
        /\ \A i \in 1..Len(frames) :
             frames'[i] = [frames[i] EXCEPT !.awaited = FALSE]
    BY <1>2, TimeoutFrames, LenProperties, ElementOfSeq DEF ShellTimeout, TypeOK
  <2>2. \A i \in 1..Len(frames) :
          /\ frames'[i].pc = frames[i].pc
          /\ frames'[i].reentered = frames[i].reentered
          /\ frames'[i].wifi = frames[i].wifi /\ frames'[i].tg = frames[i].tg
    BY <2>1 DEF Frame
  <2>3. OlderReentered'
    BY <2>1, <2>2 DEF StackInv, OlderReentered
  <2>4. ASSUME frames' # <<>>
        PROVE  /\ frames # <<>>
               /\ Top'.pc = Top.pc /\ Top'.reentered = Top.reentered
               /\ Top'.wifi = Top.wifi /\ Top'.tg = Top.tg
    <3>1. Len(frames) # 0 /\ frames # <<>>
      BY <2>1, <2>4, EmptySeq
    <3>2. Top = frames[1] /\ Top' = frames'[1] /\ 1 \in 1..Len(frames)
      BY <2>1, <2>4, <3>1, TopIsFirst, HeadTailProperties DEF Top
    <3> QED
      BY <2>2, <3>1, <3>2
  <2>5. context' = context /\ device' = device
    BY <1>2 DEF ShellTimeout
  <2>6. TopStored'
    BY <2>4, <2>5 DEF StackInv, TopStored
  <2> QED
    BY <2>3, <2>6 DEF StackInv
<1> QED
  BY <1>1, <1>2, OutsideSteps

\* The invariant of the stack.
LEMMA StackInvariant == Spec => []StackInv
<1>1. Init => StackInv
  <2> SUFFICES ASSUME Init PROVE StackInv
    OBVIOUS
  <2>1. frames = <<>> /\ Len(frames) = 0
    BY EmptySeq DEF Init
  <2> QED
    BY <2>1 DEF StackInv, OlderReentered, TopStored
<1>2. TypeOK /\ StackInv /\ [Next]_vars => StackInv'
  <2>1. TypeOK /\ StackInv /\ UNCHANGED vars => StackInv'
    BY DEF vars, StackInv, OlderReentered, TopStored, Top
  <2> QED
    BY <2>1, SuspendStepsStack, OutsideStepsStack DEF Next
<1> QED
  BY <1>1, <1>2, TypeCorrect, PTL DEF Spec

\* In standby nothing is broadcast, the standby key is dead, and the touch screen
\* has no power unless resetTouchScreen() gave it some since preSuspend(), whatever
\* else ran while suspend() pumped events.
THEOREM QuietInStandby == Spec => []QuietWhileAsleep
<1>1. StackInv => QuietWhileAsleep
  BY DEF StackInv, TopStored, QuietWhileAsleep, At
<1> QED
  BY <1>1, StackInvariant, PTL

\* postSuspend() gives Wi-Fi the state preSuspend() found, unless another
\* suspend() overwrote the one place where it is stored.
THEOREM WifiIsRestored == Spec => WifiRestored
<1>1. TypeOK /\ StackInv /\ [Next]_vars =>
        [PostSuspend /\ ~Top.reentered => device'.wifi = Top.wifi]_vars
  <2> SUFFICES ASSUME TypeOK, StackInv, PostSuspend, ~Top.reentered
               PROVE  device'.wifi = Top.wifi
    OBVIOUS
  <2>1. device'.wifi = context.wifi_state
    BY DEF PostSuspend, TypeOK, Devices
  <2> QED
    BY <2>1 DEF PostSuspend, At, StackInv, TopStored
<1> QED
  BY <1>1, TypeCorrect, StackInvariant, PTL DEF Spec, WifiRestored

\* A 3G connection that preSuspend() cut has its reconnection scheduled when
\* suspend() returns, unless suspend() was re-entered.
THEOREM ReconnectIsScheduled == Spec => ReconnectScheduled
<1>1. TypeOK /\ StackInv /\ [Next]_vars =>
        [SuspendReturns /\ ~Top.reentered /\ Top.tg => timers'.reconnect > 0]_vars
  <2> SUFFICES ASSUME TypeOK, StackInv, SuspendReturns, ~Top.reentered, Top.tg
               PROVE  timers'.reconnect > 0
    OBVIOUS
  <2>1. context.threeg_connected
    BY DEF SuspendReturns, At, StackInv, TopStored
  <2>2. timers'.reconnect = timers.reconnect + 1 /\ timers.reconnect \in Nat
    BY <2>1 DEF SuspendReturns, TypeOK, Timers, Reconnect
  <2> QED
    BY <2>2
<1> QED
  BY <1>1, TypeCorrect, StackInvariant, PTL DEF Spec, ReconnectScheduled

-----------------------------------------------------------------------------
(* The sleep flag, where the device is no USB disk.                        *)

\* A suspend or a shutdown was asked for and is still to come.
Asked ==
    \/ shell.calls > 0
    \/ timers.shutdown > 0
    \/ \E i \in DOMAIN shell.signals : shell.signals[i] = "aboutToSuspend"

\* Neither the flag nor the count of an awake device is left over.
FlagsExplained ==
    frames = <<>> /\ ~condemned /\ ~off
        /\ (context.sleeping \/ context.suspend_count > 0) => Asked

NoDisk == context.usb_state # "connect"

\* Without USB disk mode the state of the cable is never "connect".
LEMMA NoDiskStep ==
    ASSUME "usb" \notin Clients, TypeOK, NoDisk, [Next]_vars
    PROVE  NoDisk'
<1> USE DEF NoDisk, TypeOK, Contexts
<1>1. CASE SuspendSteps
  BY <1>1 DEF SuspendSteps, SuspendCall, PreSuspend, WakeupByEPIT, WakeupByKey,
     EPITLoopEnds, PostSuspend, SuspendReturns, AwakeContext
<1>2. CASE RequestSteps
  BY <1>2 DEF RequestSteps, StandbyPressed, AutoSuspend, CleanSuspend,
     ShutdownPressed, ShutdownTimeout, ShutdownCall, ShellSuspends,
     MenuSuspends, ShellShutsDown, ShellTimeout, BroadcastSuspendSignal, Shutdown
<1>3. CASE DeviceSteps
  BY <1>3 DEF DeviceSteps, EnableWifi, ThreeGEvent, ReconnectTimeout,
     SdCardChanged, SDChanged, PlugOrUnplug, USBCableChanged,
     UdevUSBDisconnect, ResetTouchScreen, WorkInUSBSlaveMode, SetSystemBusy, CellChanges,
     UpdateBattery, LeaveSlaveMode, Connect3g
<1>4. CASE UNCHANGED vars
  BY <1>4 DEF vars
<1> QED
  BY <1>1, <1>2, <1>3, <1>4 DEF Next

\* A signal that waits goes on waiting when another is told.
LEMMA StillTold ==
    ASSUME TypeOK, NEW signal \in Signals, shell' = Tell(signal)
    PROVE  /\ Asked /\ timers' = timers => Asked'
           /\ signal = "aboutToSuspend" => Asked'
<1>1. shell \in Shells /\ shell.signals \in Seq(Signals)
  BY DEF TypeOK, Shells
<1>2. /\ Len(shell.signals) + 1 \in DOMAIN shell'.signals
      /\ shell'.signals[Len(shell.signals) + 1] = signal
      /\ \A i \in DOMAIN shell.signals :
           i \in DOMAIN shell'.signals /\ shell'.signals[i] = shell.signals[i]
      /\ shell'.calls = shell.calls
  <2>1. shell'.signals = Append(shell.signals, signal) /\ shell'.calls = shell.calls
    BY <1>1 DEF Tell, Shells
  <2> QED
    BY <1>1, <2>1
<1> QED
  BY <1>2 DEF Asked

\* A request by the key or by the power manager is asked for, or is explained
\* by one that came before.
LEMMA BroadcastExplained ==
    ASSUME TypeOK, FlagsExplained, NEW toggled, BroadcastSuspendSignal(toggled),
           UNCHANGED <<frames, condemned, off>>
    PROVE  FlagsExplained'
<1>1. context.suspend_count \in Nat
  BY DEF TypeOK, Contexts
<1>2. CASE context.suspend_count = 0
  <2>1. shell' = Tell("aboutToSuspend")
    BY <1>2 DEF BroadcastSuspendSignal
  <2> QED
    BY <2>1, StillTold DEF Signals, FlagsExplained
<1>3. CASE context.suspend_count > 0
  <2>1. shell' = shell /\ timers'.shutdown = timers.shutdown
    BY <1>1, <1>3 DEF BroadcastSuspendSignal, TypeOK, Timers
  <2> QED
    BY <1>3, <2>1 DEF FlagsExplained, Asked
<1> QED
  BY <1>1, <1>2, <1>3

\* What users, timers and the shell do keeps the flags explained.
LEMMA RequestsExplained ==
    ASSUME TypeOK, NoDisk, FlagsExplained, RequestSteps
    PROVE  FlagsExplained'
<1>t. /\ context \in Contexts /\ timers \in Timers /\ shell \in Shells
      /\ shell.calls \in Nat /\ timers.shutdown \in Nat
      /\ context.suspend_count \in Nat /\ shell.signals \in Seq(Signals)
  BY DEF TypeOK, Contexts, Timers, Shells
<1>1. CASE StandbyPressed
  <2>1. CASE ~context.sleeping
    BY <1>1, <2>1, BroadcastExplained DEF StandbyPressed, NoDisk
  <2>2. CASE context.sleeping
    <3>1. context'.suspend_count = context.suspend_count /\ UNCHANGED <<shell, timers>>
      BY <1>1, <2>2, <1>t DEF StandbyPressed, Contexts
    <3> QED
      BY <1>1, <2>2, <3>1 DEF StandbyPressed, FlagsExplained, Asked
  <2> QED
    BY <2>1, <2>2
<1>2. CASE AutoSuspend
  <2>1. CASE ~cable
    BY <1>2, <2>1, BroadcastExplained DEF AutoSuspend
  <2>2. CASE UNCHANGED <<shell, timers, context>>
    BY <1>2, <2>2 DEF AutoSuspend, FlagsExplained, Asked
  <2> QED
    BY <1>2, <2>1, <2>2 DEF AutoSuspend
<1>3. CASE CleanSuspend
  <2>1. /\ timers'.shutdown = timers.shutdown /\ context'.sleeping = context.sleeping
        /\ context'.suspend_count > 0 => context.suspend_count > 0
    BY <1>3, <1>t DEF CleanSuspend, Timers, Contexts
  <2> QED
    BY <1>3, <2>1 DEF CleanSuspend, FlagsExplained, Asked
<1>4. CASE ShutdownPressed
  <2>1. timers'.shutdown > 0
    BY <1>4, <1>t DEF ShutdownPressed, Timers
  <2> QED
    BY <2>1 DEF FlagsExplained, Asked
<1>5. CASE ShutdownTimeout \/ ShutdownCall
  BY <1>5 DEF ShutdownTimeout, ShutdownCall, Shutdown, FlagsExplained
<1>6. CASE ShellSuspends \/ MenuSuspends
  <2>1. PICK signals : ShellCalls(signals)
    BY <1>6 DEF ShellSuspends, MenuSuspends
  <2>2. shell'.calls = shell.calls + 1
    BY <2>1, <1>t DEF ShellCalls, Shells
  <2> QED
    BY <1>t, <2>2 DEF FlagsExplained, Asked
<1>7. CASE ShellShutsDown
  <2>1. /\ shell.signals # <<>> /\ Head(shell.signals) # "aboutToSuspend"
        /\ shell'.signals = Tail(shell.signals) /\ shell'.calls = shell.calls
    BY <1>7, <1>t DEF ShellShutsDown, Shells
  <2>2. ASSUME NEW i \in DOMAIN shell.signals, shell.signals[i] = "aboutToSuspend"
        PROVE  \E j \in DOMAIN shell'.signals : shell'.signals[j] = "aboutToSuspend"
    <3>1. i \in 2..Len(shell.signals)
      BY <1>t, <2>1, <2>2
    <3>2. i - 1 \in DOMAIN shell'.signals /\ shell'.signals[i - 1] = shell.signals[i]
      BY <1>t, <2>1, <3>1
    <3> QED
      BY <2>2, <3>2
  <2> QED
    BY <1>7, <2>1, <2>2 DEF ShellShutsDown, FlagsExplained, Asked
<1>8. CASE ShellTimeout
  <2>1. shell'.signals = shell.signals /\ shell'.calls = shell.calls
    BY <1>8, <1>t DEF ShellTimeout, Shells
  <2>2. frames' = <<>> => frames = <<>>
    BY <1>8, TimeoutFrames, EmptySeq, LenProperties DEF ShellTimeout, TypeOK
  <2> QED
    BY <1>8, <2>1, <2>2 DEF ShellTimeout, FlagsExplained, Asked
<1> QED
  BY <1>1, <1>2, <1>3, <1>4, <1>5, <1>6, <1>7, <1>8 DEF RequestSteps

\* The device does so too, and suspend() clears both flags when it returns.
LEMMA FlagsStep ==
    ASSUME TypeOK, NoDisk, FlagsExplained, [Next]_vars
    PROVE  FlagsExplained'
<1>1. CASE SuspendSteps
  <2>1. CASE SuspendReturns
    <3>1. context'.sleeping = FALSE /\ context'.suspend_count = 0
      BY <2>1 DEF SuspendReturns, AwakeContext, TypeOK, Contexts
    <3> QED
      BY <3>1 DEF FlagsExplained
  <2> QED
    BY <1>1, <2>1, StackOrCondemned DEF FlagsExplained
<1>2. CASE UpdateBattery
  <2>1. CASE shell' = shell
    BY <1>2, <2>1 DEF UpdateBattery, FlagsExplained, Asked
  <2>2. CASE shell' = Tell("batteryDangerous")
    <3>1. Asked => Asked'
      BY <1>2, <2>2, StillTold DEF UpdateBattery, Signals
    <3> QED
      BY <1>2, <3>1 DEF UpdateBattery, FlagsExplained
  <2> QED
    BY <1>2, <2>1, <2>2 DEF UpdateBattery
<1>3. CASE DeviceSteps /\ ~UpdateBattery
  <2>1. /\ UNCHANGED <<frames, shell, condemned, off>>
        /\ timers'.shutdown = timers.shutdown
        /\ context'.sleeping = context.sleeping
        /\ context'.suspend_count = context.suspend_count
    BY <1>3 DEF TypeOK, Contexts, Timers, DeviceSteps, EnableWifi, ThreeGEvent,
       ReconnectTimeout, SdCardChanged, SDChanged, PlugOrUnplug, USBCableChanged,
       UdevUSBDisconnect, ResetTouchScreen, WorkInUSBSlaveMode, SetSystemBusy, CellChanges,
       LeaveSlaveMode, Connect3g
  <2> QED
    BY <2>1 DEF FlagsExplained, Asked
<1>4. CASE UNCHANGED vars
  BY <1>4 DEF vars, FlagsExplained, Asked
<1> QED
  BY <1>1, <1>2, <1>3, <1>4, RequestsExplained DEF Next

\* Without USB disk mode an awake device never ignores the standby key without
\* a suspend or a shutdown that was asked for.  (With it, it does.)
THEOREM SleepingIsExplained ==
    ASSUME "usb" \notin Clients PROVE Spec => []SleepingExplained
<1>1. Init => NoDisk /\ FlagsExplained
  <2> SUFFICES ASSUME Init PROVE NoDisk /\ FlagsExplained
    OBVIOUS
  <2>1. context.usb_state = "" /\ ~context.sleeping
    BY DEF Init
  <2>2. context.suspend_count = 0
    BY DEF Init
  <2>3. NoDisk
    BY <2>1 DEF NoDisk
  <2>4. ~(context.sleeping \/ context.suspend_count > 0)
    <3>1. ~(context.suspend_count > 0)
      BY <2>2
    <3> QED
      BY <2>1, <3>1, Zenon
  <2> QED
    BY <2>3, <2>4 DEF FlagsExplained
<1>2. TypeOK /\ NoDisk /\ FlagsExplained /\ [Next]_vars => (NoDisk /\ FlagsExplained)'
  BY NoDiskStep, FlagsStep
<1>3. FlagsExplained => SleepingExplained
  BY DEF FlagsExplained, SleepingExplained, Asked
<1> QED
  BY <1>1, <1>2, <1>3, TypeCorrect, PTL DEF Spec

-----------------------------------------------------------------------------
(* The input and the screen.                                               *)

\* While the flash is not handed to a PC: the keys and the mouse work unless the
\* system is busy or suspend() took the keys, and the screen is updated unless the
\* newest activation of suspend() has still to switch that on, or one gave up.
Restored ==
    ~device.disk =>
        /\ ~device.busy => device.mouse
        /\ ~device.busy /\ frames = <<>> /\ ~condemned => device.keyboard
        /\ \/ device.update \/ dark
           \/ frames # <<>> /\ Top.pc # "key_loop"
           \/ frames = <<>> /\ condemned

\* An activation that gives up may leave another one in its key loop.
LEMMA GivesUpDark ==
    ASSUME TypeOK, frames # <<>>, frames' = Tail(frames), frames' # <<>>,
           Top'.pc = "key_loop",
           dark' = (dark \/ (Len(frames) > 1 /\ frames[2].pc = "key_loop"))
    PROVE  dark'
<1>1. /\ frames' \in Seq(Frame) /\ Len(frames') = Len(frames) - 1
      /\ \A i \in 1..Len(frames') : frames'[i] = frames[i + 1]
  BY PopTop DEF TypeOK
<1>2. Len(frames') \in Nat \ {0} /\ Len(frames) \in Nat
  BY <1>1, EmptySeq, LenProperties DEF TypeOK
<1>3. Len(frames) > 1 /\ frames'[1] = frames[2]
  BY <1>1, <1>2
<1>4. Top' = frames'[1]
  BY <1>1 DEF Top
<1> QED
  BY <1>3, <1>4

\* While suspend() is on its way to the key loop it may leave the screen off;
\* in that loop, and when it returns, the screen is on.
LEMMA SuspendRestores ==
    ASSUME TypeOK, Restored, SuspendSteps
    PROVE  Restored'
<1>t. /\ frames \in Seq(Frame) /\ device \in Devices /\ context \in Contexts
  BY DEF TypeOK
<1>a. ASSUME NEW pc, At(pc) PROVE frames # <<>> /\ Top \in Frame /\ Top.pc = pc
  BY <1>a, <1>t, TopIsFirst DEF At
<1>m. ASSUME frames # <<>>, NEW pc \in Pumping \cup {"asleep"}, frames' = Goto(pc)
      PROVE  frames' # <<>> /\ Top'.pc = pc
  BY <1>m, <1>t, GotoTop, TopIsFirst DEF Frame
<1>k. ASSUME Top.pc # "key_loop", frames # <<>>, frames' # <<>>, Top'.pc # "key_loop",
             UNCHANGED device
      PROVE  Restored'
  BY <1>k DEF Restored
<1>g. ASSUME frames # <<>>, frames' = Tail(frames), condemned', UNCHANGED device,
             dark' = (dark \/ (Len(frames) > 1 /\ frames[2].pc = "key_loop"))
      PROVE  Restored'
  BY <1>g, GivesUpDark DEF Restored
<1>1. CASE SuspendCall
  <2> DEFINE new == [pc |-> "pre_script", inserted |-> card.mounted,
                     awaited |-> shell.calling /\ shell.calls = 1,
                     wifi |-> FALSE, tg |-> FALSE, settled |-> CardSettled,
                     reentered |-> FALSE]
  <2>1. new \in Frame
    BY DEF Frame, Pumping, CardSettled, TypeOK, Cards
  <2>2. frames' # <<>> /\ Top' = new
    BY <1>1, <1>t, <2>1, PushTop DEF SuspendCall
  <2>3. /\ device'.disk = device.disk /\ device'.busy = device.busy
        /\ device'.mouse = device.mouse
    BY <1>1, <1>t DEF SuspendCall, Contexts, Devices
  <2> QED
    BY <2>2, <2>3 DEF Restored
<1>2. CASE PreSuspend
  <2> DEFINE new == [Top EXCEPT !.pc = "asleep", !.wifi = device.wifi,
                                !.tg = device.tg]
  <2>1. frames # <<>> /\ Top \in Frame /\ frames' = [frames EXCEPT ![1] = new]
    BY <1>2, <1>a, <1>t, TopIsFirst DEF PreSuspend
  <2>2. new \in Frame /\ new.pc = "asleep"
    BY <1>t, <2>1 DEF Frame, Devices
  <2>3. frames' # <<>> /\ Top'.pc = "asleep"
    BY <1>t, <2>1, <2>2, NewTop
  <2>4. /\ device'.disk = device.disk /\ device'.busy = device.busy
        /\ device'.mouse = device.mouse
    BY <1>2, <1>t DEF PreSuspend, Contexts, Devices
  <2> QED
    BY <2>3, <2>4 DEF Restored
<1>3. CASE WakeupByEPIT
  BY <1>3, <1>a, <1>m, <1>k DEF WakeupByEPIT, Pumping
<1>4. CASE WakeupByKey
  <2>1. CASE frames' = Goto("post_script")
    BY <1>4, <1>a, <1>m, <1>k, <2>1 DEF WakeupByKey, Pumping
  <2>2. CASE /\ frames' = Tail(frames) /\ condemned'
             /\ dark' = (dark \/ (Len(frames) > 1 /\ frames[2].pc = "key_loop"))
    BY <1>4, <1>a, <1>g, <2>2 DEF WakeupByKey
  <2> QED
    BY <1>4, <2>1, <2>2 DEF WakeupByKey, LeaveDeepSleep
<1>5. CASE EPITLoopEnds
  <2>1. ASSUME NEW pc \in {"asleep", "post_script"}, frames' = Goto(pc)
        PROVE  Restored'
    BY <1>5, <1>a, <1>m, <1>k, <2>1 DEF EPITLoopEnds, Pumping
  <2>2. CASE /\ frames' = Tail(frames) /\ condemned'
             /\ dark' = (dark \/ (Len(frames) > 1 /\ frames[2].pc = "key_loop"))
    BY <1>5, <1>a, <1>g, <2>2 DEF EPITLoopEnds
  <2> QED
    BY <1>5, <2>1, <2>2 DEF EPITLoopEnds, LeaveDeepSleep
<1>6. CASE PostSuspend
  <2>1. frames # <<>> /\ frames' # <<>>
    BY <1>6, <1>a, <1>m DEF PostSuspend, Pumping
  <2>2. /\ device'.disk = device.disk /\ device'.update = TRUE
        /\ device'.busy = device.busy /\ device'.mouse = device.mouse
    BY <1>6, <1>t DEF PostSuspend, Devices
  <2> QED
    BY <2>1, <2>2 DEF Restored
<1>7. CASE SuspendReturns
  <2>1. Top.pc = "key_loop"
    BY <1>7, <1>a DEF SuspendReturns
  <2>2. /\ device'.disk = device.disk /\ device'.busy = device.busy
        /\ device'.mouse = device.mouse /\ device'.update = device.update
        /\ device'.keyboard = TRUE /\ dark' = dark
    BY <1>7, <1>t DEF SuspendReturns, Devices
  <2>3. ~device.disk => device.update \/ dark
    BY <1>7, <1>a, <2>1 DEF SuspendReturns, Restored
  <2> QED
    BY <2>2, <2>3 DEF Restored
<1> QED
  BY <1>1, <1>2, <1>3, <1>4, <1>5, <1>6, <1>7 DEF SuspendSteps

\* Leaving USB disk mode restores the input and the screen at once; no other
\* event takes any of them away but a busy system.
LEMMA OthersRestore ==
    ASSUME TypeOK, Restored, RequestSteps \/ DeviceSteps
    PROVE  Restored'
<1>t. /\ frames \in Seq(Frame) /\ device \in Devices /\ context \in Contexts
  BY DEF TypeOK
<1>1. CASE ShellTimeout
  <2>1. UNCHANGED <<device, condemned, dark>>
    BY <1>1 DEF ShellTimeout
  <2>2. /\ frames' \in Seq(Frame) /\ Len(frames') = Len(frames)
        /\ \A i \in 1..Len(frames) : frames'[i] = [frames[i] EXCEPT !.awaited = FALSE]
    BY <1>1, <1>t, TimeoutFrames DEF ShellTimeout
  <2>3. frames' = <<>> <=> frames = <<>>
    BY <1>t, <2>2, EmptySeq, LenProperties
  <2>4. frames # <<>> => Top'.pc = Top.pc
    <3> SUFFICES ASSUME frames # <<>> PROVE Top'.pc = Top.pc
      OBVIOUS
    <3>1. Top = frames[1] /\ Top \in Frame /\ 1 \in 1..Len(frames)
      BY <1>t, TopIsFirst
    <3>2. Top' = frames'[1]
      BY <2>2, <2>3 DEF Top
    <3> QED
      BY <2>2, <3>1, <3>2 DEF Frame
  <2> QED
    BY <2>1, <2>3, <2>4 DEF Restored
<1>2. ASSUME LeaveSlaveMode, frames' = frames PROVE Restored'
  BY <1>2, <1>t DEF LeaveSlaveMode, Restored, Devices
<1>3. CASE WorkInUSBSlaveMode
  BY <1>3, <1>t DEF WorkInUSBSlaveMode, Restored, Devices
<1>4. CASE SetSystemBusy
  <2>1. PICK busy \in BOOLEAN :
          device' = [device EXCEPT !.keyboard = ~busy, !.mouse = ~busy, !.busy = busy]
    BY <1>4 DEF SetSystemBusy
  <2>2. /\ device'.mouse = ~busy /\ device'.keyboard = ~busy /\ device'.busy = busy
        /\ device'.update = device.update /\ device'.disk = device.disk
    BY <2>1, <1>t DEF Devices
  <2> QED
    BY <1>4, <2>2 DEF SetSystemBusy, Restored, Top
<1>5. ASSUME device'.disk = device.disk, UNCHANGED <<condemned, dark>>,
             device'.busy = device.busy, device'.mouse = device.mouse,
             device'.keyboard = device.keyboard, device'.update = device.update,
             frames' = frames
      PROVE  Restored'
  BY <1>5 DEF Restored, Top
<1>6. CASE RequestSteps /\ ~ShellTimeout
  <2>1. /\ frames' = frames /\ device'.disk = device.disk /\ UNCHANGED <<condemned, dark>>
        /\ device'.busy = device.busy /\ device'.mouse = device.mouse
        /\ device'.keyboard = device.keyboard /\ device'.update = device.update
    BY <1>6, <1>t DEF Contexts, Devices, RequestSteps, StandbyPressed, AutoSuspend,
       CleanSuspend, ShutdownPressed, ShutdownTimeout, ShutdownCall, ShellSuspends,
       MenuSuspends, ShellShutsDown, BroadcastSuspendSignal, Shutdown
  <2> QED
    BY <1>5, <2>1
<1>7. CASE \/ EnableWifi \/ ThreeGEvent \/ ReconnectTimeout \/ SdCardChanged
           \/ SDChanged \/ ResetTouchScreen \/ PlugOrUnplug \/ CellChanges
           \/ UpdateBattery
  <2>1. /\ frames' = frames /\ device'.disk = device.disk /\ UNCHANGED <<condemned, dark>>
        /\ device'.busy = device.busy /\ device'.mouse = device.mouse
        /\ device'.keyboard = device.keyboard /\ device'.update = device.update
    BY <1>7, <1>t DEF Contexts, Devices, EnableWifi, ThreeGEvent, ReconnectTimeout,
       SdCardChanged, SDChanged, ResetTouchScreen, PlugOrUnplug, CellChanges,
       UpdateBattery, Connect3g
  <2> QED
    BY <1>5, <2>1
<1>8. CASE USBCableChanged
  <2>1. CASE LeaveSlaveMode
    BY <1>2, <1>8, <2>1 DEF USBCableChanged
  <2>2. CASE UNCHANGED <<device, dark>>
    BY <1>5, <1>8, <2>2 DEF USBCableChanged
  <2> QED
    BY <1>8, <2>1, <2>2 DEF USBCableChanged
<1>9. CASE UdevUSBDisconnect
  BY <1>2, <1>9 DEF UdevUSBDisconnect
<1> QED
  BY <1>1, <1>3, <1>4, <1>6, <1>7, <1>8, <1>9 DEF DeviceSteps

\* For all clients: the input and the screen work whenever the device is awake and
\* not a USB disk, in any order of suspends, busy periods, cable and battery events;
\* but the screen stays off where suspend() gave up in the key loop of another.
THEOREM InputIsBack == Spec => []InputBack
<1>1. Init => Restored
  <2> SUFFICES ASSUME Init PROVE Restored
    OBVIOUS
  <2>1. device.mouse = TRUE /\ device.keyboard = TRUE /\ device.update = TRUE
    BY DEF Init
  <2> QED
    BY <2>1 DEF Restored
<1>2. TypeOK /\ Restored /\ [Next]_vars => Restored'
  <2>1. Restored /\ UNCHANGED vars => Restored'
    BY DEF vars, Restored, Top
  <2> QED
    BY <2>1, SuspendRestores, OthersRestore DEF Next
<1>3. Restored => InputBack
  BY DEF Restored, InputBack
<1> QED
  BY <1>1, <1>2, <1>3, TypeCorrect, PTL DEF Spec

-----------------------------------------------------------------------------
(* The card, where USB disk mode does not tell the listeners that it is     *)
(* gone while the device goes to sleep.                                     *)

\* Only the newest activation may still know what the listeners were told when
\* it began.  Until it returns nothing is broadcast, and they know no more.
ToldAtEntry ==
    /\ \A i \in 2..Len(frames) : ~frames[i].settled
    /\ frames # <<>> /\ Top.settled => ~context.broadcast /\ card.shown = Top.inserted

\* Steps that move activations on, and tell nothing.
LEMMA NothingTold ==
    ASSUME frames \in Seq(Frame), ToldAtEntry,
           frames' \in Seq(Frame), Len(frames') = Len(frames),
           \A i \in 1..Len(frames) : /\ frames'[i].settled = frames[i].settled
                                     /\ frames'[i].inserted = frames[i].inserted,
           context'.broadcast = context.broadcast, card'.shown = card.shown
    PROVE  ToldAtEntry'
<1>1. Len(frames) \in Nat
  BY LenProperties
<1>2. \A i \in 2..Len(frames') : ~frames'[i].settled
  BY <1>1 DEF ToldAtEntry
<1>3. ASSUME frames' # <<>>
      PROVE  /\ frames # <<>>
             /\ Top'.settled = Top.settled /\ Top'.inserted = Top.inserted
  <2>1. Len(frames) # 0 /\ frames # <<>>
    BY <1>1, <1>3, EmptySeq
  <2>2. Top = frames[1] /\ Top' = frames'[1] /\ 1 \in 1..Len(frames)
    BY <1>1, <1>3, <2>1, TopIsFirst, HeadTailProperties DEF Top
  <2> QED
    BY <2>1, <2>2
<1> QED
  BY <1>2, <1>3 DEF ToldAtEntry

\* The same for the newest activation alone.
LEMMA TopMoves ==
    ASSUME TypeOK, ToldAtEntry, frames # <<>>, NEW f \in Frame,
           frames' = [frames EXCEPT ![1] = f],
           f.settled = Top.settled, f.inserted = Top.inserted,
           context'.broadcast = context.broadcast, card' = card
    PROVE  ToldAtEntry'
<1>1. frames \in Seq(Frame) /\ Len(frames) \in Nat /\ Top = frames[1]
  BY TopIsFirst, LenProperties DEF TypeOK
<1>2. /\ frames' \in Seq(Frame) /\ Len(frames') = Len(frames) /\ frames'[1] = f
      /\ \A i \in 2..Len(frames) : frames'[i] = frames[i]
  BY <1>1, NewTop, TopIsFirst, ExceptSeq
<1>3. \A i \in 1..Len(frames) : /\ frames'[i].settled = frames[i].settled
                                /\ frames'[i].inserted = frames[i].inserted
  BY <1>1, <1>2
<1> QED
  BY <1>1, <1>2, <1>3, NothingTold

\* Moving on to another loop.
LEMMA TopGoes ==
    ASSUME TypeOK, ToldAtEntry, frames # <<>>, NEW pc \in Pumping \cup {"asleep"},
           frames' = Goto(pc), context' = context, card' = card
    PROVE  ToldAtEntry'
<1>1. /\ Top = frames[1] /\ Top \in Frame /\ 1 \in 1..Len(frames)
      /\ DOMAIN frames = 1..Len(frames)
  BY TopIsFirst DEF TypeOK
<1>2. frames' = [frames EXCEPT ![1] = [Top EXCEPT !.pc = pc]]
  BY <1>1 DEF Goto
<1>3. /\ [Top EXCEPT !.pc = pc] \in Frame
      /\ [Top EXCEPT !.pc = pc].settled = Top.settled
      /\ [Top EXCEPT !.pc = pc].inserted = Top.inserted
  BY <1>1 DEF Frame
<1> QED
  BY <1>2, <1>3, TopMoves

\* After a return no activation knows what was told.
LEMMA NoneKnows ==
    ASSUME TypeOK, ToldAtEntry, frames # <<>>, frames' = Tail(frames)
    PROVE  ToldAtEntry'
<1>1. /\ frames \in Seq(Frame) /\ Len(frames) \in Nat /\ frames' \in Seq(Frame)
      /\ Len(frames') = Len(frames) - 1
      /\ \A i \in 1..Len(frames') : frames'[i] = frames[i + 1]
  BY PopTop, LenProperties DEF TypeOK
<1>2. \A i \in 1..Len(frames') : ~frames'[i].settled
  <2> SUFFICES ASSUME NEW i \in 1..Len(frames') PROVE ~frames'[i].settled
    OBVIOUS
  <2>1. i + 1 \in 2..Len(frames) /\ frames'[i] = frames[i + 1]
    BY <1>1
  <2> QED
    BY <2>1 DEF ToldAtEntry
<1>3. ASSUME frames' # <<>> PROVE ~Top'.settled
  <2>1. Top' = frames'[1] /\ 1 \in 1..Len(frames')
    BY <1>1, <1>3, EmptySeq, HeadTailProperties DEF Top
  <2> QED
    BY <1>2, <2>1
<1> QED
  BY <1>1, <1>2, <1>3 DEF ToldAtEntry

\* Leaving deepSleep(), either way.
LEMMA LeaveTellsNothing ==
    ASSUME TypeOK, ToldAtEntry, frames # <<>>, NEW voltage, NEW told,
           LeaveDeepSleep(voltage, told), context' = context, card' = card
    PROVE  ToldAtEntry'
  BY TopGoes, NoneKnows DEF LeaveDeepSleep, Pumping

\* A step of suspend().
LEMMA SuspendStepsTold == TypeOK /\ ToldAtEntry /\ SuspendSteps => ToldAtEntry'
<1> SUFFICES ASSUME TypeOK, ToldAtEntry, SuspendSteps PROVE ToldAtEntry'
  OBVIOUS
<1>t. frames \in Seq(Frame) /\ device \in Devices /\ context \in Contexts
  BY DEF TypeOK
<1>a. ASSUME NEW pc, At(pc)
      PROVE  frames # <<>> /\ Top \in Frame
  BY <1>a, <1>t, TopIsFirst DEF At
<1>1. CASE SuspendCall
  <2> DEFINE new == [pc |-> "pre_script", inserted |-> card.mounted,
                     awaited |-> shell.calling /\ shell.calls = 1,
                     wifi |-> FALSE, tg |-> FALSE, settled |-> CardSettled,
                     reentered |-> FALSE]
             older == [i \in DOMAIN frames |-> Reenter(frames[i])]
  <2>1. new \in Frame
    BY DEF Frame, Pumping, CardSettled, TypeOK, Cards
  <2>2. /\ frames' = <<new>> \o older /\ card' = card /\ ~context'.broadcast
    BY <1>1, <1>t DEF SuspendCall, Contexts
  <2>3. Top' = new /\ Len(frames') = Len(frames) + 1
    BY <1>t, <2>1, <2>2, PushTop
  <2>4. new.settled => card.shown = new.inserted
    BY DEF CardSettled
  <2>5. \A i \in 2..Len(frames') : ~frames'[i].settled
    <3>1. /\ Len(frames) \in Nat /\ DOMAIN frames = 1..Len(frames)
          /\ \A i \in 1..Len(frames) : frames[i] \in Frame
      BY <1>t, LenProperties, ElementOfSeq
    <3>2. \A g \in Frame : Reenter(g) \in Frame /\ ~Reenter(g).settled
      BY DEF Reenter, Frame
    <3>3. older \in [1..Len(frames) -> Frame]
      BY <3>1, <3>2
    <3>4. older \in Seq(Frame) /\ Len(older) = Len(frames)
          /\ \A i \in 1..Len(frames) : ~older[i].settled
      BY <3>1, <3>2, <3>3
    <3>5. <<new>> \in Seq(Frame) /\ Len(<<new>>) = 1
      BY <2>1
    <3> HIDE DEF new, older
    <3>6. \A i \in 1..(Len(frames) + 1) :
            (<<new>> \o older)[i] = IF i <= 1 THEN <<new>>[i] ELSE older[i - 1]
      BY <3>4, <3>5, ConcatProperties
    <3> QED
      BY <2>2, <2>3, <3>1, <3>4, <3>6
  <2> HIDE DEF new
  <2> QED
    BY <2>2, <2>3, <2>4, <2>5 DEF ToldAtEntry
<1>2. CASE PreSuspend
  <2> DEFINE new == [Top EXCEPT !.pc = "asleep", !.wifi = device.wifi,
                                !.tg = device.tg]
  <2>1. /\ frames # <<>> /\ Top \in Frame
        /\ frames' = [frames EXCEPT ![1] = new]
    BY <1>2, <1>a, <1>t, TopIsFirst DEF PreSuspend
  <2>2. new \in Frame /\ new.settled = Top.settled /\ new.inserted = Top.inserted
    BY <1>t, <2>1 DEF Frame, Devices
  <2>3. context'.broadcast = context.broadcast /\ card' = card
    BY <1>2, <1>t DEF PreSuspend, Contexts
  <2> HIDE DEF new
  <2> QED
    BY <2>1, <2>2, <2>3, TopMoves
<1>3. CASE WakeupByEPIT
  BY <1>3, <1>a, TopGoes DEF WakeupByEPIT, Pumping
<1>4. CASE WakeupByKey
  BY <1>4, <1>a, LeaveTellsNothing DEF WakeupByKey
<1>5. CASE EPITLoopEnds
  <2>1. frames # <<>> /\ context' = context /\ card' = card
    BY <1>5, <1>a DEF EPITLoopEnds
  <2>2. CASE frames' = Goto("asleep")
    BY <2>1, <2>2, TopGoes
  <2>3. CASE LeaveDeepSleep(battery.cell,
                            IF Room THEN Tell("aboutToShutdown") ELSE shell)
    BY <2>1, <2>3, LeaveTellsNothing
  <2> QED
    BY <1>5, <2>2, <2>3 DEF EPITLoopEnds
<1>6. CASE PostSuspend
  BY <1>6, <1>a, TopGoes DEF PostSuspend, Pumping
<1>7. CASE SuspendReturns
  BY <1>7, <1>a, NoneKnows DEF SuspendReturns
<1> QED
  BY <1>1, <1>2, <1>3, <1>4, <1>5, <1>6, <1>7 DEF SuspendSteps

\* Any other step: a card that comes and goes is told to nobody.
LEMMA OutsideStepsTold ==
    ASSUME "usb" \notin Clients, TypeOK, ToldAtEntry, RequestSteps \/ DeviceSteps
    PROVE  ToldAtEntry'
<1>t. frames \in Seq(Frame) /\ context'.broadcast = context.broadcast
  BY OutsideSteps DEF TypeOK
<1>1. context.broadcast \/ card'.shown = card.shown
  <2>1. CASE RequestSteps
    BY <2>1 DEF RequestSteps, StandbyPressed, AutoSuspend, CleanSuspend,
       ShutdownPressed, ShutdownTimeout, ShutdownCall, ShellSuspends,
       MenuSuspends, ShellShutsDown, ShellTimeout, BroadcastSuspendSignal, Shutdown
  <2>2. CASE SDChanged
    <3>1. card' = [mounted |-> context.sd_inserted,
                   shown |-> IF context.broadcast THEN context.sd_inserted
                             ELSE card.shown]
      BY <2>2 DEF SDChanged
    <3> QED
      BY <3>1
  <2>3. CASE DeviceSteps /\ ~SDChanged
    <3>1. card' = card
      BY <2>3 DEF DeviceSteps, EnableWifi, ThreeGEvent, ReconnectTimeout,
         SdCardChanged, PlugOrUnplug, USBCableChanged, UdevUSBDisconnect,
         ResetTouchScreen, WorkInUSBSlaveMode, SetSystemBusy, CellChanges, UpdateBattery
    <3> QED
      BY <3>1
  <2> QED
    BY <2>1, <2>2, <2>3
<1>2. CASE frames' = frames
  <2>1. Top' = Top
    BY <1>2 DEF Top
  <2> QED
    BY <1>t, <1>1, <1>2, <2>1 DEF ToldAtEntry
<1>3. CASE ShellTimeout
  <2>1. /\ frames' \in Seq(Frame) /\ Len(frames') = Len(frames)
        /\ \A i \in 1..Len(frames) : frames[i] \in Frame
        /\ \A i \in 1..Len(frames) :
             frames'[i] = [frames[i] EXCEPT !.awaited = FALSE]
    BY <1>3, <1>t, TimeoutFrames, LenProperties, ElementOfSeq DEF ShellTimeout
  <2>2. \A i \in 1..Len(frames) : /\ frames'[i].settled = frames[i].settled
                                  /\ frames'[i].inserted = frames[i].inserted
    BY <2>1 DEF Frame
  <2>3. card' = card
    BY <1>3 DEF ShellTimeout
  <2> QED
    BY <1>t, <2>1, <2>2, <2>3, NothingTold
<1> QED
  BY <1>2, <1>3, OutsideSteps

\* The card events that a sleeping system manager swallows are made up for,
\* unless suspend() was re-entered: when it returns, the listeners were last told
\* what is mounted.
THEOREM CardIsRechecked ==
    ASSUME "usb" \notin Clients PROVE Spec => SdRechecked
<1>1. Init => ToldAtEntry
  <2> SUFFICES ASSUME Init PROVE ToldAtEntry
    OBVIOUS
  <2>1. frames = <<>> /\ Len(frames) = 0
    BY EmptySeq DEF Init
  <2> QED
    BY <2>1 DEF ToldAtEntry
<1>2. TypeOK /\ ToldAtEntry /\ [Next]_vars => ToldAtEntry'
  <2>1. TypeOK /\ ToldAtEntry /\ UNCHANGED vars => ToldAtEntry'
    BY DEF vars, ToldAtEntry, Top
  <2> QED
    BY <2>1, SuspendStepsTold, OutsideStepsTold DEF Next
<1>3. TypeOK /\ ToldAtEntry /\ [Next]_vars =>
        [SuspendReturns /\ Top.settled /\ card'.mounted = context'.sd_inserted
         => card'.shown = card'.mounted]_vars
  <2> SUFFICES ASSUME TypeOK, ToldAtEntry, SuspendReturns, Top.settled,
                      card'.mounted = context'.sd_inserted
               PROVE  card'.shown = card'.mounted
    OBVIOUS
  <2>1. frames # <<>> /\ card.shown = Top.inserted
    BY DEF SuspendReturns, At, ToldAtEntry
  <2>2. context'.sd_inserted = context.sd_inserted
    BY DEF SuspendReturns, AwakeContext, TypeOK, Contexts
  <2>3. card' = RecheckSd
    BY DEF SuspendReturns
  <2>4. CASE context.sd_inserted # Top.inserted
    <3>1. card' = [card EXCEPT !.shown = context.sd_inserted]
      BY <2>3, <2>4 DEF RecheckSd
    <3>2. card'.shown = context.sd_inserted
      BY <3>1 DEF TypeOK, Cards
    <3> QED
      BY <2>2, <3>2
  <2>5. CASE context.sd_inserted = Top.inserted
    <3>1. card' = card
      BY <2>3, <2>5 DEF RecheckSd
    <3> QED
      BY <2>1, <2>2, <2>5, <3>1
  <2> QED
    BY <2>4, <2>5
<1> QED
  BY <1>1, <1>2, <1>3, TypeCorrect, PTL DEF Spec, SdRechecked

-----------------------------------------------------------------------------
(* The shell is answered.                                                  *)

\* Activations that go on owe what they owed.
LEMMA OwingKept ==
    ASSUME frames \in Seq(Frame), frames' \in Seq(Frame),
           Len(frames') = Len(frames),
           \A i \in 1..Len(frames) : frames'[i].awaited = frames[i].awaited
    PROVE  Owing' = Owing
<1>1. DOMAIN frames = 1..Len(frames) /\ DOMAIN frames' = 1..Len(frames)
  BY LenProperties
<1> QED
  BY <1>1 DEF Owing

\* A newest activation that goes on owes what it owed.
LEMMA OwingOfTop ==
    ASSUME frames \in Seq(Frame), frames # <<>>, NEW f \in Frame,
           frames' = [frames EXCEPT ![1] = f], f.awaited = Top.awaited
    PROVE  Owing' = Owing
<1>1. /\ Top = frames[1] /\ 1 \in 1..Len(frames)
      /\ frames' \in Seq(Frame) /\ Len(frames') = Len(frames)
      /\ Top' = f /\ Top' = frames'[1]
      /\ \A i \in 2..Len(frames) : frames'[i] = frames[i]
  <2>1. Top = frames[1] /\ 1 \in 1..Len(frames)
    BY TopIsFirst
  <2>2. /\ frames' \in Seq(Frame) /\ Len(frames') = Len(frames) /\ frames' # <<>>
        /\ Top' = f /\ \A i \in 2..Len(frames) : frames'[i] = frames[i]
    BY NewTop
  <2>3. Top' = frames'[1]
    BY <2>2, HeadTailProperties DEF Top
  <2> QED
    BY <2>1, <2>2, <2>3
<1>2. Len(frames) \in Nat
  BY LenProperties
<1>3. \A i \in 1..Len(frames) : frames'[i].awaited = frames[i].awaited
  BY <1>1, <1>2
<1> QED
  BY <1>1, <1>3, OwingKept

\* Moving on to another loop.
LEMMA OwingOfGoto ==
    ASSUME frames \in Seq(Frame), frames # <<>>,
           NEW pc \in Pumping \cup {"asleep"}, frames' = Goto(pc)
    PROVE  Owing' = Owing
<1>1. /\ Top = frames[1] /\ Top \in Frame /\ 1 \in 1..Len(frames)
      /\ DOMAIN frames = 1..Len(frames)
  BY TopIsFirst
<1>2. frames' = [frames EXCEPT ![1] = [Top EXCEPT !.pc = pc]]
  BY <1>1 DEF Goto
<1>3. /\ [Top EXCEPT !.pc = pc] \in Frame
      /\ [Top EXCEPT !.pc = pc].awaited = Top.awaited
  BY <1>1 DEF Frame
<1> QED
  BY <1>2, <1>3, OwingOfTop

\* The newest activation returns; the older ones owe what they owed.
LEMMA OwingOfPop ==
    ASSUME frames \in Seq(Frame), frames # <<>>, frames' = Tail(frames)
    PROVE  /\ Top.awaited <=> 1 \in Owing
           /\ \A j \in Owing' : j + 1 \in Owing /\ j + 1 # 1
           /\ \A i \in Owing : i = 1 \/ i - 1 \in Owing'
<1>1. /\ Top = frames[1] /\ 1 \in 1..Len(frames) /\ DOMAIN frames = 1..Len(frames)
  BY TopIsFirst
<1>2. /\ frames' \in Seq(Frame) /\ Len(frames') = Len(frames) - 1
      /\ \A i \in 1..Len(frames') : frames'[i] = frames[i + 1]
  BY PopTop
<1>3. DOMAIN frames' = 1..Len(frames') /\ Len(frames) \in Nat
  BY <1>2, LenProperties
<1>4. Top.awaited <=> 1 \in Owing
  BY <1>1 DEF Owing
<1>5. ASSUME NEW j \in Owing' PROVE j + 1 \in Owing /\ j + 1 # 1
  <2>1. j \in 1..Len(frames') /\ frames'[j].awaited
    BY <1>3, <1>5 DEF Owing
  <2>2. j + 1 \in 1..Len(frames) /\ j + 1 # 1 /\ frames[j + 1].awaited
    BY <1>2, <1>3, <2>1
  <2> QED
    BY <1>1, <2>2 DEF Owing
<1>6. ASSUME NEW i \in Owing, i # 1 PROVE i - 1 \in Owing'
  <2>1. i \in 1..Len(frames) /\ frames[i].awaited
    BY <1>1, <1>6 DEF Owing
  <2>2. i - 1 \in 1..Len(frames') /\ (i - 1) + 1 = i
    BY <1>2, <1>3, <1>6, <2>1
  <2>3. frames'[i - 1].awaited
    BY <1>2, <2>1, <2>2
  <2> QED
    BY <1>3, <2>2, <2>3 DEF Owing
<1> QED
  BY <1>4, <1>5, <1>6

\* A new activation owes or does not; the older ones owe what they owed.
LEMMA OwingOfPush ==
    ASSUME frames \in Seq(Frame), NEW f \in Frame,
           frames' = <<f>> \o [i \in DOMAIN frames |-> Reenter(frames[i])]
    PROVE  /\ f.awaited <=> 1 \in Owing'
           /\ \A j \in Owing' : j = 1 \/ j - 1 \in Owing
           /\ \A i \in Owing : i + 1 \in Owing'
<1> DEFINE older == [i \in DOMAIN frames |-> Reenter(frames[i])]
<1>1. \A g \in Frame : Reenter(g) \in Frame /\ Reenter(g).awaited = g.awaited
  BY DEF Reenter, Frame
<1>2. Len(frames) \in Nat /\ DOMAIN frames = 1..Len(frames)
      /\ \A i \in 1..Len(frames) : frames[i] \in Frame
  BY LenProperties, ElementOfSeq
<1>3. older \in [1..Len(frames) -> Frame]
  BY <1>1, <1>2
<1>4. older \in Seq(Frame) /\ Len(older) = Len(frames)
      /\ \A i \in 1..Len(frames) : older[i].awaited = frames[i].awaited
  BY <1>1, <1>2, <1>3
<1>5. <<f>> \in Seq(Frame) /\ Len(<<f>>) = 1 /\ <<f>>[1] = f
  OBVIOUS
<1> HIDE DEF older
<1>6. /\ <<f>> \o older \in Seq(Frame)
      /\ Len(<<f>> \o older) = Len(frames) + 1
      /\ \A i \in 1..(Len(frames) + 1) :
           (<<f>> \o older)[i] = IF i <= 1 THEN <<f>>[i] ELSE older[i - 1]
  BY <1>4, <1>5, ConcatProperties
<1>7. frames' = <<f>> \o older
  BY DEF older
<1>8. /\ DOMAIN frames' = 1..(Len(frames) + 1)
      /\ frames'[1] = f
      /\ \A i \in 2..(Len(frames) + 1) : frames'[i].awaited = frames[i - 1].awaited
  <2>1. DOMAIN frames' = 1..(Len(frames) + 1) /\ frames'[1] = f
    BY <1>2, <1>5, <1>6, <1>7, LenProperties
  <2>2. ASSUME NEW i \in 2..(Len(frames) + 1)
        PROVE  frames'[i].awaited = frames[i - 1].awaited
    <3>1. i - 1 \in 1..Len(frames) /\ ~(i <= 1) /\ i \in 1..(Len(frames) + 1)
      BY <1>2
    <3> QED
      BY <1>4, <1>6, <1>7, <3>1
  <2> QED
    BY <2>1, <2>2
<1>9. f.awaited <=> 1 \in Owing'
  BY <1>2, <1>8 DEF Owing
<1>10. ASSUME NEW j \in Owing', j # 1 PROVE j - 1 \in Owing
  <2>1. j \in 2..(Len(frames) + 1) /\ frames'[j].awaited
    BY <1>2, <1>8, <1>10 DEF Owing
  <2>2. j - 1 \in 1..Len(frames) /\ frames[j - 1].awaited
    BY <1>2, <1>8, <2>1
  <2> QED
    BY <1>2, <2>2 DEF Owing
<1>11. ASSUME NEW i \in Owing PROVE i + 1 \in Owing'
  <2>1. i \in 1..Len(frames) /\ frames[i].awaited
    BY <1>2, <1>11 DEF Owing
  <2>2. i + 1 \in 2..(Len(frames) + 1) /\ (i + 1) - 1 = i
    BY <1>2, <2>1
  <2>3. frames'[i + 1].awaited
    BY <1>8, <2>1, <2>2
  <2>4. i + 1 \in 1..(Len(frames) + 1)
    BY <1>2, <2>2
  <2> QED
    BY <1>8, <2>3, <2>4 DEF Owing
<1> QED
  BY <1>9, <1>10, <1>11

\* A step that changes neither what is owed nor the shell's call.
LEMMA AnswerKept ==
    ASSUME ShellAnswered, Owing' = Owing,
           shell'.calling = shell.calling, shell'.calls = shell.calls
    PROVE  ShellAnswered'
  BY DEF ShellAnswered

\* The newest activation returns: the shell waits no more if it was this one
\* that owed the reply.
LEMMA AnswerOfPop ==
    ASSUME TypeOK, ShellAnswered, frames # <<>>, frames' = Tail(frames),
           NEW s \in Shells, s.calling = shell.calling, s.calls = shell.calls,
           shell' = Answered(s)
    PROVE  ShellAnswered'
<1>1. /\ Top.awaited <=> 1 \in Owing
      /\ \A j \in Owing' : j + 1 \in Owing /\ j + 1 # 1
      /\ \A i \in Owing : i = 1 \/ i - 1 \in Owing'
  BY OwingOfPop DEF TypeOK
<1>2. Owing' \subseteq Nat
  <2>1. frames' \in Seq(Frame)
    BY PopTop DEF TypeOK
  <2> QED
    BY <2>1, LenProperties DEF Owing
<1>3. shell'.calls = shell.calls
      /\ shell'.calling = (shell.calling /\ ~Top.awaited)
  <2>1. CASE Top.awaited
    BY <2>1 DEF Answered, Shells
  <2>2. CASE ~Top.awaited
    BY <2>2 DEF Answered, Shells, TypeOK
  <2> QED
    BY <2>1, <2>2
<1>4. CASE Top.awaited
  <2>1. \A i \in Owing : i = 1
    BY <1>1, <1>4 DEF ShellAnswered
  <2>2. Owing' = {}
    BY <1>1, <2>1
  <2> QED
    BY <1>3, <1>4, <2>2 DEF ShellAnswered
<1>5. CASE ~Top.awaited
  <2>1. Owing' = {} <=> Owing = {}
    BY <1>1, <1>5
  <2>2. ASSUME NEW i \in Owing', NEW j \in Owing' PROVE i = j
    <3>1. i + 1 = j + 1
      BY <1>1, <2>2 DEF ShellAnswered
    <3> QED
      BY <1>2, <3>1
  <2> QED
    BY <1>3, <1>5, <2>1, <2>2 DEF ShellAnswered
<1> QED
  BY <1>4, <1>5

\* suspend() is entered: the call on the way becomes an activation that owes.
LEMMA AnswerOfCall ==
    ASSUME TypeOK, ShellAnswered, SuspendCall
    PROVE  ShellAnswered'
<1> DEFINE new == [pc |-> "pre_script", inserted |-> card.mounted,
                   awaited |-> shell.calling /\ shell.calls = 1,
                   wifi |-> FALSE, tg |-> FALSE, settled |-> CardSettled,
                   reentered |-> FALSE]
<1>1. new \in Frame
  BY DEF Frame, Pumping, CardSettled, TypeOK, Cards
<1>2. new.awaited <=> shell.calling /\ shell.calls = 1
  OBVIOUS
<1>3. frames' = <<new>> \o [i \in DOMAIN frames |-> Reenter(frames[i])]
  BY DEF SuspendCall
<1> HIDE DEF new
<1>4. /\ new.awaited <=> 1 \in Owing'
      /\ \A j \in Owing' : j = 1 \/ j - 1 \in Owing
      /\ \A i \in Owing : i + 1 \in Owing'
  BY <1>1, <1>3, OwingOfPush DEF TypeOK
<1>5. /\ shell.calls \in Nat /\ shell.calls > 0 /\ shell.calling \in BOOLEAN
      /\ shell'.calls = shell.calls - 1 /\ shell'.calling = shell.calling
  BY DEF SuspendCall, TypeOK, Shells
<1>6. Owing = {}
  BY <1>5 DEF ShellAnswered
<1>7. \A j \in Owing' : j = 1
  BY <1>4, <1>6
<1>8. Owing' = {} <=> ~new.awaited
  BY <1>4, <1>7
<1> QED
  BY <1>2, <1>5, <1>7, <1>8 DEF ShellAnswered

\* The steps of suspend().
LEMMA AnswerInSuspend ==
    ASSUME TypeOK, ShellAnswered, SuspendSteps
    PROVE  ShellAnswered'
<1>t. frames \in Seq(Frame) /\ device \in Devices /\ shell \in Shells
  BY DEF TypeOK
<1>a. ASSUME NEW pc, At(pc)
      PROVE  frames # <<>> /\ Top \in Frame
  BY <1>a, <1>t, TopIsFirst DEF At
<1>1. CASE SuspendCall
  BY <1>1, AnswerOfCall
<1>2. CASE PreSuspend
  <2> DEFINE f == [Top EXCEPT !.pc = "asleep", !.wifi = device.wifi, !.tg = device.tg]
  <2>1. frames # <<>> /\ Top \in Frame /\ shell' = shell
    BY <1>2, <1>a DEF PreSuspend
  <2>2. f \in Frame /\ f.awaited = Top.awaited
    BY <1>t, <2>1 DEF Frame, Devices
  <2>3. frames' = [frames EXCEPT ![1] = f]
    BY <1>2, <1>t, <2>1, TopIsFirst DEF PreSuspend
  <2> HIDE DEF f
  <2>4. Owing' = Owing
    BY <1>t, <2>1, <2>2, <2>3, OwingOfTop
  <2> QED
    BY <2>1, <2>4, AnswerKept
<1>3. CASE WakeupByEPIT \/ PostSuspend
  <2>1. frames # <<>> /\ shell' = shell
        /\ (frames' = Goto("epit_loop") \/ frames' = Goto("key_loop"))
    BY <1>3, <1>a DEF WakeupByEPIT, PostSuspend
  <2>2. Owing' = Owing
    BY <1>t, <2>1, OwingOfGoto DEF Pumping
  <2> QED
    BY <2>1, <2>2, AnswerKept
<1>w. ASSUME frames # <<>>, NEW voltage, NEW told \in Shells,
             told.calling = shell.calling, told.calls = shell.calls,
             LeaveDeepSleep(voltage, told)
      PROVE  ShellAnswered'
  <2>1. CASE frames' = Goto("post_script") /\ shell' = told
    <3>1. Owing' = Owing
      BY <1>t, <1>w, <2>1, OwingOfGoto DEF Pumping
    <3> QED
      BY <1>w, <2>1, <3>1, AnswerKept
  <2>2. CASE frames' = Tail(frames) /\ shell' = Answered(told)
    BY <1>w, <2>2, AnswerOfPop
  <2> QED
    BY <1>w, <2>1, <2>2 DEF LeaveDeepSleep
<1>4. CASE WakeupByKey
  BY <1>4, <1>a, <1>t, <1>w DEF WakeupByKey
<1>5. CASE EPITLoopEnds
  <2> DEFINE told == IF Room THEN Tell("aboutToShutdown") ELSE shell
  <2>1. told \in Shells /\ told.calling = shell.calling /\ told.calls = shell.calls
    BY <1>t, ShellType DEF Tell, Shells, Signals
  <2>2. frames # <<>>
    BY <1>5, <1>a DEF EPITLoopEnds
  <2>3. \/ frames' = Goto("asleep") /\ UNCHANGED shell
        \/ LeaveDeepSleep(battery.cell, told)
    BY <1>5 DEF EPITLoopEnds
  <2> HIDE DEF told
  <2>4. CASE frames' = Goto("asleep") /\ UNCHANGED shell
    <3>1. Owing' = Owing
      BY <1>t, <2>2, <2>4, OwingOfGoto
    <3> QED
      BY <2>4, <3>1, AnswerKept
  <2> QED
    BY <1>w, <2>1, <2>2, <2>3, <2>4
<1>6. CASE SuspendReturns
  <2>1. frames # <<>> /\ frames' = Tail(frames) /\ shell' = Answered(shell)
    BY <1>6, <1>a DEF SuspendReturns
  <2> QED
    BY <1>t, <2>1, AnswerOfPop
<1> QED
  BY <1>1, <1>2, <1>3, <1>4, <1>5, <1>6 DEF SuspendSteps

\* The shell's own steps and those of the devices.
LEMMA AnswerOutside ==
    ASSUME TypeOK, ShellAnswered, RequestSteps \/ DeviceSteps
    PROVE  ShellAnswered'
<1>t. frames \in Seq(Frame) /\ shell \in Shells
  BY DEF TypeOK
<1>1. CASE ShellSuspends \/ MenuSuspends
  <2>1. ~shell.calling /\ shell'.calling /\ shell'.calls = shell.calls + 1
        /\ frames' = frames
    BY <1>1, <1>t DEF ShellSuspends, MenuSuspends, ShellCalls, Shells
  <2>2. shell'.calls > 0
    BY <1>t, <2>1 DEF Shells
  <2>3. Owing' = Owing /\ Owing = {}
    BY <2>1 DEF Owing, ShellAnswered
  <2> QED
    BY <2>1, <2>2, <2>3 DEF ShellAnswered
<1>2. CASE ShellTimeout
  <2>1. /\ ~shell'.calling
        /\ frames' = [i \in DOMAIN frames |-> [frames[i] EXCEPT !.awaited = FALSE]]
    BY <1>2, <1>t DEF ShellTimeout, Shells
  <2>2. \A i \in DOMAIN frames' : ~frames'[i].awaited
    <3>1. DOMAIN frames' = 1..Len(frames)
      BY <1>t, <2>1, LenProperties
    <3>2. \A i \in 1..Len(frames) : frames'[i] = [frames[i] EXCEPT !.awaited = FALSE]
                                    /\ frames[i] \in Frame
      BY <1>t, <2>1, TimeoutFrames, ElementOfSeq
    <3> QED
      BY <3>1, <3>2 DEF Frame
  <2>3. Owing' = {}
    BY <2>2 DEF Owing
  <2> QED
    BY <2>1, <2>3 DEF ShellAnswered
<1>b. ASSUME NEW toggled, BroadcastSuspendSignal(toggled), frames' = frames
      PROVE  ShellAnswered'
  <2>1. shell'.calling = shell.calling /\ shell'.calls = shell.calls
    BY <1>b, <1>t DEF BroadcastSuspendSignal, Tell, Shells
  <2>2. Owing' = Owing
    BY <1>b DEF Owing
  <2> QED
    BY <2>1, <2>2, AnswerKept
<1>k. ASSUME frames' = frames, shell'.calling = shell.calling,
             shell'.calls = shell.calls
      PROVE  ShellAnswered'
  <2>1. Owing' = Owing
    BY <1>k DEF Owing
  <2> QED
    BY <1>k, <2>1, AnswerKept
<1>3. CASE StandbyPressed
  BY <1>3, <1>b, <1>k DEF StandbyPressed
<1>4. CASE AutoSuspend
  BY <1>4, <1>b, <1>k DEF AutoSuspend
<1>5. CASE \/ CleanSuspend \/ ShutdownPressed \/ ShutdownTimeout \/ ShutdownCall
           \/ ShellShutsDown
  BY <1>5, <1>k, <1>t DEF CleanSuspend, ShutdownPressed, ShutdownTimeout,
     ShutdownCall, ShellShutsDown, Shutdown, Tell, Shells
<1>6. CASE DeviceSteps
  BY <1>6, <1>k, <1>t DEF DeviceSteps, EnableWifi, ThreeGEvent, ReconnectTimeout,
     SdCardChanged, SDChanged, PlugOrUnplug, USBCableChanged, UdevUSBDisconnect,
     ResetTouchScreen, WorkInUSBSlaveMode, SetSystemBusy, CellChanges, UpdateBattery, Tell, Shells
<1> QED
  BY <1>1, <1>2, <1>3, <1>4, <1>5, <1>6 DEF RequestSteps

\* For any depth of suspend(), any number of calls and any D-Bus time-outs: a
\* blocked shell is answered by one activation or has its call on the way, and
\* no reply to an earlier call is taken for that of a later one.
THEOREM ShellIsAnswered == Spec => []ShellAnswered
<1>1. Init => ShellAnswered
  <2> SUFFICES ASSUME Init PROVE ShellAnswered
    OBVIOUS
  <2>1. shell.calling = FALSE /\ frames = <<>>
    BY DEF Init
  <2>2. Owing = {}
    BY <2>1 DEF Owing
  <2> QED
    BY <2>1, <2>2 DEF ShellAnswered
<1>2. TypeOK /\ ShellAnswered /\ [Next]_vars => ShellAnswered'
  <2> SUFFICES ASSUME TypeOK, ShellAnswered, [Next]_vars PROVE ShellAnswered'
    OBVIOUS
  <2>1. CASE UNCHANGED vars
    <3>1. Owing' = Owing
      BY <2>1 DEF Owing, vars
    <3> QED
      BY <2>1, <3>1, AnswerKept DEF vars
  <2> QED
    BY <2>1, AnswerInSuspend, AnswerOutside DEF Next
<1> QED
  BY <1>1, <1>2, TypeCorrect, PTL DEF Spec

-----------------------------------------------------------------------------
(* A broadcast is served.  Weak fairness of four actions is enough; it is   *)
(* stated with their guards in the place of ENABLED, which the provers do   *)
(* not know (each of the four always changes something).                    *)

SuspendCallFair ==
    []([](Dispatching /\ shell.calls > 0 /\ Len(frames) < MaxDepth)
         => <><<SuspendCall>>_vars)
ShutdownCallFair ==
    []([](Dispatching /\ shell.shutdown) => <><<ShutdownCall>>_vars)
ShellSuspendsFair ==
    []([](/\ ~off /\ ~shell.calling
          /\ shell.signals # <<>> /\ Head(shell.signals) = "aboutToSuspend"
          /\ shell.calls < MaxCalls)
         => <><<ShellSuspends>>_vars)
ShellShutsDownFair ==
    []([](/\ ~off /\ ~shell.calling
          /\ shell.signals # <<>> /\ Head(shell.signals) # "aboutToSuspend")
         => <><<ShellShutsDown>>_vars)

ServiceFairness ==
    SuspendCallFair /\ ShutdownCallFair /\ ShellSuspendsFair /\ ShellShutsDownFair

\* The device sleeps or is off.
Served == frames # <<>> \/ off

\* What the shell has first in its queue.
HeadSuspends == shell.signals # <<>> /\ Head(shell.signals) = "aboutToSuspend"
HeadShutsDown == shell.signals # <<>> /\ Head(shell.signals) # "aboutToSuspend"

\* What the four actions do.
LEMMA ServiceSteps ==
    ASSUME TypeOK
    PROVE  /\ SuspendCall => Served'
           /\ ShutdownCall => Served'
           /\ ShellSuspends => shell'.calls > 0
           /\ ShellShutsDown => shell'.shutdown
<1>1. ASSUME SuspendCall PROVE Served'
  <2> DEFINE new == [pc |-> "pre_script", inserted |-> card.mounted,
                     awaited |-> shell.calling /\ shell.calls = 1,
                     wifi |-> FALSE, tg |-> FALSE, settled |-> CardSettled,
                     reentered |-> FALSE]
  <2>1. new \in Frame
    BY DEF Frame, Pumping, CardSettled, TypeOK, Cards
  <2>2. frames' = <<new>> \o [i \in DOMAIN frames |-> Reenter(frames[i])]
    BY <1>1 DEF SuspendCall
  <2> QED
    BY <2>1, <2>2, PushTop DEF TypeOK, Served
<1>2. ASSUME ShutdownCall PROVE Served'
  BY <1>2 DEF ShutdownCall, Shutdown, Served
<1>3. ASSUME ShellSuspends PROVE shell'.calls > 0
  BY <1>3 DEF ShellSuspends, ShellCalls, TypeOK, Shells
<1>4. ASSUME ShellShutsDown PROVE shell'.shutdown
  BY <1>4 DEF ShellShutsDown, TypeOK, Shells
<1> QED
  BY <1>1, <1>2, <1>3, <1>4

\* A call that is on the way stays there until suspend() is entered.
LEMMA CallStays ==
    ASSUME TypeOK, shell.calls > 0, ~Served, [Next]_vars
    PROVE  shell'.calls > 0 \/ Served'
<1>t. shell \in Shells /\ shell.calls \in Nat /\ frames = <<>>
  BY DEF TypeOK, Shells, Served
<1>1. CASE SuspendCall
  BY <1>1, ServiceSteps
<1>2. CASE SuspendSteps /\ ~SuspendCall
  BY <1>2, <1>t DEF SuspendSteps, PreSuspend, WakeupByEPIT, WakeupByKey,
     EPITLoopEnds, PostSuspend, SuspendReturns, At
<1>3. CASE ShellSuspends \/ MenuSuspends
  <2>1. shell'.calls = shell.calls + 1
    BY <1>3, <1>t DEF ShellSuspends, MenuSuspends, ShellCalls, Shells
  <2> QED
    BY <1>t, <2>1
<1>4. CASE RequestSteps /\ ~ShellSuspends /\ ~MenuSuspends
  BY <1>4, <1>t DEF RequestSteps, StandbyPressed, AutoSuspend, CleanSuspend,
     ShutdownPressed, ShutdownTimeout, ShutdownCall, ShellShutsDown, ShellTimeout,
     BroadcastSuspendSignal, Shutdown, Tell, Shells
<1>5. CASE DeviceSteps \/ UNCHANGED vars
  BY <1>5, <1>t DEF DeviceSteps, EnableWifi, ThreeGEvent, ReconnectTimeout,
     SdCardChanged, SDChanged, PlugOrUnplug, USBCableChanged, UdevUSBDisconnect,
     ResetTouchScreen, WorkInUSBSlaveMode, SetSystemBusy, CellChanges, UpdateBattery, Tell, Shells,
     vars
<1> QED
  BY <1>1, <1>2, <1>3, <1>4, <1>5 DEF Next

\* So does a call of shutdown().
LEMMA ShutdownStays ==
    ASSUME TypeOK, shell.shutdown, ~Served, [Next]_vars
    PROVE  shell'.shutdown \/ Served'
<1>t. shell \in Shells /\ frames = <<>>
  BY DEF TypeOK, Served
<1>1. CASE SuspendSteps
  BY <1>1, <1>t DEF SuspendSteps, SuspendCall, PreSuspend, WakeupByEPIT,
     WakeupByKey, EPITLoopEnds, PostSuspend, SuspendReturns, At, Shells
<1>2. CASE ShutdownCall
  BY <1>2 DEF ShutdownCall, Shutdown, Served
<1>3. CASE RequestSteps /\ ~ShutdownCall
  BY <1>3, <1>t DEF RequestSteps, StandbyPressed, AutoSuspend, CleanSuspend,
     ShutdownPressed, ShutdownTimeout, ShellSuspends, MenuSuspends, ShellCalls,
     ShellShutsDown, ShellTimeout, BroadcastSuspendSignal, Shutdown, Tell, Shells
<1>4. CASE DeviceSteps \/ UNCHANGED vars
  BY <1>4, <1>t DEF DeviceSteps, EnableWifi, ThreeGEvent, ReconnectTimeout,
     SdCardChanged, SDChanged, PlugOrUnplug, USBCableChanged, UdevUSBDisconnect,
     ResetTouchScreen, WorkInUSBSlaveMode, SetSystemBusy, CellChanges, UpdateBattery, Tell, Shells,
     vars
<1> QED
  BY <1>1, <1>2, <1>3, <1>4 DEF Next

\* A signal told to the shell does not change what is first in its queue.
LEMMA TellKeepsHead ==
    ASSUME shell \in Shells, shell.signals # <<>>, NEW signal \in Signals,
           shell' = Tell(signal)
    PROVE  shell'.signals # <<>> /\ Head(shell'.signals) = Head(shell.signals)
<1>1. shell.signals \in Seq(Signals)
  BY DEF Shells
<1>2. shell'.signals = Append(shell.signals, signal)
  BY DEF Tell, Shells
<1>3. Len(shell.signals) \in Nat /\ Len(shell.signals) > 0
  BY <1>1, LenProperties, EmptySeq
<1>4. /\ Append(shell.signals, signal) # <<>>
      /\ Append(shell.signals, signal)[1] = shell.signals[1]
      /\ Append(shell.signals, signal) \in Seq(Signals)
  BY <1>1, <1>3, AppendProperties
<1> QED
  BY <1>1, <1>2, <1>4, HeadTailProperties

\* Only the shell takes a signal from its queue.
LEMMA HeadStays ==
    ASSUME TypeOK, shell.signals # <<>>, ~Served, [Next]_vars
    PROVE  \/ shell'.signals # <<>> /\ Head(shell'.signals) = Head(shell.signals)
           \/ shell'.calls > 0
           \/ shell'.shutdown
           \/ Served'
<1>t. shell \in Shells /\ frames = <<>> /\ shell.calls \in Nat
  BY DEF TypeOK, Shells, Served
<1>k. ASSUME shell'.signals = shell.signals
      PROVE  shell'.signals # <<>> /\ Head(shell'.signals) = Head(shell.signals)
  BY <1>k
<1>s. \A signal \in Signals : shell' = Tell(signal)
        => shell'.signals # <<>> /\ Head(shell'.signals) = Head(shell.signals)
  BY <1>t, TellKeepsHead
<1>1. CASE SuspendSteps
  BY <1>1, <1>k, <1>t DEF SuspendSteps, SuspendCall, PreSuspend, WakeupByEPIT,
     WakeupByKey, EPITLoopEnds, PostSuspend, SuspendReturns, At, Shells
<1>2. CASE ShellSuspends \/ MenuSuspends
  <2>1. shell'.calls = shell.calls + 1
    BY <1>2, <1>t DEF ShellSuspends, MenuSuspends, ShellCalls, Shells
  <2> QED
    BY <1>t, <2>1
<1>3. CASE ShellShutsDown
  BY <1>3, <1>t DEF ShellShutsDown, Shells
<1>b. ASSUME NEW toggled, BroadcastSuspendSignal(toggled)
      PROVE  shell'.signals # <<>> /\ Head(shell'.signals) = Head(shell.signals)
  BY <1>b, <1>k, <1>s DEF BroadcastSuspendSignal, Signals
<1>4. CASE StandbyPressed \/ AutoSuspend \/ ShutdownPressed
  BY <1>4, <1>b, <1>k, <1>s DEF StandbyPressed, AutoSuspend, ShutdownPressed, Signals
<1>5. CASE CleanSuspend \/ ShutdownTimeout \/ ShutdownCall \/ ShellTimeout
  BY <1>5, <1>k, <1>t DEF CleanSuspend, ShutdownTimeout, ShutdownCall, ShellTimeout,
     Shutdown, Shells
<1>6. CASE UpdateBattery
  BY <1>6, <1>k, <1>s DEF UpdateBattery, Signals
<1>7. CASE (DeviceSteps /\ ~UpdateBattery) \/ UNCHANGED vars
  BY <1>7, <1>k DEF DeviceSteps, EnableWifi, ThreeGEvent, ReconnectTimeout,
     SdCardChanged, SDChanged, PlugOrUnplug, USBCableChanged, UdevUSBDisconnect,
     ResetTouchScreen, WorkInUSBSlaveMode, SetSystemBusy, CellChanges, vars
<1> QED
  BY <1>1, <1>2, <1>3, <1>4, <1>5, <1>6, <1>7 DEF Next, RequestSteps

\* For any clients, bounds and depth, with or without a cable, disk mode or a
\* low battery: if the shell and the daemon handle what has arrived, each
\* broadcast aboutToSuspend puts the device to sleep, or the device is shut down.
THEOREM SuspendIsServed == Spec /\ ServiceFairness => SuspendServed
<1> DEFINE Called == shell.calls > 0
           Told == \E i \in DOMAIN shell.signals : shell.signals[i] = "aboutToSuspend"
           I == TypeOK /\ ShellAnswered
<1>1. TypeOK /\ Told => HeadSuspends \/ HeadShutsDown
  <2> SUFFICES ASSUME TypeOK, Told PROVE shell.signals # <<>>
    BY DEF HeadSuspends, HeadShutsDown
  <2>1. shell.signals \in Seq(Signals)
    BY DEF TypeOK, Shells
  <2> QED
    BY <2>1, EmptySeq, LenProperties
<1>2. I /\ ~Served /\ Called
        => Dispatching /\ shell.calls > 0 /\ Len(frames) < MaxDepth
  BY BoundsAssumption, EmptySeq DEF Served, Dispatching
<1>3. I /\ ~Served /\ shell.shutdown => Dispatching /\ shell.shutdown
  BY DEF Served, Dispatching
<1>4. I /\ ~Served /\ ~Called => ~off /\ ~shell.calling /\ shell.calls < MaxCalls
  <2> SUFFICES ASSUME I, ~Served, ~Called
               PROVE  ~off /\ ~shell.calling /\ shell.calls < MaxCalls
    OBVIOUS
  <2>1. Owing = {}
    BY EmptySeq DEF Served, Owing
  <2>2. shell.calls \in Nat /\ shell.calling \in BOOLEAN
    BY DEF TypeOK, Shells
  <2> QED
    BY <2>1, <2>2, BoundsAssumption DEF ShellAnswered, Served
<1>5. I /\ ~Served /\ ~Called /\ HeadSuspends
        => /\ ~off /\ ~shell.calling
           /\ shell.signals # <<>> /\ Head(shell.signals) = "aboutToSuspend"
           /\ shell.calls < MaxCalls
  BY <1>4 DEF HeadSuspends
<1>6. I /\ ~Served /\ ~Called /\ HeadShutsDown
        => /\ ~off /\ ~shell.calling
           /\ shell.signals # <<>> /\ Head(shell.signals) # "aboutToSuspend"
  BY <1>4 DEF HeadShutsDown
<1>7. /\ I /\ <<SuspendCall>>_vars => Served'
      /\ I /\ <<ShutdownCall>>_vars => Served'
      /\ I /\ <<ShellSuspends>>_vars => Called'
      /\ I /\ <<ShellShutsDown>>_vars => shell.shutdown'
  BY ServiceSteps
<1>8. I /\ ~Served /\ Called /\ [Next]_vars => Called' \/ Served'
  BY CallStays
<1>9. I /\ ~Served /\ shell.shutdown /\ [Next]_vars => shell.shutdown' \/ Served'
  BY ShutdownStays
<1>10. I /\ ~Served /\ HeadSuspends /\ [Next]_vars
         => HeadSuspends' \/ Called' \/ shell.shutdown' \/ Served'
  BY HeadStays DEF HeadSuspends
<1>11. I /\ ~Served /\ HeadShutsDown /\ [Next]_vars
         => HeadShutsDown' \/ Called' \/ shell.shutdown' \/ Served'
  BY HeadStays DEF HeadShutsDown
<1>12. Spec => []I
  BY TypeCorrect, ShellIsAnswered, PTL
<1>13. (frames # <<>> \/ off) <=> Served
  BY DEF Served
<1> HIDE DEF Called, Told, I
<1>14. TypeOK /\ Told => HeadSuspends \/ HeadShutsDown
  BY <1>1
<1>15. I => TypeOK
  BY DEF I
<1>16. SuspendServed <=> (Told ~> (frames # <<>> \/ off))
  BY DEF SuspendServed, Told
<1>17. Spec /\ ServiceFairness => (Told ~> (frames # <<>> \/ off))
  BY <1>2, <1>3, <1>5, <1>6, <1>7, <1>8, <1>9, <1>10, <1>11, <1>12, <1>13, <1>14,
     <1>15, PTL
     DEF Spec, ServiceFairness, SuspendCallFair, ShutdownCallFair,
         ShellSuspendsFair, ShellShutsDownFair
<1> QED
  BY <1>16, <1>17

-----------------------------------------------------------------------------
(* suspend() comes to its end when the battery drains.                     *)

\* The steps that the newest activation has left.
LEMMA StepsOfTop ==
    ASSUME TypeOK
    PROVE  /\ StepsLeft \in 0..5
           /\ frames # <<>> =>
                /\ Top.pc = "pre_script" => StepsLeft = 5
                /\ Top.pc = "asleep" => StepsLeft = 4
                /\ Top.pc = "epit_loop" => StepsLeft = 3
                /\ Top.pc = "post_script" => StepsLeft = 2
                /\ Top.pc = "key_loop" => StepsLeft = 1
<1>1. frames # <<>> => Top.pc \in {"pre_script", "asleep", "epit_loop", "post_script",
                                   "key_loop"}
  BY TopIsFirst DEF TypeOK, Frame, Pumping
<1> QED
  BY <1>1 DEF StepsLeft

\* So after a step.
LEMMA StepsOfTopAfter ==
    TypeOK' => (/\ StepsLeft \in 0..5
                /\ frames # <<>> =>
                     /\ Top.pc = "pre_script" => StepsLeft = 5
                     /\ Top.pc = "asleep" => StepsLeft = 4
                     /\ Top.pc = "epit_loop" => StepsLeft = 3
                     /\ Top.pc = "post_script" => StepsLeft = 2
                     /\ Top.pc = "key_loop" => StepsLeft = 1)'
<1>1. TypeOK => (/\ StepsLeft \in 0..5
                 /\ frames # <<>> =>
                      /\ Top.pc = "pre_script" => StepsLeft = 5
                      /\ Top.pc = "asleep" => StepsLeft = 4
                      /\ Top.pc = "epit_loop" => StepsLeft = 3
                      /\ Top.pc = "post_script" => StepsLeft = 2
                      /\ Top.pc = "key_loop" => StepsLeft = 1)
  BY StepsOfTop
<1> QED
  BY <1>1, PTL

\* The newest activation moves on: it has fewer steps left.
LEMMA FewerSteps ==
    ASSUME TypeOK, TypeOK', Len(frames') = Len(frames),
           shell'.calls = shell.calls, StepsLeft' < StepsLeft
    PROVE  SuspendLeft' < SuspendLeft
<1>1. /\ StepsLeft \in 0..5 /\ StepsLeft' \in 0..5
      /\ Len(frames) \in Nat /\ shell.calls \in Nat
  BY StepsOfTop, StepsOfTopAfter, LenProperties DEF TypeOK, Shells
<1>2. PICK s \in Nat, t \in Nat : s = StepsLeft /\ t = StepsLeft'
  BY <1>1
<1>3. PICK c \in Nat, n \in Nat : c = shell.calls /\ n = Len(frames)
  BY <1>1
<1>4. SuspendLeft = 12 * c + 6 * n + s /\ SuspendLeft' = 12 * c + 6 * n + t
  BY <1>2, <1>3 DEF SuspendLeft
<1>5. t < s
  BY <1>2
<1>6. 12 * c + 6 * n + t < 12 * c + 6 * n + s
  BY <1>5
<1> QED
  BY <1>4, <1>6

\* The newest activation returns: the one below has no more than five steps.
LEMMA OneLess ==
    ASSUME TypeOK, TypeOK', frames # <<>>, frames' = Tail(frames),
           shell'.calls = shell.calls, StepsLeft > 0
    PROVE  SuspendLeft' < SuspendLeft
<1>1. /\ StepsLeft \in 0..5 /\ StepsLeft' \in 0..5
      /\ Len(frames) \in Nat /\ shell.calls \in Nat
      /\ Len(frames') = Len(frames) - 1
  BY StepsOfTop, StepsOfTopAfter, LenProperties, PopTop DEF TypeOK, Shells
<1>2. PICK s \in 1..5, t \in 0..5 : s = StepsLeft /\ t = StepsLeft'
  BY <1>1
<1>3. PICK c \in Nat, n \in Nat : c = shell.calls /\ n = Len(frames)
  BY <1>1
<1>4. SuspendLeft = 12 * c + 6 * n + s /\ SuspendLeft' = 12 * c + 6 * (n - 1) + t
  BY <1>1, <1>2, <1>3 DEF SuspendLeft
<1>5. 12 * c + 6 * (n - 1) + t < 12 * c + 6 * n + s
  OBVIOUS
<1> QED
  BY <1>4, <1>5

\* Neither a signal nor the reply of an activation is a call.
LEMMA NoNewCall ==
    ASSUME shell \in Shells, NEW signal \in Signals
    PROVE  /\ Answered(shell).calls = shell.calls
           /\ Tell(signal).calls = shell.calls
           /\ Answered(Tell(signal)).calls = shell.calls
  BY DEF Answered, Tell, Shells

\* Leaving deepSleep(), either way.
LEMMA LeaveRunsDown ==
    ASSUME TypeOK, TypeOK', frames # <<>>, NEW voltage, NEW told,
           LeaveDeepSleep(voltage, told),
           told.calls = shell.calls, Answered(told).calls = shell.calls,
           StepsLeft > 2
    PROVE  SuspendLeft' < SuspendLeft
<1>1. CASE frames' = Goto("post_script") /\ shell' = told
  <2>1. /\ frames' # <<>> /\ Len(frames') = Len(frames) /\ Top'.pc = "post_script"
    <3>1. /\ frames' # <<>> /\ Len(frames') = Len(frames)
          /\ Top' = [Top EXCEPT !.pc = "post_script"]
      BY <1>1, GotoTop DEF TypeOK, Pumping
    <3> QED
      BY <3>1, TopIsFirst DEF TypeOK, Frame
  <2>2. StepsLeft' = 2
    BY <2>1, StepsOfTopAfter
  <2> QED
    BY <1>1, <2>1, <2>2, FewerSteps
<1>2. CASE frames' = Tail(frames) /\ shell' = Answered(told)
  BY <1>2, StepsOfTop, OneLess
<1> QED
  BY <1>1, <1>2 DEF LeaveDeepSleep

\* Moving on to the loop or the standby that has fewer steps left.
LEMMA GotoRunsDown ==
    ASSUME TypeOK, TypeOK', frames # <<>>, shell' = shell,
           \/ Top.pc = "asleep" /\ frames' = Goto("epit_loop")
           \/ Top.pc = "post_script" /\ frames' = Goto("key_loop")
    PROVE  SuspendLeft' < SuspendLeft
<1>1. ASSUME NEW pc \in {"epit_loop", "key_loop"}, frames' = Goto(pc)
      PROVE  frames' # <<>> /\ Len(frames') = Len(frames) /\ Top'.pc = pc
  <2>1. /\ frames' # <<>> /\ Len(frames') = Len(frames)
        /\ Top' = [Top EXCEPT !.pc = pc]
    BY <1>1, GotoTop DEF TypeOK, Pumping
  <2> QED
    BY <2>1, TopIsFirst DEF TypeOK, Frame
<1>2. StepsLeft' < StepsLeft
  BY <1>1, StepsOfTop, StepsOfTopAfter
<1> QED
  BY <1>1, <1>2, FewerSteps

\* The steps of suspend() while the battery drains.
LEMMA DrainingRunsDown ==
    ASSUME TypeOK, TypeOK', Draining, SuspendSteps
    PROVE  SuspendLeft' < SuspendLeft
<1>t. frames \in Seq(Frame) /\ device \in Devices /\ shell \in Shells
      /\ shell.calls \in Nat
  BY DEF TypeOK, Shells
<1>a. ASSUME NEW pc, At(pc)
      PROVE  frames # <<>> /\ Top \in Frame /\ Top.pc = pc
  BY <1>a, <1>t, TopIsFirst DEF At
<1>1. CASE SuspendCall
  <2> DEFINE new == [pc |-> "pre_script", inserted |-> card.mounted,
                     awaited |-> shell.calling /\ shell.calls = 1,
                     wifi |-> FALSE, tg |-> FALSE, settled |-> CardSettled,
                     reentered |-> FALSE]
  <2>1. new \in Frame
    BY DEF Frame, Pumping, CardSettled, TypeOK, Cards
  <2>2. Len(frames') = Len(frames) + 1
    BY <1>1, <1>t, <2>1, PushTop DEF SuspendCall
  <2>3. shell'.calls = shell.calls - 1 /\ Len(frames) \in Nat
    BY <1>1, <1>t, LenProperties DEF SuspendCall, Shells
  <2>4. PICK s \in 0..5, t \in 0..5 : s = StepsLeft /\ t = StepsLeft'
    BY StepsOfTop, StepsOfTopAfter
  <2>5. PICK c \in Nat, n \in Nat : c = shell.calls /\ n = Len(frames)
    BY <1>t, <2>3
  <2>6. SuspendLeft = 12 * c + 6 * n + s
        /\ SuspendLeft' = 12 * (c - 1) + 6 * (n + 1) + t
    BY <2>2, <2>3, <2>4, <2>5 DEF SuspendLeft
  <2>7. 12 * (c - 1) + 6 * (n + 1) + t < 12 * c + 6 * n + s
    OBVIOUS
  <2> QED
    BY <2>6, <2>7
<1>2. CASE PreSuspend
  <2> DEFINE f == [Top EXCEPT !.pc = "asleep", !.wifi = device.wifi, !.tg = device.tg]
  <2>1. frames # <<>> /\ Top \in Frame /\ Top.pc = "pre_script" /\ shell' = shell
    BY <1>2, <1>a DEF PreSuspend
  <2>2. f \in Frame /\ f.pc = "asleep"
    BY <1>t, <2>1 DEF Frame, Devices
  <2>3. frames' = [frames EXCEPT ![1] = f]
    BY <1>2, <1>t, <2>1, TopIsFirst DEF PreSuspend
  <2> HIDE DEF f
  <2>4. frames' # <<>> /\ Len(frames') = Len(frames) /\ Top' = f
    BY <1>t, <2>1, <2>2, <2>3, NewTop
  <2>5. StepsLeft = 5 /\ StepsLeft' = 4
    BY <2>1, <2>2, <2>4, StepsOfTop, StepsOfTopAfter
  <2> QED
    BY <2>1, <2>4, <2>5, FewerSteps
<1>3. CASE WakeupByEPIT \/ PostSuspend
  BY <1>3, <1>a, GotoRunsDown DEF WakeupByEPIT, PostSuspend
<1>4. CASE WakeupByKey
  <2>1. frames # <<>> /\ StepsLeft = 4 /\ LeaveDeepSleep(battery.voltage, shell)
    BY <1>4, <1>a, StepsOfTop DEF WakeupByKey
  <2> QED
    BY <1>t, <2>1, NoNewCall, LeaveRunsDown DEF Signals
<1>5. CASE EPITLoopEnds
  <2> DEFINE told == IF Room THEN Tell("aboutToShutdown") ELSE shell
  <2>1. told.calls = shell.calls /\ Answered(told).calls = shell.calls
    BY <1>t, NoNewCall DEF Signals
  <2>2. frames # <<>> /\ StepsLeft = 3
    BY <1>5, <1>a, StepsOfTop DEF EPITLoopEnds
  <2>3. LeaveDeepSleep(battery.cell, told)
    BY <1>5 DEF EPITLoopEnds, Draining
  <2> HIDE DEF told
  <2> QED
    BY <2>1, <2>2, <2>3, LeaveRunsDown
<1>6. CASE SuspendReturns
  <2>1. frames # <<>> /\ StepsLeft = 1 /\ frames' = Tail(frames)
        /\ shell' = Answered(shell)
    BY <1>6, <1>a, StepsOfTop DEF SuspendReturns
  <2> QED
    BY <1>t, <2>1, NoNewCall, OneLess DEF Signals
<1> QED
  BY <1>1, <1>2, <1>3, <1>4, <1>5, <1>6 DEF SuspendSteps

\* Other steps than new calls leave the work of suspend() as it is.
LEMMA OthersAddNothing ==
    ASSUME TypeOK, TypeOK', RequestSteps \/ DeviceSteps \/ UNCHANGED vars,
           ~(ShellSuspends \/ MenuSuspends)
    PROVE  SuspendLeft' = SuspendLeft
<1>t. shell \in Shells /\ frames \in Seq(Frame)
  BY DEF TypeOK
<1>k. ASSUME frames' = frames, shell'.calls = shell.calls
      PROVE  SuspendLeft' = SuspendLeft
  BY <1>k DEF SuspendLeft, StepsLeft, Top
<1>1. CASE ShellTimeout
  <2>1. shell'.calls = shell.calls
        /\ frames' = [i \in DOMAIN frames |-> [frames[i] EXCEPT !.awaited = FALSE]]
    BY <1>1, <1>t DEF ShellTimeout, Shells
  <2>2. /\ frames' \in Seq(Frame) /\ Len(frames') = Len(frames)
        /\ \A i \in 1..Len(frames) :
             frames'[i] = [frames[i] EXCEPT !.awaited = FALSE]
    BY <1>t, <2>1, TimeoutFrames
  <2>3. StepsLeft' = StepsLeft
    <3>1. CASE frames = <<>>
      BY <2>2, <3>1, EmptySeq, LenProperties DEF StepsLeft
    <3>2. CASE frames # <<>>
      <4>1. Top = frames[1] /\ Top \in Frame /\ 1 \in 1..Len(frames)
        BY <1>t, <3>2, TopIsFirst
      <4>2. frames' # <<>> /\ Top' = frames'[1]
        <5>1. frames' # <<>>
          BY <2>2, <4>1, EmptySeq, LenProperties
        <5> QED
          BY <2>2, <5>1, HeadTailProperties DEF Top
      <4>3. Top'.pc = Top.pc
        BY <2>2, <4>1, <4>2 DEF Frame
      <4>4. Top.pc \in {"pre_script", "asleep", "epit_loop", "post_script", "key_loop"}
        BY <4>1 DEF Frame, Pumping
      <4> QED
        BY <3>2, <4>2, <4>3, <4>4, StepsOfTop, StepsOfTopAfter
    <3> QED
      BY <3>1, <3>2
  <2> QED
    BY <2>1, <2>2, <2>3 DEF SuspendLeft
<1>b. ASSUME NEW toggled, BroadcastSuspendSignal(toggled)
      PROVE  shell'.calls = shell.calls
  BY <1>b, <1>t DEF BroadcastSuspendSignal, Tell, Shells
<1>2. CASE StandbyPressed \/ AutoSuspend
  BY <1>2, <1>b, <1>k DEF StandbyPressed, AutoSuspend
<1>3. CASE \/ CleanSuspend \/ ShutdownPressed \/ ShutdownTimeout \/ ShutdownCall
           \/ ShellShutsDown
  BY <1>3, <1>k, <1>t DEF CleanSuspend, ShutdownPressed, ShutdownTimeout,
     ShutdownCall, ShellShutsDown, Shutdown, Tell, Shells
<1>4. CASE DeviceSteps \/ UNCHANGED vars
  BY <1>4, <1>k, <1>t DEF DeviceSteps, EnableWifi, ThreeGEvent, ReconnectTimeout,
     SdCardChanged, SDChanged, PlugOrUnplug, USBCableChanged, UdevUSBDisconnect,
     ResetTouchScreen, WorkInUSBSlaveMode, SetSystemBusy, CellChanges, UpdateBattery, Tell, Shells,
     vars
<1> QED
  BY <1>1, <1>2, <1>3, <1>4 DEF RequestSteps

\* For any depth of suspend() within itself: while the battery drains, each of
\* its steps brings all activations nearer to their end, and only a new call of
\* the shell gives suspend() more to do; the part of WaitForShutdown that needs
\* no fairness.
THEOREM DrainingEndsAllSleep == Spec => [](SuspendLeft \in Nat) /\ DrainingEndsSleep
<1>1. TypeOK => SuspendLeft \in Nat
  BY StepsOfTop, LenProperties DEF SuspendLeft, TypeOK, Shells
<1>2. TypeOK /\ TypeOK' /\ [Next]_vars
        => [Draining =>
              /\ SuspendSteps => SuspendLeft' < SuspendLeft
              /\ ~(ShellSuspends \/ MenuSuspends) => SuspendLeft' <= SuspendLeft]_vars
  <2> SUFFICES ASSUME TypeOK, TypeOK', [Next]_vars, Draining
               PROVE  /\ SuspendSteps => SuspendLeft' < SuspendLeft
                      /\ ~(ShellSuspends \/ MenuSuspends)
                           => SuspendLeft' <= SuspendLeft
    OBVIOUS
  <2>1. SuspendSteps => SuspendLeft' < SuspendLeft
    BY DrainingRunsDown
  <2>2. SuspendLeft \in Nat /\ SuspendLeft' \in Nat
    <3>1. SuspendLeft \in Nat
      BY <1>1
    <3>2. StepsLeft' \in 0..5 /\ Len(frames') \in Nat /\ shell'.calls \in Nat
      BY StepsOfTopAfter, LenProperties DEF TypeOK, Shells
    <3> QED
      BY <3>1, <3>2 DEF SuspendLeft
  <2>3. ASSUME ~(ShellSuspends \/ MenuSuspends) PROVE SuspendLeft' <= SuspendLeft
    BY <2>1, <2>2, <2>3, OthersAddNothing DEF Next
  <2> QED
    BY <2>1, <2>3
<1> QED
  BY <1>1, <1>2, TypeCorrect, PTL DEF Spec, DrainingEndsSleep

-----------------------------------------------------------------------------
(* Without a cable, giving up is for good.                                 *)

\* The reading may be old, but without a cable the cell is no better than it.
LowInv ==
    /\ ~cable
    /\ battery.voltage = "threshold" => battery.cell = "threshold"
    /\ CondemnedIsLow

\* Only an empty cell makes suspend() give up, and nothing charges it.
THEOREM CondemnedStaysLow ==
    ASSUME "cable" \notin Clients
    PROVE  Spec => []CondemnedIsLow
<1>1. Init => LowInv
  <2> SUFFICES ASSUME Init PROVE LowInv
    OBVIOUS
  <2>1. cable = FALSE /\ condemned = FALSE /\ battery.voltage = "good"
    BY DEF Init
  <2> QED
    BY <2>1 DEF LowInv, CondemnedIsLow
<1>2. TypeOK /\ LowInv /\ [Next]_vars => LowInv'
  <2> SUFFICES ASSUME TypeOK, LowInv, [Next]_vars PROVE LowInv'
    OBVIOUS
  <2>t. battery \in Batteries
    BY DEF TypeOK
  <2>k. ASSUME UNCHANGED <<cable, battery, condemned>> PROVE LowInv'
    BY <2>k DEF LowInv, CondemnedIsLow
  <2>1. CASE UNCHANGED vars
    BY <2>1, <2>k DEF vars
  <2>2. CASE SuspendCall \/ PreSuspend \/ WakeupByEPIT \/ PostSuspend
    BY <2>2, <2>k DEF SuspendCall, PreSuspend, WakeupByEPIT, PostSuspend
  <2>3. CASE SuspendReturns
    BY <2>3 DEF SuspendReturns, LowInv, CondemnedIsLow
  <2>4. CASE WakeupByKey
    BY <2>4 DEF WakeupByKey, LeaveDeepSleep, LowInv, CondemnedIsLow
  <2>5. CASE EPITLoopEnds
    <3>1. /\ cable' = cable /\ battery'.voltage = battery.cell
          /\ battery'.cell = battery.cell
      BY <2>5, <2>t DEF EPITLoopEnds, Batteries
    <3>2. condemned' = condemned \/ battery.cell = "threshold"
      BY <2>5 DEF EPITLoopEnds, LeaveDeepSleep
    <3> QED
      BY <3>1, <3>2 DEF LowInv, CondemnedIsLow
  <2>6. CASE RequestSteps
    <3>1. CASE StandbyPressed
      BY <3>1, <2>k DEF StandbyPressed
    <3>4. CASE AutoSuspend
      BY <3>4, <2>t DEF AutoSuspend, LowInv, CondemnedIsLow, Batteries
    <3>2. CASE CleanSuspend \/ ShutdownPressed \/ ShutdownTimeout \/ ShutdownCall
      BY <3>2, <2>k DEF CleanSuspend, ShutdownPressed, ShutdownTimeout, ShutdownCall,
         Shutdown
    <3>3. CASE ShellSuspends \/ MenuSuspends \/ ShellShutsDown \/ ShellTimeout
      BY <3>3, <2>k DEF ShellSuspends, MenuSuspends, ShellShutsDown, ShellTimeout
    <3> QED
      BY <2>6, <3>1, <3>2, <3>3, <3>4 DEF RequestSteps
  <2>7. CASE PlugOrUnplug
    BY <2>7 DEF PlugOrUnplug
  <2>8. CASE CellChanges
    <3>1. battery.cell # "threshold"
      BY <2>8 DEF CellChanges, LowInv
    <3> QED
      BY <2>8, <2>t, <3>1 DEF CellChanges, LowInv, CondemnedIsLow, Batteries
  <2>9. CASE UpdateBattery
    BY <2>9, <2>t DEF UpdateBattery, LowInv, CondemnedIsLow, Batteries
  <2>10. CASE DeviceSteps /\ ~PlugOrUnplug /\ ~CellChanges /\ ~UpdateBattery
    BY <2>10, <2>k DEF DeviceSteps, EnableWifi, ThreeGEvent, ReconnectTimeout,
       SdCardChanged, SDChanged, USBCableChanged, UdevUSBDisconnect,
       ResetTouchScreen, WorkInUSBSlaveMode, SetSystemBusy
  <2> QED
    BY <2>1, <2>2, <2>3, <2>4, <2>5, <2>6, <2>7, <2>8, <2>9, <2>10
       DEF Next, SuspendSteps
<1>3. LowInv => CondemnedIsLow
  BY DEF LowInv
<1> QED
  BY <1>1, <1>2, <1>3, TypeCorrect, PTL DEF Spec
=============================================================================
