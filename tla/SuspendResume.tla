--------------------------- MODULE SuspendResume ---------------------------
(***************************************************************************)
(* How system_manager puts the reader to sleep and wakes it up again.      *)
(*                                                                         *)
(* The daemon is one Qt thread.  SystemManagerAdaptor::suspend() is a      *)
(* D-Bus method that runs for as long as the device sleeps, and four times *)
(* on its way it pumps the event loop: while pre_suspend.sh and            *)
(* post_suspend.sh run (sys::runScript), after every wake-up by the EPIT   *)
(* timer (onWakeupByEPIT), and before the keys are enabled again           *)
(* (postSuspend).  In those loops any other slot may run, suspend() too.   *)
(* `frames' is the stack of activations of suspend(), newest first; a slot *)
(* runs only when that stack is empty or its newest activation pumps.      *)
(*                                                                         *)
(* The GUI shell (explorer) is the other process: it answers the signal    *)
(* aboutToSuspend with a blocking call of suspend() that may time out.     *)
(***************************************************************************)
EXTENDS Integers, Sequences

CONSTANTS
    Clients,     \* the groups of events that occur, a subset of ClientKinds
    MaxDepth,    \* bound: activations of suspend() on the stack
    MaxTimers,   \* bound: pending single-shot timers of each kind
    MaxSignals,  \* bound: signals the shell has not handled yet
    MaxCalls     \* bound: calls of suspend() not delivered yet

ClientKinds == {"wifi", "tg", "sd", "touch", "cable", "usb", "power"}

ASSUME ClientsAssumption == Clients \subseteq ClientKinds
ASSUME BoundsAssumption ==
    /\ MaxDepth \in Nat \ {0}
    /\ MaxTimers \in Nat \ {0}
    /\ MaxSignals \in Nat \ {0}
    /\ MaxCalls \in Nat \ {0}

VARIABLES
    context,    \* the fields of struct Context
    device,     \* what the hardware, the input filter and the kernel modules
                \* are set to (tg: the 3G state is TG_CONNECTED; disk: the
                \* flash is handed to the PC; reset: history, somebody switched
                \* on a touch screen that preSuspend() had switched off)
    frames,     \* the activations of suspend(), newest first
    timers,     \* pending single shots: cleanSuspend, connect3g, shutdown
    shell,      \* explorer: blocked in suspend()?, its signals, its calls
    battery,    \* the cell itself, and PowerManager::voltage_ as last read
    cable,      \* is the USB cable in (the gpio isUSBConnected() reads)
    card,       \* SD: mounted (the watcher's table), shown (last signal sent)
    condemned,  \* the last suspend() to end returned false
    dark,       \* history: suspend() gave up in the key loop of another, and left
                \* the screen off that this one had switched on
    off         \* the device was told to power off

vars == <<context, device, frames, timers, shell, battery, cable, card,
          condemned, dark, off>>

-----------------------------------------------------------------------------
(* The values the variables take.                                          *)

UsbStates == {"", "detect", "connect", "disconnect", "3G-host"}

\* Above VOLTAGE_DANGEROUS, above VOLTAGE_THRESHOLD, and not even that.
Voltages == {"good", "dangerous", "threshold"}

Signals == {"aboutToSuspend", "aboutToShutdown", "batteryDangerous"}

\* Where an activation of suspend() is.  All but "asleep" pump events.
Pumping == {"pre_script", "epit_loop", "post_script", "key_loop"}

\* inserted is the local variable of suspend(); awaited: the shell still waits
\* for the reply.  The others are history: whether suspend() was entered again
\* above this activation and, until it is, what preSuspend() found on, and
\* whether the listeners knew the state of the card when suspend() was called.
Frame == [pc : Pumping \cup {"asleep"}, inserted : BOOLEAN, awaited : BOOLEAN,
          wifi : BOOLEAN, tg : BOOLEAN, settled : BOOLEAN,
          reentered : BOOLEAN]

Contexts == [sleeping : BOOLEAN, broadcast : BOOLEAN, sd_inserted : BOOLEAN,
             wifi_state : BOOLEAN, threeg_connected : BOOLEAN,
             usb_state : UsbStates, suspend_count : Nat]
Devices == [wifi : BOOLEAN, tg : BOOLEAN, disk : BOOLEAN, keyboard : BOOLEAN,
            mouse : BOOLEAN, standby : BOOLEAN, touch : BOOLEAN,
            reset : BOOLEAN, update : BOOLEAN, busy : BOOLEAN]
Timers == [clean : Nat, reconnect : Nat, shutdown : Nat]
Shells == [calling : BOOLEAN, signals : Seq(Signals), calls : Nat,
           shutdown : BOOLEAN]
Batteries == [cell : Voltages, voltage : Voltages]
Cards == [mounted : BOOLEAN, shown : BOOLEAN]

Top == Head(frames)

\* The event loop runs: slots, timers and D-Bus calls are delivered.
Dispatching == ~off /\ (frames # <<>> => Top.pc \in Pumping)

At(pc) == ~off /\ frames # <<>> /\ Top.pc = pc

\* The newest activation moves on to pc.
Goto(pc) == [frames EXCEPT ![1] = [@ EXCEPT !.pc = pc]]

-----------------------------------------------------------------------------
Init ==
    /\ context = [sleeping |-> FALSE, broadcast |-> TRUE, sd_inserted |-> FALSE,
                  wifi_state |-> FALSE, threeg_connected |-> FALSE,
                  usb_state |-> "", suspend_count |-> 0]
    /\ device = [wifi |-> FALSE, tg |-> FALSE, disk |-> FALSE,
                 keyboard |-> TRUE, mouse |-> TRUE, standby |-> TRUE,
                 touch |-> TRUE, reset |-> FALSE, update |-> TRUE, busy |-> FALSE]
    /\ frames = <<>>
    /\ timers = [clean |-> 0, reconnect |-> 0, shutdown |-> 0]
    /\ shell = [calling |-> FALSE, signals |-> <<>>, calls |-> 0,
                shutdown |-> FALSE]
    /\ battery = [cell |-> "good", voltage |-> "good"]
    /\ cable = FALSE
    /\ card = [mounted |-> FALSE, shown |-> FALSE]
    /\ condemned = FALSE /\ dark = FALSE
    /\ off = FALSE

-----------------------------------------------------------------------------
(* Asking the shell to suspend or to shut down.                            *)

Room == Len(shell.signals) < MaxSignals

Tell(signal) == [shell EXCEPT !.signals = Append(@, signal)]

\* Mutant: the timer is started only with the signal.
BroadcastWithoutTimer(toggled) ==
    /\ Room /\ timers.clean < MaxTimers
    /\ \/ /\ context.suspend_count + 1 <= 1
          /\ shell' = Tell("aboutToSuspend")
          /\ timers' = [timers EXCEPT !.clean = @ + 1]
       \/ context.suspend_count + 1 > 1 /\ UNCHANGED <<shell, timers>>
    /\ context' = [context EXCEPT !.suspend_count = @ + 1, !.sleeping = toggled]

\* broadcastSuspendSignal(): only the first of a burst of requests is sent.
BroadcastSuspendSignal(toggled) ==
    /\ Room /\ timers.clean < MaxTimers
    /\ shell' = IF context.suspend_count + 1 <= 1
                THEN Tell("aboutToSuspend") ELSE shell
    /\ timers' = [timers EXCEPT !.clean = @ + 1]
    /\ context' = [context EXCEPT !.suspend_count = @ + 1, !.sleeping = toggled]

\* The standby key, while the keyboard filter lets it through.
StandbyPressed ==
    /\ Dispatching /\ device.standby
    /\ \/ /\ ~context.sleeping /\ context.usb_state # "connect"
          /\ BroadcastSuspendSignal(~context.sleeping)
       \/ /\ context.sleeping \/ context.usb_state = "connect"
          /\ context' = [context EXCEPT !.sleeping = ~@]
          /\ UNCHANGED <<shell, timers>>
    /\ UNCHANGED <<device, frames, battery, cable, card, condemned, dark, off>>

\* PowerManager::save() found the device unused: onAboutToSuspend().
AutoSuspend ==
    /\ Dispatching
    /\ battery' = [battery EXCEPT !.voltage = battery.cell]
    /\ \/ ~cable /\ BroadcastSuspendSignal(context.sleeping)
       \/ cable /\ UNCHANGED <<shell, timers, context>>
    /\ UNCHANGED <<device, frames, cable, card, condemned, dark, off>>

\* Mutant: the count is not reset when it falls below zero.
CleanSuspendUnreset ==
    /\ Dispatching /\ timers.clean > 0
    /\ timers' = [timers EXCEPT !.clean = @ - 1]
    /\ context' = [context EXCEPT !.suspend_count = @ - 1]
    /\ UNCHANGED <<device, frames, shell, battery, cable, card, condemned, dark, off>>

\* The timer of broadcastSuspendSignal(), 4.5 seconds later.
CleanSuspend ==
    /\ Dispatching /\ timers.clean > 0
    /\ timers' = [timers EXCEPT !.clean = @ - 1]
    /\ context' = [context EXCEPT !.suspend_count = IF @ - 1 < 0 THEN 0 ELSE @ - 1]
    /\ UNCHANGED <<device, frames, shell, battery, cable, card, condemned, dark, off>>

\* The power key held down.  The filter never disables this one.
ShutdownPressed ==
    /\ "power" \in Clients
    /\ Dispatching /\ Room /\ timers.shutdown < MaxTimers
    /\ shell' = Tell("aboutToShutdown")
    /\ context' = [context EXCEPT !.suspend_count = @ + 1]
    /\ timers' = [timers EXCEPT !.shutdown = @ + 1]
    /\ UNCHANGED <<device, frames, battery, cable, card, condemned, dark, off>>

\* shutdown(): the radios lose their power, then the device does.
Shutdown ==
    /\ off' = TRUE
    /\ device' = [device EXCEPT !.wifi = FALSE, !.tg = FALSE]
    /\ UNCHANGED <<context, frames, battery, cable, card, condemned, dark>>

\* Eight seconds after the power key, with or without the shell.
ShutdownTimeout ==
    /\ Dispatching /\ timers.shutdown > 0
    /\ timers' = [timers EXCEPT !.shutdown = @ - 1]
    /\ Shutdown
    /\ UNCHANGED shell

\* The shell's asynchronous call of shutdown() arrives.
ShutdownCall ==
    /\ Dispatching /\ shell.shutdown
    /\ shell' = [shell EXCEPT !.shutdown = FALSE]
    /\ Shutdown
    /\ UNCHANGED timers

-----------------------------------------------------------------------------
(* The shell: MainWindow, ModelView and the D-Bus client SysStatus.        *)

ShellCalls(signals) ==
    /\ shell.calls < MaxCalls
    /\ shell' = [shell EXCEPT !.calling = TRUE, !.calls = @ + 1,
                              !.signals = signals]

\* On aboutToSuspend the shell calls suspend() and blocks.
ShellSuspends ==
    /\ ~off /\ ~shell.calling
    /\ shell.signals # <<>> /\ Head(shell.signals) = "aboutToSuspend"
    /\ ShellCalls(Tail(shell.signals))
    /\ UNCHANGED <<context, device, frames, timers, battery, cable, card,
                   condemned, dark, off>>

\* So it does when the user asks from its menu.
MenuSuspends ==
    /\ ~off /\ ~shell.calling
    /\ ShellCalls(shell.signals)
    /\ UNCHANGED <<context, device, frames, timers, battery, cable, card,
                   condemned, dark, off>>

\* On aboutToShutdown or a dangerous battery it calls shutdown() and goes on.
ShellShutsDown ==
    /\ ~off /\ ~shell.calling
    /\ shell.signals # <<>> /\ Head(shell.signals) # "aboutToSuspend"
    /\ shell' = [shell EXCEPT !.shutdown = TRUE, !.signals = Tail(@)]
    /\ UNCHANGED <<context, device, frames, timers, battery, cable, card,
                   condemned, dark, off>>

\* D-Bus gives up waiting for the reply: the shell runs on, suspend() too.
ShellTimeout ==
    /\ ~off /\ shell.calling
    /\ shell' = [shell EXCEPT !.calling = FALSE]
    /\ frames' = [i \in DOMAIN frames |-> [frames[i] EXCEPT !.awaited = FALSE]]
    /\ UNCHANGED <<context, device, timers, battery, cable, card, condemned, dark, off>>

\* Mutant: the reply is lost.
AnswerLost(s) == s

\* The shell after the newest activation has returned.
Answered(s) == IF Top.awaited THEN [s EXCEPT !.calling = FALSE] ELSE s

-----------------------------------------------------------------------------
(* suspend(), from one pumping loop to the next.                           *)

\* The card's last handler is done, and its result was told.
CardSettled == card.mounted = context.sd_inserted /\ card.shown = card.mounted

\* What becomes of the history of an older activation.
Reenter(f) == [f EXCEPT !.reentered = TRUE, !.wifi = FALSE, !.tg = FALSE,
                        !.settled = FALSE]

\* suspend() is entered: preSuspend() up to runScript("pre_suspend.sh").
SuspendCall ==
    /\ Dispatching /\ shell.calls > 0 /\ Len(frames) < MaxDepth
    /\ shell' = [shell EXCEPT !.calls = @ - 1]
    /\ frames' = <<[pc |-> "pre_script", inserted |-> card.mounted,
                    awaited |-> shell.calling /\ shell.calls = 1,
                    wifi |-> FALSE, tg |-> FALSE, settled |-> CardSettled,
                    reentered |-> FALSE]>>
                 \o [i \in DOMAIN frames |-> Reenter(frames[i])]
    /\ device' = [device EXCEPT !.update = FALSE]
    /\ context' = [context EXCEPT !.sleeping = TRUE, !.broadcast = FALSE]
    /\ UNCHANGED <<timers, battery, cable, card, condemned, dark, off>>

\* Mutant: the state of Wi-Fi is stored after it was turned off.
PreSuspendStoresLate ==
    /\ At("pre_script")
    /\ context' = [context EXCEPT !.wifi_state = FALSE,
                                  !.threeg_connected = device.tg]
    /\ device' = [device EXCEPT !.touch = FALSE, !.reset = FALSE, !.wifi = FALSE,
                                !.tg = FALSE, !.keyboard = FALSE, !.standby = FALSE]
    /\ frames' = [frames EXCEPT ![1] = [@ EXCEPT !.pc = "asleep",
                     !.wifi = device.wifi, !.tg = device.tg]]
    /\ UNCHANGED <<timers, shell, battery, cable, card, condemned, dark, off>>

\* Mutant: the standby key stays enabled.
PreSuspendStandbyOn ==
    /\ At("pre_script")
    /\ context' = [context EXCEPT !.wifi_state = device.wifi,
                                  !.threeg_connected = device.tg]
    /\ device' = [device EXCEPT !.touch = FALSE, !.reset = FALSE, !.wifi = FALSE,
                                !.tg = FALSE, !.keyboard = FALSE]
    /\ frames' = [frames EXCEPT ![1] = [@ EXCEPT !.pc = "asleep",
                     !.wifi = device.wifi, !.tg = device.tg]]
    /\ UNCHANGED <<timers, shell, battery, cable, card, condemned, dark, off>>

\* The script has ended: the rest of preSuspend(), then "standby".
PreSuspend ==
    /\ At("pre_script")
    /\ context' = [context EXCEPT !.wifi_state = device.wifi,
                                  !.threeg_connected = device.tg]
    /\ device' = [device EXCEPT !.touch = FALSE, !.reset = FALSE, !.wifi = FALSE,
                                !.tg = FALSE, !.keyboard = FALSE, !.standby = FALSE]
    /\ frames' = [frames EXCEPT ![1] = [@ EXCEPT !.pc = "asleep",
                     !.wifi = device.wifi, !.tg = device.tg]]
    /\ UNCHANGED <<timers, shell, battery, cable, card, condemned, dark, off>>

\* deepSleep(): the EPIT timer ended the standby; onWakeupByEPIT() pumps.
WakeupByEPIT ==
    /\ At("asleep")
    /\ frames' = Goto("epit_loop")
    /\ UNCHANGED <<context, device, timers, shell, battery, cable, card,
                   condemned, dark, off>>

\* deepSleep() has returned: resume when the voltage last read allows the
\* screen to be updated, else give up and wait for the shutdown.
LeaveDeepSleep(voltage, told) ==
    \/ /\ voltage # "threshold" \/ cable
       /\ frames' = Goto("post_script")
       /\ shell' = told
       /\ UNCHANGED <<condemned, dark>>
    \/ /\ voltage = "threshold" /\ ~cable
       /\ frames' = Tail(frames)
       /\ shell' = Answered(told)
       /\ condemned' = TRUE
       /\ dark' = (dark \/ (Len(frames) > 1 /\ frames[2].pc = "key_loop"))

\* A key ended the standby: nobody reads the battery.
WakeupByKey ==
    /\ At("asleep")
    /\ LeaveDeepSleep(battery.voltage, shell)
    /\ UNCHANGED <<context, device, timers, battery, cable, card, off>>

\* The EPIT loop is over: checkBattery(), then back to standby or out.  (Its
\* signal is dropped when MaxSignals are waiting: a bound of the model.)
EPITLoopEnds ==
    /\ At("epit_loop")
    /\ battery' = [battery EXCEPT !.voltage = battery.cell]
    /\ \/ /\ cable \/ battery.cell = "good"
          /\ frames' = Goto("asleep")
          /\ UNCHANGED <<shell, condemned, dark>>
       \/ /\ ~cable /\ battery.cell # "good"
          /\ LeaveDeepSleep(battery.cell,
                             IF Room THEN Tell("aboutToShutdown") ELSE shell)
    /\ UNCHANGED <<context, device, timers, cable, card, off>>

\* Mutant: the screen stays off.
PostSuspendUnseen ==
    /\ At("post_script")
    /\ device' = [device EXCEPT !.wifi = context.wifi_state]
    /\ frames' = Goto("key_loop") /\ dark' = FALSE
    /\ UNCHANGED <<context, timers, shell, battery, cable, card, condemned, off>>

\* postSuspend() from the end of its script to the loop that drains the keys.
PostSuspend ==
    /\ At("post_script")
    /\ device' = [device EXCEPT !.update = TRUE, !.wifi = context.wifi_state]
    /\ frames' = Goto("key_loop") /\ dark' = FALSE
    /\ UNCHANGED <<context, timers, shell, battery, cable, card, condemned, off>>

\* Mutants: broadcasts stay disabled; the sleep flag stays set.
AwakeUnheard == [context EXCEPT !.sleeping = FALSE, !.suspend_count = 0]
AwakeUnaware == [context EXCEPT !.broadcast = TRUE, !.suspend_count = 0]

\* The context of an awake device.
AwakeContext == [context EXCEPT !.sleeping = FALSE, !.broadcast = TRUE,
                                !.suspend_count = 0]

\* Mutant: what counts is whether 3G is connected now.
ReconnectIfConnected ==
    IF device.tg THEN [timers EXCEPT !.reconnect = @ + 1] ELSE timers

\* The 3G connection that was cut is dialled again in four seconds.
Reconnect ==
    IF context.threeg_connected THEN [timers EXCEPT !.reconnect = @ + 1]
    ELSE timers

\* Mutant: the card is not looked at again.
RecheckNothing == card

\* The listeners learn of a card that changed while nothing was broadcast.
RecheckSd ==
    IF context.sd_inserted # Top.inserted
    THEN [card EXCEPT !.shown = context.sd_inserted] ELSE card

\* The rest of postSuspend(), and of suspend(): it returns true.
SuspendReturns ==
    /\ At("key_loop") /\ timers.reconnect < MaxTimers
    /\ device' = [device EXCEPT !.keyboard = TRUE, !.standby = TRUE,
                                !.touch = TRUE, !.reset = FALSE]
    /\ context' = AwakeContext
    /\ timers' = Reconnect
    /\ card' = RecheckSd
    /\ frames' = Tail(frames)
    /\ shell' = Answered(shell)
    /\ condemned' = FALSE
    /\ UNCHANGED <<battery, cable, dark, off>>

-----------------------------------------------------------------------------
(* Wi-Fi, 3G, the SD card, the touch screen.                               *)

\* enableSdio(), the Wi-Fi key, and the methods that start or stop
\* wpa_supplicant: each sets the power of the Wi-Fi chip.
EnableWifi ==
    /\ "wifi" \in Clients /\ Dispatching
    /\ \E on \in BOOLEAN : device' = [device EXCEPT !.wifi = on]
    /\ UNCHANGED <<context, frames, timers, shell, battery, cable, card,
                   condemned, dark, off>>

\* connect3g(): nothing with the power switch off, or while a connection is made.
\* (The power of the modem, the dialling and the retries are in ThreeG.)
Connect3g ==
    /\ \/ ~device.tg /\ context' = [context EXCEPT !.usb_state = "3G-host"]
       \/ UNCHANGED context
    /\ UNCHANGED device

\* A client connects or disconnects, or the modem reports ip-up.
ThreeGEvent ==
    /\ "tg" \in Clients /\ Dispatching
    /\ \/ Connect3g
       \/ /\ \E connected \in BOOLEAN : device' = [device EXCEPT !.tg = connected]
          /\ UNCHANGED context
    /\ UNCHANGED <<frames, timers, shell, battery, cable, card, condemned, dark, off>>

\* The single shot of postSuspend(), four seconds after the wake-up.
ReconnectTimeout ==
    /\ Dispatching /\ timers.reconnect > 0
    /\ timers' = [timers EXCEPT !.reconnect = @ - 1]
    /\ Connect3g
    /\ UNCHANGED <<frames, shell, battery, cable, card, condemned, dark, off>>

\* naboo_sd_handler.sh reports the card, once its last mount or umount is done.
SdCardChanged ==
    /\ "sd" \in Clients /\ Dispatching
    /\ context.sd_inserted = card.mounted /\ ~device.disk
    /\ context' = [context EXCEPT !.sd_inserted = ~@]
    /\ UNCHANGED <<device, frames, timers, shell, battery, cable, card,
                   condemned, dark, off>>

\* It then mounts or unmounts: MountEntryWatcher and onSDChanged() notice.
SDChanged ==
    /\ Dispatching /\ context.sd_inserted # card.mounted
    /\ card' = [mounted |-> context.sd_inserted,
                shown |-> IF context.broadcast THEN context.sd_inserted
                          ELSE card.shown]
    /\ UNCHANGED <<context, device, frames, timers, shell, battery, cable,
                   condemned, dark, off>>

\* resetTouchScreen(), a D-Bus method: on, whether the device sleeps or not.
ResetTouchScreen ==
    /\ "touch" \in Clients /\ Dispatching
    /\ device' = [device EXCEPT !.touch = TRUE, !.reset = @ \/ ~device.touch]
    /\ UNCHANGED <<context, frames, timers, shell, battery, cable, card,
                   condemned, dark, off>>

-----------------------------------------------------------------------------
(* The USB cable, USB disk mode and the busy state.                        *)

\* The cable itself, which isUSBConnected() reads without any event.
PlugOrUnplug ==
    /\ "cable" \in Clients /\ ~off
    /\ cable' = ~cable
    /\ UNCHANGED <<context, device, frames, timers, shell, battery, card,
                   condemned, dark, off>>

\* Mutant: the input is forgotten.
LeaveSlaveModeDeaf ==
    /\ device' = [device EXCEPT !.update = TRUE, !.disk = FALSE] /\ dark' = FALSE
    /\ context' = [context EXCEPT !.usb_state = "disconnect"]

\* changeUSBState("disconnect").
LeaveSlaveMode ==
    /\ device' = [device EXCEPT !.keyboard = TRUE, !.mouse = TRUE,
                                !.update = TRUE, !.disk = FALSE]
    /\ context' = [context EXCEPT !.usb_state = "disconnect"]
    /\ dark' = FALSE

\* The filter reports the cable, sometimes without a change; the gpio decides.
USBCableChanged ==
    /\ "cable" \in Clients /\ Dispatching
    /\ \/ /\ cable
          /\ context' = [context EXCEPT !.usb_state = "detect"]
          /\ UNCHANGED <<device, dark>>
       \/ ~cable /\ context.usb_state = "connect" /\ LeaveSlaveMode
    /\ UNCHANGED <<frames, timers, shell, battery, cable, card, condemned, off>>

\* udev reports that the PC let the device go.
UdevUSBDisconnect ==
    /\ "usb" \in Clients /\ Dispatching /\ LeaveSlaveMode
    /\ UNCHANGED <<frames, timers, shell, battery, cable, card, condemned, off>>

\* The user makes the device a USB disk.  Restricted to no card in the slot.
WorkInUSBSlaveMode ==
    /\ "usb" \in Clients /\ Dispatching
    /\ ~context.sd_inserted /\ ~card.mounted
    /\ device' = [device EXCEPT !.keyboard = FALSE, !.mouse = FALSE,
                                !.update = FALSE, !.disk = TRUE]
    /\ context' = [context EXCEPT !.usb_state = "connect"]
    /\ card' = [card EXCEPT !.shown = FALSE]
    /\ UNCHANGED <<frames, timers, shell, battery, cable, condemned, dark, off>>

\* A client declares the system busy, or no longer busy.
SetSystemBusy ==
    /\ "usb" \in Clients /\ Dispatching
    /\ \E busy \in BOOLEAN :
         device' = [device EXCEPT !.keyboard = ~busy, !.mouse = ~busy,
                                  !.busy = busy]
    /\ UNCHANGED <<context, frames, timers, shell, battery, cable, card,
                   condemned, dark, off>>

-----------------------------------------------------------------------------
(* The battery.                                                            *)

\* The cell drains without the cable and is charged with it.
CellChanges ==
    /\ "power" \in Clients /\ ~off
    /\ \E level \in Voltages :
         /\ battery' = [battery EXCEPT !.cell = level]
         /\ \/ ~cable /\ battery.cell = "good" /\ level = "dangerous"
            \/ ~cable /\ battery.cell = "dangerous" /\ level = "threshold"
            \/ cable /\ battery.cell # "good" /\ level = "good"
    /\ UNCHANGED <<context, device, frames, timers, shell, cable, card,
                   condemned, dark, off>>

\* Mutant: a level is told once.
UpdateBatteryOnce ==
    /\ "power" \in Clients /\ Dispatching
    /\ battery' = [battery EXCEPT !.voltage = battery.cell]
    /\ \/ /\ cable \/ battery.cell \in {"good", battery.voltage}
          /\ UNCHANGED shell
       \/ /\ ~cable /\ battery.cell \notin {"good", battery.voltage} /\ Room
          /\ shell' = Tell("batteryDangerous")
    /\ UNCHANGED <<context, device, frames, timers, cable, card, condemned, dark, off>>

\* updateBattery(), every minute: a dangerous level is told every time.
UpdateBattery ==
    /\ "power" \in Clients /\ Dispatching
    /\ battery' = [battery EXCEPT !.voltage = battery.cell]
    /\ \/ /\ cable \/ battery.cell = "good"
          /\ UNCHANGED shell
       \/ /\ ~cable /\ battery.cell # "good" /\ Room
          /\ shell' = Tell("batteryDangerous")
    /\ UNCHANGED <<context, device, frames, timers, cable, card, condemned, dark, off>>

-----------------------------------------------------------------------------
SuspendSteps ==
    \/ SuspendCall \/ PreSuspend \/ WakeupByEPIT \/ WakeupByKey
    \/ EPITLoopEnds \/ PostSuspend \/ SuspendReturns

RequestSteps ==
    \/ StandbyPressed \/ AutoSuspend \/ CleanSuspend \/ ShutdownPressed
    \/ ShutdownTimeout \/ ShutdownCall
    \/ ShellSuspends \/ MenuSuspends \/ ShellShutsDown \/ ShellTimeout

DeviceSteps ==
    \/ EnableWifi \/ ThreeGEvent \/ ReconnectTimeout \/ SdCardChanged \/ SDChanged
    \/ ResetTouchScreen \/ PlugOrUnplug \/ USBCableChanged \/ UdevUSBDisconnect
    \/ WorkInUSBSlaveMode \/ SetSystemBusy \/ CellChanges \/ UpdateBattery

Next == SuspendSteps \/ RequestSteps \/ DeviceSteps

Spec == Init /\ [][Next]_vars

(***************************************************************************)
(* Fairness.  Scripts and pumping loops end, and the EPIT timer wakes the  *)
(* device (every 180 seconds).  Timers that are due and D-Bus messages     *)
(* that have arrived are handled whenever a loop pumps; since loops come   *)
(* and go while the device sleeps, that is strong fairness.  The shell     *)
(* handles its signals in order between its calls.  Nothing is assumed of  *)
(* the user, the cable, the card, the modem or a D-Bus timeout.            *)
(***************************************************************************)
Fairness ==
    /\ WF_vars(PreSuspend) /\ WF_vars(PostSuspend) /\ WF_vars(SuspendReturns)
    /\ WF_vars(WakeupByEPIT) /\ WF_vars(EPITLoopEnds)
    /\ SF_vars(SuspendCall) /\ SF_vars(ShutdownCall) /\ SF_vars(UpdateBattery)
    /\ SF_vars(ShellSuspends) /\ SF_vars(ShellShutsDown)

FairSpec == Spec /\ Fairness

-----------------------------------------------------------------------------
(* Properties.                                                             *)

\* Every variable keeps its shape, and the counters their bounds from below.
TypeOK ==
    /\ context \in Contexts /\ device \in Devices
    /\ frames \in Seq(Frame)
    /\ timers \in Timers /\ shell \in Shells
    /\ battery \in Batteries /\ card \in Cards
    /\ cable \in BOOLEAN /\ condemned \in BOOLEAN /\ dark \in BOOLEAN /\ off \in BOOLEAN

\* Whatever happened on the way, with suspend() re-entered or not: once no
\* activation is left, and the last one did not give up, the standby key, the
\* touch screen and the broadcasts work (what preSuspend() took away).
AwakeRestored ==
    frames = <<>> /\ ~condemned =>
        context.broadcast /\ device.standby /\ device.touch

\* suspend_count never blocks the standby key for good: each unit of it is
\* still held by a cleanSuspend or shutdown timer that is going to run.
SuspendCountBacked ==
    ~off => context.suspend_count <= timers.clean + timers.shutdown

\* In standby, unless suspend() was re-entered since preSuspend(): no
\* broadcasts, no standby key, and no power for the touch screen unless somebody
\* switched it on since, by resetTouchScreen() in the loop of the EPIT timer.
QuietWhileAsleep ==
    At("asleep") /\ ~Top.reentered =>
        ~context.broadcast /\ ~device.standby /\ (device.touch => device.reset)

\* If preSuspend() found Wi-Fi on, postSuspend() turns it on again, and only
\* then, unless suspend() was re-entered in between.
WifiRestored ==
    [][PostSuspend /\ ~Top.reentered => device'.wifi = Top.wifi]_vars

\* A 3G connection that preSuspend() cut is dialled again after the wake-up,
\* unless suspend() was re-entered in between.
ReconnectScheduled ==
    [][SuspendReturns /\ ~Top.reentered /\ Top.tg => timers'.reconnect > 0]_vars

\* The card events a sleeping system manager swallows are made up for: when
\* suspend() returns, with the handlers of those events done, the listeners were
\* last told what is mounted (if they knew before, and without re-entry).
SdRechecked ==
    [][SuspendReturns /\ Top.settled /\ card'.mounted = context'.sd_inserted
       => card'.shown = card'.mounted]_vars

\* An awake device, whose flash is not handed to a PC, can be used, with
\* suspends, USB disk mode and busy periods in any order before.  Only the screen
\* may stay off, and only if suspend() gave up in the key loop of another.
InputBack ==
    ~device.disk /\ frames = <<>> /\ ~condemned =>
        /\ ~device.busy => device.keyboard /\ device.mouse
        /\ device.update \/ dark

\* An awake device takes the standby key for the one that woke it, and ignores
\* it, only while a suspend or a shutdown was really asked for.
SleepingExplained ==
    context.sleeping /\ frames = <<>> /\ ~condemned /\ ~off
        /\ context.usb_state # "connect"
    =>
        \/ shell.calls > 0
        \/ timers.shutdown > 0
        \/ \E i \in DOMAIN shell.signals : shell.signals[i] = "aboutToSuspend"

\* When suspend() gives up for want of voltage ("Wait for shutdown"), the
\* device does shut down.
WaitForShutdown == condemned ~> off

\* A broadcast aboutToSuspend puts the device to sleep.
SuspendServed ==
    (\E i \in DOMAIN shell.signals : shell.signals[i] = "aboutToSuspend")
        ~> (frames # <<>> \/ off)

\* The activations that owe the shell a reply
Owing == {i \in DOMAIN frames : frames[i].awaited}

\* The shell never blocks for a reply that nobody owes it, and no reply is taken
\* for that of a later call: while it is blocked, either its call is on the way,
\* or one activation owes it a reply, and otherwise none does.
ShellAnswered ==
    /\ shell.calling => (shell.calls > 0 <=> Owing = {})
    /\ ~shell.calling => Owing = {}
    /\ \A i, j \in Owing : i = j

\* Without a cable, a suspend() that gave up has found the cell empty, and so it
\* stays: updateBattery() tells it every minute.
CondemnedIsLow == condemned => battery.cell = "threshold" /\ ~cable

Draining == ~cable /\ battery.cell # "good"

\* How many steps the newest activation has left when the battery drains.
StepsLeft ==
    IF frames = <<>> THEN 0
    ELSE CASE Top.pc = "pre_script"  -> 5
           [] Top.pc = "asleep"      -> 4
           [] Top.pc = "epit_loop"   -> 3
           [] Top.pc = "post_script" -> 2
           [] Top.pc = "key_loop"    -> 1

\* What is left to do for suspend(): a call costs more than an activation, and an
\* activation more than the steps of the one below.
SuspendLeft == 12 * shell.calls + 6 * Len(frames) + StepsLeft

\* While the battery drains nobody sleeps on: each step of suspend() brings its
\* activations nearer to their end, however many there are, and only new calls
\* of the shell add to them.
DrainingEndsSleep ==
    [][Draining =>
        /\ SuspendSteps => SuspendLeft' < SuspendLeft
        /\ ~(ShellSuspends \/ MenuSuspends) => SuspendLeft' <= SuspendLeft]_vars
=============================================================================
