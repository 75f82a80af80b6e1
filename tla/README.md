# BooxApp: formal models of the system manager, the shell and two readers

BooxApp is the software of a family of e-book readers: a privileged daemon
(`system_manager`), the GUI shell (`explorer`), a C++ SDK (`sdk`) and the reader
applications (`apps`), around shell scripts and kernel drivers.  Its processes
talk over D-Bus.  This directory specifies and verifies the parts whose
correctness is hardest to see in the code and to test on a desk: how the daemon
puts the device to sleep and wakes it up, decides when an unused device sleeps,
connects to 3G, and filters the keys; how the shell runs its viewers; how the
image reader renders in a second thread; and how the book reader reads aloud.

## 1. Inventory

| Component | State it keeps | Operations | Talks to | Status |
|---|---|---|---|---|
| Suspend and resume (`system_manager.cpp`, `sys_context.h`) | `struct Context`: sleeping, broadcast, suspend_count, stored Wi-Fi and 3G state, sd_inserted, usb_state; pending single shots | `suspend`, `preSuspend`, `postSuspend`, `onStandbyPressed`, `onShutdownPressed`, `cleanSuspend`, `onAboutToSuspend/Shutdown`, USB disk mode, `setSystemBusy`, `sdCardChanged`, `onSDChanged` | all below | `SuspendResume` |
| Power manager (`power_manager.cpp`) | voltage, idle reference count, intervals, type of save | `deepSleep`, `checkBattery`, `updateBattery`, `idle`, `save`, `enableIdle`, `resetIdle`, intervals | adaptor (signals), gpio, `/sys/power/state` | `PowerManager` (intervals, references, screen saver, `idle`); battery and deep sleep in `SuspendResume`; `enableIdle` also in `ThreeG` |
| 3G manager (`3G_manager.cpp`, `3G_reporter.cpp`, scripts) | enabled, state, two retry counts, IMEI cache | `connect3g`, `disconnect3g`, `modemNotify`, `checkNetwork`, `connectImpl`, `stop` | `usb_module.sh`, pppd and its plugin, `pppd_cleanup.sh`, the modem's serial line | `ThreeG` |
| Keyboard filter (`sys_keyboard_filter.cpp`) | enable flags, previous key, value of each switch, releases to ignore | `filter`, `onTimeout`, `ignoreKeyboardEvent` | kernel keys in, adaptor signals out | `KeyboardFilter`; the flags in `SuspendResume` |
| Shell side of power (`main_window.cpp`, `model_view.cpp`, `sys_status.cpp`) | the call it is blocked in | `onAboutToSuspend`, `onAboutToShutdown`, `handleBatteryEvent`, menu | D-Bus calls of the daemon | in `SuspendResume` |
| SD card and mounts (`mount_entry_watcher.cpp`, `naboo_sd_handler.sh`) | mount table | `onMountEntryChanged`, hotplug script | adaptor | one card in `SuspendResume`; own module planned |
| Wi-Fi manager (`wifi_manager.cpp`) | enabled, ifup process and count | `enableDevice`, `startWpaSupplicant`, `acquireAddress` | gpio, ifup, wpa_supplicant | power only; planned |
| Wi-Fi connections of the SDK (`wpa_connection_manager.cpp`) | scan and connect retries, idle reference | scan, connect, password | wpa_supplicant, daemon | planned |
| Viewers (`system_controller.cpp`) | table of running viewers, last document | open, start, stop, finish, resume after a shutdown, idle references | processes, daemon | `Viewers` |
| Baby sitter, DRM, messenger (`baby_sitter.cpp`, `drm_manager.cpp`, `messenger_manager.cpp`) | one child process each | start, stop, restart after a crash | processes | planned |
| Screen managers (`bs_screen_manager.cpp`, `kermit_screen_manager.cpp`) and the SDK's proxy and watcher | update queue, busy flag, enable flag | update, setBusy, enableUpdate, sleep | controller | enable flag only; the rest planned |
| LED (in `system_manager.cpp`) | timer, static toggle | blink, stop | gpio | periodic timer in `ThreeG` |
| udev, battery and service watchers; touch screen; sound | parsers and device handles | forward events | kernel | inputs of the models |
| Image reader tasks (`image_tasks_handler.cpp`, `image_render_proxy.cpp`, `image_model.cpp`, `image_view.cpp`) | task queue, current task and its status, thread, requests, images in memory | `addTask`, `execute`, `close`, turning pages, prerendering | the GUI thread and the rendering thread | `ImageTasks` |
| Reading aloud (`naboo_view.cpp`, `tts.cpp`, `tts_widget.cpp`, `async_player.h`, `tasks_handler.cpp`, `adobe_render_conf.cpp`) | state of the engine, timer, sounds, the render request that waits and the one executed, the configuration | `startTTS`, pause, close, turning and redrawing pages, `playVoiceOnCurrentScreen`, `onTTSPlayFinished`, `onSynthDone`, `exec` of a request | the sound thread, the rendering library, idle references | `Speech` |
| Download database | states of a download | | | planned |
| User interface, reader applications, vendored libraries | | | | not modelled: no protocol of their own |

What makes this system hard:

* **Re-entrance.**  The daemon has one thread, but `suspend()` is a D-Bus method
  that runs for as long as the device sleeps and pumps the event loop four
  times: in `sys::runScript()` for each of its two scripts, after each wake-up by
  the EPIT timer, and while the keys are drained.  Every slot, and `suspend()`
  itself, can run there.
* **Two clocks of truth.**  The shell is asked by a signal and answers by a
  blocking call that can time out; single-shot timers are never cancelled.
* **Reports without an address.**  Scripts and pppd report by D-Bus calls that
  do not say which attempt they belong to, and may be late, doubled or lost.
* **Bare counters** (suspend count, idle references, two retry counts) that many
  parties increase and decrease.
* **Hardware read twice** (cable, battery, card), by event and by gpio or file,
  with different answers.
* **Processes that fail half way**: `fork()` or `exec()` fails, a viewer crashes, the
  power goes while a shutdown is being prepared.
* **Two threads** of the image reader that share a pointer without a lock.
* **Steps that are interrupted by their own event loop**, in the book reader: the
  synthesis and the renderer let in events in their middle, and what comes there
  pauses, aborts or replaces what is being done.

What makes each component correct: a sleeping device is quiet and an awake one works
again (keys, touch, screen, broadcasts, Wi-Fi, 3G, card); a suspend or a shutdown that
was asked for happens; no counter blocks a key for good; attempts to connect do not
multiply, end, and leave nothing behind when 3G is switched off; a reference held by
one client is not released by another; a switch is reported as it stands; an unused
device does what the user chose; one document is open at a time and is opened again
after a shutdown; the page on the screen is the one asked for; a book is read to its
end, and falls silent when told to.  `PROJECT.json` lists the hazards at their lines.

## 2. Modules

### SuspendResume

The stack `frames` is the C++ stack cut down to the activations of `suspend()`,
newest first; `pc` says which of its four pumping loops, or the standby, an
activation is in.  A slot may run (`Dispatching`) when the stack is empty or its
newest activation pumps.  Every action is the code from one such loop to the
next, or one slot as a whole:

| Action | Code |
|---|---|
| `SuspendCall`, `PreSuspend` | `suspend()` and `preSuspend()` before and after `runScript("pre_suspend.sh")` |
| `WakeupByEPIT`, `EPITLoopEnds`, `WakeupByKey`, `LeaveDeepSleep` | the loop of `deepSleep()`, `onWakeupByEPIT()`, `checkBattery()`, then `canUpdateScreen()` |
| `PostSuspend`, `SuspendReturns` | `postSuspend()` before and after its key loop; the card check and return of `suspend()` |
| `StandbyPressed`, `AutoSuspend`, `CleanSuspend`, `ShutdownPressed`, `ShutdownTimeout`, `ShutdownCall` | the slots of the same meaning and their timers |
| `ShellSuspends`, `MenuSuspends`, `ShellShutsDown`, `ShellTimeout` | the shell: signals in order, blocking `suspend()`, asynchronous `shutdown()`, D-Bus time-out |
| `EnableWifi`, `ThreeGEvent`, `ReconnectTimeout`, `SdCardChanged`, `SDChanged`, `ResetTouchScreen` | devices that change while the daemon runs or pumps; `resetTouchScreen()` may be called in any loop, also of a sleeping device |
| `PlugOrUnplug`, `USBCableChanged`, `UdevUSBDisconnect`, `WorkInUSBSlaveMode`, `SetSystemBusy` | the cable and USB disk mode |
| `CellChanges`, `UpdateBattery` | the cell, and `updateBattery()` every minute |

`Clients` chooses which groups of events occur in an instance; a property about a
group is checked in an instance that has it, together with all groups the code
lets interfere with it, up to what TLC can explore.  The theorems hold for every
choice.  History kept for properties only: `wifi`, `tg`, `settled`, `reentered` of
an activation, `condemned` (`suspend()` gave up on an empty cell), `dark` (it did so
in the key loop of another, and left the screen off) and `device.reset` (the touch
screen was switched on by `resetTouchScreen()` after `preSuspend()` had switched it off).

Assumptions and abstractions: scripts start (`runScript` returns -1 at once if
not); the battery file opens; USB disk mode is entered without a card in the
slot; the voltage is one of three ranges; `EPITLoopEnds` drops its signal to the
shell when `MaxSignals` are waiting (the only place where a bound loses something
rather than disabling an action); after an event of the card the script mounts or
unmounts before the next event.  3G is only connected or not here; `ThreeG` has
the rest.

### ThreeG

One record of pending single shots, one of running scripts and one of undelivered
reports, each a bag; actions are the slots of `ThreeGManager` with the adaptor's
slots connected to them (`OnPppdExit` includes `SystemManagerAdaptor::onPppdExit`,
`OnIpUp` the start of the LED), the scripts and pppd.  `CheckNetwork` is the whole
of `checkNetwork()`, with an answer of the modem chosen freely among those the
code tells apart.  A modem that fails to answer the network query leaves an
uninitialised type in `HuaWeiReport::network()`: "network" is therefore always a
possible answer.  A SIM card that was unlocked does not ask again until the modem
loses power (ZTE); the Huawei report refuses every code.

`pppd_cleanup.sh` kills `usb_module.sh` and pppd at once, and pppd may or may not
report its exit (it is silent on exit code 0 and when killed by -9).  It is taken
to find pppd's pid file.  `mySleep()` and `runScriptBlock()` block the daemon and
take no time here.  Idle references of other clients are `OtherAcquires` and
`OtherReleases`.

### KeyboardFilter

`SwitchMoves` is one event of a switch with the whole path through `filter()`;
`KeyEvent` stands for all other keys, which matter only through `is_pressed_` and
the ignored release.  `OnTimeout` is the timer of 700 ms.

### PowerManager and IdleReferences

The dialog of the shell (`OpenDialog`, `Choose`, then `SetNext` for each D-Bus call
it makes), the references (`Take`, `Give`, `ResetIdle`), the screen saver with its
three levels (`ShortIdle`, `StayOnCable`, `Busy`, `StayAwake`, `Idle`, `LongIdle`),
and the loop of `idle()`, which pumps the event loop and may be entered again
(`loops`, as `frames` above): `KeyWakes`, `EpitWakes`, `RestsAgain`, `IdleEnds`,
`BatteryLow`.  `Restart` loses everything but the configuration, at any point, also
between the two calls that a row may take.  `chosen` is the row that was chosen last and
wholly set, and `torn` says that a row was chosen since of which only the first call
arrived, so far or before a restart: the first call takes away the interval that
was set, so that the device then does what it does after "Never", until a row is chosen.
`requests` is history, too: the calls `enableIdle(false)` that their client has not
taken back.  The daemon does not know the clients, and one may ask again, as
`connect3g()` does when the first modem was not found, or take back what it never
asked for.
The timers of the saver belong to the window system, outside of the repository:
they are modelled from how `PowerManager` sets and answers them.

`IdleReferences` is the abstract specification of `enableIdle()` and `resetIdle()`:
who asks is heard, the device is kept awake only while some request was not taken
back, and requests may be lost.  It does not say that each client takes back as often
as it asks: one that does not keeps the device awake.  `PowerManager` implements it
with `awake` as `count > 0`, `Viewers` with one request of each program that keeps the
device awake.

### Viewers

`applications_` as a function from programs to process and file.  `StartViewer` has
the two ways to fail: `fork()` fails inside `startViewer()` (the entry stays), and
`exec()` fails later (`ProcessFails`).  `UserOpens`, `StartProgram` and the stored
document after a start (`BootToDocument`) share it.  `Finished` is
`onProcessFinished()` with `postStop()`; `AboutToShutdown`, `ShutdownTimeout`,
`ShutdownAtOnce` and `PowerLost` are the ways down.  History: `undisturbed`, `dropped`,
`promise`.

### ImageTasks

The only module of two threads.  Each action is the code between two accesses
to what both threads use: the queue under its mutex, and, with none, `cur_task_`,
its status and the future of the thread.  `gui` and `thread` say where each is.
`Abort` is the second read of `cur_task_` in `abortCurTask()`: the task may have
been deleted in between, which is undefined behaviour and modelled as going on
or crashing; a null pointer crashes.  Rendering keeps any set of images that
fits.  Any number of pending single shots for prerendering is one shot.

### Speech

`stack` holds the steps that are in the event loop: `onSynthDone()`, called from the
timer ("voice") or from PLAY ("click"), and `AdobeRenderConf::exec()` ("render").
`PlayVoiceOnCurrentScreen`, `PlayClicked` and `ExecRender` push, `SynthDone`,
`Navigate` and `PaintSurface` pop; everything else may happen in between.

| Action | Code |
|---|---|
| `StartTTS`, `TurnScreen`, `ResizeEvent`, `PlayClicked`, `CloseClicked` | what the user does: the menu, page keys with `ttsGotoPage()`, a resize, the two buttons |
| `PlayVoiceOnCurrentScreen`, `OnTTSPlayFinished` | the slots of `NabooView` for its timer and for the end of a text |
| `SynthDone` | `onSynthDone()` after `processEvents()`, with `onTimeout()` |
| `PlayerEnds` | `SoundRunnable::run()` in its thread |
| `ExecRender`, `Navigate`, `PaintSurface` | `TasksHandler::execute()`, and `exec()` of the request in two parts: each looks at the status after its event loop |

`pending` is the queue of render requests together with the task that has been
retrieved and not yet executed; `addTask()` replaces both.  A request is a copy of
the configuration, so that its `need` may differ from `need`, the configuration's
own.  A player that is cut short may report or not, depending on whether it had
begun (`Quiet`).  An aborted `navigate()` leaves the renderer where it was or where
it was going.  Signals that were posted arrive before timers fire; a key may
overtake both.  The idle reference is held exactly while `state` is "playing".

### MCComponents

`KeyboardFilter`, `Viewers`, `ImageTasks` and `Speech` have no state in common and are
small: one run checks them side by side, with `part` saying which of them moves.

### Proof modules

`SuspendResumeProofs`, `ThreeGProofs`, `PowerManagerProofs`, `KeyboardFilterProofs`,
`ViewersProofs`, `ImageTasksProofs` and `SpeechProofs` extend the modules above.

## 3. Runs

| Run | Shows |
|---|---|
| `MCSuspendWifiCard` | `AwakeRestored`, `QuietWhileAsleep`, `WifiRestored`, `SdRechecked`: with Wi-Fi and card events, `resetTouchScreen()` and a nested `suspend()` |
| `MCSuspendTgUsb` | `InputBack` (after USB disk mode) and `ReconnectScheduled`: with 3G, cable, disk mode, busy periods |
| `MCSuspendCharge` | `SuspendCountBacked`, `InputBack`, `SleepingExplained`: with battery, power key and charging, no disk mode; an activation that gives up within another occurs |
| `MCSuspendPower` | liveness: `WaitForShutdown`, `SuspendServed`, without a cable |
| `MCThreeG` | `BlinkOnlyWhenUp`, `AttemptsDoNotMultiply`, and the liveness `OffGoesQuiet`, `RetriesEnd` |
| `MCPowerManager` | `SlotMatchesType`, `PolicyAsChosen`, the refinement `ReferencesKept`, and the liveness `UnusedDeviceSleeps` |
| `MCComponents` | keys: `ReportedAsItStands` and the liveness `LastMoveReported`; viewers: `ReferencesMatchTable`, `OneReader`, `OpenBookIsStored` and the liveness `RoomAgain`; images: `NoTaskLeftBehind`, `PageOnItsWay`, `ThreadOwnsTask` and the liveness `PageShown`, `CloseReturns`; reading aloud: `QuietWhenNotPlaying`, `ReadingGoesOn` and the liveness `ReadToTheEnd` |
| `MCStandbyIgnored`, `MCWaitForShutdown`, `MCIdleStolen`, `MCCheckingStuck`, `MCNeverMeansNever` | findings, section 5 |

Each property of a passing run has a mutant: a definition of the model broken
the way a plausible bug would break the code, defined beside the original and
marked "Mutant", which TLC shows to violate the property.

**Bounds.**  `MaxDepth` 2: one `suspend()` within another is enough for one to disturb
the other; that deeper stacks do no more is proved, not only checked. `MaxTimers`,
`MaxSignals`, `MaxCalls` 1 or 2: one stale timer, signal or call beside the present
one; a request beyond the bound waits.  `MCSuspendWifiCard` and `MCSuspendCharge`,
which checks the count that the timers take back, have two timers.  `MaxChains` 2: a
stale attempt beside the present one; `MaxCleanups` 1, `MaxOthers` 1.  `idle_count`
stops at `MaxChains + MaxOthers` and undelivered ip-up reports at `MaxChains` in the
guards of the actions that raise them.  The retry limits 4 and 120 become 1 and 2, the
steps 5 and 60 become 1 and 2: each limit can be reached, met exactly and passed by
the larger step.  `KeyboardFilter` is finite.  `PowerManager`: two clients, so that
one may be robbed by the other; `MaxRequests` 2, a request of each or two of one;
`idle()` within `idle()` once; the EPIT period 3 and intervals of 3 and 5, met exactly
and passed; a factory setting that is no row.  `Viewers`: two readers, so that they
could run at once, the music player, the browser, and a book no reader is for; the
table is finite.  `ImageTasks`: two pages (page 0, which is never prerendered, and
another) and memory for one of their images, so that each rendering drops the other; a
page is turned only when no more than `MaxReady` = 0 results wait, and more pages are
asked for only when no more than `MaxFurther` = 0 of them wait.  `Speech`: a book of
two pages with text on both, and one that begins with a picture, so that a page is
turned to, read and found to be the last; forwards is the only page key; `MaxNested`
2, one step within another; `MaxSounds` 2, a text beside a stale one.  The theorems
need none of these bounds.

**Deadlock** is switched off for `SuspendResume`, since a device that was switched
off does nothing more.  A closed or crashed image reader stutters by `Over`.

**Fairness.**  `SuspendResume`: scripts and loops end and the EPIT timer wakes the
device every 180 s (weak fairness of the steps of `suspend()`); calls that have
arrived, and the battery timer, are handled when a loop pumps, which may be now and
then only: strong fairness, since Qt handles events in the order they came; the shell
handles its signals in order between its calls.  `ThreeG`: due timers and delivered
calls are handled, scripts end, and a pppd whose modem has lost power ends.
`KeyboardFilter`: the timer runs.  `PowerManager`: the saver and the EPIT timer fire
and `idle()` goes on (weak); the event of a moved cable is handled in one of the
seconds in which events are let in, though the CPU rests between them (strong).
`Viewers`: processes start, the end of one is heard of, the timer of 1.5 s fires.
`ImageTasks`: both threads go on, timers fire and queued signals arrive.  `Speech`:
handlers return from their event loops, sounds end, timers fire and signals arrive
(weak).  Nothing is assumed of users, cables, cards, networks, other clients,
time-outs or programs that never end.

## 4. Proofs

All proofs are checked by TLAPS.  They hold for every set of clients, every limit
and every bound that satisfies the named assumptions of each module, that is, for
any depth of re-entrance and any number of timers, attempts, references, rows of
the dialog, programs, books, pages, images and sounds.

* `SuspendResumeProofs`: `TypeCorrect`, then the invariant `StackInv`, which has
  two parts.  `OlderReentered`: every activation below the newest is marked as
  re-entered and holds no history.  `TopStored`: what an activation recorded as found by
  `preSuspend()` is still what the context stores.  Neither the property about
  Wi-Fi nor the one about 3G is inductive without it, since between `preSuspend()`
  and `postSuspend()` the context may be overwritten, but only by an activation
  above, which marks this one.  `StackInv` gives `QuietInStandby`,
  `WifiIsRestored` and `ReconnectIsScheduled`; a touch screen that is on in standby was
  switched on by `resetTouchScreen()`.  `AwakeRestored` and
  `SuspendCountBacked` turn out to be inductive with `TypeOK` alone:
  `AwakeIsRestored` rests on the lemma that a step of `suspend()` empties the stack
  only by its regular return or by giving up, and `SuspendCountIsBacked` on every
  increment of the count coming with a timer.
  `InputIsBack` rests on `Restored`: an awake device has its input back but where a
  key loop or the history `dark` says who has it; `dark` is what makes the property true
  with a battery, since a suspend within the key loop of another may give up.
  Two need an instance without USB disk mode, `"usb" \notin Clients`, and both are false
  with it.  `SleepingIsExplained` (section 5), with `NoDisk` and `FlagsExplained`, which
  traces every set flag to a signal, call, timer or activation that clears it.
  `CardIsRechecked`: entering disk mode while the device goes to sleep tells the
  listeners that the card is gone, and a card taken out before and put back after it is
  not looked at again.  Its invariant is `ToldAtEntry`: until the newest activation
  returns, the listeners know what they knew when it began.
  `ShellIsAnswered` says that a blocked shell has its call on the way or is owed the
  reply by exactly one activation (`Owing`), with a lemma for each way the stack changes
  (kept, pushed, popped).  It is what `SuspendIsServed`, a liveness property, needs
  besides fairness: the signal is handled when the shell is not blocked, the call when
  it is.
  `DrainingEndsAllSleep` and `CondemnedStaysLow` (which assumes that there is no
  cable: with one `MCWaitForShutdown` finds the opposite) carry `WaitForShutdown`, see below.
* `ThreeGProofs`: `TypeCorrect`, where the bound on `pppd_retry` uses the guard of
  `canPppdRetry()` and that on `net_retry` is its limit and the cost of the last answer
  (`NetCounts`); `LedIsHonest`; and `AttemptsAreConserved`, the conservation of `Chains`,
  by a case for every action and a lemma for each helper.
* `PowerManagerProofs`: `ReferencesAreKept`, the refinement: with `CountBacked` (no
  more references are counted than were asked for and not taken back) every step maps
  to `Take`, `Give`, `Lose` or a stutter of `IdleReferences`.  `TypeCorrect` and
  `SlotAlwaysMatches` from `PolicyInv`, which adds that an open dialog knows what is
  reported, and that the calls it has left fit the type they meet (`CallsFit`).
  `DoesWhatWasChosen` assumes that no row has both intervals (with them
  `NeverMeansNever` fails), from `ChosenInv`: configuration and report agree, the
  calls that are left lead to the row that was picked, and a row set by half leaves no
  interval, in the configuration as well, which is what a restart finds.
  `NeverForgotten`: a device that is to be put away, and was not, has a timer of the
  saver, a running `idle()` or an event of the cable that will see to it.
* `KeyboardFilterProofs`: `SwitchesReported` from `KInv`, which adds `WaitingAsItStands`:
  the switch that waits for the timer was stored as it stands, unless its last
  event is lost.  With the timer's fairness it gives `LastMoveIsReported`.
* `ViewersProofs`: from `VInv`, which adds `OneEntry` (two readers have no entry at
  once, alive or not) and `OpenIsLast` (an undisturbed reader's entry is of the last
  document), `ReferencesArePaired`, `OneReaderAtATime`, `OpenBookStored`.
  `ShellImplementsReferences` is a second refinement of `IdleReferences`: the table
  keeps the device awake from the start of music or the browser until it is out of the
  table.  What `ThreeG` does to the count is what `Take` and `Give` allow any client:
  to ask again, and to give back without having asked.  What `MCIdleStolen` finds
  violated, that others keep the device awake in spite of it, `IdleReferences` does
  not promise.
* `ImageTasksProofs`: from `IInv`, whose parts say that `addTask()` still has its task
  (`JobLeft`), what the thread holds where (`ThreadHolds`), that a task waits only
  with a thread to look for it (`NoneLeftBehind`), that it replaces all others
  (`Replaced`), that the page waited for is somewhere (`OnItsWay`) and is asked for
  (`WaitedForIsRequested`, without which the thread could drop its task):
  `TasksAreTaken`, `PageIsNotLost`, `TaskIsOwned`.

* `SpeechProofs`: from `SpeechInv`, `SpeechIsWellTyped`, `PausedIsQuiet` and
  `ReadingDoesNotStall`.  `ReadingGoesOn` is not inductive: a resize replaces the
  request that would have the next page read by a copy of the configuration.
  `GoesOn` adds that the configuration then asks for it, too; `Superseded`, that
  while a request is executed a newer one has aborted it, so that the older one
  cannot overwrite the configuration; `RenderHasRequest`, that no more than one
  step of `stack` is a rendering, and has its request.

Every safety property that a run checks is a theorem.

**Liveness.**  The prover has no ENABLED, so that a theorem cannot take `WF_vars(A)` as
its hypothesis.  Two liveness properties are proved all the same, from the weak
fairness of the actions concerned written with their guards: `TimerRuns` for
`LastMoveIsReported` and `ServiceFairness` for `SuspendIsServed`.  That these guards are
what `ENABLED <<A>>_vars` means was evaluated by TLC on the instances of the runs.  The
fairness of the runs implies them (strong implies weak).

The others end because something runs out, and from a measure that decreases to the
end of the run takes an induction over the natural numbers inside a temporal proof,
which these provers do not do.  Proved instead is that each step of the system itself
decreases the measure, which is never negative, and that there is something left to
do until the promise is kept: what then remains is "something is done as long as
something can be", the fairness that TLC uses.

| Property | Kernel that is proved |
|---|---|
| `OffGoesQuiet` | `OffRunsDownAlways`, `WorkUntilQuiet` |
| `RetriesEnd` | `RetriesRunDownAlways` |
| `UnusedDeviceSleeps` | `NeverForgotten`, `UnusedIsPutAway` |
| `WaitForShutdown` | `DrainingEndsAllSleep`, `CondemnedStaysLow` |
| `CloseReturns` | `ThreadEnds` |
| `ReadToTheEnd` | `ReadingEnds`, with `ReadingDoesNotStall` |

**Only model-checked** are therefore these six as a whole, and `PageShown` and
`RoomAgain`, of which `PageIsNotLost` and the invariants of `Viewers` prove the
safety part only.

## 5. What the runs found

* `MCStandbyIgnored`: `onStandbyPressed()` toggles `sleeping_` even when it
  broadcasts nothing; pressed in USB disk mode, it makes a later press be ignored
  as "waken up by power key".
* `MCWaitForShutdown`: `suspend()` returns false to "wait for shutdown", but with a
  key wake-up and the cable plugged in right after, nobody asks for one: the
  device stays on, deaf and dark.
* `MCIdleStolen`: `disconnect3g()` releases an idle reference it may not hold.
* `MCCheckingStuck`: the detached cleanup of a disconnect kills the detection
  script of the next connect, and the state stays at "checking" for ever.
* `MCNeverMeansNever`: a row with both intervals stores both, the daemon reports
  one, and "Never" clears only that: the device is put away after the next start.

Observed while modelling, and stated by no run:

* `PowerManager`: a key pressed while `idle()` looks for events does not end its loop,
  so that the device may be put away less than the interval after it
  (`UnusedForInterval` is defined, and false).
* `Viewers`: after `fork()` fails the entry stays in the table, counts as an open
  document, and swallows the requests of later files until F11 or a shutdown;
  `RoomAgain` is about programs that started.
* `ImageTasks`: a task added after the thread's last look, and before the future has
  finished, waits until the next page is turned (`late`); `abortCurTask()` may use a
  deleted task.  The properties show that these are the only ways to lose a page.
* `SuspendResume`: `resetTouchScreen()` in the loop of the EPIT timer switches the touch
  screen on in standby, and nothing switches it off before the next one;
  `QuietWhileAsleep` shows that this is the only way (`device.reset`).
* `ThreeG`: `connect3g()` keeps its idle reference when the modem is not found, and
  takes another when it is called again; `disconnect3g()` releases one.  With 3G off
  the other stays, and the device does not idle until `resetIdle()`.
* `PowerManager`: a restart between the two calls of a row leaves neither the old row
  nor the new one, but "Never" (`torn` in `PolicyAsChosen`).
* `SuspendResume`: a suspend within the key loop of another that gives up for want of
  voltage leaves the screen off on a device that is awake; `InputBack` shows that this
  is the only way (`dark`).
* Wi-Fi, from reading: `stop()` of `WpaConnectionManager` releases an idle reference
  each time it is called, whether or not it holds one; when the scan retries are
  used up while `wpa_supplicant` answers, the scan timer goes on and switches the
  card on again; six empty results leave the state at scanning.
* `Speech`: a page without text in mid-book leaves the engine "playing" for ever
  and silently, with the idle reference held, so that the device does not sleep
  (`range \in silent` in the properties); a page turn that is aborted after the
  renderer has moved may let the next one fail at the end of the book, and reading
  then stalls in the same way (`refused`); a `finished` of the page before that is
  still queued when speech is stopped and started again turns the page once too
  early; a pause while the next page is being rendered, or while the timer runs, is
  lost: the page is read when it is there.  The properties show that there is no
  further way to stall.  From reading: what was synthesized before a pause stays
  in `data_`, and is read before the next text.

## 6. Not modelled, and why

Of the 743,000 lines of the repository most are vendored libraries (djvu, chm,
word, espeak, the music decoders with their tables), generated code and widgets;
the programs written for this device keep little state in them.  Layout, painting,
settings, localisation, document rendering, annotations and vendored libraries
have no protocol to check, so that the share of the lines that a model can stand
for stays far below a third.  Drivers, the AT command dialogue and the display
controller's commands are hardware I/O.  Real time is abstracted to order: the
models say that a timer fires some time after it was set.

Left out of modelled components: charging of the button cell and the clock
(`PowerManager`); thumbnails, pausing and several pages per screen (`ImageTasks`);
metadata extraction (`Viewers`); printing and volume keys (`KeyboardFilter`); jumps
within the book, the zoom without margins, the volume and the contents of the
sound (`Speech`).

## 7. Plan

Modules that are left, in order of importance:

1. `SdCard`: the order of hotplug script, mount watcher, broadcasts and the early
   `mountTreeSignal` of `suspend()`; a card present at boot; disk mode with a card.
2. `WifiManager` with `WpaConnectionManager`: power, ifup retries, scan and connect
   retries, interplay with `enableDevice(false)` of a suspend.
3. `Services`: `BabySitter` and the DRM and messenger services, beside `Viewers`.
4. `ScreenManager` with the SDK's update watcher: busy, enabled, queue; `Led`.
5. The states of a download; jumps and zoom in `Speech`.
6. Proofs: for each module above, type correctness and its invariants; for `Viewers`,
   the kernel of `RoomAgain`; for `ImageTasks`, that of `PageShown`.
