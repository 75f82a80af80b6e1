------------------------------- MODULE ThreeG -------------------------------
(***************************************************************************)
(* The 3G connection: ThreeGManager, the slots of SystemManagerAdaptor     *)
(* around it, the idle references of PowerManager, and the LED that blinks *)
(* while the device is online.                                             *)
(*                                                                         *)
(* Everything that takes time is outside the daemon: usb_module.sh looks   *)
(* for the modem, pppd dials, pppd_cleanup.sh kills both.  They report by  *)
(* D-Bus calls of modemNotify() from processes of their own, so a report   *)
(* may arrive long after the daemon has changed its mind, and in any       *)
(* order.  Single-shot timers are never cancelled either.                  *)
(***************************************************************************)
EXTENDS Integers

CONSTANTS
    PppdLimit,    \* 4 in canPppdRetry()
    NetLimit,     \* 120 in canCheckNetworkRetry()
    ImeiStep,     \* 5, what a modem without IMEI costs of NetLimit
    PinStep,      \* 60, what a refused pin code costs
    MaxChains,    \* bound: attempts to connect under way, old ones included
    MaxCleanups,  \* bound: detached pppd_cleanup.sh running
    MaxOthers     \* bound: idle references held by other clients

ASSUME ConstantsAssumption ==
    /\ PppdLimit \in Nat /\ NetLimit \in Nat
    /\ ImeiStep \in Nat \ {0} /\ PinStep \in Nat \ {0}
    /\ MaxChains \in Nat \ {0} /\ MaxCleanups \in Nat \ {0} /\ MaxOthers \in Nat

VARIABLES
    enabled,      \* ThreeGManager::enabled_: the modem has power
    state,        \* ThreeGManager::state_
    pppd_retry,   \* ThreeGManager::pppd_retry_count_
    net_retry,    \* ThreeGManager::network_retry_count_
    imei,         \* the static cache of checkImei() is filled
    sim,          \* the SIM card was unlocked since the modem has power
    timers,       \* single shots: checkNetwork, onNetworkFound, connectImpl
    scripts,      \* running: usb_module.sh 3G-host, detached pppd_cleanup.sh
    mail,         \* calls of modemNotify() on their way
    pppd,         \* the pppd process
    idle_count,   \* PowerManager::idle_count_
    others,       \* history: the references the other clients hold
    blinking      \* the LED timer is running

vars == <<enabled, state, pppd_retry, net_retry, imei, sim, timers, scripts,
          mail, pppd, idle_count, others, blinking>>

States == {"INVALID", "CHECKING_NETWORK", "CONNECTED", "DISCONNECTED", "STOP"}
Messages == {"device-detected", "device-not-found", "ip-up", "pppd-exit"}
Shots == {"checkNetwork", "onNetworkFound", "connectImpl"}
Scripts == {"usb_module", "pppd_cleanup"}

\* One more, or one fewer, of kind k.
Add(bag, k) == [bag EXCEPT ![k] = @ + 1]
Drop(bag, k) == [bag EXCEPT ![k] = @ - 1]

Init ==
    /\ enabled = FALSE /\ state = "INVALID"
    /\ pppd_retry = 0 /\ net_retry = 0
    /\ imei = FALSE /\ sim = FALSE
    /\ timers = [k \in Shots |-> 0]
    /\ scripts = [k \in Scripts |-> 0]
    /\ mail = [k \in Messages |-> 0]
    /\ pppd = "none"
    /\ idle_count = 0 /\ others = 0
    /\ blinking = FALSE

-----------------------------------------------------------------------------
(* What several handlers do.                                               *)

\* enableIdle(true): one reference fewer, but never fewer than none.
Released == IF idle_count - 1 < 0 THEN 0 ELSE idle_count - 1

\* Mutant: the LED is left alone.
LedForgotten == UNCHANGED blinking

\* stopLedBlinking().
StopLedBlinking == blinking' = FALSE

\* Mutants: one retry too many; retries whether the modem has power or not.
CanPppdRetryMore == pppd_retry <= PppdLimit + 1 /\ enabled
CanPppdRetryOff == pppd_retry <= PppdLimit

\* canPppdRetry()
CanPppdRetry == pppd_retry <= PppdLimit /\ enabled

\* Mutant: the count stays.
UncountedPppdRetry == UNCHANGED pppd_retry

\* increasePppdRetry()
IncreasePppdRetry == pppd_retry' = pppd_retry + 1

\* pppd_cleanup.sh: kill usb_module.sh, end pppd, whose exit may be reported.
PppdCleanup(bag) ==
    /\ pppd' = "none"
    /\ \/ pppd # "none" /\ mail' = Add(bag, "pppd-exit")
       \/ mail' = bag

\* The attempts under way: each is a script, a timer, a pppd or a report, and
\* every step of it turns one of these into at most one other.
Chains ==
    timers["checkNetwork"] + timers["onNetworkFound"] + timers["connectImpl"]
    + scripts["usb_module"] + mail["device-detected"] + mail["device-not-found"]
    + mail["pppd-exit"] + (IF pppd = "none" THEN 0 ELSE 1)

\* The answers of the modem to checkNetwork(): no IMEI yet; the pin code
\* refused; the pin code taken; a network; no network.
Answers == {"no-imei", "locked", "unlocked", "network", "nothing"}

\* What each costs of the two minutes.
Cost(answer) ==
    CASE answer = "no-imei" -> ImeiStep
      [] answer = "locked"  -> PinStep
      [] answer = "nothing" -> 1
      [] OTHER              -> 0

\* checkNetwork() when the retry count is `count', the timers are `shots' and
\* the state is `now'.  The IMEI is asked for once in the daemon's life, and a
\* SIM card takes its pin code once.
CheckNetwork(count, shots, now) ==
    \/ /\ count <= NetLimit /\ enabled
       /\ \E answer \in Answers :
            /\ answer = "no-imei" => ~imei
            /\ answer = "unlocked" => ~sim
            /\ net_retry' = count + Cost(answer)
            /\ timers' = Add(shots, IF answer = "network" THEN "onNetworkFound"
                                    ELSE "checkNetwork")
            /\ imei' = (answer # "no-imei")
            /\ sim' = (sim \/ answer = "unlocked")
            /\ state' = IF answer = "nothing" THEN "CHECKING_NETWORK" ELSE now
       /\ UNCHANGED blinking
    \/ /\ ~(count <= NetLimit /\ enabled)
       /\ net_retry' = count
       /\ timers' = shots
       /\ state' = now
       /\ StopLedBlinking
       /\ UNCHANGED <<imei, sim>>

-----------------------------------------------------------------------------
(* The D-Bus methods clients call.                                         *)

\* connect3g(), the power switch being on.  (Off, it changes nothing.)
Connect3g ==
    /\ enabled' = TRUE
    /\ \/ /\ state \in {"INVALID", "DISCONNECTED", "STOP"}
          /\ Chains < MaxChains /\ idle_count < MaxChains + MaxOthers
          /\ idle_count' = idle_count + 1
          /\ state' = "CHECKING_NETWORK"
          /\ scripts' = Add(scripts, "usb_module")
          /\ pppd_retry' = 0 /\ net_retry' = 0
       \/ /\ state \notin {"INVALID", "DISCONNECTED", "STOP"}
          /\ UNCHANGED <<idle_count, state, scripts, pppd_retry, net_retry>>
    /\ UNCHANGED <<imei, sim, timers, mail, pppd, others, blinking>>

\* disconnect3g(): from a client, the power switch or preSuspend().  stop()
\* cleans up at once, and once more in a detached script.
Disconnect3g ==
    /\ scripts["pppd_cleanup"] < MaxCleanups
    /\ PppdCleanup(mail)
    /\ scripts' = [usb_module |-> 0, pppd_cleanup |-> scripts["pppd_cleanup"] + 1]
    /\ pppd_retry' = 0 /\ net_retry' = 0
    /\ enabled' = FALSE /\ sim' = FALSE
    /\ state' = "STOP"
    /\ StopLedBlinking
    /\ idle_count' = Released
    /\ UNCHANGED <<imei, timers, others>>

\* enableIdle() by the other clients: the music player, the browser, TTS...
OtherAcquires ==
    /\ others < MaxOthers /\ idle_count < MaxChains + MaxOthers
    /\ others' = others + 1
    /\ idle_count' = idle_count + 1
    /\ UNCHANGED <<enabled, state, pppd_retry, net_retry, imei, sim, timers,
                   scripts, mail, pppd, blinking>>

OtherReleases ==
    /\ others > 0
    /\ others' = others - 1
    /\ idle_count' = Released
    /\ UNCHANGED <<enabled, state, pppd_retry, net_retry, imei, sim, timers,
                   scripts, mail, pppd, blinking>>

-----------------------------------------------------------------------------
(* The timers.                                                             *)

CheckNetworkTimeout ==
    /\ timers["checkNetwork"] > 0
    /\ CheckNetwork(net_retry, Drop(timers, "checkNetwork"), state)
    /\ UNCHANGED <<enabled, pppd_retry, scripts, mail, pppd, idle_count, others>>

\* Mutant: the next check is armed as well.
OnNetworkFoundChecks ==
    /\ timers["onNetworkFound"] > 0
    /\ timers' = Add(Add(Drop(timers, "onNetworkFound"), "connectImpl"), "checkNetwork")
    /\ UNCHANGED <<enabled, state, pppd_retry, net_retry, imei, sim, scripts,
                   mail, pppd, idle_count, others, blinking>>

\* onNetworkFound(): pppd is to be started, from the event loop.
OnNetworkFound ==
    /\ timers["onNetworkFound"] > 0
    /\ timers' = Add(Drop(timers, "onNetworkFound"), "connectImpl")
    /\ UNCHANGED <<enabled, state, pppd_retry, net_retry, imei, sim, scripts,
                   mail, pppd, idle_count, others, blinking>>

\* pppd is started; a second one finds the serial line locked and exits.
ConnectImpl ==
    /\ timers["connectImpl"] > 0
    /\ timers' = Drop(timers, "connectImpl")
    /\ \/ /\ pppd = "none"
          /\ pppd' = "dialling"
          /\ UNCHANGED mail
       \/ /\ pppd # "none"
          /\ mail' = Add(mail, "pppd-exit")
          /\ UNCHANGED pppd
    /\ UNCHANGED <<enabled, state, pppd_retry, net_retry, imei, sim, scripts,
                   idle_count, others, blinking>>

-----------------------------------------------------------------------------
(* modemNotify().                                                          *)

OnModemNotFound ==
    /\ mail["device-not-found"] > 0
    /\ PppdCleanup(Drop(mail, "device-not-found"))
    /\ scripts' = [scripts EXCEPT !["usb_module"] = 0]
    /\ pppd_retry' = 0 /\ net_retry' = 0
    /\ state' = "DISCONNECTED"
    /\ StopLedBlinking
    /\ UNCHANGED <<enabled, imei, sim, timers, idle_count, others>>

OnModemDetected ==
    /\ mail["device-detected"] > 0
    /\ PppdCleanup(Drop(mail, "device-detected"))
    /\ scripts' = [scripts EXCEPT !["usb_module"] = 0]
    /\ pppd_retry' = 0
    /\ CheckNetwork(0, timers, "CHECKING_NETWORK")
    /\ UNCHANGED <<enabled, idle_count, others>>

\* With no /etc/resolv.conf the address is refused and pppd is killed.
OnIpUp ==
    /\ mail["ip-up"] > 0
    /\ pppd_retry' = 0
    /\ \/ /\ state' = "CONNECTED"
          /\ blinking' = TRUE
          /\ mail' = Drop(mail, "ip-up")
          /\ UNCHANGED <<pppd, scripts>>
       \/ /\ PppdCleanup(Drop(mail, "ip-up"))
          /\ scripts' = [scripts EXCEPT !["usb_module"] = 0]
          /\ UNCHANGED <<state, blinking>>
    /\ UNCHANGED <<enabled, net_retry, imei, sim, timers, idle_count, others>>

\* pppd has exited: dial again, or give up and tell the adaptor.
OnPppdExit ==
    /\ mail["pppd-exit"] > 0
    /\ mail' = Drop(mail, "pppd-exit")
    /\ \/ /\ CanPppdRetry
          /\ IncreasePppdRetry
          /\ timers' = Add(timers, "connectImpl")
          /\ UNCHANGED <<state, blinking, idle_count>>
       \/ /\ ~CanPppdRetry
          /\ state' = "STOP"
          /\ StopLedBlinking
          /\ idle_count' = Released
          /\ UNCHANGED <<pppd_retry, timers>>
    /\ UNCHANGED <<enabled, net_retry, imei, sim, scripts, pppd, others>>

-----------------------------------------------------------------------------
(* The processes outside.                                                  *)

\* usb_module.sh 3G-host has found a modem, or given up.
UsbModuleReports ==
    /\ scripts["usb_module"] > 0
    /\ scripts' = Drop(scripts, "usb_module")
    /\ \E m \in {"device-detected", "device-not-found"} : mail' = Add(mail, m)
    /\ UNCHANGED <<enabled, state, pppd_retry, net_retry, imei, sim, timers,
                   pppd, idle_count, others, blinking>>

\* The detached pppd_cleanup.sh of stop() gets its turn.
DetachedCleanup ==
    /\ scripts["pppd_cleanup"] > 0
    /\ scripts' = [usb_module |-> 0, pppd_cleanup |-> scripts["pppd_cleanup"] - 1]
    /\ PppdCleanup(mail)
    /\ UNCHANGED <<enabled, state, pppd_retry, net_retry, imei, sim, timers,
                   idle_count, others, blinking>>

\* pppd has an address: the plugin reports ip-up.
PppdUp ==
    /\ pppd = "dialling" /\ mail["ip-up"] < MaxChains
    /\ pppd' = "up"
    /\ mail' = Add(mail, "ip-up")
    /\ UNCHANGED <<enabled, state, pppd_retry, net_retry, imei, sim, timers,
                   scripts, idle_count, others, blinking>>

\* pppd fails or loses the line: the plugin reports its exit code.
PppdExits ==
    /\ pppd # "none"
    /\ pppd' = "none"
    /\ mail' = Add(mail, "pppd-exit")
    /\ UNCHANGED <<enabled, state, pppd_retry, net_retry, imei, sim, timers,
                   scripts, idle_count, others, blinking>>

PppdLosesModem == ~enabled /\ PppdExits

-----------------------------------------------------------------------------
ClientSteps == Connect3g \/ Disconnect3g \/ OtherAcquires \/ OtherReleases

ManagerSteps ==
    \/ CheckNetworkTimeout \/ OnNetworkFound \/ ConnectImpl
    \/ OnModemNotFound \/ OnModemDetected \/ OnIpUp \/ OnPppdExit

OutsideSteps == UsbModuleReports \/ DetachedCleanup \/ PppdUp \/ PppdExits

Next == ClientSteps \/ ManagerSteps \/ OutsideSteps

Spec == Init /\ [][Next]_vars

(***************************************************************************)
(* Fairness: due timers and delivered calls are handled, scripts end, and  *)
(* a pppd whose modem has no power exits.  Nothing is assumed of clients,  *)
(* nor of a pppd that dials with a powered modem.                          *)
(***************************************************************************)
Fairness ==
    /\ WF_vars(CheckNetworkTimeout) /\ WF_vars(OnNetworkFound)
    /\ WF_vars(ConnectImpl) /\ WF_vars(OnModemNotFound)
    /\ WF_vars(OnModemDetected) /\ WF_vars(OnIpUp) /\ WF_vars(OnPppdExit)
    /\ WF_vars(UsbModuleReports) /\ WF_vars(DetachedCleanup)
    /\ WF_vars(PppdLosesModem)

FairSpec == Spec /\ Fairness

-----------------------------------------------------------------------------
(* Properties.                                                             *)

NetCounts ==
    {n \in Nat : \E answer \in Answers : n <= NetLimit + Cost(answer)}

\* Every variable keeps its shape; the retry counts keep their limits: the one
\* of the network passes its own by the cost of the last answer at most.
TypeOK ==
    /\ enabled \in BOOLEAN /\ imei \in BOOLEAN /\ sim \in BOOLEAN
    /\ blinking \in BOOLEAN
    /\ state \in States
    /\ pppd_retry \in 0..(PppdLimit + 1)
    /\ net_retry \in NetCounts
    /\ timers \in [Shots -> Nat]
    /\ scripts \in [Scripts -> Nat]
    /\ mail \in [Messages -> Nat]
    /\ pppd \in {"none", "dialling", "up"}
    /\ idle_count \in Nat /\ others \in Nat

\* The LED blinks only while the manager believes in a connection, or looks
\* for the network again: no handler that gives up leaves it blinking.
BlinkOnlyWhenUp ==
    blinking => state \in {"CONNECTED", "CHECKING_NETWORK"}

\* Attempts to connect do not multiply: whatever overtakes what, only
\* connect3g() adds one.  Any other step turns a script, timer, pppd or report
\* into at most one other, so that stale ones cannot pile up.
AttemptsDoNotMultiply == [][Connect3g \/ Chains' <= Chains]_vars

\* The timers of the manager are run down.
NoTimers == \A k \in Shots : timers[k] = 0

\* Nothing is on its way, inside or outside the daemon.
Quiet ==
    /\ NoTimers
    /\ \A k \in Scripts : scripts[k] = 0
    /\ \A k \in Messages : mail[k] = 0

\* A modem switched off for good, by clients that then leave it alone, falls
\* silent: whatever timer, script or late report was still on its way, the
\* retries do not keep each other alive.
OffGoesQuiet ==
    (<>[]~enabled /\ <>[][~Disconnect3g]_vars) => <>[](Quiet /\ pppd = "none")

\* The retry loops end by their own counts: when clients and new addresses stop
\* for good, so do the detections, the checks and the dialling.
RetriesEnd ==
    (<>[][~(Connect3g \/ Disconnect3g \/ OnIpUp)]_vars) => <>[]NoTimers

(* Why they end: two measures which the steps of the manager, the scripts and  *)
(* pppd use up.  Each weight is more than all that the step can leave behind.  *)

Found(bag) == bag["device-detected"] + bag["device-not-found"]
Told(bag) == bag["ip-up"] + bag["pppd-exit"]
Armed(check, shots) ==
    check * shots["checkNetwork"] + 6 * shots["onNetworkFound"]
    + 5 * shots["connectImpl"]
Line(process) ==
    CASE process = "none" -> 0 [] process = "dialling" -> 4 [] process = "up" -> 2

\* What is left to do when the modem has no power.
Work ==
    2 * scripts["usb_module"] + scripts["pppd_cleanup"]
    + Found(mail) + Told(mail) + Armed(1, timers) + Line(pppd)

\* Without power each step that is not a client's leaves less to do, whatever
\* reports come late: no timer, script, report or pppd brings itself back.
OffRunsDown == [][~enabled /\ (ManagerSteps \/ OutsideSteps) => Work' < Work]_vars

\* The checks of the network and the exits of pppd that may still be followed by
\* another try; a SIM card that takes its pin code gives a try for nothing.
ChecksLeft(count) ==
    (IF count <= NetLimit THEN NetLimit + 1 - count ELSE 0)
    + (IF sim THEN 0 ELSE 1)
DialsLeft == PppdLimit + 1 - pppd_retry

\* A detection gives all tries back.
Detection == (NetLimit + 2) + 5 * (PppdLimit + 1) + 9
DetectionsLeft == 2 * scripts["usb_module"] + Found(mail)

\* What is left to do with the modem powered.
Tries ==
    ChecksLeft(net_retry) + 5 * DialsLeft
    + scripts["pppd_cleanup"] + Told(mail) + Armed(7, timers) + Line(pppd)
Budget == Detection * DetectionsLeft + Tries

\* With or without power, every step but a client's and a new address uses up
\* some of the budget: each loop of retries, whatever it is mixed with, ends.
RetriesRunDown ==
    [][ManagerSteps \/ OutsideSteps => OnIpUp \/ Budget' < Budget]_vars

\* The idle references are counted: while another client holds one, the device
\* may not be put to standby for being idle.
OthersKeepAwake == others > 0 => idle_count > 0

\* TG_CHECKING_NETWORK says that somebody is checking: a timer, the detection
\* script, pppd or a report on its way will bring the next change of state.
CheckingIsGoingOn ==
    state = "CHECKING_NETWORK" => ~Quiet \/ pppd # "none"
=============================================================================
