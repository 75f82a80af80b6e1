---------------------------- MODULE ThreeGProofs ----------------------------
(***************************************************************************)
(* Theorems about ThreeG, for all retry limits and every number of         *)
(* attempts, scripts and messages under way.                               *)
(***************************************************************************)
EXTENDS ThreeG, TLAPS

-----------------------------------------------------------------------------
(* Bags of timers, scripts and messages.                                   *)

\* Adding to a bag, and dropping from one that holds the kind, give bags.
LEMMA BagType ==
    ASSUME NEW Kinds, NEW bag \in [Kinds -> Nat], NEW k \in Kinds
    PROVE  /\ Add(bag, k) \in [Kinds -> Nat]
           /\ bag[k] > 0 => Drop(bag, k) \in [Kinds -> Nat]
  BY DEF Add, Drop

\* Cleaning up leaves no pppd, and at most one report more.
LEMMA CleanupType ==
    ASSUME NEW bag \in [Messages -> Nat], PppdCleanup(bag)
    PROVE  mail' \in [Messages -> Nat] /\ pppd' = "none"
  BY BagType DEF PppdCleanup, Messages

\* Releasing an idle reference gives a count.
LEMMA ReleasedType ==
    ASSUME TypeOK
    PROVE  Released \in Nat
  BY DEF Released, TypeOK

\* What an answer costs is a number, and only "unlocked" and "network" are free.
LEMMA CostIsNat ==
    ASSUME NEW answer \in Answers
    PROVE  /\ Cost(answer) \in Nat
           /\ answer \notin {"unlocked", "network"} => Cost(answer) > 0
  BY ConstantsAssumption DEF Cost, Answers

\* The counts the code starts from.
LEMMA SmallCounts == NetCounts \subseteq Nat /\ 0 \in NetCounts
<1>1. "network" \in Answers
  BY DEF Answers
<1> QED
  BY <1>1, CostIsNat, ConstantsAssumption DEF NetCounts

\* One round of checkNetwork().
LEMMA CheckType ==
    ASSUME NEW count \in NetCounts, NEW shots \in [Shots -> Nat], NEW now \in States,
           TypeOK, CheckNetwork(count, shots, now)
    PROVE  /\ net_retry' \in NetCounts /\ timers' \in [Shots -> Nat]
           /\ imei' \in BOOLEAN /\ sim' \in BOOLEAN
           /\ state' \in States /\ blinking' \in BOOLEAN
<1>1. \A answer \in Answers : Cost(answer) \in Nat
  BY CostIsNat
<1>2. \A k \in Shots : Add(shots, k) \in [Shots -> Nat]
  BY BagType
<1>3. "onNetworkFound" \in Shots /\ "checkNetwork" \in Shots
  BY DEF Shots
<1>4. CASE count <= NetLimit /\ enabled
  <2>1. PICK answer \in Answers :
            /\ net_retry' = count + Cost(answer)
            /\ timers' = Add(shots, IF answer = "network" THEN "onNetworkFound"
                                    ELSE "checkNetwork")
            /\ imei' = (answer # "no-imei")
            /\ sim' = (sim \/ answer = "unlocked")
            /\ state' = IF answer = "nothing" THEN "CHECKING_NETWORK" ELSE now
    BY <1>4 DEF CheckNetwork
  <2>2. net_retry' \in NetCounts
    <3>1. count + Cost(answer) \in Nat /\ count + Cost(answer) <= NetLimit + Cost(answer)
      BY <1>1, <1>4, SmallCounts, ConstantsAssumption
    <3> QED
      BY <2>1, <3>1 DEF NetCounts
  <2>5. timers' \in [Shots -> Nat]
    BY <2>1, <1>2, <1>3
  <2>3. imei' \in BOOLEAN /\ sim' \in BOOLEAN /\ state' \in States
    BY <2>1 DEF States
  <2>4. blinking' \in BOOLEAN
    BY <1>4 DEF CheckNetwork, TypeOK
  <2> QED
    BY <2>2, <2>3, <2>4, <2>5
<1>5. CASE ~(count <= NetLimit /\ enabled)
  BY <1>5 DEF CheckNetwork, TypeOK, StopLedBlinking
<1> QED
  BY <1>4, <1>5

-----------------------------------------------------------------------------
(* Type correctness.                                                       *)

\* The D-Bus methods keep the shape of every variable.
LEMMA ClientStepsType == TypeOK /\ ClientSteps => TypeOK'
<1> SUFFICES ASSUME TypeOK, ClientSteps PROVE TypeOK'
  OBVIOUS
<1> USE DEF TypeOK
<1>1. CASE Connect3g
  <2>1. scripts' \in [Scripts -> Nat]
    <3>1. Add(scripts, "usb_module") \in [Scripts -> Nat]
      BY BagType DEF Scripts
    <3> QED
      BY <1>1, <3>1 DEF Connect3g
  <2>2. state' \in States /\ idle_count' \in Nat /\ net_retry' \in NetCounts
        /\ pppd_retry' \in 0..(PppdLimit + 1)
    BY <1>1, SmallCounts, ConstantsAssumption DEF Connect3g, States
  <2> QED
    BY <1>1, <2>1, <2>2 DEF Connect3g
<1>2. CASE Disconnect3g
  <2>1. mail' \in [Messages -> Nat] /\ pppd' = "none"
    BY <1>2, CleanupType DEF Disconnect3g
  <2>2. scripts' \in [Scripts -> Nat]
    BY <1>2 DEF Disconnect3g, Scripts
  <2>3. state' \in States /\ idle_count' \in Nat /\ net_retry' \in NetCounts
        /\ pppd_retry' \in 0..(PppdLimit + 1)
    BY <1>2, ReleasedType, SmallCounts, ConstantsAssumption DEF Disconnect3g, States
  <2> QED
    BY <1>2, <2>1, <2>2, <2>3 DEF Disconnect3g, StopLedBlinking
<1>3. CASE OtherAcquires
  BY <1>3 DEF OtherAcquires
<1>4. CASE OtherReleases
  BY <1>4, ReleasedType DEF OtherReleases
<1> QED
  BY <1>1, <1>2, <1>3, <1>4 DEF ClientSteps

\* So do the timers and modemNotify().
LEMMA ManagerStepsType == TypeOK /\ ManagerSteps => TypeOK'
<1> SUFFICES ASSUME TypeOK, ManagerSteps PROVE TypeOK'
  OBVIOUS
<1> USE DEF TypeOK
<1>1. CASE CheckNetworkTimeout
  <2>1. Drop(timers, "checkNetwork") \in [Shots -> Nat]
    BY <1>1, BagType DEF CheckNetworkTimeout, Shots
  <2> QED
    BY <1>1, <2>1, CheckType DEF CheckNetworkTimeout
<1>2. CASE OnNetworkFound
  <2>1. Drop(timers, "onNetworkFound") \in [Shots -> Nat]
    BY <1>2, BagType DEF OnNetworkFound, Shots
  <2>2. timers' \in [Shots -> Nat]
    BY <1>2, <2>1, BagType DEF OnNetworkFound, Shots
  <2> QED
    BY <1>2, <2>2 DEF OnNetworkFound
<1>3. CASE ConnectImpl
  <2>1. timers' \in [Shots -> Nat]
    BY <1>3, BagType DEF ConnectImpl, Shots
  <2>2. mail' \in [Messages -> Nat] /\ pppd' \in {"none", "dialling", "up"}
    <3>1. Add(mail, "pppd-exit") \in [Messages -> Nat]
      BY BagType DEF Messages
    <3> QED
      BY <1>3, <3>1 DEF ConnectImpl
  <2> QED
    BY <1>3, <2>1, <2>2 DEF ConnectImpl
<1>4. CASE OnModemNotFound
  <2>1. Drop(mail, "device-not-found") \in [Messages -> Nat]
    BY <1>4, BagType DEF OnModemNotFound, Messages
  <2>2. mail' \in [Messages -> Nat] /\ pppd' = "none"
    BY <1>4, <2>1, CleanupType DEF OnModemNotFound
  <2>3. state' \in States /\ pppd_retry' \in 0..(PppdLimit + 1)
        /\ net_retry' \in NetCounts
    BY <1>4, SmallCounts, ConstantsAssumption DEF OnModemNotFound, States
  <2> QED
    BY <1>4, <2>2, <2>3 DEF OnModemNotFound, StopLedBlinking
<1>5. CASE OnModemDetected
  <2>1. Drop(mail, "device-detected") \in [Messages -> Nat]
    BY <1>5, BagType DEF OnModemDetected, Messages
  <2>2. mail' \in [Messages -> Nat] /\ pppd' = "none"
    BY <1>5, <2>1, CleanupType DEF OnModemDetected
  <2>3. /\ net_retry' \in NetCounts /\ timers' \in [Shots -> Nat]
        /\ imei' \in BOOLEAN /\ sim' \in BOOLEAN
        /\ state' \in States /\ blinking' \in BOOLEAN
    BY <1>5, CheckType, SmallCounts DEF OnModemDetected, States
  <2>4. pppd_retry' \in 0..(PppdLimit + 1)
    BY <1>5, ConstantsAssumption DEF OnModemDetected
  <2> QED
    BY <1>5, <2>2, <2>3, <2>4 DEF OnModemDetected
<1>6. CASE OnIpUp
  <2>1. Drop(mail, "ip-up") \in [Messages -> Nat]
    BY <1>6, BagType DEF OnIpUp, Messages
  <2>2. mail' \in [Messages -> Nat] /\ pppd' \in {"none", "dialling", "up"}
    BY <1>6, <2>1, CleanupType DEF OnIpUp
  <2>3. /\ state' \in States
        /\ blinking' \in BOOLEAN
        /\ scripts' \in [Scripts -> Nat]
        /\ pppd_retry' \in 0..(PppdLimit + 1)
    <3>1. state' = "CONNECTED" \/ state' = state
      BY <1>6 DEF OnIpUp
    <3>2. blinking' = TRUE \/ blinking' = blinking
      BY <1>6 DEF OnIpUp
    <3>3. scripts' = [scripts EXCEPT !["usb_module"] = 0] \/ scripts' = scripts
      BY <1>6 DEF OnIpUp
    <3>4. pppd_retry' \in 0..(PppdLimit + 1)
      BY <1>6, ConstantsAssumption DEF OnIpUp
    <3>5. state' \in States
      BY <3>1 DEF States
    <3>6. blinking' \in BOOLEAN
      BY <3>2
    <3>7. scripts' \in [Scripts -> Nat]
      BY <3>3
    <3> QED
      BY <3>4, <3>5, <3>6, <3>7
  <2> QED
    BY <1>6, <2>2, <2>3 DEF OnIpUp
<1>7. CASE OnPppdExit
  <2>1. mail' \in [Messages -> Nat]
    BY <1>7, BagType DEF OnPppdExit, Messages
  <2>2. timers' \in [Shots -> Nat]
    <3>1. Add(timers, "connectImpl") \in [Shots -> Nat]
      BY BagType DEF Shots
    <3> QED
      BY <1>7, <3>1 DEF OnPppdExit
  <2>3. pppd_retry' \in 0..(PppdLimit + 1)
    BY <1>7, ConstantsAssumption DEF OnPppdExit, CanPppdRetry, IncreasePppdRetry
  <2>4. state' \in States /\ blinking' \in BOOLEAN /\ idle_count' \in Nat
    BY <1>7, ReleasedType DEF OnPppdExit, States, CanPppdRetry, StopLedBlinking
  <2> QED
    BY <1>7, <2>1, <2>2, <2>3, <2>4 DEF OnPppdExit
<1> QED
  BY <1>1, <1>2, <1>3, <1>4, <1>5, <1>6, <1>7 DEF ManagerSteps

\* So do the scripts and pppd.
LEMMA OutsideStepsType == TypeOK /\ OutsideSteps => TypeOK'
<1> SUFFICES ASSUME TypeOK, OutsideSteps PROVE TypeOK'
  OBVIOUS
<1> USE DEF TypeOK
<1>1. CASE UsbModuleReports
  <2>1. scripts' \in [Scripts -> Nat]
    BY <1>1, BagType DEF UsbModuleReports, Scripts
  <2>2. mail' \in [Messages -> Nat]
    <3>1. PICK m \in {"device-detected", "device-not-found"} : mail' = Add(mail, m)
      BY <1>1 DEF UsbModuleReports
    <3>2. m \in Messages
      BY DEF Messages
    <3> QED
      BY <3>1, <3>2, BagType
  <2> QED
    BY <1>1, <2>1, <2>2 DEF UsbModuleReports
<1>2. CASE DetachedCleanup
  <2>1. mail' \in [Messages -> Nat] /\ pppd' = "none"
    BY <1>2, CleanupType DEF DetachedCleanup
  <2>2. scripts' \in [Scripts -> Nat]
    BY <1>2 DEF DetachedCleanup, Scripts
  <2> QED
    BY <1>2, <2>1, <2>2 DEF DetachedCleanup
<1>3. CASE PppdUp
  <2>1. mail' \in [Messages -> Nat]
    BY <1>3, BagType DEF PppdUp, Messages
  <2> QED
    BY <1>3, <2>1 DEF PppdUp
<1>4. CASE PppdExits
  <2>1. mail' \in [Messages -> Nat]
    BY <1>4, BagType DEF PppdExits, Messages
  <2> QED
    BY <1>4, <2>1 DEF PppdExits
<1> QED
  BY <1>1, <1>2, <1>3, <1>4 DEF OutsideSteps

\* The manager never leaves the values its code declares: in particular pppd is
\* dialled again at most PppdLimit + 1 times without an ip-up or a new attempt.
THEOREM TypeCorrect == Spec => []TypeOK
<1>1. Init => TypeOK
  <2> SUFFICES ASSUME Init PROVE TypeOK
    OBVIOUS
  <2>1. pppd_retry \in 0..(PppdLimit + 1) /\ net_retry \in NetCounts
        /\ idle_count \in Nat /\ others \in Nat
    BY SmallCounts, ConstantsAssumption DEF Init
  <2>2. timers \in [Shots -> Nat] /\ scripts \in [Scripts -> Nat]
        /\ mail \in [Messages -> Nat]
    BY DEF Init
  <2>3. state \in States /\ pppd \in {"none", "dialling", "up"}
    BY DEF Init, States
  <2>4. enabled \in BOOLEAN /\ imei \in BOOLEAN /\ sim \in BOOLEAN
        /\ blinking \in BOOLEAN
    BY DEF Init
  <2> QED
    BY <2>1, <2>2, <2>3, <2>4 DEF TypeOK
<1>2. TypeOK /\ [Next]_vars => TypeOK'
  <2>1. TypeOK /\ UNCHANGED vars => TypeOK'
    BY DEF TypeOK, vars
  <2> QED
    BY <2>1, ClientStepsType, ManagerStepsType, OutsideStepsType DEF Next
<1> QED
  BY <1>1, <1>2, PTL DEF Spec

-----------------------------------------------------------------------------
(* The LED.                                                                *)

\* A round of checkNetwork() does not start the LED, and does not give up the
\* state it was told.
LEMMA CheckBlinks ==
    ASSUME NEW count, NEW shots, NEW now, CheckNetwork(count, shots, now),
           blinking => now \in {"CONNECTED", "CHECKING_NETWORK"}
    PROVE  blinking' => state' \in {"CONNECTED", "CHECKING_NETWORK"}
<1>1. blinking' => blinking
  BY DEF CheckNetwork, StopLedBlinking
<1>2. state' = "CHECKING_NETWORK" \/ state' = now
  BY DEF CheckNetwork
<1> QED
  BY <1>1, <1>2

\* The LED blinks only while the manager believes in a connection or looks for
\* the network: every handler that gives up stops it.
THEOREM LedIsHonest == Spec => []BlinkOnlyWhenUp
<1>1. Init => BlinkOnlyWhenUp
  BY DEF Init, BlinkOnlyWhenUp
<1>2. BlinkOnlyWhenUp /\ [Next]_vars => BlinkOnlyWhenUp'
  <2> SUFFICES ASSUME BlinkOnlyWhenUp, [Next]_vars PROVE BlinkOnlyWhenUp'
    OBVIOUS
  <2> USE DEF BlinkOnlyWhenUp
  <2>1. CASE UNCHANGED vars
    BY <2>1 DEF vars
  <2>2. CASE ClientSteps
    BY <2>2 DEF ClientSteps, Connect3g, Disconnect3g, OtherAcquires,
       OtherReleases, StopLedBlinking
  <2>3. CASE CheckNetworkTimeout
    BY <2>3, CheckBlinks DEF CheckNetworkTimeout
  <2>4. CASE OnModemDetected
    BY <2>4, CheckBlinks DEF OnModemDetected
  <2>5. CASE OnNetworkFound \/ ConnectImpl \/ OnModemNotFound
    BY <2>5 DEF OnNetworkFound, ConnectImpl, OnModemNotFound, StopLedBlinking
  <2>6. CASE OnIpUp
    BY <2>6 DEF OnIpUp
  <2>7. CASE OnPppdExit
    BY <2>7 DEF OnPppdExit, CanPppdRetry, StopLedBlinking
  <2>8. CASE OutsideSteps
    BY <2>8 DEF OutsideSteps, UsbModuleReports, DetachedCleanup, PppdUp, PppdExits
  <2> QED
    BY <2>1, <2>2, <2>3, <2>4, <2>5, <2>6, <2>7, <2>8 DEF Next, ManagerSteps
<1> QED
  BY <1>1, <1>2, PTL DEF Spec

-----------------------------------------------------------------------------
(* Attempts to connect.                                                    *)

\* The members of the sum Chains, one by one.
Waiting(shots) == shots["checkNetwork"] + shots["onNetworkFound"] + shots["connectImpl"]
Mailed(bag) == bag["device-detected"] + bag["device-not-found"] + bag["pppd-exit"]
Dialling(p) == IF p = "none" THEN 0 ELSE 1

\* Chains is their sum, and each of them is a number.
LEMMA ChainsSum ==
    ASSUME TypeOK
    PROVE  /\ Chains = Waiting(timers) + scripts["usb_module"] + Mailed(mail)
                       + Dialling(pppd)
           /\ Waiting(timers) \in Nat /\ scripts["usb_module"] \in Nat
           /\ Mailed(mail) \in Nat /\ Dialling(pppd) \in 0..1
  BY DEF TypeOK, Chains, Waiting, Mailed, Dialling, Shots, Scripts, Messages

\* What adding and dropping do to the sums.
LEMMA SumsStep ==
    /\ \A shots \in [Shots -> Nat], k \in Shots :
         Waiting(Add(shots, k)) = Waiting(shots) + 1
         /\ Waiting(Drop(shots, k)) = Waiting(shots) - 1
    /\ \A bag \in [Messages -> Nat], k \in Messages \ {"ip-up"} :
         Mailed(Add(bag, k)) = Mailed(bag) + 1
         /\ Mailed(Drop(bag, k)) = Mailed(bag) - 1
    /\ \A bag \in [Messages -> Nat] : Mailed(Add(bag, "ip-up")) = Mailed(bag)
         /\ Mailed(Drop(bag, "ip-up")) = Mailed(bag)
  BY DEF Waiting, Mailed, Add, Drop, Shots, Messages

\* Cleaning up turns a pppd into at most one report.
LEMMA CleanupSum ==
    ASSUME NEW bag \in [Messages -> Nat], TypeOK, PppdCleanup(bag)
    PROVE  /\ Mailed(mail') + Dialling(pppd') <= Mailed(bag) + Dialling(pppd)
           /\ Mailed(mail') \in Nat
<1>1. Mailed(bag) \in Nat /\ Mailed(Add(bag, "pppd-exit")) = Mailed(bag) + 1
  BY SumsStep DEF Mailed, Messages
<1>2. Dialling(pppd') = 0 /\ Dialling(pppd) \in 0..1
      /\ (pppd # "none" => Dialling(pppd) = 1)
  BY DEF PppdCleanup, Dialling
<1> QED
  BY <1>1, <1>2 DEF PppdCleanup

\* A round of checkNetwork() leaves at most one timer.
LEMMA CheckSum ==
    ASSUME NEW count \in Nat, NEW shots \in [Shots -> Nat], NEW now,
           CheckNetwork(count, shots, now)
    PROVE  Waiting(timers') <= Waiting(shots) + 1 /\ Waiting(timers') \in Nat
<1>1. Waiting(shots) \in Nat
  BY DEF Waiting, Shots
<1>2. \/ timers' = shots \/ timers' = Add(shots, "onNetworkFound")
      \/ timers' = Add(shots, "checkNetwork")
  BY DEF CheckNetwork
<1>3. /\ Waiting(Add(shots, "onNetworkFound")) = Waiting(shots) + 1
      /\ Waiting(Add(shots, "checkNetwork")) = Waiting(shots) + 1
  BY SumsStep DEF Shots
<1> QED
  BY <1>1, <1>2, <1>3

\* Only connect3g() adds an attempt: timers, scripts, reports and processes that
\* an earlier attempt left behind never become more.
THEOREM AttemptsAreConserved == Spec => AttemptsDoNotMultiply
<1>1. TypeOK /\ TypeOK' /\ [Next]_vars => [Connect3g \/ Chains' <= Chains]_vars
  <2> SUFFICES ASSUME TypeOK, TypeOK', Next, ~Connect3g PROVE Chains' <= Chains
    BY DEF vars
  <2> DEFINE Sum == Waiting(timers) + scripts["usb_module"] + Mailed(mail)
                    + Dialling(pppd)
  <2>s. /\ Chains = Sum /\ Chains' = Sum'
        /\ Waiting(timers) \in Nat /\ scripts["usb_module"] \in Nat
        /\ Mailed(mail) \in Nat /\ Dialling(pppd) \in 0..1
        /\ Waiting(timers') \in Nat /\ scripts'["usb_module"] \in Nat
        /\ Mailed(mail') \in Nat /\ Dialling(pppd') \in 0..1
    <3>1. /\ Chains' = Sum'
          /\ Waiting(timers') \in Nat /\ scripts'["usb_module"] \in Nat
          /\ Mailed(mail') \in Nat /\ Dialling(pppd') \in 0..1
      BY DEF TypeOK, Chains, Waiting, Mailed, Dialling, Shots, Scripts, Messages
    <3> QED
      BY <3>1, ChainsSum
  <2>t. /\ timers \in [Shots -> Nat] /\ scripts \in [Scripts -> Nat]
        /\ mail \in [Messages -> Nat] /\ net_retry \in Nat
    BY SmallCounts DEF TypeOK
  <2>k. /\ {"checkNetwork", "onNetworkFound", "connectImpl"} \subseteq Shots
        /\ {"device-detected", "device-not-found", "pppd-exit"}
             \subseteq Messages \ {"ip-up"}
        /\ "ip-up" \in Messages
    BY DEF Shots, Messages
  <2> HIDE DEF Sum
  <2> SUFFICES Sum' <= Sum
    BY <2>s
  <2>1. CASE Disconnect3g
    <3>1. Mailed(mail') + Dialling(pppd') <= Mailed(mail) + Dialling(pppd)
      BY <2>1, <2>t, CleanupSum DEF Disconnect3g
    <3>2. scripts'["usb_module"] = 0 /\ timers' = timers
      BY <2>1 DEF Disconnect3g
    <3> QED
      BY <2>s, <3>1, <3>2 DEF Sum
  <2>2. CASE OtherAcquires \/ OtherReleases
    BY <2>s, <2>2 DEF OtherAcquires, OtherReleases, Sum
  <2>3. CASE CheckNetworkTimeout
    <3>1. /\ Drop(timers, "checkNetwork") \in [Shots -> Nat]
          /\ Waiting(Drop(timers, "checkNetwork")) = Waiting(timers) - 1
      BY <2>3, <2>t, <2>k, BagType, SumsStep DEF CheckNetworkTimeout
    <3>2. Waiting(timers') <= (Waiting(timers) - 1) + 1
      BY <2>3, <2>t, <3>1, CheckSum DEF CheckNetworkTimeout
    <3>3. scripts' = scripts /\ mail' = mail /\ pppd' = pppd
      BY <2>3 DEF CheckNetworkTimeout
    <3> QED
      BY <2>s, <3>2, <3>3 DEF Sum
  <2>4. CASE OnNetworkFound
    <3>1. /\ Drop(timers, "onNetworkFound") \in [Shots -> Nat]
          /\ Waiting(Drop(timers, "onNetworkFound")) = Waiting(timers) - 1
      BY <2>4, <2>t, <2>k, BagType, SumsStep DEF OnNetworkFound
    <3>2. Waiting(timers') = (Waiting(timers) - 1) + 1
      BY <2>4, <2>k, <3>1, SumsStep DEF OnNetworkFound
    <3>3. scripts' = scripts /\ mail' = mail /\ pppd' = pppd
      BY <2>4 DEF OnNetworkFound
    <3> QED
      BY <2>s, <3>2, <3>3 DEF Sum
  <2>5. CASE ConnectImpl
    <3>1. Waiting(timers') = Waiting(timers) - 1 /\ scripts' = scripts
      BY <2>5, <2>t, <2>k, SumsStep DEF ConnectImpl
    <3>2. Mailed(mail') + Dialling(pppd') <= Mailed(mail) + Dialling(pppd) + 1
      <4>1. Mailed(Add(mail, "pppd-exit")) = Mailed(mail) + 1
        BY <2>t, <2>k, SumsStep
      <4>2. CASE pppd = "none" /\ pppd' = "dialling" /\ mail' = mail
        BY <2>s, <4>2 DEF Dialling
      <4>3. CASE mail' = Add(mail, "pppd-exit") /\ pppd' = pppd
        BY <2>s, <4>1, <4>3
      <4> QED
        BY <2>5, <4>2, <4>3 DEF ConnectImpl
    <3> QED
      BY <2>s, <3>1, <3>2 DEF Sum
  <2>6. CASE OnModemNotFound
    <3>1. /\ Drop(mail, "device-not-found") \in [Messages -> Nat]
          /\ Mailed(Drop(mail, "device-not-found")) = Mailed(mail) - 1
      BY <2>6, <2>t, <2>k, BagType, SumsStep DEF OnModemNotFound
    <3>2. Mailed(mail') + Dialling(pppd') <= (Mailed(mail) - 1) + Dialling(pppd)
      BY <2>6, <3>1, CleanupSum DEF OnModemNotFound
    <3>3. scripts'["usb_module"] = 0 /\ timers' = timers
      BY <2>6, <2>t DEF OnModemNotFound, Scripts
    <3> QED
      BY <2>s, <3>2, <3>3 DEF Sum
  <2>7. CASE OnModemDetected
    <3>1. /\ Drop(mail, "device-detected") \in [Messages -> Nat]
          /\ Mailed(Drop(mail, "device-detected")) = Mailed(mail) - 1
      BY <2>7, <2>t, <2>k, BagType, SumsStep DEF OnModemDetected
    <3>2. Mailed(mail') + Dialling(pppd') <= (Mailed(mail) - 1) + Dialling(pppd)
      BY <2>7, <3>1, CleanupSum DEF OnModemDetected
    <3>3. Waiting(timers') <= Waiting(timers) + 1
      BY <2>7, <2>t, CheckSum DEF OnModemDetected
    <3>4. scripts'["usb_module"] = 0
      BY <2>7, <2>t DEF OnModemDetected, Scripts
    <3> QED
      BY <2>s, <3>2, <3>3, <3>4 DEF Sum
  <2>8. CASE OnIpUp
    <3>1. /\ Drop(mail, "ip-up") \in [Messages -> Nat]
          /\ Mailed(Drop(mail, "ip-up")) = Mailed(mail)
      BY <2>8, <2>t, <2>k, BagType, SumsStep DEF OnIpUp
    <3>2. CASE mail' = Drop(mail, "ip-up") /\ UNCHANGED <<pppd, scripts>>
      BY <2>8, <2>s, <3>1, <3>2 DEF OnIpUp, Sum
    <3>3. CASE /\ PppdCleanup(Drop(mail, "ip-up"))
               /\ scripts' = [scripts EXCEPT !["usb_module"] = 0]
      <4>1. Mailed(mail') + Dialling(pppd') <= Mailed(mail) + Dialling(pppd)
        BY <3>1, <3>3, CleanupSum
      <4>2. scripts'["usb_module"] = 0 /\ timers' = timers
        BY <2>8, <2>t, <3>3 DEF OnIpUp, Scripts
      <4> QED
        BY <2>s, <4>1, <4>2 DEF Sum
    <3> QED
      BY <2>8, <3>2, <3>3 DEF OnIpUp
  <2>9. CASE OnPppdExit
    <3>1. Mailed(mail') = Mailed(mail) - 1 /\ scripts' = scripts /\ pppd' = pppd
      BY <2>9, <2>t, <2>k, SumsStep DEF OnPppdExit
    <3>2. Waiting(timers') <= Waiting(timers) + 1
      <4>1. Waiting(Add(timers, "connectImpl")) = Waiting(timers) + 1
        BY <2>t, <2>k, SumsStep
      <4>2. timers' = Add(timers, "connectImpl") \/ timers' = timers
        BY <2>9 DEF OnPppdExit
      <4> QED
        BY <2>s, <4>1, <4>2
    <3> QED
      BY <2>s, <3>1, <3>2 DEF Sum
  <2>10. CASE UsbModuleReports
    <3>1. scripts'["usb_module"] = scripts["usb_module"] - 1
      BY <2>10, <2>t DEF UsbModuleReports, Drop, Scripts
    <3>2. PICK m \in {"device-detected", "device-not-found"} : mail' = Add(mail, m)
      BY <2>10 DEF UsbModuleReports
    <3>3. Mailed(mail') = Mailed(mail) + 1
      BY <2>t, <2>k, <3>2, SumsStep
    <3>4. timers' = timers /\ pppd' = pppd
      BY <2>10 DEF UsbModuleReports
    <3> QED
      BY <2>s, <3>1, <3>3, <3>4 DEF Sum
  <2>11. CASE DetachedCleanup
    <3>1. Mailed(mail') + Dialling(pppd') <= Mailed(mail) + Dialling(pppd)
      BY <2>11, <2>t, CleanupSum DEF DetachedCleanup
    <3>2. scripts'["usb_module"] = 0 /\ timers' = timers
      BY <2>11 DEF DetachedCleanup
    <3> QED
      BY <2>s, <3>1, <3>2 DEF Sum
  <2>12. CASE PppdUp
    <3>1. Mailed(mail') = Mailed(mail)
      BY <2>12, <2>t, <2>k, SumsStep DEF PppdUp
    <3>2. Dialling(pppd') = Dialling(pppd) /\ timers' = timers /\ scripts' = scripts
      BY <2>12 DEF PppdUp, Dialling
    <3> QED
      BY <2>s, <3>1, <3>2 DEF Sum
  <2>13. CASE PppdExits
    <3>1. Mailed(mail') = Mailed(mail) + 1
      BY <2>13, <2>t, <2>k, SumsStep DEF PppdExits
    <3>2. /\ Dialling(pppd) = 1 /\ Dialling(pppd') = 0
          /\ timers' = timers /\ scripts' = scripts
      BY <2>13 DEF PppdExits, Dialling
    <3> QED
      BY <2>s, <3>1, <3>2 DEF Sum
  <2> QED
    BY <2>1, <2>2, <2>3, <2>4, <2>5, <2>6, <2>7, <2>8, <2>9, <2>10, <2>11,
       <2>12, <2>13 DEF Next, ClientSteps, ManagerSteps, OutsideSteps
<1> QED
  BY <1>1, TypeCorrect, PTL DEF Spec, AttemptsDoNotMultiply

-----------------------------------------------------------------------------
(* Nothing keeps itself alive: the measures that the steps use up.         *)

\* The parts of the measures are numbers.
LEMMA PartsAreNat ==
    /\ \A bag \in [Messages -> Nat] : Found(bag) \in Nat /\ Told(bag) \in Nat
    /\ \A shots \in [Shots -> Nat] : Armed(1, shots) \in Nat /\ Armed(7, shots) \in Nat
    /\ \A p \in {"none", "dialling", "up"} :
         Line(p) \in Nat /\ (p # "none" => Line(p) >= 2)
  BY DEF Found, Told, Armed, Line, Messages, Shots

\* What a message that comes or goes does to them.
LEMMA MailMeasured ==
    ASSUME NEW bag \in [Messages -> Nat]
    PROVE  /\ \A k \in {"device-detected", "device-not-found"} :
                /\ Found(Add(bag, k)) = Found(bag) + 1 /\ Told(Add(bag, k)) = Told(bag)
                /\ Found(Drop(bag, k)) = Found(bag) - 1 /\ Told(Drop(bag, k)) = Told(bag)
           /\ \A k \in {"ip-up", "pppd-exit"} :
                /\ Found(Add(bag, k)) = Found(bag) /\ Told(Add(bag, k)) = Told(bag) + 1
                /\ Found(Drop(bag, k)) = Found(bag) /\ Told(Drop(bag, k)) = Told(bag) - 1
  BY DEF Found, Told, Add, Drop, Messages

\* What a timer that is armed or fires does to them.
LEMMA TimersMeasured ==
    ASSUME NEW shots \in [Shots -> Nat], NEW c \in {1, 7}
    PROVE  /\ Armed(c, Add(shots, "checkNetwork")) = Armed(c, shots) + c
           /\ Armed(c, Drop(shots, "checkNetwork")) = Armed(c, shots) - c
           /\ Armed(c, Add(shots, "onNetworkFound")) = Armed(c, shots) + 6
           /\ Armed(c, Drop(shots, "onNetworkFound")) = Armed(c, shots) - 6
           /\ Armed(c, Add(shots, "connectImpl")) = Armed(c, shots) + 5
           /\ Armed(c, Drop(shots, "connectImpl")) = Armed(c, shots) - 5
  BY DEF Armed, Add, Drop, Shots

\* Cleaning up pays for the report of the exit with the pppd it has ended.
LEMMA CleanupMeasured ==
    ASSUME NEW bag \in [Messages -> Nat], TypeOK, PppdCleanup(bag)
    PROVE  /\ mail' \in [Messages -> Nat] /\ pppd' = "none"
           /\ Found(mail') = Found(bag)
           /\ Told(mail') + Line(pppd') <= Told(bag) + Line(pppd)
<1>1. Found(bag) \in Nat /\ Told(bag) \in Nat
  BY PartsAreNat
<1>2. Line("none") = 0 /\ Line(pppd) \in Nat /\ (pppd # "none" => Line(pppd) >= 2)
  BY PartsAreNat DEF Line, TypeOK
<1>3. Found(Add(bag, "pppd-exit")) = Found(bag) /\ Told(Add(bag, "pppd-exit")) = Told(bag) + 1
  BY MailMeasured
<1> QED
  BY <1>1, <1>2, <1>3, CleanupType DEF PppdCleanup

\* What is armed, told and on the line, a check of the network costing c.
Stirring(c) == Told(mail) + Armed(c, timers) + Line(pppd)

\* The steps that look for no network and find no modem.  Each leaves less
\* behind, or as much when it has dropped the report of a detection or a script.
LEMMA StirringSteps ==
    ASSUME TypeOK, TypeOK', NEW c \in {1, 7}
    PROVE  /\ OnNetworkFound \/ ConnectImpl \/ PppdUp \/ PppdExits =>
                /\ Stirring(c)' < Stirring(c)
                /\ Found(mail') = Found(mail) /\ scripts' = scripts
           /\ OnIpUp =>
                /\ Stirring(c)' < Stirring(c)
                /\ Found(mail') = Found(mail)
                /\ scripts'["usb_module"] <= scripts["usb_module"]
                /\ scripts'["pppd_cleanup"] = scripts["pppd_cleanup"]
           /\ OnModemNotFound =>
                /\ Stirring(c)' <= Stirring(c)
                /\ Found(mail') = Found(mail) - 1
                /\ scripts'["usb_module"] <= scripts["usb_module"]
                /\ scripts'["pppd_cleanup"] = scripts["pppd_cleanup"]
           /\ UsbModuleReports =>
                /\ Stirring(c)' = Stirring(c)
                /\ Found(mail') = Found(mail) + 1
                /\ scripts'["usb_module"] = scripts["usb_module"] - 1
                /\ scripts'["pppd_cleanup"] = scripts["pppd_cleanup"]
           /\ DetachedCleanup =>
                /\ Stirring(c)' <= Stirring(c)
                /\ Found(mail') = Found(mail)
                /\ scripts'["usb_module"] <= scripts["usb_module"]
                /\ scripts'["pppd_cleanup"] = scripts["pppd_cleanup"] - 1
<1>t. /\ timers \in [Shots -> Nat] /\ timers' \in [Shots -> Nat]
      /\ scripts \in [Scripts -> Nat]
      /\ mail \in [Messages -> Nat] /\ mail' \in [Messages -> Nat]
      /\ pppd \in {"none", "dialling", "up"} /\ pppd' \in {"none", "dialling", "up"}
  BY DEF TypeOK
<1>n. /\ Told(mail) \in Nat /\ Told(mail') \in Nat /\ Found(mail) \in Nat
      /\ Armed(c, timers) \in Nat /\ Armed(c, timers') \in Nat
      /\ Line(pppd) \in Nat /\ Line(pppd') \in Nat
  BY <1>t, PartsAreNat
<1>l. Line("none") = 0 /\ Line("dialling") = 4 /\ Line("up") = 2
  BY DEF Line
<1>s. scripts["usb_module"] \in Nat /\ scripts["pppd_cleanup"] \in Nat
  BY <1>t DEF Scripts
<1>1. ASSUME OnNetworkFound
      PROVE  /\ Stirring(c)' < Stirring(c)
             /\ Found(mail') = Found(mail) /\ scripts' = scripts
  <2>1. Drop(timers, "onNetworkFound") \in [Shots -> Nat]
    BY <1>1, <1>t, BagType DEF OnNetworkFound, Shots
  <2>2. Armed(c, timers') = Armed(c, timers) - 6 + 5
    BY <1>1, <1>t, <2>1, TimersMeasured DEF OnNetworkFound
  <2> QED
    BY <1>1, <1>n, <2>2 DEF OnNetworkFound, Stirring
<1>2. ASSUME ConnectImpl
      PROVE  /\ Stirring(c)' < Stirring(c)
             /\ Found(mail') = Found(mail) /\ scripts' = scripts
  <2>1. Armed(c, timers') = Armed(c, timers) - 5 /\ scripts' = scripts
    BY <1>2, <1>t, TimersMeasured DEF ConnectImpl
  <2>2. CASE pppd = "none" /\ pppd' = "dialling" /\ mail' = mail
    BY <1>n, <1>l, <2>1, <2>2 DEF Stirring
  <2>3. CASE mail' = Add(mail, "pppd-exit") /\ pppd' = pppd
    <3>1. Told(mail') = Told(mail) + 1 /\ Found(mail') = Found(mail)
      BY <1>t, <2>3, MailMeasured
    <3> QED
      BY <1>n, <2>1, <2>3, <3>1 DEF Stirring
  <2> QED
    BY <1>2, <2>2, <2>3 DEF ConnectImpl
<1>3. ASSUME PppdUp
      PROVE  /\ Stirring(c)' < Stirring(c)
             /\ Found(mail') = Found(mail) /\ scripts' = scripts
  <2>1. Told(mail') = Told(mail) + 1 /\ Found(mail') = Found(mail)
    BY <1>3, <1>t, MailMeasured DEF PppdUp
  <2> QED
    BY <1>3, <1>n, <1>l, <2>1 DEF PppdUp, Stirring
<1>4. ASSUME PppdExits
      PROVE  /\ Stirring(c)' < Stirring(c)
             /\ Found(mail') = Found(mail) /\ scripts' = scripts
  <2>1. Told(mail') = Told(mail) + 1 /\ Found(mail') = Found(mail)
    BY <1>4, <1>t, MailMeasured DEF PppdExits
  <2>2. Line(pppd) >= 2
    BY <1>4, <1>t, PartsAreNat DEF PppdExits
  <2> QED
    BY <1>4, <1>n, <1>l, <2>1, <2>2 DEF PppdExits, Stirring
<1>5. ASSUME OnIpUp
      PROVE  /\ Stirring(c)' < Stirring(c)
             /\ Found(mail') = Found(mail)
             /\ scripts'["usb_module"] <= scripts["usb_module"]
             /\ scripts'["pppd_cleanup"] = scripts["pppd_cleanup"]
  <2>1. /\ Drop(mail, "ip-up") \in [Messages -> Nat]
        /\ Told(Drop(mail, "ip-up")) = Told(mail) - 1
        /\ Found(Drop(mail, "ip-up")) = Found(mail)
    BY <1>5, <1>t, BagType, MailMeasured DEF OnIpUp, Messages
  <2>2. timers' = timers
    BY <1>5 DEF OnIpUp
  <2>3. CASE mail' = Drop(mail, "ip-up") /\ UNCHANGED <<pppd, scripts>>
    BY <1>n, <1>s, <2>1, <2>2, <2>3 DEF Stirring
  <2>4. CASE /\ PppdCleanup(Drop(mail, "ip-up"))
             /\ scripts' = [scripts EXCEPT !["usb_module"] = 0]
    <3>1. /\ Found(mail') = Found(mail)
          /\ Told(mail') + Line(pppd') <= Told(mail) - 1 + Line(pppd)
      BY <2>1, <2>4, CleanupMeasured
    <3>2. scripts'["usb_module"] = 0 /\ scripts'["pppd_cleanup"] = scripts["pppd_cleanup"]
      BY <1>t, <2>4 DEF Scripts
    <3> QED
      BY <1>n, <1>s, <2>2, <3>1, <3>2 DEF Stirring
  <2> QED
    BY <1>5, <2>3, <2>4 DEF OnIpUp
<1>6. ASSUME OnModemNotFound
      PROVE  /\ Stirring(c)' <= Stirring(c)
             /\ Found(mail') = Found(mail) - 1
             /\ scripts'["usb_module"] <= scripts["usb_module"]
             /\ scripts'["pppd_cleanup"] = scripts["pppd_cleanup"]
  <2>1. /\ Drop(mail, "device-not-found") \in [Messages -> Nat]
        /\ Told(Drop(mail, "device-not-found")) = Told(mail)
        /\ Found(Drop(mail, "device-not-found")) = Found(mail) - 1
    BY <1>6, <1>t, BagType, MailMeasured DEF OnModemNotFound, Messages
  <2>2. /\ Found(mail') = Found(mail) - 1
        /\ Told(mail') + Line(pppd') <= Told(mail) + Line(pppd)
    BY <1>6, <2>1, CleanupMeasured DEF OnModemNotFound
  <2>3. /\ scripts'["usb_module"] = 0 /\ scripts'["pppd_cleanup"] = scripts["pppd_cleanup"]
        /\ timers' = timers
    BY <1>6, <1>t DEF OnModemNotFound, Scripts
  <2> QED
    BY <1>n, <1>s, <2>2, <2>3 DEF Stirring
<1>7. ASSUME UsbModuleReports
      PROVE  /\ Stirring(c)' = Stirring(c)
             /\ Found(mail') = Found(mail) + 1
             /\ scripts'["usb_module"] = scripts["usb_module"] - 1
             /\ scripts'["pppd_cleanup"] = scripts["pppd_cleanup"]
  <2>1. PICK m \in {"device-detected", "device-not-found"} : mail' = Add(mail, m)
    BY <1>7 DEF UsbModuleReports
  <2>2. Found(mail') = Found(mail) + 1 /\ Told(mail') = Told(mail)
    BY <1>t, <2>1, MailMeasured
  <2>3. /\ scripts'["usb_module"] = scripts["usb_module"] - 1
        /\ scripts'["pppd_cleanup"] = scripts["pppd_cleanup"]
        /\ timers' = timers /\ pppd' = pppd
    BY <1>7, <1>t DEF UsbModuleReports, Drop, Scripts
  <2> QED
    BY <2>2, <2>3 DEF Stirring
<1>8. ASSUME DetachedCleanup
      PROVE  /\ Stirring(c)' <= Stirring(c)
             /\ Found(mail') = Found(mail)
             /\ scripts'["usb_module"] <= scripts["usb_module"]
             /\ scripts'["pppd_cleanup"] = scripts["pppd_cleanup"] - 1
  <2>1. Found(mail') = Found(mail) /\ Told(mail') + Line(pppd') <= Told(mail) + Line(pppd)
    BY <1>8, <1>t, CleanupMeasured DEF DetachedCleanup
  <2>2. /\ scripts'["usb_module"] = 0 /\ timers' = timers
        /\ scripts'["pppd_cleanup"] = scripts["pppd_cleanup"] - 1
    BY <1>8 DEF DetachedCleanup
  <2> QED
    BY <1>n, <1>s, <2>1, <2>2 DEF Stirring
<1> QED
  BY <1>1, <1>2, <1>3, <1>4, <1>5, <1>6, <1>7, <1>8

\* OnPppdExit, without power or with a try more.
LEMMA ExitMeasured ==
    ASSUME TypeOK, TypeOK', OnPppdExit, NEW c \in {1, 7}
    PROVE  /\ Found(mail') = Found(mail) /\ scripts' = scripts
           /\ \/ enabled /\ pppd_retry' = pppd_retry + 1
                 /\ Stirring(c)' = Stirring(c) + 4
              \/ pppd_retry' = pppd_retry /\ Stirring(c)' = Stirring(c) - 1
<1>1. timers \in [Shots -> Nat] /\ mail \in [Messages -> Nat]
  BY DEF TypeOK
<1>2. /\ Found(mail') = Found(mail) /\ Told(mail') = Told(mail) - 1
      /\ scripts' = scripts /\ pppd' = pppd
  BY <1>1, MailMeasured DEF OnPppdExit
<1>3. /\ Told(mail) \in Nat /\ Armed(c, timers) \in Nat /\ Line(pppd) \in Nat
  BY PartsAreNat DEF TypeOK
<1>4. CASE CanPppdRetry /\ IncreasePppdRetry /\ timers' = Add(timers, "connectImpl")
  <2>1. Armed(c, timers') = Armed(c, timers) + 5
    BY <1>1, <1>4, TimersMeasured
  <2> QED
    BY <1>2, <1>3, <1>4, <2>1 DEF Stirring, CanPppdRetry, IncreasePppdRetry
<1>5. CASE UNCHANGED <<pppd_retry, timers>>
  BY <1>2, <1>3, <1>5 DEF Stirring
<1> QED
  BY <1>2, <1>4, <1>5 DEF OnPppdExit

\* Work, without its parts that only scripts and detections change, is stirring.
LEMMA WorkSplit ==
    ASSUME TypeOK
    PROVE  /\ Work = 2 * scripts["usb_module"] + scripts["pppd_cleanup"]
                     + Found(mail) + Stirring(1)
           /\ Work \in Nat
           /\ scripts["usb_module"] \in Nat /\ scripts["pppd_cleanup"] \in Nat
           /\ Found(mail) \in Nat /\ Stirring(1) \in Nat
<1>1. scripts["usb_module"] \in Nat /\ scripts["pppd_cleanup"] \in Nat
  BY DEF TypeOK, Scripts
<1>2. /\ Found(mail) \in Nat /\ Told(mail) \in Nat
      /\ Armed(1, timers) \in Nat /\ Line(pppd) \in Nat
  BY PartsAreNat DEF TypeOK
<1> QED
  BY <1>1, <1>2 DEF Work, Stirring

\* With no power every step of the manager, the scripts and pppd leaves less to
\* do than there was: a late detection, an exit of pppd or a timer of before
\* cannot start the loops again.  What the loops wait for is done in the end,
\* which is the part of OffGoesQuiet that does not rest on fairness.
THEOREM OffRunsDownAlways == Spec => OffRunsDown
<1>1. ASSUME TypeOK, TypeOK', ~enabled, ManagerSteps \/ OutsideSteps
      PROVE  Work' < Work
  <2>w. /\ Work = 2 * scripts["usb_module"] + scripts["pppd_cleanup"]
                  + Found(mail) + Stirring(1)
        /\ scripts["usb_module"] \in Nat /\ scripts["pppd_cleanup"] \in Nat
        /\ Found(mail) \in Nat /\ Stirring(1) \in Nat
    BY <1>1, WorkSplit
  <2>x. /\ Work' = 2 * scripts'["usb_module"] + scripts'["pppd_cleanup"]
                   + Found(mail') + Stirring(1)'
        /\ scripts'["usb_module"] \in Nat /\ scripts'["pppd_cleanup"] \in Nat
        /\ Found(mail') \in Nat /\ Stirring(1)' \in Nat
    <3>1. scripts'["usb_module"] \in Nat /\ scripts'["pppd_cleanup"] \in Nat
      BY <1>1 DEF TypeOK, Scripts
    <3>2. /\ Found(mail') \in Nat /\ Told(mail') \in Nat
          /\ Armed(1, timers') \in Nat /\ Line(pppd') \in Nat
      BY <1>1, PartsAreNat DEF TypeOK
    <3> QED
      BY <3>1, <3>2 DEF Work, Stirring
  <2>1. CASE OnNetworkFound \/ ConnectImpl \/ PppdUp \/ PppdExits
    <3>1. /\ Stirring(1)' < Stirring(1)
          /\ Found(mail') = Found(mail) /\ scripts' = scripts
      BY <1>1, <2>1, StirringSteps
    <3> QED
      BY <2>w, <2>x, <3>1
  <2>2. CASE OnIpUp
    <3>1. /\ Stirring(1)' < Stirring(1)
          /\ Found(mail') = Found(mail)
          /\ scripts'["usb_module"] <= scripts["usb_module"]
          /\ scripts'["pppd_cleanup"] = scripts["pppd_cleanup"]
      BY <1>1, <2>2, StirringSteps
    <3> QED
      BY <2>w, <2>x, <3>1
  <2>3. CASE OnModemNotFound
    <3>1. /\ Stirring(1)' <= Stirring(1)
          /\ Found(mail') = Found(mail) - 1
          /\ scripts'["usb_module"] <= scripts["usb_module"]
          /\ scripts'["pppd_cleanup"] = scripts["pppd_cleanup"]
      BY <1>1, <2>3, StirringSteps
    <3> QED
      BY <2>w, <2>x, <3>1
  <2>4. CASE UsbModuleReports
    <3>1. /\ Stirring(1)' = Stirring(1)
          /\ Found(mail') = Found(mail) + 1
          /\ scripts'["usb_module"] = scripts["usb_module"] - 1
          /\ scripts'["pppd_cleanup"] = scripts["pppd_cleanup"]
      BY <1>1, <2>4, StirringSteps
    <3> QED
      BY <2>w, <2>x, <3>1
  <2>5. CASE DetachedCleanup
    <3>1. /\ Stirring(1)' <= Stirring(1)
          /\ Found(mail') = Found(mail)
          /\ scripts'["usb_module"] <= scripts["usb_module"]
          /\ scripts'["pppd_cleanup"] = scripts["pppd_cleanup"] - 1
      BY <1>1, <2>5, StirringSteps
    <3> QED
      BY <2>w, <2>x, <3>1
  <2>6. CASE OnPppdExit
    <3>1. /\ Found(mail') = Found(mail) /\ scripts' = scripts
          /\ Stirring(1)' = Stirring(1) - 1
      BY <1>1, <2>6, ExitMeasured
    <3> QED
      BY <2>w, <2>x, <3>1
  <2>7. CASE CheckNetworkTimeout
    <3>1. /\ timers' = Drop(timers, "checkNetwork")
          /\ scripts' = scripts /\ mail' = mail /\ pppd' = pppd
      BY <1>1, <2>7 DEF CheckNetworkTimeout, CheckNetwork
    <3>2. Armed(1, timers') = Armed(1, timers) - 1 /\ Armed(1, timers) \in Nat
      BY <1>1, <3>1, TimersMeasured, PartsAreNat DEF TypeOK
    <3>3. Told(mail) \in Nat /\ Line(pppd) \in Nat
      BY <1>1, PartsAreNat DEF TypeOK
    <3> QED
      BY <2>w, <2>x, <3>1, <3>2, <3>3 DEF Stirring
  <2>8. CASE OnModemDetected
    <3>1. /\ PppdCleanup(Drop(mail, "device-detected")) /\ timers' = timers
          /\ scripts' = [scripts EXCEPT !["usb_module"] = 0]
          /\ mail["device-detected"] > 0
      BY <1>1, <2>8 DEF OnModemDetected, CheckNetwork
    <3>2. /\ Drop(mail, "device-detected") \in [Messages -> Nat]
          /\ Told(Drop(mail, "device-detected")) = Told(mail)
          /\ Found(Drop(mail, "device-detected")) = Found(mail) - 1
      BY <1>1, <3>1, BagType, MailMeasured DEF TypeOK, Messages
    <3>3. /\ Found(mail') = Found(mail) - 1
          /\ Told(mail') + Line(pppd') <= Told(mail) + Line(pppd)
      BY <1>1, <3>1, <3>2, CleanupMeasured
    <3>4. scripts'["usb_module"] = 0 /\ scripts'["pppd_cleanup"] = scripts["pppd_cleanup"]
      BY <1>1, <3>1 DEF TypeOK, Scripts
    <3>5. /\ Told(mail) \in Nat /\ Line(pppd) \in Nat /\ Armed(1, timers) \in Nat
          /\ Told(mail') \in Nat /\ Line(pppd') \in Nat
      BY <1>1, PartsAreNat DEF TypeOK
    <3>6. Stirring(1)' <= Stirring(1)
      BY <3>1, <3>3, <3>5 DEF Stirring
    <3> QED
      BY <2>w, <2>x, <3>3, <3>4, <3>6
  <2> QED
    BY <1>1, <2>1, <2>2, <2>3, <2>4, <2>5, <2>6, <2>7, <2>8 DEF ManagerSteps, OutsideSteps
<1>2. TypeOK /\ TypeOK' /\ [Next]_vars =>
        [~enabled /\ (ManagerSteps \/ OutsideSteps) => Work' < Work]_vars
  BY <1>1
<1> QED
  BY <1>2, TypeCorrect, PTL DEF Spec, OffRunsDown

\* There is work left exactly until everything is quiet: the measure of
\* OffRunsDown, a number, counts all that OffGoesQuiet wants to see gone.
THEOREM WorkUntilQuiet ==
    Spec => [](Work \in Nat /\ (Work > 0 <=> ~(Quiet /\ pppd = "none")))
<1>1. ASSUME TypeOK
      PROVE  Work \in Nat /\ (Work > 0 <=> ~(Quiet /\ pppd = "none"))
  <2>1. /\ timers["checkNetwork"] \in Nat /\ timers["onNetworkFound"] \in Nat
        /\ timers["connectImpl"] \in Nat
        /\ scripts["usb_module"] \in Nat /\ scripts["pppd_cleanup"] \in Nat
        /\ mail["device-detected"] \in Nat /\ mail["device-not-found"] \in Nat
        /\ mail["ip-up"] \in Nat /\ mail["pppd-exit"] \in Nat
    BY <1>1 DEF TypeOK, Shots, Scripts, Messages
  <2>2. Line(pppd) \in Nat /\ (pppd # "none" => Line(pppd) > 0)
    BY <1>1 DEF TypeOK, Line
  <2>3. Found(mail) \in Nat /\ Told(mail) \in Nat /\ Armed(1, timers) \in Nat
    BY <1>1, PartsAreNat DEF TypeOK
  <2>4. /\ mail["device-detected"] > 0 \/ mail["device-not-found"] > 0 => Found(mail) > 0
        /\ mail["ip-up"] > 0 \/ mail["pppd-exit"] > 0 => Told(mail) > 0
    BY <2>1 DEF Found, Told
  <2>5. /\ timers["checkNetwork"] > 0 => Armed(1, timers) > 0
        /\ timers["onNetworkFound"] > 0 => Armed(1, timers) > 0
        /\ timers["connectImpl"] > 0 => Armed(1, timers) > 0
    BY <2>1 DEF Armed
  <2>6. ASSUME ~(Quiet /\ pppd = "none") PROVE Work > 0
    <3>1. \/ \E k \in Shots : timers[k] > 0
          \/ \E k \in Scripts : scripts[k] > 0
          \/ \E k \in Messages : mail[k] > 0
          \/ pppd # "none"
      BY <1>1, <2>6 DEF Quiet, NoTimers, TypeOK
    <3>2. CASE \E k \in Shots : timers[k] > 0
      <4>1. Armed(1, timers) > 0
        BY <2>5, <3>2 DEF Shots
      <4> QED
        BY <2>1, <2>2, <2>3, <4>1 DEF Work
    <3>3. CASE \E k \in Scripts : scripts[k] > 0
      <4>1. scripts["usb_module"] > 0 \/ scripts["pppd_cleanup"] > 0
        BY <3>3 DEF Scripts
      <4> QED
        BY <2>1, <2>2, <2>3, <4>1 DEF Work
    <3>4. CASE \E k \in Messages : mail[k] > 0
      <4>1. Found(mail) > 0 \/ Told(mail) > 0
        BY <2>4, <3>4 DEF Messages
      <4> QED
        BY <2>1, <2>2, <2>3, <4>1 DEF Work
    <3>5. CASE pppd # "none"
      BY <2>1, <2>2, <2>3, <3>5 DEF Work
    <3> QED
      BY <3>1, <3>2, <3>3, <3>4, <3>5
  <2>7. ASSUME Quiet, pppd = "none" PROVE Work = 0
    <3>1. /\ Found(mail) = 0 /\ Told(mail) = 0 /\ Armed(1, timers) = 0 /\ Line(pppd) = 0
      BY <2>7 DEF Quiet, NoTimers, Shots, Messages, Found, Told, Armed, Line
    <3>2. scripts["usb_module"] = 0 /\ scripts["pppd_cleanup"] = 0
      BY <2>7 DEF Quiet, Scripts
    <3> QED
      BY <3>1, <3>2 DEF Work
  <2>8. Work \in Nat
    BY <1>1, WorkSplit
  <2> QED
    BY <2>6, <2>7, <2>8
<1> QED
  BY <1>1, TypeCorrect, PTL

\* The tries are bounded by the limits of the code.
LEMMA TriesBounded ==
    ASSUME TypeOK
    PROVE  /\ ChecksLeft(net_retry) \in 0..(NetLimit + 2)
           /\ DialsLeft \in 0..(PppdLimit + 1)
           /\ Detection \in Nat
<1>1. net_retry \in Nat /\ pppd_retry \in 0..(PppdLimit + 1)
  BY SmallCounts DEF TypeOK
<1> QED
  BY <1>1, ConstantsAssumption DEF ChecksLeft, DialsLeft, Detection

\* The budget of n detections of d tries each, and r tries more.
Weighed(d, n, r) == d * n + r

\* Fewer tries, or many more for a detection less, are a smaller budget.
LEMMA BudgetLess ==
    ASSUME NEW d \in Nat, NEW m \in Nat, NEW n \in Nat, NEW r \in Nat, NEW s \in Nat,
           (m <= n /\ s < r) \/ (m < n /\ s < r + d)
    PROVE  Weighed(d, m, s) < Weighed(d, n, r)
<1> SUFFICES d * m + s < d * n + r
  BY DEF Weighed
<1>1. PICK k \in Nat : n = m + k
  <2>1. n - m \in Nat /\ n = m + (n - m)
    OBVIOUS
  <2> QED
    BY <2>1
<1>2. d * n = d * m + d * k /\ d * m \in Nat /\ d * k \in Nat
  BY <1>1
<1>3. CASE s < r
  BY <1>2, <1>3
<1>4. CASE m < n /\ s < r + d
  <2>1. PICK j \in Nat : k = j + 1
    <3>1. k - 1 \in Nat /\ k = (k - 1) + 1
      BY <1>1, <1>4
    <3> QED
      BY <3>1
  <2>2. d * k = d * j + d /\ d * j \in Nat
    BY <2>1
  <2> QED
    BY <1>2, <1>4, <2>2
<1> QED
  BY <1>3, <1>4

\* A check of the network is paid for by its timer and its own count.
LEMMA CheckMeasured ==
    ASSUME NEW count \in NetCounts, NEW shots \in [Shots -> Nat], NEW now,
           TypeOK, CheckNetwork(count, shots, now)
    PROVE  Armed(7, timers') + ChecksLeft(net_retry)'
             < Armed(7, shots) + 7 + ChecksLeft(count)
<1>1. count \in Nat /\ NetLimit \in Nat
  BY SmallCounts, ConstantsAssumption
<1>2. Armed(7, shots) \in Nat /\ sim \in BOOLEAN
  BY PartsAreNat DEF TypeOK
<1>3. ASSUME count <= NetLimit, NEW answer \in Answers,
             answer = "unlocked" => ~sim,
             net_retry' = count + Cost(answer),
             timers' = Add(shots, IF answer = "network" THEN "onNetworkFound"
                                  ELSE "checkNetwork"),
             sim' = (sim \/ answer = "unlocked")
      PROVE  Armed(7, timers') + ChecksLeft(net_retry)'
               < Armed(7, shots) + 7 + ChecksLeft(count)
  <2> DEFINE s0 == IF sim THEN 0 ELSE 1
             s1 == IF sim' THEN 0 ELSE 1
             left(n) == IF n <= NetLimit THEN NetLimit + 1 - n ELSE 0
  <2>1. ChecksLeft(count) = left(count) + s0 /\ ChecksLeft(net_retry)' = left(net_retry') + s1
    BY DEF ChecksLeft
  <2>2. s0 \in 0..1 /\ s1 \in 0..1 /\ s1 <= s0
    <3>1. sim => sim'
      BY <1>3
    <3> QED
      BY <3>1
  <2>3. left(count) \in Nat
    BY <1>1
  <2>4. CASE answer = "network"
    <3>1. Armed(7, timers') = Armed(7, shots) + 6 /\ net_retry' = count
      BY <1>1, <1>3, <2>4, TimersMeasured DEF Cost
    <3> QED
      BY <1>2, <2>1, <2>2, <2>3, <3>1
  <2>5. CASE answer = "unlocked"
    <3>1. Armed(7, timers') = Armed(7, shots) + 7 /\ net_retry' = count
      BY <1>1, <1>3, <2>5, TimersMeasured DEF Cost
    <3>2. s0 = 1 /\ s1 = 0
      BY <1>3, <2>5
    <3> QED
      BY <1>2, <2>1, <2>3, <3>1, <3>2
  <2>6. CASE answer \notin {"network", "unlocked"}
    <3>1. Cost(answer) \in Nat /\ Cost(answer) > 0
      BY <1>3, <2>6, CostIsNat
    <3>2. Armed(7, timers') = Armed(7, shots) + 7
      BY <1>3, <2>6, TimersMeasured
    <3>3. left(net_retry') < left(count) /\ left(net_retry') \in Nat
      BY <1>1, <1>3, <3>1
    <3> QED
      BY <1>2, <2>1, <2>2, <2>3, <3>2, <3>3
  <2> QED
    BY <2>4, <2>5, <2>6
<1>4. CASE net_retry' = count /\ timers' = shots /\ sim' = sim
  <2>1. ChecksLeft(net_retry)' = ChecksLeft(count) /\ ChecksLeft(count) \in Nat
    BY <1>1, <1>2, <1>4 DEF ChecksLeft
  <2> QED
    BY <1>2, <1>4, <2>1
<1> QED
  BY <1>3, <1>4 DEF CheckNetwork

\* The budget, by its parts.
LEMMA BudgetSplit ==
    ASSUME TypeOK
    PROVE  /\ Budget = Weighed(Detection, DetectionsLeft, Tries)
           /\ Tries = ChecksLeft(net_retry) + 5 * DialsLeft
                      + scripts["pppd_cleanup"] + Stirring(7)
           /\ DetectionsLeft = 2 * scripts["usb_module"] + Found(mail)
           /\ DetectionsLeft \in Nat /\ Tries \in Nat /\ Budget \in Nat
           /\ scripts["usb_module"] \in Nat /\ scripts["pppd_cleanup"] \in Nat
           /\ Found(mail) \in Nat /\ Stirring(7) \in Nat
<1>1. scripts["usb_module"] \in Nat /\ scripts["pppd_cleanup"] \in Nat
  BY DEF TypeOK, Scripts
<1>2. /\ Found(mail) \in Nat /\ Told(mail) \in Nat
      /\ Armed(7, timers) \in Nat /\ Line(pppd) \in Nat
  BY PartsAreNat DEF TypeOK
<1>3. Stirring(7) \in Nat
  BY <1>2 DEF Stirring
<1>4. Tries = ChecksLeft(net_retry) + 5 * DialsLeft + scripts["pppd_cleanup"] + Stirring(7)
  BY <1>1, <1>2, TriesBounded, ConstantsAssumption DEF Tries, Stirring
<1>5. Tries \in Nat
  BY <1>1, <1>3, <1>4, TriesBounded, ConstantsAssumption
<1>6. DetectionsLeft \in Nat
  BY <1>1, <1>2 DEF DetectionsLeft
<1>7. Budget \in Nat
  BY <1>5, <1>6, TriesBounded DEF Budget
<1> QED
  BY <1>1, <1>2, <1>3, <1>4, <1>5, <1>6, <1>7 DEF Budget, Weighed, DetectionsLeft

\* Every step of the manager, the scripts and pppd but a new address uses up
\* some of the budget, with the modem powered or not: the checks of the network
\* by the cost of the answers, the dialling by the count of the retries, and a
\* detection, which gives all of them back, by the script or report it came
\* from.  The budget is a number.  So no mixture of the loops goes on for ever, which is the part of
\* RetriesEnd that does not rest on fairness.
THEOREM RetriesRunDownAlways == Spec => [](Budget \in Nat) /\ RetriesRunDown
<1>1. ASSUME TypeOK, TypeOK', ManagerSteps \/ OutsideSteps, ~OnIpUp
      PROVE  Budget' < Budget
  <2>a. /\ Budget = Weighed(Detection, DetectionsLeft, Tries)
        /\ Tries = ChecksLeft(net_retry) + 5 * DialsLeft
                   + scripts["pppd_cleanup"] + Stirring(7)
        /\ DetectionsLeft = 2 * scripts["usb_module"] + Found(mail)
        /\ DetectionsLeft \in Nat /\ Tries \in Nat
        /\ scripts["usb_module"] \in Nat /\ scripts["pppd_cleanup"] \in Nat
        /\ Found(mail) \in Nat /\ Stirring(7) \in Nat
    BY <1>1, BudgetSplit
  <2>b. (TypeOK => /\ Budget = Weighed(Detection, DetectionsLeft, Tries)
                   /\ Tries = ChecksLeft(net_retry) + 5 * DialsLeft
                              + scripts["pppd_cleanup"] + Stirring(7)
                   /\ DetectionsLeft = 2 * scripts["usb_module"] + Found(mail)
                   /\ DetectionsLeft \in Nat /\ Tries \in Nat
                   /\ scripts["usb_module"] \in Nat /\ scripts["pppd_cleanup"] \in Nat
                   /\ Found(mail) \in Nat /\ Stirring(7) \in Nat
                   /\ ChecksLeft(net_retry) \in 0..(NetLimit + 2)
                   /\ DialsLeft \in 0..(PppdLimit + 1))'
    BY BudgetSplit, TriesBounded, PTL
  <2>c. Detection \in Nat /\ NetLimit \in Nat /\ PppdLimit \in Nat
    BY <1>1, TriesBounded, ConstantsAssumption
  <2>d. ChecksLeft(net_retry) \in 0..(NetLimit + 2) /\ DialsLeft \in 0..(PppdLimit + 1)
    BY <1>1, TriesBounded
  <2> SUFFICES \/ DetectionsLeft' <= DetectionsLeft /\ Tries' < Tries
               \/ DetectionsLeft' < DetectionsLeft /\ Tries' < Tries + Detection
    <3>1. Detection' = Detection
      BY DEF Detection
    <3>2. Budget' = Weighed(Detection, DetectionsLeft', Tries')
      BY <1>1, <2>b, <3>1
    <3> QED
      BY <1>1, <2>a, <2>b, <2>c, <3>2, BudgetLess
  <2>1. CASE OnNetworkFound \/ ConnectImpl \/ PppdUp \/ PppdExits
    <3>1. /\ Stirring(7)' < Stirring(7)
          /\ Found(mail') = Found(mail) /\ scripts' = scripts
      BY <1>1, <2>1, StirringSteps
    <3>2. ChecksLeft(net_retry)' = ChecksLeft(net_retry) /\ DialsLeft' = DialsLeft
      BY <2>1 DEF OnNetworkFound, ConnectImpl, PppdUp, PppdExits, ChecksLeft, DialsLeft
    <3>3. DetectionsLeft' = DetectionsLeft
      BY <1>1, <2>a, <2>b, <3>1
    <3>4. Tries' < Tries
      BY <1>1, <2>a, <2>b, <2>c, <2>d, <3>1, <3>2
    <3> QED
      BY <2>a, <3>3, <3>4
  <2>2. CASE OnModemNotFound
    <3>1. /\ Stirring(7)' <= Stirring(7)
          /\ Found(mail') = Found(mail) - 1
          /\ scripts'["usb_module"] <= scripts["usb_module"]
          /\ scripts'["pppd_cleanup"] = scripts["pppd_cleanup"]
      BY <1>1, <2>2, StirringSteps
    <3>2. DetectionsLeft' < DetectionsLeft
      BY <1>1, <2>a, <2>b, <3>1
    <3>3. Tries' < Tries + Detection
      BY <1>1, <2>a, <2>b, <2>c, <2>d, <3>1 DEF Detection
    <3> QED
      BY <3>2, <3>3
  <2>3. CASE UsbModuleReports
    <3>1. /\ Stirring(7)' = Stirring(7)
          /\ Found(mail') = Found(mail) + 1
          /\ scripts'["usb_module"] = scripts["usb_module"] - 1
          /\ scripts'["pppd_cleanup"] = scripts["pppd_cleanup"]
      BY <1>1, <2>3, StirringSteps
    <3>2. ChecksLeft(net_retry)' = ChecksLeft(net_retry) /\ DialsLeft' = DialsLeft
      BY <2>3 DEF UsbModuleReports, ChecksLeft, DialsLeft
    <3>3. DetectionsLeft' < DetectionsLeft
      BY <1>1, <2>a, <2>b, <3>1
    <3>4. Tries' = Tries
      BY <1>1, <2>a, <2>b, <3>1, <3>2
    <3>5. Detection > 0
      BY <2>c DEF Detection
    <3> QED
      BY <2>a, <2>c, <3>3, <3>4, <3>5
  <2>4. CASE DetachedCleanup
    <3>1. /\ Stirring(7)' <= Stirring(7)
          /\ Found(mail') = Found(mail)
          /\ scripts'["usb_module"] <= scripts["usb_module"]
          /\ scripts'["pppd_cleanup"] = scripts["pppd_cleanup"] - 1
      BY <1>1, <2>4, StirringSteps
    <3>2. ChecksLeft(net_retry)' = ChecksLeft(net_retry) /\ DialsLeft' = DialsLeft
      BY <2>4 DEF DetachedCleanup, ChecksLeft, DialsLeft
    <3>3. DetectionsLeft' <= DetectionsLeft
      BY <1>1, <2>a, <2>b, <3>1
    <3>4. Tries' < Tries
      BY <1>1, <2>a, <2>b, <2>c, <2>d, <3>1, <3>2
    <3> QED
      BY <3>3, <3>4
  <2>5. CASE OnPppdExit
    <3>1. /\ Found(mail') = Found(mail) /\ scripts' = scripts
          /\ \/ pppd_retry' = pppd_retry + 1 /\ Stirring(7)' = Stirring(7) + 4
             \/ pppd_retry' = pppd_retry /\ Stirring(7)' = Stirring(7) - 1
      BY <1>1, <2>5, ExitMeasured
    <3>2. ChecksLeft(net_retry)' = ChecksLeft(net_retry)
      BY <2>5 DEF OnPppdExit, ChecksLeft
    <3>3. \/ DialsLeft' = DialsLeft - 1 /\ Stirring(7)' = Stirring(7) + 4
          \/ DialsLeft' = DialsLeft /\ Stirring(7)' = Stirring(7) - 1
      <4>1. pppd_retry \in Nat
        BY <1>1, <2>c DEF TypeOK
      <4>2. DialsLeft = PppdLimit + 1 - pppd_retry /\ DialsLeft' = PppdLimit + 1 - pppd_retry'
        BY DEF DialsLeft
      <4> QED
        BY <2>c, <3>1, <4>1, <4>2
    <3>4. DetectionsLeft' = DetectionsLeft
      BY <1>1, <2>a, <2>b, <3>1
    <3>5. Tries' < Tries
      BY <1>1, <2>a, <2>b, <2>c, <2>d, <3>1, <3>2, <3>3
    <3> QED
      BY <2>a, <3>4, <3>5
  <2>6. CASE CheckNetworkTimeout
    <3>1. /\ Drop(timers, "checkNetwork") \in [Shots -> Nat]
          /\ Armed(7, Drop(timers, "checkNetwork")) = Armed(7, timers) - 7
      BY <1>1, <2>6, BagType, TimersMeasured DEF CheckNetworkTimeout, TypeOK, Shots
    <3>2. /\ scripts' = scripts /\ mail' = mail /\ pppd' = pppd
          /\ pppd_retry' = pppd_retry
      BY <2>6 DEF CheckNetworkTimeout
    <3>3. Armed(7, timers') + ChecksLeft(net_retry)'
            < Armed(7, timers) - 7 + 7 + ChecksLeft(net_retry)
      BY <1>1, <2>6, <3>1, CheckMeasured DEF CheckNetworkTimeout, TypeOK
    <3>4. /\ Told(mail) \in Nat /\ Line(pppd) \in Nat
          /\ Armed(7, timers) \in Nat /\ Armed(7, timers') \in Nat
      BY <1>1, PartsAreNat DEF TypeOK
    <3>5. Stirring(7)' + ChecksLeft(net_retry)' < Stirring(7) + ChecksLeft(net_retry)
      BY <1>1, <2>b, <2>d, <3>2, <3>3, <3>4 DEF Stirring
    <3>6. DialsLeft' = DialsLeft
      BY <3>2 DEF DialsLeft
    <3>7. DetectionsLeft' = DetectionsLeft
      BY <1>1, <2>a, <2>b, <3>2
    <3>8. Tries' < Tries
      BY <1>1, <2>a, <2>b, <2>c, <2>d, <3>2, <3>5, <3>6
    <3> QED
      BY <2>a, <3>7, <3>8
  <2>7. CASE OnModemDetected
    <3>1. /\ PppdCleanup(Drop(mail, "device-detected"))
          /\ scripts' = [scripts EXCEPT !["usb_module"] = 0]
          /\ CheckNetwork(0, timers, "CHECKING_NETWORK")
          /\ mail["device-detected"] > 0
      BY <2>7 DEF OnModemDetected
    <3>2. /\ Drop(mail, "device-detected") \in [Messages -> Nat]
          /\ Told(Drop(mail, "device-detected")) = Told(mail)
          /\ Found(Drop(mail, "device-detected")) = Found(mail) - 1
      BY <1>1, <3>1, BagType, MailMeasured DEF TypeOK, Messages
    <3>3. /\ Found(mail') = Found(mail) - 1
          /\ Told(mail') + Line(pppd') <= Told(mail) + Line(pppd)
      BY <1>1, <3>1, <3>2, CleanupMeasured
    <3>4. scripts'["usb_module"] = 0 /\ scripts'["pppd_cleanup"] = scripts["pppd_cleanup"]
      BY <1>1, <3>1 DEF TypeOK, Scripts
    <3>5. Armed(7, timers') + ChecksLeft(net_retry)' < Armed(7, timers) + 7 + ChecksLeft(0)
      BY <1>1, <3>1, CheckMeasured, SmallCounts DEF TypeOK
    <3>6. ChecksLeft(0) \in 0..(NetLimit + 2)
      BY <2>c DEF ChecksLeft
    <3>7. /\ Told(mail) \in Nat /\ Line(pppd) \in Nat /\ Armed(7, timers) \in Nat
          /\ Told(mail') \in Nat /\ Line(pppd') \in Nat /\ Armed(7, timers') \in Nat
      BY <1>1, PartsAreNat DEF TypeOK
    <3>8. Stirring(7)' + ChecksLeft(net_retry)' < Stirring(7) + 7 + NetLimit + 2
      BY <1>1, <2>b, <2>c, <3>3, <3>5, <3>6, <3>7 DEF Stirring
    <3>9. DetectionsLeft' < DetectionsLeft
      BY <1>1, <2>a, <2>b, <3>3, <3>4
    <3>10. Tries' < Tries + Detection
      BY <1>1, <2>a, <2>b, <2>c, <2>d, <3>4, <3>8 DEF Detection
    <3> QED
      BY <3>9, <3>10
  <2> QED
    BY <1>1, <2>1, <2>2, <2>3, <2>4, <2>5, <2>6, <2>7 DEF ManagerSteps, OutsideSteps
<1>2. TypeOK /\ TypeOK' /\ [Next]_vars =>
        [ManagerSteps \/ OutsideSteps => OnIpUp \/ Budget' < Budget]_vars
  BY <1>1
<1>3. TypeOK => Budget \in Nat
  BY BudgetSplit
<1> QED
  BY <1>2, <1>3, TypeCorrect, PTL DEF Spec, RetriesRunDown
=============================================================================
