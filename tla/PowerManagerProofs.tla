-------------------------- MODULE PowerManagerProofs --------------------------
(***************************************************************************)
(* Theorems about PowerManager, for all clients, rows of the dialog,       *)
(* periods of the EPIT timer and depths of idle() within itself.           *)
(***************************************************************************)
EXTENDS PowerManager, FiniteSetTheorems, SequenceTheorems, TLAPS

-----------------------------------------------------------------------------
(* References.                                                             *)

\* No more is counted than was asked for and not taken back.
CountBacked ==
    /\ count \in Nat
    /\ requests \subseteq Requests
    /\ count <= Cardinality(requests)

\* The number of requests is a number.
LEMMA RequestsCounted ==
    ASSUME NEW rs, rs \subseteq Requests
    PROVE  IsFiniteSet(rs) /\ Cardinality(rs) \in Nat
<1>1. IsFiniteSet(1..MaxRequests)
  BY BoundsAssumption, FS_Interval
<1>2. IsFiniteSet(Requests)
  BY <1>1, ClientsAssumption, FS_Product DEF Requests
<1> QED
  BY <1>2, FS_Subset, FS_CardinalityType

\* A step that takes a reference, the client's first or another, keeps the count
\* backed, and is a step of the abstract specification.
LEMMA TakeKept ==
    ASSUME CountBacked, NEW c \in Clients, Take(c)
    PROVE  CountBacked' /\ IR!Take(c)
<1>1. IsFiniteSet(requests) /\ Cardinality(requests) \in Nat
  BY RequestsCounted DEF CountBacked
<1>2. PICK n \in 1..MaxRequests :
        /\ \A m \in 1..MaxRequests : <<c, m>> \in requests <=> m < n
        /\ requests' = requests \cup {<<c, n>>}
  BY DEF Take
<1>3. <<c, n>> \notin requests /\ <<c, n>> \in Requests
  <2>1. ~(n < n)
    OBVIOUS
  <2> QED
    BY <2>1, <1>2 DEF Requests
<1>4. Cardinality(requests') = Cardinality(requests) + 1
  BY <1>1, <1>2, <1>3, FS_AddElement
<1>5. count' = count + 1
  BY DEF Take
<1>6. CountBacked'
  BY <1>1, <1>2, <1>3, <1>4, <1>5 DEF CountBacked
<1>7. <<c, n>> \in requests' \ requests /\ <<c, n>>[1] = c
  BY <1>2, <1>3
<1>8. (count > 0)' = TRUE
  BY <1>5 DEF CountBacked
<1> QED
  BY <1>2, <1>6, <1>7, <1>8 DEF IR!Take

\* So does a step that takes a request back, or gives what was never asked for.
LEMMA GiveKept ==
    ASSUME CountBacked, NEW c \in Clients, Give(c)
    PROVE  CountBacked' /\ IR!Give(c)
<1>1. IsFiniteSet(requests) /\ Cardinality(requests) \in Nat
  BY RequestsCounted DEF CountBacked
<1>2. count' = Clipped(count - 1)
  BY DEF Give
<1>3. \/ Of(c) = {} /\ requests' = requests
      \/ \E r \in Of(c) : requests' = requests \ {r}
  BY DEF Give
<1>4. Of(c) \subseteq requests /\ Of(c) = IR!Of(c)
  BY DEF Of, IR!Of
<1>5. requests' \subseteq requests /\ requests' \subseteq Requests
  BY <1>3, <1>4 DEF CountBacked
<1>6. Cardinality(requests') \in Nat
  BY <1>5, RequestsCounted
<1>7. Cardinality(requests') >= Cardinality(requests) - 1
  <2>1. CASE requests' = requests
    BY <1>1, <2>1
  <2>2. ASSUME NEW r \in requests, requests' = requests \ {r}
        PROVE  Cardinality(requests') >= Cardinality(requests) - 1
    <3>1. Cardinality(requests \ {r}) = Cardinality(requests) - 1
      BY <1>1, FS_RemoveElement
    <3> QED
      BY <1>1, <2>2, <3>1
  <2> QED
    BY <1>3, <1>4, <2>1, <2>2
<1>8. CountBacked'
  BY <1>1, <1>2, <1>5, <1>6, <1>7 DEF CountBacked, Clipped
<1>9. requests' = {} => count' = 0
  BY <1>8, FS_EmptySet DEF CountBacked
<1>10. (count > 0)' => count > 0
  BY <1>2 DEF CountBacked, Clipped
<1>11. requests' = {} => ~(count > 0)'
  BY <1>9
<1> QED
  BY <1>3, <1>4, <1>8, <1>10, <1>11 DEF IR!Give

\* Dropping requests, of some clients or of all.
LEMMA ResetKept ==
    ASSUME CountBacked, count' = 0, requests' \in SUBSET requests
    PROVE  CountBacked' /\ IR!Lose
<1>1. requests' \subseteq Requests
  BY DEF CountBacked
<1>2. Cardinality(requests') \in Nat
  BY <1>1, RequestsCounted
<1> QED
  BY <1>1, <1>2 DEF CountBacked, IR!Lose

\* A step of the device keeps the count backed and is a step of the abstract
\* specification, or changes nothing there.
LEMMA StepKept ==
    ASSUME CountBacked, [Next]_vars
    PROVE  CountBacked' /\ [IR!Next]_(IR!vars)
<1>1. ASSUME NEW c \in Clients, Take(c) PROVE CountBacked' /\ [IR!Next]_(IR!vars)
  BY <1>1, TakeKept DEF IR!Next
<1>2. ASSUME NEW c \in Clients, Give(c) PROVE CountBacked' /\ [IR!Next]_(IR!vars)
  BY <1>2, GiveKept DEF IR!Next
<1>3. CASE ResetIdle
  <2>1. count' = 0 /\ requests' \in SUBSET requests
    BY <1>3 DEF ResetIdle
  <2> QED
    BY <2>1, ResetKept DEF IR!Next
<1>4. CASE Restart
  <2>1. count' = 0 /\ requests' \in SUBSET requests
    BY <1>4 DEF Restart
  <2> QED
    BY <2>1, ResetKept DEF IR!Next
<1>5. CASE UNCHANGED references
  BY <1>5 DEF references, CountBacked, IR!vars
<1>6. CASE ~UNCHANGED references
  <2>1. \/ \E c \in Clients : Take(c) \/ Give(c)
        \/ ResetIdle \/ Restart
    BY <1>6 DEF Next, Disturb, Saver, Loop, vars, references, OpenDialog, SetNext,
         Choose, Busy, KeyWakes, BatteryLow, UserKey, ScreenSaverActivate,
         MoveCable, ShortIdle, StayOnCable, StayAwake, Idle, LongIdle, EpitWakes,
         RestsAgain, IdleEnds, USBCableChanged
  <2> QED
    BY <2>1, <1>1, <1>2, <1>3, <1>4
<1> QED
  BY <1>5, <1>6

\* The count implements IdleReferences for any clients and any number of calls:
\* whoever asks is heard, also who asks again, and the device is kept awake only
\* while a request was not taken back.
THEOREM ReferencesAreKept == Spec => ReferencesKept
<1>1. Init => CountBacked /\ IR!Init
  BY FS_EmptySet DEF Init, CountBacked, IR!Init
<1>2. CountBacked /\ [Next]_vars => CountBacked' /\ [IR!Next]_(IR!vars)
  BY StepKept
<1> QED
  BY <1>1, <1>2, PTL DEF Spec, ReferencesKept, IR!Spec

-----------------------------------------------------------------------------
(* The policy.                                                             *)

\* What the dialog may still have to call: at most two calls, the second one
\* with an interval, and an interval is taken away only from the type it is of.
CallsFit(calls, kind) ==
    /\ calls \in Seq(PolicyCalls)
    /\ Len(calls) \in {1, 2}
    /\ calls[1].minutes = 0 => kind \in {calls[1].what, "none"}
    /\ Len(calls) = 2 => calls[2].minutes > 0

\* One call or none.
LEMMA CallType ==
    ASSUME NEW what \in {DEEP_SLEEP, SHUTDOWN}, NEW new \in Nat, NEW old \in Nat
    PROVE  /\ Call(what, new, old) \in Seq(PolicyCalls)
           /\ \/ new = old /\ Call(what, new, old) = <<>>
              \/ /\ new # old
                 /\ Len(Call(what, new, old)) = 1
                 /\ Call(what, new, old)[1] = [what |-> what, minutes |-> new]
<1> DEFINE call == [what |-> what, minutes |-> new]
<1>1. call \in PolicyCalls
  BY DEF PolicyCalls
<1> HIDE DEF call
<1>2. <<call>> \in Seq(PolicyCalls) /\ Len(<<call>>) = 1 /\ <<call>>[1] = call
  BY <1>1
<1>3. <<>> \in Seq(PolicyCalls)
  BY EmptySeq
<1>4. Call(what, new, old) = IF new = old THEN <<>> ELSE <<call>>
  BY DEF Call, call
<1> QED
  BY <1>2, <1>3, <1>4 DEF call

\* What a chosen row has the dialog call fits what it read.
LEMMA ChosenCallsFit ==
    ASSUME NEW c \in Policies, type \in {DEEP_SLEEP, SHUTDOWN, "none"},
           interval \in Nat, SlotMatchesType, Calls(c, Reported) # <<>>
    PROVE  CallsFit(Calls(c, Reported), type)
<1> DEFINE standby  == Call(DEEP_SLEEP, c.standby, Reported.standby)
           shutdown == Call(SHUTDOWN, c.shutdown, Reported.shutdown)
<1>0. DEEP_SLEEP \in {DEEP_SLEEP, SHUTDOWN} /\ SHUTDOWN \in {DEEP_SLEEP, SHUTDOWN}
  OBVIOUS
<1>1. c.standby \in Nat /\ c.shutdown \in Nat
  BY DEF Policies
<1>2. /\ Reported.standby \in Nat /\ Reported.shutdown \in Nat
      /\ Reported.standby # 0 <=> type = DEEP_SLEEP
      /\ Reported.shutdown # 0 <=> type = SHUTDOWN
  BY DEF Reported, SlotMatchesType, DEEP_SLEEP, SHUTDOWN
<1>3. /\ standby \in Seq(PolicyCalls)
      /\ \/ c.standby = Reported.standby /\ standby = <<>>
         \/ /\ c.standby # Reported.standby /\ Len(standby) = 1
            /\ standby[1] = [what |-> DEEP_SLEEP, minutes |-> c.standby]
  <2>1. PICK new \in Nat, old \in Nat : new = c.standby /\ old = Reported.standby
    BY <1>1, <1>2
  <2>2. standby = Call(DEEP_SLEEP, new, old)
    BY <2>1
  <2> HIDE DEF standby
  <2>3. /\ Call(DEEP_SLEEP, new, old) \in Seq(PolicyCalls)
        /\ \/ new = old /\ Call(DEEP_SLEEP, new, old) = <<>>
           \/ /\ new # old /\ Len(Call(DEEP_SLEEP, new, old)) = 1
              /\ Call(DEEP_SLEEP, new, old)[1] = [what |-> DEEP_SLEEP, minutes |-> new]
    BY <1>0, CallType
  <2> QED
    BY <2>1, <2>2, <2>3
<1>4. /\ shutdown \in Seq(PolicyCalls)
      /\ \/ c.shutdown = Reported.shutdown /\ shutdown = <<>>
         \/ /\ c.shutdown # Reported.shutdown /\ Len(shutdown) = 1
            /\ shutdown[1] = [what |-> SHUTDOWN, minutes |-> c.shutdown]
  <2>1. PICK new \in Nat, old \in Nat : new = c.shutdown /\ old = Reported.shutdown
    BY <1>1, <1>2
  <2>2. shutdown = Call(SHUTDOWN, new, old)
    BY <2>1
  <2> HIDE DEF shutdown
  <2>3. /\ Call(SHUTDOWN, new, old) \in Seq(PolicyCalls)
        /\ \/ new = old /\ Call(SHUTDOWN, new, old) = <<>>
           \/ /\ new # old /\ Len(Call(SHUTDOWN, new, old)) = 1
              /\ Call(SHUTDOWN, new, old)[1] = [what |-> SHUTDOWN, minutes |-> new]
    BY <1>0, CallType
  <2> QED
    BY <2>1, <2>2, <2>3
<1>5. Calls(c, Reported) = IF c.standby = 0 THEN standby \o shutdown
                           ELSE shutdown \o standby
  BY DEF Calls, CallOrder
<1>6. type = DEEP_SLEEP => type # SHUTDOWN
  BY DEF DEEP_SLEEP, SHUTDOWN
<1> HIDE DEF standby, shutdown
<1>7. CASE c.standby = 0
  <2>1. /\ Calls(c, Reported) \in Seq(PolicyCalls)
        /\ Len(Calls(c, Reported)) = Len(standby) + Len(shutdown)
        /\ \A i \in 1..Len(standby) + Len(shutdown) : Calls(c, Reported)[i] =
             IF i <= Len(standby) THEN standby[i] ELSE shutdown[i - Len(standby)]
    BY <1>3, <1>4, <1>5, <1>7, ConcatProperties
  <2>2. CASE standby = <<>>
    <3>1. Calls(c, Reported) = shutdown
      BY <2>2, <1>4, <1>5, <1>7, ConcatEmptySeq
    <3> QED
      BY <3>1, <1>1, <1>2, <1>4 DEF CallsFit
  <2>3. CASE shutdown = <<>>
    <3>1. Calls(c, Reported) = standby
      BY <2>3, <1>3, <1>5, <1>7, ConcatEmptySeq
    <3> QED
      BY <3>1, <1>1, <1>2, <1>3 DEF CallsFit
  <2>4. CASE standby # <<>> /\ shutdown # <<>>
    <3>1. Len(standby) = 1 /\ Len(shutdown) = 1
      BY <2>4, <1>3, <1>4
    <3>2. Calls(c, Reported)[1] = standby[1] /\ Calls(c, Reported)[2] = shutdown[1]
          /\ Len(Calls(c, Reported)) = 2
      BY <2>1, <3>1
    <3>3. type = DEEP_SLEEP /\ c.shutdown > 0
      BY <2>4, <1>1, <1>2, <1>3, <1>4, <1>6, <1>7
    <3> QED
      BY <2>1, <2>4, <3>2, <3>3, <1>3, <1>4 DEF CallsFit
  <2> QED
    BY <2>2, <2>3, <2>4
<1>8. CASE c.standby # 0
  <2>1. /\ Calls(c, Reported) \in Seq(PolicyCalls)
        /\ Len(Calls(c, Reported)) = Len(shutdown) + Len(standby)
        /\ \A i \in 1..Len(shutdown) + Len(standby) : Calls(c, Reported)[i] =
             IF i <= Len(shutdown) THEN shutdown[i] ELSE standby[i - Len(shutdown)]
    BY <1>3, <1>4, <1>5, <1>8, ConcatProperties
  <2>2. CASE shutdown = <<>>
    <3>1. Calls(c, Reported) = standby
      BY <2>2, <1>3, <1>5, <1>8, ConcatEmptySeq
    <3> QED
      BY <3>1, <1>1, <1>2, <1>3, <1>8 DEF CallsFit
  <2>3. CASE standby = <<>>
    <3>1. Calls(c, Reported) = shutdown
      BY <2>3, <1>4, <1>5, <1>8, ConcatEmptySeq
    <3> QED
      BY <3>1, <1>1, <1>2, <1>4 DEF CallsFit
  <2>4. CASE standby # <<>> /\ shutdown # <<>>
    <3>1. Len(standby) = 1 /\ Len(shutdown) = 1
      BY <2>4, <1>3, <1>4
    <3>2. Calls(c, Reported)[1] = shutdown[1] /\ Calls(c, Reported)[2] = standby[1]
          /\ Len(Calls(c, Reported)) = 2
      BY <2>1, <3>1
    <3> QED
      BY <2>1, <2>4, <3>2, <1>1, <1>2, <1>3, <1>4, <1>8 DEF CallsFit
  <2> QED
    BY <2>2, <2>3, <2>4
<1> QED
  BY <1>7, <1>8

\* The dialog knows the policy when it has nothing to call, and what it has to
\* call fits the policy.
PolicyInv ==
    /\ TypeOK
    /\ SlotMatchesType
    /\ dialog.open /\ dialog.todo = <<>> => dialog.read = Reported
    /\ dialog.todo # <<>> => dialog.open /\ CallsFit(dialog.todo, type)

\* A configured policy has the types of the slot, and fits it.
LEMMA ConfiguredFits ==
    ASSUME NEW c \in Policies
    PROVE  /\ IntervalOf(c) \in Nat
           /\ TypeOf(c) \in {DEEP_SLEEP, SHUTDOWN, "none"}
           /\ TypeOf(c) = "none" <=> IntervalOf(c) = 0
  BY DEF IntervalOf, TypeOf, Policies, DEEP_SLEEP, SHUTDOWN

\* What is reported is a policy.
LEMMA ReportedType ==
    ASSUME interval \in Nat
    PROVE  Reported \in Policies
  BY DEF Reported, Policies

\* The closed dialog has its type.
LEMMA ClosedType ==
    /\ ~Closed.open /\ Closed.todo = <<>>
    /\ Closed \in [open : BOOLEAN, read : Policies, pick : Policies,
                   todo : Seq(PolicyCalls)]
  BY ChoicesAssumption, EmptySeq DEF Closed

LEMMA InitInv == Init => PolicyInv
<1> SUFFICES ASSUME Init PROVE PolicyInv
  OBVIOUS
<1>1. Factory \in Policies
  BY ChoicesAssumption
<1>2. /\ interval \in Nat /\ type \in {DEEP_SLEEP, SHUTDOWN, "none"}
      /\ SlotMatchesType
  BY <1>1, ConfiguredFits DEF Init, SlotMatchesType
<1>3. /\ saver \in [level : 0..2, armed : BOOLEAN]
      /\ told \in [what : {DEEP_SLEEP, SHUTDOWN, "nothing"}, early : BOOLEAN]
  BY DEF Init, Reset, Silent
<1>4. loops \in Seq(Activations)
  BY EmptySeq DEF Init
<1>5. TypeOK
  BY <1>1, <1>2, <1>3, <1>4, ClosedType DEF Init, TypeOK
<1> QED
  BY <1>2, <1>5, ClosedType DEF Init, PolicyInv

\* A call that fits leaves an interval and a type that match.
LEMMA CallKeepsSlot ==
    ASSUME TypeOK, SlotMatchesType, NEW call \in PolicyCalls,
           call.minutes = 0 => type \in {call.what, "none"},
           SetInterval(call.what, call.minutes)
    PROVE  /\ conf' \in Policies /\ interval' \in Nat
           /\ type' \in {DEEP_SLEEP, SHUTDOWN, "none"}
           /\ saver' \in [level : 0..2, armed : BOOLEAN]
           /\ SlotMatchesType'
<1>1. call.what \in {DEEP_SLEEP, SHUTDOWN} /\ call.minutes \in Nat
  BY DEF PolicyCalls
<1>2. conf' \in Policies
  BY <1>1 DEF SetInterval, TypeOK, Policies
<1>3. interval' = call.minutes /\ type' = NewType(call.what, call.minutes)
  BY DEF SetInterval
<1>4. saver' \in [level : 0..2, armed : BOOLEAN]
  BY DEF SetInterval, Reset
<1>5. type' \in {DEEP_SLEEP, SHUTDOWN, "none"}
  BY <1>1, <1>3 DEF NewType, TypeOK
<1>6. SlotMatchesType'
  <2>1. CASE call.minutes > 0
    <3>1. type' = call.what /\ interval' # 0
      BY <2>1, <1>1, <1>3 DEF NewType
    <3> QED
      BY <3>1, <1>1 DEF SlotMatchesType, DEEP_SLEEP, SHUTDOWN
  <2>2. CASE call.minutes = 0
    <3>1. type' = "none" /\ interval' = 0
      BY <2>2, <1>1, <1>3 DEF NewType
    <3> QED
      BY <3>1 DEF SlotMatchesType
  <2> QED
    BY <2>1, <2>2, <1>1
<1> QED
  BY <1>1, <1>2, <1>3, <1>4, <1>5, <1>6

\* The dialog's own steps.
LEMMA DialogKeepsInv ==
    ASSUME PolicyInv,
           OpenDialog \/ (\E c \in Choices : Choose(c)) \/ SetNext
    PROVE  PolicyInv'
<1> USE DEF PolicyInv
<1>1. CASE OpenDialog
  <2>1. dialog' = [Closed EXCEPT !.open = TRUE, !.read = Reported]
    BY <1>1 DEF OpenDialog
  <2>2. Reported \in Policies
    BY ReportedType DEF TypeOK
  <2>3. /\ dialog'.open /\ dialog'.todo = <<>> /\ dialog'.read = Reported
        /\ dialog' \in [open : BOOLEAN, read : Policies, pick : Policies,
                        todo : Seq(PolicyCalls)]
    BY <2>1, <2>2, ClosedType, ChoicesAssumption DEF Closed
  <2>4. TypeOK' /\ SlotMatchesType' /\ Reported' = Reported
    BY <1>1, <2>3 DEF OpenDialog, TypeOK, SlotMatchesType, references, cable, Reported
  <2> QED
    BY <2>3, <2>4
<1>2. ASSUME NEW c \in Choices, Choose(c) PROVE PolicyInv'
  <2>1. /\ c \in Policies /\ dialog.open /\ dialog.todo = <<>>
        /\ dialog.read = Reported
        /\ Reported' = Reported /\ SlotMatchesType'
    BY <1>2, ChoicesAssumption DEF Choose, Reported, SlotMatchesType, references
  <2>2. CASE Calls(c, dialog.read) = <<>>
    <3>1. dialog' = Closed /\ chosen' = c
      BY <1>2, <2>2 DEF Choose
    <3>2. TypeOK'
      BY <1>2, <2>1, <3>1, ClosedType DEF Choose, TypeOK, references, cable
    <3> QED
      BY <2>1, <3>1, <3>2, ClosedType
  <2>3. CASE Calls(c, dialog.read) # <<>>
    <3>1. CallsFit(Calls(c, dialog.read), type)
      BY <2>1, <2>3, ChosenCallsFit DEF TypeOK
    <3>2. dialog' = [dialog EXCEPT !.pick = c, !.todo = Calls(c, dialog.read)]
          /\ chosen' = chosen
      BY <1>2, <2>3 DEF Choose
    <3>3. /\ dialog'.open /\ dialog'.todo = Calls(c, dialog.read)
          /\ dialog' \in [open : BOOLEAN, read : Policies, pick : Policies,
                          todo : Seq(PolicyCalls)]
      BY <2>1, <3>1, <3>2 DEF TypeOK, CallsFit
    <3>4. TypeOK' /\ type' = type
      BY <1>2, <3>2, <3>3 DEF Choose, TypeOK, references, cable
    <3> QED
      BY <2>1, <2>3, <3>1, <3>3, <3>4
  <2> QED
    BY <2>2, <2>3
<1>3. CASE SetNext
  <2> DEFINE todo == dialog.todo
             call == Head(todo)
  <2>1. /\ todo \in Seq(PolicyCalls) /\ todo # <<>> /\ CallsFit(todo, type)
        /\ dialog.open
    BY <1>3 DEF SetNext, CallsFit
  <2>2. /\ call = todo[1] /\ call \in PolicyCalls
        /\ Tail(todo) \in Seq(PolicyCalls) /\ Len(Tail(todo)) = Len(todo) - 1
        /\ \A i \in 1..Len(Tail(todo)) : Tail(todo)[i] = todo[i + 1]
    BY <2>1, HeadTailProperties
  <2>3. SetInterval(call.what, call.minutes) /\ told' = Silent
    BY <1>3 DEF SetNext
  <2>4. call.minutes = 0 => type \in {call.what, "none"}
    BY <2>1, <2>2 DEF CallsFit
  <2> HIDE DEF todo, call
  <2>5. /\ conf' \in Policies /\ interval' \in Nat
        /\ type' \in {DEEP_SLEEP, SHUTDOWN, "none"}
        /\ saver' \in [level : 0..2, armed : BOOLEAN]
        /\ SlotMatchesType'
    BY <2>2, <2>3, <2>4, CallKeepsSlot
  <2>6. told' \in [what : {DEEP_SLEEP, SHUTDOWN, "nothing"}, early : BOOLEAN]
    BY <2>3 DEF Silent
  <2>7. CASE Len(todo) = 1
    <3>1. dialog' = Closed /\ chosen' = dialog.pick
      BY <1>3, <2>7 DEF SetNext, todo
    <3>2. TypeOK'
      BY <1>3, <2>5, <2>6, <3>1, ClosedType DEF SetNext, TypeOK, references, cable
    <3> QED
      BY <2>5, <3>1, <3>2, ClosedType
  <2>8. CASE Len(todo) = 2
    <3>1. dialog' = [dialog EXCEPT !.todo = Tail(todo)] /\ chosen' = chosen
      BY <1>3, <2>8 DEF SetNext, todo
    <3>2. /\ dialog'.open /\ dialog'.todo = Tail(todo)
          /\ dialog' \in [open : BOOLEAN, read : Policies, pick : Policies,
                          todo : Seq(PolicyCalls)]
      BY <2>1, <2>2, <3>1 DEF TypeOK
    <3>3. TypeOK'
      BY <1>3, <2>5, <2>6, <3>1, <3>2 DEF SetNext, TypeOK, references, cable
    <3>4. Len(Tail(todo)) = 1 /\ 1 \in 1..Len(Tail(todo))
      <4>1. Len(Tail(todo)) = Len(todo) - 1
        BY <2>2
      <4>2. Len(Tail(todo)) = 1
        BY <4>1, <2>8
      <4>3. 1 \in 1..1
        OBVIOUS
      <4> QED
        BY <4>2, <4>3, Zenon
    <3>5. Tail(todo)[1] = todo[2] /\ Tail(todo)[1] \in PolicyCalls
      BY <2>2, <3>4, ElementOfSeq
    <3>6. todo[2].minutes > 0 /\ todo[2].minutes # 0
      BY <2>1, <2>8, <3>5 DEF CallsFit, PolicyCalls
    <3>7. CallsFit(Tail(todo), type')
      BY <2>2, <3>4, <3>5, <3>6 DEF CallsFit
    <3>8. Tail(todo) # <<>>
      <4>1. Len(<<>>) # 1
        BY EmptySeq
      <4> QED
        BY <3>4, <4>1
    <3> QED
      BY <2>5, <3>2, <3>3, <3>7, <3>8
  <2> QED
    BY <2>1, <2>7, <2>8 DEF CallsFit
<1> QED
  BY <1>1, <1>2, <1>3

\* The device starts again: the slot is filled from the configuration.
LEMMA RestartKeepsInv ==
    ASSUME PolicyInv, Restart
    PROVE  PolicyInv'
<1> USE DEF PolicyInv
<1>1. conf \in Policies /\ conf' = conf /\ dialog' = Closed
  BY DEF Restart, TypeOK
<1>2. /\ interval' \in Nat /\ type' \in {DEEP_SLEEP, SHUTDOWN, "none"}
      /\ SlotMatchesType'
  BY <1>1, ConfiguredFits DEF Restart, SlotMatchesType
<1>3. chosen' \in Policies /\ torn' \in BOOLEAN
  BY DEF Restart, TypeOK
<1>4. /\ saver' \in [level : 0..2, armed : BOOLEAN]
      /\ told' \in [what : {DEEP_SLEEP, SHUTDOWN, "nothing"}, early : BOOLEAN]
  BY DEF Restart, Reset, Silent
<1>5. loops' \in Seq(Activations)
  BY EmptySeq DEF Restart
<1>6. TypeOK'
  BY <1>1, <1>2, <1>3, <1>4, <1>5, ClosedType DEF Restart, TypeOK
<1> QED
  BY <1>1, <1>2, <1>6, ClosedType

\* A step that leaves the policy alone keeps the invariant if it keeps the types
\* of the rest.
LEMMA SamePolicyKeepsInv ==
    ASSUME PolicyInv, UNCHANGED policy, TypeOK'
    PROVE  PolicyInv'
  BY DEF PolicyInv, policy, SlotMatchesType, Reported

\* The references.
LEMMA ReferencesKeepTypes ==
    ASSUME TypeOK, (\E c \in Clients : Take(c) \/ Give(c)) \/ ResetIdle
    PROVE  TypeOK' /\ UNCHANGED policy
<1>1. count' \in Nat /\ requests' \subseteq Requests
  <2>1. ASSUME NEW c \in Clients, Take(c)
        PROVE  count' \in Nat /\ requests' \subseteq Requests
    BY <2>1 DEF Take, TypeOK, Requests
  <2>2. ASSUME NEW c \in Clients, Give(c)
        PROVE  count' \in Nat /\ requests' \subseteq Requests
    BY <2>2 DEF Give, Clipped, TypeOK
  <2>3. CASE ResetIdle
    BY <2>3 DEF ResetIdle, TypeOK
  <2> QED
    BY <2>1, <2>2, <2>3
<1>2. UNCHANGED <<policy, saver, loops, cable, told>>
  BY DEF Take, Give, ResetIdle
<1> QED
  BY <1>1, <1>2 DEF TypeOK, policy, cable

\* The saver between its levels, and the cable.
LEMMA SaverKeepsTypes ==
    ASSUME TypeOK,
           \/ ShortIdle \/ StayOnCable \/ Busy \/ StayAwake \/ LongIdle
           \/ ScreenSaverActivate \/ MoveCable \/ USBCableChanged
    PROVE  TypeOK' /\ UNCHANGED policy
<1>1. Reset \in [level : 0..2, armed : BOOLEAN]
  BY DEF Reset
<1>2. \A l \in 0..1 : Advance(l) \in [level : 0..2, armed : BOOLEAN]
  BY DEF Advance, IDLE_INDEX
<1>3. [saver EXCEPT !.armed = FALSE] \in [level : 0..2, armed : BOOLEAN]
  BY DEF TypeOK
<1>4. CASE ShortIdle \/ StayOnCable \/ Busy \/ StayAwake
  BY <1>1, <1>2, <1>4 DEF ShortIdle, StayOnCable, Busy, StayAwake, IDLE_INDEX,
     TypeOK, policy, references, cable
<1>5. CASE LongIdle
  <2>1. told' \in [what : {DEEP_SLEEP, SHUTDOWN, "nothing"}, early : BOOLEAN]
    BY <1>5 DEF LongIdle, SaveLast, TypeOK
  <2> QED
    BY <1>3, <1>5, <2>1 DEF LongIdle, TypeOK, policy, references, cable
<1>6. CASE ScreenSaverActivate \/ MoveCable \/ USBCableChanged
  BY <1>1, <1>6 DEF ScreenSaverActivate, MoveCable, USBCableChanged, Unplugged,
     TypeOK, policy, references, cable
<1> QED
  BY <1>4, <1>5, <1>6

\* The activations of idle() and the key.
LEMMA LoopKeepsTypes ==
    ASSUME TypeOK,
           \/ Idle \/ KeyWakes \/ EpitWakes \/ RestsAgain \/ IdleEnds
           \/ BatteryLow \/ UserKey
    PROVE  TypeOK' /\ UNCHANGED policy
<1>1. /\ Advance(0) \in [level : 0..2, armed : BOOLEAN]
      /\ Reset \in [level : 0..2, armed : BOOLEAN]
      /\ [saver EXCEPT !.armed = FALSE] \in [level : 0..2, armed : BOOLEAN]
      /\ Silent \in [what : {DEEP_SLEEP, SHUTDOWN, "nothing"}, early : BOOLEAN]
  <2>1. Advance(0) \in [level : 0..2, armed : BOOLEAN]
    BY DEF Advance, IDLE_INDEX
  <2>2. Reset \in [level : 0..2, armed : BOOLEAN]
    BY DEF Reset
  <2>3. [saver EXCEPT !.armed = FALSE] \in [level : 0..2, armed : BOOLEAN]
    BY DEF TypeOK
  <2>4. Silent \in [what : {DEEP_SLEEP, SHUTDOWN, "nothing"}, early : BOOLEAN]
    BY DEF Silent
  <2> QED
    BY <2>1, <2>2, <2>3, <2>4
<1>2. loops \in Seq(Activations)
  BY DEF TypeOK
<1>3. \A ls \in Seq(Activations) : Touched(ls) \in Seq(Activations)
  <2> TAKE ls \in Seq(Activations)
  <2>1. Len(ls) \in Nat /\ DOMAIN ls = 1..Len(ls)
        /\ \A i \in 1..Len(ls) : ls[i] \in Activations
    BY LenProperties, ElementOfSeq
  <2>2. Touched(ls) \in [1..Len(ls) -> Activations]
    BY <2>1 DEF Touched, Activations
  <2> QED
    BY <2>1, <2>2
<1>4. loops # <<>> => /\ Head(loops) \in Activations /\ Head(loops) = loops[1]
                      /\ Tail(loops) \in Seq(Activations)
                      /\ 1 \in 1..Len(loops)
  BY <1>2, HeadTailProperties, EmptySeq
<1>5. CASE Idle
  <2> DEFINE new == [elapsed |-> 0, resting |-> TRUE, touched |-> FALSE]
  <2>1. new \in Activations
    BY DEF Activations
  <2>2. loops' = <<new>> \o loops
    BY <1>5 DEF Idle
  <2> HIDE DEF new
  <2>3. <<new>> \in Seq(Activations)
    BY <2>1
  <2>4. loops' \in Seq(Activations)
    BY <1>2, <2>2, <2>3, ConcatProperties
  <2> QED
    BY <1>1, <1>5, <2>4 DEF Idle, TypeOK, policy, references, cable
<1>6. CASE KeyWakes
  <2>1. loops' \in Seq(Activations)
    BY <1>3, <1>4, <1>6 DEF KeyWakes, Resting
  <2> QED
    BY <1>1, <1>6, <2>1 DEF KeyWakes, TypeOK, policy, references, cable
<1>7. CASE EpitWakes
  <2>1. loops # <<>> /\ loops' = [loops EXCEPT ![1] = [loops[1] EXCEPT !.resting = FALSE]]
    BY <1>7 DEF EpitWakes, Resting
  <2>2. [loops[1] EXCEPT !.resting = FALSE] \in Activations
    BY <1>4, <2>1 DEF Activations
  <2>3. loops' \in Seq(Activations)
    BY <1>2, <1>4, <2>1, <2>2, ExceptSeq
  <2> QED
    BY <1>7, <2>3 DEF EpitWakes, TypeOK, policy, references, cable
<1>8. CASE RestsAgain
  <2> DEFINE next == [loops[1] EXCEPT !.elapsed = Elapsed, !.resting = TRUE]
  <2>1. loops # <<>> /\ loops' = [loops EXCEPT ![1].elapsed = Elapsed, ![1].resting = TRUE]
    BY <1>8 DEF RestsAgain
  <2>2. Elapsed \in Nat
    BY <1>4, <2>1, BoundsAssumption DEF Elapsed, Activations
  <2>3. next \in Activations
    BY <1>4, <2>1, <2>2 DEF Activations
  <2>4. loops' = [loops EXCEPT ![1] = next]
    BY <1>2, <1>4, <2>1, LenProperties
  <2>5. 1 \in 1..Len(loops)
    BY <1>4, <2>1
  <2> HIDE DEF next
  <2>6. [loops EXCEPT ![1] = next] \in Seq(Activations)
    BY <1>2, <2>3, <2>5, ExceptSeq
  <2>7. loops' \in Seq(Activations)
    BY <2>4, <2>6
  <2> QED
    BY <1>8, <2>7 DEF RestsAgain, TypeOK, policy, references, cable
<1>9. CASE IdleEnds
  <2>1. loops' \in Seq(Activations)
    BY <1>4, <1>9 DEF IdleEnds
  <2>2. Head(loops).touched \in BOOLEAN
    BY <1>4, <1>9 DEF IdleEnds, Activations
  <2>3. told' \in [what : {DEEP_SLEEP, SHUTDOWN, "nothing"}, early : BOOLEAN]
    BY <1>9, <2>2 DEF IdleEnds, SaveLast, TypeOK
  <2> QED
    BY <1>1, <1>9, <2>1, <2>3 DEF IdleEnds, TypeOK, policy, references, cable
<1>10. CASE BatteryLow
  <2>1. loops' \in Seq(Activations)
    BY <1>4, <1>10 DEF BatteryLow
  <2> QED
    BY <1>1, <1>10, <2>1 DEF BatteryLow, TypeOK, policy, references, cable
<1>11. CASE UserKey
  <2>1. loops' \in Seq(Activations)
    BY <1>2, <1>3, <1>11 DEF UserKey
  <2> QED
    BY <1>1, <1>11, <2>1 DEF UserKey, TypeOK, policy, references, cable
<1> QED
  BY <1>5, <1>6, <1>7, <1>8, <1>9, <1>10, <1>11

LEMMA NextKeepsInv == PolicyInv /\ [Next]_vars => PolicyInv'
<1> SUFFICES ASSUME PolicyInv, [Next]_vars PROVE PolicyInv'
  OBVIOUS
<1>1. CASE OpenDialog \/ (\E c \in Choices : Choose(c)) \/ SetNext
  BY <1>1, DialogKeepsInv
<1>2. CASE Restart
  BY <1>2, RestartKeepsInv
<1>3. CASE (\E c \in Clients : Take(c) \/ Give(c)) \/ ResetIdle
  BY <1>3, ReferencesKeepTypes, SamePolicyKeepsInv DEF PolicyInv
<1>4. CASE \/ ShortIdle \/ StayOnCable \/ Busy \/ StayAwake \/ LongIdle
           \/ ScreenSaverActivate \/ MoveCable \/ USBCableChanged
  BY <1>4, SaverKeepsTypes, SamePolicyKeepsInv DEF PolicyInv
<1>5. CASE \/ Idle \/ KeyWakes \/ EpitWakes \/ RestsAgain \/ IdleEnds
           \/ BatteryLow \/ UserKey
  BY <1>5, LoopKeepsTypes, SamePolicyKeepsInv DEF PolicyInv
<1>6. CASE UNCHANGED vars
  <2>1. TypeOK' /\ UNCHANGED policy
    BY <1>6 DEF PolicyInv, vars, policy, TypeOK
  <2> QED
    BY <2>1, SamePolicyKeepsInv
<1> QED
  BY <1>1, <1>2, <1>3, <1>4, <1>5, <1>6 DEF Next, Disturb, Saver, Loop

LEMMA PolicyInvHolds == Spec => []PolicyInv
  BY InitInv, NextKeepsInv, PTL DEF Spec

\* Every variable keeps its shape.
THEOREM TypeCorrect == Spec => []TypeOK
<1>1. PolicyInv => TypeOK
  BY DEF PolicyInv
<1> QED
  BY <1>1, PolicyInvHolds, PTL

\* For any rows of the dialog, whatever interrupts its two calls: there is an
\* interval if and only if it is known what it is for.
THEOREM SlotAlwaysMatches == Spec => []SlotMatchesType
<1>1. PolicyInv => SlotMatchesType
  BY DEF PolicyInv
<1> QED
  BY <1>1, PolicyInvHolds, PTL

-----------------------------------------------------------------------------
(* What the user chose, where no row of the dialog has both intervals.     *)

\* One interval at most.
Exclusive(c) == c.standby = 0 \/ c.shutdown = 0

\* A policy after a call of the dialog.
After(c, call) ==
    [standby  |-> IF call.what = DEEP_SLEEP THEN call.minutes ELSE c.standby,
     shutdown |-> IF call.what = DEEP_SLEEP THEN c.shutdown ELSE call.minutes]

\* The calls that are left lead from policy c to policy d, and the first of two
\* takes an interval away.
Leads(calls, c, d) ==
    /\ Len(calls) = 1 => After(c, calls[1]) = d
    /\ Len(calls) = 2 => calls[1].minutes = 0 /\ After(After(c, calls[1]), calls[2]) = d

ChosenInv ==
    /\ conf = Reported
    /\ PolicyAsChosen
    /\ dialog.todo # <<>> => /\ Exclusive(dialog.pick)
                             /\ Leads(dialog.todo, Reported, dialog.pick)

\* Policies are told apart by their intervals.
LEMMA PoliciesEqual ==
    ASSUME NEW c \in Policies, NEW d \in Policies,
           c.standby = d.standby, c.shutdown = d.shutdown
    PROVE  c = d
  BY DEF Policies

\* A policy with one interval at most fills the slot so that it can be read back.
LEMMA SlotOf ==
    ASSUME NEW c \in Policies, Exclusive(c)
    PROVE  /\ (IF TypeOf(c) = DEEP_SLEEP THEN IntervalOf(c) ELSE 0) = c.standby
           /\ (IF TypeOf(c) = SHUTDOWN THEN IntervalOf(c) ELSE 0) = c.shutdown
<1>1. c.standby \in Nat /\ c.shutdown \in Nat
  BY DEF Policies
<1>2. CASE c.shutdown > 0
  <2>1. TypeOf(c) = SHUTDOWN /\ IntervalOf(c) = c.shutdown
    BY <1>2 DEF TypeOf, IntervalOf
  <2> QED
    BY <1>1, <1>2, <2>1 DEF Exclusive, DEEP_SLEEP, SHUTDOWN
<1>3. CASE ~(c.shutdown > 0) /\ c.standby > 0
  <2>1. TypeOf(c) = DEEP_SLEEP /\ IntervalOf(c) = c.standby
    BY <1>3 DEF TypeOf, IntervalOf
  <2>2. DEEP_SLEEP # SHUTDOWN
    BY DEF DEEP_SLEEP, SHUTDOWN
  <2>3. c.shutdown = 0
    BY <1>1, <1>3
  <2> QED
    BY <2>1, <2>2, <2>3
<1>4. CASE ~(c.shutdown > 0) /\ ~(c.standby > 0)
  <2>1. TypeOf(c) = "none"
    BY <1>4 DEF TypeOf
  <2> QED
    BY <1>1, <1>4, <2>1 DEF DEEP_SLEEP, SHUTDOWN
<1> QED
  BY <1>2, <1>3, <1>4

\* Such a policy is reported as it is configured, at the first start and after
\* any other.
LEMMA StartReports ==
    ASSUME NEW c \in Policies, Exclusive(c)
    PROVE  /\ interval = IntervalOf(c) /\ type = TypeOf(c) => Reported = c
           /\ interval' = IntervalOf(c) /\ type' = TypeOf(c) => Reported' = c
<1>1. c = [standby |-> c.standby, shutdown |-> c.shutdown]
  BY DEF Policies
<1>2. ASSUME interval = IntervalOf(c), type = TypeOf(c) PROVE Reported = c
  <2>1. Reported = [standby |-> c.standby, shutdown |-> c.shutdown]
    BY <1>2, SlotOf DEF Reported
  <2> QED
    BY <1>1, <2>1
<1>3. ASSUME interval' = IntervalOf(c), type' = TypeOf(c) PROVE Reported' = c
  <2>1. Reported' = [standby |-> c.standby, shutdown |-> c.shutdown]
    BY <1>3, SlotOf DEF Reported
  <2> QED
    BY <1>1, <2>1
<1> QED
  BY <1>2, <1>3

\* What is reported has one interval at most: there is only one slot.
LEMMA ReportedExclusive == Exclusive(Reported)
  BY DEF Reported, Exclusive, DEEP_SLEEP, SHUTDOWN

\* A call that leaves one interval at most changes what is reported and what is
\* configured alike.
LEMMA CallReports ==
    ASSUME TypeOK, conf = Reported, NEW call \in PolicyCalls,
           call.minutes = 0 => type \in {call.what, "none"},
           Exclusive(After(Reported, call)),
           SetInterval(call.what, call.minutes)
    PROVE  conf' = After(Reported, call) /\ Reported' = After(Reported, call)
<1>1. /\ call.what \in {DEEP_SLEEP, SHUTDOWN} /\ call.minutes \in Nat
      /\ Reported \in Policies
      /\ interval' = call.minutes /\ type' = NewType(call.what, call.minutes)
  BY ReportedType DEF PolicyCalls, TypeOK, SetInterval
<1>2. After(Reported, call) \in Policies /\ conf' \in Policies /\ Reported' \in Policies
  BY <1>1 DEF After, Policies, SetInterval, Reported, TypeOK
<1>3. /\ conf'.standby = After(Reported, call).standby
      /\ conf'.shutdown = After(Reported, call).shutdown
  <2>1. conf \in Policies
    BY <1>1
  <2>2. CASE call.what = DEEP_SLEEP
    <3>1. conf' = [conf EXCEPT !.standby = call.minutes]
      BY <2>2 DEF SetInterval
    <3> QED
      BY <2>1, <2>2, <3>1 DEF After, Policies
  <2>3. CASE call.what # DEEP_SLEEP
    <3>1. conf' = [conf EXCEPT !.shutdown = call.minutes]
      BY <2>3 DEF SetInterval
    <3> QED
      BY <2>1, <2>3, <3>1 DEF After, Policies
  <2> QED
    BY <2>2, <2>3
<1>4. /\ Reported'.standby = After(Reported, call).standby
      /\ Reported'.shutdown = After(Reported, call).shutdown
  <2>1. CASE call.minutes = 0
    <3>1. type' = "none"
      BY <1>1, <2>1 DEF NewType
    <3>2. Reported'.standby = 0 /\ Reported'.shutdown = 0
      BY <3>1 DEF Reported, DEEP_SLEEP, SHUTDOWN
    <3> QED
      BY <1>1, <2>1, <3>2 DEF After, Reported, DEEP_SLEEP, SHUTDOWN
  <2>2. CASE call.minutes > 0
    <3>1. type' = call.what
      BY <1>1, <2>2 DEF NewType
    <3>2. CASE call.what = DEEP_SLEEP
      <4>1. Reported'.standby = call.minutes /\ Reported'.shutdown = 0
        BY <1>1, <3>1, <3>2 DEF Reported, DEEP_SLEEP, SHUTDOWN
      <4> QED
        BY <1>1, <2>2, <3>2, <4>1 DEF After, Exclusive
    <3>3. CASE call.what = SHUTDOWN
      <4>1. Reported'.shutdown = call.minutes /\ Reported'.standby = 0
        BY <1>1, <3>1, <3>3 DEF Reported, DEEP_SLEEP, SHUTDOWN
      <4> QED
        BY <1>1, <2>2, <3>3, <4>1 DEF After, Exclusive, DEEP_SLEEP, SHUTDOWN
    <3> QED
      BY <1>1, <3>2, <3>3
  <2> QED
    BY <1>1, <2>1, <2>2
<1> QED
  BY <1>2, <1>3, <1>4, PoliciesEqual

\* The calls for a row lead from what is reported to the row.
LEMMA CallsLead ==
    ASSUME TypeOK, NEW c \in Policies, Exclusive(c)
    PROVE  /\ Calls(c, Reported) = <<>> => Reported = c
           /\ Leads(Calls(c, Reported), Reported, c)
<1> DEFINE standby  == Call(DEEP_SLEEP, c.standby, Reported.standby)
           shutdown == Call(SHUTDOWN, c.shutdown, Reported.shutdown)
           calls    == Calls(c, Reported)
           first    == [what |-> DEEP_SLEEP, minutes |-> c.standby]
           other    == [what |-> SHUTDOWN, minutes |-> c.shutdown]
<1>1. /\ c.standby \in Nat /\ c.shutdown \in Nat /\ Reported \in Policies
      /\ Reported.standby \in Nat /\ Reported.shutdown \in Nat
  BY ReportedType DEF Policies, TypeOK
<1>2. /\ standby \in Seq(PolicyCalls)
      /\ \/ c.standby = Reported.standby /\ standby = <<>>
         \/ /\ c.standby # Reported.standby /\ Len(standby) = 1
            /\ standby[1] = first
  BY <1>1, CallType
<1>3. /\ shutdown \in Seq(PolicyCalls)
      /\ \/ c.shutdown = Reported.shutdown /\ shutdown = <<>>
         \/ /\ c.shutdown # Reported.shutdown /\ Len(shutdown) = 1
            /\ shutdown[1] = other
  BY <1>1, CallType
<1>4. calls = IF c.standby = 0 THEN standby \o shutdown ELSE shutdown \o standby
  BY DEF Calls, CallOrder
<1>5. \A p \in Policies :
        /\ After(p, first) \in Policies /\ After(p, other) \in Policies
        /\ After(p, first).standby = c.standby /\ After(p, first).shutdown = p.shutdown
        /\ After(p, other).standby = p.standby /\ After(p, other).shutdown = c.shutdown
  <2> TAKE p \in Policies
  <2>1. DEEP_SLEEP # SHUTDOWN /\ p.standby \in Nat /\ p.shutdown \in Nat
    BY DEF DEEP_SLEEP, SHUTDOWN, Policies
  <2>2. After(p, first) = [standby |-> c.standby, shutdown |-> p.shutdown]
    BY DEF After
  <2>3. After(p, other) = [standby |-> p.standby, shutdown |-> c.shutdown]
    BY <2>1 DEF After
  <2> QED
    BY <1>1, <2>1, <2>2, <2>3 DEF Policies
<1>6. first.minutes = c.standby /\ other.minutes = c.shutdown
  OBVIOUS
<1> HIDE DEF standby, shutdown, calls, first, other
<1>8. CASE standby = <<>> /\ shutdown = <<>>
  <2>1. Reported = c
    BY <1>1, <1>2, <1>3, <1>8, PoliciesEqual, EmptySeq
  <2>2. calls = <<>>
    BY <1>4, <1>8, <1>2, ConcatEmptySeq
  <2> QED
    BY <2>1, <2>2, EmptySeq DEF Leads, calls
<1>9. CASE standby # <<>> /\ shutdown = <<>>
  <2>1. calls = standby
    BY <1>2, <1>4, <1>9, ConcatEmptySeq
  <2>2. After(Reported, calls[1]) = c
    BY <1>1, <1>2, <1>3, <1>5, <1>9, <2>1, PoliciesEqual
  <2> QED
    BY <1>2, <1>9, <2>1, <2>2 DEF Leads, calls
<1>10. CASE standby = <<>> /\ shutdown # <<>>
  <2>1. calls = shutdown
    BY <1>3, <1>4, <1>10, ConcatEmptySeq
  <2>2. After(Reported, calls[1]) = c
    BY <1>1, <1>2, <1>3, <1>5, <1>10, <2>1, PoliciesEqual
  <2> QED
    BY <1>3, <1>10, <2>1, <2>2 DEF Leads, calls
<1>11. CASE standby # <<>> /\ shutdown # <<>>
  <2>1. Len(standby) = 1 /\ Len(shutdown) = 1
    BY <1>2, <1>3, <1>11
  <2>2. CASE c.standby = 0
    <3>1. Len(calls) = 2 /\ calls[1] = standby[1] /\ calls[2] = shutdown[1]
      BY <1>2, <1>3, <1>4, <2>1, <2>2, ConcatProperties
    <3>2. calls[1].minutes = 0
      BY <1>2, <1>6, <1>11, <2>2, <3>1
    <3>3. After(After(Reported, calls[1]), calls[2]) = c
      BY <1>1, <1>2, <1>3, <1>5, <1>11, <3>1, PoliciesEqual
    <3>4. calls # <<>>
      BY <3>1, EmptySeq
    <3> QED
      BY <3>1, <3>2, <3>3, <3>4 DEF Leads, calls
  <2>3. CASE c.standby # 0
    <3>1. Len(calls) = 2 /\ calls[1] = shutdown[1] /\ calls[2] = standby[1]
      BY <1>2, <1>3, <1>4, <2>1, <2>3, ConcatProperties
    <3>2. calls[1].minutes = 0
      BY <1>3, <1>6, <1>11, <2>3, <3>1 DEF Exclusive
    <3>3. After(After(Reported, calls[1]), calls[2]) = c
      BY <1>1, <1>2, <1>3, <1>5, <1>11, <3>1, PoliciesEqual
    <3>4. calls # <<>>
      BY <3>1, EmptySeq
    <3> QED
      BY <3>1, <3>2, <3>3, <3>4 DEF Leads, calls
  <2> QED
    BY <2>2, <2>3
<1> QED
  BY <1>8, <1>9, <1>10, <1>11

\* A step that leaves the policy alone.
LEMMA SamePolicyKeepsChosen ==
    ASSUME ChosenInv, UNCHANGED policy
    PROVE  ChosenInv'
<1>1. Reported' = Reported
  BY DEF policy, Reported
<1> QED
  BY <1>1 DEF ChosenInv, PolicyAsChosen, policy

\* The dialog's own steps.
LEMMA DialogKeepsChosen ==
    ASSUME PolicyInv, ChosenInv, \A c \in Choices : Exclusive(c),
           OpenDialog \/ (\E c \in Choices : Choose(c)) \/ SetNext
    PROVE  ChosenInv'
<1> USE DEF ChosenInv, PolicyAsChosen
<1>1. CASE OpenDialog
  <2>1. /\ dialog.todo = <<>> \/ dialog.open
        /\ dialog'.todo = <<>> /\ Reported' = Reported
    BY <1>1 DEF OpenDialog, Closed, PolicyInv, Reported
  <2> QED
    BY <1>1, <2>1 DEF OpenDialog, PolicyInv
<1>2. ASSUME NEW c \in Choices, Choose(c) PROVE ChosenInv'
  <2>1. /\ c \in Policies /\ Exclusive(c)
        /\ dialog.open /\ dialog.todo = <<>> /\ dialog.read = Reported
        /\ Reported' = Reported /\ conf' = conf
    BY <1>2, ChoicesAssumption DEF Choose, Reported, PolicyInv
  <2>2. /\ Calls(c, Reported) = <<>> => Reported = c
        /\ Leads(Calls(c, Reported), Reported, c)
    BY <2>1, CallsLead DEF PolicyInv
  <2>3. CASE Calls(c, Reported) = <<>>
    <3>1. dialog' = Closed /\ chosen' = c /\ torn' = FALSE
      BY <1>2, <2>1, <2>3 DEF Choose
    <3>2. dialog'.todo = <<>>
      BY <3>1 DEF Closed
    <3> QED
      BY <2>1, <2>2, <2>3, <3>1, <3>2
  <2>4. CASE Calls(c, Reported) # <<>>
    <3>1. dialog' = [dialog EXCEPT !.pick = c, !.todo = Calls(c, Reported)]
      BY <1>2, <2>1, <2>4 DEF Choose
    <3>2. dialog'.todo = Calls(c, Reported) /\ dialog'.pick = c
      BY <3>1 DEF PolicyInv, TypeOK
    <3>3. torn' = torn /\ chosen' = chosen /\ type' = type
      BY <1>2, <2>1, <2>4 DEF Choose, PolicyInv, TypeOK
    <3> QED
      BY <2>1, <2>2, <2>4, <3>2, <3>3
  <2> QED
    BY <2>3, <2>4
<1>3. CASE SetNext
  <2> DEFINE todo == dialog.todo
             call == Head(todo)
             rest == Tail(todo)
  <2>1. /\ todo \in Seq(PolicyCalls) /\ todo # <<>> /\ CallsFit(todo, type)
        /\ Exclusive(dialog.pick) /\ Leads(todo, Reported, dialog.pick)
    BY <1>3 DEF SetNext, PolicyInv, CallsFit
  <2>2. /\ call = todo[1] /\ call \in PolicyCalls
        /\ Len(rest) = Len(todo) - 1
        /\ \A i \in 1..Len(rest) : rest[i] = todo[i + 1]
    BY <2>1, HeadTailProperties
  <2>3. /\ SetInterval(call.what, call.minutes)
        /\ call.minutes = 0 => type \in {call.what, "none"}
    BY <1>3, <2>1, <2>2 DEF SetNext, CallsFit
  <2> HIDE DEF todo, call, rest
  <2>4. CASE Len(todo) = 1
    <3>1. After(Reported, call) = dialog.pick
      BY <2>1, <2>2, <2>4 DEF Leads
    <3>2. conf' = dialog.pick /\ Reported' = dialog.pick
      BY <2>1, <2>2, <2>3, <3>1, CallReports DEF PolicyInv
    <3>3. dialog' = Closed /\ chosen' = dialog.pick /\ torn' = FALSE
      BY <1>3, <2>4 DEF SetNext, todo
    <3>4. dialog'.todo = <<>>
      BY <3>3 DEF Closed
    <3> QED
      BY <3>2, <3>3, <3>4
  <2>5. CASE Len(todo) = 2
    <3>1. call.minutes = 0 /\ After(After(Reported, call), todo[2]) = dialog.pick
      BY <2>1, <2>2, <2>5 DEF Leads
    <3>2. Exclusive(After(Reported, call))
      <4>1. /\ After(Reported, call).standby \in {0, Reported.standby}
            /\ After(Reported, call).shutdown \in {0, Reported.shutdown}
        BY <3>1 DEF After
      <4> QED
        BY <4>1, ReportedExclusive DEF Exclusive
    <3>3. conf' = After(Reported, call) /\ Reported' = After(Reported, call)
      BY <2>2, <2>3, <3>2, CallReports DEF PolicyInv
    <3>4. dialog' = [dialog EXCEPT !.todo = rest]
      BY <1>3, <2>5 DEF SetNext, todo, rest
    <3>5. dialog'.todo = rest /\ dialog'.pick = dialog.pick
      BY <3>4 DEF PolicyInv, TypeOK
    <3>6. Len(rest) = 1
      BY <2>2, <2>5
    <3>7. rest[1] = todo[2]
      <4>1. 1 \in 1..Len(rest) /\ 1 + 1 = 2
        BY <3>6
      <4> QED
        BY <2>2, <4>1
    <3>8. rest # <<>>
      <4>1. Len(<<>>) # 1
        BY EmptySeq
      <4> QED
        BY <3>6, <4>1
    <3>9. Leads(rest, Reported', dialog.pick)
      BY <3>1, <3>3, <3>6, <3>7 DEF Leads
    <3>10. type' = "none"
      <4>1. type' = NewType(call.what, 0)
        BY <2>3, <3>1 DEF SetInterval
      <4> QED
        BY <2>3, <3>1, <4>1 DEF NewType
    <3>11. torn' = TRUE
      BY <1>3, <2>5 DEF SetNext, todo
    <3> QED
      BY <2>1, <3>3, <3>5, <3>8, <3>9, <3>10, <3>11
  <2> QED
    BY <2>1, <2>4, <2>5 DEF CallsFit
<1> QED
  BY <1>1, <1>2, <1>3

\* A restart fills the slot from what is configured, and that was reported; with
\* no interval if a row was set by half.
LEMMA RestartKeepsChosen ==
    ASSUME PolicyInv, ChosenInv, Restart
    PROVE  ChosenInv'
<1>1. /\ conf \in Policies /\ conf' = conf /\ dialog' = Closed
      /\ interval' = IntervalOf(conf) /\ type' = TypeOf(conf)
      /\ chosen' = chosen /\ torn' = torn
  BY DEF Restart, PolicyInv, TypeOK
<1>2. Exclusive(conf)
  BY ReportedExclusive DEF ChosenInv
<1>3. Reported' = conf
  BY <1>1, <1>2, StartReports
<1>4. dialog'.todo = <<>>
  BY <1>1 DEF Closed
<1>5. type = "none" => type' = "none"
  <2>1. ASSUME type = "none" PROVE conf.standby = 0 /\ conf.shutdown = 0
    BY <2>1 DEF ChosenInv, Reported, DEEP_SLEEP, SHUTDOWN
  <2> QED
    BY <1>1, <2>1 DEF TypeOf
<1> QED
  BY <1>1, <1>3, <1>4, <1>5 DEF ChosenInv, PolicyAsChosen

\* Where no row of the dialog, and not the factory setting, has both intervals:
\* the device does what was chosen last, and from the first of two calls for a row
\* to the second one, or after a restart in between to the next choice, it is as
\* after "Never".
THEOREM DoesWhatWasChosen ==
    ASSUME Exclusive(Factory), \A c \in Choices : Exclusive(c)
    PROVE  Spec => []PolicyAsChosen
<1>1. Init => ChosenInv
  <2> SUFFICES ASSUME Init PROVE ChosenInv
    OBVIOUS
  <2>1. Reported = Factory
    BY ChoicesAssumption, StartReports DEF Init
  <2>2. conf = Factory /\ chosen = Factory /\ dialog.todo = <<>>
    BY DEF Init, Closed
  <2>3. torn = FALSE
    BY DEF Init
  <2> QED
    BY <2>1, <2>2, <2>3 DEF ChosenInv, PolicyAsChosen
<1>2. PolicyInv /\ ChosenInv /\ [Next]_vars => ChosenInv'
  <2> SUFFICES ASSUME PolicyInv, ChosenInv, [Next]_vars PROVE ChosenInv'
    OBVIOUS
  <2>1. CASE OpenDialog \/ (\E c \in Choices : Choose(c)) \/ SetNext
    BY <2>1, DialogKeepsChosen
  <2>2. CASE Restart
    BY <2>2, RestartKeepsChosen
  <2>3. CASE (\E c \in Clients : Take(c) \/ Give(c)) \/ ResetIdle
    BY <2>3, ReferencesKeepTypes, SamePolicyKeepsChosen DEF PolicyInv
  <2>4. CASE \/ ShortIdle \/ StayOnCable \/ Busy \/ StayAwake \/ LongIdle
             \/ ScreenSaverActivate \/ MoveCable \/ USBCableChanged
    BY <2>4, SaverKeepsTypes, SamePolicyKeepsChosen DEF PolicyInv
  <2>5. CASE \/ Idle \/ KeyWakes \/ EpitWakes \/ RestsAgain \/ IdleEnds
             \/ BatteryLow \/ UserKey
    BY <2>5, LoopKeepsTypes, SamePolicyKeepsChosen DEF PolicyInv
  <2>6. CASE UNCHANGED vars
    <3>1. UNCHANGED policy
      BY <2>6 DEF vars, policy
    <3> QED
      BY <3>1, SamePolicyKeepsChosen
  <2> QED
    BY <2>1, <2>2, <2>3, <2>4, <2>5, <2>6 DEF Next, Disturb, Saver, Loop
<1>3. ChosenInv => PolicyAsChosen
  BY DEF ChosenInv
<1> QED
  BY <1>1, <1>2, <1>3, PolicyInvHolds, PTL DEF Spec

-----------------------------------------------------------------------------
(* An unused device is on its way to be put away.                          *)

\* The first element of a sequence of activations, before and after it changed.
LEMMA FirstChanged ==
    ASSUME loops \in Seq(Activations), loops # <<>>, NEW x
    PROVE  /\ [loops EXCEPT ![1] = x] # <<>>
           /\ Head([loops EXCEPT ![1] = x]) = x
           /\ Head(loops) = loops[1] /\ Head(loops) \in Activations
<1>1. /\ Len(loops) \in Nat /\ 1 \in 1..Len(loops) /\ DOMAIN loops = 1..Len(loops)
      /\ loops[1] \in Activations /\ Head(loops) = loops[1]
  BY LenProperties, ElementOfSeq, EmptySeq, HeadTailProperties
<1> DEFINE new == [loops EXCEPT ![1] = x]
<1>2. new \in Seq(Activations \cup {x})
  <2>1. loops \in Seq(Activations \cup {x})
    BY <1>1
  <2> QED
    BY <2>1, <1>1, ExceptSeq
<1>3. DOMAIN new = 1..Len(loops) /\ new[1] = x
  BY <1>1
<1>4. new # <<>>
  BY <1>1, <1>2, <1>3, EmptySeq, LenProperties
<1>5. Head(new) = x
  BY <1>2, <1>3, <1>4, HeadTailProperties
<1> QED
  BY <1>1, <1>4, <1>5

\* EpitWakes and RestsAgain keep the newest activation and change its fields.
LEMMA LoopGoesOn ==
    ASSUME TypeOK
    PROVE  /\ EpitWakes => /\ loops' # <<>> /\ ~Head(loops').resting
                           /\ Head(loops').elapsed = Head(loops).elapsed
           /\ RestsAgain => /\ loops' # <<>> /\ Head(loops').resting
                            /\ Head(loops').elapsed = Elapsed
<1>1. loops \in Seq(Activations)
  BY DEF TypeOK
<1>2. ASSUME EpitWakes
      PROVE  /\ loops' # <<>> /\ ~Head(loops').resting
             /\ Head(loops').elapsed = Head(loops).elapsed
  <2> DEFINE new == [loops[1] EXCEPT !.resting = FALSE]
  <2>1. loops # <<>> /\ loops' = [loops EXCEPT ![1] = new]
    BY <1>2 DEF EpitWakes, Resting
  <2>2. loops[1] \in Activations /\ Head(loops) = loops[1]
    BY <1>1, <2>1, FirstChanged
  <2>3. ~new.resting /\ new.elapsed = loops[1].elapsed
    BY <2>2 DEF Activations
  <2> HIDE DEF new
  <2> QED
    BY <1>1, <2>1, <2>2, <2>3, FirstChanged
<1>3. ASSUME RestsAgain
      PROVE  /\ loops' # <<>> /\ Head(loops').resting
             /\ Head(loops').elapsed = Elapsed
  <2> DEFINE new == [loops[1] EXCEPT !.elapsed = Elapsed, !.resting = TRUE]
  <2>1. loops # <<>>
        /\ loops' = [loops EXCEPT ![1].elapsed = Elapsed, ![1].resting = TRUE]
    BY <1>3 DEF RestsAgain
  <2>2. loops[1] \in Activations /\ Head(loops) = loops[1]
    BY <1>1, <2>1, FirstChanged
  <2>3. new.resting /\ new.elapsed = Elapsed
    BY <2>2 DEF Activations
  <2>4. loops' = [loops EXCEPT ![1] = new]
    BY <1>1, <2>1, LenProperties
  <2> HIDE DEF new
  <2> QED
    BY <1>1, <2>1, <2>3, <2>4, FirstChanged
<1> QED
  BY <1>2, <1>3

\* idle() begins with a loop that rests and has not counted anything.
LEMMA IdleBegins ==
    ASSUME TypeOK, Idle
    PROVE  loops' # <<>> /\ Head(loops').resting /\ Head(loops').elapsed = 0
<1> DEFINE new == [elapsed |-> 0, resting |-> TRUE, touched |-> FALSE]
<1>1. new \in Activations /\ new.resting /\ new.elapsed = 0
  BY DEF Activations
<1>2. loops \in Seq(Activations) /\ loops' = <<new>> \o loops
  BY DEF TypeOK, Idle
<1> HIDE DEF new
<1>3. /\ <<new>> \in Seq(Activations) /\ Len(<<new>>) = 1 /\ <<new>>[1] = new
  BY <1>1
<1>4. /\ loops' \in Seq(Activations) /\ Len(loops') = 1 + Len(loops)
      /\ loops'[1] = new /\ Len(loops) \in Nat
  BY <1>2, <1>3, ConcatProperties, LenProperties
<1>5. loops' # <<>>
  BY <1>4, EmptySeq
<1>6. Head(loops') = new
  BY <1>4, <1>5, HeadTailProperties
<1> QED
  BY <1>1, <1>5, <1>6

\* The saver after it was reset, and one level up, is armed.
LEMMA Armed ==
    /\ Reset.armed /\ Reset.level = 0
    /\ Advance(0).armed /\ Advance(0).level = 1
<1>1. 0 < IDLE_INDEX
  BY DEF IDLE_INDEX
<1>2. Reset.armed /\ Reset.level = 0
  BY DEF Reset
<1>3. Advance(0).armed
  BY <1>1, Zenon DEF Advance
<1>4. Advance(0).level = 1
  BY DEF Advance
<1> QED
  BY <1>2, <1>3, <1>4

\* Whatever takes the saver's timer away begins an idle(), puts the device away,
\* or happens on the cable; and whatever forgets that, resets the saver.
LEMMA NotForgottenStep ==
    ASSUME TypeOK, NotForgotten, [Next]_vars
    PROVE  NotForgotten'
<1>1. CASE \/ SetNext \/ Restart \/ UserKey \/ ScreenSaverActivate \/ Busy
           \/ KeyWakes \/ BatteryLow \/ IdleEnds \/ ShortIdle \/ StayAwake
  <2>1. saver' = Reset \/ saver' = Advance(0)
    BY <1>1 DEF SetNext, SetInterval, Restart, UserKey, ScreenSaverActivate, Busy,
       KeyWakes, BatteryLow, IdleEnds, ShortIdle, StayAwake
  <2> QED
    BY <2>1, Armed DEF NotForgotten
<1>2. CASE \/ OpenDialog \/ (\E c \in Choices : Choose(c))
           \/ (\E c \in Clients : Take(c) \/ Give(c)) \/ ResetIdle
           \/ UNCHANGED vars
  <2>1. UNCHANGED <<type, usb, moved, saver, loops, told>>
    BY <1>2 DEF OpenDialog, Choose, Take, Give, ResetIdle, vars, policy, references,
       cable
  <2> QED
    BY <2>1 DEF NotForgotten
<1>3. CASE StayOnCable \/ MoveCable
  BY <1>3 DEF StayOnCable, MoveCable, NotForgotten, cable
<1>4. CASE USBCableChanged
  BY <1>4, Armed DEF USBCableChanged, Unplugged, NotForgotten
<1>5. CASE LongIdle
  <2>1. UNCHANGED <<type, usb>> /\ (type # "none" /\ ~usb => told'.what = type)
    BY <1>5 DEF LongIdle, SaveLast, policy, cable
  <2> QED
    BY <2>1 DEF NotForgotten
<1>6. CASE Idle
  BY <1>6, IdleBegins DEF NotForgotten
<1>7. CASE EpitWakes \/ RestsAgain
  BY <1>7, LoopGoesOn DEF NotForgotten
<1> QED
  BY <1>1, <1>2, <1>3, <1>4, <1>5, <1>6, <1>7 DEF Next, Disturb, Saver, Loop

\* In any order of keys, cables, references, restarts and calls of the dialog: a
\* device that is to be put away, and was not yet, has a timer, a loop or an
\* event of the cable that will see to it.
THEOREM NeverForgotten == Spec => []NotForgotten
<1>1. Init => NotForgotten
  BY Armed DEF Init, NotForgotten
<1>2. TypeOK /\ NotForgotten /\ [Next]_vars => NotForgotten'
  BY NotForgottenStep
<1> QED
  BY <1>1, <1>2, TypeCorrect, PTL DEF Spec

-----------------------------------------------------------------------------
(* ... and comes nearer to it with each step of its own.                   *)

\* The parts of the measure are numbers, and the loop's part is less than what
\* a turn of the saver costs.
LEMMA SleepParts ==
    ASSUME TypeOK
    PROVE  /\ interval \in Nat
           /\ SaverLeft \in Nat
           /\ LoopLeft \in Nat /\ LoopLeft <= 2 * interval
           /\ RestLeft \in 0..1
           /\ SleepLeft \in Nat
<1>1. interval \in Nat
  BY DEF TypeOK
<1>2. SaverLeft \in Nat
  BY DEF SaverLeft, TypeOK
<1>3. LoopLeft \in Nat /\ LoopLeft <= 2 * interval
  <2>1. loops # <<>> => Head(loops).elapsed \in Nat
    BY FirstChanged DEF TypeOK, Activations
  <2> QED
    BY <1>1, <2>1 DEF LoopLeft
<1>4. RestLeft \in 0..1
  BY DEF RestLeft
<1>5. (2 * interval + 2) * SaverLeft \in Nat
  BY <1>1, <1>2
<1> QED
  BY <1>1, <1>2, <1>3, <1>4, <1>5 DEF SleepLeft

\* So they are after a step.
LEMMA SleepPartsAfter ==
    TypeOK' => (/\ interval \in Nat
                /\ SaverLeft \in Nat
                /\ LoopLeft \in Nat /\ LoopLeft <= 2 * interval
                /\ RestLeft \in 0..1)'
<1>1. TypeOK => (/\ interval \in Nat
                 /\ SaverLeft \in Nat
                 /\ LoopLeft \in Nat /\ LoopLeft <= 2 * interval
                 /\ RestLeft \in 0..1)
  BY SleepParts
<1> QED
  BY <1>1, PTL

\* A step that costs a turn of the saver brings the end nearer, even if it
\* begins an idle().
LEMMA TurnTaken ==
    ASSUME NEW i \in Nat, NEW s \in Nat, NEW t \in Nat, t < s,
           NEW l \in Nat, NEW r \in Nat,
           NEW m \in Nat, NEW q \in Nat, m <= 2 * i, q <= 1
    PROVE  (2 * i + 2) * t + m + q < (2 * i + 2) * s + l + r
<1>1. (2 * i + 2) * (t + 1) <= (2 * i + 2) * s
  <2>1. t + 1 <= s
    OBVIOUS
  <2> QED
    BY <2>1
<1>2. (2 * i + 2) * (t + 1) = (2 * i + 2) * t + (2 * i + 2)
  OBVIOUS
<1> DEFINE x == (2 * i + 2) * t
           y == (2 * i + 2) * s
<1>3. x \in Nat /\ y \in Nat /\ x + (2 * i + 2) <= y
  BY <1>1, <1>2
<1>4. m + q <= 2 * i + 1
  OBVIOUS
<1> HIDE DEF x, y
<1>5. x + m + q < y + l + r
  BY <1>3, <1>4
<1> QED
  BY <1>5 DEF x, y

\* A timer of the saver or the event of the cable takes a turn, unless it puts
\* the device away.
LEMMA SaverRunsDown ==
    ASSUME TypeOK, Saver \/ USBCableChanged,
           type # "none", count = 0, ~usb
    PROVE  told'.what = type \/ (SaverLeft' < SaverLeft /\ interval' = interval)
<1>1. saver.level \in 0..2
  BY DEF TypeOK
<1>2. CASE ShortIdle
  <2>1. saver' = Advance(0) /\ saver.armed /\ saver.level = 0
        /\ UNCHANGED <<interval, moved>>
    BY <1>2 DEF ShortIdle, policy, cable
  <2> QED
    BY <2>1, Armed DEF SaverLeft
<1>3. CASE StayOnCable \/ StayAwake
  BY <1>3 DEF StayOnCable, StayAwake
<1>4. CASE Idle
  <2>1. /\ saver' = [saver EXCEPT !.armed = FALSE]
        /\ saver.armed /\ saver.level = 1
        /\ UNCHANGED <<interval, moved>>
    BY <1>4 DEF Idle, policy, cable, IDLE_INDEX
  <2>2. ~saver'.armed
    BY <2>1 DEF TypeOK
  <2> QED
    BY <2>1, <2>2 DEF SaverLeft
<1>5. CASE LongIdle
  BY <1>5 DEF LongIdle, SaveLast
<1>6. CASE USBCableChanged
  <2>1. moved /\ ~moved' /\ saver' = Reset /\ interval' = interval
    BY <1>6 DEF USBCableChanged, Unplugged, policy
  <2> QED
    BY <1>1, <2>1, Armed DEF SaverLeft
<1> QED
  BY <1>2, <1>3, <1>4, <1>5, <1>6 DEF Saver

\* The EPIT timer ends a rest, the loop counts it and rests again, or ends and
\* puts the device away.
LEMMA LoopRunsDown ==
    ASSUME TypeOK, EpitWakes \/ Loop, type # "none", ~usb
    PROVE  \/ told'.what = type
           \/ /\ UNCHANGED <<interval, SaverLeft>>
              /\ LoopLeft' + RestLeft' < LoopLeft + RestLeft
<1>1. interval \in Nat /\ Epit \in Nat /\ Epit > 0
  BY BoundsAssumption DEF TypeOK
<1>2. CASE EpitWakes
  <2>1. /\ loops # <<>> /\ Head(loops).resting
        /\ UNCHANGED <<interval, saver, moved>>
    BY <1>2 DEF EpitWakes, Resting, policy, cable
  <2>2. /\ loops' # <<>> /\ ~Head(loops').resting
        /\ Head(loops').elapsed = Head(loops).elapsed
    BY <1>2, LoopGoesOn
  <2>3. RestLeft = 1 /\ RestLeft' = 0
    BY <2>1, <2>2 DEF RestLeft, Resting
  <2>4. LoopLeft' = LoopLeft /\ SaverLeft' = SaverLeft
    BY <2>1, <2>2 DEF LoopLeft, SaverLeft
  <2> QED
    BY <2>1, <2>3, <2>4, SleepParts
<1>3. CASE RestsAgain
  <2>1. /\ loops # <<>> /\ Elapsed < interval
        /\ UNCHANGED <<interval, saver, moved>>
    BY <1>3 DEF RestsAgain, policy, cable
  <2>2. /\ loops' # <<>> /\ Head(loops').resting
        /\ Head(loops').elapsed = Elapsed
    BY <1>3, LoopGoesOn
  <2>3. Head(loops).elapsed \in Nat
    BY <2>1, FirstChanged DEF TypeOK, Activations
  <2>4. Elapsed = Head(loops).elapsed + Epit
    BY DEF Elapsed
  <2>5. /\ LoopLeft = 2 * (interval - Head(loops).elapsed)
        /\ LoopLeft' = 2 * (interval - Elapsed)
        /\ SaverLeft' = SaverLeft
    BY <1>1, <2>1, <2>2, <2>3, <2>4 DEF LoopLeft, SaverLeft
  <2>6. RestLeft = 0 /\ RestLeft' = 1
    BY <1>3, <2>2 DEF RestLeft, RestsAgain, Resting
  <2>7. 2 * (interval - Elapsed) + 1 < 2 * (interval - Head(loops).elapsed)
    BY <1>1, <2>1, <2>3, <2>4
  <2>8. LoopLeft' + RestLeft' < LoopLeft + RestLeft
    BY <1>1, <2>1, <2>3, <2>4, <2>5, <2>6, <2>7
  <2> QED
    BY <2>1, <2>5, <2>8
<1>4. CASE IdleEnds
  BY <1>4 DEF IdleEnds, SaveLast
<1> QED
  BY <1>2, <1>3, <1>4 DEF Loop

\* The measure of SleepLeft goes down in lexicographic order: the turns of the
\* saver first, then the rests of the newest idle().
LEMMA UnusedStep ==
    ASSUME TypeOK, TypeOK',
           Saver \/ EpitWakes \/ Loop \/ USBCableChanged,
           type # "none", count = 0, ~usb
    PROVE  told'.what = type \/ SleepLeft' < SleepLeft
<1>1. PICK i \in Nat, s \in Nat, l \in Nat, r \in Nat :
        i = interval /\ s = SaverLeft /\ l = LoopLeft /\ r = RestLeft
  BY SleepParts
<1>2. PICK j \in Nat, t \in Nat, m \in Nat, q \in Nat :
        /\ j = interval' /\ t = SaverLeft' /\ m = LoopLeft' /\ q = RestLeft'
        /\ m <= 2 * j /\ q <= 1
  BY SleepPartsAfter
<1>3. SleepLeft = (2 * i + 2) * s + l + r
  BY <1>1 DEF SleepLeft
<1>4. SleepLeft' = (2 * j + 2) * t + m + q
  BY <1>2 DEF SleepLeft
<1>5. ASSUME t < s, j = i
      PROVE  (2 * j + 2) * t + m + q < (2 * i + 2) * s + l + r
  BY <1>2, <1>5, TurnTaken
<1>6. ASSUME t = s, j = i, m + q < l + r
      PROVE  (2 * j + 2) * t + m + q < (2 * i + 2) * s + l + r
  <2>1. (2 * i + 2) * s \in Nat
    OBVIOUS
  <2> QED
    BY <1>6, <2>1
<1>7. CASE SaverLeft' < SaverLeft /\ interval' = interval
  BY <1>1, <1>2, <1>3, <1>4, <1>5, <1>7
<1>8. CASE UNCHANGED <<interval, SaverLeft>>
           /\ LoopLeft' + RestLeft' < LoopLeft + RestLeft
  BY <1>1, <1>2, <1>3, <1>4, <1>6, <1>8
<1> QED
  BY <1>7, <1>8, SaverRunsDown, LoopRunsDown

\* Whatever the interval and the depth of idle(): each thing that the device does
\* by itself while nobody uses it brings it nearer to be put away, or does so;
\* this is the part of UnusedDeviceSleeps that needs no fairness.
THEOREM UnusedIsPutAway == Spec => [](SleepLeft \in Nat) /\ UnusedRunsDown
<1>1. TypeOK => SleepLeft \in Nat
  BY SleepParts
<1>2. TypeOK /\ TypeOK' /\ [Next]_vars
        => [(Saver \/ EpitWakes \/ Loop \/ USBCableChanged)
              /\ type # "none" /\ count = 0 /\ ~usb
            => told'.what = type \/ SleepLeft' < SleepLeft]_vars
  BY UnusedStep
<1> QED
  BY <1>1, <1>2, TypeCorrect, PTL DEF Spec, UnusedRunsDown
=============================================================================
