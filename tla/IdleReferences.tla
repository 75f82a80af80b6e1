---------------------------- MODULE IdleReferences ----------------------------
(***************************************************************************)
(* What enableIdle() and resetIdle() promise to those who use them.        *)
(*                                                                         *)
(* A client that asks for the device to stay awake is heard at once, and   *)
(* the device is kept awake only while some request was not taken back.    *)
(* A client may ask more often than it takes back, and keeps the device    *)
(* awake then.  Another client may let it go early: that nobody does is    *)
(* not promised.                                                           *)
(***************************************************************************)
CONSTANT Clients   \* those who call enableIdle()

VARIABLES
    requests,   \* what was asked for and not taken back: a client, and a number
                \* that tells its requests apart
    awake       \* is idling disabled

vars == <<requests, awake>>

Of(c) == {r \in requests : r[1] = c}

Init == requests = {} /\ awake = FALSE

\* A client asks, once more perhaps, for the device to stay awake, and it does.
Take(c) ==
    /\ \E r \in requests' \ requests : r[1] = c /\ requests' = requests \cup {r}
    /\ awake' = TRUE

\* A client takes back one request, if it has any.  The last of all requests
\* lets the device idle.
Give(c) ==
    /\ \/ Of(c) = {} /\ UNCHANGED requests
       \/ \E r \in Of(c) : requests' = requests \ {r}
    /\ awake' => awake
    /\ requests' = {} => ~awake'

\* Everything is dropped, or one reference too many, of any clients.
Lose ==
    /\ requests' \in SUBSET requests
    /\ awake' => awake
    /\ requests' = {} => ~awake'

Next == (\E c \in Clients : Take(c) \/ Give(c)) \/ Lose

Spec == Init /\ [][Next]_vars
=============================================================================
