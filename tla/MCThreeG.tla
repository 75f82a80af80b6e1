------------------------------ MODULE MCThreeG ------------------------------
(* Instances of ThreeG for TLC: small retry limits with the same order of    *)
(* the steps that use them up.                                               *)
EXTENDS ThreeG

MCPppdLimit == 1
MCNetLimit  == 2
MCImeiStep  == 1
MCPinStep   == 2
=============================================================================
