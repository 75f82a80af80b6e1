------------------------- MODULE MCSuspendResume -------------------------
(* Instances of SuspendResume for TLC: which clients run. *)
EXTENDS SuspendResume

MCWifiCard == {"wifi", "sd", "touch"}
MCTgUsb    == {"tg", "cable", "usb"}
MCUsb      == {"cable", "usb"}
MCPower    == {"power"}
MCPowerCable == {"power", "cable"}
=============================================================================
