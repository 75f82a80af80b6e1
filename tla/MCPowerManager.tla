--------------------------- MODULE MCPowerManager ---------------------------
(* Instances of PowerManager for TLC: rows of the dialog, in minutes. *)
EXTENDS PowerManager

Row(standby, shutdown) == [standby |-> standby, shutdown |-> shutdown]

\* PM_INCLUSIVE is not set: the rows with one interval at most.
MCExclusive == {Row(0, 0), Row(3, 0), Row(0, 5)}

\* PM_INCLUSIVE is set.
MCInclusive == MCExclusive \cup {Row(3, 5)}

MCFactory == Row(5, 0)
=============================================================================
