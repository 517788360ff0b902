------------------------- MODULE MCTelnetCommander -------------------------
(* TelnetCommander for TLC. *)
EXTENDS TelnetCommander
=============================================================================
