------------------------------- MODULE MCDList -------------------------------
(* DList for TLC: an arbitrary caller, every index in and out of range. *)
EXTENDS DList
=============================================================================
