--------------------------- MODULE MCFtpUploader ---------------------------
(* FtpUploader for TLC: an arbitrary caller, two boards. *)
EXTENDS FtpUploader
=============================================================================
