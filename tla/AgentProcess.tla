---------------------------- MODULE AgentProcess ----------------------------
(***************************************************************************)
(* What the parts of the Board Agent share: one thread, which is always in  *)
(* one place, and how far a client's connection has come.                   *)
(***************************************************************************)
EXTENDS Integers, Sequences

\* Where the thread is: at select, at a read of PacketTransfer or of Reprogrammer
\* that may block, or nowhere, because the process has ended.
VARIABLE pc

PtReads == {"pt_header", "pt_packet"}
RpReads == {"rp_header", "rp_file"}
Places == {"select", "dead", "rp_exit"} \cup PtReads \cup RpReads

\* A connection that was accepted is up until the client closes it.
Conns == {"none", "up", "closed"}
=============================================================================
