----------------------------- MODULE BoardAgent -----------------------------
(***************************************************************************)
(* app/main.c: the select loop over the command port and the reprogram      *)
(* port.  One connection is accepted at a time, and its handler runs to its *)
(* end before the next select.                                              *)
(***************************************************************************)
EXTENDS PacketTransfer, Reprogrammer

VARIABLES
    cmd_waiting,    \* whether a client waits to be accepted at CMD_DATA_PORT
    reprog_waiting  \* whether one waits at REPROGRAM_PORT

waiting == <<cmd_waiting, reprog_waiting>>
vars == <<pc, pt_own, rp_own, waiting>>

\* The type invariant of the loop and its two handlers.
AgentTypeOK ==
    /\ PacketTransferTypeOK /\ ReprogrammerTypeOK
    /\ pc \in Places
    /\ cmd_waiting \in BOOLEAN /\ reprog_waiting \in BOOLEAN

AgentInit ==
    /\ PacketTransferInit /\ ReprogrammerInit
    /\ pc = "select"
    /\ cmd_waiting = FALSE /\ reprog_waiting = FALSE

-----------------------------------------------------------------------------
(* main. *)

accept_command ==
    /\ pc = "select" /\ cmd_waiting
    /\ cmd_waiting' = FALSE
    /\ packet_transfer_process
    /\ UNCHANGED <<rp_own, reprog_waiting>>

accept_reprogram ==
    /\ pc = "select" /\ reprog_waiting /\ ~cmd_waiting
    /\ reprog_waiting' = FALSE
    /\ reprogrammer_process
    /\ UNCHANGED <<pt_own, cmd_waiting>>

\* accept(2) fails, say for want of a descriptor.  exit: gather_board_destroy is given
\* the 1 that stands for the board and reads its descriptors at that address.
accept_fails ==
    /\ pc = "select" /\ (cmd_waiting \/ reprog_waiting)
    /\ pc' = "dead"
    /\ UNCHANGED <<pt_own, rp_own, waiting>>

main == accept_command \/ accept_reprogram \/ accept_fails

Connects ==
    /\ pc # "dead"
    /\ \/ ~cmd_waiting /\ cmd_waiting' = TRUE /\ UNCHANGED reprog_waiting
       \/ ~reprog_waiting /\ reprog_waiting' = TRUE /\ UNCHANGED cmd_waiting
    /\ UNCHANGED <<pc, pt_own, rp_own>>

UploaderCommands == process_one_command /\ UNCHANGED <<rp_own, waiting>>
Reprogram == ReprogrammerStep /\ UNCHANGED <<pt_own, waiting>>

Clients ==
    \/ (UploaderSends \/ UploaderCloses) /\ UNCHANGED <<rp_own, waiting>>
    \/ ProgrammerCloses /\ UNCHANGED <<pt_own, waiting>>
    \/ Connects

WildShows == wild_shows /\ UNCHANGED <<rp_own, waiting>>

Next == main \/ UploaderCommands \/ Reprogram \/ Clients \/ WildShows

Spec == AgentInit /\ [][Next]_vars

\* The thread runs when it is not blocked.  No client stays for ever, or nothing could
\* be promised to the next: the code has no timeout of its own.
Fairness ==
    /\ WF_vars(main) /\ WF_vars(UploaderCommands) /\ WF_vars(Reprogram)
    /\ WF_vars(UploaderCloses /\ UNCHANGED <<rp_own, waiting>>)
    /\ WF_vars(ProgrammerCloses /\ UNCHANGED <<pt_own, waiting>>)

FairSpec == Spec /\ Fairness

-----------------------------------------------------------------------------
(* Properties. *)

\* However a session ended, the thread comes back to select with neither handler's
\* connection open and no length begun (packet_transfer.c:468-470, reprogrammer.c:208-219).
\* What does stay is the stream of each hex file, although hex_fd is -1 again: once these
\* have used the descriptors up, no session has its file accepted any more.
OnlyStreamsStay ==
    [](pc = "select" =>
         /\ ~uploader_socket /\ ~server_socket /\ ~hex_fd /\ header = <<>>
         /\ streams = MaxStreams => [](reception.verdict # "accepted"))

\* Nothing that a client of the reprogram port does ends the agent, nor does a command that
\* came in parts.  It ends only when accept fails, or, some time after it used memory that
\* is none of its own, for a command that names no node, is longer than there is room for,
\* or had its length misread (main.c:109-165, packet_transfer.c:103, 138, 151).
AgentSurvives ==
    [][pc' = "dead" \/ wild' # wild =>
         \/ wild \/ pc = "select"
         \/ /\ pc = "pt_packet"
            /\ header # <<>> => header[1].port_id \notin Ports \/ header[1].size = "long"
      ]_<<pc, wild>>

\* A client of the command port is accepted in the end, behind any other, unless the agent
\* has ended or used foreign memory.
CommandPortServed == cmd_waiting ~> (~cmd_waiting \/ pc = "dead" \/ wild)

\* One of the reprogram port too, if from some time on no client of the command port
\* waits: those are preferred, and could return for ever (main.c:132-149).
ReprogramPortServed ==
    <>[]~cmd_waiting => (reprog_waiting ~> (~reprog_waiting \/ pc = "dead" \/ wild))
=============================================================================
