--------------------------- MODULE PacketTransfer ---------------------------
(***************************************************************************)
(* app/packet_transfer.c: commands of the uploader are read from its        *)
(* connection and kept until their node answers; what the FPGA board sends  *)
(* in pieces of 16 bytes is put together and passed on to the uploader.     *)
(*                                                                          *)
(* A command travels as four units: the two bytes of its length, and the    *)
(* two halves of its packet.  Nothing checks what is in it, nor the port    *)
(* that the board names.  A piece is what the code looks at in the 16       *)
(* bytes.  Of node_packet the model has the number of pieces in it, len,    *)
(* and the node whose packet begins with just these, of.  malloc(3) does    *)
(* not fail here.                                                           *)
(*                                                                          *)
(* The loop that calls process_one_response and send_response stands in a   *)
(* comment that asks for select (packet_transfer.c:441-457).  PtNext makes  *)
(* these calls between two commands; BoardAgent, as compiled, never.        *)
(***************************************************************************)
EXTENDS AgentProcess, SequencesExt

CONSTANTS
    NumNodes,       \* NODE_NUM
    Commands,       \* what uploaders send
    BoardPorts,     \* what the board may have in the four bits of a port
    RespTypes,      \* NODE_PAYLOAD_TYPE_RESP_* the nodes report, the current apart
    Parities,       \* what the parity byte of a first piece may be
    MaxPieces,      \* pieces that NODE_PACKET_MAX_SIZE has room for, a short last one too
    MaxJoined,      \* bound: pieces that are ever joined
    MaxCommands,    \* bound: commands kept, with which no other is sent
    MaxUnread       \* bound: units unread, with which no command is sent

Byte == 0..255

\* A packet of no byte, one that ends before its type, one that is whole, and one of more
\* than CMD_B_PACKET_MAX_SIZE bytes.
Sizes == {"none", "short", "fits", "long"}

ASSUME PacketTransferAssumption ==
    /\ NumNodes \in Nat \ {0}
    /\ Commands \subseteq [port_id : Byte, type : Byte, size : Sizes]
    /\ BoardPorts \subseteq 0..15
    /\ RespTypes \subseteq (17..47) \ {25}
    /\ Parities \subseteq Byte
    /\ MaxPieces \in Nat \ {0, 1}
    /\ MaxJoined \in Nat
    /\ MaxCommands \in Nat /\ MaxUnread \in Nat

VARIABLES
    uploader_socket,    \* whether PacketTransfer.uploader_socket is open
    command_set,        \* PacketTransfer.command_set
    response,           \* PacketTransfer.response
    packet_state,       \* the static variable of process_one_response
    header,             \* to_board_packet_len: <<the command it is of>>, <<>> if of none
    uploader,           \* the uploader's connection
    inbox,              \* units that arrived on it and were not read
    sending,            \* board: the packet whose pieces are coming, and its next piece
    disturbed,          \* history: the packet under assembly lost a piece or met a foreign one
    wild                \* history: memory was used that is not command_set's, node_packet's
                        \* or the command's

pt_own == <<uploader_socket, command_set, response, packet_state, header, uploader, inbox,
            sending, disturbed, wild>>

Ports == 0..(NumNodes - 1)

\* oint_protocol.h: the command that a response answers is 0x20 above it.  The sum is an
\* int, of which response_find_cb compares the low byte.
node_type_convert_resp_to_cmd(resp) == (resp + 32) % 256

CMD_POWER_SWITCH == 84

Units == Commands \X (1..4)
NoNode == -1

\* The type invariant of the PacketTransfer structure, its connection and the board.
PacketTransferTypeOK ==
    /\ uploader_socket \in BOOLEAN
    /\ command_set \in [Ports -> Seq(Commands)]
    /\ response \in [port_id : BoardPorts \cup {0}, type : Parities \cup {0}, len : Nat,
                     of : BoardPorts \cup {NoNode}]
    /\ packet_state \in {"IN_PACKET", "OUT_PACKET"}
    /\ header \in Seq(Commands)
    /\ uploader \in Conns
    /\ inbox \in Seq(Units)
    /\ sending \in [port : BoardPorts \cup {0}, type : RespTypes \cup {0}, next : 0..MaxPieces]
    /\ disturbed \in BOOLEAN /\ wild \in BOOLEAN

NotSending == [port |-> 0, type |-> 0, next |-> 0]

\* packet_transfer_create.
PacketTransferInit ==
    /\ uploader_socket = FALSE
    /\ command_set = [n \in Ports |-> <<>>]
    /\ response = [port_id |-> 0, type |-> 0, len |-> 0, of |-> NoNode]
    /\ packet_state = "OUT_PACKET"
    /\ header = <<>>
    /\ uploader = "none" /\ inbox = <<>>
    /\ sending = NotSending /\ disturbed = FALSE /\ wild = FALSE

-----------------------------------------------------------------------------
(* Commands. *)

\* packet_transfer_process begins with a connection that main has accepted.
packet_transfer_process ==
    /\ uploader_socket' = TRUE /\ uploader' = "up"
    /\ pc' = "pt_header"
    /\ UNCHANGED <<command_set, response, packet_state, header, inbox, sending, disturbed, wild>>

\* read(2) for n units returns one at least, and no more than have arrived.
Read(n, got) ==
    /\ got \in 1..n /\ got <= Len(inbox)
    /\ inbox' = SubSeq(inbox, got + 1, Len(inbox))

\* The length of the next command.  After a short read one of its bytes is what
\* malloc(3) left there, and the rest of the length is taken for the packet.
read_header ==
    /\ pc = "pt_header"
    /\ \E got \in 1..2 :
           /\ Read(2, got)
           /\ header' = IF got = 2 /\ inbox[1][2] = 1 THEN <<inbox[1][1]>> ELSE <<>>
    /\ pc' = "pt_packet"
    /\ UNCHANGED <<uploader_socket, command_set, response, packet_state, uploader, sending,
                   disturbed, wild>>

\* Every command but the power switch waits for an answer, the query of the current
\* too: the switch over the type has no break before its default.  The node is not
\* checked: one that is none has its list looked up behind command_set.  past says
\* that the packet was read past the end of to_board_packet.
handle_command(c, past) ==
    LET listed == c.type # CMD_POWER_SWITCH
    IN /\ command_set' = IF listed /\ c.port_id \in Ports
                         THEN [command_set EXCEPT ![c.port_id] = Append(@, c)]
                         ELSE command_set
       /\ wild' = (wild \/ past \/ (listed /\ c.port_id \notin Ports))

NextCommand ==
    /\ pc' = "pt_header" /\ header' = <<>>
    /\ UNCHANGED <<uploader_socket, response, packet_state, uploader, sending, disturbed>>

\* The packet of the length that was read, whole.
read_packet ==
    /\ pc = "pt_packet" /\ header # <<>>
    /\ header[1].size \in {"fits", "long"}
    /\ Read(2, 2)
    /\ handle_command(header[1], header[1].size = "long")
    /\ NextCommand

Kept == MapThenSumSet(LAMBDA p : Len(command_set[p]), Ports)

\* Mutant: the port of a packet that came in part is taken from beyond it.
read_packet_misread_port ==
    /\ pc = "pt_packet"
    /\ \E got \in 1..Len(inbox) :
           /\ Read(Len(inbox), got)
           /\ pc' = "dead"
    /\ UNCHANGED <<uploader_socket, command_set, response, packet_state, header, uploader,
                   sending, disturbed, wild>>

\* A packet that is not what the uploader sent: without its end, so that its type may be
\* a byte nobody wrote, or of a length that is no length, so that it may be any bytes
\* that came, and more than there is room for.
read_packet_misread ==
    /\ pc = "pt_packet"
    /\ header # <<>> => header[1].size # "none"
    /\ \E got \in 1..Len(inbox), c \in Commands, past \in BOOLEAN :
           /\ header # <<>> =>
                  /\ got = 1 \/ (got = 2 /\ header[1].size = "short")
                  /\ c.port_id = header[1].port_id
                  /\ past => header[1].size = "long"
           /\ Kept < MaxCommands \/ c.type = CMD_POWER_SWITCH
           /\ Read(Len(inbox), got)
           /\ handle_command(c, past)
    /\ NextCommand

\* Mutant: an end of the stream within a packet is read again.
connection_ends_between ==
    /\ pc = "pt_header"
    /\ uploader = "closed"
    /\ uploader_socket' = FALSE /\ header' = <<>>
    /\ uploader' = "none" /\ inbox' = <<>>
    /\ pc' = "select"
    /\ UNCHANGED <<command_set, response, packet_state, sending, disturbed, wild>>

\* The process returns to main: read(2) said 0 or -1, or was asked for 0 bytes.
connection_ends ==
    /\ pc \in PtReads
    /\ \/ uploader = "closed"
       \/ pc = "pt_packet" /\ (header # <<>> => header[1].size = "none")
    /\ uploader_socket' = FALSE /\ header' = <<>>
    /\ uploader' = "none" /\ inbox' = <<>>
    /\ pc' = "select"
    /\ UNCHANGED <<command_set, response, packet_state, sending, disturbed, wild>>

-----------------------------------------------------------------------------
(* Responses: process_one_response, handle_response and send_response. *)

\* Mutant: the last command of the type.
dlist_find_last(list, type) ==
    LET match == {i \in 1..Len(list) : list[i].type = type}
    IN IF match = {} THEN Len(list) ELSE Max(match) - 1

\* dlist_find with response_find_cb: the index of the first command of the type, or
\* the length when there is none.
dlist_find(list, type) ==
    LET match == {i \in 1..Len(list) : list[i].type = type}
    IN IF match = {} THEN Len(list) ELSE Min(match) - 1

\* dlist_delete ignores an index out of range.
dlist_delete(list, index) ==
    IF index < Len(list) THEN RemoveAt(list, index + 1) ELSE list

\* write(2) of the whole packet: nothing ignores the SIGPIPE of a closed connection.
send_response ==
    \/ pc' = "pt_header"
    \/ uploader = "closed" /\ pc' = "dead"

\* Mutant: a list without the command ends the process, as an empty one does.
handle_response_unasked ==
    LET port == response.port_id
        list == command_set[port]
        index == dlist_find(list, node_type_convert_resp_to_cmd(response.type))
    IN \/ /\ port \in Ports /\ index # Len(list)
          /\ command_set' = [command_set EXCEPT ![port] = dlist_delete(@, index)]
          /\ send_response
       \/ port \in Ports /\ index = Len(list) /\ pc' = "dead" /\ UNCHANGED command_set
       \/ port \notin Ports /\ UNCHANGED command_set /\ send_response

\* The command that is found is removed; dlist_delete reads through the null head of an
\* empty list.  The list of a port that has no node is whatever is behind command_set.
\* The LED calls do nothing: their guards refuse LED_ON.
handle_response ==
    LET port == response.port_id
        list == command_set[port]
        index == dlist_find(list, node_type_convert_resp_to_cmd(response.type))
    IN \/ /\ port \in Ports /\ list # <<>>
          /\ command_set' = [command_set EXCEPT ![port] = dlist_delete(@, index)]
          /\ send_response
       \/ port \in Ports /\ list = <<>> /\ pc' = "dead" /\ UNCHANGED command_set
       \/ port \notin Ports /\ UNCHANGED command_set /\ send_response

\* What one read of the board returns.  The parity of a current is the constant 0x11,
\* so that even_check passes only some; kind "none" is 0xFF or an impossible length.
Pieces ==
    {[kind |-> "none", ok |-> TRUE]}
    \cup [kind : {"current"}, port : BoardPorts, ok : BOOLEAN]
    \cup [kind : {"data"}, port : BoardPorts, type : RespTypes, index : 1..MaxPieces,
          last : BOOLEAN, ok : BOOLEAN]

\* The board sends the pieces of one packet in order, a packet that fits, and of two
\* pieces at least.  It may give one up for the next, and currents come between.
BoardSends(p) ==
    IF p.kind # "data" THEN UNCHANGED sending
    ELSE /\ p.index > 1 => /\ p.index = sending.next
                           /\ p.port = sending.port /\ p.type = sending.type
         /\ p.last => p.index > 1
         /\ p.index = MaxPieces => p.last
         /\ sending' = IF p.last THEN NotSending
                       ELSE [port |-> p.port, type |-> p.type, next |-> p.index + 1]

\* The packet under assembly and what the node sends are no longer the same.
Disturbs(p) ==
    /\ packet_state = "IN_PACKET" /\ p.kind # "none"
    /\ \/ p.kind = "data" /\ (~p.ok \/ p.index = 1)
       \/ p.kind = "current" /\ p.ok

ResponseRead(p) ==
    /\ pc = "pt_header"
    /\ BoardSends(p)
    /\ UNCHANGED <<uploader_socket, header, uploader, inbox>>

\* RET_FAIL: the parity is wrong, there is no packet, or a piece without a head.
piece_dropped ==
    \E p \in Pieces :
        /\ ResponseRead(p)
        /\ \/ ~p.ok \/ p.kind = "none"
           \/ p.kind = "data" /\ packet_state = "OUT_PACKET" /\ p.index > 1
        /\ disturbed' = (disturbed \/ Disturbs(p))
        /\ UNCHANGED <<pc, command_set, response, packet_state, wild>>

\* A current is sent on at once; a packet under assembly is overwritten by it, and by
\* more bytes than a piece has.
current_piece ==
    \E p \in Pieces :
        /\ p.kind = "current" /\ p.ok
        /\ ResponseRead(p)
        /\ response' = [response EXCEPT !.port_id = p.port, !.len = 2, !.of = NoNode]
        /\ disturbed' = (disturbed \/ Disturbs(p))
        /\ send_response
        /\ UNCHANGED <<command_set, packet_state, wild>>

\* Mutant: the structure is not reset for a new packet.
head_piece_no_reset ==
    \E p \in Pieces, parity \in Parities :
        /\ p.kind = "data" /\ p.ok /\ p.index = 1 /\ packet_state = "OUT_PACKET"
        /\ ResponseRead(p)
        /\ packet_state' = "IN_PACKET"
        /\ response.len < MaxJoined
        /\ response' = [port_id |-> p.port, type |-> parity, len |-> response.len + 1,
                        of |-> IF response.len = 0 THEN p.port ELSE NoNode]
        /\ disturbed' = FALSE
        /\ UNCHANGED <<pc, command_set, wild>>

\* Mutant: the node's number is kept in place of its port.
head_piece_node_id ==
    \E p \in Pieces, parity \in Parities :
        /\ p.kind = "data" /\ p.ok /\ p.index = 1 /\ packet_state = "OUT_PACKET"
        /\ ResponseRead(p)
        /\ packet_state' = "IN_PACKET"
        /\ response' = [port_id |-> p.port + 1, type |-> parity, len |-> 1, of |-> p.port]
        /\ disturbed' = FALSE
        /\ UNCHANGED <<pc, command_set, wild>>

\* RESP_B_TYPE_INDEX is 5 + 10: not the type of the packet, which is in its second piece,
\* but the last of the 16 bytes, the parity over all the others.
head_piece ==
    \E p \in Pieces, parity \in Parities :
        /\ p.kind = "data" /\ p.ok /\ p.index = 1 /\ packet_state = "OUT_PACKET"
        /\ ResponseRead(p)
        /\ packet_state' = "IN_PACKET"
        /\ response' = [port_id |-> p.port, type |-> parity, len |-> 1, of |-> p.port]
        /\ disturbed' = FALSE
        /\ UNCHANGED <<pc, command_set, wild>>

\* Any data piece continues the packet, of whatever port and be it a head.  Nothing stops
\* at the end of node_packet: past it, or in the last piece perhaps, for not all are full,
\* what follows in memory is written.
next_piece ==
    \E p \in Pieces, past \in BOOLEAN :
        /\ p.kind = "data" /\ p.ok /\ packet_state = "IN_PACKET"
        /\ ResponseRead(p)
        /\ disturbed' = (disturbed \/ Disturbs(p))
        /\ response.len < MaxJoined
        /\ LET follows == p.port = response.of /\ p.index = response.len + 1
           IN /\ past => ~follows /\ response.len >= MaxPieces - 1
              /\ response.len >= MaxPieces => past
              /\ response' = [response EXCEPT !.len = @ + 1,
                                              !.of = IF follows THEN @ ELSE NoNode]
        /\ packet_state' = IF p.last THEN "OUT_PACKET" ELSE "IN_PACKET"
        /\ wild' = (wild \/ past \/ (p.last /\ response.port_id \notin Ports))
        /\ \/ p.last /\ handle_response
           \/ ~p.last /\ UNCHANGED <<pc, command_set>>

process_one_response == piece_dropped \/ current_piece \/ head_piece \/ next_piece

-----------------------------------------------------------------------------
(* The uploader. *)

UploaderSends ==
    /\ pc \in PtReads /\ uploader = "up"
    /\ Kept < MaxCommands /\ Len(inbox) < MaxUnread
    /\ \E c \in Commands :
           inbox' = inbox \o [u \in 1..(IF c.size = "none" THEN 2 ELSE 4) |-> <<c, u>>]
    /\ UNCHANGED <<pc, uploader_socket, command_set, response, packet_state, header, uploader,
                   sending, disturbed, wild>>

UploaderCloses ==
    /\ pc \in PtReads /\ uploader = "up"
    /\ uploader' = "closed"
    /\ UNCHANGED <<pc, uploader_socket, command_set, response, packet_state, header, inbox,
                   sending, disturbed, wild>>

\* What was done to foreign memory ends the process some time, or never.  What else it may
\* change is not modelled; the properties say what they promise while nothing was done.
wild_shows ==
    /\ wild /\ pc # "dead"
    /\ pc' = "dead"
    /\ UNCHANGED pt_own

process_one_command == read_header \/ read_packet \/ read_packet_misread \/ connection_ends

\* The caller: main, which has accepted an uploader.
PtCall == pc = "select" /\ packet_transfer_process

PtInit == PacketTransferInit /\ pc = "select"

PtNext ==
    \/ PtCall
    \/ process_one_command \/ process_one_response
    \/ UploaderSends \/ UploaderCloses
    \/ wild_shows

PtSpec == PtInit /\ [][PtNext]_<<pc, pt_own>>

-----------------------------------------------------------------------------
(* Properties. *)

\* A packet of which no piece was lost, and which nothing came between, is passed on as
\* the node sent it: its own pieces, all of them, in order (packet_transfer.c:322-373).
\* This property and the next are of a process that has not used foreign memory.
Undisturbed == packet_state = "IN_PACKET" /\ ~disturbed

ResponsesWhole ==
    [][Undisturbed /\ ~wild /\ packet_state' = "OUT_PACKET" =>
       /\ sending' = NotSending
       /\ response'.port_id = sending.port
       /\ response'.of = sending.port /\ response'.len = sending.next]_packet_state

\* A report whose pieces nothing disturbed is never written past node_packet, and it ends
\* the process only if its port has no node, if no command is kept for that node, or if
\* the uploader has left: not because no kept command asked for it, nor for its length
\* (packet_transfer.c:175-191, 322-373).
ReportsSurvived ==
    [][pc = "pt_header" /\ (pc' = "dead" \/ wild' # wild) =>
         \/ wild \/ disturbed' \/ uploader = "closed"
         \/ sending.port \notin Ports \/ command_set[sending.port] = <<>>]_<<pc, wild>>

\* Only a report takes a command off a list, one at most, off the list of its own port;
\* and of the commands of the type looked for it is the oldest (packet_transfer.c:186-190).
\* The type looked for comes from the parity byte: what the node answers is not in it.
Earlier(n, k) == SubSeq(command_set[n], 1, k)

AnswerRemovesOldest ==
    [][\A n \in Ports :
           Len(command_set'[n]) < Len(command_set[n]) /\ ~wild =>
               /\ n = response.port_id /\ (~disturbed => n = sending.port)
               /\ \E k \in 1..Len(command_set[n]) :
                      /\ command_set[n][k].type = node_type_convert_resp_to_cmd(response.type)
                      /\ \A i \in 1..(k - 1) : command_set[n][i].type # command_set[n][k].type
                      /\ command_set'[n] = Earlier(n, k - 1)
                                           \o SubSeq(command_set[n], k + 1, Len(command_set[n]))
      ]_command_set
=============================================================================
