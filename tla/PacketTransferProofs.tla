------------------------ MODULE PacketTransferProofs ------------------------
(***************************************************************************)
(* For any number of nodes, commands and pieces: the types of               *)
(* PacketTransfer; that a packet nothing disturbed is passed on whole, that *)
(* a report removes the oldest command of the type it is taken for, and     *)
(* which reports end the process.                                           *)
(***************************************************************************)
EXTENDS PacketTransfer, SequenceTheorems, WellFoundedInduction, TLAPS

USE PacketTransferAssumption

-----------------------------------------------------------------------------
(* Commands: types, and what is held between two of them. *)

\* What each step of packet_transfer_process keeps, in the agent too.
TransferInvariant ==
    /\ PacketTransferTypeOK /\ pc \in Places
    /\ uploader_socket => pc \in PtReads \cup {"dead"}
    /\ header # <<>> => pc \in PtReads \cup {"dead"}

\* What read(2) leaves of the inbox is a sequence of units, and it took some.
LEMMA ReadKeepsInbox ==
    ASSUME PacketTransferTypeOK, NEW n, NEW got, Read(n, got)
    PROVE  inbox' \in Seq(Units) /\ inbox # <<>> /\ got \in Nat
<1>1. inbox \in Seq(Units) /\ got \in Int /\ 1 <= got /\ got <= Len(inbox)
  BY DEF Read, PacketTransferTypeOK
<1>2. SubSeq(inbox, got + 1, Len(inbox)) \in Seq(Units)
  BY <1>1
<1>3. QED BY <1>1, <1>2 DEF Read

\* A kept command is appended to the list of its node, if that is one.
LEMMA CommandKept ==
    ASSUME PacketTransferTypeOK, NEW c \in Commands, NEW past \in BOOLEAN,
           handle_command(c, past)
    PROVE  command_set' \in [Ports -> Seq(Commands)] /\ wild' \in BOOLEAN
<1>1. command_set \in [Ports -> Seq(Commands)] /\ wild \in BOOLEAN
  BY DEF PacketTransferTypeOK
<1>2. wild' \in BOOLEAN
  BY ONLY <1>1, past \in BOOLEAN, handle_command(c, past) DEF handle_command
<1>3. CASE c.port_id \in Ports
  <2>1. Append(command_set[c.port_id], c) \in Seq(Commands)
    BY <1>1, <1>3
  <2>2. QED BY <1>1, <1>2, <2>1 DEF handle_command
<1>4. CASE c.port_id \notin Ports
  BY <1>1, <1>2, <1>4 DEF handle_command
<1>5. QED BY <1>3, <1>4

\* The uploader is accepted with no header of an earlier command.
LEMMA AcceptCommand ==
    ASSUME TransferInvariant, packet_transfer_process
    PROVE  TransferInvariant'
  BY DEF TransferInvariant, packet_transfer_process, PacketTransferTypeOK, PtReads, Places, Conns

\* A header that was read is none or the first command's of the inbox.
LEMMA ReadHeader ==
    ASSUME TransferInvariant, read_header
    PROVE  TransferInvariant'
<1> USE DEF TransferInvariant, read_header
<1>1. PICK got \in 1..2 :
          /\ Read(2, got)
          /\ header' = IF got = 2 /\ inbox[1][2] = 1 THEN <<inbox[1][1]>> ELSE <<>>
  OBVIOUS
<1>2. inbox' \in Seq(Units) /\ inbox # <<>> /\ inbox \in Seq(Units)
  BY <1>1, ReadKeepsInbox DEF PacketTransferTypeOK
<1>3. inbox[1] \in Units
  BY <1>2
<1>4. inbox[1][1] \in Commands
  BY <1>3 DEF Units
<1>5. header' \in Seq(Commands)
  <2>1. <<inbox[1][1]>> \in Seq(Commands) /\ <<>> \in Seq(Commands)
    BY <1>4
  <2>2. QED BY <1>1, <2>1
<1>6. QED BY <1>2, <1>5 DEF PacketTransferTypeOK, PtReads, Places

\* The packet of a header that was read is a command, and is kept.
LEMMA ReadPacket ==
    ASSUME TransferInvariant, read_packet
    PROVE  TransferInvariant'
<1> USE DEF TransferInvariant, read_packet, NextCommand
<1>1. header \in Seq(Commands) /\ header # <<>>
  BY DEF PacketTransferTypeOK
<1>2. header[1] \in Commands
  BY <1>1
<1>3. command_set' \in [Ports -> Seq(Commands)] /\ wild' \in BOOLEAN
  <2>1. (header[1].size = "long") \in BOOLEAN
    OBVIOUS
  <2>2. QED BY <1>2, <2>1, CommandKept
<1>4. inbox' \in Seq(Units)
  BY ReadKeepsInbox
<1>5. <<>> \in Seq(Commands)
  OBVIOUS
<1>6. QED BY <1>3, <1>4, <1>5 DEF PacketTransferTypeOK, PtReads, Places

\* A misread packet is kept as some command.
LEMMA ReadPacketMisread ==
    ASSUME TransferInvariant, read_packet_misread
    PROVE  TransferInvariant'
<1> USE DEF TransferInvariant, NextCommand
<1>1. PICK got \in 1..Len(inbox), c \in Commands, past \in BOOLEAN :
          Read(Len(inbox), got) /\ handle_command(c, past)
  BY DEF read_packet_misread
<1>2. NextCommand /\ pc = "pt_packet"
  BY DEF read_packet_misread
<1>3. inbox' \in Seq(Units)
  BY <1>1, ReadKeepsInbox
<1>4. command_set' \in [Ports -> Seq(Commands)] /\ wild' \in BOOLEAN
  BY <1>1, CommandKept
<1>5. <<>> \in Seq(Commands)
  OBVIOUS
<1>6. QED BY <1>2, <1>3, <1>4, <1>5 DEF PacketTransferTypeOK, PtReads, Places

\* The end of a connection leaves neither socket nor header.
LEMMA ConnectionEnds ==
    ASSUME TransferInvariant, connection_ends
    PROVE  TransferInvariant'
<1>1. <<>> \in Seq(Commands) /\ <<>> \in Seq(Units)
  OBVIOUS
<1>2. QED
  BY <1>1 DEF TransferInvariant, connection_ends, PacketTransferTypeOK, PtReads, Places, Conns

\* What the uploader sends are units.
LEMMA UploaderSendsType ==
    ASSUME TransferInvariant, UploaderSends
    PROVE  TransferInvariant'
<1>1. PICK c \in Commands, n \in {2, 4} : inbox' = inbox \o [u \in 1..n |-> <<c, u>>]
  BY DEF UploaderSends
<1>2. [u \in 1..n |-> <<c, u>>] \in Seq(Units)
  <2>1. \A u \in 1..n : <<c, u>> \in Units
    BY DEF Units
  <2>2. [u \in 1..n |-> <<c, u>>] \in [1..n -> Units]
    BY <2>1
  <2>3. n \in Nat
    OBVIOUS
  <2>4. QED BY <2>2, <2>3, SeqDef
<1>3. inbox' \in Seq(Units)
  BY <1>1, <1>2 DEF TransferInvariant, PacketTransferTypeOK
<1>4. QED
  BY <1>3 DEF TransferInvariant, UploaderSends, PacketTransferTypeOK

\* A close of the uploader changes its connection only.
LEMMA UploaderClosesType ==
    ASSUME TransferInvariant, UploaderCloses
    PROVE  TransferInvariant'
  BY DEF TransferInvariant, UploaderCloses, PacketTransferTypeOK, Conns

\* No command ends the process at once, and none uses foreign memory but a packet: one of
\* a length that is none or of more bytes than there is room for, or one to be kept for a
\* node that is none.
LEMMA CommandPlaces ==
    ASSUME process_one_command
    PROVE  pc \in PtReads /\ pc' \in PtReads \cup {"select"}
<1>1. CASE read_header \/ read_packet \/ connection_ends
  BY <1>1 DEF read_header, read_packet, connection_ends, NextCommand, PtReads
<1>2. CASE read_packet_misread
  BY <1>2 DEF read_packet_misread, NextCommand, PtReads
<1>3. QED BY <1>1, <1>2 DEF process_one_command

-----------------------------------------------------------------------------
(* Responses: types. *)

\* The board sends pieces of a packet that fits, and knows which is next.
LEMMA BoardSendsType ==
    ASSUME PacketTransferTypeOK, NEW p \in Pieces, BoardSends(p)
    PROVE  sending' \in [port : BoardPorts \cup {0}, type : RespTypes \cup {0}, next : 0..MaxPieces]
<1>1. CASE p.kind # "data"
  BY <1>1 DEF BoardSends, PacketTransferTypeOK
<1>2. CASE p.kind = "data"
  <2>1. p.port \in BoardPorts /\ p.type \in RespTypes /\ p.index \in 1..MaxPieces
    BY <1>2 DEF Pieces
  <2>2. CASE p.last
    <3>1. 0 \in 0..MaxPieces
      OBVIOUS
    <3>2. QED BY <1>2, <2>2, <3>1 DEF BoardSends, NotSending
  <2>3. CASE ~p.last
    <3>1. p.index # MaxPieces /\ sending' = [port |-> p.port, type |-> p.type, next |-> p.index + 1]
      BY <1>2, <2>3 DEF BoardSends
    <3>2. p.index + 1 \in 0..MaxPieces
      BY <2>1, <3>1
    <3>3. QED BY <2>1, <3>1, <3>2
  <2>4. QED BY <2>2, <2>3
<1>3. QED BY <1>1, <1>2

\* What was read of the board tells the fields of a piece by its kind.
LEMMA PieceType ==
    ASSUME NEW p \in Pieces
    PROVE  /\ p.kind \in {"none", "current", "data"} /\ p.ok \in BOOLEAN
           /\ p.kind = "current" => p.port \in BoardPorts
           /\ p.kind = "data" => /\ p.port \in BoardPorts /\ p.type \in RespTypes
                                 /\ p.index \in 1..MaxPieces /\ p.last \in BOOLEAN
<1>1. CASE p = [kind |-> "none", ok |-> TRUE]
  BY <1>1
<1>2. CASE p \in [kind : {"current"}, port : BoardPorts, ok : BOOLEAN]
  BY <1>2
<1>3. CASE p \in [kind : {"data"}, port : BoardPorts, type : RespTypes, index : 1..MaxPieces,
                  last : BOOLEAN, ok : BOOLEAN]
  BY <1>3
<1>4. QED BY <1>1, <1>2, <1>3 DEF Pieces

\* dlist_delete of what dlist_find found leaves commands.
LEMMA DeleteType ==
    ASSUME NEW list \in Seq(Commands), NEW index \in Nat
    PROVE  dlist_delete(list, index) \in Seq(Commands)
<1>1. CASE index < Len(list)
  <2>1. /\ SubSeq(list, 1, (index + 1) - 1) \in Seq(Commands)
        /\ SubSeq(list, (index + 1) + 1, Len(list)) \in Seq(Commands)
    BY <1>1
  <2>2. SubSeq(list, 1, (index + 1) - 1) \o SubSeq(list, (index + 1) + 1, Len(list)) \in Seq(Commands)
    BY <2>1
  <2>3. QED BY <1>1, <2>2 DEF dlist_delete, RemoveAt
<1>2. CASE ~(index < Len(list))
  BY <1>2 DEF dlist_delete
<1>3. QED BY <1>1, <1>2

\* The relation < on natural numbers, as a set of pairs, is well-founded.
Less == {p \in Nat \X Nat : p[1] < p[2]}

\* No sequence of natural numbers descends for ever.
LEMMA LessWellFounded == IsWellFoundedOn(Less, Nat)
<1>1. IsWellFoundedOn({p \in Nat \X Nat : p[1] < p[2]}, Nat)
  BY ONLY NatLessThanWellFounded DEF OpToRel
<1>2. QED BY <1>1 DEF Less

\* A set of natural numbers that is not empty has a least element, its Min.
LEMMA MinIsLeast ==
    ASSUME NEW S \in SUBSET Nat, S # {}
    PROVE  Min(S) \in S /\ \A y \in S : Min(S) <= y
<1>1. PICK x \in S : \A y \in S : <<y, x>> \notin Less
  BY ONLY LessWellFounded, WFMin, S \in SUBSET Nat, S # {}
<1>2. \A y \in S : x <= y
  <2>1. SUFFICES ASSUME NEW y \in S PROVE x <= y
    OBVIOUS
  <2>2. x \in Nat /\ y \in Nat
    OBVIOUS
  <2>3. ~(y < x)
    BY <1>1, <2>2 DEF Less
  <2>4. QED BY <2>2, <2>3
<1>3. QED BY <1>2 DEF Min

\* dlist_find: the first command of the type, or the length.
LEMMA FindsFirst ==
    ASSUME NEW list \in Seq(Commands), NEW type
    PROVE  \/ /\ dlist_find(list, type) = Len(list)
              /\ \A i \in 1..Len(list) : list[i].type # type
           \/ \E k \in 1..Len(list) :
                 /\ dlist_find(list, type) = k - 1
                 /\ list[k].type = type
                 /\ \A i \in 1..(k - 1) : list[i].type # type
<1> DEFINE match == {i \in 1..Len(list) : list[i].type = type}
<1>1. CASE match = {}
  BY <1>1 DEF dlist_find
<1>2. CASE match # {}
  <2>1. match \in SUBSET Nat
    OBVIOUS
  <2>2. Min(match) \in match /\ \A y \in match : Min(match) <= y
    BY ONLY <1>2, <2>1, MinIsLeast
  <2>3. PICK k : k = Min(match)
    OBVIOUS
  <2>4. k \in 1..Len(list) /\ list[k].type = type /\ \A y \in match : k <= y
    BY <2>2, <2>3
  <2>5. \A i \in 1..(k - 1) : list[i].type # type
    <3>1. SUFFICES ASSUME NEW i \in 1..(k - 1), list[i].type = type PROVE FALSE
      OBVIOUS
    <3>2. i \in 1..Len(list) /\ i < k
      BY <2>4
    <3>3. i \in match
      BY <3>1, <3>2
    <3>4. QED BY <2>4, <3>2, <3>3
  <2>6. dlist_find(list, type) = k - 1
    BY <1>2, <2>3 DEF dlist_find
  <2>7. QED BY <2>4, <2>5, <2>6
<1>3. QED BY <1>1, <1>2

\* An answer leaves commands on the lists, and the thread alive or dead.
LEMMA AnswerType ==
    ASSUME PacketTransferTypeOK, handle_response
    PROVE  command_set' \in [Ports -> Seq(Commands)] /\ pc' \in {"pt_header", "dead"}
<1> DEFINE n == response.port_id
           type == node_type_convert_resp_to_cmd(response.type)
           index == dlist_find(command_set[n], type)
<1>1. command_set \in [Ports -> Seq(Commands)]
  BY DEF PacketTransferTypeOK
<1>2. CASE n \in Ports /\ command_set[n] # <<>>
  <2>1. command_set[n] \in Seq(Commands)
    BY <1>1, <1>2
  <2>2. index \in Nat
    <3>1. Len(command_set[n]) \in Nat
      BY <2>1
    <3>2. QED BY <2>1, <3>1, FindsFirst
  <2>3. dlist_delete(command_set[n], index) \in Seq(Commands)
    BY <2>1, <2>2, DeleteType
  <2>4. /\ command_set' = [command_set EXCEPT ![n] = dlist_delete(@, index)]
        /\ send_response
    BY <1>2 DEF handle_response
  <2>5. QED BY <1>1, <2>3, <2>4 DEF send_response
<1>3. CASE ~(n \in Ports /\ command_set[n] # <<>>)
  <2>1. pc' \in {"pt_header", "dead"} /\ UNCHANGED command_set
    BY <1>3 DEF handle_response, send_response
  <2>2. QED BY <1>1, <2>1
<1>4. QED BY <1>2, <1>3

\* The four outcomes of process_one_response keep the types, and the thread stays where
\* it was unless the process dies.
LEMMA ResponseStep ==
    ASSUME TransferInvariant, process_one_response
    PROVE  TransferInvariant' /\ pc = "pt_header" /\ pc' \in {"pt_header", "dead"}
<1> USE DEF TransferInvariant
<1> DEFINE rest == UNCHANGED <<uploader_socket, header, uploader, inbox>>
<1>1. CASE piece_dropped
  <2>1. PICK p \in Pieces : /\ ResponseRead(p)
                            /\ disturbed' = (disturbed \/ Disturbs(p))
                            /\ UNCHANGED <<pc, command_set, response, packet_state, wild>>
    BY <1>1 DEF piece_dropped
  <2>2. sending' \in [port : BoardPorts \cup {0}, type : RespTypes \cup {0}, next : 0..MaxPieces]
    BY <2>1, BoardSendsType DEF ResponseRead
  <2>3. disturbed' \in BOOLEAN
    BY <2>1 DEF PacketTransferTypeOK, Disturbs
  <2>4. QED BY <2>1, <2>2, <2>3 DEF ResponseRead, PacketTransferTypeOK
<1>2. CASE current_piece
  <2>1. PICK p \in Pieces :
            /\ p.kind = "current" /\ ResponseRead(p)
            /\ response' = [response EXCEPT !.port_id = p.port, !.len = 2, !.of = NoNode]
            /\ disturbed' = (disturbed \/ Disturbs(p))
            /\ send_response
            /\ UNCHANGED <<command_set, packet_state, wild>>
    BY <1>2 DEF current_piece
  <2>2. sending' \in [port : BoardPorts \cup {0}, type : RespTypes \cup {0}, next : 0..MaxPieces]
    BY <2>1, BoardSendsType DEF ResponseRead
  <2>3. disturbed' \in BOOLEAN
    BY <2>1 DEF PacketTransferTypeOK, Disturbs
  <2>4. response' \in [port_id : BoardPorts \cup {0}, type : Parities \cup {0}, len : Nat,
                       of : BoardPorts \cup {NoNode}]
    <3>1. p.port \in BoardPorts /\ 2 \in Nat
      BY <2>1, PieceType
    <3>2. QED BY <2>1, <3>1 DEF PacketTransferTypeOK
  <2>5. pc = "pt_header" /\ pc' \in {"pt_header", "dead"} /\ rest
    BY <2>1 DEF ResponseRead, send_response
  <2>6. QED BY <2>1, <2>2, <2>3, <2>4, <2>5 DEF PacketTransferTypeOK, PtReads, Places
<1>3. CASE head_piece
  <2>1. PICK p \in Pieces, parity \in Parities :
            /\ p.kind = "data" /\ ResponseRead(p)
            /\ packet_state' = "IN_PACKET"
            /\ response' = [port_id |-> p.port, type |-> parity, len |-> 1, of |-> p.port]
            /\ disturbed' = FALSE
            /\ UNCHANGED <<pc, command_set, wild>>
    BY <1>3 DEF head_piece
  <2>2. sending' \in [port : BoardPorts \cup {0}, type : RespTypes \cup {0}, next : 0..MaxPieces]
    BY <2>1, BoardSendsType DEF ResponseRead
  <2>3. response' \in [port_id : BoardPorts \cup {0}, type : Parities \cup {0}, len : Nat,
                       of : BoardPorts \cup {NoNode}]
    <3>1. p.port \in BoardPorts /\ 1 \in Nat
      BY <2>1, PieceType
    <3>2. QED BY <2>1, <3>1
  <2>4. QED BY <2>1, <2>2, <2>3 DEF ResponseRead, PacketTransferTypeOK
<1>4. CASE next_piece
  <2>1. PICK p \in Pieces, past \in BOOLEAN :
            /\ ResponseRead(p)
            /\ disturbed' = (disturbed \/ Disturbs(p))
            /\ \E of \in {response.of, NoNode} :
                   response' = [response EXCEPT !.len = @ + 1, !.of = of]
            /\ packet_state' \in {"IN_PACKET", "OUT_PACKET"}
            /\ wild' = (wild \/ past \/ (p.last /\ response.port_id \notin Ports))
            /\ handle_response \/ UNCHANGED <<pc, command_set>>
    BY <1>4 DEF next_piece
  <2>2. sending' \in [port : BoardPorts \cup {0}, type : RespTypes \cup {0}, next : 0..MaxPieces]
    BY <2>1, BoardSendsType DEF ResponseRead
  <2>3. disturbed' \in BOOLEAN /\ wild' \in BOOLEAN
    BY <2>1 DEF PacketTransferTypeOK, Disturbs
  <2>4. response' \in [port_id : BoardPorts \cup {0}, type : Parities \cup {0}, len : Nat,
                       of : BoardPorts \cup {NoNode}]
    <3>1. PICK of \in {response.of, NoNode} :
              response' = [response EXCEPT !.len = @ + 1, !.of = of]
      BY <2>1
    <3>2. response.len + 1 \in Nat /\ of \in BoardPorts \cup {NoNode}
      BY DEF PacketTransferTypeOK
    <3>3. QED BY <3>1, <3>2 DEF PacketTransferTypeOK
  <2>5. pc = "pt_header" /\ rest
    BY <2>1 DEF ResponseRead
  <2>6. command_set' \in [Ports -> Seq(Commands)] /\ pc' \in {"pt_header", "dead"}
    BY <2>1, <2>5, AnswerType DEF PacketTransferTypeOK
  <2>7. QED
    BY <2>1, <2>2, <2>3, <2>4, <2>5, <2>6 DEF PacketTransferTypeOK, PtReads, Places
<1>5. QED BY <1>1, <1>2, <1>3, <1>4 DEF process_one_response, ResponseRead

-----------------------------------------------------------------------------
(* The packet under assembly and what the node sends. *)

\* While nothing disturbs it, node_packet holds the pieces the node has sent of the
\* packet, and the next is the one the node will send.
Assembled ==
    Undisturbed =>
        /\ response.port_id = sending.port /\ response.of = sending.port
        /\ sending.next = response.len + 1

PtInvariant == TransferInvariant /\ Assembled

\* The next piece of a packet that stays undisturbed is the one the node is about to
\* send, and there is room for it.
LEMMA NextPieceFollows ==
    ASSUME PtInvariant, Undisturbed, NEW p \in Pieces, p.kind = "data", p.ok, BoardSends(p),
           ~Disturbs(p)
    PROVE  /\ p.index > 1 /\ p.index = sending.next
           /\ p.port = sending.port /\ p.type = sending.type
           /\ p.port = response.of /\ p.index = response.len + 1
           /\ p.last \/ p.index < MaxPieces
<1>1. p.port \in BoardPorts /\ p.type \in RespTypes /\ p.index \in 1..MaxPieces /\ p.last \in BOOLEAN
  BY PieceType
<1>2. p.index # 1
  BY DEF Undisturbed, Disturbs
<1>3. p.index > 1 /\ p.index = sending.next /\ p.port = sending.port /\ p.type = sending.type
  BY <1>1, <1>2 DEF BoardSends
<1>4. response.of = sending.port /\ sending.next = response.len + 1
  BY DEF PtInvariant, Assembled
<1>5. p.last \/ p.index < MaxPieces
  BY <1>1 DEF BoardSends
<1>6. QED BY <1>3, <1>4, <1>5

\* The outcomes of the next piece, with what it disturbs.
NextPiece(p, past) ==
    /\ p.kind = "data" /\ p.ok /\ packet_state = "IN_PACKET"
    /\ ResponseRead(p)
    /\ disturbed' = (disturbed \/ Disturbs(p))
    /\ LET follows == p.port = response.of /\ p.index = response.len + 1
       IN /\ past => ~follows
          /\ response' = [response EXCEPT !.len = @ + 1,
                                          !.of = IF follows THEN @ ELSE NoNode]
    /\ packet_state' = IF p.last THEN "OUT_PACKET" ELSE "IN_PACKET"
    /\ wild' = (wild \/ past \/ (p.last /\ response.port_id \notin Ports))
    /\ \/ p.last /\ handle_response
       \/ ~p.last /\ UNCHANGED <<pc, command_set>>

\* An undisturbed packet has one piece more after it, its own, and within its room.
LEMMA NextPieceJoins ==
    ASSUME PtInvariant, Undisturbed, NEW p \in Pieces, NEW past \in BOOLEAN,
           NextPiece(p, past), ~Disturbs(p)
    PROVE  /\ response'.len = sending.next /\ response'.of = sending.port
           /\ response'.port_id = sending.port /\ ~past
<1>1. p.port = response.of /\ p.index = response.len + 1 /\ p.index = sending.next
  BY NextPieceFollows DEF NextPiece, ResponseRead
<1>2. response' = [response EXCEPT !.len = @ + 1, !.of = response.of] /\ ~past
  BY <1>1 DEF NextPiece
<1>3. response \in [port_id : BoardPorts \cup {0}, type : Parities \cup {0}, len : Nat,
                    of : BoardPorts \cup {NoNode}]
  BY DEF PtInvariant, TransferInvariant, PacketTransferTypeOK
<1>4. /\ response'.len = response.len + 1 /\ response'.of = response.of
      /\ response'.port_id = response.port_id
  BY <1>2, <1>3
<1>5. QED BY <1>1, <1>2, <1>4 DEF PtInvariant, Assembled

\* What the steps outside the assembly leave alone.
LEMMA CommandsApart ==
    ASSUME PtCall \/ process_one_command \/ UploaderSends \/ UploaderCloses \/ wild_shows
    PROVE  UNCHANGED <<response, packet_state, sending, disturbed>>
<1>1. CASE PtCall
  BY <1>1 DEF PtCall, packet_transfer_process
<1>2. CASE process_one_command
  BY <1>2 DEF process_one_command, read_header, read_packet, read_packet_misread, NextCommand,
              connection_ends
<1>3. CASE UploaderSends \/ UploaderCloses \/ wild_shows
  BY <1>3 DEF UploaderSends, UploaderCloses, wild_shows, pt_own
<1>4. QED BY <1>1, <1>2, <1>3

\* A step of process_one_response keeps what is assembled.
LEMMA AssemblyStep ==
    ASSUME PtInvariant, process_one_response
    PROVE  Assembled'
<1>1. CASE piece_dropped
  <2>1. PICK p \in Pieces :
            /\ ResponseRead(p)
            /\ \/ ~p.ok \/ p.kind = "none"
               \/ p.kind = "data" /\ packet_state = "OUT_PACKET" /\ p.index > 1
            /\ disturbed' = (disturbed \/ Disturbs(p))
            /\ UNCHANGED <<pc, command_set, response, packet_state, wild>>
    BY <1>1 DEF piece_dropped
  <2>2. SUFFICES ASSUME Undisturbed' PROVE UNCHANGED <<sending, response>> /\ Undisturbed
    BY <2>1, <2>2 DEF PtInvariant, Assembled
  <2>3. packet_state = "IN_PACKET" /\ ~disturbed /\ ~Disturbs(p)
    BY <2>1, <2>2 DEF Undisturbed
  <2>4. p.kind # "data"
    BY <2>1, <2>3 DEF Disturbs
  <2>5. QED BY <2>1, <2>3, <2>4 DEF ResponseRead, BoardSends, Undisturbed
<1>2. CASE current_piece
  BY <1>2 DEF current_piece, Disturbs, Undisturbed, Assembled
<1>3. CASE head_piece
  <2>1. PICK p \in Pieces, parity \in Parities :
            /\ p.kind = "data" /\ p.index = 1
            /\ BoardSends(p)
            /\ response' = [port_id |-> p.port, type |-> parity, len |-> 1, of |-> p.port]
    BY <1>3 DEF head_piece, ResponseRead
  <2>2. ~p.last
    BY <2>1 DEF BoardSends
  <2>3. sending' = [port |-> p.port, type |-> p.type, next |-> 2]
    BY <2>1, <2>2 DEF BoardSends
  <2>4. QED BY <2>1, <2>3 DEF Assembled
<1>4. CASE next_piece
  <2>1. PICK p \in Pieces, past \in BOOLEAN : NextPiece(p, past)
    BY <1>4 DEF next_piece, NextPiece
  <2>2. SUFFICES ASSUME Undisturbed' PROVE Assembled'
    BY DEF Assembled
  <2>3. Undisturbed /\ ~Disturbs(p) /\ ~p.last
    BY <2>1, <2>2 DEF Undisturbed, NextPiece
  <2>4. p.index > 1 /\ p.index = sending.next /\ p.port = sending.port /\ p.type = sending.type
    BY <2>1, <2>3, NextPieceFollows DEF NextPiece, ResponseRead
  <2>5. sending' = [port |-> p.port, type |-> p.type, next |-> p.index + 1]
    BY <2>1, <2>3 DEF NextPiece, ResponseRead, BoardSends
  <2>6. /\ response'.len = sending.next /\ response'.of = sending.port
        /\ response'.port_id = sending.port
    BY <2>1, <2>3, NextPieceJoins
  <2>7. QED BY <2>4, <2>5, <2>6 DEF Assembled
<1>5. QED BY <1>1, <1>2, <1>3, <1>4 DEF process_one_response

\* The first uploader finds nothing under assembly.
LEMMA PtBegins == PtInit => PtInvariant
<1> SUFFICES ASSUME PtInit PROVE PtInvariant
  OBVIOUS
<1>1. <<>> \in Seq(Commands) /\ <<>> \in Seq(Units)
  OBVIOUS
<1>2. [port |-> 0, type |-> 0, next |-> 0] \in
          [port : BoardPorts \cup {0}, type : RespTypes \cup {0}, next : 0..MaxPieces]
  OBVIOUS
<1>3. TransferInvariant
  BY <1>1, <1>2 DEF PtInit, PacketTransferInit, TransferInvariant, PacketTransferTypeOK,
                    NotSending, Conns, Places
<1>4. QED BY <1>3 DEF PtInvariant, Assembled, Undisturbed, PtInit, PacketTransferInit

\* The end of a process that used foreign memory changes nothing else.
LEMMA WildMemory ==
    ASSUME TransferInvariant, wild_shows
    PROVE  TransferInvariant'
  BY DEF TransferInvariant, PacketTransferTypeOK, wild_shows, pt_own, Places

\* Every step keeps the invariant.
LEMMA PtStep == PtInvariant /\ [PtNext]_<<pc, pt_own>> => PtInvariant'
<1> SUFFICES ASSUME PtInvariant, [PtNext]_<<pc, pt_own>> PROVE PtInvariant'
  OBVIOUS
<1>1. CASE PtCall \/ process_one_command \/ UploaderSends \/ UploaderCloses \/ wild_shows
  <2>1. TransferInvariant'
    BY <1>1, AcceptCommand, ReadHeader, ReadPacket, ReadPacketMisread, ConnectionEnds,
       UploaderSendsType, UploaderClosesType, WildMemory
    DEF PtInvariant, PtCall, process_one_command
  <2>2. Assembled'
    BY <1>1, CommandsApart DEF PtInvariant, Assembled, Undisturbed
  <2>3. QED BY <2>1, <2>2 DEF PtInvariant
<1>2. CASE process_one_response
  BY <1>2, ResponseStep, AssemblyStep DEF PtInvariant
<1>3. CASE UNCHANGED <<pc, pt_own>>
  <2>1. PacketTransferTypeOK'
    BY <1>3 DEF PtInvariant, TransferInvariant, PacketTransferTypeOK, pt_own
  <2>2. QED
    BY <1>3, <2>1 DEF PtInvariant, TransferInvariant, Assembled, Undisturbed, pt_own
<1>4. QED BY <1>1, <1>2, <1>3 DEF PtNext

\* The inductive invariant of PacketTransfer.
LEMMA PtInvariantHolds == PtSpec => []PtInvariant
  BY PtBegins, PtStep, PTL DEF PtSpec

-----------------------------------------------------------------------------
(* What is promised. *)

\* For any number of nodes and any ports, types and lengths that uploaders and board may
\* send, the PacketTransfer structure keeps its types: response and lists hold the ports,
\* parity bytes and commands that came, and the board's next piece is one that fits.
THEOREM PacketTransferTypeCorrect == PtSpec => []PacketTransferTypeOK
<1>1. PtInvariant => PacketTransferTypeOK
  BY DEF PtInvariant, TransferInvariant
<1>2. QED BY <1>1, PtInvariantHolds, PTL

\* Of the outcomes of process_one_response, the next piece alone ends a packet or uses
\* foreign memory; a current may end the process too, and disturbs the packet then.
LEMMA Assembling ==
    ASSUME packet_state = "IN_PACKET", process_one_response,
           packet_state' # packet_state \/ wild' # wild \/ (pc = "pt_header" /\ pc' = "dead")
    PROVE  \/ \E p \in Pieces, past \in BOOLEAN : NextPiece(p, past)
           \/ disturbed' /\ UNCHANGED <<packet_state, command_set, wild>>
<1>1. CASE piece_dropped
  BY <1>1 DEF piece_dropped
<1>2. CASE current_piece
  BY <1>2 DEF current_piece, Disturbs
<1>3. CASE head_piece
  BY <1>3 DEF head_piece
<1>4. CASE next_piece
  BY <1>4 DEF next_piece, NextPiece
<1>5. QED BY <1>1, <1>2, <1>3, <1>4 DEF process_one_response

\* A packet of which no piece was lost, and which nothing came between, is passed on with
\* the node's own pieces, all of them, in order, under the node's port, by a process that
\* has not used foreign memory (packet_transfer.c:322-373).
THEOREM ResponsesPassedOnWhole == PtSpec => ResponsesWhole
<1>1. ASSUME PtInvariant, [PtNext]_<<pc, pt_own>>, packet_state' # packet_state,
             Undisturbed, packet_state' = "OUT_PACKET"
      PROVE  /\ sending' = NotSending
             /\ response'.port_id = sending.port
             /\ response'.of = sending.port /\ response'.len = sending.next
  <2>1. process_one_response
    BY <1>1, CommandsApart DEF PtNext, pt_own
  <2>2. PICK p \in Pieces, past \in BOOLEAN : NextPiece(p, past)
    BY <1>1, <2>1, Assembling DEF Undisturbed
  <2>3. p.last /\ p.index > 1
    <3>1. p.last
      BY <1>1, <2>2 DEF NextPiece
    <3>2. p.index > 1
      BY <3>1, <2>2 DEF NextPiece, ResponseRead, BoardSends
    <3>3. QED BY <3>1, <3>2
  <2>4. ~Disturbs(p)
    <3>1. p.index \in 1..MaxPieces
      BY <2>2, PieceType DEF NextPiece
    <3>2. p.index # 1
      BY <2>3, <3>1
    <3>3. QED BY <2>2, <3>2 DEF NextPiece, Disturbs
  <2>5. sending' = NotSending
    BY <2>2, <2>3 DEF NextPiece, ResponseRead, BoardSends
  <2>6. QED BY <1>1, <2>2, <2>4, <2>5, NextPieceJoins
<1>2. PtInvariant /\ [PtNext]_<<pc, pt_own>> =>
          [Undisturbed /\ ~wild /\ packet_state' = "OUT_PACKET" =>
             /\ sending' = NotSending
             /\ response'.port_id = sending.port
             /\ response'.of = sending.port /\ response'.len = sending.next]_packet_state
  BY <1>1
<1>3. QED BY <1>2, PtInvariantHolds, PTL DEF PtSpec, ResponsesWhole

\* A report whose pieces nothing disturbed is written within node_packet, whatever its
\* length, and ends the process only if its port has no node, no command is kept for that
\* node, or the uploader has left (packet_transfer.c:175-191, 322-373).
THEOREM ReportsEndKnown == PtSpec => ReportsSurvived
<1>1. ASSUME PtInvariant, [PtNext]_<<pc, pt_own>>, pc = "pt_header",
             pc' = "dead" \/ wild' # wild, ~wild, ~disturbed', uploader # "closed",
             sending.port \in Ports
      PROVE  command_set[sending.port] = <<>>
  <2>1. process_one_response
    <3>1. ~process_one_command
      <4>1. ~read_packet /\ ~read_packet_misread
        BY <1>1 DEF read_packet, read_packet_misread
      <4>2. ~read_header /\ ~connection_ends
        BY <1>1 DEF read_header, connection_ends
      <4>3. QED BY <4>1, <4>2 DEF process_one_command
    <3>2. QED
      BY <1>1, <3>1 DEF PtNext, PtCall, UploaderSends, UploaderCloses, wild_shows, pt_own
  <2>2. CASE packet_state = "OUT_PACKET"
    <3>1. ~next_piece /\ ~head_piece /\ ~piece_dropped
      BY <1>1, <2>2 DEF next_piece, head_piece, piece_dropped
    <3>2. QED BY <1>1, <2>1, <3>1 DEF process_one_response, current_piece, send_response
  <2>3. CASE packet_state = "IN_PACKET"
    <3>1. PICK p \in Pieces, past \in BOOLEAN : NextPiece(p, past)
      BY <1>1, <2>1, <2>3, Assembling
    <3>2. Undisturbed /\ ~Disturbs(p)
      BY <1>1, <2>3, <3>1 DEF NextPiece, Undisturbed
    <3>3. ~past
      BY <1>1, <3>1, <3>2, NextPieceJoins
    <3>4. response.port_id = sending.port
      BY <1>1, <3>2 DEF PtInvariant, Assembled
    <3>5. wild' = wild
      <4>1. wild' = (wild \/ past \/ (p.last /\ response.port_id \notin Ports))
        BY <3>1 DEF NextPiece
      <4>2. wild = FALSE
        BY <1>1 DEF PtInvariant, TransferInvariant, PacketTransferTypeOK
      <4>3. ~past /\ response.port_id \in Ports
        BY <1>1, <3>3, <3>4
      <4>4. QED BY ONLY <4>1, <4>2, <4>3
    <3>6. handle_response
      BY <1>1, <3>1, <3>5 DEF NextPiece
    <3>7. QED BY <1>1, <3>4, <3>5, <3>6 DEF handle_response, send_response
  <2>4. QED
    BY <1>1, <2>2, <2>3 DEF PtInvariant, TransferInvariant, PacketTransferTypeOK
<1>2. PtInvariant /\ [PtNext]_<<pc, pt_own>> =>
          [pc = "pt_header" /\ (pc' = "dead" \/ wild' # wild) =>
             \/ wild \/ disturbed' \/ uploader = "closed"
             \/ sending.port \notin Ports \/ command_set[sending.port] = <<>>]_<<pc, wild>>
  BY <1>1
<1>3. QED BY <1>2, PtInvariantHolds, PTL DEF PtSpec, ReportsSurvived

\* Keeping a command makes no list shorter.
LEMMA CommandKeeps ==
    ASSUME PtInvariant, NEW n \in Ports,
           process_one_command \/ PtCall \/ UploaderSends \/ UploaderCloses \/ wild_shows
    PROVE  ~(Len(command_set'[n]) < Len(command_set[n]))
<1>1. command_set \in [Ports -> Seq(Commands)]
  BY DEF PtInvariant, TransferInvariant, PacketTransferTypeOK
<1>2. CASE UNCHANGED command_set
  BY <1>1, <1>2
<1>3. ASSUME NEW c \in Commands, NEW past, handle_command(c, past)
      PROVE  ~(Len(command_set'[n]) < Len(command_set[n]))
  <2>1. \/ UNCHANGED command_set
        \/ /\ c.port_id \in Ports
           /\ command_set' = [command_set EXCEPT ![c.port_id] = Append(command_set[c.port_id], c)]
    BY <1>3 DEF handle_command
  <2>2. command_set'[n] = command_set[n] \/ command_set'[n] = Append(command_set[n], c)
    BY <1>1, <2>1
  <2>3. command_set[n] \in Seq(Commands)
    BY <1>1
  <2>4. QED BY <2>2, <2>3
<1>4. CASE read_packet
  <2>1. header[1] \in Commands
    BY <1>4 DEF read_packet, PtInvariant, TransferInvariant, PacketTransferTypeOK
  <2>2. QED BY <1>3, <1>4, <2>1 DEF read_packet
<1>5. CASE read_packet_misread
  BY <1>3, <1>5 DEF read_packet_misread
<1>6. CASE read_header \/ connection_ends \/ PtCall \/ UploaderSends \/ UploaderCloses
           \/ wild_shows
  BY <1>2, <1>6 DEF read_header, connection_ends, PtCall, packet_transfer_process,
                    UploaderSends, UploaderCloses, wild_shows, pt_own
<1>7. QED BY <1>4, <1>5, <1>6 DEF process_one_command

\* What an answer that removes a command removes.
LEMMA AnswerRemoves ==
    ASSUME PtInvariant, handle_response, NEW n \in Ports,
           Len(command_set'[n]) < Len(command_set[n])
    PROVE  /\ n = response.port_id
           /\ \E k \in 1..Len(command_set[n]) :
                  /\ command_set[n][k].type = node_type_convert_resp_to_cmd(response.type)
                  /\ \A i \in 1..(k - 1) : command_set[n][i].type # command_set[n][k].type
                  /\ command_set'[n] = Earlier(n, k - 1)
                                       \o SubSeq(command_set[n], k + 1, Len(command_set[n]))
<1> DEFINE port == response.port_id
           type == node_type_convert_resp_to_cmd(response.type)
           index == dlist_find(command_set[port], type)
<1>1. command_set \in [Ports -> Seq(Commands)]
  BY DEF PtInvariant, TransferInvariant, PacketTransferTypeOK
<1>2. Len(command_set[n]) \in Nat
  BY <1>1
<1>3. command_set' # command_set
  BY <1>2
<1>4. /\ port \in Ports /\ command_set[port] \in Seq(Commands)
      /\ command_set' = [command_set EXCEPT ![port] = dlist_delete(command_set[port], index)]
  <2>1. /\ port \in Ports
        /\ command_set' = [command_set EXCEPT ![port] = dlist_delete(command_set[port], index)]
    BY <1>3 DEF handle_response
  <2>2. QED BY <1>1, <2>1
<1>5. n = port
  BY <1>1, <1>2, <1>4
<1>6. command_set'[n] = dlist_delete(command_set[n], index)
  BY <1>1, <1>4, <1>5
<1>7. index < Len(command_set[n])
  BY <1>2, <1>6 DEF dlist_delete
<1>8. PICK k \in 1..Len(command_set[port]) :
          /\ index = k - 1
          /\ command_set[port][k].type = type
          /\ \A i \in 1..(k - 1) : command_set[port][i].type # type
  <2>1. index # Len(command_set[port])
    BY <1>2, <1>4, <1>5, <1>7
  <2>2. QED BY <1>4, <2>1, FindsFirst
<1>9. command_set'[n] = RemoveAt(command_set[n], k)
  <2>1. index + 1 = k
    BY <1>4, <1>8
  <2>2. QED BY <1>6, <1>7, <2>1 DEF dlist_delete
<1>10. command_set'[n] = Earlier(n, k - 1) \o SubSeq(command_set[n], k + 1, Len(command_set[n]))
  BY <1>9 DEF RemoveAt, Earlier
<1>11. QED BY <1>5, <1>8, <1>10

\* Until foreign memory is used, only a report takes a command off a list, the list of its
\* own port, and of the commands of the type it is taken for, by its parity byte, the oldest
\* (packet_transfer.c:186-190).
THEOREM AnswersRemoveOldest == PtSpec => AnswerRemovesOldest
<1>1. ASSUME PtInvariant, [PtNext]_<<pc, pt_own>>, NEW n \in Ports,
             Len(command_set'[n]) < Len(command_set[n])
      PROVE  /\ n = response.port_id /\ (~disturbed => n = sending.port)
             /\ \E k \in 1..Len(command_set[n]) :
                    /\ command_set[n][k].type = node_type_convert_resp_to_cmd(response.type)
                    /\ \A i \in 1..(k - 1) : command_set[n][i].type # command_set[n][k].type
                    /\ command_set'[n] = Earlier(n, k - 1)
                                         \o SubSeq(command_set[n], k + 1, Len(command_set[n]))
  <2>1. command_set' # command_set
    BY <1>1 DEF PtInvariant, TransferInvariant, PacketTransferTypeOK
  <2>2. process_one_response
    BY <1>1, <2>1, CommandKeeps DEF PtNext, pt_own
  <2>3. next_piece
    BY <2>1, <2>2 DEF process_one_response, piece_dropped, current_piece, head_piece
  <2>4. handle_response /\ packet_state = "IN_PACKET"
    BY <2>1, <2>3 DEF next_piece
  <2>5. ~disturbed => response.port_id = sending.port
    BY <1>1, <2>4 DEF PtInvariant, Assembled, Undisturbed
  <2>6. QED BY <1>1, <2>4, <2>5, AnswerRemoves
<1>2. PtInvariant /\ [PtNext]_<<pc, pt_own>> =>
          [\A n \in Ports :
              Len(command_set'[n]) < Len(command_set[n]) /\ ~wild =>
                  /\ n = response.port_id /\ (~disturbed => n = sending.port)
                  /\ \E k \in 1..Len(command_set[n]) :
                         /\ command_set[n][k].type = node_type_convert_resp_to_cmd(response.type)
                         /\ \A i \in 1..(k - 1) : command_set[n][i].type # command_set[n][k].type
                         /\ command_set'[n] = Earlier(n, k - 1)
                                              \o SubSeq(command_set[n], k + 1, Len(command_set[n]))
          ]_command_set
  BY <1>1
<1>3. QED BY <1>2, PtInvariantHolds, PTL DEF PtSpec, AnswerRemovesOldest
=============================================================================
