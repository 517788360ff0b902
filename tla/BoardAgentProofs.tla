-------------------------- MODULE BoardAgentProofs --------------------------
(***************************************************************************)
(* For any number of nodes and commands, any width of the length and any    *)
(* number of descriptors: the agent's types, that select finds nothing of   *)
(* an earlier session but the streams of its hex files, how much is read    *)
(* of a hex file that is accepted, and what ends the process.               *)
(***************************************************************************)
EXTENDS BoardAgent, PacketTransferProofs

USE PacketTransferAssumption, ReprogrammerAssumption

-----------------------------------------------------------------------------
(* The reprogram port: types and the inductive invariant of a reception. *)

\* A length is a natural number, and an integer after its conversion to int.
LEMMA LengthIsInt ==
    ASSUME NEW len \in Lengths
    PROVE  len \in Nat /\ ToInt(len) \in Int
<1>1. LenModulus \in Nat /\ LenModulus \div 2 \in Int
  OBVIOUS
<1>2. len \in Nat
  BY <1>1 DEF Lengths
<1>3. QED BY <1>1, <1>2 DEF ToInt

\* How far a reception is: nothing is begun before the command was read, and if that was
\* read whole, then hex_file_len is what is missing of the file.

ReceptionBegun ==
    /\ pc = "rp_header" => /\ reception.verdict = "none"
                           /\ ~reception.exact /\ reception.got = 0
    /\ pc = "rp_file" /\ reception.exact =>
           /\ reception.good
           /\ hex_file_len + reception.got = ToInt(reception.len)
    /\ pc = "rp_file" => hex_file_len > 0 /\ reception.verdict = "none"
    /\ pc \notin RpReads \cup {"rp_exit", "dead"} => reception = NoReception

\* The history of a reception keeps its type when its fields are assigned.
LEMMA ReceptionType ==
    ASSUME reception \in Receptions, NEW e \in BOOLEAN, NEW n \in Nat,
           NEW v \in {"none", "accepted", "refused"}
    PROVE  /\ [reception EXCEPT !.exact = e, !.verdict = v] \in Receptions
           /\ [reception EXCEPT !.got = n, !.verdict = v] \in Receptions
           /\ [reception EXCEPT !.verdict = v] \in Receptions
  BY DEF Receptions

\* A new reception has the good and the length of its client.
LEMMA NewReception ==
    ASSUME NEW good \in BOOLEAN, NEW len \in Lengths
    PROVE  LET r == [NoReception EXCEPT !.good = good, !.len = len]
           IN /\ r \in Receptions /\ r.good = good /\ r.len = len
              /\ ~r.exact /\ r.got = 0 /\ r.verdict = "none"
<1>1. 0 \in Nat /\ NoReception = [good |-> FALSE, len |-> 0, exact |-> FALSE, got |-> 0,
                                  verdict |-> "none"]
  BY DEF NoReception
<1>2. QED BY <1>1 DEF Receptions

\* What the header of a command leads to, whatever length was read.
HeaderParsed(good, len) ==
    /\ hex_fd' \in BOOLEAN /\ streams' \in 0..MaxStreams /\ hex_file_len' \in Int
    /\ \/ /\ pc' = "rp_file" /\ reception'.verdict = "none" /\ good
          /\ hex_file_len' = ToInt(len) /\ hex_file_len' > 0
       \/ /\ pc' = "rp_exit" /\ reception'.verdict = "accepted" /\ good
          /\ ~(ToInt(len) > 0)
       \/ pc' = "rp_exit" /\ reception'.verdict = "refused" /\ hex_fd' \in {hex_fd, TRUE}

\* It leads nowhere else.
LEMMA HeaderStep ==
    ASSUME ReprogrammerTypeOK, NEW good \in BOOLEAN, NEW len \in Lengths,
           header_parsed(good, len)
    PROVE  HeaderParsed(good, len)
<1>1. ToInt(len) \in Int
  BY LengthIsInt
<1>2. streams \in 0..MaxStreams /\ MaxStreams \in Nat /\ hex_fd \in BOOLEAN /\ hex_file_len \in Int
  BY DEF ReprogrammerTypeOK
<1>3. ASSUME good, streams < MaxStreams, hex_fd' = TRUE, streams' = streams + 1,
             hex_file_len' = ToInt(len), ToInt(len) > 0,
             pc' = "rp_file", reception'.verdict = "none"
      PROVE  HeaderParsed(good, len)
  BY <1>1, <1>2, <1>3 DEF HeaderParsed
<1>4. ASSUME good, streams < MaxStreams, hex_fd' = TRUE, streams' = streams + 1,
             hex_file_len' = ToInt(len), ~(ToInt(len) > 0),
             pc' = "rp_exit", reception'.verdict = "accepted"
      PROVE  HeaderParsed(good, len)
  BY <1>1, <1>2, <1>4 DEF HeaderParsed
<1>5. ASSUME pc' = "rp_exit", reception'.verdict = "refused", hex_fd' \in {hex_fd, TRUE},
             UNCHANGED <<streams, hex_file_len>>
      PROVE  HeaderParsed(good, len)
  BY <1>2, <1>5 DEF HeaderParsed
<1>6. QED BY <1>3, <1>4, <1>5 DEF header_parsed, Exit

\* The part of the invariant that Reprogrammer can disturb.
ReprogramInvariant ==
    /\ ReprogrammerTypeOK /\ pc \in Places
    /\ server_socket => pc \in RpReads \cup {"rp_exit", "dead"}
    /\ hex_fd => pc \in {"rp_file", "rp_exit", "dead"}
    /\ ReceptionBegun /\ FileAcceptedWhole

\* A client of the reprogram port is accepted with nothing of an earlier one.
LEMMA AcceptReprogram ==
    ASSUME ReprogramInvariant, pc = "select", reprogrammer_process
    PROVE  ReprogramInvariant'
<1>1. PICK good \in BOOLEAN, len \in Lengths :
          /\ reception' = [NoReception EXCEPT !.good = good, !.len = len]
          /\ units' \in 0..(HeaderUnits + len + MaxExtra)
  BY DEF reprogrammer_process
<1>2. /\ reception' \in Receptions /\ reception'.good = good /\ reception'.len = len
      /\ ~reception'.exact /\ reception'.got = 0 /\ reception'.verdict = "none"
  BY <1>1, NewReception
<1>3. len \in Nat /\ HeaderUnits = 2
  BY LengthIsInt DEF HeaderUnits
<1>4. units' \in Nat
  BY <1>1, <1>3
<1>5. ReprogrammerTypeOK' /\ pc' = "rp_header"
  BY <1>2, <1>4 DEF reprogrammer_process, ReprogramInvariant, ReprogrammerTypeOK, Conns
<1>6. ReceptionBegun' /\ FileAcceptedWhole'
  BY <1>2, <1>5 DEF ReceptionBegun, FileAcceptedWhole, RpReads
<1>7. ~hex_fd'
  BY DEF reprogrammer_process, ReprogramInvariant
<1>8. QED BY <1>5, <1>6, <1>7 DEF ReprogramInvariant, Places, RpReads

\* The command, whole: the file is begun with the length that the client sent.
LEMMA ReadCommand ==
    ASSUME ReprogramInvariant, read_command
    PROVE  ReprogramInvariant'
<1> USE DEF ReprogramInvariant
<1>1. reception.good \in BOOLEAN /\ reception.len \in Lengths /\ reception.got \in Nat
  BY DEF ReprogrammerTypeOK, Receptions
<1>2. reception.len \in Nat /\ ToInt(reception.len) \in Int
  BY <1>1, LengthIsInt
<1>3. HeaderParsed(reception.good, reception.len)
  <2>1. header_parsed(reception.good, reception.len)
    BY DEF read_command
  <2>2. QED BY <1>1, <2>1, HeaderStep
<1>4. PICK v \in {"none", "accepted", "refused"} :
          reception' = [reception EXCEPT !.exact = TRUE, !.verdict = v]
  BY DEF read_command
<1>5. reception' \in Receptions
  BY <1>4, ReceptionType DEF ReprogrammerTypeOK
<1>6. /\ reception'.good = reception.good /\ reception'.len = reception.len
      /\ reception'.got = reception.got
  BY <1>4 DEF ReprogrammerTypeOK, Receptions
<1>7. units' \in Nat /\ reception.got = 0
  BY DEF read_command, ReprogrammerTypeOK, ReceptionBegun, HeaderUnits
<1>8. ReprogrammerTypeOK' /\ pc = "rp_header"
  BY <1>3, <1>5, <1>7 DEF read_command, HeaderParsed, ReprogrammerTypeOK
<1>9. CASE pc' = "rp_file" /\ reception.good /\ reception'.verdict = "none"
           /\ hex_file_len' = ToInt(reception.len) /\ hex_file_len' > 0
  <2>1. reception'.good /\ hex_file_len' + reception'.got = ToInt(reception'.len)
    BY <1>2, <1>6, <1>7, <1>9
  <2>2. ReceptionBegun' /\ FileAcceptedWhole'
    BY <1>9, <2>1 DEF ReceptionBegun, FileAcceptedWhole, RpReads
  <2>3. QED BY <1>8, <1>9, <2>2 DEF read_command, Places, RpReads
<1>10. CASE pc' = "rp_exit" /\ ~(ToInt(reception.len) > 0) /\ reception.good
  <2>1. FileAcceptedWhole'
    BY <1>2, <1>6, <1>7, <1>10 DEF FileAcceptedWhole
  <2>2. ReceptionBegun'
    BY <1>10 DEF ReceptionBegun
  <2>3. QED BY <1>8, <1>10, <2>1, <2>2 DEF read_command, Places, RpReads
<1>11. CASE pc' = "rp_exit" /\ reception'.verdict = "refused"
  <2>1. ReceptionBegun' /\ FileAcceptedWhole'
    BY <1>11 DEF ReceptionBegun, FileAcceptedWhole
  <2>2. QED BY <1>8, <1>11, <2>1 DEF read_command, Places, RpReads
<1>12. QED BY <1>3, <1>9, <1>10, <1>11 DEF HeaderParsed

\* The command, in part: nothing is claimed of the length that is then believed.
LEMMA ReadCommandShort ==
    ASSUME ReprogramInvariant, read_command_short
    PROVE  ReprogramInvariant'
<1> USE DEF ReprogramInvariant
<1>1. PICK good \in BOOLEAN, len \in Lengths : header_parsed(good, len)
  BY DEF read_command_short
<1>2. HeaderParsed(good, len)
  BY <1>1, HeaderStep
<1>3. PICK v \in {"none", "accepted", "refused"} :
          reception' = [reception EXCEPT !.verdict = v]
  BY DEF read_command_short
<1>4. reception' \in Receptions
  BY <1>3, ReceptionType DEF ReprogrammerTypeOK, Receptions
<1>5. ~reception'.exact
  BY <1>3 DEF read_command_short, ReceptionBegun, ReprogrammerTypeOK, Receptions
<1>6. units' \in Nat
  BY DEF read_command_short, ReprogrammerTypeOK
<1>7. ReprogrammerTypeOK'
  BY <1>2, <1>4, <1>6 DEF read_command_short, HeaderParsed, ReprogrammerTypeOK
<1>8. ReceptionBegun' /\ FileAcceptedWhole'
  BY <1>2, <1>5 DEF ReceptionBegun, FileAcceptedWhole, HeaderParsed, RpReads
<1>9. QED BY <1>2, <1>7, <1>8 DEF read_command_short, HeaderParsed, Places, RpReads

\* A read of the file: the last is of a buffer at most, and was asked for when something
\* was missing.
LEMMA ReadFile ==
    ASSUME ReprogramInvariant, read_file
    PROVE  ReprogramInvariant'
<1> USE DEF ReprogramInvariant
<1>1. PICK n \in 1..RecvBuf :
          /\ n <= units /\ units' = units - n
          /\ hex_file_len' = hex_file_len - n
          /\ LET v == IF hex_file_len' > 0 THEN "none" ELSE "accepted"
             IN /\ reception' = [reception EXCEPT !.got = @ + n, !.verdict = v]
                /\ pc' = IF v = "none" THEN "rp_file" ELSE "rp_exit"
  BY DEF read_file
<1>2. n \in Nat /\ n > 0 /\ units \in Nat /\ hex_file_len \in Int /\ reception.got \in Nat
      /\ reception \in Receptions /\ reception.len \in Lengths
  BY DEF ReprogrammerTypeOK, Receptions
<1>3. units' \in Nat /\ hex_file_len' \in Int
  BY <1>1, <1>2
<1>4. PICK v \in {"none", "accepted"} :
          /\ v = IF hex_file_len' > 0 THEN "none" ELSE "accepted"
          /\ reception' = [reception EXCEPT !.got = @ + n, !.verdict = v]
          /\ pc' = IF v = "none" THEN "rp_file" ELSE "rp_exit"
  BY <1>1
<1>5. reception' \in Receptions
  <2>1. reception.got + n \in Nat
    BY <1>2
  <2>2. QED BY <1>2, <1>4, <2>1, ReceptionType
<1>6. /\ reception'.got = reception.got + n /\ reception'.verdict = v
      /\ reception'.good = reception.good /\ reception'.len = reception.len
      /\ reception'.exact = reception.exact
  BY <1>2, <1>4 DEF Receptions
<1>7. ReprogrammerTypeOK' /\ pc' \in {"rp_file", "rp_exit"}
  BY <1>3, <1>4, <1>5 DEF read_file, ReprogrammerTypeOK
<1>8. ToInt(reception.len) \in Int
  BY <1>2, LengthIsInt
<1>9. ASSUME reception'.exact
      PROVE  /\ reception'.good
             /\ hex_file_len' + reception'.got = ToInt(reception'.len)
             /\ reception'.got < ToInt(reception'.len) + RecvBuf
             /\ ToInt(reception'.len) > 0
  <2>1. /\ reception.good /\ hex_file_len + reception.got = ToInt(reception.len)
        /\ hex_file_len > 0
    BY <1>6, <1>9 DEF read_file, ReceptionBegun
  <2>2. reception'.good /\ ToInt(reception'.len) = ToInt(reception.len)
    BY <1>6, <2>1
  <2>3. n <= RecvBuf /\ RecvBuf \in Nat
    OBVIOUS
  <2>4. QED BY <1>1, <1>2, <1>6, <1>8, <2>1, <2>2, <2>3
<1>10. ReceptionBegun'
  BY <1>4, <1>6, <1>7, <1>9 DEF ReceptionBegun, RpReads
<1>11. FileAcceptedWhole'
  <2>1. SUFFICES ASSUME reception'.verdict = "accepted", reception'.exact
                 PROVE  /\ reception'.good /\ ToInt(reception'.len) > 0
                        /\ reception'.got >= ToInt(reception'.len)
                        /\ reception'.got < ToInt(reception'.len) + RecvBuf
    BY DEF FileAcceptedWhole
  <2>2. ~(hex_file_len' > 0)
    BY <1>4, <1>6, <2>1
  <2>3. ToInt(reception'.len) \in Int /\ reception'.got \in Nat
    BY <1>2, <1>6, <1>8
  <2>4. QED BY <1>3, <1>9, <2>1, <2>2, <2>3
<1>12. QED BY <1>7, <1>10, <1>11 DEF read_file, Places, RpReads

\* The early end of a stream refuses the file.
LEMMA ReadEnds ==
    ASSUME ReprogramInvariant, read_end
    PROVE  ReprogramInvariant'
<1> USE DEF ReprogramInvariant, read_end
<1>1. reception' \in Receptions /\ reception'.verdict = "refused"
  BY DEF ReprogrammerTypeOK, Receptions
<1>2. ReprogrammerTypeOK'
  BY <1>1 DEF ReprogrammerTypeOK
<1>3. ReceptionBegun' /\ FileAcceptedWhole'
  BY <1>1 DEF ReceptionBegun, FileAcceptedWhole
<1>4. QED BY <1>2, <1>3 DEF Places, RpReads

\* The exit leaves nothing of the session.
LEMMA ReprogramExits ==
    ASSUME ReprogramInvariant, reprogrammer_exit
    PROVE  ReprogramInvariant'
<1> USE DEF ReprogramInvariant, reprogrammer_exit
<1>1. NoReception \in Receptions
  <2>1. 0 \in Lengths /\ 0 \in Nat
    BY DEF Lengths
  <2>2. [good |-> FALSE, len |-> 0, exact |-> FALSE, got |-> 0, verdict |-> "none"] \in Receptions
    BY <2>1 DEF Receptions
  <2>3. QED BY <2>2 DEF NoReception
<1>2. ReprogrammerTypeOK'
  <2>1. reception' \in Receptions
    BY <1>1, Zenon
  <2>2. /\ server_socket' = FALSE /\ hex_fd' = FALSE /\ hex_file_len' = 0
        /\ programmer' = "none" /\ units' = 0 /\ streams' = streams
    OBVIOUS
  <2>3. streams \in 0..MaxStreams
    BY DEF ReprogrammerTypeOK
  <2>4. 0 \in Nat /\ 0 \in Int
    OBVIOUS
  <2>5. QED BY ONLY <2>1, <2>2, <2>3, <2>4, Zenon DEF ReprogrammerTypeOK, Conns
<1>3. reception' = NoReception /\ reception'.verdict = "none" /\ pc' = "select"
  <2>1. NoReception.verdict = "none"
    BY DEF NoReception
  <2>2. QED BY <2>1
<1>4. ReceptionBegun'
  BY <1>3 DEF ReceptionBegun, RpReads
<1>5. FileAcceptedWhole'
  BY <1>3 DEF FileAcceptedWhole
<1>6. QED BY <1>2, <1>4, <1>5 DEF Places

\* A close of the client changes its connection only.
LEMMA ProgrammerLeaves ==
    ASSUME ReprogramInvariant, ProgrammerCloses
    PROVE  ReprogramInvariant'
<1> USE DEF ReprogramInvariant, ProgrammerCloses
<1>1. ReprogrammerTypeOK'
  BY DEF ReprogrammerTypeOK, Conns
<1>2. ReceptionBegun' /\ FileAcceptedWhole'
  BY DEF ReceptionBegun, FileAcceptedWhole
<1>3. QED BY <1>1, <1>2

-----------------------------------------------------------------------------
(* The agent. *)

\* The two handlers' parts are the whole invariant, with the queue of clients.
AgentInvariant ==
    /\ ReprogramInvariant /\ TransferInvariant
    /\ cmd_waiting \in BOOLEAN /\ reprog_waiting \in BOOLEAN

\* The agent begins at select with nothing open.
LEMMA AgentBegins == AgentInit => AgentInvariant
<1> SUFFICES ASSUME AgentInit PROVE AgentInvariant
  OBVIOUS
<1>1. TransferInvariant
  <2>1. <<>> \in Seq(Commands) /\ <<>> \in Seq(Units)
    OBVIOUS
  <2>2. [port |-> 0, type |-> 0, next |-> 0] \in
            [port : BoardPorts \cup {0}, type : RespTypes \cup {0}, next : 0..MaxPieces]
    BY <2>1
  <2>3. QED
    BY <2>1, <2>2 DEF AgentInit, PacketTransferInit, TransferInvariant, PacketTransferTypeOK,
                      NotSending, Conns, Places
<1>2. ReprogramInvariant
  <2>1. NoReception \in Receptions
    <3>1. 0 \in Lengths /\ 0 \in Nat
      BY DEF Lengths
    <3>2. QED BY <3>1 DEF NoReception, Receptions
  <2>2. ReprogrammerTypeOK
    <3>1. reception \in Receptions
      BY <2>1, Zenon DEF AgentInit, ReprogrammerInit
    <3>2. /\ server_socket = FALSE /\ hex_fd = FALSE /\ streams = 0
          /\ programmer = "none" /\ units = 0 /\ hex_file_len = 0
      BY DEF AgentInit, ReprogrammerInit
    <3>3. 0 \in 0..MaxStreams
      OBVIOUS
    <3>4. 0 \in Nat /\ 0 \in Int
      OBVIOUS
    <3>5. QED BY ONLY <3>1, <3>2, <3>3, <3>4, Zenon DEF ReprogrammerTypeOK, Conns
  <2>3. reception = NoReception /\ reception.verdict = "none"
    BY DEF AgentInit, ReprogrammerInit, NoReception
  <2>4. ReceptionBegun /\ FileAcceptedWhole
    BY <2>3 DEF AgentInit, ReceptionBegun, FileAcceptedWhole, RpReads
  <2>5. QED
    BY <2>2, <2>4 DEF AgentInit, ReprogrammerInit, ReprogramInvariant, Places
<1>3. QED BY <1>1, <1>2 DEF AgentInit, AgentInvariant

\* While Reprogrammer has the thread, the part of PacketTransfer stays.
LEMMA TransferKept ==
    ASSUME TransferInvariant, UNCHANGED pt_own, pc' \in Places,
           pc \notin PtReads, pc # "dead" \/ pc' = "dead"
    PROVE  TransferInvariant'
<1>1. PacketTransferTypeOK'
  BY DEF TransferInvariant, PacketTransferTypeOK, pt_own
<1>2. QED BY <1>1 DEF TransferInvariant, pt_own

\* While PacketTransfer has it, or main, the part of Reprogrammer stays.
LEMMA ReprogramKept ==
    ASSUME ReprogramInvariant, UNCHANGED rp_own, pc' \in Places,
           \/ pc' = pc \/ pc' = "dead"
           \/ /\ pc \notin RpReads \cup {"rp_exit", "dead"}
              /\ pc' \notin RpReads \cup {"rp_exit", "dead"}
    PROVE  ReprogramInvariant'
<1> USE DEF ReprogramInvariant, rp_own
<1>1. ReprogrammerTypeOK'
  BY DEF ReprogrammerTypeOK
<1>2. ReceptionBegun' /\ FileAcceptedWhole'
  BY DEF ReceptionBegun, FileAcceptedWhole, RpReads
<1>3. QED BY <1>1, <1>2 DEF RpReads

\* Where the steps of a handler leave the thread.
LEMMA ReprogramPlaces ==
    ASSUME ReprogrammerStep
    PROVE  pc \in RpReads \cup {"rp_exit"} /\ pc' \in RpReads \cup {"rp_exit", "select"}
<1>1. CASE read_command
  BY <1>1 DEF read_command, header_parsed, Exit, RpReads
<1>2. CASE read_command_short
  BY <1>2 DEF read_command_short, header_parsed, Exit, RpReads
<1>3. CASE read_file
  BY <1>3 DEF read_file, RpReads
<1>4. CASE read_end \/ reprogrammer_exit
  BY <1>4 DEF read_end, reprogrammer_exit
<1>5. QED BY <1>1, <1>2, <1>3, <1>4 DEF ReprogrammerStep

\* Every step keeps the invariant.
LEMMA AgentStep == AgentInvariant /\ [Next]_vars => AgentInvariant'
<1> SUFFICES ASSUME AgentInvariant, [Next]_vars PROVE AgentInvariant'
  OBVIOUS
<1> USE DEF AgentInvariant
<1> DEFINE waits == cmd_waiting' \in BOOLEAN /\ reprog_waiting' \in BOOLEAN
<1>1. CASE accept_command
  <2>1. TransferInvariant'
    BY <1>1, AcceptCommand DEF accept_command
  <2>2. pc = "select" /\ pc' = "pt_header" /\ UNCHANGED rp_own
    BY <1>1 DEF accept_command, packet_transfer_process
  <2>3. ReprogramInvariant'
    BY <2>2, ReprogramKept DEF Places, PtReads, RpReads
  <2>4. QED BY <1>1, <2>1, <2>3 DEF accept_command
<1>2. CASE accept_reprogram
  <2>1. ReprogramInvariant'
    BY <1>2, AcceptReprogram DEF accept_reprogram
  <2>2. pc = "select" /\ pc' = "rp_header" /\ UNCHANGED pt_own
    BY <1>2 DEF accept_reprogram, reprogrammer_process
  <2>3. TransferInvariant'
    BY <2>2, TransferKept DEF Places, PtReads, RpReads
  <2>4. QED BY <1>2, <2>1, <2>3 DEF accept_reprogram
<1>3. CASE accept_fails
  <2>1. pc = "select" /\ pc' = "dead" /\ UNCHANGED <<pt_own, rp_own, waiting>>
    BY <1>3 DEF accept_fails
  <2>2. TransferInvariant'
    BY <2>1, TransferKept DEF Places, PtReads
  <2>3. ReprogramInvariant'
    BY <2>1, ReprogramKept DEF Places, RpReads
  <2>4. QED BY <2>1, <2>2, <2>3 DEF waiting
<1>4. CASE UploaderCommands
  <2>1. TransferInvariant'
    BY <1>4, ReadHeader, ReadPacket, ReadPacketMisread, ConnectionEnds
       DEF UploaderCommands, process_one_command
  <2>2. UNCHANGED <<rp_own, waiting>> /\ process_one_command
    BY <1>4 DEF UploaderCommands
  <2>3. ReprogramInvariant'
    BY <2>2, CommandPlaces, ReprogramKept DEF Places, PtReads, RpReads
  <2>4. QED BY <2>1, <2>2, <2>3 DEF waiting
<1>5. CASE Reprogram
  <2>1. ReprogramInvariant'
    BY <1>5, ReadCommand, ReadCommandShort, ReadFile, ReadEnds, ReprogramExits
       DEF Reprogram, ReprogrammerStep
  <2>2. UNCHANGED <<pt_own, waiting>> /\ ReprogrammerStep
    BY <1>5 DEF Reprogram
  <2>3. TransferInvariant'
    BY <2>2, ReprogramPlaces, TransferKept DEF Places, PtReads, RpReads
  <2>4. QED BY <2>1, <2>2, <2>3 DEF waiting
<1>6. CASE (UploaderSends \/ UploaderCloses) /\ UNCHANGED <<rp_own, waiting>>
  <2>1. TransferInvariant'
    BY <1>6, UploaderSendsType, UploaderClosesType
  <2>2. pc' = pc /\ UNCHANGED <<rp_own, waiting>>
    BY <1>6 DEF UploaderSends, UploaderCloses
  <2>3. ReprogramInvariant'
    BY <2>2, ReprogramKept DEF ReprogramInvariant
  <2>4. QED BY <2>1, <2>2, <2>3 DEF waiting
<1>7. CASE ProgrammerCloses /\ UNCHANGED <<pt_own, waiting>>
  <2>1. ReprogramInvariant'
    BY <1>7, ProgrammerLeaves
  <2>2. pc' = pc /\ pc \in RpReads /\ UNCHANGED <<pt_own, waiting>>
    BY <1>7 DEF ProgrammerCloses
  <2>3. TransferInvariant'
    BY <2>2, TransferKept DEF Places, PtReads, RpReads
  <2>4. QED BY <2>1, <2>2, <2>3 DEF waiting
<1>8. CASE Connects \/ UNCHANGED vars
  <2>1. UNCHANGED <<pc, pt_own, rp_own>>
    BY <1>8 DEF Connects, vars
  <2>2. PacketTransferTypeOK'
    BY <2>1 DEF TransferInvariant, PacketTransferTypeOK, pt_own
  <2>3. TransferInvariant'
    BY <2>1, <2>2 DEF TransferInvariant, pt_own
  <2>4. ReprogramInvariant'
    BY <2>1, ReprogramKept DEF ReprogramInvariant
  <2>5. QED BY <1>8, <2>3, <2>4 DEF Connects, vars, waiting
<1>9. CASE WildShows
  <2>1. TransferInvariant' /\ pc' = "dead"
    BY <1>9, WildMemory DEF WildShows, wild_shows
  <2>2. UNCHANGED <<rp_own, waiting>>
    BY <1>9 DEF WildShows
  <2>3. ReprogramInvariant'
    BY <2>1, <2>2, ReprogramKept DEF Places
  <2>4. QED BY <2>1, <2>2, <2>3 DEF waiting
<1>10. QED
  BY <1>1, <1>2, <1>3, <1>4, <1>5, <1>6, <1>7, <1>8, <1>9 DEF Next, main, Clients

\* The inductive invariant of the agent.
LEMMA AgentInvariantHolds == Spec => []AgentInvariant
  BY AgentBegins, AgentStep, PTL DEF Spec

\* For any number of nodes and commands, width of the length and number of descriptors,
\* the structures of the agent keep their types (main.c, packet_transfer.c, reprogrammer.c).
THEOREM AgentTypeCorrect == Spec => []AgentTypeOK
<1>1. AgentInvariant => AgentTypeOK
  BY DEF AgentInvariant, ReprogramInvariant, TransferInvariant, AgentTypeOK
<1>2. QED BY <1>1, AgentInvariantHolds, PTL

\* That every descriptor for hex files is used up, and no file is begun or accepted.
NoneLeft == streams = MaxStreams /\ pc # "rp_file" /\ reception.verdict # "accepted"

\* No descriptor comes back.
LEMMA NoneLeftStep ==
    ASSUME AgentInvariant, [Next]_vars, NoneLeft
    PROVE  NoneLeft'
<1> USE DEF NoneLeft
<1>1. reception \in Receptions /\ MaxStreams \in Nat
  BY DEF AgentInvariant, ReprogramInvariant, ReprogrammerTypeOK
<1>2. CASE accept_reprogram
  <2>1. PICK good \in BOOLEAN, len \in Lengths :
            reception' = [NoReception EXCEPT !.good = good, !.len = len]
    BY <1>2 DEF accept_reprogram, reprogrammer_process
  <2>2. reception'.verdict = "none"
    BY <2>1, NewReception
  <2>3. QED BY <1>2, <2>2 DEF accept_reprogram, reprogrammer_process
<1>3. CASE Reprogram
  <2>1. ASSUME NEW good, NEW len, header_parsed(good, len)
        PROVE  pc' = "rp_exit" /\ reception'.verdict = "refused" /\ streams' = streams
    BY <1>1, <2>1 DEF header_parsed, Exit
  <2>2. CASE read_command \/ read_command_short
    BY <2>1, <2>2 DEF read_command, read_command_short
  <2>3. CASE read_file
    BY <2>3 DEF read_file
  <2>4. CASE read_end
    BY <1>1, <2>4 DEF read_end, Receptions
  <2>5. CASE reprogrammer_exit
    <3>1. NoReception.verdict = "none"
      BY DEF NoReception
    <3>2. QED BY <2>5, <3>1 DEF reprogrammer_exit
  <2>6. QED BY <1>3, <2>2, <2>3, <2>4, <2>5 DEF Reprogram, ReprogrammerStep
<1>4. CASE UploaderCommands
  <2>1. process_one_command /\ UNCHANGED rp_own
    BY <1>4 DEF UploaderCommands
  <2>2. pc' # "rp_file"
    BY <2>1, CommandPlaces DEF PtReads
  <2>3. QED BY <2>1, <2>2 DEF rp_own
<1>5. CASE accept_command \/ accept_fails \/ WildShows \/ Clients \/ UNCHANGED vars
  BY <1>5 DEF accept_command, packet_transfer_process, accept_fails, WildShows, wild_shows,
              Clients, UploaderSends, UploaderCloses, ProgrammerCloses, Connects, vars, rp_own
<1>6. QED BY <1>2, <1>3, <1>4, <1>5 DEF Next, main

\* However a session ended, select finds no connection and no length of it; but each hex
\* file it began has used a descriptor up for good, and after the last of them no file is
\* accepted (packet_transfer.c:468-470, reprogrammer.c:208-219).
THEOREM OnlyStreamsRemain == Spec => OnlyStreamsStay
<1>1. AgentInvariant /\ pc = "select" =>
          ~uploader_socket /\ ~server_socket /\ ~hex_fd /\ header = <<>>
  BY DEF AgentInvariant, ReprogramInvariant, TransferInvariant, PtReads, RpReads
<1>2. AgentInvariant /\ pc = "select" /\ streams = MaxStreams => NoneLeft
  <2>1. NoReception.verdict = "none"
    BY DEF NoReception
  <2>2. QED
    BY <2>1 DEF AgentInvariant, ReprogramInvariant, ReceptionBegun, NoneLeft, RpReads
<1>3. AgentInvariant /\ NoneLeft /\ [Next]_vars => NoneLeft'
  BY NoneLeftStep
<1>4. NoneLeft => reception.verdict # "accepted"
  BY DEF NoneLeft
<1>5. QED BY <1>1, <1>2, <1>3, <1>4, AgentInvariantHolds, PTL DEF Spec, OnlyStreamsStay

\* Of a hex file that is given to the programming steps all was read, and less than a
\* buffer beyond it, however the stream was cut, if the command was read whole; and
\* nothing, if its length is not positive as an int (reprogrammer.c:87-120).
THEOREM FilesAcceptedWhole == Spec => []FileAcceptedWhole
<1>1. AgentInvariant => FileAcceptedWhole
  BY DEF AgentInvariant, ReprogramInvariant
<1>2. QED BY <1>1, AgentInvariantHolds, PTL

\* What a step of packet_transfer_process needs to use foreign memory.
LEMMA CommandsWild ==
    ASSUME TransferInvariant, process_one_command, wild' # wild
    PROVE  /\ pc = "pt_packet"
           /\ header # <<>> => header[1].port_id \notin Ports \/ header[1].size = "long"
<1>1. wild \in BOOLEAN
  BY DEF TransferInvariant, PacketTransferTypeOK
<1>2. CASE read_packet
  <2>1. SUFFICES ASSUME header[1].port_id \in Ports, header[1].size # "long"
                 PROVE  wild' = wild
    BY <1>2 DEF read_packet
  <2>2. wild' = (wild \/ header[1].size = "long"
                      \/ (header[1].type # CMD_POWER_SWITCH /\ header[1].port_id \notin Ports))
    BY <1>2 DEF read_packet, handle_command
  <2>3. QED BY ONLY <1>1, <2>1, <2>2
<1>3. CASE read_packet_misread
  <2>1. PICK got \in 1..Len(inbox), c \in Commands, past \in BOOLEAN :
            /\ header # <<>> =>
                   /\ c.port_id = header[1].port_id
                   /\ past => header[1].size = "long"
            /\ handle_command(c, past)
    BY <1>3 DEF read_packet_misread
  <2>2. SUFFICES ASSUME c.port_id \in Ports, ~past PROVE wild' = wild
    BY <1>3, <2>1 DEF read_packet_misread
  <2>3. wild' = (wild \/ past \/ (c.type # CMD_POWER_SWITCH /\ c.port_id \notin Ports))
    BY <2>1 DEF handle_command
  <2>4. QED BY ONLY <1>1, <2>2, <2>3
<1>4. CASE read_header \/ connection_ends
  BY <1>4 DEF read_header, connection_ends
<1>5. QED BY <1>2, <1>3, <1>4 DEF process_one_command

\* The process ends only at select, when accept fails, or after it used foreign memory for
\* a command that names no node, is too long, or had its length misread (main.c:109-165,
\* packet_transfer.c:103, 138, 151).
THEOREM AgentEndsKnown == Spec => AgentSurvives
<1>1. ASSUME AgentInvariant, [Next]_vars, pc' # pc \/ wild' # wild,
             pc' = "dead" \/ wild' # wild, ~wild, pc # "select"
      PROVE  /\ pc = "pt_packet"
             /\ header # <<>> => header[1].port_id \notin Ports \/ header[1].size = "long"
  <2>1. ~main
    BY <1>1 DEF main, accept_command, accept_reprogram, accept_fails
  <2>2. ~WildShows
    BY <1>1 DEF WildShows, wild_shows
  <2>3. ~Reprogram
    BY <1>1, ReprogramPlaces DEF Reprogram, RpReads, pt_own
  <2>4. ~Clients /\ ~(UNCHANGED vars)
    BY <1>1
    DEF Clients, UploaderSends, UploaderCloses, ProgrammerCloses, Connects, vars, pt_own
  <2>5. UploaderCommands
    BY <1>1, <2>1, <2>2, <2>3, <2>4 DEF Next
  <2>6. process_one_command /\ wild' # wild
    BY <1>1, <2>5, CommandPlaces DEF UploaderCommands, PtReads
  <2>7. QED BY <1>1, <2>6, CommandsWild DEF AgentInvariant
<1>2. AgentInvariant /\ [Next]_vars =>
          [pc' = "dead" \/ wild' # wild =>
               \/ wild \/ pc = "select"
               \/ /\ pc = "pt_packet"
                  /\ header # <<>> => header[1].port_id \notin Ports \/ header[1].size = "long"
            ]_<<pc, wild>>
  BY <1>1
<1>3. QED BY <1>2, AgentInvariantHolds, PTL DEF Spec, AgentSurvives
=============================================================================
