---------------------------- MODULE Reprogrammer ----------------------------
(***************************************************************************)
(* app/reprogrammer.c: one connection brings a command, with the length of  *)
(* a hex file, and the file.  The steps that would program the node return  *)
(* at once: each begins with return_val_if_fail(thiz != thiz).              *)
(*                                                                          *)
(* The command is two units of the byte stream, the file as many as its     *)
(* length says; a client may send fewer, or more.  The stream of the hex    *)
(* file is a FILE, which write(2) and close(2) are given in place of a      *)
(* descriptor: nothing is written to it, and nothing ever closes it.        *)
(***************************************************************************)
EXTENDS AgentProcess

CONSTANTS
    LenModulus,     \* 2^32: hex_file_len is a uint32_t, which is then an int
    RecvBuf,        \* RECV_BUF_SIZE, in units
    MaxStreams,     \* descriptors there ever are for hex files, be it the 0 that is closed for NULL
    MaxExtra        \* bound: units that a client sends beyond its file

ASSUME ReprogrammerAssumption ==
    /\ LenModulus \in Nat \ {0} /\ LenModulus % 2 = 0
    /\ RecvBuf \in Nat \ {0}
    /\ MaxStreams \in Nat /\ MaxExtra \in Nat

VARIABLES
    server_socket,  \* whether Reprogrammer.server_socket is open
    hex_fd,         \* whether Reprogrammer.hex_fd is not -1
    streams,        \* FILE streams of hex files that the process has open
    programmer,     \* the client's connection
    units,          \* units that arrived on it and were not read
    hex_file_len,   \* the local of reprogrammer_receive_hex_file: what is still to come
    reception       \* history: what the client wants, what was read, and how it ended

rp_own == <<server_socket, hex_fd, streams, programmer, units, hex_file_len, reception>>

HeaderUnits == 2
Lengths == 0..(LenModulus - 1)

\* The conversion of uint32_t to the parameter of type int.
ToInt(len) == IF len < LenModulus \div 2 THEN len ELSE len - LenModulus

\* good and len are the client's command: whether its prefix is PROGV3, and the length;
\* exact says that it was read whole, got counts what was taken for the file.
Receptions == [good : BOOLEAN, len : Lengths, exact : BOOLEAN, got : Nat,
               verdict : {"none", "accepted", "refused"}]
NoReception == [good |-> FALSE, len |-> 0, exact |-> FALSE, got |-> 0, verdict |-> "none"]

\* The type invariant of the Reprogrammer structure and its client.
ReprogrammerTypeOK ==
    /\ server_socket \in BOOLEAN
    /\ hex_fd \in BOOLEAN
    /\ streams \in 0..MaxStreams
    /\ programmer \in Conns
    /\ units \in Nat
    /\ hex_file_len \in Int
    /\ reception \in Receptions

\* reprogrammer_create.
ReprogrammerInit ==
    /\ server_socket = FALSE /\ hex_fd = FALSE /\ streams = 0
    /\ programmer = "none" /\ units = 0
    /\ hex_file_len = 0
    /\ reception = NoReception

\* reprogrammer_process begins.  The client has sent its command and its file, or a part,
\* or more.
reprogrammer_process ==
    /\ server_socket' = TRUE /\ programmer' = "up"
    /\ \E good \in BOOLEAN, len \in Lengths :
           /\ reception' = [NoReception EXCEPT !.good = good, !.len = len]
           /\ units' \in 0..(HeaderUnits + len + MaxExtra)
    /\ pc' = "rp_header"
    /\ UNCHANGED <<hex_fd, streams, hex_file_len>>

Exit(verdict) == pc' = "rp_exit" /\ reception'.verdict = verdict

\* Mutant: fopen(3) cannot fail.
header_parsed_unchecked(good, len) ==
    \/ /\ good
       /\ hex_fd' = TRUE /\ streams' = streams + 1
       /\ hex_file_len' = ToInt(len)
       /\ IF ToInt(len) > 0 THEN pc' = "rp_file" /\ reception'.verdict = "none"
          ELSE Exit("accepted")
    \/ ~good /\ Exit("refused") /\ UNCHANGED <<hex_fd, streams, hex_file_len>>

\* The prefix and the length that were read: the file is created, and the loop over it
\* is entered if the length, as an int, is positive.  If fopen(3) fails, hex_fd is NULL,
\* which is not -1 either: the exit closes descriptor 0 for it.
header_parsed(good, len) ==
    \/ /\ good /\ streams < MaxStreams
       /\ hex_fd' = TRUE /\ streams' = streams + 1
       /\ hex_file_len' = ToInt(len)
       /\ IF ToInt(len) > 0 THEN pc' = "rp_file" /\ reception'.verdict = "none"
          ELSE Exit("accepted")
    \/ good /\ hex_fd' = TRUE /\ Exit("refused") /\ UNCHANGED <<streams, hex_file_len>>
    \/ ~good /\ Exit("refused") /\ UNCHANGED <<hex_fd, streams, hex_file_len>>

\* The command, whole.
read_command ==
    /\ pc = "rp_header"
    /\ units >= HeaderUnits /\ units' = units - HeaderUnits
    /\ \E v \in {"none", "accepted", "refused"} :
           reception' = [reception EXCEPT !.exact = TRUE, !.verdict = v]
    /\ header_parsed(reception.good, reception.len)
    /\ UNCHANGED <<server_socket, programmer>>

\* Nothing looks at how many bytes there were: the rest of the command is what the
\* stack held, and what is still to arrive of it is taken for the file.
read_command_short ==
    /\ pc = "rp_header"
    /\ \/ units > 0 /\ units' = units - 1
       \/ units = 0 /\ programmer = "closed" /\ UNCHANGED units
    /\ \E v \in {"none", "accepted", "refused"} : reception' = [reception EXCEPT !.verdict = v]
    /\ \E good \in BOOLEAN, len \in Lengths : header_parsed(good, len)
    /\ UNCHANGED <<server_socket, programmer>>

\* A read of the file takes what has arrived, a buffer full at most, be it more than is
\* still to come.
read_file ==
    /\ pc = "rp_file"
    /\ \E n \in 1..RecvBuf :
           /\ n <= units /\ units' = units - n
           /\ hex_file_len' = hex_file_len - n
           /\ LET v == IF hex_file_len' > 0 THEN "none" ELSE "accepted"
              IN /\ reception' = [reception EXCEPT !.got = @ + n, !.verdict = v]
                 /\ pc' = IF v = "none" THEN "rp_file" ELSE "rp_exit"
    /\ UNCHANGED <<server_socket, hex_fd, streams, programmer>>

\* Mutant: the end of the stream is taken for the end of the file.
read_end_accepted ==
    /\ pc \in RpReads /\ programmer = "closed"
    /\ reception' = [reception EXCEPT !.verdict = IF pc = "rp_file" THEN "accepted" ELSE "refused"]
    /\ pc' = "rp_exit"
    /\ UNCHANGED <<server_socket, hex_fd, streams, programmer, units, hex_file_len>>

\* Mutant: within the file, the end of the stream is read again.
read_end_retries ==
    /\ pc = "rp_header" /\ programmer = "closed"
    /\ reception' = [reception EXCEPT !.verdict = "refused"]
    /\ pc' = "rp_exit"
    /\ UNCHANGED <<server_socket, hex_fd, streams, programmer, units, hex_file_len>>

\* read(2) failed, or, within the file, said that the client has closed.
read_end ==
    /\ pc \in RpReads /\ programmer = "closed"
    /\ reception' = [reception EXCEPT !.verdict = "refused"]
    /\ pc' = "rp_exit"
    /\ UNCHANGED <<server_socket, hex_fd, streams, programmer, units, hex_file_len>>

\* Mutant: a reception that was refused leaves its connection open.
reprogrammer_exit_open ==
    /\ pc = "rp_exit" /\ pc' = "select"
    /\ server_socket' = (reception.verdict = "refused") /\ hex_fd' = FALSE /\ hex_file_len' = 0
    /\ programmer' = "none" /\ units' = 0 /\ reception' = NoReception
    /\ UNCHANGED streams

\* exit: RET_OK, whatever happened.  hex_fd is -1 again, and its stream is still open.
reprogrammer_exit ==
    /\ pc = "rp_exit" /\ pc' = "select"
    /\ server_socket' = FALSE /\ hex_fd' = FALSE /\ hex_file_len' = 0
    /\ programmer' = "none" /\ units' = 0 /\ reception' = NoReception
    /\ UNCHANGED streams

ReprogrammerStep ==
    read_command \/ read_command_short \/ read_file \/ read_end \/ reprogrammer_exit

ProgrammerCloses ==
    /\ pc \in RpReads /\ programmer = "up"
    /\ programmer' = "closed"
    /\ UNCHANGED <<pc, server_socket, hex_fd, streams, units, hex_file_len, reception>>

-----------------------------------------------------------------------------
(* Properties. *)

\* A file is given to the programming steps only if all of it came, and less than a
\* buffer beyond it, provided that the command was read whole: neither an early end of the
\* stream nor how it is cut leads there with less, and a longer stream does not lead far
\* beyond.  All of it is nothing when the length is negative as an int: the loop is not
\* entered, and such a file is accepted with nothing read (reprogrammer.c:87-120).
FileAcceptedWhole ==
    reception.verdict = "accepted" /\ reception.exact =>
        LET len == ToInt(reception.len)
        IN /\ reception.good
           /\ len > 0 => reception.got >= len /\ reception.got < len + RecvBuf
           /\ ~(len > 0) => reception.got = 0
=============================================================================
