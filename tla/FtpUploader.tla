---------------------------- MODULE FtpUploader ----------------------------
(***************************************************************************)
(* deployer/ftp_uploader.c: the FTP client that uploads the deploy files,   *)
(* with the FTP server of the board it talks to.                            *)
(*                                                                          *)
(* Every function is one or more actions: the call, which sends its first   *)
(* request, and one action for each reply it reads.  ftp_pc says which      *)
(* reply the client is blocked on.  The server handles the requests of a    *)
(* session in order, replies in order, and may close at any time; a reply   *)
(* travels as one segment of the byte stream, or as two when Fragmented.    *)
(* A reply is its class (the first digit; a 5xx is handled as a 4xx, so     *)
(* class 4 stands for both, and class 0 for text that is no reply code).    *)
(***************************************************************************)
EXTENDS DeployProcess, Sequences

CONSTANTS
    NumFiles,       \* number of "deploy files": deployer_parse_deploy_files refuses 0
    FileLen,        \* length of a file, in blocks of DATA_BUFFER_SIZE
    Fragmented,     \* a reply may take two reads: cut by TCP, or over RESP_BUFFER_SIZE
    MaxUnread,      \* bound: no reply is cut while so many segments are unread
    ReadErrors      \* read(2) of a deploy file may fail (a directory, an I/O error)

ASSUME FtpAssumption ==
    /\ NumFiles \in Nat \ {0}
    /\ FileLen \in Nat
    /\ Fragmented \in BOOLEAN
    /\ MaxUnread \in Nat
    /\ ReadErrors \in BOOLEAN

Files == 1..NumFiles

VARIABLES
    ftp_pc,         \* "idle", the request whose reply is awaited, or "SENDING"
    ftp_ret,        \* what the last call returned
    command_socket, data_socket, is_connected, is_transfered,  \* FtpUploader
    conn,           \* command connection: "none", "up", "closed" by the server
    requests,       \* requests the server has not answered; "DATA" is the end of a transfer
    replies,        \* segments the client has not read
    dconn,          \* data connection: "none", "up", "eof" from the client, "aborted"
    received,       \* blocks the server received on it
    storing,        \* the file the server is storing
    ip, file,       \* the board of the session and the file of the last put, 1 before
    offset,         \* file position of every deploy file's descriptor
    stored,         \* history: the files whole on every board
    uploaded        \* history: the files whose last put to the board returned RET_OK

session == <<conn, requests, replies, dconn, received, storing>>
ftp_own == <<ftp_pc, ftp_ret, command_socket, data_socket, is_connected, is_transfered,
             session, ip, file, offset, stored, uploaded>>
ftp_vars == <<proc, fds, ftp_own>>

Requests == {"GREETING", "USER", "PASS", "TYPE", "PASV", "STOR", "DATA", "QUIT"}
Segment == [for : Requests \cup {"CLOSE"}, class : 0..4, last : BOOLEAN]

\* The type invariant of the FtpUploader structure, its session and the boards' files.
FtpTypeOK ==
    /\ ProcessTypeOK
    /\ ftp_pc \in Requests \cup {"idle", "SENDING"}
    /\ ftp_ret \in Results
    /\ command_socket \in Fds \cup {NoFd}
    /\ data_socket \in Fds \cup {NoFd}
    /\ is_connected \in BOOLEAN
    /\ is_transfered \in BOOLEAN
    /\ conn \in {"none", "up", "closed"}
    /\ requests \in Seq(Requests)
    /\ replies \in Seq(Segment)
    /\ dconn \in {"none", "up", "eof", "aborted"}
    /\ received \in Nat
    /\ storing \in Files
    /\ ip \in Targets
    /\ file \in Files
    /\ offset \in [Files -> 0..FileLen]
    /\ stored \in [Targets -> SUBSET Files]
    /\ uploaded \in [Targets -> SUBSET Files]

\* ftp_uploader_create; the sockets have no value before the first connect.
ftp_uploader_create ==
    /\ ftp_pc = "idle"
    /\ ftp_ret = "OK"
    /\ command_socket = NoFd
    /\ data_socket = NoFd
    /\ is_connected = FALSE
    /\ is_transfered = FALSE

FtpInit ==
    /\ ProcessInit
    /\ ftp_uploader_create
    /\ conn = "none" /\ dconn = "none"
    /\ requests = <<>> /\ replies = <<>>
    /\ received = 0 /\ storing = 1 /\ ip = 1 /\ file = 1
    /\ offset = [f \in Files |-> 0]
    /\ stored = [t \in Targets |-> {}]
    /\ uploaded = [t \in Targets |-> {}]

-----------------------------------------------------------------------------
(* What the functions are made of. *)

Return(ret) == ftp_pc' = "idle" /\ ftp_ret' = ret
Await(req) == ftp_pc' = req /\ UNCHANGED ftp_ret
At(pc) == proc = "running" /\ ftp_pc = pc

\* write(command_socket, ...), whose result no caller looks at.
Send(req) ==
    IF conn = "up" THEN requests' = Append(requests, req) /\ UNCHANGED proc
                   ELSE UNCHANGED requests /\ SendToClosed

\* Mutant: a reply of any class is a success.
read_response_any_class(ret, n) ==
    /\ n = 0 => replies = <<>> /\ conn = "closed"
    /\ ret = IF n > 0 /\ replies[1].class \in 1..4 THEN "OK" ELSE "FAIL"
    /\ replies' = SubSeq(replies, n + 1, Len(replies))

\* Mutant: a read(2) of 0 bytes is repeated instead of failing.
read_response_retries(ret, n) ==
    /\ n > 0
    /\ ret = IF replies[1].class \in 1..3 THEN "OK" ELSE "FAIL"
    /\ replies' = SubSeq(replies, n + 1, Len(replies))

\* ftp_uploader_read_response: one read(2) takes the first n segments, and the
\* first three characters of what it took decide; n = 0 is the end of the stream.
ftp_uploader_read_response(ret, n) ==
    /\ n = 0 => replies = <<>> /\ conn = "closed"
    /\ ret = IF n > 0 /\ replies[1].class \in 1..3 THEN "OK" ELSE "FAIL"
    /\ replies' = SubSeq(replies, n + 1, Len(replies))

\* ftp_uploader_parse_passive_port finds "(h1,h2,h3,h4,p1,p2)" in what was read.
passive_port_parsed(n) == \E i \in 1..n : replies[i].for = "PASV" /\ replies[i].last

\* The function reads the reply to req and returns what it says.
ReturnReply(req) ==
    /\ At(req)
    /\ \E ret \in Results, n \in 0..Len(replies) :
          ftp_uploader_read_response(ret, n) /\ Return(ret)
    /\ UNCHANGED <<proc, fds, command_socket, data_socket, is_connected, is_transfered,
                   conn, requests, dconn, received, storing, ip, file, offset, stored>>

-----------------------------------------------------------------------------
(* The calls, and the replies they block on. *)

\* A call is made when none is in progress; all but connect need a session.
Called == At("idle") /\ is_connected /\ conn # "none"

\* A new session to board t; the descriptor of the old one is overwritten.
\* connect(2) fails on a descriptor of -1, and may fail on any other.
ftp_uploader_connect(t) ==
    /\ At("idle")
    /\ \E fd \in Fds \cup {NoFd} :
          /\ Socket(fd)
          /\ command_socket' = fd
          /\ \/ /\ conn' = "none" /\ requests' = <<>>
                /\ Return("FAIL")
                /\ UNCHANGED is_connected
             \/ /\ fd # NoFd
                /\ conn' = "up" /\ requests' = <<"GREETING">>
                /\ is_connected' = TRUE
                /\ Await("GREETING")
    /\ ip' = t /\ replies' = <<>> /\ dconn' = "none"
    /\ UNCHANGED <<proc, data_socket, is_transfered, received, storing, file, offset,
                   stored, uploaded>>

connect_reply == ReturnReply("GREETING") /\ UNCHANGED uploaded

\* A user name or password that is too long fails before anything is sent.
ftp_uploader_login ==
    /\ Called
    /\ \/ Send("USER") /\ Await("USER")
       \/ Return("FAIL") /\ UNCHANGED <<proc, requests>>
    /\ UNCHANGED <<fds, command_socket, data_socket, is_connected, is_transfered, conn,
                   replies, dconn, received, storing, ip, file, offset, stored, uploaded>>

login_user_reply ==
    /\ At("USER")
    /\ \E ret \in Results, n \in 0..Len(replies) :
          /\ ftp_uploader_read_response(ret, n)
          /\ \/ ret = "OK" /\ Send("PASS") /\ Await("PASS")
             \/ ret # "OK" /\ Return("FAIL") /\ UNCHANGED <<proc, requests>>
    /\ UNCHANGED <<fds, command_socket, data_socket, is_connected, is_transfered, conn,
                   dconn, received, storing, ip, file, offset, stored, uploaded>>

login_pass_reply == ReturnReply("PASS") /\ UNCHANGED uploaded

ftp_uploader_set_binary_mode ==
    /\ Called
    /\ Send("TYPE") /\ Await("TYPE")
    /\ UNCHANGED <<fds, command_socket, data_socket, is_connected, is_transfered, conn,
                   replies, dconn, received, storing, ip, file, offset, stored, uploaded>>

set_binary_mode_reply == ReturnReply("TYPE") /\ UNCHANGED uploaded

\* Upload file f through a descriptor that stands at pos.
ftp_uploader_put(f, pos) ==
    /\ Called
    /\ Send("PASV") /\ Await("PASV")
    /\ file' = f
    /\ offset' = [offset EXCEPT ![f] = pos]
    /\ uploaded' = [uploaded EXCEPT ![ip] = @ \ {f}]
    /\ UNCHANGED <<fds, command_socket, data_socket, is_connected, is_transfered, conn,
                   replies, dconn, received, storing, ip, stored>>

\* The data connection to the port of the PASV reply, then STOR; an earlier data
\* socket is overwritten, and a failed connect leaves the new one open.  At another address
\* nothing takes the blocks, or something does, be it by chance the data port after all.
put_open_data(reached) ==
    \E fd \in Fds \cup {NoFd} :
       /\ Socket(fd)
       /\ data_socket' = fd
       /\ \/ /\ dconn' = "none"
             /\ Return("FAIL")
             /\ UNCHANGED <<proc, is_transfered, requests, received>>
          \/ /\ fd # NoFd
             /\ dconn' = IF reached /\ conn = "up" THEN "up" ELSE "aborted"
             /\ received' = 0
             /\ is_transfered' = TRUE
             /\ Send("STOR") /\ Await("STOR")

\* The parser reads past the end of a reply that lacks the address, into what earlier
\* replies left in the buffer: it finds an address there, be it an old one or a mixed
\* one, or returns RET_OOM, or ends the process.
put_pasv_reply ==
    /\ At("PASV")
    /\ \E ret \in Results, n \in 0..Len(replies) :
          LET found == passive_port_parsed(n) /\ ~Fragmented
          IN /\ ftp_uploader_read_response(ret, n)
             /\ \/ /\ ret = "OK"
                   /\ \E reached \in BOOLEAN : (found => reached) /\ put_open_data(reached)
                \/ /\ \/ ret # "OK" /\ Return("FAIL") /\ UNCHANGED proc
                      \/ ret = "OK" /\ ~found /\ Return("OOM") /\ UNCHANGED proc
                      \/ ret = "OK" /\ ~found /\ proc' = "dead" /\ UNCHANGED <<ftp_pc, ftp_ret>>
                   /\ UNCHANGED <<fds, data_socket, is_transfered, requests, dconn, received>>
    /\ UNCHANGED <<command_socket, is_connected, conn, storing, ip, file, offset, stored,
                   uploaded>>

put_stor_reply ==
    /\ At("STOR")
    /\ \E ret \in Results, n \in 0..Len(replies) :
          /\ ftp_uploader_read_response(ret, n)
          /\ \/ ret = "OK" /\ Await("SENDING")
             \/ ret # "OK" /\ Return("FAIL")
    /\ UNCHANGED <<proc, fds, command_socket, data_socket, is_connected, is_transfered, conn,
                   requests, dconn, received, storing, ip, file, offset, stored, uploaded>>

\* Mutant: the loop does not stop at the end of the file.
put_send_block_past_end ==
    /\ At("SENDING")
    /\ dconn = "up"
    /\ offset' = [offset EXCEPT ![file] = @ + 1]
    /\ received' = received + 1
    /\ UNCHANGED <<proc, fds, ftp_pc, ftp_ret, command_socket, data_socket, is_connected,
                   is_transfered, conn, requests, replies, dconn, storing, ip, file,
                   stored, uploaded>>

\* One turn of the loop: a block read from the file is written to the data socket.
put_send_block ==
    /\ At("SENDING")
    /\ offset[file] < FileLen
    /\ offset' = [offset EXCEPT ![file] = @ + 1]
    /\ \/ dconn = "up" /\ received' = received + 1 /\ UNCHANGED proc
       \/ dconn # "up" /\ SendToClosed /\ UNCHANGED received
    /\ UNCHANGED <<fds, ftp_pc, ftp_ret, command_socket, data_socket, is_connected,
                   is_transfered, conn, requests, replies, dconn, storing, ip, file,
                   stored, uploaded>>

\* The loop ends at the end of the file, when read(2) fails and so write(2) is
\* asked for -1 bytes, or when write(2) fails; the data socket is then closed.
put_finish ==
    /\ At("SENDING")
    /\ \/ offset[file] = FileLen /\ UNCHANGED offset
       \/ ReadErrors /\ UNCHANGED offset
       \/ /\ offset[file] < FileLen /\ dconn # "up"
          /\ offset' = [offset EXCEPT ![file] = @ + 1]
    /\ fds' = fds \ {data_socket}
    /\ dconn' = IF dconn = "up" THEN "eof" ELSE dconn
    /\ is_transfered' = FALSE
    /\ Await("DATA")
    /\ UNCHANGED <<proc, command_socket, data_socket, is_connected, conn, requests, replies,
                   received, storing, ip, file, stored, uploaded>>

\* Mutant: the function returns without reading the reply that ends the transfer.
put_data_reply_unread ==
    /\ At("DATA")
    /\ Return("OK")
    /\ uploaded' = [uploaded EXCEPT ![ip] = @ \cup {file}]
    /\ UNCHANGED <<proc, fds, command_socket, data_socket, is_connected, is_transfered,
                   session, ip, file, offset, stored>>

put_data_reply ==
    /\ ReturnReply("DATA")
    /\ uploaded' = IF ftp_ret' = "OK" THEN [uploaded EXCEPT ![ip] = @ \cup {file}]
                                      ELSE uploaded

ftp_uploader_close ==
    /\ Called
    /\ Send("QUIT") /\ Await("QUIT")
    /\ UNCHANGED <<fds, command_socket, data_socket, is_connected, is_transfered, conn,
                   replies, dconn, received, storing, ip, file, offset, stored, uploaded>>

\* Mutant: the close of the session forgets the command socket.
closed_by_close_data_only == IF is_transfered THEN {data_socket} ELSE {}

\* With is_transfered set, only the data socket is closed, and both flags keep
\* or get the value that hides the command socket from the next close.
closed_by_close ==
    IF is_transfered THEN {data_socket}
    ELSE IF is_connected THEN {command_socket} ELSE {}

close_reply ==
    /\ At("QUIT")
    /\ \E ret \in Results, n \in 0..Len(replies) : ftp_uploader_read_response(ret, n)
    /\ Return("OK")
    /\ fds' = fds \ closed_by_close
    /\ is_connected' = FALSE
    /\ conn' = IF command_socket \in closed_by_close THEN "none" ELSE conn
    /\ dconn' = IF dconn = "up" /\ data_socket \in closed_by_close THEN "eof" ELSE dconn
    /\ UNCHANGED <<proc, command_socket, data_socket, is_transfered, requests, received,
                   storing, ip, file, offset, stored, uploaded>>

-----------------------------------------------------------------------------
(* The FTP server of the board, as far as the client can tell. *)

ServerRuns == proc = "running" /\ conn = "up"

Answers == [GREETING |-> {2, 4}, USER |-> {2, 3, 4}, PASS |-> {2, 3, 4}, TYPE |-> {2, 4},
            PASV |-> {2, 4}, STOR |-> {1, 4}, DATA |-> {2, 4}, QUIT |-> {2}]

Seg(req, class, end) == [for |-> req, class |-> class, last |-> end]

\* The reply as one segment, or cut in two anywhere: the first has its code, or not all of
\* it; the second begins with the code of a further line, with text, or with a number.
Reply(req, class) ==
    {<<Seg(req, class, TRUE)>>} \cup
    {<<Seg(req, c[1], FALSE), Seg(req, c[2], TRUE)>> :
        c \in IF Fragmented /\ Len(replies) < MaxUnread THEN {0, class} \X (0..4) ELSE {}}

Answer(req, class) ==
    /\ ServerRuns
    /\ requests # <<>> /\ Head(requests) = req
    /\ \E segments \in Reply(req, class) : replies' = replies \o segments

\* The client's own variables and what the server tells nobody about.
UNCHANGED_client == UNCHANGED <<proc, fds, ftp_pc, ftp_ret, command_socket, data_socket,
                                is_connected, is_transfered, ip, file, offset, uploaded>>

ServerAnswers ==
    /\ \E req \in Requests \ {"DATA"} : \E class \in Answers[req] \ {1} :
          /\ Answer(req, class)
          /\ conn' = IF req = "QUIT" THEN "closed" ELSE conn
    /\ requests' = Tail(requests)
    /\ UNCHANGED_client /\ UNCHANGED <<dconn, received, storing, stored>>

\* 1xx to STOR: the file of that name is truncated, and the end of the transfer
\* is what the server will answer next.
ServerBeginsTransfer ==
    /\ Answer("STOR", 1)
    /\ requests' = <<"DATA">> \o Tail(requests)
    /\ storing' = file
    /\ stored' = [stored EXCEPT ![ip] = @ \ {file}]
    /\ UNCHANGED_client /\ UNCHANGED <<conn, dconn, received>>

\* The end of the data stream is the end of the file, whole or not.
ServerEndsTransfer ==
    /\ Answer("DATA", 2)
    /\ dconn = "eof"
    /\ requests' = Tail(requests)
    /\ stored' = IF received = FileLen THEN [stored EXCEPT ![ip] = @ \cup {storing}]
                                       ELSE stored
    /\ UNCHANGED_client /\ UNCHANGED <<conn, dconn, received, storing>>

\* The flash is full, the data connection is lost: at any time of the transfer.
ServerFailsTransfer ==
    /\ Answer("DATA", 4)
    /\ requests' = Tail(requests)
    /\ dconn' = IF dconn = "up" THEN "aborted" ELSE dconn
    /\ UNCHANGED_client /\ UNCHANGED <<conn, received, storing, stored>>

\* The server ends the session, on its idle timer or because it or the network
\* fails, perhaps with a last 421.
ServerCloses ==
    /\ ServerRuns
    /\ conn' = "closed"
    /\ requests' = <<>>
    /\ \/ UNCHANGED replies
       \/ replies' = Append(replies, Seg("CLOSE", 4, TRUE))
    /\ dconn' = IF dconn = "up" THEN "aborted" ELSE dconn
    /\ UNCHANGED_client /\ UNCHANGED <<received, storing, stored>>

-----------------------------------------------------------------------------
(* Specification: an arbitrary caller, which rewinds a file before it puts it. *)

\* Mutant: a caller that puts a file from where its descriptor stands.
FtpCall_no_lseek ==
    \/ \E t \in Targets : ftp_uploader_connect(t)
    \/ ftp_uploader_login
    \/ \E f \in Files : ftp_uploader_put(f, offset[f])

FtpCall ==
    \/ \E t \in Targets : ftp_uploader_connect(t)
    \/ ftp_uploader_login
    \/ ftp_uploader_set_binary_mode
    \/ \E f \in Files : ftp_uploader_put(f, 0)
    \/ ftp_uploader_close

FtpContinue ==
    \/ connect_reply
    \/ login_user_reply
    \/ login_pass_reply
    \/ set_binary_mode_reply
    \/ put_pasv_reply
    \/ put_stor_reply
    \/ put_send_block
    \/ put_finish
    \/ put_data_reply
    \/ close_reply

FtpServer ==
    \/ ServerAnswers
    \/ ServerBeginsTransfer
    \/ ServerEndsTransfer
    \/ ServerFailsTransfer
    \/ ServerCloses

FtpNext == FtpCall \/ FtpContinue \/ FtpServer

FtpSpec == FtpInit /\ [][FtpNext]_ftp_vars

\* The client runs when it is not blocked.  The server need not answer, but no
\* session lasts for ever: its idle timer ends one that is silent for too long.
FtpFairness == WF_ftp_vars(FtpContinue) /\ WF_ftp_vars(ServerCloses)

FtpFairSpec == FtpSpec /\ FtpFairness

-----------------------------------------------------------------------------
(* Properties. *)

\* What may be unread while the client awaits req: its reply, the end of a
\* transfer that the board gives up early, or the notice of a closing server.
ReplyFor(pc) ==
    CASE pc = "idle" -> {"CLOSE"}
      [] pc = "STOR" -> {"STOR", "DATA", "CLOSE"}
      [] pc = "SENDING" -> {"DATA", "CLOSE"}
      [] OTHER -> {pc, "CLOSE"}

\* ftp_uploader_read_response takes whatever one read(2) returns for the reply to
\* the request just sent.  With whole replies it is never the reply to another
\* request, whatever mix of calls, failed calls and reconnections came before.
RepliesMatchRequest ==
    ~Fragmented => \A i \in 1..Len(replies) : replies[i].for \in ReplyFor(ftp_pc)

\* ftp_uploader_put returns RET_OK only for a file the board has whole, and a
\* later call takes that away only with a new put of the same file.
UploadedMeansStored ==
    ~Fragmented /\ ~ReadErrors => \A t \in Targets : uploaded[t] \subseteq stored[t]

(* Why the two hold: one request at most is open, and what is unread answers it; *)
(* and from PASV to the reply that ends the transfer, the bytes on the board are *)
(* those before the file position.                                              *)

InPut == {"PASV", "STOR", "SENDING", "DATA"}

OneRequest ==
    \/ requests = <<>>
    \/ /\ conn = "up"
       /\ \/ ftp_pc \in Requests \ {"DATA"} /\ requests = <<ftp_pc>> /\ replies = <<>>
          \/ ftp_pc \in {"STOR", "SENDING", "DATA"} /\ requests = <<"DATA">>

RepliesInOrder ==
    \A i \in 1..Len(replies) :
        /\ replies[i].for \in ReplyFor(ftp_pc)
        /\ replies[i].for = "CLOSE" => conn # "up" /\ replies[i].class = 4
        /\ replies[i].for = "DATA" => requests = <<>> /\ i = IF ftp_pc = "STOR" THEN 2 ELSE 1
        /\ replies[i].for \notin {"CLOSE", "DATA"} => i = 1

\* Only a 1xx to STOR is followed by a transfer.
TransferWasBegun ==
    ftp_pc = "STOR" /\ (requests = <<"DATA">> \/ \E i \in 1..Len(replies) : replies[i].for = "DATA")
        => replies # <<>> /\ replies[1].for = "STOR" /\ replies[1].class = 1

ProtocolInv == OneRequest /\ RepliesInOrder /\ TransferWasBegun

TransferInv ==
    /\ ftp_pc \in InPut => file \notin uploaded[ip]
    /\ ftp_pc = "PASV" => offset[file] = 0
    /\ ftp_pc = "STOR" => dconn # "eof" /\ offset[file] = 0 /\ received = 0
    /\ ftp_pc = "SENDING" => dconn # "eof" /\ (dconn = "up" => received = offset[file])
    /\ ftp_pc = "DATA" /\ dconn = "eof" => received = FileLen
    /\ requests = <<"DATA">> => storing = file
    /\ \A i \in 1..Len(replies) :
          replies[i].for = "DATA" /\ replies[i].class # 4 => file \in stored[ip]

\* The inductive invariant: the replies follow the protocol, and the transfer in
\* progress is that of file to ip, however ftp_uploader_put was left before.
FtpInvariant ==
    /\ ~Fragmented => ProtocolInv
    /\ ~Fragmented /\ ~ReadErrors => TransferInv /\ UploadedMeansStored

\* The same with no assumption on reads: what the callback of deployer.c reports
\* as the success of a file upload (ftp_uploader.c:433-447).
SuccessMeansStored == \A t \in Targets : uploaded[t] \subseteq stored[t]

\* "close data port socket and wait for 2xx successful reply code"
\* (ftp_uploader.c:439): the call that ends a transfer with RET_OK read a 2xx.
TransferEndsOn2xx ==
    [][At("DATA") /\ ftp_pc' = "idle" /\ ftp_ret' = "OK" => replies[1].class = 2]_ftp_vars

\* No function blocks for ever: it returns, or the process dies.
CallsReturn == (ftp_pc # "idle") ~> (ftp_pc = "idle" \/ proc = "dead")
=============================================================================
