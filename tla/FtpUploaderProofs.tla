------------------------- MODULE FtpUploaderProofs -------------------------
(***************************************************************************)
(* What the runs of FtpUploader show on a small instance, proved for any    *)
(* number of boards, files, blocks and descriptors: its types, that no      *)
(* reply is taken for the reply to another request, and that a file whose   *)
(* upload succeeded is whole on the board.                                  *)
(***************************************************************************)
EXTENDS FtpUploader, SequenceTheorems, TLAPS

USE DeployProcessAssumption, FtpAssumption

-----------------------------------------------------------------------------
(* Type correctness. *)

\* What is left of the unread segments after a read(2) is a sequence of segments.
LEMMA ReadKeepsType ==
    ASSUME NEW s \in Seq(Segment), NEW n \in 0..Len(s)
    PROVE  SubSeq(s, n + 1, Len(s)) \in Seq(Segment)
  OBVIOUS

\* A sequence of one element, and of none, has the type of its elements.
LEMMA SingleType ==
    ASSUME NEW S, NEW a \in S
    PROVE  <<a>> \in Seq(S) /\ <<>> \in Seq(S)
  OBVIOUS

\* Appending an element keeps the type of a sequence.
LEMMA AppendType ==
    ASSUME NEW S, NEW s \in Seq(S), NEW e \in S
    PROVE  Append(s, e) \in Seq(S)
  OBVIOUS

\* A sequence of two elements has the type of its elements.
LEMMA PairType ==
    ASSUME NEW S, NEW a \in S, NEW b \in S
    PROVE  <<a, b>> \in Seq(S)
  OBVIOUS

\* A reply of the server, whole or in two parts, is a sequence of segments.
LEMMA ReplyType ==
    ASSUME NEW req \in Requests, NEW class \in 0..4, NEW segments \in Reply(req, class)
    PROVE  segments \in Seq(Segment)
<1>1. CASE segments = <<Seg(req, class, TRUE)>>
  BY <1>1 DEF Seg, Segment
<1>2. ASSUME NEW c \in {0, class} \X (0..4),
             segments = <<Seg(req, c[1], FALSE), Seg(req, c[2], TRUE)>>
      PROVE  segments \in Seq(Segment)
  <2>1. Seg(req, c[1], FALSE) \in Segment /\ Seg(req, c[2], TRUE) \in Segment
    BY DEF Seg, Segment
  <2>2. QED BY <1>2, <2>1, PairType
<1>3. QED BY <1>1, <1>2 DEF Reply

\* A write on the command connection leaves the process and the open requests well typed.
LEMMA SendType ==
    ASSUME FtpTypeOK, NEW req \in Requests, Send(req)
    PROVE  proc' \in {"running", "dead"} /\ requests' \in Seq(Requests)
<1>1. CASE conn = "up"
  <2>1. requests' = Append(requests, req) /\ proc' = proc
    BY <1>1 DEF Send
  <2>2. QED BY <2>1, AppendType DEF FtpTypeOK, ProcessTypeOK
<1>2. CASE conn # "up"
  BY <1>2 DEF FtpTypeOK, ProcessTypeOK, Send, SendToClosed
<1>3. QED BY <1>1, <1>2

\* ftp_uploader_read_response leaves segments unread and returns a Ret.
LEMMA ReadType ==
    ASSUME FtpTypeOK, NEW ret, NEW n \in 0..Len(replies), ftp_uploader_read_response(ret, n)
    PROVE  replies' \in Seq(Segment) /\ ret \in Results
  BY ReadKeepsType DEF FtpTypeOK, ftp_uploader_read_response, Results

\* An answer of the server leaves segments and requests.
LEMMA AnswerType ==
    ASSUME FtpTypeOK, NEW req \in Requests, NEW class \in 0..4, Answer(req, class)
    PROVE  /\ replies' \in Seq(Segment)
           /\ Tail(requests) \in Seq(Requests)
  BY ReplyType DEF FtpTypeOK, Answer

\* socket(2) opens a descriptor below the limit, or none.
LEMMA SocketType ==
    ASSUME FtpTypeOK, NEW fd \in Fds \cup {NoFd}, Socket(fd)
    PROVE  fds' \subseteq Fds
  BY DEF FtpTypeOK, ProcessTypeOK, Socket

\* Every function of ftp_uploader.c, as far as its first blocking read, keeps the types.
LEMMA TypeCall == FtpTypeOK /\ FtpCall => FtpTypeOK'
<1> SUFFICES ASSUME FtpTypeOK, FtpCall PROVE FtpTypeOK'
  OBVIOUS
<1> USE DEF FtpTypeOK, ProcessTypeOK, Return, Await, Results, session
<1>1. ASSUME NEW t \in Targets, ftp_uploader_connect(t) PROVE FtpTypeOK'
  <2>1. PICK fd \in Fds \cup {NoFd} : /\ Socket(fd) /\ command_socket' = fd
    BY <1>1 DEF ftp_uploader_connect
  <2>2. fds' \subseteq Fds
    BY <2>1, SocketType
  <2>3. requests' \in Seq(Requests) /\ replies' \in Seq(Segment)
    <3>1. replies' = <<>> /\ (requests' = <<>> \/ requests' = <<"GREETING">>)
      BY <1>1 DEF ftp_uploader_connect
    <3>2. "GREETING" \in Requests
      BY DEF Requests
    <3>3. <<>> \in Seq(Requests) /\ <<"GREETING">> \in Seq(Requests) /\ <<>> \in Seq(Segment)
      BY <3>2, SingleType
    <3>4. QED BY <3>1, <3>3
  <2>4. ftp_pc' \in Requests \cup {"idle", "SENDING"} /\ ftp_ret' \in Results
    BY <1>1 DEF ftp_uploader_connect, Requests
  <2>5. is_connected' \in BOOLEAN /\ conn' \in {"none", "up", "closed"}
    BY <1>1 DEF ftp_uploader_connect
  <2>6. QED
    BY <1>1, <2>1, <2>2, <2>3, <2>4, <2>5 DEF ftp_uploader_connect
<1>2. CASE ftp_uploader_login
  BY <1>2, SendType DEF ftp_uploader_login, Requests
<1>3. CASE ftp_uploader_set_binary_mode
  BY <1>3, SendType DEF ftp_uploader_set_binary_mode, Requests
<1>4. ASSUME NEW f \in Files, ftp_uploader_put(f, 0) PROVE FtpTypeOK'
  BY <1>4, SendType DEF ftp_uploader_put, Requests
<1>5. CASE ftp_uploader_close
  BY <1>5, SendType DEF ftp_uploader_close, Requests
<1>6. QED BY <1>1, <1>2, <1>3, <1>4, <1>5 DEF FtpCall

\* What a function does after a reply keeps the types.
LEMMA TypeContinue == FtpTypeOK /\ FtpContinue => FtpTypeOK'
<1> SUFFICES ASSUME FtpTypeOK, FtpContinue PROVE FtpTypeOK'
  OBVIOUS
<1> USE DEF FtpTypeOK, ProcessTypeOK, Return, Await, Results, session
<1>1. ASSUME NEW req, ReturnReply(req), uploaded' \in [Targets -> SUBSET Files]  PROVE FtpTypeOK'
  BY <1>1, ReadType DEF ReturnReply
<1>2. CASE connect_reply \/ login_pass_reply \/ set_binary_mode_reply
  BY <1>1, <1>2 DEF connect_reply, login_pass_reply, set_binary_mode_reply
<1>3. CASE login_user_reply
  BY <1>3, SendType, ReadType DEF login_user_reply, Requests
<1>4. CASE put_pasv_reply
  <2>1. PICK ret \in Results, n \in 0..Len(replies) : 
      ftp_uploader_read_response(ret, n) 
    BY <1>4 DEF put_pasv_reply
  <2>2. replies' \in Seq(Segment)
    BY <2>1, ReadType
  <2>3. ASSUME NEW reached \in BOOLEAN, put_open_data(reached) PROVE FtpTypeOK'
    <3>1. PICK fd \in Fds \cup {NoFd} : /\ Socket(fd) /\ data_socket' = fd
      BY <2>3 DEF put_open_data
    <3>2. fds' \subseteq Fds
      BY <3>1, SocketType
    <3>3. proc' \in {"running", "dead"} /\ requests' \in Seq(Requests)
      BY <2>3, SendType DEF put_open_data, Requests
    <3>4. ftp_pc' \in Requests \cup {"idle", "SENDING"} /\ ftp_ret' \in Results
      BY <2>3 DEF put_open_data, Requests
    <3>5. is_transfered' \in BOOLEAN
      BY <2>3 DEF put_open_data
    <3>7. received' \in Nat
      BY <2>3 DEF put_open_data
    <3>8. dconn' \in {"none", "up", "eof", "aborted"}
      BY <2>3 DEF put_open_data
    <3>6. QED
      BY <1>4, <2>2, <3>1, <3>2, <3>3, <3>4, <3>5, <3>7, <3>8 DEF put_pasv_reply
  <2>4. CASE ~\E reached \in BOOLEAN : put_open_data(reached)
    BY <1>4, <2>2, <2>4 DEF put_pasv_reply
  <2> QED BY <2>3, <2>4
<1>5. CASE put_stor_reply
  BY <1>5, ReadType DEF put_stor_reply
<1>6. CASE put_send_block
  BY <1>6 DEF put_send_block, SendToClosed
<1>7. CASE put_finish
  <2>1. offset' \in [Files -> 0..FileLen]
    BY <1>7 DEF put_finish
  <2>2. fds' \subseteq Fds /\ ftp_pc' \in Requests
    BY <1>7 DEF put_finish, Requests
  <2>3. dconn' \in {"none", "up", "eof", "aborted"}
    BY <1>7 DEF put_finish
  <2>4. QED
    BY <1>7, <2>1, <2>2, <2>3 DEF put_finish
<1>8. CASE put_data_reply
  BY <1>1, <1>8 DEF put_data_reply
<1>9. CASE close_reply
  BY <1>9, ReadType DEF close_reply
<1>10. QED BY <1>2, <1>3, <1>4, <1>5, <1>6, <1>7, <1>8, <1>9 DEF FtpContinue

\* Every step of the server keeps the types.
LEMMA TypeServer == FtpTypeOK /\ FtpServer => FtpTypeOK'
<1> SUFFICES ASSUME FtpTypeOK, FtpServer PROVE FtpTypeOK'
  OBVIOUS
<1> USE DEF FtpTypeOK, ProcessTypeOK, UNCHANGED_client
<1>1. CASE ServerAnswers
  <2>1. PICK req \in Requests \ {"DATA"} : \E class \in Answers[req] \ {1} :
            Answer(req, class) /\ conn' = IF req = "QUIT" THEN "closed" ELSE conn
    BY <1>1 DEF ServerAnswers
  <2>. PICK class \in Answers[req] \ {1} :
            Answer(req, class) /\ conn' = IF req = "QUIT" THEN "closed" ELSE conn
    BY <2>1
  <2>2. class \in 0..4
    BY DEF Answers, Requests
  <2>3. replies' \in Seq(Segment) /\ Tail(requests) \in Seq(Requests)
    BY <2>2, AnswerType
  <2>4. QED
    BY <1>1, <2>3 DEF ServerAnswers
<1>2. CASE ServerBeginsTransfer
  BY <1>2, AnswerType DEF ServerBeginsTransfer, Requests
<1>3. CASE ServerEndsTransfer
  BY <1>3, AnswerType DEF ServerEndsTransfer, Requests
<1>4. CASE ServerFailsTransfer
  BY <1>4, AnswerType DEF ServerFailsTransfer, Requests
<1>5. CASE ServerCloses
  <2>1. Seg("CLOSE", 4, TRUE) \in Segment
    BY DEF Seg, Segment
  <2>2. replies' \in Seq(Segment)
    <3>1. CASE replies' = replies
      BY <3>1
    <3>2. CASE replies' = Append(replies, Seg("CLOSE", 4, TRUE))
      BY <2>1, <3>2, AppendType
    <3>3. QED BY <1>5, <3>1, <3>2 DEF ServerCloses
  <2>3. requests' \in Seq(Requests)
    BY <1>5 DEF ServerCloses
  <2>4. QED
    BY <1>5, <2>2, <2>3 DEF ServerCloses
<1>6. QED BY <1>1, <1>2, <1>3, <1>4, <1>5 DEF FtpServer

\* A created FtpUploader has the types.
LEMMA TypeInit == FtpInit => FtpTypeOK
<1> SUFFICES ASSUME FtpInit PROVE FtpTypeOK
  OBVIOUS
<1> USE DEF ProcessInit, FtpInit, ftp_uploader_create
<1>1. ProcessTypeOK
  BY DEF ProcessTypeOK
<1>2. requests \in Seq(Requests) /\ replies \in Seq(Segment)
  BY SingleType
<1>3. /\ offset \in [Files -> 0..FileLen]
      /\ stored \in [Targets -> SUBSET Files]
      /\ uploaded \in [Targets -> SUBSET Files]
  OBVIOUS
<1>4. ip \in Targets /\ file \in Files /\ storing \in Files
  BY DEF Targets, Files
<1>5. ftp_ret \in Results /\ received \in Nat
  BY DEF Results
<1>6. QED
  BY <1>1, <1>2, <1>3, <1>4, <1>5 DEF FtpTypeOK, NoFd

\* The variables keep their types whatever the boards, files, blocks and descriptors
\* are, with replies cut or whole and with files that cannot be read.
THEOREM TypeCorrect == FtpSpec => []FtpTypeOK
<1>1. FtpTypeOK /\ [FtpNext]_ftp_vars => FtpTypeOK'
  <2> SUFFICES ASSUME FtpTypeOK, [FtpNext]_ftp_vars PROVE FtpTypeOK'
    OBVIOUS
  <2>1. CASE FtpNext
    BY <2>1, TypeCall, TypeContinue, TypeServer DEF FtpNext
  <2>2. CASE UNCHANGED ftp_vars
    BY <2>2 DEF ftp_vars, ftp_own, session, FtpTypeOK, ProcessTypeOK
  <2>3. QED BY <2>1, <2>2
<1>2. QED BY <1>1, TypeInit, PTL DEF FtpSpec

-----------------------------------------------------------------------------
(* The protocol invariant: one open request, and replies that answer it. *)

\* Nothing is unread but the notice of a server that has closed.
OnlyNotices ==
    \A i \in 1..Len(replies) :
        replies[i].for = "CLOSE" /\ replies[i].class = 4 /\ conn # "up"

\* A read of n segments leaves the others in their order, and finds the end of the
\* stream only when nothing is unread and the server has closed.
LEMMA ReadLeaves ==
    ASSUME FtpTypeOK, NEW ret, NEW n \in 0..Len(replies), ftp_uploader_read_response(ret, n)
    PROVE  /\ Len(replies') = Len(replies) - n
           /\ \A i \in 1..(Len(replies) - n) : replies'[i] = replies[i + n]
           /\ n = 0 => replies = <<>> /\ conn = "closed"
<1>1. replies \in Seq(Segment)
  BY DEF FtpTypeOK
<1>2. QED
  BY <1>1 DEF ftp_uploader_read_response

\* Between calls the protocol invariant asks for no more than this.
LEMMA IdleProtocol ==
    ASSUME (requests = <<>> /\ OnlyNotices /\ ftp_pc = "idle")'
    PROVE  ProtocolInv'
  BY DEF ProtocolInv, OneRequest, RepliesInOrder, TransferWasBegun, OnlyNotices, ReplyFor

\* Between calls no request is open, and only the notice of a closing server can be
\* unread: no call of ftp_uploader.c returns before its last reply.
LEMMA IdleMeans ==
    ASSUME ProtocolInv, ftp_pc = "idle"
    PROVE  requests = <<>> /\ OnlyNotices
  BY DEF ProtocolInv, OneRequest, RepliesInOrder, OnlyNotices, ReplyFor, Requests

\* The read of a reply, except the one to STOR, closes the request: what stays unread
\* is the notice of a closing server.
LEMMA ReadMeans ==
    ASSUME FtpTypeOK, ProtocolInv, ftp_pc \in Requests \ {"STOR"},
           conn' = conn \/ conn' = "none",
           NEW ret, NEW n \in 0..Len(replies), ftp_uploader_read_response(ret, n)
    PROVE  requests = <<>> /\ OnlyNotices'
<1>0. Len(replies) \in Nat
  BY DEF FtpTypeOK
<1>1. requests = <<>>
  <2>1. CASE n = 0
    BY <2>1, ReadLeaves DEF ProtocolInv, OneRequest
  <2>2. CASE n > 0 /\ requests = <<"DATA">> /\ ftp_pc = "DATA" /\ conn = "up"
    <3>1. 1 \in 1..Len(replies)
      BY <1>0, <2>2
    <3>2. replies[1].for \in {"DATA", "CLOSE"}
      BY <3>1, <2>2 DEF ProtocolInv, RepliesInOrder, ReplyFor
    <3>3. QED
      BY <3>1, <3>2, <2>2 DEF ProtocolInv, RepliesInOrder
  <2>3. CASE n > 0 /\ replies = <<>>
    BY <2>3
  <2>4. QED
    BY <1>0, <2>1, <2>2, <2>3 DEF ProtocolInv, OneRequest, Requests
<1>2. ASSUME NEW i \in 1..Len(replies') 
      PROVE  replies'[i].for = "CLOSE" /\ replies'[i].class = 4 /\ conn' # "up"
  <2>1. /\ replies'[i] = replies[i + n] /\ n > 0
        /\ i + n \in 1..Len(replies) /\ i + n > 1
    BY <1>0, <1>2, ReadLeaves
  <2>2. replies[i + n].for \in {ftp_pc, "CLOSE"}
    BY <2>1 DEF ProtocolInv, RepliesInOrder, ReplyFor, Requests
  <2>3. QED
    BY <2>1, <2>2 DEF ProtocolInv, RepliesInOrder
<1>3. QED BY <1>1, <1>2 DEF OnlyNotices

\* A request sent when none is open is the only one open.
LEMMA SendProtocol ==
    ASSUME FtpTypeOK, requests = <<>>, conn' = conn, OnlyNotices', replies' \in Seq(Segment),
           NEW req \in Requests \ {"DATA"}, Send(req), ftp_pc' = req
    PROVE  ProtocolInv'
<1>1. CASE conn = "up"
  <2>1. Len(replies') = 0 /\ replies' = <<>>
    BY <1>1 DEF OnlyNotices
  <2>2. requests' = <<req>>
    BY <1>1 DEF Send
  <2>3. QED
    BY <1>1, <2>1, <2>2 DEF ProtocolInv, OneRequest, RepliesInOrder, TransferWasBegun, Requests
<1>2. CASE conn # "up"
  <2>1. requests' = <<>>
    BY <1>2 DEF Send
  <2>2. QED
    BY <1>2, <2>1 DEF ProtocolInv, OneRequest, RepliesInOrder, TransferWasBegun, OnlyNotices, ReplyFor, Requests
<1>3. QED BY <1>1, <1>2

\* Every call keeps the protocol invariant.
LEMMA ProtocolCall ==
    ASSUME FtpTypeOK, ProtocolInv, FtpCall
    PROVE  ProtocolInv'
<1>1. ASSUME NEW t \in Targets, ftp_uploader_connect(t) PROVE ProtocolInv'
  BY <1>1 DEF ftp_uploader_connect, ProtocolInv, OneRequest, RepliesInOrder, TransferWasBegun,
              Return, Await, Requests
<1>2. ASSUME At("idle"), conn' = conn, replies' = replies, NEW req \in Requests \ {"DATA"},
             Send(req), Await(req)
      PROVE  ProtocolInv'
  <2>1. requests = <<>> /\ OnlyNotices'
    BY <1>2, IdleMeans DEF At, OnlyNotices
  <2>2. QED
    BY <1>2, <2>1, SendProtocol DEF Await, FtpTypeOK
<1>3. CASE ftp_uploader_login
  <2>1. CASE Send("USER") /\ Await("USER")
    BY <1>2, <1>3, <2>1 DEF ftp_uploader_login, Called, Requests
  <2>2. CASE Return("FAIL") /\ UNCHANGED <<proc, requests>>
    <3>1. requests' = <<>> /\ OnlyNotices'
      BY <1>3, <2>2, IdleMeans DEF ftp_uploader_login, Called, At, OnlyNotices
    <3>2. ftp_pc' = "idle"
      BY <2>2 DEF Return
    <3>3. QED
      BY <3>1, <3>2, IdleProtocol
  <2>3. QED BY <1>3, <2>1, <2>2 DEF ftp_uploader_login
<1>4. CASE ftp_uploader_set_binary_mode
  BY <1>2, <1>4 DEF ftp_uploader_set_binary_mode, Called, Requests
<1>5. ASSUME NEW f \in Files, ftp_uploader_put(f, 0) PROVE ProtocolInv'
  BY <1>2, <1>5 DEF ftp_uploader_put, Called, Requests
<1>6. CASE ftp_uploader_close
  BY <1>2, <1>6 DEF ftp_uploader_close, Called, Requests
<1>7. QED BY <1>1, <1>3, <1>4, <1>5, <1>6 DEF FtpCall

\* What a function does after a reply keeps the protocol invariant.
LEMMA ProtocolContinue ==
    ASSUME FtpTypeOK, FtpTypeOK', ProtocolInv, FtpContinue
    PROVE  ProtocolInv'
<1>0. Len(replies) \in Nat
  BY DEF FtpTypeOK
<1>1. ASSUME ftp_pc \in Requests \ {"STOR"}, conn' = conn \/ conn' = "none",
             NEW ret, NEW n \in 0..Len(replies), ftp_uploader_read_response(ret, n),
             ftp_pc' = "idle", requests' = requests
      PROVE  ProtocolInv'
  BY <1>1, ReadMeans, IdleProtocol DEF OnlyNotices
<1>2. CASE connect_reply \/ login_pass_reply \/ set_binary_mode_reply \/ put_data_reply
  BY <1>1, <1>2 DEF connect_reply, login_pass_reply, set_binary_mode_reply, put_data_reply,
                    ReturnReply, Return, At, Requests
<1>3. CASE close_reply
  BY <1>1, <1>3 DEF close_reply, Return, At, Requests
<1>4. CASE login_user_reply
  <2>1. PICK ret \in Results, n \in 0..Len(replies) :
          /\ ftp_uploader_read_response(ret, n)
          /\ \/ ret = "OK" /\ Send("PASS") /\ Await("PASS")
             \/ ret # "OK" /\ Return("FAIL") /\ UNCHANGED <<proc, requests>>
    BY <1>4 DEF login_user_reply
  <2>2. requests = <<>> /\ OnlyNotices' /\ conn' = conn
    BY <1>4, <2>1, ReadMeans DEF login_user_reply, At, Requests
  <2>3. CASE Send("PASS") /\ Await("PASS")
    BY <2>2, <2>3, SendProtocol DEF Await, Requests, FtpTypeOK
  <2>4. CASE Return("FAIL") /\ UNCHANGED <<proc, requests>>
    BY <2>2, <2>4, IdleProtocol DEF Return
  <2>5. QED BY <2>1, <2>3, <2>4
<1>5. CASE put_pasv_reply
  <2>1. PICK ret \in Results, n \in 0..Len(replies) :
          /\ ftp_uploader_read_response(ret, n)
          /\ \/ \E reached \in BOOLEAN : put_open_data(reached)
             \/ /\ \/ Return("FAIL")
                   \/ Return("OOM")
                   \/ UNCHANGED <<ftp_pc, ftp_ret>>
                /\ UNCHANGED requests
    BY <1>5 DEF put_pasv_reply
  <2>2. requests = <<>> /\ OnlyNotices' /\ conn' = conn
    BY <1>5, <2>1, ReadMeans DEF put_pasv_reply, At, Requests
  <2>3. CASE Send("STOR") /\ Await("STOR")
    BY <2>2, <2>3, SendProtocol DEF Await, Requests, FtpTypeOK
  <2>4. CASE requests' = requests /\ ftp_pc' = "idle"
    BY <2>2, <2>4, IdleProtocol
  <2>5. CASE requests' = requests /\ ftp_pc' = ftp_pc
    BY <1>5, <2>2, <2>5 DEF ProtocolInv, OneRequest, RepliesInOrder, TransferWasBegun, OnlyNotices,
       ReplyFor, put_pasv_reply, At
  <2>6. QED
    BY <2>1, <2>3, <2>4, <2>5 DEF put_open_data, Return
<1>6. CASE put_stor_reply
  <2>1. PICK ret \in Results, n \in 0..Len(replies) :
          /\ ftp_uploader_read_response(ret, n)
          /\ \/ ret = "OK" /\ Await("SENDING")
             \/ ret # "OK" /\ Return("FAIL")
    BY <1>6 DEF put_stor_reply
  <2>2. ftp_pc = "STOR" /\ conn' = conn /\ requests' = requests
    BY <1>6 DEF put_stor_reply, At
  <2>3. /\ Len(replies') = Len(replies) - n
        /\ \A i \in 1..(Len(replies) - n) : replies'[i] = replies[i + n]
        /\ n = 0 => replies = <<>> /\ conn = "closed"
    BY <2>1, ReadLeaves
  <2>4. CASE n = 0
    <3>1. requests = <<>> /\ Len(replies') = 0 /\ ftp_pc' = "idle" /\ ret # "OK"
      BY <2>1, <2>2, <2>3, <2>4 DEF ProtocolInv, OneRequest, ftp_uploader_read_response, Return
    <3>2. QED
      BY <2>2, <3>1, IdleProtocol DEF OnlyNotices
  <2>5. CASE n > 0
    <3>1. ASSUME NEW i \in 1..Len(replies')
          PROVE  /\ replies'[i] = replies[i + n] /\ i + n \in 1..Len(replies) /\ i + n > 1
                 /\ replies[i + n].for \in {"DATA", "CLOSE"}
      BY <1>0, <2>2, <2>3, <2>5 DEF ProtocolInv, RepliesInOrder, ReplyFor
    <3>2. CASE ret = "OK" /\ Await("SENDING")
      <4>1. OneRequest'
        BY <2>2, <2>3, <2>5, <1>0, <3>2 DEF ProtocolInv, OneRequest, Await, Requests
      <4>2. RepliesInOrder'
        BY <2>2, <2>3, <2>5, <1>0, <3>1, <3>2 DEF ProtocolInv, RepliesInOrder, ReplyFor, Await
      <4>3. QED
        BY <3>2, <4>1, <4>2 DEF ProtocolInv, TransferWasBegun, Await
    <3>3. CASE ret # "OK" /\ Return("FAIL")
      <4>1. replies[1].class \notin 1..3
        BY <2>1, <2>5, <3>3 DEF ftp_uploader_read_response
      <4>2. requests # <<"DATA">> /\ ~\E i \in 1..Len(replies) : replies[i].for = "DATA"
        BY <2>2, <4>1 DEF ProtocolInv, TransferWasBegun
      <4>3. requests = <<>>
        BY <1>0, <2>2, <2>5, <4>2 DEF ProtocolInv, OneRequest
      <4>4. OnlyNotices'
        BY <2>2, <3>1, <4>2 DEF OnlyNotices, ProtocolInv, RepliesInOrder
      <4>5. QED
        BY <2>2, <3>3, <4>3, <4>4, IdleProtocol DEF Return
    <3>4. QED BY <2>1, <3>2, <3>3
  <2>6. QED BY <1>0, <2>4, <2>5
<1>7. CASE put_send_block
  BY <1>7 DEF put_send_block, ProtocolInv, OneRequest, RepliesInOrder, TransferWasBegun
<1>8. CASE put_finish
  <2>1. ftp_pc = "SENDING" /\ ftp_pc' = "DATA" /\ UNCHANGED <<conn, requests, replies>>
    BY <1>8 DEF put_finish, At, Await
  <2>2. QED
    BY <2>1 DEF ProtocolInv, OneRequest, RepliesInOrder, TransferWasBegun, ReplyFor, Requests
<1>9. QED BY <1>2, <1>3, <1>4, <1>5, <1>6, <1>7, <1>8 DEF FtpContinue

\* A sequence of one element.
LEMMA Single ==
    ASSUME NEW x
    PROVE  /\ Head(<<x>>) = x /\ Tail(<<x>>) = <<>> /\ Len(<<x>>) = 1 /\ <<x>> # <<>>
           /\ \A y : <<y>> = <<x>> => y = x
<1>1. Head(<<x>>) = x /\ Tail(<<x>>) = <<>> /\ Len(<<x>>) = 1 /\ <<x>> # <<>>
  OBVIOUS
<1>2. \A y : <<y>> = <<x>> => y = x
  OBVIOUS
<1>3. QED BY <1>1, <1>2

\* Appending a segment to the unread ones.
LEMMA NewReply ==
    ASSUME replies \in Seq(Segment), NEW e \in Segment, replies' = Append(replies, e)
    PROVE  /\ Len(replies') = Len(replies) + 1
           /\ \A i \in 1..Len(replies) : replies'[i] = replies[i]
           /\ replies'[Len(replies) + 1] = e
<1> DEFINE r == Append(replies, e)
<1>1. /\ Len(r) = Len(replies) + 1
      /\ \A i \in 1..Len(replies) : r[i] = replies[i]
      /\ r[Len(replies) + 1] = e
  BY AppendProperties
<1>2. QED BY <1>1

\* A server that replies in one segment answers the only open request with it.
LEMMA AnswerMeans ==
    ASSUME FtpTypeOK, ProtocolInv, ~Fragmented, NEW req \in Requests, NEW class \in 0..4,
           Answer(req, class)
    PROVE  /\ requests = <<req>> /\ Tail(requests) = <<>>
           /\ replies' = Append(replies, Seg(req, class, TRUE))
           /\ Len(replies') = Len(replies) + 1
           /\ \A i \in 1..Len(replies) : replies'[i] = replies[i]
           /\ replies'[Len(replies) + 1] = Seg(req, class, TRUE)
<1>1. requests = <<req>> /\ Tail(requests) = <<>>
  BY Single DEF Answer, ProtocolInv, OneRequest
<1>2. replies' = replies \o <<Seg(req, class, TRUE)>>
  BY DEF Answer, Reply
<1>3. replies \in Seq(Segment) /\ Seg(req, class, TRUE) \in Segment
  BY DEF FtpTypeOK, Seg, Segment
<1>4. replies' = Append(replies, Seg(req, class, TRUE))
  BY <1>2, <1>3, AppendIsConcat
<1>5. QED BY <1>1, <1>3, <1>4, NewReply

\* A server that replies in one segment keeps the protocol invariant.
LEMMA ProtocolServer ==
    ASSUME FtpTypeOK, ProtocolInv, ~Fragmented, FtpServer
    PROVE  ProtocolInv'
<1>0. Len(replies) \in Nat /\ replies \in Seq(Segment)
  BY DEF FtpTypeOK
<1>1. CASE ServerAnswers
  <2>1. PICK req \in Requests \ {"DATA"} : \E class \in Answers[req] \ {1} :
            Answer(req, class) /\ conn' = IF req = "QUIT" THEN "closed" ELSE conn
    BY <1>1 DEF ServerAnswers
  <2>2. PICK class \in Answers[req] \ {1} : Answer(req, class)
    BY <2>1
  <2>3. class \in 0..4
    BY DEF Answers, Requests
  <2>4. ftp_pc = req /\ replies = <<>>
    <3>1. requests = <<req>> /\ requests # <<>> /\ requests # <<"DATA">>
      BY <2>1, <2>2, <2>3, AnswerMeans, Single
    <3>2. requests = <<ftp_pc>> /\ replies = <<>>
      BY <3>1 DEF ProtocolInv, OneRequest
    <3>3. QED BY <3>1, <3>2, Single
  <2>5. requests' = <<>> /\ Len(replies') = 1 /\ replies'[1] = Seg(req, class, TRUE)
    <3>1. Len(replies) = 0 /\ Len(replies) + 1 = 1
      BY <2>4
    <3>2. requests' = Tail(requests)
      BY <1>1 DEF ServerAnswers
    <3>3. /\ Tail(requests) = <<>> /\ Len(replies') = Len(replies) + 1
          /\ replies'[Len(replies) + 1] = Seg(req, class, TRUE)
      BY <2>2, <2>3, AnswerMeans
    <3>4. QED
      BY <3>1, <3>2, <3>3
  <2>6. ftp_pc' = req
    BY <1>1, <2>4 DEF ServerAnswers, UNCHANGED_client
  <2>7. QED
    BY <2>5, <2>6 DEF ProtocolInv, OneRequest, RepliesInOrder, TransferWasBegun, ReplyFor, Seg, Requests
<1>2. CASE ServerBeginsTransfer
  <2>1. Answer("STOR", 1) /\ "STOR" \in Requests /\ 1 \in 0..4
    BY <1>2 DEF ServerBeginsTransfer, Requests
  <2>2. ftp_pc = "STOR" /\ replies = <<>> /\ conn = "up"
    <3>1. requests = <<"STOR">> /\ requests # <<>> /\ requests # <<"DATA">>
      BY <2>1, AnswerMeans, Single
    <3>2. requests = <<ftp_pc>> /\ replies = <<>> /\ conn = "up"
      BY <3>1 DEF ProtocolInv, OneRequest
    <3>3. QED BY <3>1, <3>2, Single
  <2>3. /\ requests' = <<"DATA">> /\ Len(replies') = 1 /\ replies'[1] = Seg("STOR", 1, TRUE)
        /\ replies' # <<>>
    <3>1. requests' = <<"DATA">> \o Tail(requests) /\ Tail(requests) = <<>>
      BY <1>2, <2>1, AnswerMeans DEF ServerBeginsTransfer
    <3>2. Len(replies) = 0 /\ Len(replies) + 1 = 1
      BY <2>2
    <3>6. /\ Len(replies') = Len(replies) + 1
          /\ replies'[Len(replies) + 1] = Seg("STOR", 1, TRUE)
      BY <2>1, AnswerMeans
    <3>3. Len(replies') = 1 /\ replies'[1] = Seg("STOR", 1, TRUE)
      BY <3>2, <3>6
    <3>4. replies' # <<>>
      BY <3>3
    <3>7. <<"DATA">> \o <<>> = <<"DATA">>
      OBVIOUS
    <3>5. QED BY <3>1, <3>3, <3>4, <3>7
  <2>4. ftp_pc' = "STOR" /\ conn' = conn
    BY <1>2, <2>2 DEF ServerBeginsTransfer, UNCHANGED_client
  <2>5. QED
    BY <2>2, <2>3, <2>4 DEF ProtocolInv, OneRequest, RepliesInOrder, TransferWasBegun, ReplyFor, Seg
<1>3. ASSUME NEW class \in 0..4, Answer("DATA", class), requests' = Tail(requests),
             UNCHANGED <<ftp_pc, conn>>
      PROVE  ProtocolInv'
  <2>1. "DATA" \in Requests
    BY DEF Requests
  <2>2. /\ requests = <<"DATA">> /\ requests' = <<>>
        /\ Len(replies') = Len(replies) + 1
        /\ \A i \in 1..Len(replies) : replies'[i] = replies[i]
        /\ replies'[Len(replies) + 1] = Seg("DATA", class, TRUE)
    BY <1>3, <2>1, AnswerMeans
  <2>3. ftp_pc \in {"STOR", "SENDING", "DATA"} /\ conn = "up"
    BY <2>2 DEF ProtocolInv, OneRequest
  <2>4. \A i \in 1..Len(replies) : replies[i].for = "STOR" /\ ftp_pc = "STOR" /\ i = 1
    BY <2>2, <2>3 DEF ProtocolInv, RepliesInOrder, ReplyFor
  <2>5. Len(replies) = IF ftp_pc = "STOR" THEN 1 ELSE 0
    BY <1>0, <2>2, <2>3, <2>4 DEF ProtocolInv, TransferWasBegun
  <2>6. RepliesInOrder'
    BY <1>3, <2>2, <2>3, <2>4, <2>5 DEF RepliesInOrder, ReplyFor, Seg
  <2>7. TransferWasBegun'
    BY <1>3, <2>2, <2>3, <2>4, <2>5 DEF ProtocolInv, TransferWasBegun
  <2>8. QED
    BY <2>2, <2>6, <2>7 DEF ProtocolInv, OneRequest
<1>4. CASE ServerEndsTransfer
  BY <1>3, <1>4 DEF ServerEndsTransfer, UNCHANGED_client
<1>5. CASE ServerFailsTransfer
  BY <1>3, <1>5 DEF ServerFailsTransfer, UNCHANGED_client
<1>6. CASE ServerCloses
  <2>1. requests' = <<>> /\ conn' = "closed" /\ conn = "up" /\ ftp_pc' = ftp_pc
    BY <1>6 DEF ServerCloses, UNCHANGED_client, ServerRuns
  <2>2. CASE replies' = replies
    BY <2>1, <2>2 DEF ProtocolInv, OneRequest, RepliesInOrder, TransferWasBegun
  <2>3. CASE replies' = Append(replies, Seg("CLOSE", 4, TRUE))
    <3>1. /\ Len(replies') = Len(replies) + 1
          /\ \A i \in 1..Len(replies) : replies'[i] = replies[i]
          /\ replies'[Len(replies) + 1] = Seg("CLOSE", 4, TRUE)
      <4>1. Seg("CLOSE", 4, TRUE) \in Segment
        BY DEF Seg, Segment
      <4>2. QED BY <1>0, <2>3, <4>1, NewReply
    <3>2. RepliesInOrder'
      <4> SUFFICES ASSUME NEW i \in 1..Len(replies')
                   PROVE  (/\ replies[i].for \in ReplyFor(ftp_pc)
                           /\ replies[i].for = "CLOSE" => conn # "up" /\ replies[i].class = 4
                           /\ replies[i].for = "DATA" => requests = <<>> /\ i = IF ftp_pc = "STOR" THEN 2 ELSE 1
                           /\ replies[i].for \notin {"CLOSE", "DATA"} => i = 1)'
        BY DEF RepliesInOrder
      <4>1. CASE i \in 1..Len(replies)
        BY <2>1, <3>1, <4>1 DEF ProtocolInv, RepliesInOrder
      <4>2. CASE i = Len(replies) + 1
        BY <2>1, <3>1, <4>2 DEF ReplyFor, Seg
      <4>3. QED BY <1>0, <3>1, <4>1, <4>2
    <3>3. TransferWasBegun'
      <4> SUFFICES ASSUME ftp_pc = "STOR", NEW i \in 1..Len(replies'), replies'[i].for = "DATA"
                   PROVE  replies' # <<>> /\ replies'[1].for = "STOR" /\ replies'[1].class = 1
        BY <2>1 DEF TransferWasBegun
      <4>1. i \in 1..Len(replies) /\ replies[i].for = "DATA"
        BY <1>0, <3>1 DEF Seg
      <4>2. replies # <<>> /\ replies[1].for = "STOR" /\ replies[1].class = 1
        BY <4>1 DEF ProtocolInv, TransferWasBegun
      <4>3. 1 \in 1..Len(replies)
        BY <1>0, <4>1
      <4>4. QED BY <3>1, <4>2, <4>3, <1>0
    <3>4. QED
      BY <2>1, <3>2, <3>3 DEF ProtocolInv, OneRequest
  <2>4. QED BY <1>6, <2>2, <2>3 DEF ServerCloses
<1>7. QED BY <1>1, <1>2, <1>4, <1>5, <1>6 DEF FtpServer

\* An unread reply that ends a transfer with success tells of a file that is whole.
RepliedMeansStored ==
  \A i \in 1..Len(replies) :
    replies[i].for = "DATA" /\ replies[i].class # 4 => file \in stored[ip]

\* A request of the client does not begin a transfer.
LEMMA SendIsNoTransfer ==
    ASSUME requests = <<>>, NEW req \in Requests \ {"DATA"}, Send(req)
    PROVE  requests' # <<"DATA">>
<1>1. <<req>> # <<"DATA">> /\ <<>> # <<"DATA">>
  BY Single
<1>2. QED BY <1>1 DEF Send

\* Every call keeps the transfer invariant: the caller rewinds a file before it puts it.
LEMMA TransferCall ==
    ASSUME FtpTypeOK, ProtocolInv, TransferInv, UploadedMeansStored, ~Fragmented, ~ReadErrors,
           FtpCall
    PROVE  TransferInv' /\ UploadedMeansStored'
<1> USE DEF Await, Return
<1>1. ASSUME NEW t \in Targets, ftp_uploader_connect(t)
      PROVE  TransferInv' /\ UploadedMeansStored'
  <2>1. requests' # <<"DATA">> /\ Len(replies') = 0 /\ ftp_pc' \notin InPut
    BY <1>1, Single DEF ftp_uploader_connect, InPut
  <2>2. UNCHANGED <<uploaded, stored>>
    BY <1>1 DEF ftp_uploader_connect
  <2>3. QED
    BY <2>1, <2>2 DEF TransferInv, UploadedMeansStored, InPut
<1>2. ASSUME At("idle"), UNCHANGED <<replies, ip, file, stored, uploaded>>,
             ftp_pc' \notin InPut, requests' # <<"DATA">>
      PROVE  TransferInv' /\ UploadedMeansStored'
  BY <1>2 DEF TransferInv, UploadedMeansStored, InPut
<1>3. At("idle") => requests = <<>> /\ OnlyNotices
  BY IdleMeans DEF At
<1>4. CASE ftp_uploader_login
  <2>1. requests' # <<"DATA">>
    BY <1>3, <1>4, SendIsNoTransfer, Single DEF ftp_uploader_login, Called, Requests
  <2>2. QED
    BY <1>2, <1>4, <2>1 DEF ftp_uploader_login, Called, InPut
<1>5. CASE ftp_uploader_set_binary_mode
  <2>1. requests' # <<"DATA">>
    BY <1>3, <1>5, SendIsNoTransfer DEF ftp_uploader_set_binary_mode, Called, Requests
  <2>2. QED
    BY <1>2, <1>5, <2>1 DEF ftp_uploader_set_binary_mode, Called, InPut
<1>6. CASE ftp_uploader_close
  <2>1. requests' # <<"DATA">>
    BY <1>3, <1>6, SendIsNoTransfer DEF ftp_uploader_close, Called, Requests
  <2>2. QED
    BY <1>2, <1>6, <2>1 DEF ftp_uploader_close, Called, InPut
<1>7. ASSUME NEW f \in Files, ftp_uploader_put(f, 0)
      PROVE  TransferInv' /\ UploadedMeansStored'
  <2>1. requests' # <<"DATA">>
    BY <1>3, <1>7, SendIsNoTransfer DEF ftp_uploader_put, Called, Requests
  <2>2. /\ ftp_pc' = "PASV" /\ file' = f /\ ip' = ip /\ offset'[f] = 0 /\ f \notin uploaded'[ip]
        /\ stored' = stored /\ \A t \in Targets : uploaded'[t] \subseteq uploaded[t]
    BY <1>7 DEF ftp_uploader_put, FtpTypeOK
  <2>3. RepliedMeansStored'
    BY <1>3, <1>7 DEF ftp_uploader_put, Called, OnlyNotices, RepliedMeansStored
  <2>4. QED
    BY <2>1, <2>2, <2>3 DEF TransferInv, UploadedMeansStored, InPut, RepliedMeansStored
<1>8. QED BY <1>1, <1>4, <1>5, <1>6, <1>7 DEF FtpCall

\* A read leaves the meaning of an unread success reply to a transfer as it was.
LEMMA ReadKeepsStored ==
    ASSUME FtpTypeOK, TransferInv, UNCHANGED <<file, ip, stored>>,
           NEW ret, NEW n \in 0..Len(replies), ftp_uploader_read_response(ret, n)
    PROVE  RepliedMeansStored'
<1>1. Len(replies) \in Nat
  BY DEF FtpTypeOK
<1>2. ASSUME NEW i \in 1..Len(replies') PROVE i + n \in 1..Len(replies) /\ replies'[i] = replies[i + n]
  BY <1>1, ReadLeaves
<1>3. QED BY <1>2 DEF TransferInv, RepliedMeansStored

\* What a function does after a reply keeps the transfer invariant: while blocks are
\* sent, the server has those before the file position.
LEMMA TransferContinue ==
    ASSUME FtpTypeOK, ProtocolInv, TransferInv, UploadedMeansStored, ~Fragmented, ~ReadErrors,
           FtpContinue
    PROVE  TransferInv' /\ UploadedMeansStored'
<1> USE DEF Await, Return
<1>0. Len(replies) \in Nat
  BY DEF FtpTypeOK
<1>1. ASSUME UNCHANGED <<ip, file, stored, uploaded, storing>>, requests' = requests \/ requests' # <<"DATA">>,
             ftp_pc' \notin InPut, NEW ret, NEW n \in 0..Len(replies), ftp_uploader_read_response(ret, n)
      PROVE  TransferInv' /\ UploadedMeansStored'
  BY <1>1, ReadKeepsStored DEF TransferInv, UploadedMeansStored, InPut, RepliedMeansStored
<1>2. CASE connect_reply \/ login_pass_reply \/ set_binary_mode_reply
  BY <1>1, <1>2 DEF connect_reply, login_pass_reply, set_binary_mode_reply, ReturnReply, InPut
<1>3. CASE login_user_reply
  <2>1. PICK ret \in Results, n \in 0..Len(replies) : ftp_uploader_read_response(ret, n)
    BY <1>3 DEF login_user_reply
  <2>2. requests = <<>>
    BY <1>3, <2>1, ReadMeans DEF login_user_reply, At, Requests
  <2>3. requests' = requests \/ requests' # <<"DATA">>
    BY <1>3, <2>2, SendIsNoTransfer DEF login_user_reply, Requests
  <2>4. QED
    BY <1>1, <1>3, <2>1, <2>3 DEF login_user_reply, InPut
<1>4. CASE close_reply
  BY <1>1, <1>4 DEF close_reply, InPut
<1>5. CASE put_data_reply
  <2>1. PICK ret \in Results, n \in 0..Len(replies) :
            ftp_uploader_read_response(ret, n) /\ Return(ret)
    BY <1>5 DEF put_data_reply, ReturnReply
  <2>2. ftp_pc = "DATA" /\ ftp_pc' = "idle" /\ UNCHANGED <<ip, file, stored, storing, requests>>
    BY <1>5, <2>1 DEF put_data_reply, ReturnReply, At
  <2>3. RepliedMeansStored'
    BY <2>1, <2>2, ReadKeepsStored
  <2>4. ftp_ret' = "OK" => file \in stored[ip]
    <3> SUFFICES ASSUME ftp_ret' = "OK" PROVE file \in stored[ip]
      OBVIOUS
    <3>1. n > 0 /\ replies[1].class \in 1..3 /\ 1 \in 1..Len(replies)
      BY <1>0, <2>1 DEF ftp_uploader_read_response
    <3>2. replies[1].for = "DATA"
      BY <2>2, <3>1 DEF ProtocolInv, RepliesInOrder, ReplyFor
    <3>3. QED BY <3>1, <3>2 DEF TransferInv
  <2>5. UploadedMeansStored'
    BY <1>5, <2>2, <2>4 DEF UploadedMeansStored, put_data_reply, FtpTypeOK
  <2>6. QED
    BY <2>2, <2>3, <2>5 DEF TransferInv, InPut, RepliedMeansStored
<1>6. CASE put_pasv_reply
  <2>1. PICK ret \in Results, n \in 0..Len(replies) : ftp_uploader_read_response(ret, n)
    BY <1>6 DEF put_pasv_reply
  <2>2. ftp_pc = "PASV" /\ UNCHANGED <<ip, file, stored, storing, uploaded, offset>>
    BY <1>6 DEF put_pasv_reply, At
  <2>3. requests = <<>>
    BY <1>6, <2>1, <2>2, ReadMeans DEF put_pasv_reply, Requests
  <2>4. RepliedMeansStored' /\ UploadedMeansStored'
    BY <2>1, <2>2, ReadKeepsStored DEF UploadedMeansStored
  <2>5. requests' # <<"DATA">>
    BY <1>6, <2>3, SendIsNoTransfer, Single DEF put_pasv_reply, put_open_data, Requests
  <2>6. \/ ftp_pc' = "STOR" /\ dconn' # "eof" /\ received' = 0
        \/ ftp_pc' \in {"idle", "PASV"}
    BY <1>6, <2>2 DEF put_pasv_reply, put_open_data
  <2>7. QED
    BY <2>2, <2>4, <2>5, <2>6 DEF TransferInv, InPut, RepliedMeansStored
<1>7. CASE put_stor_reply
  <2>1. PICK ret \in Results, n \in 0..Len(replies) : ftp_uploader_read_response(ret, n)
    BY <1>7 DEF put_stor_reply
  <2>2. /\ ftp_pc = "STOR" /\ ftp_pc' \in {"idle", "SENDING"}
        /\ UNCHANGED <<ip, file, stored, storing, uploaded, offset, dconn, received, requests>>
    BY <1>7 DEF put_stor_reply, At
  <2>3. RepliedMeansStored'
    BY <2>1, <2>2, ReadKeepsStored
  <2>4. QED
    BY <2>2, <2>3 DEF TransferInv, InPut, RepliedMeansStored, UploadedMeansStored
<1>8. CASE put_send_block
  <2>1. /\ ftp_pc = "SENDING" /\ ftp_pc' = "SENDING"
        /\ UNCHANGED <<ip, file, stored, storing, uploaded, dconn, requests, replies>>
    BY <1>8 DEF put_send_block, At
  <2>2. dconn = "up" => received' = offset'[file]
    BY <1>8, <2>1 DEF put_send_block, TransferInv, FtpTypeOK
  <2>3. QED
    BY <2>1, <2>2 DEF TransferInv, InPut, UploadedMeansStored
<1>9. CASE put_finish
  <2>1. /\ ftp_pc = "SENDING" /\ ftp_pc' = "DATA"
        /\ UNCHANGED <<ip, file, stored, storing, uploaded, received, requests, replies>>
    BY <1>9 DEF put_finish, At
  <2>2. dconn' = "eof" => received = FileLen
    BY <1>9, <2>1 DEF put_finish, TransferInv
  <2>3. QED
    BY <2>1, <2>2 DEF TransferInv, InPut, UploadedMeansStored
<1>10. QED BY <1>2, <1>3, <1>4, <1>5, <1>6, <1>7, <1>8, <1>9 DEF FtpContinue

\* A server that replies in one segment keeps the transfer invariant: it reports
\* success only at the end of a data stream that the client has ended, and the
\* client ends it only at the end of the file.
LEMMA TransferServer ==
    ASSUME FtpTypeOK, ProtocolInv, TransferInv, UploadedMeansStored, ~Fragmented, ~ReadErrors,
           FtpServer
    PROVE  TransferInv' /\ UploadedMeansStored'
<1>0. Len(replies) \in Nat /\ replies \in Seq(Segment)
  BY DEF FtpTypeOK
<1>1. UNCHANGED <<ftp_pc, ip, file, offset, uploaded, ftp_ret>>
  BY DEF FtpServer, ServerAnswers, ServerBeginsTransfer, ServerEndsTransfer,
         ServerFailsTransfer, ServerCloses, UNCHANGED_client
<1>2. CASE ServerAnswers
  <2>1. PICK req \in Requests \ {"DATA"} : \E class \in Answers[req] \ {1} : Answer(req, class)
    BY <1>2 DEF ServerAnswers
  <2>2. PICK class \in Answers[req] \ {1} : Answer(req, class)
    BY <2>1
  <2>3. class \in 0..4
    BY DEF Answers, Requests
  <2>4. requests' = Tail(requests) /\ UNCHANGED <<dconn, received, storing, stored>>
    BY <1>2 DEF ServerAnswers
  <2>5. /\ requests' # <<"DATA">>
        /\ Len(replies') = Len(replies) + 1
        /\ \A i \in 1..Len(replies) : replies'[i] = replies[i]
        /\ replies'[Len(replies) + 1].for # "DATA"
    <3>1. /\ Tail(requests) = <<>>
          /\ Len(replies') = Len(replies) + 1
          /\ \A i \in 1..Len(replies) : replies'[i] = replies[i]
          /\ replies'[Len(replies) + 1] = Seg(req, class, TRUE)
      BY <2>2, <2>3, AnswerMeans
    <3>2. requests' = <<>>
      BY <2>4, <3>1, Zenon
    <3>3. requests' # <<"DATA">>
      <4>1. <<>> # <<"DATA">>
        OBVIOUS
      <4>2. QED BY <3>2, <4>1, Zenon
    <3>4. QED BY <3>1, <3>3 DEF Seg
  <2>6. RepliedMeansStored'
    BY <1>0, <1>1, <2>4, <2>5 DEF TransferInv, RepliedMeansStored
  <2>7. QED
    BY <1>1, <2>4, <2>5, <2>6 DEF TransferInv, UploadedMeansStored, RepliedMeansStored
<1>3. CASE ServerBeginsTransfer
  <2>1. Answer("STOR", 1) /\ "STOR" \in Requests /\ 1 \in 0..4
    BY <1>3 DEF ServerBeginsTransfer, Requests
  <2>2. ftp_pc = "STOR" /\ replies = <<>>
    <3>1. requests = <<"STOR">> /\ requests # <<>> /\ requests # <<"DATA">>
      BY <2>1, AnswerMeans, Single
    <3>2. requests = <<ftp_pc>> /\ replies = <<>>
      BY <3>1 DEF ProtocolInv, OneRequest
    <3>3. QED BY <3>1, <3>2, Single
  <2>3. Len(replies') = 1 /\ replies'[1].for = "STOR"
    <3>1. Len(replies) = 0 /\ Len(replies) + 1 = 1
      BY <2>2
    <3>2. /\ Len(replies') = Len(replies) + 1
          /\ replies'[Len(replies) + 1] = Seg("STOR", 1, TRUE)
      BY <2>1, AnswerMeans
    <3>3. QED BY <3>1, <3>2 DEF Seg
  <2>4. /\ storing' = file /\ UNCHANGED <<dconn, received>>
        /\ stored' = [stored EXCEPT ![ip] = @ \ {file}]
    BY <1>3 DEF ServerBeginsTransfer
  <2>5. file \notin uploaded[ip]
    BY <2>2 DEF TransferInv, InPut
  <2>6. UploadedMeansStored'
    BY <1>1, <2>4, <2>5 DEF UploadedMeansStored, FtpTypeOK
  <2>7. RepliedMeansStored'
    BY <2>3 DEF RepliedMeansStored
  <2>8. QED
    BY <1>1, <2>4, <2>6, <2>7 DEF TransferInv, RepliedMeansStored
<1>4. CASE ServerEndsTransfer
  <2>1. /\ Answer("DATA", 2) /\ dconn = "eof" /\ requests' = Tail(requests)
        /\ UNCHANGED <<dconn, received, storing>>
        /\ stored' = IF received = FileLen THEN [stored EXCEPT ![ip] = @ \cup {storing}]
                                           ELSE stored
    BY <1>4 DEF ServerEndsTransfer
  <2>2. "DATA" \in Requests /\ 2 \in 0..4
    BY DEF Requests
  <2>3. requests = <<"DATA">> /\ requests' # <<"DATA">>
    BY <2>1, <2>2, AnswerMeans, Single
  <2>4. ftp_pc = "DATA"
    BY <2>1, <2>3 DEF ProtocolInv, OneRequest, TransferInv, Requests
  <2>5. received = FileLen /\ storing = file
    BY <2>1, <2>3, <2>4 DEF TransferInv
  <2>6. stored' = [stored EXCEPT ![ip] = @ \cup {file}]
    BY <2>1, <2>5
  <2>7. file \in stored'[ip]
    BY <2>6 DEF FtpTypeOK
  <2>8. RepliedMeansStored'
    BY <1>1, <2>7 DEF RepliedMeansStored
  <2>9. UploadedMeansStored'
    BY <1>1, <2>6 DEF UploadedMeansStored, FtpTypeOK
  <2>10. QED
    BY <1>1, <2>1, <2>3, <2>8, <2>9 DEF TransferInv, RepliedMeansStored
<1>5. CASE ServerFailsTransfer
  <2>1. /\ Answer("DATA", 4) /\ requests' = Tail(requests)
        /\ dconn' = (IF dconn = "up" THEN "aborted" ELSE dconn)
        /\ UNCHANGED <<received, storing, stored>>
    BY <1>5 DEF ServerFailsTransfer
  <2>2. "DATA" \in Requests /\ 4 \in 0..4
    BY DEF Requests
  <2>3. /\ requests' # <<"DATA">>
        /\ Len(replies') = Len(replies) + 1
        /\ \A i \in 1..Len(replies) : replies'[i] = replies[i]
        /\ replies'[Len(replies) + 1].class = 4
    <3>1. /\ Tail(requests) = <<>>
          /\ Len(replies') = Len(replies) + 1
          /\ \A i \in 1..Len(replies) : replies'[i] = replies[i]
          /\ replies'[Len(replies) + 1] = Seg("DATA", 4, TRUE)
      BY <2>1, <2>2, AnswerMeans
    <3>2. requests' # <<"DATA">>
      BY <2>1, <3>1
    <3>3. QED BY <3>1, <3>2 DEF Seg
  <2>4. RepliedMeansStored'
    BY <1>0, <1>1, <2>1, <2>3 DEF TransferInv, RepliedMeansStored
  <2>5. QED
    BY <1>1, <2>1, <2>3, <2>4 DEF TransferInv, UploadedMeansStored, RepliedMeansStored
<1>6. CASE ServerCloses
  <2>1. /\ requests' = <<>> /\ UNCHANGED <<received, storing, stored>>
        /\ dconn' = (IF dconn = "up" THEN "aborted" ELSE dconn)
    BY <1>6 DEF ServerCloses
  <2>2. RepliedMeansStored'
    <3>1. CASE replies' = replies
      BY <1>1, <2>1, <3>1 DEF TransferInv, RepliedMeansStored
    <3>2. CASE replies' = Append(replies, Seg("CLOSE", 4, TRUE))
      <4>1. Seg("CLOSE", 4, TRUE) \in Segment
        BY DEF Seg, Segment
      <4>2. /\ Len(replies') = Len(replies) + 1
            /\ \A i \in 1..Len(replies) : replies'[i] = replies[i]
            /\ replies'[Len(replies) + 1].class = 4
        BY <1>0, <3>2, <4>1, NewReply DEF Seg
      <4>3. QED
        BY <1>0, <1>1, <2>1, <4>2 DEF TransferInv, RepliedMeansStored
    <3>3. QED BY <1>6, <3>1, <3>2 DEF ServerCloses
  <2>3. QED
    BY <1>1, <2>1, <2>2 DEF TransferInv, UploadedMeansStored, RepliedMeansStored
<1>7. QED BY <1>2, <1>3, <1>4, <1>5, <1>6 DEF FtpServer

-----------------------------------------------------------------------------
(* The theorems about what is unread, and about what the board has. *)

\* A created FtpUploader has no request open, nothing unread and nothing uploaded.
LEMMA InvariantInit == FtpInit => FtpInvariant
<1> SUFFICES ASSUME FtpInit PROVE FtpInvariant
  OBVIOUS
<1>1. ftp_pc = "idle" /\ requests = <<>> /\ Len(replies) = 0
  BY DEF FtpInit, ftp_uploader_create
<1>2. ProtocolInv
  BY <1>1 DEF ProtocolInv, OneRequest, RepliesInOrder, TransferWasBegun
<1>3. TransferInv
  BY <1>1 DEF TransferInv, InPut
<1>4. UploadedMeansStored
  BY DEF FtpInit, UploadedMeansStored
<1>5. QED BY <1>2, <1>3, <1>4 DEF FtpInvariant

\* Every step of the client and of the server keeps the invariant.
LEMMA InvariantStep ==
    ASSUME FtpTypeOK, FtpTypeOK', FtpInvariant, [FtpNext]_ftp_vars
    PROVE  FtpInvariant'
<1>1. CASE UNCHANGED ftp_vars
  <2>1. ProtocolInv => ProtocolInv'
    BY <1>1 DEF ftp_vars, ftp_own, session, ProtocolInv, OneRequest, RepliesInOrder,
                TransferWasBegun
  <2>2. TransferInv => TransferInv'
    BY <1>1 DEF ftp_vars, ftp_own, session, TransferInv
  <2>3. UploadedMeansStored => UploadedMeansStored'
    BY <1>1 DEF ftp_vars, ftp_own, session, UploadedMeansStored
  <2>4. QED BY <2>1, <2>2, <2>3 DEF FtpInvariant
<1>2. CASE FtpNext
  <2>1. ASSUME ~Fragmented PROVE ProtocolInv'
    BY <1>2, <2>1, ProtocolCall, ProtocolContinue, ProtocolServer DEF FtpNext, FtpInvariant
  <2>2. ASSUME ~Fragmented, ~ReadErrors PROVE TransferInv' /\ UploadedMeansStored'
    BY <1>2, <2>2, TransferCall, TransferContinue, TransferServer DEF FtpNext, FtpInvariant
  <2>3. QED BY <2>1, <2>2 DEF FtpInvariant
<1>3. QED BY <1>1, <1>2

\* With replies in one segment one request at most is open, what is unread answers
\* it, and the bytes the board has are those before the file position: the
\* inductive invariant of ftp_uploader.c.
THEOREM InvariantCorrect == FtpSpec => []FtpInvariant
<1>1. FtpTypeOK /\ FtpTypeOK' /\ FtpInvariant /\ [FtpNext]_ftp_vars => FtpInvariant'
  BY InvariantStep
<1>2. QED BY <1>1, InvariantInit, TypeCorrect, PTL DEF FtpSpec

\* ftp_uploader_read_response never takes the reply to one request for the reply to
\* another, whatever mix of calls, failed calls and reconnections came before.
THEOREM RepliesMatch == FtpSpec => []RepliesMatchRequest
<1>1. FtpInvariant => RepliesMatchRequest
  BY DEF FtpInvariant, ProtocolInv, RepliesInOrder, RepliesMatchRequest
<1>2. QED BY <1>1, InvariantCorrect, PTL

\* A file for which ftp_uploader_put returned RET_OK, and that was not put again, is
\* whole on its board.
THEOREM UploadedIsStored == FtpSpec => []UploadedMeansStored
<1>1. FtpInvariant => UploadedMeansStored
  BY DEF FtpInvariant, UploadedMeansStored
<1>2. QED BY <1>1, InvariantCorrect, PTL
=============================================================================
