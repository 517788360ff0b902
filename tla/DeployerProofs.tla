--------------------------- MODULE DeployerProofs ---------------------------
(***************************************************************************)
(* For any number of boards, files, commands and descriptors, and however   *)
(* replies and texts are cut: the types of the deployer; that what          *)
(* FtpUploader and TelnetCommander promise an arbitrary caller holds when   *)
(* the deployer calls both; that the QUIT of a session closes its socket;   *)
(* how many sockets the boards deployed so far may have left open; that the *)
(* commands are whole lines of the command file; and that the deployer      *)
(* implements Deployment.                                                   *)
(***************************************************************************)
EXTENDS Deployer, FtpUploaderProofs, TelnetCommanderProofs, DeployerConfigProofs

USE DeployProcessAssumption, FtpAssumption, TelnetAssumption

-----------------------------------------------------------------------------
(* The inductive invariant. *)

\* The structure of the deployer itself.
LoopTypeOK ==
    /\ event \in FtpEvents \cup TelnetEvents \cup {"INIT", "TARGET_END"}
    /\ result \in {"INIT", "SUCCESS", "FAIL"}
    /\ target \in Targets \cup {0}
    /\ next_file \in Files \cup {0}
    /\ verdict \in [Targets -> {"none", "busy", "success", "fail"}]

\* One board at a time: those after it have no verdict yet, and it has none before its end.
LoopOrder ==
    /\ event # "INIT" => target # 0
    /\ \A t \in Targets : t > target => verdict[t] = "none"
    /\ event \notin {"INIT", "TARGET_END"} => verdict[target] = "busy"

\* What the client of a board may wait for in each step.
Places ==
    /\ event = "FTP_CONNECT" => ftp_pc \in {"idle", "GREETING"}
    /\ event = "FTP_LOGIN" => ftp_pc \in {"idle", "USER", "PASS"}
    /\ event = "FTP_SET_TYPE" => ftp_pc \in {"idle", "TYPE"}
    /\ event = "FTP_PUT_FILE" => ftp_pc \in {"idle", "PASV", "STOR", "SENDING", "DATA"}
    /\ event = "FTP_CLOSE" => ftp_pc \in {"idle", "QUIT"}
    /\ event \notin FtpEvents => ftp_pc = "idle"
    /\ tel_pc \in Waits => event \in {"TELNET_LOGIN", "TELNET_COMMAND"}
    /\ event \in {"TELNET_CONNECT", "TELNET_LOGIN", "TELNET_COMMAND"} /\ tel_pc = "idle"
           => tel_ret # "OK"

\* is_transfered, which may be left from a failed board, is cleared before the session ends.
Closing ==
    /\ ftp_pc = "DATA" => ~is_transfered
    /\ ftp_pc = "QUIT" => ~is_transfered /\ is_connected
    /\ event = "FTP_PUT_FILE" /\ ftp_pc = "idle" /\ ftp_ret = "OK" => ~is_transfered

\* The descriptors that the step in progress is going to close are open, and its own.
Sockets ==
    /\ ftp_pc # "idle" \/ (event \in FtpEvents \ {"FTP_CLOSE"} /\ ftp_ret = "OK")
           => command_socket \in fds
    /\ ftp_pc \in {"STOR", "SENDING"} => data_socket \in fds /\ data_socket # command_socket
    /\ event \in TelnetEvents /\ tel_pc # "idle" => socket \in fds

\* The descriptors that the board in turn may have open: a failed put leaves two.
Held ==
    IF event \in {"INIT", "TARGET_END", "TELNET_CLOSE"} THEN 0
    ELSE IF event = "FTP_CLOSE" /\ ftp_pc = "idle" THEN 0
    ELSE IF \/ ftp_pc \in {"STOR", "SENDING"}
            \/ event = "FTP_PUT_FILE" /\ ftp_pc = "idle" /\ ftp_ret # "OK" THEN 2
    ELSE 1

Budget == Cardinality(fds) <= Leaks + Held

DeployInvariant ==
    /\ FtpTypeOK /\ FtpInvariant /\ TelnetInvariant
    /\ LoopTypeOK /\ LoopOrder
    /\ Places /\ Closing /\ Sockets /\ Budget

-----------------------------------------------------------------------------
(* The steps of the program are steps of its parts. *)

\* What the client of the boards' shells may do, if it need not deploy a board only once.
TelnetMoves ==
    \/ \E t \in Targets : telnet_commander_connect(t)
    \/ telnet_commander_login
    \/ \E c \in Commands : telnet_commander_send_one_line(c)
    \/ telnet_commander_close
    \/ TelnetContinue
    \/ TelnetBoard

\* A step of the loops calls one function, of FtpUploader or of TelnetCommander, or none.
LEMMA LoopCalls ==
    ASSUME ConfigInvariant, LoopTypeOK, LoopOrder, TelnetTypeOK, DeployerStep
    PROVE  \/ FtpCall /\ UNCHANGED tel_own
           \/ TelnetMoves /\ UNCHANGED ftp_own
           \/ UNCHANGED <<proc, fds, ftp_own, tel_own>>
<1>1. CASE do_deploy_next_target
  <2>1. target + 1 \in Targets
    BY <1>1 DEF do_deploy_next_target, LoopTypeOK, Targets
  <2>2. QED BY <1>1, <2>1 DEF do_deploy_next_target, FtpCall
<1>2. CASE do_ftp_login \/ do_ftp_set_type \/ do_ftp_close
  BY <1>2 DEF do_ftp_login, do_ftp_set_type, do_ftp_close, FtpCall
<1>3. CASE do_ftp_put_first_file
  <2>1. 1 \in Files
    BY DEF Files
  <2>2. QED BY <1>3, <2>1 DEF do_ftp_put_first_file, FtpCall, lseek
<1>4. CASE do_ftp_put_next_file
  <2>1. next_file + 1 \in Files
    BY <1>4 DEF do_ftp_put_next_file, LoopTypeOK, Files
  <2>2. QED BY <1>4, <2>1 DEF do_ftp_put_next_file, FtpCall, lseek
<1>5. CASE do_telnet_connect
  <2>1. target \in Targets
    BY <1>5 DEF do_telnet_connect, LoopTypeOK, LoopOrder, Returned
  <2>2. QED BY <1>5, <2>1 DEF do_telnet_connect, TelnetMoves
<1>6. CASE do_telnet_login \/ do_telnet_close
  BY <1>6 DEF do_telnet_login, do_telnet_close, TelnetMoves
<1>7. CASE do_telnet_command
  <2>1. command < Len(telnet_command_list) /\ stage = "deploy" /\ command \in Nat
    BY <1>7 DEF do_telnet_command, TelnetOk, Returned, InStage, TelnetTypeOK, Commands
  <2>2. Len(telnet_command_list) <= NumCommands /\ telnet_command_list \in Seq(Seq(Characters))
    BY <2>1, Zenon DEF ConfigInvariant, InOneHand, ConfigTypeOK
  <2>3. command + 1 \in Commands
    BY <2>1, <2>2 DEF Commands
  <2>4. QED BY <1>7, <2>3 DEF do_telnet_command, TelnetMoves
<1>8. CASE do_one_target_ok \/ do_one_target_fail
  BY <1>8 DEF do_one_target_ok, do_one_target_fail, TargetEnd
<1>9. QED BY <1>1, <1>2, <1>3, <1>4, <1>5, <1>6, <1>7, <1>8 DEF DeployerStep

\* What the loops do leaves the uploader as it was, calls it, or calls the commander.
LEMMA ProgramSteps ==
    ASSUME ConfigInvariant, LoopTypeOK, LoopOrder, TelnetTypeOK, [Next]_vars
    PROVE  \/ FtpNext /\ UNCHANGED tel_own
           \/ TelnetMoves /\ UNCHANGED ftp_own
           \/ UNCHANGED <<fds, ftp_own, tel_own>> /\ proc' \in {"running", "dead"}
<1>. proc \in {"running", "dead"}
  BY DEF TelnetTypeOK, ProcessTypeOK
<1>1. CASE DeployerStep /\ UNCHANGED conf_own
  BY <1>1, LoopCalls DEF FtpNext
<1>2. CASE (Configure \/ do_deploy_end) /\ UNCHANGED <<fds, ftp_own, tel_own, d_own>>
  BY <1>2
     DEF Configure, do_deploy_end, main_returns, deployer_create, deployer_create_fails,
         deployer_init_fails, open_config_file, deployer_parse_ftp, deployer_parse_telnet,
         command_char, command_file_end, deployer_parse_deploy_targets, Parsed,
         deployer_parse_deploy_files, deployer_init, parse_fails, parse_crashes, main_fails
<1>3. CASE FtpContinue /\ UNCHANGED <<tel_own, main_own>>
  BY <1>3 DEF FtpNext
<1>4. CASE TelnetContinue /\ UNCHANGED <<ftp_own, main_own>>
  BY <1>4 DEF TelnetMoves
<1>5. CASE FtpServer /\ UNCHANGED <<tel_own, main_own>>
  BY <1>5 DEF FtpNext
<1>6. CASE TelnetBoard /\ UNCHANGED <<ftp_own, main_own>>
  BY <1>6 DEF TelnetMoves
<1>7. CASE UNCHANGED vars
  BY <1>7 DEF vars
<1>8. QED BY <1>1, <1>2, <1>3, <1>4, <1>5, <1>6, <1>7 DEF Next, Program, Boards

-----------------------------------------------------------------------------
(* The invariants of the parts. *)

\* What the deployer does with the other part leaves the invariant of each alone.
LEMMA UploaderKept ==
    ASSUME FtpTypeOK, FtpInvariant, UNCHANGED ftp_own, ProcessTypeOK'
    PROVE  FtpTypeOK' /\ FtpInvariant'
<1> USE DEF ftp_own, session
<1>1. FtpTypeOK'
  BY DEF FtpTypeOK
<1>2. ProtocolInv => ProtocolInv'
  BY DEF ProtocolInv, OneRequest, RepliesInOrder, TransferWasBegun
<1>3. TransferInv => TransferInv'
  BY DEF TransferInv
<1>4. UploadedMeansStored => UploadedMeansStored'
  BY DEF UploadedMeansStored
<1>5. QED BY <1>1, <1>2, <1>3, <1>4 DEF FtpInvariant

\* The same of the telnet client.
LEMMA CommanderKept ==
    ASSUME TelnetInvariant, UNCHANGED tel_own, ProcessTypeOK'
    PROVE  TelnetInvariant'
<1> USE DEF tel_own, account
<1>1. TelnetTypeOK'
  BY DEF TelnetInvariant, TelnetTypeOK
<1>2. AtMostLast(screen)' = AtMostLast(screen) /\ \A x : On(x)' = On(x)
  BY DEF AtMostLast, On
<1>3. Dialogue'
  BY <1>2
     DEF TelnetInvariant, Dialogue, OneLine, PromptLast, AskedOnce, RefusedOnce, Accepted,
         Answerable
<1>4. QED BY <1>1, <1>3 DEF TelnetInvariant

\* So that both invariants hold of the deployer.
LEMMA PartsKept ==
    ASSUME ConfigInvariant, FtpTypeOK, FtpInvariant, TelnetInvariant, LoopTypeOK, LoopOrder,
           [Next]_vars
    PROVE  FtpTypeOK' /\ FtpInvariant' /\ TelnetInvariant'
<1>1. CASE FtpNext /\ UNCHANGED tel_own
  <2>1. FtpTypeOK'
    BY <1>1, TypeCall, TypeContinue, TypeServer DEF FtpNext
  <2>2. FtpInvariant'
    BY <1>1, <2>1, InvariantStep
  <2>3. QED BY <1>1, <2>1, <2>2, CommanderKept DEF FtpTypeOK
<1>2. CASE TelnetMoves /\ UNCHANGED ftp_own
  <2>1. TelnetInvariant'
    <3>1. CASE TelnetContinue \/ TelnetBoard
      BY <3>1, TelnetStep DEF TelnetNext
    <3>2. CASE ~(TelnetContinue \/ TelnetBoard)
      BY <1>2, <3>2, ConnectKeeps, LoginKeeps, SendLineKeeps, CloseKeeps DEF TelnetMoves
    <3>3. QED BY <3>1, <3>2
  <2>2. QED BY <1>2, <2>1, UploaderKept DEF TelnetInvariant, TelnetTypeOK
<1>3. CASE UNCHANGED <<fds, ftp_own, tel_own>> /\ proc' \in {"running", "dead"}
  <2>1. ProcessTypeOK'
    BY <1>3 DEF FtpTypeOK, ProcessTypeOK
  <2>2. QED BY <1>3, <2>1, UploaderKept, CommanderKept
<1>4. QED BY <1>1, <1>2, <1>3, ProgramSteps DEF TelnetInvariant

-----------------------------------------------------------------------------
(* The loops. *)

\* A board that is begun has no verdict before its end, and then one; the others keep theirs.
LEMMA LoopsKept ==
    ASSUME LoopTypeOK, LoopOrder, [Next]_vars
    PROVE  LoopTypeOK' /\ LoopOrder'
<1> USE DEF LoopTypeOK, LoopOrder
<1>1. CASE DeployerStep
  <2>1. CASE do_deploy_next_target
    <3>1. target + 1 \in Targets /\ target' = target + 1
          /\ event' = "FTP_CONNECT" /\ result' = "SUCCESS"
          /\ verdict' = [verdict EXCEPT ![target + 1] = "busy"] /\ next_file' = next_file
      BY <2>1 DEF do_deploy_next_target, Targets
    <3>2. LoopTypeOK'
      BY <3>1 DEF FtpEvents
    <3>3. LoopOrder'
      BY <3>1 DEF Targets
    <3>4. QED BY <3>2, <3>3
  <2>2. ASSUME NEW next \in FtpEvents \cup TelnetEvents, Step(next), target # 0,
               event \notin {"INIT", "TARGET_END"}, next_file' \in Files \cup {0}
        PROVE  LoopTypeOK' /\ LoopOrder'
    BY <2>2 DEF Step
  <2>3. CASE do_ftp_login \/ do_ftp_set_type \/ do_ftp_close
    BY <2>2, <2>3
       DEF do_ftp_login, do_ftp_set_type, do_ftp_close, FtpOk, Returned, FtpEvents
  <2>4. CASE do_ftp_put_first_file
    BY <2>2, <2>4 DEF do_ftp_put_first_file, FtpOk, Returned, FtpEvents, Files
  <2>5. CASE do_ftp_put_next_file
    BY <2>2, <2>5 DEF do_ftp_put_next_file, FtpOk, Returned, FtpEvents, Files
  <2>6. CASE do_telnet_connect \/ do_telnet_login \/ do_telnet_command \/ do_telnet_close
    BY <2>2, <2>6
       DEF do_telnet_connect, do_telnet_login, do_telnet_command, do_telnet_close, TelnetOk,
           Returned, TelnetEvents
  <2>7. ASSUME NEW res \in {"SUCCESS", "FAIL"}, NEW v \in {"success", "fail"},
               TargetEnd(res, v), target # 0
        PROVE  LoopTypeOK' /\ LoopOrder'
    BY <2>7 DEF TargetEnd, Targets
  <2>8. CASE do_one_target_ok \/ do_one_target_fail
    BY <2>7, <2>8
       DEF do_one_target_ok, do_one_target_fail, TelnetOk, Returned, FtpEvents, TelnetEvents
  <2>9. QED BY <1>1, <2>1, <2>3, <2>4, <2>5, <2>6, <2>8 DEF DeployerStep
<1>2. CASE UNCHANGED d_own
  BY <1>2 DEF d_own
<1>3. QED BY <1>1, <1>2 DEF Next, Program, Boards, main_own, vars

-----------------------------------------------------------------------------
(* What the functions do with the sockets. *)

uploader == <<ftp_pc, ftp_ret, command_socket, data_socket, is_connected, is_transfered>>

\* The command connection gets a descriptor of its own, or the call fails.
LEMMA ConnectOpens ==
    ASSUME NEW t \in Targets, ftp_uploader_connect(t)
    PROVE  /\ \E fd : fds' \in {fds, fds \cup {fd}}
           /\ \/ ftp_pc' = "GREETING" /\ command_socket' \in fds'
              \/ ftp_pc' = "idle" /\ ftp_ret' = "FAIL"
<1>1. PICK fd \in Fds \cup {NoFd} :
          /\ Socket(fd) /\ command_socket' = fd
          /\ \/ ftp_pc' = "idle" /\ ftp_ret' = "FAIL"
             \/ fd # NoFd /\ ftp_pc' = "GREETING"
  BY DEF ftp_uploader_connect, Return, Await
<1>2. fds' = fds \cup ({fd} \ {NoFd})
  BY <1>1 DEF Socket
<1>3. fds' \in {fds, fds \cup {fd}}
  BY <1>2
<1>4. fd # NoFd => command_socket' \in fds'
  BY <1>1, <1>2
<1>5. QED BY <1>1, <1>3, <1>4

\* The first data connection of a put is opened and STOR sent, or the put fails.
LEMMA PutOpens ==
    ASSUME FtpTypeOK, put_pasv_reply
    PROVE  /\ ftp_pc = "PASV" /\ UNCHANGED <<command_socket, is_connected>>
           /\ \E fd : fds' \in {fds, fds \cup {fd}}
           /\ \/ /\ ftp_pc' = "STOR" /\ data_socket' \in fds'
                 /\ data_socket' \notin fds /\ fds \subseteq fds'
              \/ ftp_pc' = "idle" /\ ftp_ret' # "OK"
              \/ ftp_pc' = "PASV" /\ UNCHANGED fds
<1>1. ftp_pc = "PASV" /\ UNCHANGED <<command_socket, is_connected>>
  BY DEF put_pasv_reply, At
<1>2. ASSUME NEW reached \in BOOLEAN, put_open_data(reached)
      PROVE  /\ \E fd : fds' \in {fds, fds \cup {fd}}
             /\ \/ /\ ftp_pc' = "STOR" /\ data_socket' \in fds'
                   /\ data_socket' \notin fds /\ fds \subseteq fds'
                \/ ftp_pc' = "idle" /\ ftp_ret' # "OK"
  <2>1. PICK fd \in Fds \cup {NoFd} :
            /\ Socket(fd) /\ data_socket' = fd
            /\ \/ ftp_pc' = "idle" /\ ftp_ret' = "FAIL"
               \/ fd # NoFd /\ ftp_pc' = "STOR"
    BY <1>2 DEF put_open_data, Return, Await
  <2>2. fds' = fds \cup ({fd} \ {NoFd}) /\ (fd # NoFd => fd \notin fds)
    BY <2>1 DEF Socket, NewFd
  <2>3. fds' \in {fds, fds \cup {fd}}
    BY <2>2
  <2>4. QED BY <1>1, <2>1, <2>2, <2>3
<1>3. CASE /\ UNCHANGED fds
           /\ \/ ftp_pc' = "idle" /\ ftp_ret' # "OK"
              \/ UNCHANGED ftp_pc
  BY <1>1, <1>3
<1>4. \/ \E reached \in BOOLEAN : put_open_data(reached)
      \/ UNCHANGED fds /\ (UNCHANGED ftp_pc \/ (ftp_pc' = "idle" /\ ftp_ret' # "OK"))
  BY Zenon DEF put_pasv_reply, Return
<1>5. QED BY <1>1, <1>2, <1>3, <1>4

\* The other replies open nothing; the end of a put and of a session close what is theirs.
LEMMA ContinueKeeps ==
    ASSUME FtpTypeOK, FtpContinue, ~put_pasv_reply
    PROVE  /\ ftp_pc # "idle" /\ ftp_pc # "PASV" /\ UNCHANGED <<command_socket, data_socket>>
           /\ \/ /\ UNCHANGED <<fds, is_connected, is_transfered>>
                 /\ \/ ftp_pc \in {"GREETING", "PASS", "TYPE", "DATA"} /\ ftp_pc' = "idle"
                    \/ ftp_pc \in {"USER", "STOR"} /\ ftp_pc' = "idle" /\ ftp_ret' # "OK"
                    \/ ftp_pc = "USER" /\ ftp_pc' = "PASS"
                    \/ ftp_pc \in {"STOR", "SENDING"} /\ ftp_pc' = "SENDING"
              \/ /\ ftp_pc = "SENDING" /\ ftp_pc' = "DATA" /\ UNCHANGED is_connected
                 /\ fds' = fds \ {data_socket} /\ ~is_transfered'
              \/ ftp_pc = "QUIT" /\ ftp_pc' = "idle" /\ fds' = fds \ closed_by_close
<1>1. CASE connect_reply \/ login_pass_reply \/ set_binary_mode_reply \/ put_data_reply
  BY <1>1 DEF connect_reply, login_pass_reply, set_binary_mode_reply, put_data_reply,
              ReturnReply, At, Return
<1>2. CASE login_user_reply
  BY <1>2 DEF login_user_reply, At, Return, Await
<1>3. CASE put_stor_reply
  BY <1>3 DEF put_stor_reply, At, Return, Await
<1>4. CASE put_send_block
  BY <1>4 DEF put_send_block, At
<1>5. CASE put_finish
  BY <1>5 DEF put_finish, At, Await
<1>6. CASE close_reply
  BY <1>6 DEF close_reply, At, Return
<1>7. QED BY <1>1, <1>2, <1>3, <1>4, <1>5, <1>6 DEF FtpContinue

\* The server has no part in the sockets, nor in what the client waits for.
LEMMA ServerKeeps ==
    ASSUME FtpServer
    PROVE  UNCHANGED <<fds, uploader>>
  BY DEF FtpServer, ServerAnswers, ServerBeginsTransfer, ServerEndsTransfer,
         ServerFailsTransfer, ServerCloses, UNCHANGED_client, uploader

\* A wait for a text ends with a result, and neither opens nor closes.
LEMMA CommanderContinues ==
    ASSUME TelnetContinue
    PROVE  /\ UNCHANGED <<fds, socket>>
           /\ tel_pc \in Waits /\ tel_pc' \in Waits \cup {"ready", "idle"}
           /\ tel_pc' = "idle" => tel_ret' # "OK"
  BY DEF TelnetContinue, login_asked, password_asked, password_not_asked, password_answered,
         prompt_after_command, no_match, recv_closed, telnet_commander_recv, TelAt, TelReturn,
         TelWait, Waits

\* Nor do the boards.
LEMMA BoardKeeps ==
    ASSUME TelnetBoard
    PROVE  UNCHANGED <<fds, socket, tel_pc, tel_ret>>
  BY DEF TelnetBoard, BoardReadsName, BoardReadsPassword, BoardRunsCommand, BoardReads,
         BoardCloses

\* A telnet session has a descriptor of its own.
LEMMA SessionOpens ==
    ASSUME NEW t, telnet_commander_connect(t)
    PROVE  /\ \E fd : fds' \in {fds, fds \cup {fd}}
           /\ \/ tel_pc' = "connected" /\ socket' \in fds'
              \/ tel_pc' = "idle" /\ tel_ret' = "FAIL"
<1>1. PICK fd \in Fds \cup {NoFd} :
          \/ /\ fds' = fds \cup {fd} /\ socket' = fd
             /\ TelReturn("connected", "OK")
          \/ TelReturn("idle", "FAIL") /\ UNCHANGED fds
  BY DEF telnet_commander_connect
<1>2. QED BY <1>1 DEF TelReturn

-----------------------------------------------------------------------------
(* The steps, the sockets and the descriptors. *)

Control == Places /\ Closing /\ Sockets /\ Budget

\* Opening a descriptor takes one, closing one that is open gives it back.
LEMMA Counted ==
    ASSUME ProcessTypeOK
    PROVE  /\ Cardinality(fds) \in Nat
           /\ \A fd : /\ Cardinality(fds \cup {fd}) \in Nat
                      /\ Cardinality(fds \cup {fd}) <= Cardinality(fds) + 1
           /\ \A fd \in fds : Cardinality(fds \ {fd}) = Cardinality(fds) - 1
<1>1. MaxFds \in Int /\ IsFiniteSet(Fds)
  BY FS_Interval DEF Fds
<1>2. IsFiniteSet(fds)
  BY <1>1, FS_Subset DEF ProcessTypeOK
<1>3. Cardinality(fds) \in Nat
  BY <1>2, FS_CardinalityType
<1>4. ASSUME NEW fd
      PROVE  /\ Cardinality(fds \cup {fd}) \in Nat
             /\ Cardinality(fds \cup {fd}) <= Cardinality(fds) + 1
  <2>1. Cardinality(fds \cup {fd}) = IF fd \in fds THEN Cardinality(fds)
                                    ELSE Cardinality(fds) + 1
    BY <1>2, FS_AddElement
  <2>2. QED BY <1>3, <2>1
<1>5. ASSUME NEW fd \in fds
      PROVE  Cardinality(fds \ {fd}) = Cardinality(fds) - 1
  BY <1>2, FS_RemoveElement
<1>6. QED BY <1>3, <1>4, <1>5

\* The same of a call that may open one.
LEMMA Opened ==
    ASSUME ProcessTypeOK, \E fd : fds' \in {fds, fds \cup {fd}}
    PROVE  Cardinality(fds') \in Nat /\ Cardinality(fds') <= Cardinality(fds) + 1
<1>1. PICK fd : fds' = fds \/ fds' = fds \cup {fd}
  OBVIOUS
<1>2. CASE fds' = fds
  BY <1>2, Counted
<1>3. CASE fds' = fds \cup {fd}
  <2>1. Cardinality(fds') = Cardinality(fds \cup {fd})
    BY <1>3
  <2>2. QED BY <2>1, Counted
<1>4. QED BY <1>1, <1>2, <1>3

\* What failed boards may have left open grows by two with a board that fails.
LEMMA Leaked ==
    ASSUME LoopTypeOK
    PROVE  /\ Leaks \in Nat
           /\ verdict' = verdict => Leaks' = Leaks
           /\ \A t \in Targets : \A v :
                  verdict[t] # "fail" /\ verdict' = [verdict EXCEPT ![t] = v]
                      => /\ v = "fail" => Leaks' = Leaks + 2
                         /\ v # "fail" => Leaks' = Leaks
<1> DEFINE failed == {t \in Targets : verdict[t] = "fail"}
<1>1. IsFiniteSet(Targets)
  BY FS_Interval DEF Targets
<1>2. IsFiniteSet(failed) /\ Cardinality(failed) \in Nat
  BY <1>1, FS_Subset, FS_CardinalityType
<1>. Leaks = 2 * Cardinality(failed) /\ Leaks' = 2 * Cardinality(failed')
  BY DEF Leaks
<1>. HIDE DEF failed
<1>3. ASSUME NEW t \in Targets, NEW v, verdict[t] # "fail",
             verdict' = [verdict EXCEPT ![t] = v]
      PROVE  /\ v = "fail" => Leaks' = Leaks + 2
             /\ v # "fail" => Leaks' = Leaks
  <2>1. CASE v = "fail"
    <3>1. failed' = failed \cup {t} /\ t \notin failed
      BY <1>3, <2>1 DEF LoopTypeOK, failed
    <3>2. Cardinality(failed') = Cardinality(failed) + 1
      BY <1>2, <3>1, FS_AddElement
    <3>3. QED BY <1>2, <2>1, <3>2
  <2>2. CASE v # "fail"
    <3>1. failed' = failed
      BY <1>3, <2>2 DEF LoopTypeOK, failed
    <3>2. QED BY <1>2, <2>2, <3>1
  <2>3. QED BY <2>1, <2>2
<1>4. verdict' = verdict => failed' = failed
  BY DEF failed
<1>5. verdict' = verdict => Leaks' = Leaks
  BY <1>4
<1>6. Leaks \in Nat
  BY <1>2
<1>7. QED BY <1>3, <1>5, <1>6

\* While the client of a board waits, the loops do not move.
LEMMA ContinueControl ==
    ASSUME DeployInvariant, FtpContinue, UNCHANGED <<tel_own, main_own>>
    PROVE  Control'
<1> USE DEF DeployInvariant
<1>1. UNCHANGED <<event, verdict, tel_pc, tel_ret, socket>> /\ Leaks' = Leaks /\ Leaks \in Nat
  BY Leaked DEF main_own, d_own, tel_own
<1>2. ProcessTypeOK /\ event \in FtpEvents \cup TelnetEvents \cup {"INIT", "TARGET_END"}
  BY DEF FtpTypeOK, LoopTypeOK
<1>3. CASE put_pasv_reply
  <2>1. event = "FTP_PUT_FILE"
    BY <1>3, PutOpens DEF Places, FtpEvents
  <2>2. Places' /\ Closing'
    BY <1>1, <1>3, <2>1, PutOpens DEF Places, Closing, FtpEvents
  <2>3. fds \subseteq fds'
    BY <1>3, PutOpens
  <2>4. command_socket \in fds /\ command_socket' = command_socket
    BY <1>3, PutOpens DEF Sockets
  <2>5. Sockets'
    BY <1>1, <1>3, <2>1, <2>3, <2>4, PutOpens DEF Sockets, TelnetEvents
  <2>6. Held = 1 /\ (Held' = 2 \/ (Held' = 1 /\ fds' = fds))
    BY <1>1, <1>3, <2>1, PutOpens DEF Held
  <2>7. Cardinality(fds') \in Nat /\ Cardinality(fds') <= Cardinality(fds) + 1
    BY <1>2, <1>3, PutOpens, Opened
  <2>8. Budget'
    BY <1>1, <1>2, <2>6, <2>7, Counted DEF Budget
  <2>9. QED BY <2>2, <2>5, <2>8 DEF Control
<1>4. CASE ~put_pasv_reply
  <2>1. ftp_pc # "idle" /\ ftp_pc # "PASV" /\ event \in FtpEvents
        /\ UNCHANGED <<command_socket, data_socket>>
    BY <1>4, ContinueKeeps DEF Places
  <2>2. CASE /\ UNCHANGED <<fds, is_connected, is_transfered>>
             /\ \/ ftp_pc \in {"GREETING", "PASS", "TYPE", "DATA"} /\ ftp_pc' = "idle"
                \/ ftp_pc \in {"USER", "STOR"} /\ ftp_pc' = "idle" /\ ftp_ret' # "OK"
                \/ ftp_pc = "USER" /\ ftp_pc' = "PASS"
                \/ ftp_pc \in {"STOR", "SENDING"} /\ ftp_pc' = "SENDING"
    <3>1. event # "FTP_CLOSE"
      BY <2>1, <2>2 DEF Places
    <3>2. Places'
      BY <1>1, <2>1, <2>2 DEF Places, FtpEvents
    <3>3. Closing'
      BY <1>1, <2>2 DEF Places, Closing
    <3>4. Sockets'
      BY <1>1, <2>1, <2>2, <3>1 DEF Sockets
    <3>5. Held \in {1, 2} /\ Held' \in {1, 2}
      BY <1>1, <2>1, <2>2, <3>1 DEF Held, FtpEvents
    <3>6. CASE ftp_pc \in {"STOR", "SENDING"}
      <4>1. event = "FTP_PUT_FILE"
        BY <2>1, <3>6 DEF Places, FtpEvents
      <4>2. Held' = 2
        BY <1>1, <2>2, <3>6, <4>1 DEF Held
      <4>3. QED BY <1>1, <1>2, <2>2, <3>2, <3>3, <3>4, <3>5, <4>2, Counted DEF Control, Budget
    <3>7. CASE ftp_pc \notin {"STOR", "SENDING"}
      <4>1. Held = 1
        BY <2>1, <3>1, <3>7 DEF Held, FtpEvents
      <4>2. QED BY <1>1, <1>2, <2>2, <3>2, <3>3, <3>4, <3>5, <4>1, Counted DEF Control, Budget
    <3>8. QED BY <3>6, <3>7
  <2>3. CASE /\ ftp_pc = "SENDING" /\ ftp_pc' = "DATA" /\ UNCHANGED is_connected
             /\ fds' = fds \ {data_socket} /\ ~is_transfered'
    <3>1. event = "FTP_PUT_FILE"
      BY <2>1, <2>3 DEF Places, FtpEvents
    <3>2. data_socket \in fds /\ data_socket # command_socket /\ command_socket \in fds
      BY <2>3 DEF Sockets
    <3>3. Places' /\ Closing' /\ Sockets'
      BY <1>1, <2>1, <2>3, <3>1, <3>2 DEF Places, Closing, Sockets, FtpEvents, TelnetEvents
    <3>4. Held = 2 /\ Held' = 1
      BY <1>1, <2>3, <3>1 DEF Held
    <3>5. Cardinality(fds') = Cardinality(fds) - 1 /\ Cardinality(fds) \in Nat
      BY <1>2, <2>3, <3>2, Counted
    <3>6. QED BY <1>1, <3>3, <3>4, <3>5 DEF Control, Budget
  <2>4. CASE ftp_pc = "QUIT" /\ ftp_pc' = "idle" /\ fds' = fds \ closed_by_close
    <3>1. event = "FTP_CLOSE" /\ ~is_transfered /\ is_connected /\ command_socket \in fds
      BY <2>1, <2>4 DEF Places, Closing, Sockets, FtpEvents
    <3>2. fds' = fds \ {command_socket}
      BY <2>4, <3>1 DEF closed_by_close
    <3>3. Places' /\ Closing' /\ Sockets'
      BY <1>1, <2>4, <3>1 DEF Places, Closing, Sockets, FtpEvents, TelnetEvents
    <3>4. Held = 1 /\ Held' = 0
      BY <1>1, <2>4, <3>1 DEF Held
    <3>5. Cardinality(fds') = Cardinality(fds) - 1 /\ Cardinality(fds) \in Nat
      BY <1>2, <3>1, <3>2, Counted
    <3>6. QED BY <1>1, <3>3, <3>4, <3>5 DEF Control, Budget
  <2>5. QED BY <1>4, <2>2, <2>3, <2>4, ContinueKeeps
<1>5. QED BY <1>3, <1>4

\* Nor while the client of a board's shell waits.
LEMMA CommanderControl ==
    ASSUME DeployInvariant, TelnetContinue, UNCHANGED <<ftp_own, main_own>>
    PROVE  Control'
<1> USE DEF DeployInvariant
<1>1. UNCHANGED <<event, verdict, uploader>> /\ Leaks' = Leaks
  BY Leaked DEF main_own, d_own, ftp_own, uploader
<1>2. /\ UNCHANGED <<fds, socket>>
      /\ tel_pc \in Waits /\ tel_pc' \in Waits \cup {"ready", "idle"}
      /\ tel_pc' = "idle" => tel_ret' # "OK"
  BY CommanderContinues
<1>3. event \in {"TELNET_LOGIN", "TELNET_COMMAND"} /\ tel_pc # "idle"
  BY <1>2 DEF Places, Waits
<1>4. Places' /\ Closing' /\ Sockets'
  BY <1>1, <1>2, <1>3 DEF Places, Closing, Sockets, uploader
<1>5. Held' = Held
  BY <1>1 DEF Held, uploader
<1>6. QED BY <1>1, <1>2, <1>4, <1>5 DEF Control, Budget

\* Nor do the boards take part in any of it, nor a step that leaves all of it alone.
LEMMA OtherControl ==
    ASSUME DeployInvariant, UNCHANGED <<fds, uploader, socket, tel_pc, tel_ret, d_own>>
    PROVE  Control'
<1> USE DEF DeployInvariant
<1>1. Leaks' = Leaks /\ Held' = Held
  BY Leaked DEF d_own, Held, uploader
<1>2. QED BY <1>1 DEF Control, Places, Closing, Sockets, Budget, uploader, d_own

\* A request of a session is sent, or the call fails at once; no socket changes.
Requested(req) ==
    /\ UNCHANGED <<fds, command_socket, is_connected, is_transfered, tel_own>>
    /\ ftp_pc' = req \/ (ftp_pc' = "idle" /\ ftp_ret' = "FAIL")

\* The steps of a session that is in order begin with such a request.
LEMMA RequestControl ==
    ASSUME DeployInvariant, NEW step, NEW next, NEW req, FtpOk(step), Step(next), Requested(req),
           step \in FtpEvents \ {"FTP_CLOSE"},
           \/ next = "FTP_LOGIN" /\ req = "USER"
           \/ next = "FTP_SET_TYPE" /\ req = "TYPE"
           \/ next = "FTP_PUT_FILE" /\ req = "PASV"
    PROVE  Control'
<1> USE DEF DeployInvariant
<1>1. /\ event = step /\ ftp_pc = "idle" /\ ftp_ret = "OK" /\ tel_pc \in Idle
      /\ event' = next /\ UNCHANGED <<verdict, fds, command_socket, tel_pc, tel_ret, socket>>
  BY DEF FtpOk, Returned, Step, Requested, tel_own
<1>2. command_socket \in fds
  BY <1>1 DEF Sockets
<1>3. ftp_pc' = req \/ (ftp_pc' = "idle" /\ ftp_ret' = "FAIL")
  BY DEF Requested
<1>4. Places' /\ Closing'
  BY <1>1, <1>3 DEF Places, Closing, FtpEvents, Idle, Waits
<1>5. Sockets'
  BY <1>1, <1>2, <1>3 DEF Sockets, TelnetEvents
<1>6. Held \in {1, 2} /\ Held' \in {1, 2}
  BY <1>1, <1>3 DEF Held, FtpEvents
<1>7. Held = 1
  BY <1>1 DEF Held, FtpEvents
<1>8. Leaks' = Leaks /\ Leaks \in Nat /\ Cardinality(fds) \in Nat
  BY <1>1, Leaked, Counted DEF FtpTypeOK
<1>9. QED BY <1>1, <1>4, <1>5, <1>6, <1>7, <1>8 DEF Control, Budget

\* The next board begins with no socket of its own, and may open one.
LEMMA NextTargetControl ==
    ASSUME DeployInvariant, do_deploy_next_target
    PROVE  Control'
<1> USE DEF DeployInvariant
<1>1. /\ event \in {"INIT", "TARGET_END"} /\ ftp_pc = "idle" /\ tel_pc \in Idle
      /\ target < NumTargets /\ event' = "FTP_CONNECT"
      /\ verdict' = [verdict EXCEPT ![target + 1] = "busy"]
      /\ ftp_uploader_connect(target + 1)
      /\ UNCHANGED <<tel_pc, tel_ret, socket>>
  BY DEF do_deploy_next_target, Returned, tel_own
<1>2. target + 1 \in Targets /\ verdict[target + 1] = "none"
  BY <1>1 DEF LoopTypeOK, LoopOrder, Targets
<1>3. Leaks' = Leaks /\ Leaks \in Nat
  <2>1. verdict[target + 1] # "fail" /\ "busy" # "fail"
    BY <1>2
  <2>2. verdict' = [verdict EXCEPT ![target + 1] = "busy"]
    BY <1>1
  <2>3. QED BY <1>2, <2>1, <2>2, Leaked, Zenon
<1>4. \/ ftp_pc' = "GREETING" /\ command_socket' \in fds'
      \/ ftp_pc' = "idle" /\ ftp_ret' = "FAIL"
  BY <1>1, <1>2, ConnectOpens
<1>5. Places' /\ Closing' /\ Sockets'
  BY <1>1, <1>4 DEF Places, Closing, Sockets, FtpEvents, TelnetEvents, Idle, Waits
<1>6. Held = 0 /\ Held' = 1
  BY <1>1, <1>4 DEF Held
<1>7. Cardinality(fds') \in Nat /\ Cardinality(fds') <= Cardinality(fds) + 1
  BY <1>1, <1>2, ConnectOpens, Opened DEF FtpTypeOK
<1>8. Cardinality(fds) \in Nat
  BY Counted DEF FtpTypeOK
<1>9. QED BY <1>3, <1>5, <1>6, <1>7, <1>8 DEF Control, Budget

\* QUIT is sent in a session whose last put has closed its data connection.
LEMMA QuitControl ==
    ASSUME DeployInvariant, do_ftp_close
    PROVE  Control'
<1> USE DEF DeployInvariant
<1>1. /\ event = "FTP_PUT_FILE" /\ ftp_pc = "idle" /\ ftp_ret = "OK" /\ tel_pc \in Idle
      /\ event' = "FTP_CLOSE" /\ ftp_pc' = "QUIT" /\ is_connected
      /\ UNCHANGED <<verdict, fds, command_socket, is_connected, is_transfered,
                     tel_pc, tel_ret, socket>>
  BY DEF do_ftp_close, FtpOk, Returned, Step, ftp_uploader_close, Called, Await, tel_own
<1>2. Places' /\ Closing' /\ Sockets'
  BY <1>1 DEF Places, Closing, Sockets, FtpEvents, TelnetEvents, Idle, Waits
<1>3. Held = 1 /\ Held' = 1
  BY <1>1 DEF Held
<1>4. Leaks' = Leaks
  BY <1>1, Leaked
<1>5. QED BY <1>1, <1>2, <1>3, <1>4 DEF Control, Budget

\* The telnet session takes the place of the FTP session, and is closed.
LEMMA TelnetControl ==
    ASSUME DeployInvariant,
           do_telnet_connect \/ do_telnet_login \/ do_telnet_command \/ do_telnet_close
    PROVE  Control'
<1> USE DEF DeployInvariant
<1>1. /\ ftp_pc = "idle" /\ tel_pc \in Idle
      /\ UNCHANGED <<verdict, ftp_pc, ftp_ret, command_socket, is_connected, is_transfered>>
  BY DEF do_telnet_connect, do_telnet_login, do_telnet_command, do_telnet_close, TelnetOk,
         Returned, Step, ftp_own
<1>2. Leaks' = Leaks /\ Leaks \in Nat /\ Cardinality(fds) \in Nat
  BY <1>1, Leaked, Counted DEF FtpTypeOK
<1>3. CASE do_telnet_connect
  <2>1. /\ event = "FTP_CLOSE" /\ event' = "TELNET_CONNECT"
        /\ telnet_commander_connect(target)
    BY <1>3 DEF do_telnet_connect, Returned, Step
  <2>2. \/ tel_pc' = "connected" /\ socket' \in fds'
        \/ tel_pc' = "idle" /\ tel_ret' = "FAIL"
    BY <2>1, SessionOpens
  <2>3. Places' /\ Closing' /\ Sockets'
    BY <1>1, <2>1, <2>2 DEF Places, Closing, Sockets, FtpEvents, TelnetEvents, Waits
  <2>4. Held = 0 /\ Held' = 1
    BY <1>1, <2>1 DEF Held
  <2>5. Cardinality(fds') \in Nat /\ Cardinality(fds') <= Cardinality(fds) + 1
    BY <2>1, SessionOpens, Opened DEF FtpTypeOK
  <2>6. QED BY <1>2, <2>3, <2>4, <2>5 DEF Control, Budget
<1>4. CASE do_telnet_login \/ do_telnet_command
  <2>1. /\ event \in {"TELNET_CONNECT", "TELNET_LOGIN", "TELNET_COMMAND"}
        /\ \/ event' = "TELNET_LOGIN" /\ tel_pc' = "login"
           \/ event' = "TELNET_COMMAND" /\ tel_pc' = "command"
        /\ tel_pc # "idle" /\ UNCHANGED <<fds, socket>>
    BY <1>4
       DEF do_telnet_login, do_telnet_command, TelnetOk, Returned, Step, TelAt, TelWait,
           telnet_commander_login, telnet_commander_send_one_line
  <2>2. Places' /\ Closing' /\ Sockets'
    BY <1>1, <2>1 DEF Places, Closing, Sockets, FtpEvents, TelnetEvents, Waits
  <2>3. Held = 1 /\ Held' = 1
    BY <1>1, <2>1 DEF Held
  <2>4. QED BY <1>2, <2>1, <2>2, <2>3 DEF Control, Budget
<1>5. CASE do_telnet_close
  <2>1. /\ event \in {"TELNET_LOGIN", "TELNET_COMMAND"} /\ tel_ret = "OK"
        /\ event' = "TELNET_CLOSE" /\ tel_pc' = "idle" /\ fds' = fds \ {socket}
    BY <1>5 DEF do_telnet_close, TelnetOk, Returned, Step, telnet_commander_close, TelReturn
  <2>2. socket \in fds
    BY <2>1 DEF Places, Sockets, TelnetEvents
  <2>3. Places' /\ Closing' /\ Sockets'
    BY <1>1, <2>1 DEF Places, Closing, Sockets, FtpEvents, TelnetEvents, Waits
  <2>4. Held = 1 /\ Held' = 0
    BY <1>1, <2>1 DEF Held
  <2>5. Cardinality(fds') = Cardinality(fds) - 1
    BY <2>1, <2>2, Counted DEF FtpTypeOK
  <2>6. QED BY <1>2, <2>3, <2>4, <2>5 DEF Control, Budget
<1>6. QED BY <1>3, <1>4, <1>5

\* A failed board leaves two descriptors at most, a successful one none.
LEMMA EndControl ==
    ASSUME DeployInvariant, do_one_target_ok \/ do_one_target_fail
    PROVE  Control'
<1> USE DEF DeployInvariant
<1>1. /\ ftp_pc = "idle" /\ tel_pc \in Idle /\ event \in FtpEvents \cup TelnetEvents
      /\ event' = "TARGET_END"
      /\ UNCHANGED <<fds, ftp_pc, ftp_ret, is_transfered, tel_pc>>
  BY DEF do_one_target_ok, do_one_target_fail, TelnetOk, Returned, TargetEnd, ftp_own, tel_own,
         TelnetEvents
<1>2. target \in Targets /\ verdict[target] = "busy"
  BY <1>1 DEF LoopTypeOK, LoopOrder, FtpEvents, TelnetEvents
<1>3. Places' /\ Closing' /\ Sockets'
  BY <1>1 DEF Places, Closing, Sockets, FtpEvents, TelnetEvents, Idle, Waits
<1>4. Held' = 0 /\ Held \in {0, 1, 2}
  BY <1>1 DEF Held
<1>5. Leaks \in Nat /\ Cardinality(fds) \in Nat
  BY Leaked, Counted DEF FtpTypeOK
<1>6. CASE do_one_target_ok
  <2>1. event = "TELNET_CLOSE" /\ verdict' = [verdict EXCEPT ![target] = "success"]
    BY <1>6 DEF do_one_target_ok, TelnetOk, Returned, TargetEnd
  <2>2. Leaks' = Leaks
    <3>1. verdict[target] # "fail" /\ "success" # "fail"
      BY <1>2
    <3>2. QED BY <1>2, <2>1, <3>1, Leaked, Zenon
  <2>3. Held = 0
    BY <2>1 DEF Held
  <2>4. QED BY <1>1, <1>3, <1>4, <1>5, <2>2, <2>3 DEF Control, Budget
<1>7. CASE do_one_target_fail
  <2>1. verdict' = [verdict EXCEPT ![target] = "fail"]
    BY <1>7 DEF do_one_target_fail, TargetEnd
  <2>2. Leaks' = Leaks + 2
    BY <1>2, <2>1, Leaked
  <2>3. QED BY <1>1, <1>3, <1>4, <1>5, <2>2 DEF Control, Budget
<1>8. QED BY <1>6, <1>7

\* So that every step of the loops keeps them.
LEMMA LoopControl ==
    ASSUME DeployInvariant, DeployerStep
    PROVE  Control'
<1>1. CASE do_ftp_login
  <2>1. Requested("USER")
    BY <1>1 DEF do_ftp_login, ftp_uploader_login, Await, Return, Requested
  <2>2. FtpOk("FTP_CONNECT") /\ Step("FTP_LOGIN")
    BY <1>1 DEF do_ftp_login
  <2>3. QED BY <2>1, <2>2, RequestControl DEF FtpEvents
<1>2. CASE do_ftp_set_type
  <2>1. Requested("TYPE")
    BY <1>2 DEF do_ftp_set_type, ftp_uploader_set_binary_mode, Await, Requested
  <2>2. FtpOk("FTP_LOGIN") /\ Step("FTP_SET_TYPE")
    BY <1>2 DEF do_ftp_set_type
  <2>3. QED BY <2>1, <2>2, RequestControl DEF FtpEvents
<1>3. CASE do_ftp_put_first_file
  <2>1. Requested("PASV")
    BY <1>3 DEF do_ftp_put_first_file, ftp_uploader_put, Await, Requested
  <2>2. FtpOk("FTP_SET_TYPE") /\ Step("FTP_PUT_FILE")
    BY <1>3 DEF do_ftp_put_first_file
  <2>3. QED BY <2>1, <2>2, RequestControl DEF FtpEvents
<1>4. CASE do_ftp_put_next_file
  <2>1. Requested("PASV")
    BY <1>4 DEF do_ftp_put_next_file, ftp_uploader_put, Await, Requested
  <2>2. FtpOk("FTP_PUT_FILE") /\ Step("FTP_PUT_FILE")
    BY <1>4 DEF do_ftp_put_next_file
  <2>3. QED BY <2>1, <2>2, RequestControl DEF FtpEvents
<1>5. QED
  BY <1>1, <1>2, <1>3, <1>4, NextTargetControl, QuitControl, TelnetControl, EndControl
     DEF DeployerStep

-----------------------------------------------------------------------------
(* The whole. *)

\* Before the first board nothing is open and nothing has failed.
LEMMA DeployBegins == DeployerInit => DeployInvariant
<1> SUFFICES ASSUME DeployerInit
             PROVE  DeployInvariant
  OBVIOUS
<1>1. FtpTypeOK /\ FtpInvariant /\ TelnetInvariant
  BY TypeInit, InvariantInit, TelnetBegins DEF DeployerInit
<1>2. /\ event = "INIT" /\ result = "INIT" /\ target = 0 /\ next_file = 0
      /\ verdict = [t \in Targets |-> "none"]
      /\ ftp_pc = "idle" /\ tel_pc = "idle" /\ fds = {}
  BY DEF DeployerInit, FtpInit, TelnetInit, ftp_uploader_create, telnet_commander_create,
         ProcessInit
<1>3. LoopTypeOK /\ LoopOrder
  BY <1>2 DEF LoopTypeOK, LoopOrder
<1>4. Places /\ Closing /\ Sockets
  BY <1>2 DEF Places, Closing, Sockets, FtpEvents, TelnetEvents, Waits
<1>5. Budget
  <2>1. Cardinality(fds) = 0 /\ Held = 0
    BY <1>2, FS_EmptySet DEF Held
  <2>2. Leaks \in Nat
    BY <1>3, Leaked
  <2>3. QED BY <2>1, <2>2 DEF Budget
<1>6. QED BY <1>1, <1>3, <1>4, <1>5 DEF DeployInvariant

\* Every step of the program and of the boards keeps all of it.
LEMMA DeployStep == ConfigInvariant /\ DeployInvariant /\ [Next]_vars => DeployInvariant'
<1> SUFFICES ASSUME ConfigInvariant, DeployInvariant, [Next]_vars
             PROVE  DeployInvariant'
  OBVIOUS
<1>1. FtpTypeOK' /\ FtpInvariant' /\ TelnetInvariant' /\ LoopTypeOK' /\ LoopOrder'
  BY PartsKept, LoopsKept DEF DeployInvariant
<1>2. Control'
  <2>1. CASE DeployerStep
    BY <2>1, LoopControl
  <2>2. CASE (Configure \/ do_deploy_end) /\ UNCHANGED <<fds, ftp_own, tel_own, d_own>>
    BY <2>2, OtherControl DEF uploader, ftp_own, tel_own
  <2>3. CASE FtpContinue /\ UNCHANGED <<tel_own, main_own>>
    BY <2>3, ContinueControl
  <2>4. CASE TelnetContinue /\ UNCHANGED <<ftp_own, main_own>>
    BY <2>4, CommanderControl
  <2>5. CASE FtpServer /\ UNCHANGED <<tel_own, main_own>>
    BY <2>5, ServerKeeps, OtherControl DEF tel_own, main_own
  <2>6. CASE TelnetBoard /\ UNCHANGED <<ftp_own, main_own>>
    BY <2>6, BoardKeeps, OtherControl DEF uploader, ftp_own, main_own
  <2>7. CASE UNCHANGED vars
    BY <2>7, OtherControl DEF vars, uploader, ftp_own, tel_own, main_own
  <2>8. QED BY <2>1, <2>2, <2>3, <2>4, <2>5, <2>6, <2>7 DEF Next, Program, Boards
<1>3. QED BY <1>1, <1>2 DEF DeployInvariant, Control

\* While the boards are deployed nothing happens to the configuration.
LEMMA MainSteps == [Next]_vars => MainMoves
  BY DEF MainMoves, Next, Program, Boards, do_deploy_end, main_own, vars

\* So the invariant of the configuration holds of the whole.
LEMMA ConfigInvariantHolds == Spec => []ConfigInvariant
<1>1. DeployerInit => ConfigInvariant
  BY ConfigBegins DEF DeployerInit
<1>2. ConfigInvariant /\ [Next]_vars => ConfigInvariant'
  BY ConfigStep, MainSteps
<1>3. QED BY <1>1, <1>2, PTL DEF Spec

\* The inductive invariant of the deployer.
LEMMA DeployInvariantHolds == Spec => []DeployInvariant
  BY DeployBegins, DeployStep, ConfigInvariantHolds, PTL DEF Spec

\* Boards are contacted only in the stage that deploys them.
Untouched ==
    /\ event = "INIT" => fds = {}
    /\ event # "INIT" => stage \in {"deploy", "exited"}

\* The clients move in the stage of deploying only.
LEMMA UntouchedKept ==
    ASSUME DeployInvariant, Untouched, [Next]_vars
    PROVE  Untouched'
<1> USE DEF Untouched, DeployInvariant
<1>1. CASE DeployerStep /\ UNCHANGED conf_own
  <2>1. stage = "deploy"
    BY <1>1
       DEF DeployerStep, do_deploy_next_target, do_ftp_login, do_ftp_set_type,
           do_ftp_put_first_file, do_ftp_put_next_file, do_ftp_close, do_telnet_connect,
           do_telnet_login, do_telnet_command, do_telnet_close, do_one_target_ok,
           do_one_target_fail, FtpOk, TelnetOk, Returned, InStage
  <2>2. event' # "INIT"
    BY <1>1
       DEF DeployerStep, do_deploy_next_target, do_ftp_login, do_ftp_set_type,
           do_ftp_put_first_file, do_ftp_put_next_file, do_ftp_close, do_telnet_connect,
           do_telnet_login, do_telnet_command, do_telnet_close, do_one_target_ok,
           do_one_target_fail, Step, TargetEnd
  <2>3. QED BY <1>1, <2>1, <2>2 DEF conf_own
<1>2. CASE Configure /\ UNCHANGED <<fds, d_own>>
  <2>1. stage \notin {"deploy", "exited"}
    BY <1>2
       DEF Configure, deployer_create, deployer_create_fails, deployer_init_fails,
           open_config_file, deployer_parse_ftp, deployer_parse_telnet, command_char,
           command_file_end, deployer_parse_deploy_targets, Parsed, InStage,
           deployer_parse_deploy_files, deployer_init, parse_fails, parse_crashes, main_fails
  <2>2. QED BY <1>2, <2>1 DEF d_own
<1>3. CASE do_deploy_end /\ UNCHANGED <<fds, d_own>>
  BY <1>3 DEF do_deploy_end, main_returns, InStage, Goto, d_own
<1>4. CASE (FtpContinue \/ TelnetContinue) /\ UNCHANGED main_own
  <2>1. event # "INIT"
    <3>1. CASE FtpContinue
      <4>1. ftp_pc # "idle"
        BY <3>1, ContinueKeeps, PutOpens
      <4>2. QED BY <4>1 DEF Places, FtpEvents
    <3>2. CASE TelnetContinue
      BY <3>2, CommanderContinues DEF Places
    <3>3. QED BY <1>4, <3>1, <3>2
  <2>2. QED BY <1>4, <2>1 DEF main_own, d_own, conf_own
<1>5. CASE (FtpServer \/ TelnetBoard \/ UNCHANGED fds) /\ UNCHANGED main_own
  BY <1>5, ServerKeeps, BoardKeeps DEF main_own, d_own, conf_own
<1>6. QED BY <1>1, <1>2, <1>3, <1>4, <1>5 DEF Next, Program, Boards, vars

\* The configuration is as it should be, and boards are contacted only when it is complete.
LEMMA ConfigHolds == Spec => [](ConfigInvariant /\ Untouched)
<1>1. DeployerInit => Untouched
  BY DEF DeployerInit, FtpInit, ProcessInit, Untouched
<1>2. Untouched /\ DeployInvariant /\ [Next]_vars => Untouched'
  BY UntouchedKept
<1>3. QED BY <1>1, <1>2, DeployInvariantHolds, ConfigInvariantHolds, PTL DEF Spec

\* For any number of boards, files, commands and descriptors, and any command file, the
\* deployer and its parts keep their types (deployer.c, main.c of the deployer).
THEOREM DeployerTypeCorrect == Spec => []DeployerTypeOK
<1>1. DeployInvariant /\ ConfigInvariant => DeployerTypeOK
  BY DEF DeployInvariant, ConfigInvariant, TelnetInvariant, LoopTypeOK, DeployerTypeOK
<1>2. QED BY <1>1, DeployInvariantHolds, ConfigHolds, PTL

\* Every descriptor that ftp_uploader_close has to close is closed: no is_transfered flag,
\* of this or an earlier board, hides the command socket (ftp_uploader.c:450-475).
THEOREM CommandSocketsClosed == Spec => []CloseClosesCommandSocket
<1>1. DeployInvariant => CloseClosesCommandSocket
  BY DEF DeployInvariant, Closing, CloseClosesCommandSocket
<1>2. QED BY <1>1, DeployInvariantHolds, PTL

\* A board that fails leaves at most two descriptors open, and a successful one none,
\* whatever the boards before it left (deployer.c:189-196).
THEOREM SocketsBudgeted == Spec => []SocketBudget
<1>1. DeployInvariant => SocketBudget
  <2> SUFFICES ASSUME DeployInvariant, event = "TARGET_END"
               PROVE  Cardinality(fds) <= Leaks
    BY DEF SocketBudget
  <2>1. Held = 0
    BY DEF Held
  <2>2. Leaks \in Nat /\ Cardinality(fds) \in Nat
    BY Leaked, Counted DEF DeployInvariant, FtpTypeOK
  <2>3. QED BY <2>1, <2>2 DEF DeployInvariant, Budget
<1>2. QED BY <1>1, DeployInvariantHolds, PTL

\* What both clients promise to any caller they keep when the deployer calls them in turn,
\* with descriptors of the one process (deployer.c:80-198).
THEOREM ClientsPromise ==
    Spec => [](RepliesMatchRequest /\ UploadedMeansStored
               /\ AcceptedLoginMeansShell /\ NoMutualWait)
<1>1. FtpInvariant => RepliesMatchRequest /\ UploadedMeansStored
  BY DEF FtpInvariant, ProtocolInv, RepliesInOrder, RepliesMatchRequest, UploadedMeansStored
<1>2. TelnetInvariant => AcceptedLoginMeansShell /\ NoMutualWait
  BY DialogueMeans
<1>3. DeployInvariant => /\ RepliesMatchRequest /\ UploadedMeansStored
                         /\ AcceptedLoginMeansShell /\ NoMutualWait
  BY <1>1, <1>2 DEF DeployInvariant
<1>4. QED BY <1>3, DeployInvariantHolds, PTL

\* Whatever characters the command file has, each command that the boards are sent is one of
\* its lines, whole; with memory for every one they are the first lines in their order, and
\* all of them if the text ends with a newline and has no byte 255 (deployer.c:279-308).
THEOREM CommandsAsInFile == Spec => []CommandsAsWritten
<1>1. ConfigInvariant => CommandsAsWritten
  BY DEF ConfigInvariant
<1>2. QED BY <1>1, ConfigHolds, PTL

\* However the configuration fails, the Deployer is freed once at most and with all its
\* files closed, and boards are contacted only with a whole configuration
\* (deployer.c:438-441, 506-570; main.c:101-108).
THEOREM ConfigurationIsOwned == Spec => []DestroyedOnce
<1>1. ConfigInvariant /\ Untouched => DestroyedOnce
  BY DEF ConfigInvariant, InOneHand, Untouched, DestroyedOnce, Stages
<1>2. QED BY <1>1, ConfigHolds, PTL

-----------------------------------------------------------------------------
(* The refinement: what has been done for the board in turn. *)

\* The sessions are those of the board in turn, and the boards before it have a verdict.
InTurn ==
    /\ event = "INIT" => target = 0
    /\ event # "INIT" => ip = target
    /\ event \in TelnetEvents => board = target
    /\ \A t \in Targets : t < target => verdict[t] \in {"success", "fail"}
    /\ event = "TARGET_END" => verdict[target] \in {"success", "fail"}

\* The files before the one that is put are uploaded, and in the end all of them.
FilesPut ==
    /\ event = "FTP_PUT_FILE" =>
           /\ next_file \in Files /\ file = next_file
           /\ \A f \in Files : f < next_file => f \in uploaded[target]
           /\ ftp_pc = "idle" /\ ftp_ret = "OK" => next_file \in uploaded[target]
    /\ event \in TelnetEvents \cup {"FTP_CLOSE"} => Files \subseteq uploaded[target]

\* A shell has run the commands before the one it is to read, and one that was answered
\* with a prompt has run too; nothing runs on a board before its files are sent.
CommandsRun ==
    /\ \A t \in Targets : t > target => ran[t] = <<>>
    /\ event \in FtpEvents => ran[target] = <<>>
    /\ event \in {"TELNET_CONNECT", "TELNET_LOGIN"} => command = 0 /\ ran[target] = <<>>
    /\ event = "TELNET_COMMAND" =>
           /\ tel_pc \in {"command", "ready"}
           /\ shell = "shell" /\ tconn = "up" => Len(ran[target]) + Len(lines) = command
           /\ (tel_pc = "ready" /\ tel_ret = "OK") \/ (tel_pc = "command" /\ On("]#"))
                  => Len(ran[target]) = command
           /\ command <= Len(telnet_command_list)
    /\ event = "TELNET_CLOSE" => Len(ran[target]) = Len(telnet_command_list)

PromiseInvariant == InTurn /\ FilesPut /\ CommandsRun

\* What the replies of a session change of the files: a put that has ended well is uploaded.
LEMMA RepliesUpload ==
    ASSUME FtpContinue
    PROVE  /\ UNCHANGED <<ip, file, stored>>
           /\ \/ /\ UNCHANGED uploaded
                 /\ ftp_pc' = "idle" /\ ftp_ret' = "OK" => ftp_pc # "DATA"
              \/ /\ ftp_pc = "DATA" /\ ftp_pc' = "idle" /\ ftp_ret' # "OK"
                 /\ UNCHANGED uploaded
              \/ /\ ftp_pc = "DATA" /\ ftp_pc' = "idle" /\ ftp_ret' = "OK"
                 /\ uploaded' = [uploaded EXCEPT ![ip] = @ \cup {file}]
  BY DEF FtpContinue, connect_reply, login_user_reply, login_pass_reply,
         set_binary_mode_reply, put_pasv_reply, put_stor_reply, put_send_block, put_finish,
         put_data_reply, close_reply, ReturnReply, At, Return, Await

\* The server of a board changes what is stored there in a transfer, and nothing else.
LEMMA ServerStores ==
    ASSUME FtpServer
    PROVE  /\ UNCHANGED <<proc, ip, file, uploaded, ftp_pc, ftp_ret>>
           /\ \/ UNCHANGED stored
              \/ /\ requests # <<>> /\ Head(requests) \in {"STOR", "DATA"}
                 /\ \E f \in {file, storing} :
                        \E kept \in {{}, {f}} :
                            stored' = [stored EXCEPT ![ip] = (@ \ {f}) \cup kept]
<1>1. CASE ServerBeginsTransfer
  <2>1. stored' = [stored EXCEPT ![ip] = (@ \ {file}) \cup {}]
    BY <1>1 DEF ServerBeginsTransfer
  <2>2. QED BY <1>1, <2>1 DEF ServerBeginsTransfer, Answer, UNCHANGED_client
<1>2. CASE ServerEndsTransfer
  <2>1. stored' = stored \/ stored' = [stored EXCEPT ![ip] = (@ \ {storing}) \cup {storing}]
    BY <1>2 DEF ServerEndsTransfer
  <2>2. QED BY <1>2, <2>1 DEF ServerEndsTransfer, Answer, UNCHANGED_client
<1>3. CASE ServerAnswers \/ ServerFailsTransfer \/ ServerCloses
  BY <1>3 DEF ServerAnswers, ServerFailsTransfer, ServerCloses, UNCHANGED_client
<1>4. QED BY <1>1, <1>2, <1>3 DEF FtpServer

\* The sessions stay those of the board in turn.
LEMMA TurnKept ==
    ASSUME DeployInvariant, InTurn, [Next]_vars
    PROVE  InTurn'
<1> USE DEF InTurn
<1>1. CASE DeployerStep
  <2>1. CASE do_deploy_next_target
    <3>1. /\ event \in {"INIT", "TARGET_END"} /\ event' = "FTP_CONNECT"
          /\ target' = target + 1 /\ target' \in Targets /\ target \in Nat
          /\ verdict' = [verdict EXCEPT ![target + 1] = "busy"]
          /\ ip' = target + 1
      BY <2>1
         DEF do_deploy_next_target, Returned, ftp_uploader_connect, DeployInvariant,
             LoopTypeOK, Targets
    <3>2. \A t \in Targets : t < target + 1 => verdict[t] \in {"success", "fail"}
      BY <3>1 DEF Targets
    <3>3. \A t \in Targets : t < target + 1 => verdict'[t] = verdict[t]
      BY <3>1 DEF DeployInvariant, LoopTypeOK, Targets
    <3>4. QED BY <3>1, <3>2, <3>3 DEF TelnetEvents
  <2>2. CASE \/ do_ftp_login \/ do_ftp_set_type \/ do_ftp_put_first_file
             \/ do_ftp_put_next_file \/ do_ftp_close
    <3>1. /\ UNCHANGED <<target, verdict, ip>> /\ event' \in FtpEvents /\ event # "INIT"
      BY <2>2
         DEF do_ftp_login, do_ftp_set_type, do_ftp_put_first_file, do_ftp_put_next_file,
             do_ftp_close, Step, FtpOk, Returned, FtpEvents, ftp_uploader_login,
             ftp_uploader_set_binary_mode, ftp_uploader_put, ftp_uploader_close
    <3>2. QED BY <3>1 DEF FtpEvents, TelnetEvents
  <2>3. CASE do_telnet_connect
    <3>1. /\ UNCHANGED <<target, verdict, ip>> /\ event' = "TELNET_CONNECT"
          /\ event = "FTP_CLOSE" /\ board' = target
      BY <2>3
         DEF do_telnet_connect, Step, Returned, telnet_commander_connect, ftp_own
    <3>2. QED BY <3>1
  <2>4. CASE do_telnet_login \/ do_telnet_command \/ do_telnet_close
    <3>1. /\ UNCHANGED <<target, verdict, ip, board>> /\ event' \in TelnetEvents
          /\ event \in TelnetEvents
      BY <2>4
         DEF do_telnet_login, do_telnet_command, do_telnet_close, Step, TelnetOk, Returned,
             telnet_commander_login, telnet_commander_send_one_line, telnet_commander_close,
             ftp_own, TelnetEvents
    <3>2. QED BY <3>1 DEF TelnetEvents
  <2>5. CASE do_one_target_ok \/ do_one_target_fail
    <3>1. \E v \in {"success", "fail"} :
              /\ event' = "TARGET_END" /\ verdict' = [verdict EXCEPT ![target] = v]
              /\ UNCHANGED <<target, ip>>
      BY <2>5 DEF do_one_target_ok, do_one_target_fail, TargetEnd, ftp_own
    <3>2. event # "INIT" /\ target \in Targets
      BY <2>5
         DEF do_one_target_ok, do_one_target_fail, TelnetOk, Returned, FtpEvents,
             TelnetEvents, DeployInvariant, LoopTypeOK, LoopOrder
    <3>3. QED BY <3>1, <3>2 DEF TelnetEvents, DeployInvariant, LoopTypeOK
  <2>6. QED BY <1>1, <2>1, <2>2, <2>3, <2>4, <2>5 DEF DeployerStep
<1>2. CASE UNCHANGED <<d_own, ip, board>>
  BY <1>2 DEF d_own
<1>3. FtpContinue \/ FtpServer => UNCHANGED ip
  BY RepliesUpload, ServerStores
<1>4. TelnetContinue \/ TelnetBoard => UNCHANGED board
  BY DEF TelnetContinue, login_asked, password_asked, password_not_asked, password_answered,
         prompt_after_command, no_match, recv_closed, telnet_commander_recv, TelnetBoard,
         BoardReadsName, BoardReadsPassword, BoardRunsCommand, BoardReads, BoardCloses
<1>5. QED
  BY <1>1, <1>2, <1>3, <1>4 DEF Next, Program, Boards, main_own, vars, ftp_own, tel_own

\* A put follows the ones before it, and the session is closed after the last one.
LEMMA FilesKept ==
    ASSUME DeployInvariant, InTurn, FilesPut, [Next]_vars
    PROVE  FilesPut'
<1> USE DEF FilesPut
<1>1. uploaded \in [Targets -> SUBSET Files] /\ file \in Files /\ ip \in Targets
  BY DEF DeployInvariant, FtpTypeOK
<1>2. CASE DeployerStep
  <2>1. CASE do_deploy_next_target \/ do_ftp_login \/ do_ftp_set_type
    <3>1. event' \in {"FTP_CONNECT", "FTP_LOGIN", "FTP_SET_TYPE"}
      BY <2>1 DEF do_deploy_next_target, do_ftp_login, do_ftp_set_type, Step
    <3>2. QED BY <3>1 DEF TelnetEvents
  <2>2. CASE do_ftp_put_first_file
    <3>1. /\ event' = "FTP_PUT_FILE" /\ next_file' = 1 /\ file' = 1 /\ ftp_pc' = "PASV"
      BY <2>2 DEF do_ftp_put_first_file, Step, ftp_uploader_put, Await
    <3>2. QED BY <3>1 DEF Files, TelnetEvents
  <2>3. CASE do_ftp_put_next_file
    <3>1. /\ event = "FTP_PUT_FILE" /\ ftp_pc = "idle" /\ ftp_ret = "OK"
          /\ event' = "FTP_PUT_FILE" /\ target' = target
          /\ next_file' = next_file + 1 /\ file' = next_file + 1 /\ ftp_pc' = "PASV"
          /\ next_file < NumFiles
          /\ uploaded' = [uploaded EXCEPT ![ip] = @ \ {next_file + 1}]
      BY <2>3
         DEF do_ftp_put_next_file, FtpOk, Returned, Step, ftp_uploader_put, Await
    <3>2. next_file \in Files /\ next_file + 1 \in Files /\ ip = target
      BY <3>1 DEF Files, InTurn
    <3>3. ASSUME NEW f \in Files, f < next_file + 1 PROVE f \in uploaded'[target]
      <4>1. f \in uploaded[target] /\ f # next_file + 1
        BY <3>1, <3>2, <3>3 DEF Files
      <4>2. QED BY <1>1, <3>1, <3>2, <4>1
    <3>4. QED BY <3>1, <3>2, <3>3 DEF TelnetEvents
  <2>4. CASE do_ftp_close
    <3>1. /\ event = "FTP_PUT_FILE" /\ ftp_pc = "idle" /\ ftp_ret = "OK"
          /\ event' = "FTP_CLOSE" /\ next_file = NumFiles /\ UNCHANGED <<target, uploaded>>
      BY <2>4 DEF do_ftp_close, FtpOk, Returned, Step, ftp_uploader_close
    <3>2. Files \subseteq uploaded[target]
      BY <3>1 DEF Files
    <3>3. QED BY <3>1, <3>2
  <2>5. CASE do_telnet_connect \/ do_telnet_login \/ do_telnet_command \/ do_telnet_close
    <3>1. /\ event \in TelnetEvents \cup {"FTP_CLOSE"} /\ event' \in TelnetEvents
          /\ UNCHANGED <<target, uploaded>>
      BY <2>5
         DEF do_telnet_connect, do_telnet_login, do_telnet_command, do_telnet_close,
             TelnetOk, Returned, Step, ftp_own, TelnetEvents
    <3>2. QED BY <3>1 DEF TelnetEvents
  <2>6. CASE do_one_target_ok \/ do_one_target_fail
    <3>1. event' = "TARGET_END"
      BY <2>6 DEF do_one_target_ok, do_one_target_fail, TargetEnd
    <3>2. QED BY <3>1 DEF TelnetEvents
  <2>7. QED BY <1>2, <2>1, <2>2, <2>3, <2>4, <2>5, <2>6 DEF DeployerStep
<1>3. CASE FtpContinue /\ UNCHANGED main_own
  <2>1. UNCHANGED <<event, target, next_file, file>> /\ event \in FtpEvents
    BY <1>3, RepliesUpload, ContinueKeeps, PutOpens
       DEF main_own, d_own, DeployInvariant, Places
  <2>2. uploaded'[target] = uploaded[target] \/ uploaded'[target] = uploaded[target] \cup {file}
    BY <1>1, <1>3, <2>1, RepliesUpload DEF InTurn, FtpEvents
  <2>3. ASSUME event = "FTP_PUT_FILE", ftp_pc' = "idle", ftp_ret' = "OK"
        PROVE  next_file \in uploaded'[target]
    <3>1. ftp_pc = "DATA"
      BY <1>3, <2>3, ContinueKeeps, PutOpens DEF DeployInvariant, Places
    <3>2. uploaded' = [uploaded EXCEPT ![ip] = @ \cup {file}]
      BY <1>3, <2>3, <3>1, RepliesUpload
    <3>3. QED BY <1>1, <2>3, <3>2 DEF InTurn
  <2>4. QED BY <2>1, <2>2, <2>3 DEF FtpEvents, TelnetEvents
<1>4. CASE UNCHANGED <<d_own, file, uploaded, ftp_pc, ftp_ret>>
  BY <1>4 DEF d_own
<1>5. QED
  BY <1>2, <1>3, <1>4, ServerStores DEF Next, Program, Boards, main_own, vars, ftp_own

\* What the client does while it waits leaves what the boards have run, and a prompt that
\* ends the wait for a command was on the screen.
LEMMA WaitRuns ==
    ASSUME TelnetInvariant, TelnetContinue
    PROVE  /\ proc = "running" /\ UNCHANGED <<board, command, ran, shell, tconn>>
           /\ tel_pc = "command" =>
                  /\ UNCHANGED lines
                  /\ \/ tel_pc' = "command" /\ (On("]#")' => On("]#"))
                     \/ tel_pc' = "ready" /\ (tel_ret' = "OK" => On("]#"))
<1> USE DEF TelnetInvariant
<1>1. /\ proc = "running" /\ UNCHANGED <<board, command, ran, shell, tconn>>
  BY DEF TelnetContinue, login_asked, password_asked, password_not_asked, password_answered,
         prompt_after_command, no_match, recv_closed, telnet_commander_recv, TelAt
<1>2. CASE tel_pc = "command"
  <2>1. prompt_after_command \/ no_match \/ recv_closed
    BY <1>2
       DEF TelnetContinue, login_asked, password_asked, password_not_asked,
           password_answered, telnet_commander_recv, TelAt
  <2>2. CASE prompt_after_command
    BY <1>1, <2>2, PromptMeansRunning DEF prompt_after_command, TelReturn
  <2>3. CASE no_match
    <3>1. PICK pc \in Waits : telnet_commander_recv(pc, 0, FALSE)
      BY <2>3 DEF no_match
    <3>2. Turn(pc, 0)
      BY <3>1, RecvTurns DEF Dialogue, PromptLast
    <3>3. On("]#")' => On("]#")
      BY <3>2 DEF Turn, Texts
    <3>4. QED BY <1>1, <1>2, <2>3, <3>3 DEF no_match
  <2>4. CASE recv_closed
    BY <1>1, <1>2, <2>4 DEF recv_closed, TelReturn
  <2>5. QED BY <2>1, <2>2, <2>3, <2>4
<1>3. QED BY <1>1, <1>2

\* A board that reads a line while a command is awaited runs it if that is its shell.
LEMMA BoardRuns ==
    ASSUME TelnetInvariant, TelnetBoard
    PROVE  /\ proc = "running" /\ UNCHANGED <<proc, tel_pc, tel_ret, board, command>>
           /\ \/ /\ BoardRunsCommand
                 /\ tel_pc = "command" /\ command \in Commands /\ board \in Targets
                 /\ shell = "shell" /\ shell' = "shell" /\ tconn = "up" /\ tconn' = "up"
                 /\ Len(lines) = 1 /\ lines' = <<>>
                 /\ ran' = [ran EXCEPT ![board] = Append(@, command)]
              \/ /\ UNCHANGED ran
                 /\ tel_pc = "command" =>
                        /\ On("]#")' => On("]#")
                        /\ tconn' = "up" => shell' # "shell" \/ UNCHANGED <<lines, shell, tconn>>
<1> USE DEF TelnetInvariant
<1>1. proc = "running" /\ UNCHANGED <<proc, tel_pc, tel_ret, board, command>>
  BY DEF TelnetBoard, BoardReadsName, BoardReadsPassword, BoardRunsCommand, BoardReads,
         BoardCloses
<1>2. CASE BoardRunsCommand
  <2>1. /\ BoardReads("shell") /\ shell' = shell
        /\ ran' = [ran EXCEPT ![board] = Append(@, command)]
    BY <1>2 DEF BoardRunsCommand
  <2>2. /\ tel_pc = "command" /\ command # 0 /\ lines' = <<>> /\ shell = "shell"
        /\ tconn = "up" /\ tconn' = "up" /\ lines # <<>>
    BY <2>1, BoardReadsOne DEF BoardReads
  <2>3. lines = <<"command">>
    BY <2>2 DEF Dialogue, OneLine
  <2>4. command \in Commands /\ board \in Targets
    BY <2>2 DEF TelnetTypeOK
  <2>5. QED BY <1>1, <1>2, <2>1, <2>2, <2>3, <2>4
<1>3. CASE BoardReadsName \/ BoardReadsPassword
  <2>1. UNCHANGED ran /\ TelnetInvariant'
    BY <1>3, BoardReadsNameKeeps, BoardReadsPasswordKeeps
       DEF BoardReadsName, BoardReadsPassword
  <2>2. tel_pc = "command" => shell' # "shell"
    BY <1>3, BoardReadsOne DEF BoardReadsName, BoardReadsPassword
  <2>3. On("]#")' => shell' = "shell"
    BY <2>1 DEF Dialogue, PromptLast
  <2>4. QED BY <1>1, <2>1, <2>2, <2>3
<1>4. CASE BoardCloses
  <2>1. On("]#")' = On("]#") /\ UNCHANGED ran /\ tconn' # "up"
    BY <1>4 DEF BoardCloses, On
  <2>2. QED BY <1>1, <2>1
<1>5. QED BY <1>2, <1>3, <1>4 DEF TelnetBoard

\* The list of commands has a length.
LEMMA ListLength == ASSUME ConfigInvariant PROVE Len(telnet_command_list) \in Nat
<1>1. telnet_command_list \in Seq(Seq(Characters))
  BY Zenon DEF ConfigInvariant, ConfigTypeOK
<1>2. QED BY <1>1

\* The configuration is read before the first board.
LEMMA ConfigureFirst == ASSUME Untouched, Configure PROVE event = "INIT"
  BY DEF Untouched, Configure, deployer_create, deployer_create_fails, deployer_init_fails,
         open_config_file, deployer_parse_ftp, deployer_parse_telnet, command_char,
         command_file_end, deployer_parse_deploy_targets, Parsed, InStage,
         deployer_parse_deploy_files, deployer_init, parse_fails, parse_crashes, main_fails

\* Commands are typed one after the other, and each runs once at most.
LEMMA RunKept ==
    ASSUME ConfigInvariant, Untouched, DeployInvariant, InTurn, CommandsRun, [Next]_vars
    PROVE  CommandsRun'
<1> USE DEF CommandsRun
<1>1. /\ TelnetInvariant /\ ran \in [Targets -> Seq(Commands)] /\ command \in Nat
      /\ target \in Targets \cup {0} /\ board \in Targets /\ lines \in Seq(Lines)
  BY DEF DeployInvariant, TelnetInvariant, TelnetTypeOK, LoopTypeOK, Commands
<1>0. Len(telnet_command_list) \in Nat
  BY ListLength
<1>2. CASE DeployerStep /\ UNCHANGED telnet_command_list
  <2>1. CASE do_deploy_next_target
    <3>1. /\ event' = "FTP_CONNECT" /\ target' = target + 1 /\ target' \in Targets
          /\ UNCHANGED ran
      BY <1>1, <2>1 DEF do_deploy_next_target, tel_own, Targets
    <3>2. QED BY <1>1, <3>1 DEF TelnetEvents, Targets
  <2>2. CASE \/ do_ftp_login \/ do_ftp_set_type \/ do_ftp_put_first_file
             \/ do_ftp_put_next_file \/ do_ftp_close
    <3>1. /\ UNCHANGED <<target, ran>> /\ event' \in FtpEvents /\ event \in FtpEvents
      BY <2>2
         DEF do_ftp_login, do_ftp_set_type, do_ftp_put_first_file, do_ftp_put_next_file,
             do_ftp_close, Step, FtpOk, Returned, FtpEvents, tel_own
    <3>2. QED BY <3>1 DEF FtpEvents
  <2>3. CASE do_telnet_connect
    <3>1. /\ UNCHANGED <<target, ran>> /\ event' = "TELNET_CONNECT" /\ command' = 0
          /\ event = "FTP_CLOSE"
      BY <2>3 DEF do_telnet_connect, Step, Returned, telnet_commander_connect
    <3>2. QED BY <3>1 DEF FtpEvents
  <2>4. CASE do_telnet_login
    <3>1. /\ UNCHANGED <<target, ran, command>> /\ event' = "TELNET_LOGIN"
          /\ event = "TELNET_CONNECT"
      BY <2>4 DEF do_telnet_login, Step, TelnetOk, Returned, telnet_commander_login
    <3>2. QED BY <3>1 DEF FtpEvents
  <2>5. CASE do_telnet_command
    <3>1. /\ UNCHANGED <<target, ran, shell, tconn, screen>> /\ event' = "TELNET_COMMAND"
          /\ event \in {"TELNET_LOGIN", "TELNET_COMMAND"}
          /\ tel_pc = "ready" /\ tel_pc' = "command" /\ command' = command + 1
          /\ Type("command") /\ command < Len(telnet_command_list)
      BY <2>5
         DEF do_telnet_command, Step, TelnetOk, Returned, telnet_commander_send_one_line,
             TelAt, TelWait
    <3>2. lines = <<>> /\ ~On("]#")
      BY <1>1, <3>1 DEF TelnetInvariant, Dialogue, OneLine, PromptLast, Idle
    <3>3. shell = "shell" /\ tconn = "up" => Len(ran[target]) = command
      <4>1. CASE event = "TELNET_LOGIN"
        BY <4>1
      <4>2. CASE event = "TELNET_COMMAND"
        <5>1. target \in Targets /\ Len(ran[target]) \in Nat /\ Len(lines) = 0
          BY <1>1, <3>2, <4>2 DEF DeployInvariant, LoopOrder
        <5>2. QED BY <1>1, <4>2, <5>1
      <4>3. QED BY <3>1, <4>1, <4>2
    <3>4. tconn = "up" => Len(lines') = 1
      BY <3>1, <3>2 DEF Type
    <3>5. ~On("]#")'
      BY <3>1, <3>2 DEF On
    <3>6. command' <= Len(telnet_command_list)
      BY <1>0, <1>1, <3>1
    <3>7. QED BY <1>2, <3>1, <3>3, <3>4, <3>5, <3>6 DEF FtpEvents
  <2>6. CASE do_telnet_close
    <3>1. /\ UNCHANGED <<target, ran>> /\ event' = "TELNET_CLOSE" /\ tel_ret = "OK"
          /\ tel_pc \in Idle
          /\ \/ event = "TELNET_COMMAND" /\ command = Len(telnet_command_list)
             \/ event = "TELNET_LOGIN" /\ telnet_command_list = <<>>
      BY <2>6 DEF do_telnet_close, Step, TelnetOk, Returned, telnet_commander_close
    <3>2. Len(ran[target]) = Len(telnet_command_list)
      BY <3>1 DEF Idle
    <3>3. QED BY <1>2, <3>1, <3>2 DEF FtpEvents
  <2>7. CASE do_one_target_ok \/ do_one_target_fail
    <3>1. event' = "TARGET_END" /\ UNCHANGED <<target, ran>>
      BY <2>7 DEF do_one_target_ok, do_one_target_fail, TargetEnd, tel_own
    <3>2. QED BY <3>1 DEF FtpEvents
  <2>8. QED BY <1>2, <2>1, <2>2, <2>3, <2>4, <2>5, <2>6, <2>7 DEF DeployerStep
<1>3. CASE UNCHANGED <<d_own, tel_own>> /\ (Configure \/ do_deploy_end \/ UNCHANGED conf_own)
  <2>1. On("]#")' = On("]#")
    BY <1>3 DEF On, tel_own
  <2>2. event \in {"INIT", "TARGET_END"} \/ UNCHANGED telnet_command_list
    BY <1>3, ConfigureFirst DEF do_deploy_end, Returned, conf_own
  <2>3. QED BY <1>3, <2>1, <2>2 DEF d_own, tel_own, FtpEvents
<1>4. CASE TelnetContinue /\ UNCHANGED <<d_own, telnet_command_list>>
  <2>1. event \in {"TELNET_LOGIN", "TELNET_COMMAND"}
    BY <1>4, CommanderContinues DEF DeployInvariant, Places
  <2>2. UNCHANGED <<event, target, board, command, ran, shell, tconn>>
    BY <1>1, <1>4, WaitRuns DEF d_own
  <2>3. CASE event = "TELNET_LOGIN"
    BY <2>2, <2>3 DEF FtpEvents
  <2>4. CASE event = "TELNET_COMMAND"
    <3>1. tel_pc = "command"
      BY <1>4, <2>4, CommanderContinues DEF Waits
    <3>2. QED BY <1>1, <1>4, <2>2, <2>4, <3>1, WaitRuns DEF FtpEvents
  <2>5. QED BY <2>1, <2>3, <2>4
<1>5. CASE TelnetBoard /\ UNCHANGED <<d_own, telnet_command_list>>
  <2>1. UNCHANGED <<event, target, tel_pc, tel_ret, board, command>>
    BY <1>1, <1>5, BoardRuns DEF d_own
  <2>2. CASE BoardRunsCommand
    <3>1. /\ tel_pc = "command" /\ shell = "shell" /\ shell' = "shell" /\ tconn = "up"
          /\ Len(lines) = 1 /\ lines' = <<>> /\ command \in Commands
          /\ ran' = [ran EXCEPT ![board] = Append(@, command)]
      BY <1>1, <1>5, <2>2, BoardRuns DEF BoardRunsCommand
    <3>2. event = "TELNET_COMMAND"
      BY <3>1 DEF DeployInvariant, Places, Waits, Commands
    <3>3. board = target /\ target \in Targets /\ ran[target] \in Seq(Commands)
      BY <1>1, <3>2 DEF InTurn, TelnetEvents
    <3>4. ran'[target] = Append(ran[target], command)
      BY <1>1, <3>1, <3>3
    <3>5. Len(ran'[target]) = Len(ran[target]) + 1 /\ Len(ran[target]) \in Nat
      BY <3>1, <3>3, <3>4
    <3>6. Len(ran'[target]) = command /\ Len(lines') = 0
      BY <3>1, <3>2, <3>5
    <3>7. \A t \in Targets : t > target => ran'[t] = ran[t]
      BY <1>1, <3>1, <3>3 DEF Targets
    <3>8. QED BY <1>1, <1>5, <2>1, <3>1, <3>2, <3>6, <3>7 DEF FtpEvents
  <2>3. CASE ~BoardRunsCommand
    <3>1. /\ UNCHANGED ran
          /\ tel_pc = "command" =>
                 /\ On("]#")' => On("]#")
                 /\ tconn' = "up" => shell' # "shell" \/ UNCHANGED <<lines, shell, tconn>>
      BY <1>1, <1>5, <2>3, BoardRuns
    <3>2. CASE tel_pc = "command"
      BY <1>5, <2>1, <3>1, <3>2
    <3>3. CASE tel_pc # "command"
      <4>1. event = "TELNET_COMMAND" => tel_pc = "ready"
        BY <3>3
      <4>2. event = "TELNET_COMMAND" => ~BoardReadsName /\ ~BoardReadsPassword
        BY <1>1, <4>1, BoardReadsOne DEF BoardReadsName, BoardReadsPassword
      <4>3. event = "TELNET_COMMAND" => tconn' # "up"
        BY <1>5, <2>3, <4>2 DEF TelnetBoard, BoardCloses
      <4>4. QED BY <1>5, <2>1, <3>1, <3>3, <4>3
    <3>4. QED BY <3>2, <3>3
  <2>4. QED BY <2>2, <2>3
<1>6. QED
  BY <1>2, <1>3, <1>4, <1>5 DEF Next, Program, Boards, main_own, conf_own, vars

-----------------------------------------------------------------------------
(* The refinement: the steps of Deployment. *)

\* The program has not been killed while it deploys.
Going == proc = "running" \/ stage # "deploy"

Handling == event \notin {"INIT", "TARGET_END"}

\* A step that changes nothing of what is promised is none, or the end of the process in
\* the middle of a board.
LEMMA DieOrStutter ==
    ASSUME DeployInvariant, Going, Handling \/ Going',
           UNCHANGED <<telnet_command_list, verdict, stored, ran>>
    PROVE  [D!Next]_(D!vars)
<1>1. CASE Going'
  BY <1>1 DEF Going, D!vars
<1>2. CASE ~Going'
  <2>1. target \in Targets /\ verdict[target] = "busy"
    BY <1>2 DEF DeployInvariant, LoopTypeOK, LoopOrder, Handling
  <2>2. D!Die(target)
    BY <1>2, <2>1 DEF D!Die, D!Busy, Going
  <2>3. QED BY <2>1, <2>2 DEF D!Next
<1>3. QED BY <1>1, <1>2

\* The next board is begun when those before it have a verdict.
LEMMA BeginStep ==
    ASSUME DeployInvariant, PromiseInvariant, do_deploy_next_target,
           UNCHANGED <<stage, telnet_command_list>>
    PROVE  D!Next
<1>1. /\ proc = "running" /\ proc' = "running" /\ event \in {"INIT", "TARGET_END"}
      /\ target < NumTargets
      /\ verdict' = [verdict EXCEPT ![target + 1] = "busy"] /\ UNCHANGED <<stored, ran>>
  BY DEF do_deploy_next_target, Returned, InStage, ftp_uploader_connect, tel_own
<1>2. target + 1 \in Targets /\ verdict[target + 1] = "none"
  BY <1>1 DEF DeployInvariant, LoopTypeOK, LoopOrder, Targets
<1>3. ASSUME NEW t \in Targets, t < target + 1 PROVE verdict[t] \in {"success", "fail"}
  BY <1>1, <1>3 DEF PromiseInvariant, InTurn, DeployInvariant, LoopTypeOK, Targets
<1>4. D!Begin(target + 1)
  BY <1>1, <1>2, <1>3 DEF D!Begin, Going
<1>5. QED BY <1>2, <1>4 DEF D!Next

\* A board whose session with the shell is being held has all files whole.
LEMMA FilesAreThere ==
    ASSUME ~Fragmented, ~ReadErrors, DeployInvariant, PromiseInvariant,
           event \in TelnetEvents
    PROVE  target \in Targets /\ verdict[target] = "busy" /\ stored[target] = Files
<1>1. target \in Targets /\ verdict[target] = "busy"
  BY DEF DeployInvariant, LoopTypeOK, LoopOrder, TelnetEvents
<1>2. Files \subseteq uploaded[target]
  BY DEF PromiseInvariant, FilesPut
<1>3. uploaded[target] \subseteq stored[target] /\ stored[target] \subseteq Files
  BY <1>1 DEF DeployInvariant, FtpInvariant, UploadedMeansStored, FtpTypeOK
<1>4. QED BY <1>1, <1>2, <1>3

\* A verdict of success is given when all commands have run.
LEMMA EndStep ==
    ASSUME ~Fragmented, ~ReadErrors, DeployInvariant, PromiseInvariant,
           do_one_target_ok \/ do_one_target_fail,
           UNCHANGED <<stage, telnet_command_list>>
    PROVE  D!Next
<1>1. /\ proc = "running" /\ proc' = "running" /\ Handling /\ UNCHANGED <<stored, ran>>
  BY DEF do_one_target_ok, do_one_target_fail, TelnetOk, Returned, InStage, TargetEnd,
         ftp_own, tel_own, Handling, FtpEvents, TelnetEvents
<1>2. target \in Targets /\ verdict[target] = "busy"
  BY <1>1 DEF DeployInvariant, LoopTypeOK, LoopOrder, Handling
<1>3. CASE do_one_target_ok
  <2>1. /\ event = "TELNET_CLOSE" /\ verdict' = [verdict EXCEPT ![target] = "success"]
    BY <1>3 DEF do_one_target_ok, TelnetOk, Returned, TargetEnd
  <2>2. stored[target] = Files
    BY <2>1, FilesAreThere DEF TelnetEvents
  <2>3. Len(ran[target]) = Len(telnet_command_list)
    BY <2>1 DEF PromiseInvariant, CommandsRun
  <2>4. D!Succeed(target)
    BY <1>1, <1>2, <2>1, <2>2, <2>3 DEF D!Succeed, D!Busy, Going
  <2>5. QED BY <1>2, <2>4 DEF D!Next
<1>4. CASE do_one_target_fail
  <2>1. verdict' = [verdict EXCEPT ![target] = "fail"]
    BY <1>4 DEF do_one_target_fail, TargetEnd
  <2>2. D!Fail(target)
    BY <1>1, <1>2, <2>1 DEF D!Fail, D!Busy, Going
  <2>3. QED BY <1>2, <2>2 DEF D!Next
<1>5. QED BY <1>3, <1>4

\* The other steps of the loops only go on with the board.
LEMMA GoOnStep ==
    ASSUME DeployInvariant,
           \/ do_ftp_login \/ do_ftp_set_type \/ do_ftp_put_first_file
           \/ do_ftp_put_next_file \/ do_ftp_close
           \/ do_telnet_connect \/ do_telnet_login \/ do_telnet_command \/ do_telnet_close
    PROVE  Going /\ Handling /\ UNCHANGED <<verdict, stored, ran>>
<1>1. \E step \in FtpEvents \cup TelnetEvents : Returned(step)
  BY DEF do_ftp_login, do_ftp_set_type, do_ftp_put_first_file, do_ftp_put_next_file,
         do_ftp_close, do_telnet_connect, do_telnet_login, do_telnet_command,
         do_telnet_close, FtpOk, TelnetOk, FtpEvents, TelnetEvents
<1>2. Going /\ Handling
  BY <1>1 DEF Returned, InStage, Going, Handling, FtpEvents, TelnetEvents
<1>3. CASE do_ftp_login \/ do_ftp_set_type \/ do_ftp_put_first_file
           \/ do_ftp_put_next_file \/ do_ftp_close
  BY <1>2, <1>3
     DEF do_ftp_login, do_ftp_set_type, do_ftp_put_first_file, do_ftp_put_next_file,
         do_ftp_close, Step, ftp_uploader_login, ftp_uploader_set_binary_mode,
         ftp_uploader_put, ftp_uploader_close, tel_own
<1>4. CASE do_telnet_connect \/ do_telnet_login \/ do_telnet_command \/ do_telnet_close
  BY <1>2, <1>4
     DEF do_telnet_connect, do_telnet_login, do_telnet_command, do_telnet_close, Step,
         telnet_commander_connect, telnet_commander_login, telnet_commander_send_one_line,
         telnet_commander_close, ftp_own
<1>5. QED BY <1>3, <1>4

\* The files of a board change only while it is handled and before it runs a command.
LEMMA ServerStep ==
    ASSUME ~Fragmented, DeployInvariant, PromiseInvariant, FtpServer, UNCHANGED <<tel_own, main_own>>
    PROVE  [D!Next]_(D!vars)
<1>1. UNCHANGED <<proc, stage, telnet_command_list, verdict, ran>>
  BY ServerStores DEF tel_own, main_own, d_own, conf_own
<1>2. CASE UNCHANGED stored
  BY <1>1, <1>2 DEF D!vars
<1>3. CASE stored' # stored
  <2>1. /\ requests # <<>> /\ Head(requests) \in {"STOR", "DATA"}
        /\ \E f \in {file, storing} :
               \E kept \in {{}, {f}} :
                   stored' = [stored EXCEPT ![ip] = (@ \ {f}) \cup kept]
    BY <1>3, ServerStores
  <2>2. ftp_pc \in {"STOR", "SENDING", "DATA"}
    BY <2>1 DEF DeployInvariant, FtpInvariant, ProtocolInv, OneRequest
  <2>3. event = "FTP_PUT_FILE"
    BY <2>2 DEF DeployInvariant, Places, LoopTypeOK, FtpEvents
  <2>4. /\ target \in Targets /\ verdict[target] = "busy" /\ ip = target
        /\ ran[target] = <<>>
    BY <2>3
       DEF DeployInvariant, LoopTypeOK, LoopOrder, PromiseInvariant, InTurn, CommandsRun,
           FtpEvents
  <2>5. PICK f \in Files : \E kept \in {{}, {f}} :
            stored' = [stored EXCEPT ![target] = (@ \ {f}) \cup kept]
    BY <2>1, <2>4 DEF DeployInvariant, FtpTypeOK
  <2>6. Going /\ Going' = Going
    BY <1>1 DEF Going, FtpServer, ServerAnswers, ServerBeginsTransfer, ServerEndsTransfer,
                ServerFailsTransfer, ServerCloses, Answer, ServerRuns
  <2>7. D!Upload(target, f)
    BY <1>1, <2>4, <2>5, <2>6 DEF D!Upload, D!Busy, Going
  <2>8. QED BY <2>4, <2>7 DEF D!Next
<1>4. QED BY <1>2, <1>3

\* A board runs the next command, and has the files.
LEMMA RunStep ==
    ASSUME ~Fragmented, ~ReadErrors, ConfigInvariant, DeployInvariant, PromiseInvariant,
           TelnetBoard, UNCHANGED <<ftp_own, main_own>>
    PROVE  [D!Next]_(D!vars)
<1>1. /\ UNCHANGED <<proc, stage, telnet_command_list, verdict, stored>> /\ proc = "running"
      /\ TelnetInvariant
  BY BoardRuns DEF ftp_own, main_own, d_own, conf_own, DeployInvariant
<1>2. CASE UNCHANGED ran
  BY <1>1, <1>2 DEF D!vars
<1>3. CASE ran' # ran
  <2>1. /\ tel_pc = "command" /\ command \in Commands /\ shell = "shell" /\ tconn = "up"
        /\ Len(lines) = 1
        /\ ran' = [ran EXCEPT ![board] = Append(@, command)]
    BY <1>1, <1>3, BoardRuns
  <2>2. event = "TELNET_COMMAND"
    BY <2>1 DEF DeployInvariant, Places, Waits, PromiseInvariant, CommandsRun, Commands
  <2>3. /\ target \in Targets /\ verdict[target] = "busy" /\ stored[target] = Files
        /\ board = target
    BY <2>2, FilesAreThere DEF TelnetEvents, PromiseInvariant, InTurn
  <2>4. Len(ran[target]) \in Nat
    BY <1>1, <2>3 DEF TelnetInvariant, TelnetTypeOK
  <2>5. Len(ran[target]) + 1 = command /\ Len(ran[target]) < Len(telnet_command_list)
    <3>1. Len(ran[target]) + 1 = command /\ command <= Len(telnet_command_list)
      BY <2>1, <2>2 DEF PromiseInvariant, CommandsRun
    <3>2. QED BY <2>4, <3>1, ListLength
  <2>6. D!Run(target)
    <3>1. ran' = [ran EXCEPT ![target] = Append(@, Len(@) + 1)]
      BY <2>1, <2>3, <2>5
    <3>2. QED BY <1>1, <2>1, <2>3, <2>5, <3>1 DEF D!Run, D!Busy, Going
  <2>7. QED BY <2>3, <2>6 DEF D!Next
<1>4. QED BY <1>2, <1>3

\* Every step of the program and of the boards is one of Deployment, or none.
LEMMA PromiseStep ==
    ASSUME ~Fragmented, ~ReadErrors, ConfigInvariant, DeployInvariant, Untouched,
           PromiseInvariant, [Next]_vars
    PROVE  [D!Next]_(D!vars)
<1>1. CASE DeployerStep /\ UNCHANGED conf_own
  <2>1. UNCHANGED <<stage, telnet_command_list>>
    BY <1>1 DEF conf_own
  <2>2. QED BY <1>1, <2>1, BeginStep, EndStep, GoOnStep, DieOrStutter DEF DeployerStep
<1>2. CASE Configure /\ UNCHANGED <<fds, ftp_own, tel_own, d_own>>
  <2>1. Going /\ Going'
    BY <1>2
       DEF Configure, deployer_create, deployer_create_fails, deployer_init_fails,
           open_config_file, deployer_parse_ftp, deployer_parse_telnet, command_char,
           command_file_end, deployer_parse_deploy_targets, Parsed, InStage, Goto,
           deployer_parse_deploy_files, deployer_init, parse_fails, parse_crashes,
           main_fails, conf_own, Going
  <2>2. \A t \in Targets : verdict[t] = "none"
    <3>1. event = "INIT" /\ target = 0
      BY <1>2, ConfigureFirst DEF PromiseInvariant, InTurn
    <3>2. QED BY <3>1 DEF DeployInvariant, LoopOrder, Targets
  <2>3. Len(telnet_command_list)' \in Nat
    <3>1. ConfigTypeOK'
      BY <1>2, ConfigKept DEF ConfigInvariant, MainMoves
    <3>2. telnet_command_list' \in Seq(Seq(Characters))
      BY <3>1, Zenon DEF ConfigTypeOK
    <3>3. QED BY <3>2
  <2>4. D!List
    BY <1>2, <2>1, <2>2, <2>3 DEF D!List, Going, ftp_own, tel_own, d_own
  <2>5. QED BY <2>4 DEF D!Next
<1>3. CASE do_deploy_end /\ UNCHANGED <<fds, ftp_own, tel_own, d_own>>
  <2>1. /\ proc = "running" /\ proc' = "running" /\ telnet_command_list' = <<>>
        /\ event = "TARGET_END" /\ target = NumTargets
    BY <1>3 DEF do_deploy_end, Returned, main_returns, InStage, deployer_destroy
  <2>2. \A t \in Targets : verdict[t] \in {"success", "fail"}
    BY <2>1 DEF PromiseInvariant, InTurn, Targets
  <2>3. Len(telnet_command_list)' = 0
    BY <2>1
  <2>4. D!List
    BY <1>3, <2>1, <2>2, <2>3 DEF D!List, Going, ftp_own, tel_own, d_own
  <2>5. QED BY <2>4 DEF D!Next
<1>4. CASE FtpContinue /\ UNCHANGED <<tel_own, main_own>>
  <2>1. event \in FtpEvents
    BY <1>4, ContinueKeeps, PutOpens DEF DeployInvariant, Places
  <2>2. proc = "running"
    BY <1>4 DEF FtpContinue, connect_reply, login_user_reply, login_pass_reply,
                set_binary_mode_reply, put_pasv_reply, put_stor_reply, put_send_block,
                put_finish, put_data_reply, close_reply, ReturnReply, At
  <2>3. QED
    BY <1>4, <2>1, <2>2, DieOrStutter, RepliesUpload
       DEF Going, Handling, FtpEvents, tel_own, main_own, d_own, conf_own
<1>5. CASE TelnetContinue /\ UNCHANGED <<ftp_own, main_own>>
  <2>1. event \in {"TELNET_LOGIN", "TELNET_COMMAND"}
    BY <1>5, CommanderContinues DEF DeployInvariant, Places
  <2>2. proc = "running" /\ UNCHANGED ran
    BY <1>5, WaitRuns DEF DeployInvariant
  <2>3. QED
    BY <1>5, <2>1, <2>2, DieOrStutter
       DEF Going, Handling, ftp_own, main_own, d_own, conf_own
<1>6. CASE UNCHANGED vars
  BY <1>6 DEF vars, main_own, d_own, conf_own, ftp_own, tel_own, D!vars
<1>7. QED
  BY <1>1, <1>2, <1>3, <1>4, <1>5, <1>6, ServerStep, RunStep DEF Next, Program, Boards

\* With whole replies and readable files, and for any number of boards, files, commands and
\* descriptors, a run of the deployer is one that Deployment allows: boards one at a time
\* and in order, commands in order and only on a board with every file whole, and no
\* success unless all of it happened (deployer.c:80-198, 617-645).
THEOREM DeploysInOrder ==
    ASSUME ~Fragmented, ~ReadErrors
    PROVE  Spec => DeploysAsPromised
<1>1. DeployerInit => D!Init /\ PromiseInvariant
  <2> SUFFICES ASSUME DeployerInit
               PROVE  D!Init /\ PromiseInvariant
    OBVIOUS
  <2>1. /\ proc = "running" /\ event = "INIT" /\ target = 0 /\ Len(telnet_command_list) = 0
        /\ verdict = [t \in Targets |-> "none"] /\ stored = [t \in Targets |-> {}]
        /\ ran = [t \in Targets |-> <<>>]
    BY DEF DeployerInit, FtpInit, TelnetInit, ConfigInit, ProcessInit
  <2>2. PromiseInvariant
    BY <2>1 DEF PromiseInvariant, InTurn, FilesPut, CommandsRun, FtpEvents, TelnetEvents,
                Targets
  <2>3. QED BY <2>1, <2>2 DEF D!Init
<1>2. ConfigInvariant /\ Untouched /\ DeployInvariant /\ PromiseInvariant /\ [Next]_vars
          => PromiseInvariant'
  BY TurnKept, FilesKept, RunKept DEF PromiseInvariant
<1>3. ConfigInvariant /\ Untouched /\ DeployInvariant /\ PromiseInvariant /\ [Next]_vars
          => [D!Next]_(D!vars)
  BY PromiseStep
<1>4. QED
  BY <1>1, <1>2, <1>3, DeployInvariantHolds, ConfigHolds, PTL
     DEF Spec, DeploysAsPromised, D!Spec
=============================================================================
