------------------------------ MODULE Deployer ------------------------------
(***************************************************************************)
(* deployer/deployer.c: deployer_do_deploy takes the boards in turn, and    *)
(* deployer_do_one_target takes one of them through the steps of the FTP    *)
(* session and then of the telnet session, until a step fails.              *)
(*                                                                          *)
(* The program has one thread: event is the step in progress, and the next  *)
(* action of the deployer waits for the call of that step to return.  What  *)
(* a step calls is the action of FtpUploader or TelnetCommander itself.     *)
(***************************************************************************)
EXTENDS DeployerConfig

VARIABLES
    event,          \* event_cb_ctx->event
    result,         \* event_cb_ctx->result
    target,         \* the loop of deployer_do_deploy: the board in turn, 0 before the first
    next_file,      \* the loop over deploy_file_list: the file that is put
    verdict         \* history: the result each board's TARGET_END reported

d_own == <<event, result, target, next_file, verdict>>
main_own == <<d_own, conf_own>>
vars == <<proc, fds, ftp_own, tel_own, main_own>>

FtpEvents == {"FTP_CONNECT", "FTP_LOGIN", "FTP_SET_TYPE", "FTP_PUT_FILE", "FTP_CLOSE"}
TelnetEvents == {"TELNET_CONNECT", "TELNET_LOGIN", "TELNET_COMMAND", "TELNET_CLOSE"}

\* The type invariant of the EventCbCtx, the loops and the components.
DeployerTypeOK ==
    /\ FtpTypeOK /\ TelnetTypeOK /\ ConfigTypeOK
    /\ event \in FtpEvents \cup TelnetEvents \cup {"INIT", "TARGET_END"}
    /\ result \in {"INIT", "SUCCESS", "FAIL"}
    /\ target \in Targets \cup {0}
    /\ next_file \in Files \cup {0}
    /\ verdict \in [Targets -> {"none", "busy", "success", "fail"}]

DeployerInit ==
    /\ FtpInit /\ TelnetInit /\ ConfigInit
    /\ event = "INIT" /\ result = "INIT"
    /\ target = 0 /\ next_file = 0
    /\ verdict = [t \in Targets |-> "none"]

-----------------------------------------------------------------------------
(* deployer_do_deploy and deployer_do_one_target. *)

\* The call of the step in progress has returned.
Returned(step) ==
    InStage("deploy") /\ event = step /\ ftp_pc = "idle" /\ tel_pc \in Idle

\* The next step; the callback has reported the last one with the same result.
Step(next) ==
    /\ event' = next
    /\ UNCHANGED <<result, target, verdict>>

FtpOk(step) == Returned(step) /\ ftp_ret = "OK"
TelnetOk(step) == Returned(step) /\ tel_ret = "OK"

\* Mutant: the last board is left out.
do_deploy_next_target_but_last ==
    /\ Returned("INIT") \/ Returned("TARGET_END")
    /\ target < NumTargets - 1
    /\ target' = target + 1
    /\ event' = "FTP_CONNECT" /\ result' = "SUCCESS"
    /\ verdict' = [verdict EXCEPT ![target + 1] = "busy"]
    /\ ftp_uploader_connect(target + 1)
    /\ UNCHANGED <<next_file, tel_own>>

\* TARGET_START is reported, then the first step of the next board begins.
do_deploy_next_target ==
    /\ Returned("INIT") \/ Returned("TARGET_END")
    /\ target < NumTargets
    /\ target' = target + 1
    /\ event' = "FTP_CONNECT" /\ result' = "SUCCESS"
    /\ verdict' = [verdict EXCEPT ![target + 1] = "busy"]
    /\ ftp_uploader_connect(target + 1)
    /\ UNCHANGED <<next_file, tel_own>>

do_ftp_login ==
    /\ FtpOk("FTP_CONNECT") /\ Step("FTP_LOGIN")
    /\ ftp_uploader_login
    /\ UNCHANGED <<next_file, tel_own>>

do_ftp_set_type ==
    /\ FtpOk("FTP_LOGIN") /\ Step("FTP_SET_TYPE")
    /\ ftp_uploader_set_binary_mode
    /\ UNCHANGED <<next_file, tel_own>>

\* Mutant: the file is put from where the last board left its descriptor.
lseek_missing(f) == offset[f]

\* lseek(deploy_file_list[i], 0, SEEK_SET) before every put: all boards are sent
\* the files through the same descriptors.
lseek(f) == 0

\* deploy_file_count is never 0: deployer_parse_deploy_files refuses that.
do_ftp_put_first_file ==
    /\ FtpOk("FTP_SET_TYPE") /\ Step("FTP_PUT_FILE")
    /\ next_file' = 1
    /\ ftp_uploader_put(1, lseek(1))
    /\ UNCHANGED tel_own

\* Mutant: the loop over the files goes one too far.
do_ftp_put_files_too_many ==
    /\ FtpOk("FTP_PUT_FILE") /\ Step("FTP_PUT_FILE")
    /\ next_file <= NumFiles
    /\ next_file' = next_file + 1
    /\ ftp_uploader_put(next_file + 1, 0)
    /\ UNCHANGED tel_own

do_ftp_put_next_file ==
    /\ FtpOk("FTP_PUT_FILE") /\ Step("FTP_PUT_FILE")
    /\ next_file < NumFiles
    /\ next_file' = next_file + 1
    /\ ftp_uploader_put(next_file + 1, lseek(next_file + 1))
    /\ UNCHANGED tel_own

\* Mutant: a failed put ends the session in the orderly way.
do_ftp_close_anyway ==
    /\ Returned("FTP_PUT_FILE") /\ Step("FTP_CLOSE")
    /\ ftp_uploader_close
    /\ UNCHANGED <<next_file, tel_own>>

do_ftp_close ==
    /\ FtpOk("FTP_PUT_FILE") /\ Step("FTP_CLOSE")
    /\ next_file = NumFiles
    /\ ftp_uploader_close
    /\ UNCHANGED <<next_file, tel_own>>

\* What ftp_uploader_close returned is not looked at.
do_telnet_connect ==
    /\ Returned("FTP_CLOSE") /\ Step("TELNET_CONNECT")
    /\ telnet_commander_connect(target)
    /\ UNCHANGED <<next_file, ftp_own>>

do_telnet_login ==
    /\ TelnetOk("TELNET_CONNECT") /\ Step("TELNET_LOGIN")
    /\ telnet_commander_login
    /\ UNCHANGED <<next_file, ftp_own>>

\* dlist_foreach over the command list: the first command after the login, and
\* the next one whatever the last returned, because no visit returns RET_STOP.
do_telnet_command ==
    /\ TelnetOk("TELNET_LOGIN") \/ Returned("TELNET_COMMAND")
    /\ command < Len(telnet_command_list)
    /\ Step("TELNET_COMMAND")
    /\ telnet_commander_send_one_line(command + 1)
    /\ UNCHANGED <<next_file, ftp_own>>

\* dlist_foreach returns what the last visit returned, RET_OK for an empty list.
do_telnet_close ==
    /\ TelnetOk("TELNET_COMMAND") \/ (TelnetOk("TELNET_LOGIN") /\ telnet_command_list = <<>>)
    /\ command = Len(telnet_command_list)
    /\ Step("TELNET_CLOSE")
    /\ telnet_commander_close
    /\ UNCHANGED <<next_file, ftp_own>>

TargetEnd(res, v) ==
    /\ event' = "TARGET_END" /\ result' = res
    /\ verdict' = [verdict EXCEPT ![target] = v]
    /\ UNCHANGED <<proc, fds, ftp_own, tel_own, target, next_file>>

do_one_target_ok == TelnetOk("TELNET_CLOSE") /\ TargetEnd("SUCCESS", "success")

\* fail: the step is reported as failed, and nothing is closed.
do_one_target_fail ==
    /\ \/ \E step \in FtpEvents \ {"FTP_CLOSE"} : Returned(step) /\ ftp_ret # "OK"
       \/ \E step \in TelnetEvents :
              /\ Returned(step) /\ tel_ret # "OK"
              /\ step = "TELNET_COMMAND" => command = Len(telnet_command_list)
    /\ TargetEnd("FAIL", "fail")

DeployerStep ==
    \/ do_deploy_next_target
    \/ do_ftp_login
    \/ do_ftp_set_type
    \/ do_ftp_put_first_file
    \/ do_ftp_put_next_file
    \/ do_ftp_close
    \/ do_telnet_connect
    \/ do_telnet_login
    \/ do_telnet_command
    \/ do_telnet_close
    \/ do_one_target_ok
    \/ do_one_target_fail

\* deployer_do_deploy has returned to main.
do_deploy_end ==
    /\ Returned("TARGET_END") /\ target = NumTargets
    /\ main_returns

Program ==
    \/ DeployerStep /\ UNCHANGED conf_own
    \/ (Configure \/ do_deploy_end) /\ UNCHANGED <<fds, ftp_own, tel_own, d_own>>
    \/ FtpContinue /\ UNCHANGED <<tel_own, main_own>>
    \/ TelnetContinue /\ UNCHANGED <<ftp_own, main_own>>

Boards ==
    \/ FtpServer /\ UNCHANGED <<tel_own, main_own>>
    \/ TelnetBoard /\ UNCHANGED <<ftp_own, main_own>>

Next == Program \/ Boards

Spec == DeployerInit /\ [][Next]_vars

\* The process runs when it is not blocked, and a board reads the lines it is sent.  No
\* session of a silent client lasts for ever on ftpd or at the login, which have their
\* timers; a shell has none.
Fairness ==
    /\ WF_vars(Program)
    /\ WF_vars(ServerCloses /\ UNCHANGED <<tel_own, main_own>>)
    /\ WF_vars((BoardReadsName \/ BoardReadsPassword \/ BoardRunsCommand)
                   /\ UNCHANGED <<ftp_own, main_own>>)
    /\ WF_vars(BoardCloses /\ shell # "shell" /\ UNCHANGED <<ftp_own, main_own>>)

FairSpec == Spec /\ Fairness

-----------------------------------------------------------------------------
(* Properties. *)

\* With whole replies and readable files, the program does what Deployment says:
\* boards one at a time and in order, commands in order, each after every file is
\* whole on the board, and no success unless all of it happened
\* (deployer_do_deploy, deployer_do_one_target).
D == INSTANCE Deployment WITH alive <- proc = "running" \/ stage # "deploy",
                              listed <- Len(telnet_command_list)

DeploysAsPromised == D!Spec

\* deployer_do_one_target closes nothing when it fails: each failed board costs at
\* most two descriptors, and a successful one none (deployer.c:193-196).
Leaks == 2 * Cardinality({t \in Targets : verdict[t] = "fail"})

SocketBudget == event = "TARGET_END" => Cardinality(fds) <= Leaks

\* ftp_uploader_close never meets the is_transfered flag of this or an earlier
\* board, with which it would not close the command socket (ftp_uploader.c:462-466).
CloseClosesCommandSocket == ftp_pc = "QUIT" => ~is_transfered /\ is_connected

\* The client waits for a text that it got in two parts, and the shell for a line.
Starved ==
    /\ proc = "running" /\ tel_pc \in Waits /\ tconn = "up" /\ shell = "shell"
    /\ screen = <<>> /\ lines = <<>>

\* Every board that is begun gets a verdict, unless the process dies; and in the end every
\* board has one, unless the configuration was refused.  The one other end is a prompt
\* that recv(2) cut, after which neither side goes on (telnet_commander.c:113).
EveryTargetEnds ==
    <>[](\/ proc = "dead"
         \/ stage = "exited" /\ target = 0
         \/ stage = "exited" /\ \A t \in Targets : verdict[t] \in {"success", "fail"}
         \/ Splits /\ Starved)

\* README.markdown of the deployer: each step of the upload and of the remote
\* control reports its success or failure.  So the process never ends inside a step.
EveryStepIsReported == event \in FtpEvents \cup TelnetEvents => proc = "running"
=============================================================================
