--------------------------- MODULE DeployerConfig ---------------------------
(***************************************************************************)
(* deployer/main.c and the first half of deployer/deployer.c: the Deployer  *)
(* is created, filled from the configuration file and destroyed.  What the  *)
(* boards and files are called is no matter here; the file of commands is   *)
(* read character by character.                                             *)
(***************************************************************************)
EXTENDS FtpUploader, TelnetCommander

CONSTANT CommandFiles   \* contents of the "command file", as sequences of Characters

\* A visible character, a newline, and the byte 255, which is EOF once it is a char.
Characters == {"x", "nl", "ff"}

\* text[i] to text[j - 1] are a line: a newline, or the end of the text, is at j.
IsLine(text, i, j) ==
    /\ i < j /\ \A k \in i..(j - 1) : text[k] # "nl"
    /\ i = 1 \/ text[i - 1] = "nl"
    /\ j = Len(text) + 1 \/ text[j] = "nl"

LineEnds(text, n) == {j \in 1..n : \E i \in 1..j : IsLine(text, i, j)}
LineTo(text, j) == SubSeq(text, CHOOSE i \in 1..j : IsLine(text, i, j), j - 1)

\* The k-th of them.
NthEnd(ends, k) == CHOOSE j \in ends : Cardinality({e \in ends : e <= j}) = k

\* The lines that end in the first n characters.
LinesRead(text, n) ==
    [k \in 1..Cardinality(LineEnds(text, n)) |-> LineTo(text, NthEnd(LineEnds(text, n), k))]

\* The commands of a file: one line is one command (README.markdown of the deployer), the
\* last one too, but not an empty one.
CommandLines(text) == LinesRead(text, Len(text) + 1)

\* Text that a newline ends, as editors write it, and without a byte 255.
Plain(text) ==
    /\ text = <<>> \/ Last(text) = "nl"
    /\ \A k \in DOMAIN text : text[k] # "ff"

\* The boards may have to run that many.
ASSUME ConfigAssumption ==
    /\ CommandFiles \subseteq Seq(Characters)
    /\ \A text \in CommandFiles : Len(CommandLines(text)) <= NumCommands

VARIABLES
    stage,                  \* how far main has come
    deployer,               \* the Deployer on the heap
    deploy_file_list,       \* the files that are open
    command_file,           \* what the open command file has, until it is of no matter
    position,               \* how many characters of it are read
    buffer,                 \* the line that is read
    telnet_command_list,
    append_failed           \* history: a dlist_append has found no memory

conf_own == <<stage, deployer, deploy_file_list, command_file, position, buffer,
              telnet_command_list, append_failed>>

Stages == {"create", "init", "ftp", "telnet", "command_file", "targets", "files",
           "deploy", "failed", "exited"}

ConfigTypeOK ==
    /\ stage \in Stages
    /\ deployer \in {"none", "live", "freed", "freed twice"}
    /\ deploy_file_list \subseteq Files
    /\ command_file \in CommandFiles \cup {<<>>}
    /\ position \in 0..Len(command_file)
    /\ buffer \in Seq(Characters) /\ telnet_command_list \in Seq(Seq(Characters))
    /\ append_failed \in BOOLEAN

ConfigInit ==
    /\ stage = "create" /\ deployer = "none"
    /\ deploy_file_list = {}
    /\ command_file \in CommandFiles /\ position = 0
    /\ buffer = <<>> /\ telnet_command_list = <<>> /\ append_failed = FALSE

reading == <<command_file, position, buffer, append_failed>>

-----------------------------------------------------------------------------
(* deployer_create and deployer_destroy. *)

InStage(s) == proc = "running" /\ stage = s

Goto(s) == stage' = s

\* free(3) and close(2) of all that is held.  ftp_uploader is set to NULL by the first
\* SAFE_FREE, so that ftp_uploader_destroy is not called: it would only free it.
deployer_destroy ==
    /\ deployer' = IF deployer = "live" THEN "freed" ELSE "freed twice"
    /\ deploy_file_list' = {}
    /\ telnet_command_list' = <<>>

deployer_create ==
    /\ InStage("create") /\ Goto("init")
    /\ deployer' = "live"
    /\ UNCHANGED <<proc, deploy_file_list, reading, telnet_command_list>>

\* No memory for the Deployer, or for a part of it: then what is not set yet is freed
\* and closed for what malloc(3) left there.
deployer_create_fails ==
    /\ InStage("create") /\ Goto("exited")
    /\ \/ UNCHANGED <<proc, deployer>>
       \/ deployer' = "freed" /\ proc' \in {"running", "dead"}
    /\ UNCHANGED <<deploy_file_list, reading, telnet_command_list>>

-----------------------------------------------------------------------------
(* deployer_init. *)

\* The file cannot be opened or is no JSON: the Deployer is not destroyed.
deployer_init_fails ==
    /\ InStage("init") /\ Goto("failed")
    /\ UNCHANGED <<proc, deployer, deploy_file_list, reading, telnet_command_list>>

\* A part of the configuration is missing: deployer_parse_config_file destroys.
parse_fails ==
    /\ \E s \in {"ftp", "telnet", "targets", "files"} : InStage(s)
    /\ Goto("failed")
    /\ deployer_destroy
    /\ UNCHANGED <<proc, reading>>

\* An item is there and is no string: strdup(NULL); in "deploy files" open(NULL) fails.
\* Or the password, which may be missing, is missing: it is printed all the same.
parse_crashes ==
    /\ \E s \in {"ftp", "telnet", "targets"} : InStage(s)
    /\ proc' = "dead"
    /\ UNCHANGED conf_own

Parsed(s, next) ==
    /\ InStage(s) /\ Goto(next)
    /\ UNCHANGED <<proc, deployer, deploy_file_list, reading, telnet_command_list>>

open_config_file == Parsed("init", "ftp")
deployer_parse_ftp == Parsed("ftp", "telnet")

\* User, password and the opening of the command file, which is never closed.
deployer_parse_telnet == Parsed("telnet", "command_file")
deployer_parse_deploy_targets == Parsed("targets", "files")

\* fgetc into a char.
NextChar == IF position = Len(command_file) THEN "ff" ELSE command_file[position + 1]

command_file_end ==
    /\ InStage("command_file") /\ NextChar = "ff"
    /\ Goto("targets")
    /\ UNCHANGED <<proc, deployer, deploy_file_list, reading, telnet_command_list>>

\* Mutant: the index is reset only by a command.
command_newline_always ==
    /\ buffer' = <<>>
    /\ telnet_command_list' = Append(telnet_command_list, buffer)
    /\ UNCHANGED append_failed

\* The end of a line: CR LF is added to a command, which is no matter here.  What
\* dlist_append returns is not looked at: without memory the command is not in the list.
\* (strdup(3) is taken to have memory.)
command_newline ==
    /\ buffer' = <<>>
    /\ \/ buffer = <<>> /\ UNCHANGED <<telnet_command_list, append_failed>>
       \/ /\ buffer # <<>>
          /\ telnet_command_list' = Append(telnet_command_list, buffer)
          /\ UNCHANGED append_failed
       \/ /\ buffer # <<>>
          /\ append_failed' = TRUE
          /\ UNCHANGED telnet_command_list

command_char ==
    /\ InStage("command_file") /\ NextChar # "ff"
    /\ position' = position + 1
    /\ \/ NextChar = "nl" /\ command_newline
       \/ /\ NextChar # "nl"
          /\ buffer' = Append(buffer, NextChar)
          /\ UNCHANGED <<telnet_command_list, append_failed>>
    /\ UNCHANGED <<proc, stage, deployer, deploy_file_list, command_file>>

\* The next file is opened; parse_fails is where it cannot be.
deployer_parse_deploy_files ==
    /\ InStage("files") /\ deploy_file_list # Files
    /\ deploy_file_list' = deploy_file_list \cup {Cardinality(deploy_file_list) + 1}
    /\ UNCHANGED <<proc, stage, deployer, reading, telnet_command_list>>

\* The configuration is read.  What was left of the command file is forgotten here.
deployer_init ==
    /\ InStage("files") /\ deploy_file_list = Files
    /\ Goto("deploy")
    /\ command_file' = <<>> /\ position' = 0 /\ buffer' = <<>> /\ append_failed' = FALSE
    /\ UNCHANGED <<proc, deployer, deploy_file_list, telnet_command_list>>

-----------------------------------------------------------------------------
(* main. *)

\* Mutant: what was created is destroyed after a failure too.
main_fails_destroys ==
    /\ InStage("failed") /\ Goto("exited")
    /\ deployer_destroy
    /\ UNCHANGED <<proc, reading>>

\* exit(EXIT_FAILURE).
main_fails ==
    /\ InStage("failed") /\ Goto("exited")
    /\ UNCHANGED <<proc, deployer, deploy_file_list, reading, telnet_command_list>>

\* After deployer_do_deploy.  Sockets that are still open go with the process.
main_returns ==
    /\ InStage("deploy") /\ Goto("exited")
    /\ deployer_destroy
    /\ UNCHANGED <<proc, reading>>

Configure ==
    \/ deployer_create
    \/ deployer_create_fails
    \/ deployer_init_fails
    \/ open_config_file
    \/ deployer_parse_ftp
    \/ deployer_parse_telnet
    \/ command_char
    \/ command_file_end
    \/ deployer_parse_deploy_targets
    \/ deployer_parse_deploy_files
    \/ deployer_init
    \/ parse_fails
    \/ parse_crashes
    \/ main_fails

-----------------------------------------------------------------------------
(* Properties. *)

\* Every command in the list is a whole line of the file: no part of one, and no two joined.
\* They are in the order of the file, and none but the last ones is missing if there was
\* memory.  None is missing of a file that a newline ends and that has no byte 255; else
\* the last line, or all from the byte 255 on, is no command, although README.markdown
\* of the deployer makes every line one (deployer.c:279-308).
CommandsAsWritten ==
    stage \in {"targets", "files"} =>
        /\ Len(telnet_command_list) <= Len(CommandLines(command_file))
        /\ \A k \in DOMAIN telnet_command_list :
               Contains(CommandLines(command_file), telnet_command_list[k])
        /\ ~append_failed => IsPrefix(telnet_command_list, CommandLines(command_file))
        /\ ~append_failed /\ Plain(command_file)
               => telnet_command_list = CommandLines(command_file)

\* However the configuration fails, the Deployer is destroyed once at most, with all
\* files closed; and boards are contacted only with a whole configuration in a live one
\* (deployer.c:438-441, 506-570; main.c:101-108).
DestroyedOnce ==
    /\ deployer # "freed twice"
    /\ deployer = "freed" =>
           /\ stage \in {"failed", "exited"}
           /\ deploy_file_list = {} /\ telnet_command_list = <<>>
    /\ stage = "deploy" =>
           /\ deployer = "live" /\ deploy_file_list = Files
           /\ Len(telnet_command_list) <= NumCommands
    /\ fds # {} => stage \in {"deploy", "exited"}
=============================================================================
