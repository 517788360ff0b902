-------------------------- MODULE TelnetCommander --------------------------
(***************************************************************************)
(* deployer/telnet_commander.c: the telnet client that logs in to a board   *)
(* and types commands, with the login program and shell of the board.       *)
(*                                                                          *)
(* The client blocks until what one recv(2) returned contains one of the    *)
(* texts it waits for.  The screen is the sequence of those texts that the  *)
(* board wrote and the client has not received; "text" is anything else,    *)
(* "IAC" a telnet negotiation that libtelnet handles while it is received.  *)
(***************************************************************************)
EXTENDS DeployProcess, SequencesExt

CONSTANTS
    NumCommands,    \* lines that the "command file" has, or may have
    Splits          \* recv(2) may cut a text in two, or bring a NUL before one

ASSUME TelnetAssumption ==
    /\ NumCommands \in Nat
    /\ Splits \in BOOLEAN

Commands == 1..NumCommands

VARIABLES
    tel_pc,         \* what the client waits for, or between calls one of Idle
    tel_ret,        \* what the last call returned
    socket,         \* TelnetCommander.socket
    telnet,         \* TelnetCommander.telnet: "uninit", "null" or "live"
    tconn,          \* connection: "none", "up", "closed" by the board
    lines,          \* lines the board has not read
    screen,         \* texts the client has not received
    shell,          \* what the board reads next: "login", "password", "shell"
    password,       \* length of the configured password: 0, 1, or 2 for more
    accepted,       \* whether the boards accept the configured account
    board,          \* the board of the session, 1 before the first
    command,        \* the last command of the session that was sent, 0 for none
    ran             \* history: the commands every board has run, in order

account == <<password, accepted>>
tel_own == <<tel_pc, tel_ret, socket, telnet, tconn, lines, screen, shell, account,
             board, command, ran>>
tel_vars == <<proc, fds, tel_own>>

\* Between calls: no session, connected, or logged in as far as the client knows.
Idle == {"idle", "connected", "ready"}
Waits == {"login", "username", "password", "command"}
Texts == {"login:", "password:", "]#", "incorrect", "text", "IAC"}
Lines == {"username", "password", "command"}

\* The type invariant of the TelnetCommander structure, its session and the boards.
TelnetTypeOK ==
    /\ ProcessTypeOK
    /\ tel_pc \in Waits \cup Idle
    /\ tel_ret \in Results
    /\ socket \in Fds \cup {NoFd}
    /\ telnet \in {"uninit", "null", "live"}
    /\ tconn \in {"none", "up", "closed"}
    /\ lines \in Seq(Lines)
    /\ screen \in Seq(Texts)
    /\ shell \in {"login", "password", "shell"}
    /\ password \in 0..2 /\ accepted \in BOOLEAN
    /\ board \in Targets
    /\ command \in Commands \cup {0}
    /\ ran \in [Targets -> Seq(Commands)]

\* The telnet pointer of a created TelnetCommander is what malloc left there.
telnet_commander_create ==
    /\ tel_pc = "idle"
    /\ tel_ret = "OK"
    /\ socket = NoFd
    /\ telnet = "uninit"

TelnetInit ==
    /\ ProcessInit
    /\ telnet_commander_create
    /\ tconn = "none" /\ shell = "login" /\ board = 1 /\ command = 0
    /\ lines = <<>> /\ screen = <<>>
    /\ password \in 0..2 /\ accepted \in BOOLEAN
    /\ ran = [t \in Targets |-> <<>>]

-----------------------------------------------------------------------------
(* What the functions are made of. *)

TelReturn(pc, ret) == tel_pc' = pc /\ tel_ret' = ret
TelWait(pc) == tel_pc' = pc /\ UNCHANGED tel_ret
TelAt(pc) == proc = "running" /\ tel_pc = pc

\* telnet_commander_send turns a failed send into exit(1), which ends the process
\* just as SIGPIPE does.
telnet_commander_send(sends) ==
    IF sends /\ tconn # "up" THEN SendToClosed ELSE UNCHANGED proc

\* Mutant: the line is sent without its end, so that the board waits for more.
TypeUnended(line) == UNCHANGED lines

\* Mutant: the line is sent twice.
TypeTwice(line) == lines' = IF tconn = "up" THEN lines \o <<line, line>> ELSE lines

Type(line) == lines' = IF tconn = "up" THEN Append(lines, line) ELSE lines

\* Mutant: the two texts of the user name are listed in the other order.
DesireListSwapped ==
    [login |-> <<"login:">>, username |-> <<"]#", "password:">>,
     password |-> <<"incorrect", "]#">>, command |-> <<"]#">>]

\* The lists of texts the functions wait for, in the order match() tries them.
DesireList == [login |-> <<"login:">>, username |-> <<"password:", "]#">>,
               password |-> <<"incorrect", "]#">>, command |-> <<"]#">>]

\* Index of the first desired text that the chunk contains, or 0.
match(chunk, desire_list) ==
    LET found == {i \in DOMAIN desire_list : Contains(chunk, desire_list[i])}
    IN  IF found = {} THEN 0 ELSE CHOOSE i \in found : \A j \in found : i <= j

\* How one recv(2) may divide the screen into the chunk it takes and the rest.
\* A text that is cut in two is recognised in neither part.
Received ==
    {[chunk |-> SubSeq(screen, 1, n), rest |-> SubSeq(screen, n + 1, Len(screen))] :
        n \in 1..Len(screen)}
    \cup
    {[chunk |-> Append(SubSeq(screen, 1, n - 1), "text"),
      rest |-> <<"text">> \o SubSeq(screen, n + 1, Len(screen))] :
        n \in {i \in 1..Len(screen) : Splits /\ screen[i] \notin {"text", "IAC"}}}

\* strstr(3) sees no more of a chunk than what is before the first NUL, which any text
\* but those waited for may have in it.
Seen(chunk) ==
    {chunk} \cup {SubSeq(chunk, 1, n) :
        n \in {i \in 1..Len(chunk) : Splits /\ chunk[i] \in {"text", "IAC"}}}

\* telnet_recv is given the chunk.  A negotiation in it may be answered by a send, be an
\* error to libtelnet, of which event_handler makes exit(1), or ask for a terminal type
\* that the environment does not have.
telnet_recv(chunk, sends) ==
    IF Contains(chunk, "IAC") THEN proc' \in {"running", "dead"}
                              ELSE telnet_commander_send(sends)

\* One turn of telnet_commander_recv_until_match in the function that waits at
\* pc: the chunk matches text i of its list (0: none) and is dropped.
telnet_commander_recv(pc, i, sends) ==
    /\ TelAt(pc)
    /\ \E part \in Received : \E seen \in Seen(part.chunk) :
          /\ i = match(seen, DesireList[pc])
          /\ screen' = part.rest
          /\ telnet_recv(part.chunk, sends)
    /\ UNCHANGED <<fds, socket, telnet, tconn, shell, account, board, command, ran>>

-----------------------------------------------------------------------------
(* The calls, and what they block on. *)

Overwritten == proc = "running" /\ tel_pc \in Idle

\* The descriptor and the libtelnet state of an unclosed session are overwritten.
\* A failure closes what there is; after a failed socket(2) that is the libtelnet
\* state of an earlier call, or a pointer nobody has set.
telnet_commander_connect(t) ==
    /\ Overwritten
    /\ \E fd \in Fds \cup {NoFd} :
          /\ NewFd(fd)
          /\ \/ /\ fd # NoFd
                /\ fds' = fds \cup {fd} /\ socket' = fd /\ telnet' = "live"
                /\ tconn' = "up" /\ screen' = <<"IAC", "text", "login:">>
                /\ TelReturn("connected", "OK")
                /\ UNCHANGED proc
             \/ /\ socket' = NoFd /\ telnet' = "null"
                /\ tconn' = "none" /\ screen' = <<>>
                /\ TelReturn("idle", "FAIL")
                /\ proc' \in {"running"} \cup
                             IF fd = NoFd /\ telnet = "uninit" THEN {"dead"} ELSE {}
                /\ UNCHANGED fds
    /\ board' = t /\ shell' = "login" /\ lines' = <<>> /\ command' = 0
    /\ UNCHANGED <<account, ran>>

\* The login waits for the first text of the board before it types anything.
telnet_commander_login ==
    /\ TelAt("connected")
    /\ TelWait("login")
    /\ UNCHANGED <<proc, fds, socket, telnet, tconn, lines, screen, shell, account, board,
                   command, ran>>

login_asked ==
    /\ telnet_commander_recv("login", 1, TRUE)
    /\ Type("username")
    /\ TelWait("username")

\* The board asks for a password: one of length 1 counts as none.
password_asked ==
    \/ /\ password = 1
       /\ telnet_commander_recv("username", 1, FALSE)
       /\ TelReturn("idle", "FAIL") /\ UNCHANGED lines
    \/ /\ password # 1
       /\ telnet_commander_recv("username", 1, TRUE)
       /\ Type("password") /\ TelWait("password")

password_not_asked ==
    /\ telnet_commander_recv("username", 2, FALSE)
    /\ TelReturn("ready", "OK") /\ UNCHANGED lines

\* Mutant: the first chunk after the password ends the wait, whatever it contains.
password_answered_by_any ==
    /\ \E i \in 0..2 : telnet_commander_recv("password", i, FALSE)
    /\ TelReturn("ready", "OK") /\ UNCHANGED lines

\* The function does not ask which of the two texts matched (match_index is not
\* passed, and keeps its -1): "incorrect" is taken for a prompt.
password_answered ==
    /\ \E i \in {1, 2} : telnet_commander_recv("password", i, FALSE)
    /\ TelReturn("ready", "OK") /\ UNCHANGED lines

telnet_commander_send_one_line(c) ==
    /\ TelAt("ready")
    /\ telnet_commander_send(TRUE)
    /\ Type("command")
    /\ command' = c
    /\ TelWait("command")
    /\ UNCHANGED <<fds, socket, telnet, tconn, screen, shell, account, board, ran>>

prompt_after_command ==
    /\ telnet_commander_recv("command", 1, FALSE)
    /\ TelReturn("ready", "OK") /\ UNCHANGED lines

no_match ==
    /\ \E pc \in Waits : telnet_commander_recv(pc, 0, FALSE)
    /\ UNCHANGED <<tel_pc, tel_ret, lines>>

\* Mutant: the end of the stream is not told from an empty chunk.
recv_closed_retries ==
    /\ proc = "running" /\ tel_pc \in Waits
    /\ screen = <<>> /\ tconn = "closed"
    /\ UNCHANGED tel_vars

\* The end of the stream: the call fails, and leaves the session as it is.
recv_closed ==
    /\ proc = "running" /\ tel_pc \in Waits
    /\ screen = <<>> /\ tconn = "closed"
    /\ TelReturn(IF tel_pc = "command" THEN "ready" ELSE "idle", "FAIL")
    /\ UNCHANGED <<proc, fds, socket, telnet, tconn, lines, screen, shell, account, board,
                   command, ran>>

telnet_commander_close ==
    /\ Overwritten /\ telnet # "uninit"
    /\ fds' = fds \ {socket} /\ socket' = NoFd
    /\ telnet' = "null"
    /\ tconn' = "none" /\ lines' = <<>> /\ screen' = <<>>
    /\ TelReturn("idle", "OK")
    /\ UNCHANGED <<proc, shell, account, board, command, ran>>

-----------------------------------------------------------------------------
(* The board: its login program and its shell, as far as the client can tell. *)

BoardWrites(texts) == screen' = screen \o texts

BoardReads(at) ==
    /\ proc = "running" /\ tconn = "up" /\ shell = at /\ lines # <<>>
    /\ lines' = Tail(lines)
    /\ UNCHANGED <<proc, fds, tel_pc, tel_ret, socket, telnet, tconn, account, board, command>>

\* Any line at the login prompt is a user name; an account may have no password.
BoardReadsName ==
    /\ BoardReads("login")
    /\ \/ shell' = "password" /\ BoardWrites(<<"password:">>)
       \/ /\ accepted /\ Head(lines) = "username"
          /\ shell' = "shell" /\ BoardWrites(<<"text", "]#">>)
    /\ UNCHANGED ran

BoardReadsPassword ==
    /\ BoardReads("password")
    /\ IF accepted /\ Head(lines) = "password"
       THEN shell' = "shell" /\ BoardWrites(<<"text", "]#">>)
       ELSE shell' = "login" /\ BoardWrites(<<"incorrect", "login:">>)
    /\ UNCHANGED ran

BoardRunsCommand ==
    /\ BoardReads("shell")
    /\ ran' = [ran EXCEPT ![board] = Append(@, command)]
    /\ BoardWrites(<<"text", "]#">>)
    /\ UNCHANGED shell

\* The board ends the session: login timeout, reboot, network.
BoardCloses ==
    /\ proc = "running" /\ tconn = "up"
    /\ tconn' = "closed" /\ lines' = <<>>
    /\ UNCHANGED <<proc, fds, tel_pc, tel_ret, socket, telnet, screen, shell, account,
                   board, command, ran>>

-----------------------------------------------------------------------------
(* Specification: a caller that deploys a board once, its commands in order. *)

NotDeployed(t) == ran[t] = <<>>     \* bound: no new session with a board that ran one

TelnetCall ==
    \/ \E t \in Targets : NotDeployed(t) /\ telnet_commander_connect(t)
    \/ telnet_commander_login
    \/ \E c \in Commands : c = command + 1 /\ telnet_commander_send_one_line(c)
    \/ telnet_commander_close

TelnetContinue ==
    \/ login_asked
    \/ password_asked
    \/ password_not_asked
    \/ password_answered
    \/ prompt_after_command
    \/ no_match
    \/ recv_closed

TelnetBoard ==
    \/ BoardReadsName
    \/ BoardReadsPassword
    \/ BoardRunsCommand
    \/ BoardCloses

TelnetNext == TelnetCall \/ TelnetContinue \/ TelnetBoard

TelnetSpec == TelnetInit /\ [][TelnetNext]_tel_vars

\* The client runs when it is not blocked; the board reads what it is sent.
TelnetFairness ==
    /\ WF_tel_vars(TelnetContinue)
    /\ WF_tel_vars(BoardReadsName \/ BoardReadsPassword \/ BoardRunsCommand)

TelnetFairSpec == TelnetSpec /\ TelnetFairness

-----------------------------------------------------------------------------
(* Properties. *)

\* telnet_commander_send_one_line returns RET_OK only for the command that the
\* board has just run: the prompt it met was not left over from an earlier step,
\* however the stream was cut.
PromptMeansRan ==
    [][tel_pc = "command" /\ tel_pc' = "ready" /\ tel_ret' = "OK"
          => ran[board] # <<>> /\ Last(ran[board]) = command]_tel_vars

\* A telnet_commander_login that returns RET_OK has reached a shell.
LoginMeansShell == tel_pc = "ready" /\ tel_ret = "OK" => shell = "shell"

\* The same for an account that the board accepts.
AcceptedLoginMeansShell == accepted => LoginMeansShell

\* The client and the board never wait for each other, if the account is good and
\* no text is cut: each waits only while the other has something to read.
NoMutualWait ==
    accepted /\ ~Splits /\ proc = "running" /\ tel_pc \in Waits
        => screen # <<>> \/ lines # <<>> \/ tconn # "up"

\* So that every call returns, or the process dies, with no timeout anywhere.
TelnetCallsReturn == (accepted /\ tel_pc \in Waits) ~> (tel_pc \in Idle \/ proc = "dead")
=============================================================================
