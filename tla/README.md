# A formal model of the OINT test platform tools

TLA+ modules, TLC configurations and TLAPS proofs about the programs of this
repository. Line numbers refer to the files under `src/`.

## 1. The system

The repository holds two programs and what they share.

**The deployer** (`deployer/`, complete, runs on a PC) reads a JSON file that names
boards, files and a command file. It takes the boards in turn. For each it opens
an FTP session, logs in, sets binary mode, uploads every file, closes; then it opens
a telnet session, logs in, types every command and waits for the prompt after each,
closes. A failed step ends the board, not the run. It has one thread and no timeout.

**The Board Agent** (`app/`, half written, runs on the ARM board) accepts one
connection at a time on two ports: commands for the nodes behind an FPGA, whose
responses it reassembles and sends back, and hex files to reprogram a node.
`reprogrammer.c` does not compile as it stands (line 79 writes `ret` and
`reprogrammer` for `Ret` and `Reprogrammer`), its programming steps return at once, and
the response loop of `packet_transfer.c` is commented out; section 2 says how each is
taken.

**libtelnet** (`deployer/lib/libtelnet/`) is vendored, and is modelled because the
deployer's telnet session is only as good as its parser and its negotiation.

| Component | State | Operations | Interacts by | Hard behaviour | What makes it correct |
|---|---|---|---|---|---|
| Deployer `deployer.c` | event context, loops over boards and files | `deployer_do_deploy`, `deployer_do_one_target` | calls, shared descriptors, callback | failure at any step, files and flags shared by all boards, descriptor loss | boards in order, commands only after all files, honest verdicts, every board gets one |
| FTP uploader `ftp_uploader.c` | two sockets, two flags, one response buffer | create, connect, login, set_binary_mode, put, close | TCP with the board's FTP server | replies cut, coalesced, late; server that aborts or closes; SIGPIPE | each reply answers its request; RET_OK of a put means the file is whole |
| Telnet commander `telnet_commander.c` | socket, libtelnet state | create, connect, login, send_one_line, close | TCP with telnetd, libtelnet callback | chunks cut anywhere, left-over prompts, mutual waiting | login means shell, RET_OK means the command ran |
| Configuration `deployer_parse_*` | lists and counts of Deployer, open files | create, init, five parse functions, destroy | cJSON, files, main | blank and last lines, byte 255, no memory, failure half way, who destroys | only whole lines of the file become commands, in order; destroyed once |
| libtelnet | parser state, buffer, a state per option and side | recv, senders, negotiate | event handler, TCP | chunks cut anywhere, crossing requests, full buffer | every message seen once and in order; the ends agree on options |
| DList `common/dlist.c` | head, length, linked nodes | insert, delete, get, set, find, foreach | called by deployer and PacketTransfer | empty list, index at the length, length counted early | implements a sequence |
| Main loop `app/main.c` | two listening sockets | select, accept, dispatch | blocks in the handlers | one port starves the other | both kinds of client are served |
| PacketTransfer `packet_transfer.c` | command set per node, response, reassembly state | process, one command, one response, reset | TCP, GatherBoard, DList | short reads, unchecked nodes, ports and lengths, stale reassembly state | packets are reassembled; a response removes one command, the oldest of the type looked for |
| Reprogrammer `reprogrammer.c` | hex file, socket | process, receive_hex_file | TCP, HexParser | partial and overlong files, streams never closed | the whole file before programming |
| GatherBoard, GPIO driver | device descriptors, lines | LED, current switch, FPGA reset; ioctl, init, exit | ioctl | inverted guards, init without rollback | lines set as asked, all released |
| Hex parser, Pcap, Serial, util, Logger | little | per line, per packet | files | checksums, escaping | round trips |

`PROJECT.json` lists every component with its status and every hazard with its line.

## 2. Modules

```
DeployProcess      the process, its descriptors, the boards       (shared state)
  FtpUploader        ftp_uploader.c and the board's FTP server
  TelnetCommander    telnet_commander.c and the board's shell
    DeployerConfig     main.c and deployer.c: create, init, destroy
      Deployer           deployer.c: all of them, in the order of the program
Deployment         the abstract specification that Deployer implements
DataList           the abstract specification of a list
  DList              dlist.c: nodes on the heap, implements DataList
AgentProcess       the one thread of the Board Agent              (shared state)
  PacketTransfer     packet_transfer.c, the uploader and the FPGA board
  Reprogrammer       reprogrammer.c and its client
    BoardAgent         main.c: both, behind one select
TelnetOption       libtelnet.c: the states of one option, as operators
  LibTelnet          libtelnet.c: parser and senders, as operators on telnet_t
    TelnetPeers        two ends with libtelnet and the bytes between them
*Proofs            theorems about FtpUploader, TelnetCommander, Deployer and its
                   configuration, DList, PacketTransfer, BoardAgent, TelnetPeers
MC*                instances for TLC
```

**DeployProcess.** `proc` is whether the process still runs: a `write` or `send` to a
connection that the peer has closed may end it, because nothing ignores SIGPIPE and
`telnet_commander_send` calls `exit(1)`. `fds` are the open sockets; `socket(2)` takes
the lowest free descriptor and fails when `MaxFds` are open. After the process has
died nothing more is modelled.

**FtpUploader.** Each function is a call action, which sends the first request, and
one action per blocking read: `ftp_pc` is the request whose reply the client awaits
(`put` also has the state `SENDING` of its loop). The action named for a read does all
that follows up to the next read or the return. A call is made when none is in
progress, the caller being arbitrary in this module. `requests` are the requests the
server has not answered and `replies` the segments the client has not read; one read
takes any number of them and looks at the first only, as
`ftp_uploader_read_response` does. With `Fragmented`, a reply may take two reads:
TCP cut it, or it is longer than RESP_BUFFER_SIZE (100 bytes). The second part may begin
with any digit, hence be of any class; the bound `MaxUnread` is the number of unread
segments with which no further reply is cut. With `ReadErrors`,
`read(2)` of a deploy file may fail. The server, which is not in the repository, may
refuse any request, fail a transfer at any time, and close at any time with or
without a last 421. A file is `FileLen` blocks; `received` counts those on the data
connection, `stored` the files each board has whole, `uploaded` those whose last put
returned RET_OK. The PASV parser is abstracted to whether the address is in what was
read. When it is not, or may be cut, the C code reads on past the end of the string, into
what an earlier and longer reply left in the buffer: it finds a stale or a mixed address
(at which nothing takes the blocks or something does, be it the right port by chance),
returns RET_OOM, or ends the process.

**TelnetCommander.** The screen is the sequence of texts the board wrote and the client
has not received; `Received` is every way one `recv(2)` may divide it. A chunk is
matched alone and then dropped. With `Splits` a text may be cut in two, and is then
recognised in neither part, or have a NUL in it, behind which `strstr` sees nothing
(`Seen`). A negotiation in the chunk may be answered by a send, or end the process: a
`TELNET_EV_ERROR` makes `event_handler` call `exit(1)`, and it passes a NULL `TERM` on
(`telnet_recv`). The account is chosen at the start: password of length 0,
1 or more (the code treats length 1 as none, line 257), accepted by the boards or
not. `ran` is what every board's shell has run.

**Deployer.** `event` is the step in progress. An action of the deployer waits until
the call of that step has returned, looks at the result as the code does, and makes
the next call: the conjunction with the component's action is one step, because no
blocking operation lies between the two. `do_ftp_close` is followed by the telnet
connection whatever it returned; `dlist_foreach` goes on after a failed command.
Failure leads to `do_one_target_fail`, which closes nothing.

**DeployerConfig.** `stage` is how far `main` has come, `deployer` what became of the
structure it holds. The text of the JSON file is not modelled: each parse function may
succeed, return RET_FAIL, or die where it passes NULL to `strdup` or prints a password
that is missing (the Makefile defines `_DEBUG`). The command file is read character by
character into `buffer` and `telnet_command_list`; its contents are given by the
constant `CommandFiles`. A `dlist_append` may find no memory, which nothing looks at
(`deployer.c:298`): the command is then not in the list, and the history variable
`append_failed` tells. `CommandLines` is the reference definition of what the commands of a
text are, after `deployer/README.markdown:60`: every line that is not empty (`IsLine`), the
last one too if no newline ends it, whatever bytes are in it. Only `CommandsAsWritten` and
an assumption use it. `Plain` texts end with a newline and have no byte 255. A failure of
the parsing destroys the Deployer, a failure before it does not, and `main` exits after
either. A `deployer_create` that fails half way destroys a structure whose later fields
hold what malloc(3) left there: it may die of it.

**Deployment.** What the deployer promises to its user: boards one at a time and in
order, commands in order and only while every file is whole on the board, success only
if all commands ran. How many commands there are, `listed`, is set before the first board.
The refinement maps `alive` to `proc = "running" \/ stage # "deploy"`, `listed` to the
length of `telnet_command_list`, and the other variables to those of the same name.

**DataList and DList.** `DataList` is a sequence on which each call takes effect at once
and returns a result. `DList` has the nodes with `prev`, `next` and `data`, and one
action per pass of a loop: `pc` is the call in progress, `iter` and `index` the loop
variables (those of `dlist_get_node` for insert, delete, set and get), `arg` the
arguments and locals. `order` is a history variable that no guard reads, the nodes the
links should join. Between the calls of a walk nothing else runs: one thread, and no
callback of this list that calls it again. `live` are the data that were handed over
and that `dlist_node_destroy` has not destroyed; a datum is handed over once at a time,
as the callers in the repository do. Two things the code does are left open in
`DataList` because a caller should not count on them: an insertion at the index that
equals the length goes before the last datum (`dlist_insert` has already counted the
new one), and an index of an empty list reads through a null pointer (`dead`).

**PacketTransfer.** A command travels as four units, two for its length and two for its
packet, because the code reads each with one `read(2)` that may return less. Nothing in it
is checked, so `Commands` may name any node (`port_id` is the byte of the packet less one)
and have any length, of which four matter (`Sizes`): none, which `read` answers as it
answers the end of the stream; one that ends before the type of the packet; one that fits;
and more than the 50 bytes there are. `header` is the length that was read: `<<>>` if its
bytes are not those of one command, and from then on every packet is
`read_packet_misread`, which may be any command. `handle_command` keeps every command but
the power switch: the `switch` of `packet_transfer.c:91` has no `break`, so the query of
the current waits too.

Of the 16 bytes of a piece the model has what the code looks at: kind, port, position in
its packet, whether it is the last, and whether the parity fits. The port may be anything
that its four bits can say (`BoardPorts`). The board sends the pieces of a packet in order,
may give one up, and may put a current between. (A current carries the constant 0x11 where
a data piece has its parity, so the even check passes only some: `ok` is free.) `response`
is the packet under assembly: its `type` is the parity byte of the first piece
(`Parities`), which is what `packet_transfer.c:340` reads; `len` counts the pieces joined,
as the code does without a bound (`MaxJoined` is the bound of the instance); `of` is the
node whose packet begins with just these. `packet_state` is the function's static
variable. `wild` is a history of memory used that is not the program's to use: a list
looked up behind `command_set`, bytes past `node_packet` or past the command. From then on
the process may end at any time (`wild_shows`) or go on; what else foreign memory may
change is not modelled, and the properties speak of a process that has used none.
`PtNext` makes the calls of the loop that stands in a comment
(`packet_transfer.c:441-457`) between two commands, as the comment asks for with
`select`; `BoardAgent` does not have them. `send_response` writes to the uploader and may
die of SIGPIPE. The LED calls of `handle_response` change nothing.

**Reprogrammer.** The command is two units; of the file the client sends as much as it
announced, less, or up to `MaxExtra` units more. `ToInt` is the conversion of the
`uint32_t` length to the parameter of type `int`, with `LenModulus` for 2^32. A short read
of the command goes unnoticed: the rest is what the stack held, any prefix and any length.
`hex_fd` holds a FILE pointer that is given to `write(2)` and `close(2)`: nothing reaches
the file and nothing closes it, although `hex_fd` is -1 afterwards. `streams` counts these,
until `fopen` fails; then NULL, which is not -1 either, has the exit close descriptor 0.
The programming steps begin with `return_val_if_fail(thiz != thiz)` and are left out.

**BoardAgent.** `pc` is where the one thread is: at `select`, or at a `read` of a
handler that may block. A handler runs to its end before the next `select`; the command
port is looked at first. `accept` may fail, which ends the program through an exit path
that reads a GatherBoard at address 1.

**TelnetOption, LibTelnet.** A `telnet_t` is a record, and each function of `libtelnet.c`
an operator from record to record: `process_byte` is one turn of the loop of `_process`,
`telnet_recv` a whole chunk with the events it raises and the bytes it sends. `q` is a
function of the options of which something was set; `get_rfc1143` and `set_rfc1143` look
an option up in it and set one side of it, as the scans of the array do. The tables
of `TelnetOption` are the RFC 1143 states, one table for each verb received and for each
request of the user. The parsers of ENVIRON, MSSP, ZMP and TTYPE are given by positions
of their marks rather than by loops. A byte is a number, since what escaping does to 255,
13 and 10 is what the properties are about.

**TelnetPeers.** The commander and a board whose server also uses libtelnet, joined by
one sequence of bytes in each direction. `recv(2)` takes any number of them. What a user
sends is given by `Calls`: the bytes of a sender, and the events `promised` for them,
which is the reference for the parser. `owed` and `garbled` are histories that compare
the events raised with those promised; `wish` is what each user last asked for, and
`AsAsked` what an option may come to rest at, given the tables and the wishes of its two
ends. `lost` are the options whose DO was noted in WANTNO_OP and never sent.

## 3. Runs

| Run | Instance | What it shows |
|---|---|---|
| `ftp` | 2 boards, 1 file of 2 blocks, 3 descriptors, whole replies | `RepliesMatchRequest`, `UploadedMeansStored`, the inductive `FtpInvariant`; `CallsReturn` under fairness |
| `telnet` | 2 boards, 2 commands, 3 descriptors, whole texts | `AcceptedLoginMeansShell`, `NoMutualWait`, `PromptMeansRan`; `TelnetCallsReturn` |
| `deploy` | 3 boards, 2 files, 2 or 3 lines in three files of commands, 5 descriptors, cut texts | `DeploysAsPromised` (refinement of `Deployment`), `SocketBudget`, `CloseClosesCommandSocket`, `CommandsAsWritten`, `DestroyedOnce`; `EveryTargetEnds`, save where a cut prompt is waited for |
| `deploy_fragmented` | 1 board, 1 file, no command, replies cut anywhere, read errors, whole texts | `SocketBudget` and `EveryTargetEnds` do not depend on how FTP replies are cut |
| `dlist` | 3 nodes, 4 data | `ImplementsDataList` (refinement), `Linked`, `HeapOwned`, the inductive `DListInvariant`; `ListCallsReturn` under fairness |
| `packet_transfer` | 2 nodes, ports 0 to 2, 6 commands of which 2 are kept at a time, 1 type and a parity that is another, packets of 2 or 3 pieces | `ResponsesWhole`, `ReportsSurvived`, `AnswerRemovesOldest`, with the response loop |
| `board_agent` | 2 nodes, 5 commands, files of up to 7 units and 2 more with reads of 2, lengths modulo 8, 2 streams | `OnlyStreamsStay`, `FileAcceptedWhole`, `AgentSurvives`; `CommandPortServed`, `ReprogramPortServed` |
| `telnet_peers` | 1 option, 3 calls (2 messages, 3 requests at most), reads of up to 3 bytes, a buffer of 6 | `DeliveredInOrder`, `SettledAgree`, `SettledAsAsked`; `NegotiationEnds` |
| `ftp_fragmented` | 1 board, cut replies | violation: `TransferEndsOn2xx`, from the comment at `ftp_uploader.c:439` |
| `ftp_read_errors` | 1 board, read errors | violation: `SuccessMeansStored`: a truncated upload is a success |
| `telnet_refused` | 1 board | violation: `LoginMeansShell`: a refused password is a success |
| `deploy_killed` | 1 board | violation: `EveryStepIsReported`, from `deployer/README.markdown:16` |

Why the bounds are enough. State that outlives a board (flags, descriptors, file
positions) is carried from one board to the next and to the one after, so two boards
show a first carry and three a second. Five descriptors let two failed boards (two
descriptors each) leave the third short, so that `socket(2)` fails for both protocols;
three do the same for the single components. Two files and two commands distinguish
first, next and last. Two blocks distinguish a transfer that is lost before, in the
middle and after. `NotDeployed` in TelnetCommander bounds its arbitrary caller: no new
session with a board that has run a command. Three nodes are a first, a middle and a
last one, and malloc fails for the fourth; four data leave one to replace another with
when the list is full; indices go past the length and include (size_t)-1. The files of
commands have blank lines, a last line without a newline and a byte 255.

Three lines make the third one the line that is no command. In `deploy_fragmented` one
file and one board are enough, because there the question is what one put makes of a cut
reply; a reply is cut only while fewer than `MaxUnread` = 2 segments are unread.

Packets of three pieces have a first, a middle and a last one; a packet that loses its
last piece and is joined with the next exceeds the room for three, and `MaxJoined` = 4
lets it. Two nodes are enough for a piece of the wrong one, the third port for one without
a node, two commands for an older and a newer one of a type; the parity 25 stands for the
type 57, so that of two commands kept the one looked for may be either, or none.
`MaxCommands` bounds the commands in flight or kept, `MaxUnread` the units unread with
which no other is sent: the code bounds neither. With reads of two units, files of three
and more take several reads, and the last may take more than announced, as one unit more
does; lengths of 4 to 7 are negative as an int. A second stream is the last one, so that
`fopen` fails for want of descriptors too. A buffer of six bytes holds
every subnegotiation of `MCTelnetPeers` but one, which runs over it on an ordinary byte
and on an IAC; reads of one to three bytes cut a command of three bytes everywhere. Three
requests on one option are the fewest that bring both ends to the states with `_OP`, and
let the lost DO of `libtelnet.c:405` happen. One side of the option is supported at both
ends and the other at one only, so that a user may ask for what its own table lacks.

Deadlock is not checked because each of these systems may stop: the process dies, the
last board is done, the list is destroyed, nothing more is sent.

Each property of a passing run is also checked against a mutation of the model (the
operators whose comment begins with `Mutant`), which breaks it.

## 4. Fairness

The program has one thread: weak fairness of its next step says only that the
operating system runs it when it is not blocked. The server need not answer; that a
blocked read ends nevertheless rests on the session timers of ftpd and of the login
program (`ServerCloses`, and `BoardCloses` before there is a shell), since the code has no
timeout of its own. A shell has no timer, and none is assumed: what it does is read the
lines it is sent. `EveryTargetEnds` therefore has an exception, `Starved`: `recv(2)` cut
the prompt, neither part matched, and client and shell wait for each other for ever
(`telnet_commander.c:113`). Without it TLC finds just that. The property also allows the
process to die. In `TelnetFairness` too the board reads its input, which shows that no
timer is needed if the account is good and texts are whole. One read of FTP may take the
150 and a 4xx together; the client then waits for a reply it has already read until the
idle timer ends the session. `DListFairSpec` is fair to the passes of a call in progress
only: no caller need call.

In `BoardAgent` the thread is treated alike (`main`, `UploaderCommands`, `Reprogram`),
and every client of the agent closes in the end. The code does not guarantee the latter,
it has no timeout: `CommandPortServed` and `ReprogramPortServed` say that nothing but
the clients keeps a client waiting, and `ReprogramPortServed` that those of the command
port must also cease to come; a client that stays silent for ever blocks both ports.
Neither speaks of an agent that has used foreign memory. In `TelnetPeers` each end goes
on reading while there is something to read (`ReadsOn`, which is weak fairness of
`Receive` with its ENABLED written out); the users need not do anything.

## 5. Proofs

`FtpUploaderProofs` proves for every number of boards, files, blocks and descriptors:

* `TypeCorrect`: `FtpSpec => []FtpTypeOK`, whatever `Fragmented` and `ReadErrors` are;
* `InvariantCorrect`: `FtpSpec => []FtpInvariant`;
* `RepliesMatch` and `UploadedIsStored`: `FtpSpec => []RepliesMatchRequest` and
  `FtpSpec => []UploadedMeansStored`.

The assumptions are those named in the modules: at least one board, file and
descriptor, a natural block count. The two properties are conditional as in the code:
they speak of whole replies, the second also of readable files; the violation runs show
that neither condition can be dropped.

The argument. `RepliesMatchRequest` is not inductive: that the next read returns the
right reply needs that at most one request is open. `ProtocolInv` adds this
(`OneRequest`), where in the queue each kind of reply can be (`RepliesInOrder`: the
notice of a closing server comes last, and the end of a transfer can come before its
beginning has been read), and that a transfer only follows a 1xx to STOR
(`TransferWasBegun`). `TransferInv` says that what the server received is what lies
before the file position, so that a data connection ended by the client was ended at
the end of the file; it needs the rewind that the caller does. Both are kept by the
calls, the continuations and the server, one lemma each. No invariant is needed about
descriptors for these.

`TelnetCommanderProofs` proves for every number of boards, commands and descriptors, and
with `Splits` true or false where the property does not say which:

* `TelnetTypeCorrect`: `TelnetSpec => []TelnetTypeOK`;
* `AcceptedLogins`, `NeverBothWait`: `[]AcceptedLoginMeansShell` and `[]NoMutualWait`;
* `PromptsMeanRan`: `TelnetSpec => PromptMeansRan`, an action property.

The argument. The client waits for texts, not for answers to what it typed, so that each
property depends on no text being left over from an earlier step. `Dialogue` says so in
six parts: the board has one line to read at most, and it is for what it reads next
(`OneLine`); a prompt is the last text of the screen, written by a shell that has read
everything, and in the wait after a command it is that of this command (`PromptLast`);
a question for the password and a refusal belong to this login (`AskedOnce`,
`RefusedOnce`); an accepted account is not refused (`Accepted`); and, with whole texts,
what the client waits for is on the screen or will be written for the line that the
board has (`Answerable`). One recv(2) is the lemma `RecvTurns`: the screen is cut
somewhere, perhaps within a text (`WholeParts`, `CutParts`), `match` returns the first
text of the list that the chunk contains (`MatchMeans`), and as a prompt comes last,
none is left when one was matched. Each of the 15 actions then has one lemma.

`DeployerProofs` proves for every number of boards, files, commands and descriptors, any
command files, and replies and texts cut or whole:

* `DeployerTypeCorrect`: `Spec => []DeployerTypeOK`;
* `CommandSocketsClosed`, `SocketsBudgeted`: `[]CloseClosesCommandSocket`, `[]SocketBudget`;
* `ClientsPromise`: the invariants proved of FtpUploader and TelnetCommander alone hold of
  the deployer, although both act on one process and one table of descriptors.

* `CommandsAsInFile`, `ConfigurationIsOwned`: `[]CommandsAsWritten`, `[]DestroyedOnce`,
  whatever parse function fails or dies, and whatever memory is missing;
* `DeploysInOrder`: `Spec => DeploysAsPromised`, that is, the deployer implements
  `Deployment`, if replies are whole and files readable.

The argument for the sockets. Each step of the program is a step of one client that
leaves the other alone, or of neither (`ProgramSteps`), so that the invariants above are
reused (`UploaderKept`, `CommanderKept`). `SocketBudget` speaks of the end of a board
only; `Budget` extends it to every step by what the board in turn may hold (`Held`:
none, one, or two from the STOR of a put until its end). A close gives a descriptor back
only if it closes one that is open, so `Sockets` says which descriptors are, and for the
QUIT that needs `Closing`: `is_transfered`, which a failed put leaves set for the next
board, is clear once a put has returned RET_OK. `Places` says which wait belongs to
which step.

The argument for the configuration, in `DeployerConfigProofs`. In the middle of the file
the list must be what the characters read so far mean: `ReadSoFar` says that it is
`LinesRead` of that prefix (a line of it each, once an append has failed), and that
`buffer` is the line that began after the last newline (`LineBegun`). Two lemmas carry
it over a character: an ordinary one ends no line (`NoLineMore`), a newline behind a
line that is not empty adds exactly that one (`OneLineMore`, with the cardinalities that
number the lines). Reading stops in the middle of a line, at the end of the file or at a
byte 255: the lines of the prefix are then the first lines of the file, and all of them
if the text is `Plain` (`FileRead`). `InOneHand` follows the Deployer through `main`:
who holds it in which stage, hence who may still destroy it. No property was inductive
without them.

The argument for the refinement. `Deployment` knows no sessions, so that
`PromiseInvariant` says what the session of the board in turn has done: it is with that
board (`InTurn`), the files before the one under way are uploaded (`FilesPut`), and the
commands that ran, with the line the shell has yet to read, are those sent so far
(`CommandsRun`). `UploadedMeansStored` makes the first `stored`, and a prompt on the screen
is that of the last command, by the invariants of the two clients. A put whose file the
server may still lose, and a command line that a dead connection leaves unread, are why a
verdict comes from what the boards have and not from what was sent. One lemma per
kind of step (`BeginStep`, `ServerStep`, `RunStep`, `EndStep`, `GoOnStep`) gives the step of
`Deployment` that it is; all others stutter (`DieOrStutter`). Both hypotheses are needed:
`SuccessMeansStored` and `TransferEndsOn2xx` fail without them in the violation runs.

`DListProofs` proves for every number of nodes and data:

* `ListTypeCorrect`: `DListSpec => []DListTypeOK`, so `dlist_delete` never decrements zero;
* `ListInvariant`: `DListSpec => []DListInvariant`;
* `ListIsLinked` and `HeapIsOwned`: `DListSpec => []Linked` and `DListSpec => []HeapOwned`;
* `ImplementsTheDataList`: `DListSpec => ImplementsDataList`, that is, a DList is a DataList.

The argument. `Linked` ties every pointer to `order`. That a step keeps it needs to know
which node the cursor is on: `Walking` says that `iter` is the node at the position
counted so far, and `CallInProgress` that an insertion in progress holds a node that is
in no list, with null links, and that the list it walks is not empty. With these each
change of `order` (`OrderAfterInsert`, `OrderAfterRemove`, from the library's
sequence facts) is matched pointer by pointer with what the code assigns. `HeapOwned`
adds that the pending node is not in the list, so that linking it creates no circle.
Types and invariant are proved together, for the types need the invariant (the length
that is decremented, the position that is removed) and conversely.

For the refinement, the sequence that a caller sees is `Contents`, the data of the nodes
in `order`, and a call takes effect in the step that changes a link or finds what it
looked for; the passes of its loop stutter. What the loops know until then is
`CallInvariant`: `dlist_find` has passed `index` nodes and none had the datum
(`Searching`), `dlist_foreach` has shown a prefix of the contents (`Visiting`), and the
others were asked for an index (`Asked`). `ContentsInserted`, `ContentsRemoved` and
`ContentsReplaced` say what a change of links does to the sequence; each answer is then
that of `DataList` for the sequence before it.

`PacketTransferProofs` proves for every number of nodes, response types, pieces and
commands, with the response loop:

* `PacketTransferTypeCorrect`: `PtSpec => []PacketTransferTypeOK`;
* `ResponsesPassedOnWhole`, `ReportsEndKnown`, `AnswersRemoveOldest`: `PtSpec` implies
  the action properties `ResponsesWhole`, `ReportsSurvived` and `AnswerRemovesOldest`.

The argument. `Assembled` relates three parties: while a packet is under assembly and
nothing disturbed it, the response counts as many pieces as the board has sent, all of
the node that `response.of` names, which is the port of the response. A piece that
continues it keeps this or sets `disturbed`; the last piece then finds the whole packet.
Since a packet that the board sends fits, none of its pieces is written past the end. That
`AnswerRemovesOldest` holds needs in addition that `dlist_find` returns the least index
(`MinIsLeast`, by well-founded induction on the naturals, for `Min` is a CHOOSE).

`BoardAgentProofs` proves for all constants (`LenModulus` any even number):

* `AgentTypeCorrect`, `FilesAcceptedWhole`: `Spec` implies `[]AgentTypeOK` and
  `[]FileAcceptedWhole`;
* `OnlyStreamsRemain`, `AgentEndsKnown`: `Spec` implies `OnlyStreamsStay` and
  `AgentSurvives`.

The argument. `ReceptionBegun` says that, when the command was read whole, what is still
to come plus what was read is the length as an int, if that is positive. While the loop
runs something is still to come, so that a last read takes less than a buffer beyond the
length; at its end nothing is, so that what was read is at least the length. Where
`select` finds nothing is inductive only together with which handler owns which place of
`pc`; that no file is accepted once all streams are used up needs that no reception in
progress has begun its file, for `streams` never falls. The invariant of PacketTransfer
is reused, not proved again: its lemmas are about its actions, which `BoardAgent`
composes.

`TelnetPeersProofs` proves for any size of the buffer, any reads, options and calls:

* `PeersTypeCorrect`: `Spec => []PeersTypeOK`;
* `CutsDoNotMatter`: `telnet_recv` of a chunk and of another leave, send and raise what
  `telnet_recv` of both as one chunk does, for every `telnet_t`;
* `EverythingIsDelivered`: `Spec => []DeliveredInOrder`;
* `EndsAgree`: `Spec => []SettledAgree`;
* `EndsAsAsked`: `Spec => []SettledAsAsked`; these three from two hypotheses.

`CallsAreSends` is that a user sends texts with `telnet_send` and whole subnegotiations,
and that what is promised for one is what its parser makes of the content as it was before
it was escaped. This is what every sender of the library comes to; that the events written
by hand in `MCTelnetPeers` are what the parsers make is checked there
(`PeerCallsAreSends`), for the recursion over marks is not the prover's. `PlainTerminal` is
that TERM has no IAC, which `telnet_ttype_is` does not escape.

The argument. `process` is a recursive function over the bytes of a chunk, so that what it
does to a chunk and one byte more has to be proved by induction, as the least
counterexample (`SetInduction`, `SeqInduction`). From this `CutsDoNotMatter` follows, with
the data of a chunk, which are passed on only at a command or at its end, as the hard part.
`Kept` says of some bytes that they take a `telnet_t` that is between two messages to one
that is between two messages and raise the given events, whatever the options are: it
holds of a text (`TextKept`), a subnegotiation that fits and one that does not
(`ContentKept`), and of a verb with its option, whose event is for no user. What a
`telnet_t` sends while it reads is made of verbs and of terminals asked for, hence kept
too. `Flows` is then the invariant: what is on the wire to an end, read from where that
end is in the middle of a message, raises exactly what is owed to it. A send appends to
both; a recv(2) removes from both, by `CutsDoNotMatter`. `DeliveryInv` adds the types.

That the ends agree is a matter of what each has not read yet: with nothing on its way
the states of an option at its two ends are equal, but until then they differ most of
the time. `Told` is the sequence of verbs for one side of an option that a `telnet_t`
will take from the bytes on their way to it, which may begin in the middle of a command.
`Standing` lists how `him` at one end and `us` at the other can stand with the verbs on
the way to either: both know; one asks and the other has not heard of it or has
answered; the requests cross; one has answered and asks in its turn before the other has
read the answer. At most two verbs for one side are on the way to an end, and then none
to the other. A request noted behind another (the states with `_OP`) is not on its way,
so these count as the states they wait in (`Asked`). `Fits` adds why a state is what it
is: each that waits is what its user asked for last, and each refusal on the way has its
reason. This is `NegotiationInv`, with `DeliveryInv`, which says that the bytes on the
way to an end leave it between two messages, so that a verb sent behind them is taken.
That a request and a verb received each take `Fits` to `Fits` is proved by the cases of
`Standing`, without bytes; then it is lifted to bytes: what is told by a stream is told
by its parts in turn (again the cuts), a text or subnegotiation tells nothing whatever
bytes are in it, an answer tells its one verb, and a chunk is taken byte by byte. `Fits`
was checked by TLC as an invariant, and on all states of one option, before it was
proved.

The proof corrected the property. `SettledAsAsked` said that an option is on whenever
one end asked for it last, the other supports it and neither refused it last. That is
not so of the code: when one end asks WILL and the other accepts, then asks DONT and
later DO, the first refuses this DO if its own table lacks the option, although WILL is
what it asked last; an answered request is not noted any more. It had passed TLC because
every option of the instance was in the tables of both ends or of neither. It is now
stated as `AsAsked`: on if both tables have the option, one end asked and none refused
last, or if one asked, the other's table has it and the other never asked for or refused
it. The instance has such a pair of tables now.

Model-checked only: liveness (`EveryTargetEnds`, `CallsReturn`, that negotiation ends,
`NegotiationEnds`, and the fair properties of the other runs), which the proof system
does not handle; what the recursion over marks in the parsers of a payload comes to,
which is induction over data.

## 6. Not modelled

*Memory and buffers*: the two writes one byte past a full buffer, the unbounded command
buffer of the configuration parser, leaks, a `malloc` that fails in the agent, a
`strdup` that fails in the parser, and what foreign memory holds or changes.
*Formatting* of commands and of the log; the events' text. What a `socket` of another
process or another deployer does to the same board.

*In the modelled components*: `packet_transfer_reset`, which nothing calls (its inner
loop tests `i` where it counts `j`); `packet_transfer_destroy` and
`reprogrammer_destroy`, which `main` reaches only behind `gather_board_destroy` of the
address 1; PROXY mode and zlib of libtelnet, and the limits of its `q` (a `realloc` that
fails, and a byte that counts in fours and wraps at 64 options).

*Components*: `cJSON` (a pure parser of a text); GatherBoard, the GPIO driver and the hex
parser, none of which is reached by the agent as it stands (`main.c:81` takes the number
1 for the board, `reprogrammer_node_program_doing` returns before it parses); `util.c`
(operators on bytes; its CRC returns 0); `serial.c`, `pcap`, the logger, the
configuration generator and the driver's test program (input and output only); the unit
tests, which were read as evidence of intent.

Disagreements of the code with what is written about it that have no run of their own. The
model follows the code, and the properties say what the code does:

* `packet_transfer.c:186` takes the command of the response's type off the list, but
  `packet_transfer.c:340` has read that type at `RESP_B_TYPE_INDEX`, 5 + 10 = 15, which is
  also `RESP_B_EVEN_CHECK_INDEX` (`oint_protocol.h:130-131`): the parity byte. The node's
  type is in its second piece. `AnswerRemovesOldest` speaks of the type that the parity
  byte stands for; that it is the type the node answered with is not a property.
* `deployer/README.markdown:60` makes every line of the command file a command;
  `deployer.c:284-308` makes none of a last line without a newline, nor of what is from a
  byte 255 on. `CommandsAsWritten` takes the lines of the README and says so.
* `packet_transfer.c:248` takes ports 1 to 8 from the board, `oint_protocol.h:104` says 0 to
  7, and the code, which subtracts nothing, follows the latter. The model has any port.
* `packet_transfer.c:103`, `:138`: a command may name a node that is none and be longer than
  the buffer. `AgentSurvives` names both.
* `telnet_commander.c:113`: a prompt that is cut is waited for, for ever (`Starved`).

Met while modelling and not stated as properties, since each is a fact of one line:

* `reprogrammer.c:113` gives `write(2)` a FILE pointer: the hex file stays empty.
* `deployer.c:228`, `deployer.c:262` print `valuestring` of a password that may be NULL.
* `deployer.c:502` destroys a Deployer whose later fields are not initialised yet.
* `packet_transfer.c:95` lacks a `break`: the query of the current waits for an answer.
* `main.c:173` of the agent destroys the board at address 1.
* `telnet_commander.c:34` offers COMPRESS2, which the build does not have; line 168
  passes `getenv("TERM")`, which may be NULL.
* `libtelnet.c:535` refuses a list that ends with an escaped ESC; its own ENVIRON senders
  escape only IAC (`libtelnet.c:1467`).
