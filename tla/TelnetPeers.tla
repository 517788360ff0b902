---------------------------- MODULE TelnetPeers -----------------------------
(***************************************************************************)
(* Two ends of a telnet connection, each with libtelnet: the TelnetCommander *)
(* and a board whose server also uses it.  The bytes of one reach the other *)
(* in order, in chunks that recv(2) cuts anywhere, while either user sends  *)
(* and asks for options as it likes.                                        *)
(***************************************************************************)
EXTENDS LibTelnet

CONSTANTS
    Telopts,    \* the options that the users ask for
    Calls,      \* what each end may send: records of bytes and promised
    Supported,  \* the table of telnet_init of each end
    Terminal,   \* TERM of the commander
    RecvBuffer, \* RECV_BUFFER_SIZE: how many bytes a recv(2) gives at most
    MaxSends,   \* how often something is sent
    MaxAsks,    \* how often an option is asked for, or refused
    MaxCalls    \* how often one or the other

Peers == {"commander", "board"}
Other(p) == IF p = "commander" THEN "board" ELSE "commander"

ASSUME PeersAssumption ==
    /\ Telopts \subseteq Bytes
    /\ \A p \in Peers : \A call \in Calls[p] : call.bytes \in Seq(Bytes)
    /\ Terminal \in Seq(Bytes)
    /\ RecvBuffer \in Nat /\ MaxSends \in Nat /\ MaxAsks \in Nat

VARIABLES
    telnet,     \* the telnet_t of each end
    wire,       \* the bytes on their way to each end
    owed,       \* history: the events that each end has still to see, in order
    garbled,    \* history: the ends that saw another event
    wish,       \* history: what each end last asked for each side of an option
    lost,       \* history: the <<end, option>> whose waiting DO was never sent
    sends, asks \* how often the users called

vars == <<telnet, wire, owed, garbled, wish, lost, sends, asks>>

Wishes == {"nothing", "on", "off"}

PeersTypeOK ==
    /\ DOMAIN telnet = Peers /\ \A p \in Peers : IsTelnet(telnet[p])
    /\ wire \in [Peers -> Seq(Bytes)]
    /\ garbled \subseteq Peers
    /\ wish \in [Peers -> [Telopts -> [us : Wishes, him : Wishes]]]
    /\ lost \subseteq Peers \X Telopts
    /\ sends \in 0..MaxSends /\ asks \in 0..MaxAsks

PeersInit ==
    /\ telnet = [p \in Peers |-> telnet_init]
    /\ wire = [p \in Peers |-> <<>>]
    /\ owed = [p \in Peers |-> <<>>]
    /\ garbled = {} /\ lost = {}
    /\ wish = [p \in Peers |-> [o \in Telopts |-> [us |-> "nothing", him |-> "nothing"]]]
    /\ sends = 0 /\ asks = 0

\* event_handler of telnet_commander.c: only a question for the terminal is answered.
event_handler(p) ==
    [supported |-> Supported[p],
     on_ttype_send |-> IF p = "commander" THEN telnet_ttype_is(Terminal) ELSE <<>>]

-----------------------------------------------------------------------------
(* What the users send, and the events that the other end is to see for it. *)

AsData(bytes) == [i \in DOMAIN bytes |-> <<"data", bytes[i]>>]

\* Of a subnegotiation that does not fit, one byte is dropped with a warning and the
\* rest is data.
Subnegotiated(telopt, content, parsed) ==
    IF Len(content) <= MaxBuffer
    THEN <<<<"subnegotiation", telopt, content>>>> \o parsed
    ELSE <<<<"overflow">>>>
         \o AsData(SubSeq(content, MaxBuffer + 2, Len(content))) \o <<<<"iac", SE>>>>

SendText(text) == [bytes |-> telnet_send(text), promised |-> AsData(text)]

\* Strings, with the line ends of telnet_printf.
PrintLine(text) ==
    [bytes |-> telnet_printf(Append(text, 10)), promised |-> AsData(text \o <<13, 10>>)]

SendContent(telopt, content) ==
    [bytes |-> telnet_subnegotiation(telopt, content),
     promised |-> Subnegotiated(telopt, content, <<>>)]

AskTerminal ==
    [bytes |-> telnet_ttype_send,
     promised |-> Subnegotiated(TTYPE, <<1>>, <<<<"ttype_send">>>>)]

TerminalPromised ==
    Subnegotiated(TTYPE, <<0>> \o Terminal, <<<<"ttype_is", Terminal>>>>)

\* One variable of the environment, of plain bytes or IAC.
SendVariable(name, value) ==
    [bytes |-> newenviron(0, <<[type |-> 0, var |-> name, value |-> value]>>),
     promised |->
         Subnegotiated(NEW_ENVIRON, <<0, 0>> \o name \o <<1>> \o value,
             <<<<"environ", 0, <<[type |-> 0, var |-> name, value |-> value]>>>>>>)]

SendZmp(command, argument) ==
    [bytes |-> telnet_send_zmp(<<command, argument>>),
     promised |-> Subnegotiated(ZMP, command \o <<0>> \o argument \o <<0>>,
                                <<<<"zmp", <<command, argument>>>>>>)]

\* Two values of one MSSP variable.
SendMssp(name, one, two) ==
    LET content == <<1>> \o name \o <<2>> \o one \o <<2>> \o two
    IN [bytes |-> telnet_subnegotiation(MSSP, content),
        promised |-> Subnegotiated(MSSP, content,
            <<<<"mssp", <<[var |-> name, value |-> one], [var |-> name, value |-> two]>>>>>>)]

-----------------------------------------------------------------------------
(* Steps. *)

\* The events that are for the user: all but those of the negotiation.
Seen(events) ==
    FlattenSeq([i \in DOMAIN events |->
                   IF events[i][1] \in Verbs THEN <<>> ELSE <<events[i]>>])

\* What the other end is to see when p saw these: the commander answers each question.
Answered(p, seen) ==
    FlattenSeq([i \in DOMAIN seen |->
                   IF p = "commander" /\ seen[i] = <<"ttype_send">> THEN TerminalPromised
                   ELSE <<>>])

UserSends(p) ==
    /\ sends < MaxSends /\ sends + asks < MaxCalls
    /\ \E call \in Calls[p] :
           /\ wire' = [wire EXCEPT ![Other(p)] = @ \o call.bytes]
           /\ owed' = [owed EXCEPT ![Other(p)] = @ \o call.promised]
    /\ sends' = sends + 1
    /\ UNCHANGED <<telnet, garbled, wish, lost, asks>>

UserAsks(p) ==
    /\ asks < MaxAsks /\ sends + asks < MaxCalls
    /\ \E verb \in Verbs, o \in Telopts :
           LET asked == telnet_negotiate(telnet[p], verb, o)
           IN /\ telnet' = [telnet EXCEPT ![p] = asked.telnet]
              /\ wire' = [wire EXCEPT ![Other(p)] = @ \o asked.out]
              /\ wish' = [wish EXCEPT ![p][o][TouchedByAsking(verb)] =
                              IF verb \in {"WILL", "DO"} THEN "on" ELSE "off"]
    /\ asks' = asks + 1
    /\ UNCHANGED <<owed, garbled, lost, sends>>

Option(t, o) == get_rfc1143(t.q, o)

\* The options whose DO, noted until the other end answers, is not sent when it does.
LosesDo(p, chunk) ==
    {o \in Telopts :
        /\ Option(telnet[p], o).him = "WANTNO_OP"
        /\ \E k \in DOMAIN chunk :
               Option(telnet_recv(telnet[p], SubSeq(chunk, 1, k), event_handler(p)).telnet,
                      o).him = "WANTYES"}

\* recv(2) gives some of the bytes to telnet_recv (telnet_commander.c:101-131).
Receive(p) ==
    \E n \in {n \in 1..RecvBuffer : n <= Len(wire[p])} :
    \E got \in {telnet_recv(telnet[p], SubSeq(wire[p], 1, n), event_handler(p))} :
        LET seen == Seen(got.events)
        IN /\ telnet' = [telnet EXCEPT ![p] = got.telnet]
           /\ wire' = [wire EXCEPT ![p] = SubSeq(@, n + 1, Len(@)),
                                   ![Other(p)] = @ \o got.out]
           /\ IF seen = SubSeq(owed[p], 1, Len(seen))
              THEN /\ owed' = [owed EXCEPT
                                 ![p] = SubSeq(@, Len(seen) + 1, Len(@)),
                                 ![Other(p)] = @ \o Answered(p, seen)]
                   /\ UNCHANGED garbled
              ELSE garbled' = garbled \cup {p} /\ UNCHANGED owed
           /\ lost' = lost \cup {<<p, o>> : o \in LosesDo(p, SubSeq(wire[p], 1, n))}
    /\ UNCHANGED <<wish, sends, asks>>

Next == \E p \in Peers : UserSends(p) \/ UserAsks(p) \/ Receive(p)

Spec == PeersInit /\ [][Next]_vars

\* Each end goes on reading what has arrived.  This is WF_vars(Receive(p)), written out:
\* Receive(p) is enabled when something has arrived, which TLC is slow to find out.
ReadsOn(p) == []<>(wire[p] = <<>>) \/ []<><<Receive(p)>>_vars
FairSpec == Spec /\ \A p \in Peers : ReadsOn(p)

-----------------------------------------------------------------------------
(* Properties. *)

Quiet == \A p \in Peers : wire[p] = <<>>

\* Each end sees the events of what the other sent, once and in its order, however the
\* bytes are cut and whatever is negotiated between them; when all bytes are read
\* nothing is held back (libtelnet.c:937-1095).
DeliveredInOrder ==
    /\ garbled = {}
    /\ Quiet => \A p \in Peers : owed[p] = <<>> /\ telnet[p].state = "DATA"

Mine(p, o) == Option(telnet[p], o).us
Theirs(p, o) == Option(telnet[p], o).him

\* When nothing is on its way the two ends agree on every option and wait for nothing,
\* save for an option whose DO was lost in WANTNO_OP (libtelnet.c:330-475).
SettledAgree ==
    Quiet => \A p \in Peers, o \in Telopts :
        <<p, o>> \notin lost =>
            Theirs(p, o) = Mine(Other(p), o) /\ Theirs(p, o) \in {"YES", "NO"}

\* An option is on only if each end supports it or asked for it last.  It is on if both
\* support it, one asked for it last and none refused it last, and if one asked for it last
\* that the other supports and said nothing about.
AsAsked(on, supports, supports2, wished, wished2) ==
    /\ on => (supports \/ wished = "on") /\ (supports2 \/ wished2 = "on")
    /\ \/ supports /\ supports2 /\ "on" \in {wished, wished2} /\ "off" \notin {wished, wished2}
       \/ supports2 /\ wished = "on" /\ wished2 = "nothing"
       \/ supports /\ wished2 = "on" /\ wished = "nothing"
       => on

\* When nothing is on its way every option is as its two ends asked
\* (libtelnet.c:354-474, 1188-1254).
SettledAsAsked ==
    Quiet => \A p \in Peers, o \in Telopts :
        <<p, o>> \notin lost =>
            AsAsked(Theirs(p, o) = "YES",
                    <<"him", o>> \in Supported[p], <<"us", o>> \in Supported[Other(p)],
                    wish[p][o].him, wish[Other(p)][o].us)

\* Negotiation ends: the ends do not answer each other for ever.
NegotiationEnds == <>[]Quiet
=============================================================================
