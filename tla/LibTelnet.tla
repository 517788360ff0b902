----------------------------- MODULE LibTelnet ------------------------------
(***************************************************************************)
(* deployer/lib/libtelnet/libtelnet.c: the telnet_t structure, what         *)
(* telnet_recv makes of a chunk of bytes, and the bytes the senders write.  *)
(* Neither PROXY mode nor zlib, which the Makefile does not define.         *)
(*                                                                          *)
(* A telnet_t is the record of state, sb_telopt, buffer and q.  While bytes *)
(* are processed it also has out, the bytes sent, events, those raised, and *)
(* start, the first byte of the chunk not yet passed on.  The data events   *)
(* of a chunk are kept byte by byte: how they are grouped means nothing.    *)
(***************************************************************************)
EXTENDS TelnetOption, Integers, Sequences, SequencesExt

CONSTANT MaxBuffer   \* the last of _buffer_sizes

ASSUME LibTelnetAssumption == MaxBuffer \in Nat

VerbByte == [WILL |-> 251, WONT |-> 252, DO |-> 253, DONT |-> 254]
IAC == 255
SB == 250
SE == 240
TTYPE == 24
ENVIRON == 36
NEW_ENVIRON == 39
MSSP == 70
ZMP == 93

States == {"DATA", "IAC", "SB", "SB_DATA", "SB_DATA_IAC"} \cup Verbs

Bytes == 0..255

OptionT == [us : QStates, him : QStates]

\* q has the options of which something was set.
IsTelnet(t) ==
    /\ t \in [state : States, sb_telopt : Bytes, buffer : Seq(Bytes), q : {t.q}]
    /\ Len(t.buffer) <= MaxBuffer
    /\ t.q \in [DOMAIN t.q -> OptionT] /\ DOMAIN t.q \subseteq Bytes

telnet_init == [state |-> "DATA", sb_telopt |-> 0, buffer |-> <<>>, q |-> <<>>]

\* An option that q does not have is off at both ends.
get_rfc1143(q, telopt) ==
    IF telopt \in DOMAIN q THEN q[telopt] ELSE [us |-> "NO", him |-> "NO"]

\* As long as realloc(3) gives room and q_size, a byte that counts in fours, does not wrap.
set_rfc1143(q, telopt, side, state) ==
    [o \in DOMAIN q \cup {telopt} |->
        IF o = telopt THEN [get_rfc1143(q, o) EXCEPT ![side] = state] ELSE q[o]]

\* A move of _negotiate or telnet_negotiate sets the state of an option if it is another.
moved(q, telopt, side, next) ==
    IF next = get_rfc1143(q, telopt)[side] THEN q ELSE set_rfc1143(q, telopt, side, next)

-----------------------------------------------------------------------------
(* Senders: what is written for a call of the user. *)

\* telnet_send: IAC is doubled.
telnet_send(text) ==
    FlattenSeq([i \in DOMAIN text |-> IF text[i] = IAC THEN <<IAC, IAC>> ELSE <<text[i]>>])

\* telnet_printf: a CR is followed by NUL, and an LF is sent as CR LF.
printed(byte) ==
    CASE byte = 13 -> <<13, 0>>
      [] byte = 10 -> <<13, 10>>
      [] OTHER -> <<byte>>

telnet_printf(text) ==
    telnet_send(FlattenSeq([i \in DOMAIN text |-> printed(text[i])]))

telnet_iac(cmd) == <<IAC, cmd>>
send_negotiate(verb, telopt) == <<IAC, VerbByte[verb], telopt>>
telnet_begin_sb(telopt) == <<IAC, SB, telopt>>
telnet_finish_sb == telnet_iac(SE)

telnet_subnegotiation(telopt, content) ==
    telnet_begin_sb(telopt) \o telnet_send(content) \o telnet_finish_sb

telnet_ttype_send == <<IAC, SB, TTYPE, 1, IAC, SE>>

\* The name is sent as it is, IAC and all.
telnet_ttype_is(name) == <<IAC, SB, TTYPE, 0>> \o name \o telnet_finish_sb

\* telnet_begin_newenviron, a telnet_newenviron_value for each string, and the end.
\* A variable is [type, var, value]; no byte of them is escaped but IAC.
newenviron(cmd, vars) ==
    telnet_begin_sb(NEW_ENVIRON) \o <<cmd>>
    \o FlattenSeq([i \in DOMAIN vars |->
           <<vars[i].type>> \o telnet_send(vars[i].var)
           \o <<1>> \o telnet_send(vars[i].value)])
    \o telnet_finish_sb

\* telnet_send_zmp: every argument with the NUL that ends it.
telnet_send_zmp(args) ==
    telnet_begin_sb(ZMP)
    \o FlattenSeq([i \in DOMAIN args |-> telnet_send(args[i]) \o <<0>>])
    \o telnet_finish_sb

-----------------------------------------------------------------------------
(* Subnegotiations: _subnegotiate and the parsers it calls. *)

Positions(s, marks) == SelectSeq([i \in DOMAIN s |-> i], LAMBDA i : s[i] \in marks)

\* What follows position i up to the next of marks.
Part(s, i, marks) ==
    LET later == SelectSeq(Positions(s, marks), LAMBDA j : j > i)
    IN SubSeq(s, i + 1, Head(Append(later, Len(s) + 1)) - 1)

\* A byte that ESC protects is raised by 256, so that it is no mark, and the ESC is left
\* out; Plain takes the bytes of the result.
Unescaped(buf) ==
    LET esc[i \in 0..Len(buf)] == i > 0 /\ buf[i] = 2 /\ ~esc[i - 1]
        read == SelectSeq([i \in DOMAIN buf |-> i], LAMBDA i : ~esc[i])
    IN [k \in DOMAIN read |-> buf[read[k]] + IF esc[read[k] - 1] THEN 256 ELSE 0]

Plain(s) == [k \in DOMAIN s |-> s[k] % 256]

\* One variable of an ENVIRON list, from its VAR or USERVAR to the next: a name, and what
\* follows the first VALUE.
EnvironVariable(list, b) ==
    LET whole == Part(list, b, {0, 3})
        name == Part(whole, 0, {1})
    IN [type |-> list[b], var |-> Plain(name),
        value |-> Plain(SubSeq(whole, Len(name) + 2, Len(whole)))]

\* _environ_telnet.  A buffer whose last byte is ESC is refused, an escaped one too.
environ_telnet(buf) ==
    LET list == Unescaped(Tail(buf))
        begins == Positions(list, {0, 3})
    IN IF \/ buf = <<>> \/ buf[1] \notin {0, 1, 2}
          \/ Len(buf) > 1 /\ (buf[2] \notin {0, 3} \/ Last(buf) = 2)
       THEN <<>>
       ELSE <<<<"environ", buf[1],
                [k \in DOMAIN begins |-> EnvironVariable(list, begins[k])]>>>>

\* _mssp_telnet: every VAL with the VAR before it.  A VAL that ends the buffer is
\* counted, and its entry stays empty.
mssp_telnet(buf) ==
    LET values == Positions(buf, {2})
        VarOf(b) == Part(buf, Last(Positions(SubSeq(buf, 1, b), {1})), {1, 2})
        Entry(b) == IF b = Len(buf) THEN [var |-> <<>>, value |-> <<>>]
                    ELSE [var |-> VarOf(b), value |-> Part(buf, b, {1, 2})]
    IN IF buf = <<>> \/ buf[1] # 1 THEN <<>>
       ELSE <<<<"mssp", [k \in DOMAIN values |-> Entry(values[k])]>>>>

\* _zmp_telnet: strings, each ended by NUL.
zmp_telnet(buf) ==
    LET ends == <<0>> \o Positions(buf, {0})
    IN IF buf = <<>> \/ Last(buf) # 0 THEN <<>>
       ELSE <<<<"zmp", [k \in 1..(Len(ends) - 1) |-> Part(buf, ends[k], {0})]>>>>

ttype_telnet(buf) ==
    CASE buf # <<>> /\ buf[1] = 0 -> <<<<"ttype_is", Tail(buf)>>>>
      [] buf # <<>> /\ buf[1] = 1 -> <<<<"ttype_send">>>>
      [] OTHER -> <<>>

Raise(t, events) == [t EXCEPT !.events = @ \o events]

\* What the parser of an option makes of a subnegotiation.
payload(telopt, buf) ==
    CASE telopt = ZMP -> zmp_telnet(buf)
      [] telopt = TTYPE -> ttype_telnet(buf)
      [] telopt \in {ENVIRON, NEW_ENVIRON} -> environ_telnet(buf)
      [] telopt = MSSP -> mssp_telnet(buf)
      [] OTHER -> <<>>

\* _subnegotiate: the subnegotiation as it is, and what its parser makes of it.
subnegotiate(t, user) ==
    LET events == payload(t.sb_telopt, t.buffer)
    IN [Raise(t, <<<<"subnegotiation", t.sb_telopt, t.buffer>>>> \o events)
        EXCEPT !.out = @ \o (IF events = <<<<"ttype_send">>>> THEN user.on_ttype_send
                             ELSE <<>>)]

-----------------------------------------------------------------------------
(* telnet_recv: _process, byte by byte.  user.supported has the sides of the options *)
(* that the table of telnet_init supports, _check_telopt; user.on_ttype_send is what  *)
(* the event handler sends when it is asked for the terminal's type.                  *)

\* _negotiate, for the verb that state holds.
negotiate(t, telopt, user) ==
    LET side == TouchedBy(t.state)
        move == OnReceived(t.state, <<side, telopt>> \in user.supported,
                           get_rfc1143(t.q, telopt)[side])
    IN [Raise(t, IF move.event = "none" THEN <<>> ELSE <<<<move.event, telopt>>>>)
        EXCEPT !.q = moved(@, telopt, side, move.next),
               !.out = @ \o (IF move.send = "none" THEN <<>>
                             ELSE send_negotiate(move.send, telopt))]

\* Bytes first to last of the chunk, to the user.
PassOn(t, chunk, last) ==
    Raise(t, [k \in 1..(last - t.start + 1) |-> <<"data", chunk[t.start + k - 1]>>])

ToData(t, i) == [t EXCEPT !.state = "DATA", !.start = i + 1]

\* Mutant: the data before a command is not passed on.
in_data_dropped(t, chunk, i) ==
    IF chunk[i] = IAC THEN [t EXCEPT !.state = "IAC"] ELSE t

in_data(t, chunk, i) ==
    IF chunk[i] = IAC THEN [PassOn(t, chunk, i - 1) EXCEPT !.state = "IAC"] ELSE t

in_iac(t, byte, i) ==
    CASE byte = SB -> [t EXCEPT !.state = "SB"]
      [] \E v \in Verbs : byte = VerbByte[v] ->
             [t EXCEPT !.state = CHOOSE v \in Verbs : byte = VerbByte[v]]
      [] byte = IAC -> ToData(Raise(t, <<<<"data", IAC>>>>), i)
      [] OTHER -> ToData(Raise(t, <<<<"iac", byte>>>>), i)

\* Mutant: one byte more than there is room for.
buffer_byte_full(t, byte, i) ==
    IF Len(t.buffer) <= MaxBuffer
    THEN [t EXCEPT !.buffer = Append(@, byte), !.state = "SB_DATA"]
    ELSE ToData(Raise(t, <<<<"overflow">>>>), i)

\* _buffer_byte.  When there is no more room the rest of the subnegotiation is data.
buffer_byte(t, byte, i) ==
    IF Len(t.buffer) < MaxBuffer
    THEN [t EXCEPT !.buffer = Append(@, byte), !.state = "SB_DATA"]
    ELSE ToData(Raise(t, <<<<"overflow">>>>), i)

in_sb_data_iac(t, byte, i, user) ==
    CASE byte = SE -> subnegotiate(ToData(t, i), user)
      [] byte = IAC -> buffer_byte(t, IAC, i)
      [] OTHER -> in_iac(subnegotiate([t EXCEPT !.state = "IAC", !.start = i + 1], user),
                         byte, i)

process_byte(t, chunk, i, user) ==
    CASE t.state = "DATA" -> in_data(t, chunk, i)
      [] t.state = "IAC" -> in_iac(t, chunk[i], i)
      [] t.state \in Verbs -> ToData(negotiate(t, chunk[i], user), i)
      [] t.state = "SB" ->
             [t EXCEPT !.sb_telopt = chunk[i], !.buffer = <<>>, !.state = "SB_DATA"]
      [] t.state = "SB_DATA" /\ chunk[i] = IAC -> [t EXCEPT !.state = "SB_DATA_IAC"]
      [] t.state = "SB_DATA" /\ chunk[i] # IAC -> buffer_byte(t, chunk[i], i)
      [] t.state = "SB_DATA_IAC" -> in_sb_data_iac(t, chunk[i], i, user)

\* What _process begins a chunk with.
process_begin(telnet) ==
    [state |-> telnet.state, sb_telopt |-> telnet.sb_telopt, buffer |-> telnet.buffer,
     q |-> telnet.q, start |-> 1, out |-> <<>>, events |-> <<>>]

\* _process: where it is after each byte of the chunk.  The CHOOSE is from one: it has
\* TLC evaluate each byte's step once.
process(telnet, chunk, user) ==
    LET P[i \in 0..Len(chunk)] ==
            IF i = 0 THEN process_begin(telnet)
            ELSE CHOOSE t \in {process_byte(P[i - 1], chunk, i, user)} : TRUE
    IN P

\* Behind the last byte, the data that were not passed on yet are.
process_end(t, chunk, last) == IF t.state = "DATA" THEN PassOn(t, chunk, last) ELSE t

\* telnet_recv of a chunk: the structure after it, what was sent and what was raised.
telnet_recv(telnet, chunk, user) ==
    LET t == process_end(process(telnet, chunk, user)[Len(chunk)], chunk, Len(chunk))
    IN [telnet |-> [state |-> t.state, sb_telopt |-> t.sb_telopt,
                    buffer |-> t.buffer, q |-> t.q],
        out |-> t.out, events |-> t.events]

\* telnet_negotiate: the structure after it, and what was sent.
telnet_negotiate(telnet, verb, telopt) ==
    LET side == TouchedByAsking(verb)
        move == OnAsked(verb, get_rfc1143(telnet.q, telopt)[side])
    IN [telnet |-> [telnet EXCEPT !.q = moved(@, telopt, side, move.next)],
        out |-> IF move.send = "none" THEN <<>> ELSE send_negotiate(move.send, telopt)]
=============================================================================
