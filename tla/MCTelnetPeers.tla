--------------------------- MODULE MCTelnetPeers ----------------------------
(* ECHO, which the commander lets the board do and the board lets both do; every kind *)
(* of message, with an IAC in most, and one that does not fit the buffer.             *)
EXTENDS TelnetPeers

Echo == {1}
Xterm == <<120>>

PeerOptions == [commander |-> {<<"him", 1>>}, board |-> {<<"us", 1>>, <<"him", 1>>}]

PeerCalls ==
    [commander |-> {PrintLine(<<97>>), SendVariable(<<97>>, <<IAC>>)},
     board |-> {SendText(<<IAC, SE>>), AskTerminal,
                SendZmp(<<97>>, <<IAC>>), SendMssp(<<97>>, <<98>>, <<IAC>>),
                SendContent(9, <<9, 9, 9, 9, 9, 9, IAC, 9>>)}]

Texts == {<<97, 13, 10>>, <<IAC, SE>>}

Contents ==
    {<<NEW_ENVIRON, <<0, 0, 97, 1, IAC>>>>, <<TTYPE, <<1>>>>, <<ZMP, <<97, 0, IAC, 0>>>>,
     <<MSSP, <<1, 97, 2, 98, 2, IAC>>>>, <<9, <<9, 9, 9, 9, 9, 9, IAC, 9>>>>}

\* Each of these calls is a text or a subnegotiation, and what it promises, written by
\* hand, is what the parser of its option makes of its content.
ASSUME PeerCallsAreSends ==
    \A p \in Peers : \A call \in PeerCalls[p] :
        \/ \E text \in Texts : call = SendText(text)
        \/ \E c \in Contents :
               call = [bytes |-> telnet_subnegotiation(c[1], c[2]),
                       promised |-> Subnegotiated(c[1], c[2], payload(c[1], c[2]))]
=============================================================================
