---------------------------- MODULE TelnetOption ----------------------------
(***************************************************************************)
(* deployer/lib/libtelnet/libtelnet.c: the states of one telnet option, and *)
(* what each request and each answer does to them.  An option has a state   *)
(* for this end (us) and one for the other (him); WILL and WONT speak of    *)
(* the sender's end, DO and DONT of the receiver's.                         *)
(***************************************************************************)

Verbs == {"WILL", "WONT", "DO", "DONT"}
Sides == {"us", "him"}

\* Q_NO and the others.
QStates == {"NO", "YES", "WANTNO", "WANTYES", "WANTNO_OP", "WANTYES_OP"}

\* The end that a verb speaks of, at its receiver and at its sender.
TouchedBy(received) == IF received \in {"WILL", "WONT"} THEN "him" ELSE "us"
TouchedByAsking(verb) == IF verb \in {"WILL", "WONT"} THEN "us" ELSE "him"

\* A verb moves a state to next, sends a verb, and raises an event, unless "none".
Move(next, send, event) == [next |-> next, send |-> send, event |-> event]

on_will(supported) ==
    [NO |-> IF supported THEN Move("YES", "DO", "WILL") ELSE Move("NO", "DONT", "none"),
     YES |-> Move("YES", "none", "none"),
     WANTNO |-> Move("NO", "none", "WONT"),
     WANTNO_OP |-> Move("YES", "none", "WILL"),
     WANTYES |-> Move("YES", "none", "WILL"),
     WANTYES_OP |-> Move("WANTNO", "DONT", "WILL")]

\* In WANTNO_OP nothing is sent, unlike in on_dont: the DO that waited is lost.
on_wont ==
    [NO |-> Move("NO", "none", "none"),
     YES |-> Move("NO", "DONT", "WONT"),
     WANTNO |-> Move("NO", "none", "WONT"),
     WANTNO_OP |-> Move("WANTYES", "none", "DO"),
     WANTYES |-> Move("NO", "none", "none"),
     WANTYES_OP |-> Move("NO", "none", "none")]

\* Mutant: a DO is accepted before it is looked up.
on_do_unchecked(supported) ==
    [NO |-> Move("YES", "WILL", "DO"),
     YES |-> Move("YES", "none", "none"),
     WANTNO |-> Move("NO", "none", "DONT"),
     WANTNO_OP |-> Move("YES", "none", "DO"),
     WANTYES |-> Move("YES", "none", "DO"),
     WANTYES_OP |-> Move("WANTNO", "WONT", "DO")]

on_do(supported) ==
    [NO |-> IF supported THEN Move("YES", "WILL", "DO") ELSE Move("NO", "WONT", "none"),
     YES |-> Move("YES", "none", "none"),
     WANTNO |-> Move("NO", "none", "DONT"),
     WANTNO_OP |-> Move("YES", "none", "DO"),
     WANTYES |-> Move("YES", "none", "DO"),
     WANTYES_OP |-> Move("WANTNO", "WONT", "DO")]

\* Mutant: the end of a request to turn off is not recorded.
on_dont_kept ==
    [NO |-> Move("NO", "none", "none"),
     YES |-> Move("NO", "WONT", "DONT"),
     WANTNO |-> Move("WANTNO", "none", "WONT"),
     WANTNO_OP |-> Move("WANTYES", "WILL", "WILL"),
     WANTYES |-> Move("NO", "none", "none"),
     WANTYES_OP |-> Move("NO", "none", "none")]

\* In WANTNO the event is that of a WONT.
on_dont ==
    [NO |-> Move("NO", "none", "none"),
     YES |-> Move("NO", "WONT", "DONT"),
     WANTNO |-> Move("NO", "none", "WONT"),
     WANTNO_OP |-> Move("WANTYES", "WILL", "WILL"),
     WANTYES |-> Move("NO", "none", "none"),
     WANTYES_OP |-> Move("NO", "none", "none")]

\* Mutant: what turns an option on is acknowledged, even when it is an answer.
OnReceived_acknowledged(verb, supported, state) ==
    LET move == [WILL |-> on_will(supported), WONT |-> on_wont,
                 DO |-> on_do(supported), DONT |-> on_dont][verb][state]
    IN IF move.next # "YES" THEN move
       ELSE [move EXCEPT !.send = IF verb = "WILL" THEN "DO" ELSE "WILL"]

\* The cases of _negotiate; supported is _check_telopt for the end the verb speaks of.
OnReceived(verb, supported, state) ==
    [WILL |-> on_will(supported), WONT |-> on_wont,
     DO |-> on_do(supported), DONT |-> on_dont][verb][state]

\* The cases of telnet_negotiate: a request of the user, which may only be noted.
ask_enable(verb) ==
    [NO |-> Move("WANTYES", verb, "none"),
     YES |-> Move("YES", "none", "none"),
     WANTNO |-> Move("WANTNO_OP", "none", "none"),
     WANTNO_OP |-> Move("WANTNO_OP", "none", "none"),
     WANTYES |-> Move("WANTYES", "none", "none"),
     WANTYES_OP |-> Move("WANTYES", "none", "none")]

ask_disable(verb) ==
    [NO |-> Move("NO", "none", "none"),
     YES |-> Move("WANTNO", verb, "none"),
     WANTNO |-> Move("WANTNO", "none", "none"),
     WANTNO_OP |-> Move("WANTNO", "none", "none"),
     WANTYES |-> Move("WANTYES_OP", "none", "none"),
     WANTYES_OP |-> Move("WANTYES_OP", "none", "none")]

OnAsked(verb, state) ==
    IF verb \in {"WILL", "DO"} THEN ask_enable(verb)[state] ELSE ask_disable(verb)[state]
=============================================================================
