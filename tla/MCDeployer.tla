----------------------------- MODULE MCDeployer -----------------------------
(* Deployer for TLC. *)
EXTENDS Deployer

\* Nothing that becomes a command, whatever else is in the file.
NoCommand == {<<>>, <<"nl">>, <<"x">>, <<"ff", "x", "nl">>}

OneCommand == {<<"x", "nl">>}

\* The same two commands, of one and two characters, and perhaps a line that becomes none.
TwoCommands ==
    {<<"x", "nl", "x", "x", "nl">>,
     <<"nl", "x", "nl", "nl", "x", "x", "nl", "x">>,
     <<"x", "nl", "x", "x", "nl", "x", "ff", "nl">>}
=============================================================================
