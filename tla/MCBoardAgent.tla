---------------------------- MODULE MCBoardAgent ----------------------------
(* Two nodes that answer one query each, and a handful of commands. *)
EXTENDS BoardAgent

OneRespType == {19}     \* NODE_PAYLOAD_TYPE_RESP_NODE_ID
OneParity == {0}        \* no piece is read
OnePort == {0}

Command(port, type, size) == [port_id |-> port, type |-> type, size |-> size]

\* Queries of a node and of one that there is not, and a command of every other size.
SomeCommands ==
    {Command(0, 51, "fits"), Command(2, 51, "fits"), Command(1, 51, "long"),
     Command(0, CMD_POWER_SWITCH, "short"), Command(1, CMD_POWER_SWITCH, "none")}
=============================================================================
