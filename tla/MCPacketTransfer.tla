-------------------------- MODULE MCPacketTransfer --------------------------
(* Two nodes that report one type besides the current, and a port without a node. *)
EXTENDS PacketTransfer

OneRespType == {19}     \* NODE_PAYLOAD_TYPE_RESP_NODE_ID

\* A parity that is not the type: that of the current.
OneParity == {25}

ThreePorts == 0..2

Command(port, type, size) == [port_id |-> port, type |-> type, size |-> size]

\* Queries of one node and of one that there is not, and a command of every other size.
SomeCommands ==
    {Command(0, 51, "fits"), Command(0, 57, "fits"), Command(0, 57, "long"),
     Command(2, 51, "fits"),
     Command(1, CMD_POWER_SWITCH, "short"), Command(1, CMD_POWER_SWITCH, "none")}
=============================================================================
