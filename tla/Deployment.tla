----------------------------- MODULE Deployment -----------------------------
(***************************************************************************)
(* What a run of the deployer promises, without sockets, replies or         *)
(* prompts: the boards are handled one at a time and in order; the commands *)
(* of a board run in order and only while the board has every file whole;   *)
(* and a board is reported as a success only if all of its commands ran.    *)
(***************************************************************************)
EXTENDS Integers, Sequences

CONSTANTS Targets, Files

VARIABLES
    alive,
    listed,         \* how many commands every board is to run
    verdict, stored, ran

vars == <<alive, listed, verdict, stored, ran>>

TypeOK ==
    /\ alive \in BOOLEAN /\ listed \in Nat
    /\ verdict \in [Targets -> {"none", "busy", "success", "fail"}]
    /\ stored \in [Targets -> SUBSET Files]
    /\ ran \in [Targets -> Seq(Nat)]

Init ==
    /\ alive = TRUE /\ listed = 0
    /\ verdict = [t \in Targets |-> "none"]
    /\ stored = [t \in Targets |-> {}]
    /\ ran = [t \in Targets |-> <<>>]

\* The commands are listed before any board is begun, and forgotten after the last.
List ==
    /\ \/ listed' \in Nat /\ \A t \in Targets : verdict[t] = "none"
       \/ listed' = 0 /\ \A t \in Targets : verdict[t] \in {"success", "fail"}
    /\ UNCHANGED <<alive, verdict, stored, ran>>

Busy(t) == alive /\ verdict[t] = "busy"

Begin(t) ==
    /\ alive
    /\ verdict[t] = "none"
    /\ \A earlier \in Targets : earlier < t => verdict[earlier] \in {"success", "fail"}
    /\ verdict' = [verdict EXCEPT ![t] = "busy"]
    /\ UNCHANGED <<alive, listed, stored, ran>>

\* The file arrives whole, or an upload begins and the old file is gone.
Upload(t, f) ==
    /\ Busy(t) /\ ran[t] = <<>>
    /\ \E kept \in {{}, {f}} : stored' = [stored EXCEPT ![t] = (@ \ {f}) \cup kept]
    /\ UNCHANGED <<alive, listed, verdict, ran>>

Run(t) ==
    /\ Busy(t) /\ stored[t] = Files
    /\ Len(ran[t]) < listed
    /\ ran' = [ran EXCEPT ![t] = Append(@, Len(@) + 1)]
    /\ UNCHANGED <<alive, listed, verdict, stored>>

Succeed(t) ==
    /\ Busy(t) /\ stored[t] = Files
    /\ Len(ran[t]) = listed
    /\ verdict' = [verdict EXCEPT ![t] = "success"]
    /\ UNCHANGED <<alive, listed, stored, ran>>

Fail(t) ==
    /\ Busy(t)
    /\ verdict' = [verdict EXCEPT ![t] = "fail"]
    /\ UNCHANGED <<alive, listed, stored, ran>>

\* The process is killed in the middle of a board.
Die(t) ==
    /\ Busy(t)
    /\ alive' = FALSE
    /\ UNCHANGED <<listed, verdict, stored, ran>>

Next ==
    \/ List
    \/ \E t \in Targets :
           \/ Begin(t)
           \/ \E f \in Files : Upload(t, f)
           \/ Run(t)
           \/ Succeed(t)
           \/ Fail(t)
           \/ Die(t)

Spec == Init /\ [][Next]_vars
=============================================================================
