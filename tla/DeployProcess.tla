--------------------------- MODULE DeployProcess ---------------------------
(***************************************************************************)
(* What the parts of one run of the deployer share: the process, which a    *)
(* signal or exit(1) may end at any send, its table of open descriptors,    *)
(* the boards it is told to deploy, and the results its functions return.   *)
(***************************************************************************)
EXTENDS Integers, FiniteSets

CONSTANTS
    NumTargets,     \* number of boards in "deploy targets"
    MaxFds          \* descriptors the process may open for sockets (RLIMIT_NOFILE)

ASSUME DeployProcessAssumption ==
    /\ NumTargets \in Nat \ {0}
    /\ MaxFds \in Nat \ {0}

VARIABLES
    proc,           \* "running", or "dead": ended by SIGPIPE, exit(1) or a crash
    fds             \* the open socket descriptors

Targets == 1..NumTargets
Fds == 1..MaxFds
NoFd == -1
Results == {"OK", "OOM", "FAIL"}

ProcessTypeOK ==
    /\ proc \in {"running", "dead"}
    /\ fds \subseteq Fds

ProcessInit ==
    /\ proc = "running"
    /\ fds = {}

\* socket(2) returns the lowest free descriptor, or -1 when all are in use.
NewFd(fd) ==
    \/ fd = NoFd /\ fds = Fds
    \/ fd \in Fds \ fds /\ \A lower \in 1..(fd - 1) : lower \in fds

Socket(fd) ==
    /\ NewFd(fd)
    /\ fds' = fds \cup ({fd} \ {NoFd})

\* What write(2) or send(2) does to the process when the peer has closed: the
\* bytes are lost, or SIGPIPE, which nothing here catches, ends the process.
SendToClosed == proc' \in {"running", "dead"}
=============================================================================
