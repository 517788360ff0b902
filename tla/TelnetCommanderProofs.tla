----------------------- MODULE TelnetCommanderProofs -----------------------
(***************************************************************************)
(* For any number of boards, commands and descriptors, and however texts    *)
(* are cut: the types of TelnetCommander, that a prompt is met only for the *)
(* command that was typed last, that a login with an accepted account       *)
(* reaches a shell, and that client and board never wait for each other.    *)
(***************************************************************************)
EXTENDS TelnetCommander, SequenceTheorems, TLAPS

USE DeployProcessAssumption, TelnetAssumption

-----------------------------------------------------------------------------
(* The inductive invariant. *)

On(text) == Contains(screen, text)

\* Only the last text may be a prompt.
AtMostLast(s) == \A i \in 1..Len(s) : s[i] = "]#" => i = Len(s)

\* The board has one line to read at most, and the one it reads next is for it.
OneLine ==
    /\ tel_pc \in Idle \cup {"login"} => lines = <<>>
    /\ tel_pc = "username" => lines = <<>> \/ (lines = <<"username">> /\ shell = "login")
    /\ tel_pc = "password" => lines = <<>> \/ (lines = <<"password">> /\ shell = "password")
    /\ tel_pc = "command" => command # 0 /\ (lines = <<>> \/ lines = <<"command">>)
    /\ tconn # "up" => lines = <<>>

\* A prompt is the last text of the screen; it was written by a shell that has read
\* everything, and none is left over when a command is typed.
PromptLast ==
    /\ AtMostLast(screen)
    /\ On("]#") => /\ shell = "shell" /\ lines = <<>>
                   /\ tel_pc \in {"username", "password", "command"}
    /\ On("]#") /\ tel_pc = "command" => ran[board] # <<>> /\ Last(ran[board]) = command

\* The question for the password is that of this login.
AskedOnce ==
    /\ tel_pc \in {"connected", "login"} => shell = "login" /\ ~On("password:")
    /\ tel_pc = "username" /\ On("password:") => shell = "password"

\* A refusal is that of this login, and the board asks for a name again.
RefusedOnce ==
    /\ tel_pc \in {"connected", "login", "username"} => ~On("incorrect")
    /\ tel_pc = "password" /\ On("incorrect") => lines = <<>> /\ shell = "login"

\* A board that accepts the account does not say "incorrect" to it, and has it in a
\* shell when the login has returned.
Accepted ==
    accepted =>
        /\ tel_pc = "password" => ~On("incorrect")
        /\ tel_pc = "ready" /\ (tel_ret = "OK" \/ tconn = "up") => shell = "shell"
        /\ tel_pc = "command" /\ tconn = "up" => shell = "shell"

\* Then the text that the client waits for is on the screen, or the board has a line.
Answerable ==
    accepted /\ ~Splits /\ tconn = "up" =>
        /\ tel_pc \in {"connected", "login"} => On("login:")
        /\ tel_pc = "username" => lines # <<>> \/ On("password:") \/ On("]#")
        /\ tel_pc \in {"password", "command"} => lines # <<>> \/ On("]#")

Dialogue == OneLine /\ PromptLast /\ AskedOnce /\ RefusedOnce /\ Accepted /\ Answerable

TelnetInvariant == TelnetTypeOK /\ Dialogue

-----------------------------------------------------------------------------
(* What one recv(2) takes, and what of it matches. *)

\* A screen taken in two, whole texts only.
LEMMA WholeParts ==
    ASSUME NEW s \in Seq(Texts), NEW n \in 1..Len(s), NEW c, NEW r,
           c = SubSeq(s, 1, n), r = SubSeq(s, n + 1, Len(s))
    PROVE  /\ c \in Seq(Texts) /\ r \in Seq(Texts)
           /\ \A x : Contains(c, x) \/ Contains(r, x) <=> Contains(s, x)
           /\ AtMostLast(s) => AtMostLast(r) /\ (Contains(c, "]#") => ~Contains(r, "]#"))
<1>1. /\ c \in Seq(Texts) /\ Len(c) = n /\ \A i \in 1..n : c[i] = s[i]
      /\ r \in Seq(Texts) /\ Len(r) = Len(s) - n /\ \A i \in 1..Len(r) : r[i] = s[n + i]
  OBVIOUS
<1>2. ASSUME NEW x
      PROVE  Contains(c, x) \/ Contains(r, x) <=> Contains(s, x)
  <2>1. Contains(c, x) \/ Contains(r, x) => Contains(s, x)
    BY <1>1 DEF Contains
  <2>2. ASSUME NEW i \in 1..Len(s), s[i] = x
        PROVE  Contains(c, x) \/ Contains(r, x)
    <3>1. CASE i <= n
      BY <1>1, <2>2, <3>1 DEF Contains
    <3>2. CASE i > n
      <4>1. i - n \in 1..Len(r) /\ r[i - n] = x
        BY <1>1, <2>2, <3>2
      <4>2. QED BY <4>1 DEF Contains
    <3>3. QED BY <3>1, <3>2
  <2>3. QED BY <2>1, <2>2 DEF Contains
<1>3. ASSUME AtMostLast(s)
      PROVE  AtMostLast(r) /\ (Contains(c, "]#") => ~Contains(r, "]#"))
  BY <1>1, <1>3 DEF AtMostLast, Contains
<1>4. QED BY <1>1, <1>2, <1>3

\* A screen taken in two within a text, which is then recognised in neither part.
LEMMA CutParts ==
    ASSUME NEW s \in Seq(Texts), NEW n \in 1..Len(s), NEW c, NEW r,
           c = Append(SubSeq(s, 1, n - 1), "text"),
           r = <<"text">> \o SubSeq(s, n + 1, Len(s))
    PROVE  /\ c \in Seq(Texts) /\ r \in Seq(Texts)
           /\ \A x \in Texts \ {"text"} : Contains(c, x) \/ Contains(r, x) => Contains(s, x)
           /\ AtMostLast(s) => AtMostLast(r) /\ ~Contains(c, "]#")
<1>1. "text" \in Texts
  BY DEF Texts
<1>2. /\ c \in Seq(Texts) /\ Len(c) = n /\ c[n] = "text"
      /\ \A i \in 1..(n - 1) : c[i] = s[i]
  BY <1>1
<1>3. SubSeq(s, n + 1, Len(s)) \in Seq(Texts) /\ <<"text">> \in Seq(Texts)
  BY <1>1
<1>4. /\ r \in Seq(Texts) /\ Len(r) = 1 + (Len(s) - n) /\ r[1] = "text"
      /\ \A i \in 2..Len(r) : r[i] = s[n + i - 1]
  BY <1>3
<1>5. ASSUME NEW x \in Texts \ {"text"}, Contains(c, x) \/ Contains(r, x)
      PROVE  Contains(s, x)
  <2>1. CASE Contains(c, x)
    BY <1>2, <2>1 DEF Contains
  <2>2. CASE Contains(r, x)
    <3>1. PICK i \in 1..Len(r) : r[i] = x
      BY <2>2 DEF Contains
    <3>2. i \in 2..Len(r) /\ n + i - 1 \in 1..Len(s) /\ s[n + i - 1] = x
      BY <1>4, <3>1
    <3>3. QED BY <3>2 DEF Contains
  <2>3. QED BY <1>5, <2>1, <2>2
<1>6. ASSUME AtMostLast(s)
      PROVE  AtMostLast(r) /\ ~Contains(c, "]#")
  <2>1. ASSUME NEW i \in 1..Len(r), r[i] = "]#"
        PROVE  i = Len(r)
    <3>1. i \in 2..Len(r) /\ n + i - 1 \in 1..Len(s) /\ s[n + i - 1] = "]#"
      BY <1>4, <2>1
    <3>2. n + i - 1 = Len(s)
      BY <1>6, <3>1 DEF AtMostLast
    <3>3. QED BY <1>4, <3>2
  <2>2. ~Contains(c, "]#")
    BY <1>2, <1>6 DEF AtMostLast, Contains
  <2>3. QED BY <2>1, <2>2 DEF AtMostLast
<1>7. QED BY <1>2, <1>4, <1>5, <1>6

\* match() finds the one text of a list, and the first of two.
LEMMA MatchOne ==
    ASSUME NEW c, NEW a
    PROVE  match(c, <<a>>) = IF Contains(c, a) THEN 1 ELSE 0
<1> DEFINE L == <<a>>
           found == {i \in DOMAIN L : Contains(c, L[i])}
<1>1. DOMAIN L = {1} /\ L[1] = a
  OBVIOUS
<1>2. CASE Contains(c, a)
  <2>1. found = {1}
    BY <1>1, <1>2
  <2>2. (CHOOSE i \in found : \A j \in found : i <= j) = 1
    BY <2>1
  <2>3. QED BY <1>2, <2>1, <2>2 DEF match
<1>3. CASE ~Contains(c, a)
  <2>1. found = {}
    BY <1>1, <1>3
  <2>2. QED BY <1>3, <2>1 DEF match
<1>4. QED BY <1>2, <1>3

\* match() prefers the first of two texts.
LEMMA MatchTwo ==
    ASSUME NEW c, NEW a, NEW b
    PROVE  match(c, <<a, b>>) = IF Contains(c, a) THEN 1 ELSE IF Contains(c, b) THEN 2 ELSE 0
<1> DEFINE L == <<a, b>>
           found == {i \in DOMAIN L : Contains(c, L[i])}
<1>1. DOMAIN L = {1, 2} /\ L[1] = a /\ L[2] = b
  OBVIOUS
<1>2. CASE Contains(c, a)
  <2>1. 1 \in found /\ found \subseteq {1, 2}
    BY <1>1, <1>2
  <2>2. (CHOOSE i \in found : \A j \in found : i <= j) = 1
    <3>1. \A j \in found : 1 <= j
      BY <2>1
    <3>2. \A i \in found : (\A j \in found : i <= j) => i = 1
      BY <2>1
    <3>3. QED BY <2>1, <3>1, <3>2
  <2>3. QED BY <1>2, <2>1, <2>2 DEF match
<1>3. CASE ~Contains(c, a) /\ Contains(c, b)
  <2>1. found = {2}
    BY <1>1, <1>3
  <2>2. (CHOOSE i \in found : \A j \in found : i <= j) = 2
    BY <2>1
  <2>3. QED BY <1>3, <2>1, <2>2 DEF match
<1>4. CASE ~Contains(c, a) /\ ~Contains(c, b)
  <2>1. found = {}
    BY <1>1, <1>4
  <2>2. QED BY <1>4, <2>1 DEF match
<1>5. QED BY <1>2, <1>3, <1>4

\* One turn of telnet_commander_recv_until_match in the function that waits at pc: what is
\* left on the screen was on it; a text that matched was on it, no prompt is left behind
\* one, and without a match none that was desired is lost, unless it was cut.
Turn(pc, i) ==
    /\ tel_pc = pc /\ proc' \in {"running", "dead"}
    /\ screen' \in Seq(Texts) /\ AtMostLast(screen)'
    /\ \A x \in Texts \ {"text"} : On(x)' => On(x)
    /\ i # 0 => \E x \in Texts \ {"text"} :
                    x = DesireList[pc][i] /\ On(x) /\ (x = "]#" => ~On("]#")')
    /\ i = 0 /\ ~Splits =>
           \A k \in DOMAIN DesireList[pc] :
               On(DesireList[pc][k]) => On(DesireList[pc][k])'
    /\ UNCHANGED <<fds, socket, telnet, tconn, shell, account, board, command, ran>>

\* What match() says of a chunk.
LEMMA MatchMeans ==
    ASSUME NEW pc \in Waits, NEW c, NEW i, i = match(c, DesireList[pc])
    PROVE  /\ i # 0 => \E x \in Texts \ {"text"} : x = DesireList[pc][i] /\ Contains(c, x)
           /\ i = 0 => \A k \in DOMAIN DesireList[pc] : ~Contains(c, DesireList[pc][k])
<1>1. CASE pc = "login"
  <2>1. DesireList[pc] = <<"login:">>
    BY <1>1 DEF DesireList
  <2>2. i = IF Contains(c, "login:") THEN 1 ELSE 0
    BY <2>1, MatchOne
  <2>3. DOMAIN DesireList[pc] = {1} /\ DesireList[pc][1] = "login:"
    BY <2>1
  <2>4. "login:" \in Texts \ {"text"}
    BY DEF Texts
  <2>5. QED BY <2>2, <2>3, <2>4
<1>2. CASE pc = "username"
  <2>1. DesireList[pc] = <<"password:", "]#">>
    BY <1>2 DEF DesireList
  <2>2. i = IF Contains(c, "password:") THEN 1 ELSE IF Contains(c, "]#") THEN 2 ELSE 0
    BY <2>1, MatchTwo
  <2>3. DOMAIN DesireList[pc] = {1, 2} /\ DesireList[pc][1] = "password:" /\ DesireList[pc][2] = "]#"
    BY <2>1
  <2>4. "password:" \in Texts \ {"text"} /\ "]#" \in Texts \ {"text"}
    BY DEF Texts
  <2>5. QED BY <2>2, <2>3, <2>4
<1>3. CASE pc = "password"
  <2>1. DesireList[pc] = <<"incorrect", "]#">>
    BY <1>3 DEF DesireList
  <2>2. i = IF Contains(c, "incorrect") THEN 1 ELSE IF Contains(c, "]#") THEN 2 ELSE 0
    BY <2>1, MatchTwo
  <2>3. DOMAIN DesireList[pc] = {1, 2} /\ DesireList[pc][1] = "incorrect" /\ DesireList[pc][2] = "]#"
    BY <2>1
  <2>4. "incorrect" \in Texts \ {"text"} /\ "]#" \in Texts \ {"text"}
    BY DEF Texts
  <2>5. QED BY <2>2, <2>3, <2>4
<1>4. CASE pc = "command"
  <2>1. DesireList[pc] = <<"]#">>
    BY <1>4 DEF DesireList
  <2>2. i = IF Contains(c, "]#") THEN 1 ELSE 0
    BY <2>1, MatchOne
  <2>3. DOMAIN DesireList[pc] = {1} /\ DesireList[pc][1] = "]#"
    BY <2>1
  <2>4. "]#" \in Texts \ {"text"}
    BY DEF Texts
  <2>5. QED BY <2>2, <2>3, <2>4
<1>5. QED BY <1>1, <1>2, <1>3, <1>4 DEF Waits

\* strstr(3) finds nothing that is not in the chunk, and all of it if there is no NUL.
LEMMA SeenParts ==
    ASSUME NEW chunk \in Seq(Texts), NEW seen \in Seen(chunk)
    PROVE  /\ \A x : Contains(seen, x) => Contains(chunk, x)
           /\ ~Splits => seen = chunk
<1>1. CASE seen = chunk
  BY <1>1
<1>2. CASE \E n \in 1..Len(chunk) : Splits /\ seen = SubSeq(chunk, 1, n)
  <2>1. PICK n \in 1..Len(chunk) : Splits /\ seen = SubSeq(chunk, 1, n)
    BY <1>2
  <2>2. DOMAIN seen = 1..n /\ (\A k \in 1..n : seen[k] = chunk[k])
    BY <2>1
  <2>3. 1..n \subseteq DOMAIN chunk
    OBVIOUS
  <2>4. QED BY <2>1, <2>2, <2>3 DEF Contains
<1>3. QED BY <1>1, <1>2 DEF Seen

\* Every chunk of telnet_commander_recv_until_match, cut or not, makes such a turn.
LEMMA RecvTurns ==
    ASSUME TelnetTypeOK, AtMostLast(screen), NEW pc \in Waits, NEW i, NEW sends,
           telnet_commander_recv(pc, i, sends)
    PROVE  Turn(pc, i)
<1>0. PICK part \in Received : \E seen \in Seen(part.chunk) :
          /\ i = match(seen, DesireList[pc])
          /\ screen' = part.rest
          /\ telnet_recv(part.chunk, sends)
  BY DEF telnet_commander_recv
<1>1. PICK seen \in Seen(part.chunk) :
          /\ i = match(seen, DesireList[pc])
          /\ screen' = part.rest
          /\ telnet_recv(part.chunk, sends)
  BY <1>0
<1>2. screen \in Seq(Texts) /\ proc \in {"running", "dead"}
  BY DEF TelnetTypeOK, ProcessTypeOK
<1>3. proc' \in {"running", "dead"}
  BY <1>1, <1>2 DEF telnet_recv, telnet_commander_send, SendToClosed
<1>4. /\ part.chunk \in Seq(Texts) /\ part.rest \in Seq(Texts)
      /\ \A x \in Texts \ {"text"} :
             Contains(part.chunk, x) \/ Contains(part.rest, x) => Contains(screen, x)
      /\ AtMostLast(part.rest)
      /\ Contains(part.chunk, "]#") => ~Contains(part.rest, "]#")
      /\ ~Splits => \A x : Contains(screen, x) => Contains(part.chunk, x) \/ Contains(part.rest, x)
  <2>1. CASE \E n \in 1..Len(screen) :
                 part = [chunk |-> SubSeq(screen, 1, n),
                         rest |-> SubSeq(screen, n + 1, Len(screen))]
    <3>1. PICK n \in 1..Len(screen) :
              part = [chunk |-> SubSeq(screen, 1, n),
                      rest |-> SubSeq(screen, n + 1, Len(screen))]
      BY <2>1
    <3>2. /\ part.chunk = SubSeq(screen, 1, n)
          /\ part.rest = SubSeq(screen, n + 1, Len(screen))
      BY <3>1
    <3>3. QED BY <1>2, <3>2, WholeParts
  <2>2. CASE \E n \in {k \in 1..Len(screen) : Splits /\ screen[k] \notin {"text", "IAC"}} :
                 part = [chunk |-> Append(SubSeq(screen, 1, n - 1), "text"),
                         rest |-> <<"text">> \o SubSeq(screen, n + 1, Len(screen))]
    <3>1. PICK n \in 1..Len(screen) :
              /\ Splits
              /\ part = [chunk |-> Append(SubSeq(screen, 1, n - 1), "text"),
                         rest |-> <<"text">> \o SubSeq(screen, n + 1, Len(screen))]
      BY <2>2
    <3>2. /\ part.chunk = Append(SubSeq(screen, 1, n - 1), "text")
          /\ part.rest = <<"text">> \o SubSeq(screen, n + 1, Len(screen))
      BY <3>1
    <3>3. QED BY <1>2, <3>1, <3>2, CutParts
  <2>3. QED BY <2>1, <2>2 DEF Received
<1>5. /\ i # 0 => \E x \in Texts \ {"text"} : x = DesireList[pc][i] /\ Contains(part.chunk, x)
      /\ i = 0 /\ ~Splits =>
             \A k \in DOMAIN DesireList[pc] : ~Contains(part.chunk, DesireList[pc][k])
  <2>1. /\ i # 0 => \E x \in Texts \ {"text"} : x = DesireList[pc][i] /\ Contains(seen, x)
        /\ i = 0 => \A k \in DOMAIN DesireList[pc] : ~Contains(seen, DesireList[pc][k])
    BY <1>1, MatchMeans
  <2>2. /\ \A x : Contains(seen, x) => Contains(part.chunk, x)
        /\ ~Splits => seen = part.chunk
    BY <1>1, <1>4, SeenParts
  <2>3. QED BY <2>1, <2>2
<1>6. i # 0 => \E x \in Texts \ {"text"} :
                   x = DesireList[pc][i] /\ On(x) /\ (x = "]#" => ~On("]#")')
  BY <1>1, <1>4, <1>5 DEF On
<1>7. i = 0 /\ ~Splits =>
          \A k \in DOMAIN DesireList[pc] :
              On(DesireList[pc][k]) => On(DesireList[pc][k])'
  BY <1>1, <1>4, <1>5 DEF On
<1>8. /\ screen' \in Seq(Texts) /\ AtMostLast(screen)'
      /\ \A x \in Texts \ {"text"} : On(x)' => On(x)
  BY <1>1, <1>4 DEF On, AtMostLast
<1>9. tel_pc = pc /\ UNCHANGED <<fds, socket, telnet, tconn, shell, account, board, command, ran>>
  BY DEF telnet_commander_recv, TelAt
<1>10. QED BY <1>3, <1>6, <1>7, <1>8, <1>9 DEF Turn

\* The texts that each function waits for.
LEMMA DesiredTexts ==
    /\ DOMAIN DesireList["login"] = {1} /\ DesireList["login"][1] = "login:"
    /\ DOMAIN DesireList["username"] = {1, 2}
    /\ DesireList["username"][1] = "password:" /\ DesireList["username"][2] = "]#"
    /\ DOMAIN DesireList["password"] = {1, 2}
    /\ DesireList["password"][1] = "incorrect" /\ DesireList["password"][2] = "]#"
    /\ DOMAIN DesireList["command"] = {1} /\ DesireList["command"][1] = "]#"
  BY DEF DesireList

-----------------------------------------------------------------------------
(* The calls. *)

\* A line is typed when the board has none to read, and it has read it if it closed.
LEMMA TypeOne ==
    ASSUME NEW line \in Lines, Type(line), lines = <<>>
    PROVE  /\ lines' \in Seq(Lines) /\ (lines' = <<>> \/ lines' = <<line>>)
           /\ tconn = "up" => lines' = <<line>>
           /\ tconn # "up" => lines' = <<>>
  BY DEF Type

\* telnet_commander_connect begins a dialogue, or leaves none, whatever was before it.
LEMMA ConnectKeeps ==
    ASSUME TelnetInvariant, NEW t \in Targets, telnet_commander_connect(t)
    PROVE  TelnetInvariant'
<1> USE DEF TelnetInvariant
<1>1. PICK fd \in Fds \cup {NoFd} :
          /\ NewFd(fd)
          /\ \/ /\ fd # NoFd
                /\ fds' = fds \cup {fd} /\ socket' = fd /\ telnet' = "live"
                /\ tconn' = "up" /\ screen' = <<"IAC", "text", "login:">>
                /\ TelReturn("connected", "OK")
                /\ UNCHANGED proc
             \/ /\ socket' = NoFd /\ telnet' = "null"
                /\ tconn' = "none" /\ screen' = <<>>
                /\ TelReturn("idle", "FAIL")
                /\ proc' \in {"running"} \cup
                             IF fd = NoFd /\ telnet = "uninit" THEN {"dead"} ELSE {}
                /\ UNCHANGED fds
  BY DEF telnet_commander_connect
<1>2. /\ board' = t /\ shell' = "login" /\ lines' = <<>> /\ command' = 0
      /\ UNCHANGED <<account, ran>>
  BY DEF telnet_commander_connect
<1>3. "IAC" \in Texts /\ "text" \in Texts /\ "login:" \in Texts
  BY DEF Texts
<1>4. CASE tel_pc' = "connected"
  <2>1. /\ fd # NoFd /\ fds' = fds \cup {fd} /\ socket' = fd /\ telnet' = "live"
        /\ tconn' = "up" /\ screen' = <<"IAC", "text", "login:">> /\ tel_ret' = "OK"
        /\ UNCHANGED proc
    BY <1>1, <1>4 DEF TelReturn
  <2>2. screen' \in Seq(Texts) /\ Len(screen') = 3 /\ screen'[3] = "login:"
        /\ \A k \in 1..3 : screen'[k] \in {"IAC", "text", "login:"}
    BY <1>3, <2>1
  <2>3. TelnetTypeOK'
    BY <1>2, <1>4, <2>1, <2>2
       DEF TelnetTypeOK, ProcessTypeOK, Idle, Results, account
  <2>4. On("login:")' /\ ~On("]#")' /\ ~On("password:")' /\ ~On("incorrect")'
    BY <2>2 DEF On, Contains
  <2>5. AtMostLast(screen)'
    BY <2>2 DEF AtMostLast
  <2>6. Dialogue'
    BY <1>2, <1>4, <2>4, <2>5
       DEF Dialogue, OneLine, PromptLast, AskedOnce, RefusedOnce, Accepted, Answerable, Idle
  <2>7. QED BY <2>3, <2>6
<1>5. CASE tel_pc' = "idle"
  <2>1. /\ socket' = NoFd /\ telnet' = "null" /\ tconn' = "none" /\ screen' = <<>>
        /\ tel_ret' = "FAIL" /\ proc' \in {"running", "dead"} /\ UNCHANGED fds
    BY <1>1, <1>5 DEF TelReturn
  <2>2. TelnetTypeOK'
    BY <1>2, <1>5, <2>1 DEF TelnetTypeOK, ProcessTypeOK, Idle, Results, account
  <2>3. AtMostLast(screen)' /\ \A x : ~On(x)'
    BY <2>1 DEF AtMostLast, On, Contains
  <2>4. Dialogue'
    BY <1>2, <1>5, <2>1, <2>3
       DEF Dialogue, OneLine, PromptLast, AskedOnce, RefusedOnce, Accepted, Answerable, Idle
  <2>5. QED BY <2>2, <2>4
<1>6. QED BY <1>1, <1>4, <1>5 DEF TelReturn

\* telnet_commander_login only begins to wait for the first text of the board.
LEMMA LoginKeeps ==
    ASSUME TelnetInvariant, telnet_commander_login
    PROVE  TelnetInvariant'
<1> USE DEF TelnetInvariant, telnet_commander_login, TelAt, TelWait, account
<1>1. TelnetTypeOK'
  BY DEF TelnetTypeOK, ProcessTypeOK, Waits
<1>2. AtMostLast(screen)' = AtMostLast(screen) /\ \A x : On(x)' = On(x)
  BY DEF AtMostLast, On
<1>3. Dialogue'
  BY <1>2 DEF Dialogue, OneLine, PromptLast, AskedOnce, RefusedOnce, Accepted, Answerable, Idle
<1>4. QED BY <1>1, <1>3

\* A command is typed when no prompt is on the screen and the board has nothing to read.
LEMMA SendLineKeeps ==
    ASSUME TelnetInvariant, NEW c \in Commands, telnet_commander_send_one_line(c)
    PROVE  TelnetInvariant'
<1> USE DEF TelnetInvariant
<1>1. /\ tel_pc = "ready" /\ tel_pc' = "command" /\ tel_ret' = tel_ret /\ command' = c
      /\ Type("command")
      /\ UNCHANGED <<fds, socket, telnet, tconn, screen, shell, account, board, ran>>
  BY DEF telnet_commander_send_one_line, TelAt, TelWait
<1>2. proc' \in {"running", "dead"}
  BY DEF telnet_commander_send_one_line, telnet_commander_send, SendToClosed, TelnetTypeOK,
         ProcessTypeOK
<1>3. lines = <<>> /\ ~On("]#")
  BY <1>1 DEF Dialogue, OneLine, PromptLast, Idle
<1>4. /\ lines' \in Seq(Lines) /\ (lines' = <<>> \/ lines' = <<"command">>)
      /\ tconn = "up" => lines' = <<"command">>
      /\ tconn # "up" => lines' = <<>>
  BY <1>1, <1>3, TypeOne DEF Lines
<1>5. c \in Nat /\ c # 0
  BY DEF Commands
<1>6. TelnetTypeOK'
  BY <1>1, <1>2, <1>4 DEF TelnetTypeOK, ProcessTypeOK, Waits, account
<1>7. AtMostLast(screen)' = AtMostLast(screen) /\ \A x : On(x)' = On(x)
  BY <1>1 DEF AtMostLast, On
<1>8. OneLine' /\ PromptLast' /\ AskedOnce' /\ RefusedOnce'
  BY <1>1, <1>3, <1>4, <1>5, <1>7 DEF Dialogue, OneLine, PromptLast, AskedOnce, RefusedOnce, Idle
<1>9. Accepted'
  BY <1>1, <1>7 DEF Dialogue, Accepted, account
<1>10. Answerable'
  BY <1>1, <1>4, <1>7 DEF Answerable
<1>11. QED BY <1>6, <1>8, <1>9, <1>10 DEF Dialogue

\* telnet_commander_close forgets the dialogue.
LEMMA CloseKeeps ==
    ASSUME TelnetInvariant, telnet_commander_close
    PROVE  TelnetInvariant'
<1> USE DEF TelnetInvariant, telnet_commander_close, TelReturn, account
<1>1. TelnetTypeOK'
  BY DEF TelnetTypeOK, ProcessTypeOK, Idle, Results
<1>2. AtMostLast(screen)' /\ \A x : ~On(x)'
  BY DEF AtMostLast, On, Contains
<1>3. Dialogue'
  BY <1>2 DEF Dialogue, OneLine, PromptLast, AskedOnce, RefusedOnce, Accepted, Answerable, Idle
<1>4. QED BY <1>1, <1>3

-----------------------------------------------------------------------------
(* What ends the waits. *)

\* A turn keeps the types, if the function goes on to a place and a result of its own.
LEMMA TurnTypes ==
    ASSUME TelnetTypeOK, NEW pc \in Waits, NEW i, Turn(pc, i),
           tel_pc' \in Waits \cup Idle, tel_ret' \in Results, lines' \in Seq(Lines)
    PROVE  TelnetTypeOK'
  BY DEF TelnetTypeOK, ProcessTypeOK, Turn, account

\* The user name is typed to the board that asked for it.
LEMMA LoginAskedKeeps ==
    ASSUME TelnetInvariant, login_asked
    PROVE  TelnetInvariant'
<1> USE DEF TelnetInvariant
<1>1. /\ telnet_commander_recv("login", 1, TRUE) /\ Type("username")
      /\ tel_pc' = "username" /\ tel_ret' = tel_ret
  BY DEF login_asked, TelWait
<1>2. "login" \in Waits /\ "username" \in Waits /\ "username" \in Lines
  BY DEF Waits, Lines
<1>3. Turn("login", 1)
  BY <1>1, <1>2, RecvTurns DEF Dialogue, PromptLast
<1>4. /\ tel_pc = "login" /\ AtMostLast(screen)'
      /\ \A x \in {"]#", "password:", "incorrect"} : On(x)' => On(x)
      /\ UNCHANGED <<tconn, shell, accepted, board, command, ran>>
  BY <1>3 DEF Turn, Texts, account
<1>5. /\ lines = <<>> /\ shell = "login"
      /\ ~On("]#") /\ ~On("password:") /\ ~On("incorrect")
  BY <1>4 DEF Dialogue, OneLine, PromptLast, AskedOnce, RefusedOnce
<1>6. /\ lines' \in Seq(Lines) /\ (lines' = <<>> \/ lines' = <<"username">>)
      /\ tconn = "up" => lines' = <<"username">>
      /\ tconn # "up" => lines' = <<>>
  BY <1>1, <1>2, <1>5, TypeOne
<1>7. TelnetTypeOK'
  BY <1>1, <1>2, <1>3, <1>6, TurnTypes DEF TelnetTypeOK
<1>8. OneLine' /\ PromptLast' /\ AskedOnce' /\ RefusedOnce' /\ Accepted'
  BY <1>1, <1>4, <1>5, <1>6
     DEF OneLine, PromptLast, AskedOnce, RefusedOnce, Accepted, Idle
<1>9. lines' # <<>> \/ tconn' # "up"
  BY <1>4, <1>6
<1>10. Answerable'
  BY <1>1, <1>9 DEF Answerable
<1>11. QED BY <1>7, <1>8, <1>10 DEF Dialogue

\* The password is typed to the board that asked for it, or the login is given up.
LEMMA PasswordAskedKeeps ==
    ASSUME TelnetInvariant, password_asked
    PROVE  TelnetInvariant'
<1> USE DEF TelnetInvariant
<1>1. /\ telnet_commander_recv("username", 1, FALSE) \/ telnet_commander_recv("username", 1, TRUE)
      /\ \/ tel_pc' = "idle" /\ tel_ret' = "FAIL" /\ lines' = lines
         \/ tel_pc' = "password" /\ tel_ret' = tel_ret /\ Type("password")
  BY DEF password_asked, TelReturn, TelWait
<1>2. "username" \in Waits /\ "password" \in Waits /\ "idle" \in Idle /\ "password" \in Lines
  BY DEF Waits, Lines, Idle
<1>3. Turn("username", 1)
  BY <1>1, <1>2, RecvTurns DEF Dialogue, PromptLast
<1>4. /\ tel_pc = "username" /\ AtMostLast(screen)' /\ On("password:")
      /\ \A x \in {"]#", "password:", "incorrect"} : On(x)' => On(x)
      /\ UNCHANGED <<tconn, shell, accepted, board, command, ran>>
  BY <1>3, DesiredTexts DEF Turn, Texts, account
<1>5. lines = <<>> /\ shell = "password" /\ ~On("]#") /\ ~On("incorrect")
  BY <1>4 DEF Dialogue, OneLine, PromptLast, AskedOnce, RefusedOnce
<1>6. /\ lines' \in Seq(Lines) /\ (lines' = <<>> \/ lines' = <<"password">>)
      /\ tel_pc' = "password" /\ tconn = "up" => lines' = <<"password">>
      /\ tel_pc' = "idle" \/ tconn # "up" => lines' = <<>>
  <2>1. CASE tel_pc' = "idle" /\ lines' = lines
    BY <1>5, <2>1 DEF TelnetTypeOK
  <2>2. CASE tel_pc' = "password" /\ Type("password")
    BY <1>2, <1>5, <2>2, TypeOne
  <2>3. QED BY <1>1, <2>1, <2>2
<1>7. TelnetTypeOK'
  BY <1>1, <1>2, <1>3, <1>6, TurnTypes DEF TelnetTypeOK, Results
<1>8. OneLine' /\ PromptLast' /\ AskedOnce' /\ RefusedOnce' /\ Accepted'
  BY <1>1, <1>4, <1>5, <1>6
     DEF OneLine, PromptLast, AskedOnce, RefusedOnce, Accepted, Idle
<1>9. tel_pc' = "idle" \/ lines' # <<>> \/ tconn' # "up"
  BY <1>1, <1>4, <1>6
<1>10. Answerable'
  BY <1>1, <1>9 DEF Answerable
<1>11. QED BY <1>7, <1>8, <1>10 DEF Dialogue

\* What a turn that met a prompt, or "incorrect", leaves to the next call.
LEMMA PromptMet ==
    ASSUME TelnetInvariant, NEW pc \in Waits, NEW i, Turn(pc, i),
           lines = <<>>, ~On("]#")', tel_pc' = "ready", tel_ret' = "OK", lines' = lines,
           accepted => shell = "shell"
    PROVE  TelnetInvariant'
<1> USE DEF TelnetInvariant
<1>1. AtMostLast(screen)' /\ UNCHANGED <<tconn, shell, accepted>>
  BY DEF Turn, account
<1>2. TelnetTypeOK'
  BY TurnTypes DEF TelnetTypeOK, Results, Idle
<1>3. Dialogue'
  BY <1>1
     DEF Dialogue, OneLine, PromptLast, AskedOnce, RefusedOnce, Accepted, Answerable, Idle
<1>4. QED BY <1>2, <1>3

\* The board has let the user in without a password.
LEMMA PasswordNotAskedKeeps ==
    ASSUME TelnetInvariant, password_not_asked
    PROVE  TelnetInvariant'
<1> USE DEF TelnetInvariant
<1>1. /\ telnet_commander_recv("username", 2, FALSE)
      /\ tel_pc' = "ready" /\ tel_ret' = "OK" /\ lines' = lines
  BY DEF password_not_asked, TelReturn
<1>2. "username" \in Waits
  BY DEF Waits
<1>3. Turn("username", 2)
  BY <1>1, <1>2, RecvTurns DEF Dialogue, PromptLast
<1>4. On("]#") /\ ~On("]#")'
  BY <1>3, DesiredTexts DEF Turn
<1>5. shell = "shell" /\ lines = <<>>
  BY <1>4 DEF Dialogue, PromptLast
<1>6. QED BY <1>1, <1>2, <1>3, <1>4, <1>5, PromptMet

\* The board has answered the password; "incorrect" is taken for a prompt, but not said to
\* an account that it accepts.
LEMMA PasswordAnsweredKeeps ==
    ASSUME TelnetInvariant, password_answered
    PROVE  TelnetInvariant'
<1> USE DEF TelnetInvariant
<1>1. PICK i \in {1, 2} : telnet_commander_recv("password", i, FALSE)
  BY DEF password_answered
<1>2. tel_pc' = "ready" /\ tel_ret' = "OK" /\ lines' = lines
  BY DEF password_answered, TelReturn
<1>3. "password" \in Waits
  BY DEF Waits
<1>4. Turn("password", i)
  BY <1>1, <1>3, RecvTurns DEF Dialogue, PromptLast
<1>5. tel_pc = "password"
  BY <1>4 DEF Turn
<1>6. lines = <<>> /\ ~On("]#")' /\ (accepted => shell = "shell")
  <2>1. CASE i = 1
    <3>1. On("incorrect") /\ (On("]#")' => On("]#"))
      BY <1>4, <2>1, DesiredTexts DEF Turn, Texts
    <3>2. QED BY <1>5, <3>1 DEF Dialogue, PromptLast, RefusedOnce, Accepted
  <2>2. CASE i = 2
    <3>1. On("]#") /\ ~On("]#")'
      BY <1>4, <2>2, DesiredTexts DEF Turn
    <3>2. QED BY <3>1 DEF Dialogue, PromptLast
  <2>3. QED BY <1>1, <2>1, <2>2
<1>7. QED BY <1>2, <1>3, <1>4, <1>6, PromptMet

\* A prompt after a command is that of the shell which has just run it.
LEMMA PromptMeansRunning ==
    ASSUME TelnetInvariant, prompt_after_command
    PROVE  /\ Turn("command", 1) /\ On("]#") /\ ~On("]#")'
           /\ shell = "shell" /\ lines = <<>>
           /\ ran[board] # <<>> /\ Last(ran[board]) = command
           /\ UNCHANGED <<board, command, ran>>
<1>1. "command" \in Waits
  BY DEF Waits
<1>2. Turn("command", 1)
  BY <1>1, RecvTurns DEF TelnetInvariant, Dialogue, PromptLast, prompt_after_command
<1>3. On("]#") /\ ~On("]#")' /\ tel_pc = "command" /\ UNCHANGED <<board, command, ran>>
  BY <1>2, DesiredTexts DEF Turn
<1>4. QED BY <1>2, <1>3 DEF TelnetInvariant, Dialogue, PromptLast

\* So that the next command is typed to a shell that has nothing else to read.
LEMMA PromptAfterCommandKeeps ==
    ASSUME TelnetInvariant, prompt_after_command
    PROVE  TelnetInvariant'
<1>1. tel_pc' = "ready" /\ tel_ret' = "OK" /\ lines' = lines /\ "command" \in Waits
  BY DEF prompt_after_command, TelReturn, Waits
<1>2. QED BY <1>1, PromptMeansRunning, PromptMet

\* A chunk without a match is dropped: with whole texts, nothing that is waited for is in it.
LEMMA NoMatchKeeps ==
    ASSUME TelnetInvariant, no_match
    PROVE  TelnetInvariant'
<1> USE DEF TelnetInvariant
<1>1. PICK pc \in Waits : telnet_commander_recv(pc, 0, FALSE)
  BY DEF no_match
<1>2. UNCHANGED <<tel_pc, tel_ret, lines>>
  BY DEF no_match
<1>3. Turn(pc, 0)
  BY <1>1, RecvTurns DEF Dialogue, PromptLast
<1>4. TelnetTypeOK'
  BY <1>2, <1>3, TurnTypes DEF TelnetTypeOK
<1>5. /\ tel_pc = pc /\ AtMostLast(screen)'
      /\ \A x \in {"]#", "password:", "incorrect"} : On(x)' => On(x)
      /\ UNCHANGED <<tconn, shell, accepted, board, command, ran>>
  BY <1>3 DEF Turn, Texts, account
<1>6. OneLine' /\ AskedOnce' /\ RefusedOnce' /\ Accepted'
  BY <1>2, <1>5 DEF Dialogue, OneLine, AskedOnce, RefusedOnce, Accepted
<1>7. PromptLast'
  BY <1>2, <1>5 DEF Dialogue, PromptLast
<1>8. ~Splits => \A k \in DOMAIN DesireList[pc] :
                     On(DesireList[pc][k]) => On(DesireList[pc][k])'
  BY <1>3 DEF Turn
<1>9. ~Splits => /\ pc = "login" /\ On("login:") => On("login:")'
                 /\ pc = "username" /\ On("password:") => On("password:")'
                 /\ pc \in {"username", "password", "command"} /\ On("]#") => On("]#")'
  <2>1. CASE pc = "login"
    BY <1>8, <2>1, DesiredTexts
  <2>2. CASE pc = "username"
    BY <1>8, <2>2, DesiredTexts
  <2>3. CASE pc = "password"
    BY <1>8, <2>3, DesiredTexts
  <2>4. CASE pc = "command"
    BY <1>8, <2>4, DesiredTexts
  <2>5. QED BY <2>1, <2>2, <2>3, <2>4 DEF Waits
<1>10. Answerable'
  BY <1>2, <1>5, <1>9 DEF Dialogue, Answerable, Waits
<1>11. QED BY <1>4, <1>6, <1>7, <1>10 DEF Dialogue

\* The end of the stream fails the call, and leaves no line behind.
LEMMA RecvClosedKeeps ==
    ASSUME TelnetInvariant, recv_closed
    PROVE  TelnetInvariant'
<1> USE DEF TelnetInvariant
<1>1. /\ screen = <<>> /\ tconn = "closed" /\ tel_ret' = "FAIL"
      /\ tel_pc' \in {"ready", "idle"}
      /\ UNCHANGED <<proc, fds, socket, telnet, tconn, lines, screen, shell, account, board,
                     command, ran>>
  BY DEF recv_closed, TelReturn
<1>2. TelnetTypeOK'
  BY <1>1 DEF TelnetTypeOK, ProcessTypeOK, Idle, Results, account
<1>3. lines = <<>> /\ AtMostLast(screen)' /\ \A x : ~On(x)'
  BY <1>1 DEF Dialogue, OneLine, AtMostLast, On, Contains
<1>4. Dialogue'
  BY <1>1, <1>3
     DEF Dialogue, OneLine, PromptLast, AskedOnce, RefusedOnce, Accepted, Answerable, Idle
<1>5. QED BY <1>2, <1>4

-----------------------------------------------------------------------------
(* The board. *)

\* What the board writes comes last; a prompt in it is the only one.
LEMMA Written ==
    ASSUME NEW s \in Seq(Texts), NEW a \in Texts, NEW b \in Texts, NEW w,
           w = s \o <<a, b>>, ~Contains(s, "]#"), a # "]#"
    PROVE  /\ w \in Seq(Texts) /\ AtMostLast(w)
           /\ \A x : Contains(w, x) <=> Contains(s, x) \/ x = a \/ x = b
<1>1. /\ w \in Seq(Texts) /\ Len(w) = Len(s) + 2
      /\ \A k \in 1..Len(s) : w[k] = s[k]
      /\ w[Len(s) + 1] = a /\ w[Len(s) + 2] = b
  OBVIOUS
<1>2. Len(s) \in Nat
  OBVIOUS
<1>3. \A k \in 1..Len(w) : k \in 1..Len(s) \/ k = Len(s) + 1 \/ k = Len(w)
  BY <1>1, <1>2
<1>4. Len(s) + 1 \in 1..Len(w) /\ Len(s) + 2 \in 1..Len(w) /\ 1..Len(s) \subseteq 1..Len(w)
  BY <1>1, <1>2
<1>5. AtMostLast(w)
  BY <1>1, <1>3 DEF AtMostLast, Contains
<1>6. \A x : Contains(w, x) <=> Contains(s, x) \/ x = a \/ x = b
  BY <1>1, <1>3, <1>4 DEF Contains
<1>7. QED BY <1>1, <1>5, <1>6

\* The same of a single text that is no prompt.
LEMMA WrittenOne ==
    ASSUME NEW s \in Seq(Texts), NEW a \in Texts, NEW w,
           w = s \o <<a>>, ~Contains(s, "]#"), a # "]#"
    PROVE  /\ w \in Seq(Texts) /\ AtMostLast(w)
           /\ \A x : Contains(w, x) <=> Contains(s, x) \/ x = a
<1>1. /\ w \in Seq(Texts) /\ Len(w) = Len(s) + 1
      /\ \A k \in 1..Len(s) : w[k] = s[k]
      /\ w[Len(s) + 1] = a
  OBVIOUS
<1>2. Len(s) \in Nat
  OBVIOUS
<1>3. \A k \in 1..Len(w) : k \in 1..Len(s) \/ k = Len(w)
  BY <1>1, <1>2
<1>4. Len(s) + 1 \in 1..Len(w) /\ 1..Len(s) \subseteq 1..Len(w)
  BY <1>1, <1>2
<1>5. AtMostLast(w)
  BY <1>1, <1>3 DEF AtMostLast, Contains
<1>6. \A x : Contains(w, x) <=> Contains(s, x) \/ x = a
  BY <1>1, <1>3, <1>4 DEF Contains
<1>7. QED BY <1>1, <1>5, <1>6

\* The board reads the only line there is, while the client waits and no prompt is written.
LEMMA BoardReadsOne ==
    ASSUME TelnetInvariant, NEW at, BoardReads(at)
    PROVE  /\ tel_pc \in {"username", "password", "command"}
           /\ tel_pc = "username" => at = "login" /\ Head(lines) = "username"
           /\ tel_pc = "password" => at = "password" /\ Head(lines) = "password"
           /\ tel_pc = "command" => Head(lines) = "command" /\ command # 0
           /\ accepted /\ tel_pc = "command" => at = "shell"
           /\ ~On("]#") /\ lines' = <<>> /\ shell = at /\ tconn = "up"
           /\ UNCHANGED <<proc, fds, tel_pc, tel_ret, socket, telnet, tconn, account, board,
                          command>>
<1>1. /\ tconn = "up" /\ shell = at /\ lines # <<>> /\ lines' = Tail(lines)
      /\ UNCHANGED <<proc, fds, tel_pc, tel_ret, socket, telnet, tconn, account, board,
                     command>>
  BY DEF BoardReads
<1>2. tel_pc \in {"username", "password", "command"}
  BY <1>1 DEF TelnetInvariant, TelnetTypeOK, Dialogue, OneLine, Idle, Waits
<1>3. /\ lines = <<tel_pc>>
      /\ tel_pc = "username" => shell = "login"
      /\ tel_pc = "password" => shell = "password"
      /\ tel_pc = "command" => command # 0
  BY <1>1, <1>2 DEF TelnetInvariant, Dialogue, OneLine
<1>4. Head(lines) = tel_pc /\ lines' = <<>>
  BY <1>1, <1>3
<1>5. ~On("]#")
  BY <1>1 DEF TelnetInvariant, Dialogue, PromptLast
<1>6. accepted /\ tel_pc = "command" => shell = "shell"
  BY <1>1 DEF TelnetInvariant, Dialogue, Accepted
<1>7. QED BY <1>1, <1>2, <1>3, <1>4, <1>5, <1>6

\* Reading keeps the types, if what is written, the next state of the board and the
\* history have theirs.
LEMMA ReadTypes ==
    ASSUME TelnetTypeOK, NEW at, BoardReads(at), lines' = <<>>,
           screen' \in Seq(Texts), shell' \in {"login", "password", "shell"},
           ran' \in [Targets -> Seq(Commands)]
    PROVE  TelnetTypeOK'
  BY DEF TelnetTypeOK, ProcessTypeOK, BoardReads, account

\* A prompt that answers the client: the dialogue in which the board is in its shell.
LEMMA PromptWritten ==
    ASSUME TelnetInvariant, NEW at, BoardReads(at),
           BoardWrites(<<"text", "]#">>), shell' = "shell",
           ran' \in [Targets -> Seq(Commands)],
           tel_pc = "command" => ran'[board] # <<>> /\ Last(ran'[board]) = command,
           at # "password" => ~On("password:") \/ tel_pc = "command",
           tel_pc = "password" => accepted
    PROVE  TelnetInvariant'
<1>1. /\ tel_pc \in {"username", "password", "command"}
      /\ tel_pc = "command" => command # 0
      /\ tel_pc = "username" => at = "login"
      /\ ~On("]#") /\ lines' = <<>> /\ tconn = "up"
      /\ UNCHANGED <<tel_pc, tel_ret, tconn, accepted, board, command>>
  BY BoardReadsOne DEF account
<1>2. screen \in Seq(Texts) /\ "text" \in Texts /\ "]#" \in Texts
  BY DEF TelnetInvariant, TelnetTypeOK, Texts
<1>3. /\ screen' \in Seq(Texts) /\ AtMostLast(screen)'
      /\ \A x : On(x)' <=> On(x) \/ x = "text" \/ x = "]#"
  <2>1. screen' = screen \o <<"text", "]#">> /\ ~Contains(screen, "]#")
    BY <1>1 DEF BoardWrites, On
  <2>2. PICK a \in Texts, b \in Texts : a = "text" /\ b = "]#"
    BY <1>2
  <2>3. screen' = screen \o <<a, b>> /\ a # "]#"
    BY <2>1, <2>2
  <2>4. /\ screen' \in Seq(Texts) /\ AtMostLast(screen')
        /\ \A x : Contains(screen', x) <=> Contains(screen, x) \/ x = a \/ x = b
    BY <2>1, <2>3, <1>2, Written
  <2>5. QED BY <2>2, <2>4 DEF On, AtMostLast
<1>4. TelnetTypeOK'
  BY <1>1, <1>3, ReadTypes DEF TelnetInvariant
<1>5. On("]#")'
  BY <1>3
<1>6. (On("password:")' => On("password:")) /\ (On("incorrect")' => On("incorrect"))
  BY <1>3
<1>7. OneLine' /\ Answerable'
  BY <1>1, <1>5 DEF OneLine, Answerable, Idle
<1>8. PromptLast'
  BY <1>1, <1>3 DEF PromptLast
<1>9. AskedOnce'
  BY <1>1, <1>6 DEF AskedOnce
<1>10. RefusedOnce' /\ Accepted'
  BY <1>1, <1>6 DEF TelnetInvariant, Dialogue, RefusedOnce, Accepted
<1>11. QED BY <1>4, <1>7, <1>8, <1>9, <1>10 DEF TelnetInvariant, Dialogue

\* The login program asks for a password, or lets a user without one in.
LEMMA BoardReadsNameKeeps ==
    ASSUME TelnetInvariant, BoardReadsName
    PROVE  TelnetInvariant'
<1>1. BoardReads("login") /\ ran' = ran
  BY DEF BoardReadsName
<1>2. /\ tel_pc \in {"username", "password", "command"} /\ tel_pc # "password"
      /\ tel_pc = "command" => command # 0 /\ Head(lines) = "command" /\ ~accepted
      /\ ~On("]#") /\ lines' = <<>> /\ tconn = "up" /\ shell = "login"
      /\ UNCHANGED <<tel_pc, tel_ret, tconn, accepted, board, command>>
  BY <1>1, BoardReadsOne DEF account
<1>3. CASE shell' = "password" /\ BoardWrites(<<"password:">>)
  <2>1. screen \in Seq(Texts) /\ "password:" \in Texts
    BY DEF TelnetInvariant, TelnetTypeOK, Texts
  <2>2. /\ screen' \in Seq(Texts) /\ AtMostLast(screen)'
        /\ \A x : On(x)' <=> On(x) \/ x = "password:"
    <3>1. screen' = screen \o <<"password:">> /\ ~Contains(screen, "]#")
      BY <1>2, <1>3 DEF BoardWrites, On
    <3>2. /\ screen' \in Seq(Texts) /\ AtMostLast(screen')
          /\ \A x : Contains(screen', x) <=> Contains(screen, x) \/ x = "password:"
      BY <3>1, <2>1, WrittenOne
    <3>3. QED BY <3>2 DEF On, AtMostLast
  <2>3. TelnetTypeOK'
    BY <1>1, <1>2, <1>3, <2>2, ReadTypes DEF TelnetInvariant, TelnetTypeOK
  <2>4. ~On("]#")' /\ On("password:")' /\ (On("incorrect")' => On("incorrect"))
    BY <1>2, <2>2
  <2>5. OneLine' /\ PromptLast' /\ AskedOnce'
    BY <1>2, <1>3, <2>2, <2>4 DEF OneLine, PromptLast, AskedOnce, Idle
  <2>6. RefusedOnce' /\ Accepted' /\ Answerable'
    BY <1>2, <2>4 DEF TelnetInvariant, Dialogue, RefusedOnce, Accepted, Answerable
  <2>7. QED BY <2>3, <2>5, <2>6 DEF TelnetInvariant, Dialogue
<1>4. CASE Head(lines) = "username" /\ shell' = "shell" /\ BoardWrites(<<"text", "]#">>)
  <2>1. tel_pc = "username"
    BY <1>2, <1>4
  <2>2. ~On("password:")
    BY <1>2, <2>1 DEF TelnetInvariant, Dialogue, AskedOnce
  <2>3. ran' \in [Targets -> Seq(Commands)]
    BY <1>1 DEF TelnetInvariant, TelnetTypeOK
  <2>4. QED BY <1>1, <1>4, <2>1, <2>2, <2>3, PromptWritten
<1>5. QED BY <1>3, <1>4 DEF BoardReadsName

\* The login program lets the user in, or refuses and asks for a name again.
LEMMA BoardReadsPasswordKeeps ==
    ASSUME TelnetInvariant, BoardReadsPassword
    PROVE  TelnetInvariant'
<1>1. BoardReads("password") /\ ran' = ran
  BY DEF BoardReadsPassword
<1>2. /\ tel_pc \in {"username", "password", "command"} /\ tel_pc # "username"
      /\ tel_pc = "command" => command # 0 /\ Head(lines) = "command" /\ ~accepted
      /\ tel_pc = "password" => Head(lines) = "password"
      /\ ~On("]#") /\ lines' = <<>> /\ tconn = "up"
      /\ UNCHANGED <<tel_pc, tel_ret, tconn, accepted, board, command>>
  BY <1>1, BoardReadsOne DEF account
<1>3. CASE accepted /\ Head(lines) = "password"
  <2>1. tel_pc = "password" /\ shell' = "shell" /\ BoardWrites(<<"text", "]#">>)
    BY <1>2, <1>3 DEF BoardReadsPassword
  <2>2. ran' \in [Targets -> Seq(Commands)]
    BY <1>1 DEF TelnetInvariant, TelnetTypeOK
  <2>3. QED BY <1>1, <1>3, <2>1, <2>2, PromptWritten
<1>4. CASE ~(accepted /\ Head(lines) = "password")
  <2>1. ~accepted /\ shell' = "login" /\ BoardWrites(<<"incorrect", "login:">>)
    BY <1>2, <1>4 DEF BoardReadsPassword
  <2>2. screen \in Seq(Texts) /\ "incorrect" \in Texts /\ "login:" \in Texts
    BY DEF TelnetInvariant, TelnetTypeOK, Texts
  <2>3. /\ screen' \in Seq(Texts) /\ AtMostLast(screen)'
        /\ \A x : On(x)' <=> On(x) \/ x = "incorrect" \/ x = "login:"
    <3>1. screen' = screen \o <<"incorrect", "login:">> /\ ~Contains(screen, "]#")
      BY <1>2, <2>1 DEF BoardWrites, On
    <3>2. PICK a \in Texts, b \in Texts : a = "incorrect" /\ b = "login:"
      BY <2>2
    <3>3. screen' = screen \o <<a, b>> /\ a # "]#"
      BY <3>1, <3>2
    <3>4. /\ screen' \in Seq(Texts) /\ AtMostLast(screen')
          /\ \A x : Contains(screen', x) <=> Contains(screen, x) \/ x = a \/ x = b
      BY <3>1, <3>3, <2>2, Written
    <3>5. QED BY <3>2, <3>4 DEF On, AtMostLast
  <2>4. TelnetTypeOK'
    BY <1>1, <1>2, <2>1, <2>3, ReadTypes DEF TelnetInvariant, TelnetTypeOK
  <2>5. ~On("]#")'
    BY <1>2, <2>3
  <2>6. OneLine' /\ PromptLast' /\ AskedOnce' /\ RefusedOnce' /\ Accepted' /\ Answerable'
    BY <1>2, <2>1, <2>3, <2>5
       DEF OneLine, PromptLast, AskedOnce, RefusedOnce, Accepted, Answerable, Idle
  <2>7. QED BY <2>4, <2>6 DEF TelnetInvariant, Dialogue
<1>5. QED BY <1>3, <1>4

\* The shell runs the line it reads, which is the command that was sent last, and then
\* writes its prompt.
LEMMA BoardRunsCommandKeeps ==
    ASSUME TelnetInvariant, BoardRunsCommand
    PROVE  TelnetInvariant'
<1>1. /\ BoardReads("shell") /\ BoardWrites(<<"text", "]#">>) /\ shell' = shell
      /\ ran' = [ran EXCEPT ![board] = Append(@, command)]
  BY DEF BoardRunsCommand
<1>2. tel_pc = "command" /\ command # 0 /\ shell = "shell"
  BY <1>1, BoardReadsOne
<1>3. command \in Commands /\ board \in Targets /\ ran \in [Targets -> Seq(Commands)]
  BY <1>2 DEF TelnetInvariant, TelnetTypeOK
<1>4. ran[board] \in Seq(Commands)
  BY <1>3
<1>5. /\ Append(ran[board], command) \in Seq(Commands) /\ Append(ran[board], command) # <<>>
      /\ Last(Append(ran[board], command)) = command
  BY <1>3, <1>4 DEF Last
<1>6. ran' \in [Targets -> Seq(Commands)] /\ ran'[board] = Append(ran[board], command)
  BY <1>1, <1>3, <1>5
<1>7. QED BY <1>1, <1>2, <1>5, <1>6, PromptWritten

\* What the board wrote before it closed is still read, and no line is left to it.
LEMMA BoardClosesKeeps ==
    ASSUME TelnetInvariant, BoardCloses
    PROVE  TelnetInvariant'
<1> USE DEF TelnetInvariant, BoardCloses, account
<1>1. TelnetTypeOK'
  BY DEF TelnetTypeOK, ProcessTypeOK
<1>2. AtMostLast(screen)' = AtMostLast(screen) /\ \A x : On(x)' = On(x)
  BY DEF AtMostLast, On
<1>3. Dialogue'
  BY <1>2
     DEF Dialogue, OneLine, PromptLast, AskedOnce, RefusedOnce, Accepted, Answerable
<1>4. QED BY <1>1, <1>3

-----------------------------------------------------------------------------
(* The whole. *)

\* Before the first call nothing is on the screen, and the board has nothing to read.
LEMMA TelnetBegins == TelnetInit => TelnetInvariant
<1> SUFFICES ASSUME TelnetInit
             PROVE  TelnetInvariant
  OBVIOUS
<1> USE DEF TelnetInit, ProcessInit, telnet_commander_create
<1>1. 1 \in Targets /\ \A t \in Targets : <<>> \in Seq(Commands)
  BY DEF Targets
<1>2. TelnetTypeOK
  BY <1>1 DEF TelnetTypeOK, ProcessTypeOK, Idle, Results
<1>3. AtMostLast(screen) /\ \A x : ~On(x)
  BY DEF AtMostLast, On, Contains
<1>4. Dialogue
  BY <1>3
     DEF Dialogue, OneLine, PromptLast, AskedOnce, RefusedOnce, Accepted, Answerable, Idle
<1>5. QED BY <1>2, <1>4 DEF TelnetInvariant

\* Every step of the client and of the boards keeps the dialogue.
LEMMA TelnetStep == TelnetInvariant /\ [TelnetNext]_tel_vars => TelnetInvariant'
<1> SUFFICES ASSUME TelnetInvariant, [TelnetNext]_tel_vars
             PROVE  TelnetInvariant'
  OBVIOUS
<1>1. CASE TelnetCall
  BY <1>1, ConnectKeeps, LoginKeeps, SendLineKeeps, CloseKeeps DEF TelnetCall
<1>2. CASE TelnetContinue
  BY <1>2, LoginAskedKeeps, PasswordAskedKeeps, PasswordNotAskedKeeps, PasswordAnsweredKeeps,
     PromptAfterCommandKeeps, NoMatchKeeps, RecvClosedKeeps DEF TelnetContinue
<1>3. CASE TelnetBoard
  BY <1>3, BoardReadsNameKeeps, BoardReadsPasswordKeeps, BoardRunsCommandKeeps,
     BoardClosesKeeps DEF TelnetBoard
<1>4. CASE UNCHANGED tel_vars
  <2> USE <1>4 DEF tel_vars, tel_own, account
  <2>1. TelnetTypeOK'
    BY DEF TelnetInvariant, TelnetTypeOK, ProcessTypeOK
  <2>2. AtMostLast(screen)' = AtMostLast(screen) /\ \A x : On(x)' = On(x)
    BY DEF AtMostLast, On
  <2>3. Dialogue'
    BY <2>2
       DEF TelnetInvariant, Dialogue, OneLine, PromptLast, AskedOnce, RefusedOnce, Accepted,
           Answerable
  <2>4. QED BY <2>1, <2>3 DEF TelnetInvariant
<1>5. QED BY <1>1, <1>2, <1>3, <1>4 DEF TelnetNext

\* The dialogue tells what the client may rely on.
LEMMA DialogueMeans == TelnetInvariant => AcceptedLoginMeansShell /\ NoMutualWait
<1>1. TelnetInvariant => AcceptedLoginMeansShell
  BY DEF TelnetInvariant, Dialogue, Accepted, AcceptedLoginMeansShell, LoginMeansShell
<1>2. TelnetInvariant => NoMutualWait
  <2> SUFFICES ASSUME TelnetInvariant, accepted, ~Splits, tel_pc \in Waits, tconn = "up",
                      lines = <<>>
               PROVE  screen # <<>>
    BY DEF NoMutualWait
  <2>1. \E x : On(x)
    BY DEF TelnetInvariant, Dialogue, Answerable, Waits
  <2>2. QED BY <2>1 DEF On, Contains
<1>3. QED BY <1>1, <1>2

\* The inductive invariant of the client and the boards.
LEMMA TelnetInvariantHolds == TelnetSpec => []TelnetInvariant
  BY TelnetBegins, TelnetStep, PTL DEF TelnetSpec

\* For any number of boards, commands and descriptors, the TelnetCommander structure, its
\* session and the boards keep their types (telnet_commander.c:184-318).
THEOREM TelnetTypeCorrect == TelnetSpec => []TelnetTypeOK
<1>1. TelnetInvariant => TelnetTypeOK
  BY DEF TelnetInvariant
<1>2. QED BY <1>1, TelnetInvariantHolds, PTL

\* However the stream is cut, a login to an account that the board accepts has reached a
\* shell when it returns RET_OK (telnet_commander.c:228-281).
THEOREM AcceptedLogins == TelnetSpec => []AcceptedLoginMeansShell
<1>1. TelnetInvariant => AcceptedLoginMeansShell
  BY DialogueMeans
<1>2. QED BY <1>1, TelnetInvariantHolds, PTL

\* With whole texts and a good account the client waits only while the board has a line to
\* read, or the text is on its way (telnet_commander.c:101-133).
THEOREM NeverBothWait == TelnetSpec => []NoMutualWait
<1>1. TelnetInvariant => NoMutualWait
  BY DialogueMeans
<1>2. QED BY <1>1, TelnetInvariantHolds, PTL

\* For any cut of the stream, telnet_commander_send_one_line returns RET_OK only for the
\* command that the board ran last (telnet_commander.c:283-297).
THEOREM PromptsMeanRan == TelnetSpec => PromptMeansRan
<1>1. TelnetInvariant /\ [TelnetNext]_tel_vars =>
          [tel_pc = "command" /\ tel_pc' = "ready" /\ tel_ret' = "OK"
              => ran[board] # <<>> /\ Last(ran[board]) = command]_tel_vars
  <2> SUFFICES ASSUME TelnetInvariant, TelnetNext,
                      tel_pc = "command", tel_pc' = "ready", tel_ret' = "OK"
               PROVE  ran[board] # <<>> /\ Last(ran[board]) = command
    OBVIOUS
  <2>1. ~TelnetCall
    BY DEF TelnetCall, telnet_commander_connect, telnet_commander_login,
           telnet_commander_send_one_line, telnet_commander_close, Overwritten, TelAt, Idle
  <2>2. ~TelnetBoard
    BY DEF TelnetBoard, BoardReadsName, BoardReadsPassword, BoardRunsCommand, BoardReads,
           BoardCloses
  <2>3. prompt_after_command
    BY <2>1, <2>2
       DEF TelnetNext, TelnetContinue, login_asked, password_asked, password_not_asked,
           password_answered, no_match, recv_closed, telnet_commander_recv, TelAt, TelReturn
  <2>4. QED BY <2>3, PromptMeansRunning
<1>2. QED BY <1>1, TelnetInvariantHolds, PTL DEF TelnetSpec, PromptMeansRan
=============================================================================
