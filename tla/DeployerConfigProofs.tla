------------------------ MODULE DeployerConfigProofs ------------------------
(***************************************************************************)
(* Lemmas about the configuration of the deployer, for any command files:   *)
(* what the reading of the command file leaves in the list of commands, and *)
(* what each stage of main leaves in the Deployer.                          *)
(***************************************************************************)
EXTENDS DeployerConfig, SequenceTheorems, FiniteSetTheorems, TLAPS

USE FtpAssumption, TelnetAssumption, DeployProcessAssumption

-----------------------------------------------------------------------------
(* The lines of a text. *)

\* A line has one beginning: no newline is inside it.
LEMMA OneBeginning ==
    ASSUME NEW text, NEW j \in Nat, NEW i \in 1..j, NEW k \in 1..j,
           IsLine(text, i, j), IsLine(text, k, j)
    PROVE  i = k
<1>1. ASSUME NEW a \in 1..j, NEW b \in 1..j, IsLine(text, a, j), IsLine(text, b, j), a < b
      PROVE  FALSE
  <2>1. b # 1 /\ b - 1 \in a..(j - 1)
    BY <1>1 DEF IsLine
  <2>2. text[b - 1] # "nl" /\ text[b - 1] = "nl"
    BY <1>1, <2>1 DEF IsLine
  <2>3. QED BY <2>2
<1>2. i \in Int /\ k \in Int
  OBVIOUS
<1>3. ~(i < k) /\ ~(k < i)
  BY <1>1
<1>4. QED BY <1>2, <1>3

LEMMA LineEndsFinite ==
    ASSUME NEW text, NEW n \in Nat
    PROVE  /\ IsFiniteSet(LineEnds(text, n)) /\ Cardinality(LineEnds(text, n)) \in Nat
           /\ LineEnds(text, n) \subseteq 1..n
<1>1. LineEnds(text, n) \subseteq 1..n
  BY DEF LineEnds
<1>2. IsFiniteSet(1..n)
  BY FS_Interval
<1>3. QED BY <1>1, <1>2, FS_Subset, FS_CardinalityType

\* Texts with the same ends of lines have the same lines.
LEMMA SameEnds ==
    ASSUME NEW text, NEW n, NEW m, LineEnds(text, n) = LineEnds(text, m)
    PROVE  LinesRead(text, n) = LinesRead(text, m)
  BY Zenon DEF LinesRead

\* A character that ends no line adds none.
LEMMA NoLineMore ==
    ASSUME NEW text, NEW n \in Nat, \A i \in 1..(n + 1) : ~IsLine(text, i, n + 1)
    PROVE  LinesRead(text, n + 1) = LinesRead(text, n)
<1>1. LineEnds(text, n + 1) = LineEnds(text, n)
  BY DEF LineEnds
<1>2. QED BY <1>1, SameEnds

\* A newline that ends a line adds that line to those that were read.
LEMMA OneLineMore ==
    ASSUME NEW text, NEW n \in Nat, NEW i \in 1..(n + 1), IsLine(text, i, n + 1)
    PROVE  LinesRead(text, n + 1) = Append(LinesRead(text, n), SubSeq(text, i, n))
<1> DEFINE E == LineEnds(text, n)
           F == LineEnds(text, n + 1)
           c == Cardinality(E)
           Rank(S, j) == Cardinality({e \in S : e <= j})
<1>1. F = E \cup {n + 1} /\ n + 1 \notin E /\ E \subseteq 1..n
  BY DEF LineEnds
<1>2. IsFiniteSet(E) /\ c \in Nat /\ c = Cardinality(E) /\ Cardinality(F) = c + 1
  BY <1>1, LineEndsFinite, FS_AddElement
<1> HIDE DEF E, F
<1>3. \A j \in E : {e \in F : e <= j} = {e \in E : e <= j}
  BY <1>1
<1>4. {e \in F : e <= n + 1} = F
  <2>1. \A e \in F : e <= n + 1
    BY <1>1
  <2>2. QED BY <2>1, Zenon
<1>5. \A j \in E : Rank(F, j) = Rank(E, j) /\ Rank(E, j) \in 0..c
  <2>1. ASSUME NEW j \in E PROVE Rank(E, j) \in 0..c
    <3>1. {e \in E : e <= j} \subseteq E
      OBVIOUS
    <3>2. Cardinality({e \in E : e <= j}) <= c
      BY <1>2, <3>1, FS_Subset
    <3>3. Cardinality({e \in E : e <= j}) \in Nat
      BY <1>2, <3>1, FS_Subset, FS_CardinalityType
    <3>4. QED BY <1>2, <3>2, <3>3
  <2>2. QED BY <1>3, <2>1
<1>6. Rank(F, n + 1) = c + 1
  BY <1>2, <1>4
<1> HIDE DEF Rank, c
<1>7. ASSUME NEW k \in 1..c PROVE NthEnd(F, k) = NthEnd(E, k)
  <2>1. \A j : (j \in F /\ Rank(F, j) = k) <=> (j \in E /\ Rank(E, j) = k)
    <3>1. k # c + 1 /\ c \in Nat
      BY <1>2
    <3>2. ASSUME NEW j PROVE (j \in F /\ Rank(F, j) = k) <=> (j \in E /\ Rank(E, j) = k)
      BY <1>1, <1>5, <1>6, <3>1
    <3>3. QED BY <3>2
  <2>2. QED BY <2>1, Zenon DEF NthEnd, Rank
<1>8. NthEnd(F, c + 1) = n + 1
  <2>1. \A j \in F : Rank(F, j) = c + 1 <=> j = n + 1
    <3>1. \A r \in 0..c : r # c + 1
      BY <1>2
    <3>2. QED BY <1>1, <1>5, <1>6, <3>1
  <2>2. n + 1 \in F
    BY <1>1
  <2>3. QED BY <2>1, <2>2, Zenon DEF NthEnd, Rank
<1>9. LineTo(text, n + 1) = SubSeq(text, i, n)
  <2>1. \A k \in 1..(n + 1) : IsLine(text, k, n + 1) <=> k = i
    BY OneBeginning
  <2>2. (CHOOSE k \in 1..(n + 1) : IsLine(text, k, n + 1)) = i
    BY <2>1, Zenon
  <2>3. (n + 1) - 1 = n
    OBVIOUS
  <2>4. QED BY <2>2, <2>3, Zenon DEF LineTo
<1>10. /\ LinesRead(text, n) = [k \in 1..c |-> LineTo(text, NthEnd(E, k))]
       /\ LinesRead(text, n + 1) = [k \in 1..Cardinality(F) |-> LineTo(text, NthEnd(F, k))]
  BY Zenon DEF LinesRead, E, F, c
<1> DEFINE old == LinesRead(text, n)
           new == LinesRead(text, n + 1)
<1>11. /\ new = [k \in 1..(c + 1) |-> LineTo(text, NthEnd(F, k))]
       /\ \A k \in 1..c : new[k] = old[k]
       /\ new[c + 1] = SubSeq(text, i, n)
  BY <1>2, <1>7, <1>8, <1>9, <1>10
<1>12. Len(old) = c /\ DOMAIN old = 1..c
  BY <1>2, <1>10
<1> HIDE DEF old, new
<1>13. Append(old, SubSeq(text, i, n)) =
           [k \in 1..(Len(old) + 1) |-> IF k = Len(old) + 1 THEN SubSeq(text, i, n) ELSE old[k]]
  OBVIOUS
<1>14. new = Append(old, SubSeq(text, i, n))
  <2>1. \A k \in 1..(c + 1) :
            LineTo(text, NthEnd(F, k)) = IF k = c + 1 THEN SubSeq(text, i, n) ELSE old[k]
    <3>1. \A k \in 1..(c + 1) : k # c + 1 => k \in 1..c
      BY <1>2
    <3>2. \A k \in 1..(c + 1) : new[k] = LineTo(text, NthEnd(F, k))
      BY <1>11
    <3>3. QED BY <1>11, <3>1, <3>2, Zenon
  <2>2. new = [k \in 1..(c + 1) |-> IF k = c + 1 THEN SubSeq(text, i, n) ELSE old[k]]
    BY <1>11, <2>1
  <2>3. QED BY <1>12, <1>13, <2>2
<1>15. QED BY <1>14 DEF old, new

\* A prefix is what has the same elements up to its end.
LEMMA SamePrefix ==
    ASSUME NEW S, NEW s \in Seq(S), NEW t \in Seq(S), Len(s) <= Len(t),
           \A k \in 1..Len(s) : s[k] = t[k]
    PROVE  IsPrefix(s, t)
<1>1. SubSeq(s, 1, Len(s)) = SubSeq(t, 1, Len(s))
  OBVIOUS
<1>2. QED BY <1>1, Zenon DEF IsPrefix

\* The lines that end in the first characters come first.
LEMMA LinesReadSoFar ==
    ASSUME NEW text, NEW n \in Nat, NEW m \in Nat, n <= m
    PROVE  /\ IsPrefix(LinesRead(text, n), LinesRead(text, m))
           /\ Len(LinesRead(text, n)) \in Nat /\ Len(LinesRead(text, m)) \in Nat
           /\ Len(LinesRead(text, n)) <= Len(LinesRead(text, m))
           /\ \A x : Contains(LinesRead(text, n), x) => Contains(LinesRead(text, m), x)
<1> DEFINE E == LineEnds(text, n)
           F == LineEnds(text, m)
           c == Cardinality(E)
           d == Cardinality(F)
           Rank(S, j) == Cardinality({e \in S : e <= j})
<1>1. E \subseteq F /\ F \subseteq 1..m /\ E = {j \in F : j <= n}
  BY DEF LineEnds
<1>2. IsFiniteSet(E) /\ IsFiniteSet(F) /\ c \in Nat /\ d \in Nat /\ c <= d
  BY <1>1, LineEndsFinite, FS_Subset
<1> HIDE DEF E, F
<1>3. ASSUME NEW j \in E PROVE {e \in F : e <= j} = {e \in E : e <= j}
  <2>1. j \in Int /\ j <= n /\ \A e \in F : e \in Int
    BY <1>1
  <2>2. \A e \in F : e <= j => e \in E
    BY <1>1, <2>1
  <2>3. QED BY <1>1, <2>2
<1>4. ASSUME NEW j \in F \ E PROVE Rank(F, j) > c
  <2>1. {e \in F : e <= j} \subseteq F /\ E \cup {j} \subseteq {e \in F : e <= j}
    <3>1. j \in Int /\ ~(j <= n) /\ \A e \in E : e \in Int /\ e <= n
      BY <1>1, <1>4
    <3>2. \A e \in E \cup {j} : e \in F /\ e <= j
      BY <1>1, <1>4, <3>1
    <3>3. QED BY <3>2
  <2>2. Cardinality(E \cup {j}) = c + 1
    BY <1>2, <1>4, FS_AddElement
  <2>3. IsFiniteSet({e \in F : e <= j}) /\ Cardinality({e \in F : e <= j}) \in Nat
    BY <1>2, <2>1, FS_Subset, FS_CardinalityType
  <2>4. Cardinality(E \cup {j}) <= Cardinality({e \in F : e <= j})
    BY <2>1, <2>3, FS_Subset
  <2>5. QED BY <1>2, <2>2, <2>3, <2>4
<1> HIDE DEF c, d
<1>5. ASSUME NEW k \in 1..c PROVE NthEnd(F, k) = NthEnd(E, k)
  <2>1. \A j : (j \in F /\ Rank(F, j) = k) <=> (j \in E /\ Rank(E, j) = k)
    <3>1. ASSUME NEW j \in E PROVE j \in F /\ Rank(F, j) = Rank(E, j)
      BY <1>1, <1>3, <3>1
    <3>2. \A j \in F \ E : Rank(F, j) # k
      BY <1>2, <1>4
    <3>3. QED BY <3>1, <3>2, Zenon
  <2>2. QED BY <2>1, Zenon DEF NthEnd, Rank
<1> DEFINE old == LinesRead(text, n)
           new == LinesRead(text, m)
<1>6. /\ old = [k \in 1..c |-> LineTo(text, NthEnd(E, k))]
      /\ new = [k \in 1..d |-> LineTo(text, NthEnd(F, k))]
  BY Zenon DEF LinesRead, E, F, c, d
<1>7. Len(old) = c /\ Len(new) = d /\ \A k \in 1..c : old[k] = new[k]
  <2>1. Len(old) = c /\ Len(new) = d
    BY <1>2, <1>6
  <2>2. ASSUME NEW k \in 1..c PROVE old[k] = new[k]
    <3>1. k \in 1..d
      BY <1>2
    <3>2. old[k] = LineTo(text, NthEnd(E, k)) /\ new[k] = LineTo(text, NthEnd(F, k))
      BY <1>6, <3>1
    <3>3. QED BY <1>5, <3>2
  <2>3. QED BY <2>1, <2>2
<1> HIDE DEF old, new
<1> DEFINE S == {old[k] : k \in 1..c} \cup {new[k] : k \in 1..d}
<1>8. old \in [1..c -> S] /\ new \in [1..d -> S]
  BY <1>6
<1> HIDE DEF S
<1>9. old \in Seq(S) /\ new \in Seq(S)
  BY <1>2, <1>8
<1>10. IsPrefix(old, new)
  BY <1>2, <1>7, <1>9, SamePrefix
<1>11. \A x : Contains(old, x) => Contains(new, x)
  BY <1>2, <1>7 DEF Contains
<1>12. Len(old) \in Nat /\ Len(new) \in Nat /\ Len(old) <= Len(new)
  BY <1>2, <1>7
<1>13. QED BY <1>10, <1>11, <1>12 DEF old, new

\* A list of lines that have been read, and one line more of either.
LEMMA ListGrows ==
    ASSUME NEW S, NEW read \in Seq(S), NEW T, NEW list \in Seq(T), NEW line \in S \cap T,
           Len(list) <= Len(read), \A k \in DOMAIN list : Contains(read, list[k])
    PROVE  /\ Len(list) <= Len(Append(read, line))
           /\ \A k \in DOMAIN list : Contains(Append(read, line), list[k])
           /\ Len(Append(list, line)) <= Len(Append(read, line))
           /\ \A k \in DOMAIN Append(list, line) :
                  Contains(Append(read, line), Append(list, line)[k])
<1>1. /\ Len(Append(read, line)) = Len(read) + 1 /\ Append(read, line)[Len(read) + 1] = line
      /\ \A k \in 1..Len(read) : Append(read, line)[k] = read[k]
      /\ Len(Append(list, line)) = Len(list) + 1 /\ Append(list, line)[Len(list) + 1] = line
      /\ DOMAIN Append(list, line) = 1..(Len(list) + 1)
      /\ \A k \in 1..Len(list) : Append(list, line)[k] = list[k]
      /\ Len(read) \in Nat /\ Len(list) \in Nat /\ DOMAIN list = 1..Len(list)
  OBVIOUS
<1>2. \A x : Contains(read, x) => Contains(Append(read, line), x)
  BY <1>1 DEF Contains
<1>3. Contains(Append(read, line), line)
  BY <1>1 DEF Contains
<1>4. ASSUME NEW k \in 1..(Len(list) + 1)
      PROVE  Contains(Append(read, line), Append(list, line)[k])
  <2>1. CASE k \in 1..Len(list)
    BY <1>1, <1>2, <2>1
  <2>2. CASE k = Len(list) + 1
    BY <1>1, <1>3, <2>2
  <2>3. QED BY <1>1, <2>1, <2>2
<1>5. QED BY <1>1, <1>2, <1>4

\* The lines that have been read are a sequence.
LEMMA LinesAreSeq ==
    ASSUME NEW text, NEW n \in Nat
    PROVE  \E S : LinesRead(text, n) \in Seq(S)
<1> DEFINE c == Cardinality(LineEnds(text, n))
           S == {LineTo(text, NthEnd(LineEnds(text, n), k)) : k \in 1..c}
<1>1. c \in Nat
  BY LineEndsFinite
<1>2. LinesRead(text, n) \in [1..c -> S]
  BY DEF LinesRead
<1> HIDE DEF S, c
<1>3. LinesRead(text, n) \in Seq(S)
  BY <1>1, <1>2
<1>4. QED BY <1>3, Zenon

-----------------------------------------------------------------------------
(* The types of the configuration. *)

\* What main and deployer_init do, before and after the boards are deployed.
MainMoves == Configure \/ main_returns \/ UNCHANGED conf_own

\* The command file that is forgotten, and a line that is not begun.
LEMMA NothingTyped ==
    <<>> \in Seq(Characters) /\ <<>> \in Seq(Seq(Characters)) /\ 0 \in 0..Len(<<>>)
  OBVIOUS

\* The character that is read is one of a command file, or there is none.
LEMMA NextCharType ==
    ASSUME ConfigTypeOK
    PROVE  /\ position \in Nat /\ Len(command_file) \in Nat
           /\ NextChar # "ff" => position + 1 \in 0..Len(command_file) /\ NextChar \in Characters
<1>1. command_file \in Seq(Characters)
  <2>1. command_file \in CommandFiles \cup {<<>>}
    BY DEF ConfigTypeOK
  <2>2. QED BY <2>1, NothingTyped, ConfigAssumption, Zenon
<1>2. position \in 0..Len(command_file) /\ Len(command_file) \in Nat
  <2>1. position \in 0..Len(command_file)
    BY Zenon DEF ConfigTypeOK
  <2>2. QED BY <1>1, <2>1
<1>3. CASE position = Len(command_file)
  BY <1>2, <1>3 DEF NextChar
<1>4. CASE position # Len(command_file)
  <2>1. position + 1 \in 1..Len(command_file)
    BY <1>2, <1>4
  <2>2. command_file[position + 1] \in Characters
    BY <1>1, <2>1
  <2>3. QED BY <1>2, <1>4, <2>1, <2>2 DEF NextChar
<1>5. QED BY <1>3, <1>4

\* The next file to be opened is one of the configuration.
LEMMA NextFileType ==
    ASSUME deploy_file_list \subseteq Files, deploy_file_list # Files
    PROVE  Cardinality(deploy_file_list) + 1 \in Files
<1>1. IsFiniteSet(Files) /\ Cardinality(Files) = NumFiles
  <2>1. NumFiles \in Int /\ 1 \in Int /\ ~(1 > NumFiles) /\ NumFiles - 1 + 1 = NumFiles
    OBVIOUS
  <2>2. QED BY <2>1, FS_Interval DEF Files
<1>2. /\ Cardinality(deploy_file_list) <= Cardinality(Files)
      /\ Cardinality(Files) # Cardinality(deploy_file_list)
  BY <1>1, FS_Subset
<1>3. Cardinality(deploy_file_list) \in Nat
  BY <1>1, FS_Subset, FS_CardinalityType
<1>4. QED BY <1>1, <1>2, <1>3 DEF Files

\* Every step of main and of deployer_init keeps the types of the configuration.
LEMMA ConfigKept ==
    ASSUME ConfigTypeOK, MainMoves
    PROVE  ConfigTypeOK'
<1> USE DEF reading, Goto, deployer_destroy
<1>1. CASE command_char
  <2>1. /\ position' = position + 1 /\ NextChar # "ff"
        /\ \/ /\ buffer' = <<>>
              /\ \/ telnet_command_list' = telnet_command_list
                 \/ telnet_command_list' = Append(telnet_command_list, buffer)
           \/ buffer' = Append(buffer, NextChar) /\ UNCHANGED telnet_command_list
        /\ append_failed' \in {append_failed, TRUE}
        /\ UNCHANGED <<stage, deployer, deploy_file_list, command_file>>
    BY <1>1 DEF command_char, command_newline
  <2>2. position + 1 \in 0..Len(command_file) /\ NextChar \in Characters
    BY <2>1, NextCharType
  <2>3. buffer \in Seq(Characters) /\ telnet_command_list \in Seq(Seq(Characters))
    BY Zenon DEF ConfigTypeOK
  <2>4. /\ Append(buffer, NextChar) \in Seq(Characters)
        /\ Append(telnet_command_list, buffer) \in Seq(Seq(Characters))
    BY <2>2, <2>3, AppendProperties, Zenon
  <2>5. buffer' \in Seq(Characters) /\ telnet_command_list' \in Seq(Seq(Characters))
    BY <2>1, <2>3, <2>4, NothingTyped, Zenon
  <2>6. append_failed' \in BOOLEAN
    BY <2>1 DEF ConfigTypeOK
  <2>7. QED BY <2>1, <2>2, <2>5, <2>6, Zenon DEF ConfigTypeOK
<1>2. CASE deployer_parse_deploy_files
  <2>1. /\ deploy_file_list \subseteq Files /\ deploy_file_list # Files
        /\ deploy_file_list' = deploy_file_list \cup {Cardinality(deploy_file_list) + 1}
    BY <1>2 DEF deployer_parse_deploy_files, ConfigTypeOK
  <2>2. deploy_file_list' \subseteq Files
    BY <2>1, NextFileType
  <2>3. QED BY <1>2, <2>2, Zenon DEF deployer_parse_deploy_files, ConfigTypeOK
<1>3. CASE deployer_init
  BY <1>3, NothingTyped, Zenon DEF deployer_init, ConfigTypeOK, Stages
<1>4. CASE \/ deployer_create \/ deployer_create_fails \/ deployer_init_fails
           \/ open_config_file \/ deployer_parse_ftp \/ deployer_parse_telnet
           \/ command_file_end \/ deployer_parse_deploy_targets \/ main_fails
  <2>1. stage' \in Stages /\ deployer' \in {"none", "live", "freed", "freed twice"}
    BY <1>4
       DEF ConfigTypeOK, Stages, deployer_create, deployer_create_fails, deployer_init_fails,
           open_config_file, deployer_parse_ftp, deployer_parse_telnet, Parsed,
           command_file_end, deployer_parse_deploy_targets, main_fails
  <2>2. UNCHANGED <<deploy_file_list, reading, telnet_command_list>>
    BY <1>4
       DEF deployer_create, deployer_create_fails, deployer_init_fails,
           open_config_file, deployer_parse_ftp, deployer_parse_telnet, Parsed,
           command_file_end, deployer_parse_deploy_targets, main_fails
  <2>3. QED BY <2>1, <2>2, Zenon DEF ConfigTypeOK
<1>5. CASE parse_fails \/ main_returns
  <2>1. /\ stage' \in Stages /\ deployer' \in {"freed", "freed twice"}
        /\ deploy_file_list' = {} /\ telnet_command_list' = <<>>
        /\ UNCHANGED reading
    BY <1>5 DEF parse_fails, main_returns, Stages
  <2>2. QED BY <2>1, NothingTyped, Zenon DEF ConfigTypeOK
<1>6. CASE UNCHANGED conf_own
  BY <1>6, Zenon DEF conf_own, ConfigTypeOK
<1>7. QED
  BY <1>1, <1>2, <1>3, <1>4, <1>5, <1>6
     DEF MainMoves, Configure, parse_crashes

-----------------------------------------------------------------------------
(* The invariant of the configuration. *)

\* The line that is in the buffer begins at character i of the file.
LineBegun(i) ==
    /\ buffer = SubSeq(command_file, i, position)
    /\ \A k \in i..position : command_file[k] # "nl"
    /\ i = 1 \/ command_file[i - 1] = "nl"

\* In the middle of the file the list has lines that have ended, all of them if there was
\* memory, and the buffer the one that has not.
ReadSoFar ==
    stage = "command_file" =>
        /\ \A k \in 1..position : command_file[k] # "ff"
        /\ \E i \in 1..(position + 1) : LineBegun(i)
        /\ Len(telnet_command_list) <= Len(LinesRead(command_file, position))
        /\ \A k \in DOMAIN telnet_command_list :
               Contains(LinesRead(command_file, position), telnet_command_list[k])
        /\ ~append_failed => telnet_command_list = LinesRead(command_file, position)

Early == {"create", "init", "ftp", "telnet"}

\* Before that nothing is read, and the file is forgotten only with its last use.
FileInHand ==
    /\ stage \in Early => position = 0 /\ buffer = <<>> /\ telnet_command_list = <<>>
    /\ stage \in Early \cup {"command_file", "targets", "files"} => command_file \in CommandFiles

\* What main still has of the Deployer in each stage.
InOneHand ==
    /\ stage = "create" => deployer = "none" /\ deploy_file_list = {}
    /\ stage \in Stages \ {"create", "failed", "exited"} => deployer = "live"
    /\ deployer # "freed twice"
    /\ deployer = "freed" =>
           /\ stage \in {"failed", "exited"}
           /\ deploy_file_list = {} /\ telnet_command_list = <<>>
    /\ stage = "deploy" =>
           /\ deploy_file_list = Files /\ Len(telnet_command_list) <= NumCommands

ConfigInvariant == ConfigTypeOK /\ FileInHand /\ ReadSoFar /\ CommandsAsWritten /\ InOneHand

\* No line ends in no text.
LEMMA NothingRead == ASSUME NEW text PROVE LinesRead(text, 0) = <<>>
<1>1. LineEnds(text, 0) = {}
  BY DEF LineEnds
<1>2. Cardinality(LineEnds(text, 0)) = 0
  BY <1>1, FS_EmptySet
<1>3. QED BY <1>2 DEF LinesRead

\* A line goes on with a visible character.
LEMMA LineGoesOn ==
    ASSUME NEW text \in Seq(Characters), NEW n \in Nat, n < Len(text), NEW i \in 1..(n + 1)
    PROVE  Append(SubSeq(text, i, n), text[n + 1]) = SubSeq(text, i, n + 1)
  OBVIOUS

\* A character of the file that is no newline.
LEMMA CharRead ==
    ASSUME ConfigInvariant, command_char, NextChar # "nl"
    PROVE  ReadSoFar'
<1> DEFINE p == position + 1
<1>1. /\ stage = "command_file" /\ NextChar # "ff" /\ position' = p
      /\ buffer' = Append(buffer, NextChar)
      /\ UNCHANGED <<stage, command_file, telnet_command_list, append_failed>>
  BY DEF command_char, InStage
<1>2. /\ command_file \in Seq(Characters) /\ position \in Nat /\ position < Len(command_file)
      /\ NextChar = "x" /\ NextChar = command_file[p]
  <2>1. command_file \in Seq(Characters) /\ position \in 0..Len(command_file)
    BY <1>1, ConfigAssumption DEF ConfigInvariant, FileInHand, ConfigTypeOK
  <2>2. NextChar \in Characters
    BY <1>1, NextCharType DEF ConfigInvariant
  <2>3. QED BY <1>1, <2>1, <2>2 DEF NextChar, Characters
<1>3. PICK i \in 1..p : LineBegun(i)
  BY <1>1 DEF ConfigInvariant, ReadSoFar
<1>4. LineBegun(i)'
  <2>1. buffer' = SubSeq(command_file', i, position')
    BY <1>1, <1>2, <1>3, LineGoesOn DEF LineBegun
  <2>2. \A k \in i..p : command_file[k] # "nl"
    BY <1>2, <1>3 DEF LineBegun
  <2>3. QED BY <1>1, <1>3, <2>1, <2>2 DEF LineBegun
<1>5. LinesRead(command_file, p) = LinesRead(command_file, position)
  <2>1. \A k \in 1..p : ~IsLine(command_file, k, p)
    BY <1>2 DEF IsLine
  <2>2. QED BY <1>2, <2>1, NoLineMore
<1>6. \A k \in 1..p : command_file[k] # "ff"
  BY <1>1, <1>2 DEF ConfigInvariant, ReadSoFar
<1>7. i \in 1..(position' + 1)
  BY <1>1, <1>2
<1>8. QED BY <1>1, <1>4, <1>5, <1>6, <1>7 DEF ConfigInvariant, ReadSoFar

\* A newline: a line that is begun is a command, and an empty one is not.
LEMMA NewlineRead ==
    ASSUME ConfigInvariant, command_char, NextChar = "nl"
    PROVE  ReadSoFar'
<1> DEFINE p == position + 1
<1>1. /\ stage = "command_file" /\ position' = p /\ command_newline
      /\ UNCHANGED <<stage, command_file>>
  BY DEF command_char, InStage
<1>2. /\ command_file \in Seq(Characters) /\ position \in Nat /\ position < Len(command_file)
      /\ command_file[p] = "nl"
  <2>1. command_file \in Seq(Characters) /\ position \in 0..Len(command_file)
    BY <1>1, ConfigAssumption DEF ConfigInvariant, FileInHand, ConfigTypeOK
  <2>2. QED BY <2>1 DEF NextChar
<1>3. PICK i \in 1..p : LineBegun(i)
  BY <1>1 DEF ConfigInvariant, ReadSoFar
<1>4. \A k \in 1..p : command_file[k] # "ff"
  BY <1>1, <1>2 DEF ConfigInvariant, ReadSoFar
<1>5. \E b \in 1..(position' + 1) : LineBegun(b)'
  <2>1. PICK b \in 1..(p + 1) : b = p + 1
    BY <1>2
  <2>2. SubSeq(command_file, b, p) = <<>> /\ b - 1 = p /\ b..p = {}
    BY <1>2, <2>1
  <2>3. LineBegun(b)'
    BY <1>1, <1>2, <2>2 DEF LineBegun, command_newline
  <2>4. QED BY <1>1, <2>3
<1> DEFINE read == LinesRead(command_file, position)
           more == LinesRead(command_file, p)
<1>6. /\ Len(telnet_command_list) <= Len(read)
      /\ \A k \in DOMAIN telnet_command_list : Contains(read, telnet_command_list[k])
      /\ ~append_failed => telnet_command_list = read
  BY <1>1 DEF ConfigInvariant, ReadSoFar
<1>7. /\ Len(telnet_command_list') <= Len(more)
      /\ \A k \in DOMAIN telnet_command_list' : Contains(more, telnet_command_list'[k])
      /\ ~append_failed' => telnet_command_list' = more
  <2>1. CASE i = p
    <3>1. buffer = <<>>
      BY <1>2, <1>3, <2>1 DEF LineBegun
    <3>2. \A k \in 1..p : ~IsLine(command_file, k, p)
      <4>1. SUFFICES ASSUME NEW k \in 1..p, IsLine(command_file, k, p)
                     PROVE  FALSE
        OBVIOUS
      <4>2. p # 1 /\ p - 1 \in k..(p - 1) /\ p - 1 = position
        BY <1>2, <4>1 DEF IsLine
      <4>3. command_file[p - 1] # "nl"
        BY <4>1, <4>2 DEF IsLine
      <4>4. QED BY <1>3, <2>1, <4>2, <4>3 DEF LineBegun
    <3>3. more = read
      BY <1>2, <3>2, NoLineMore
    <3>4. UNCHANGED <<telnet_command_list, append_failed>>
      BY <1>1, <3>1 DEF command_newline
    <3> HIDE DEF read, more
    <3>5. QED BY <1>6, <3>3, <3>4
  <2>2. CASE i # p
    <3>1. i < p /\ i \in 1..position
      BY <1>2, <2>2
    <3>2. IsLine(command_file, i, p)
      BY <1>2, <1>3, <3>1 DEF IsLine, LineBegun
    <3>3. more = Append(read, buffer)
      BY <1>2, <1>3, <3>2, OneLineMore DEF LineBegun
    <3>4. buffer # <<>>
      BY <1>2, <1>3, <3>1 DEF LineBegun
    <3>5. PICK S : read \in Seq(S)
      BY <1>2, LinesAreSeq
    <3> HIDE DEF read, more
    <3>6. read \in Seq(S \cup {buffer})
      BY <3>5
    <3>7. telnet_command_list \in Seq(Seq(Characters)) /\ buffer \in Seq(Characters)
      BY Zenon DEF ConfigInvariant, ConfigTypeOK
    <3>8. /\ Len(telnet_command_list) <= Len(more)
          /\ \A k \in DOMAIN telnet_command_list : Contains(more, telnet_command_list[k])
          /\ Len(Append(telnet_command_list, buffer)) <= Len(more)
          /\ \A k \in DOMAIN Append(telnet_command_list, buffer) :
                 Contains(more, Append(telnet_command_list, buffer)[k])
      BY <1>6, <3>3, <3>6, <3>7, ListGrows
    <3>9. \/ /\ telnet_command_list' = Append(telnet_command_list, buffer)
             /\ append_failed' = append_failed
          \/ telnet_command_list' = telnet_command_list /\ append_failed' = TRUE
      BY <1>1, <3>4 DEF command_newline
    <3>10. QED BY <1>6, <3>3, <3>8, <3>9
  <2>3. QED BY <2>1, <2>2
<1>8. QED BY <1>1, <1>4, <1>5, <1>7 DEF ReadSoFar

\* At the end of the file, or at a byte 255, the lines that have ended are the first ones,
\* and all of a file that a newline ends.
LEMMA FileRead ==
    ASSUME ConfigInvariant, command_file_end
    PROVE  /\ Len(telnet_command_list) <= Len(CommandLines(command_file))
           /\ \A k \in DOMAIN telnet_command_list :
                  Contains(CommandLines(command_file), telnet_command_list[k])
           /\ ~append_failed => IsPrefix(telnet_command_list, CommandLines(command_file))
           /\ ~append_failed /\ Plain(command_file)
                  => telnet_command_list = CommandLines(command_file)
<1> DEFINE read == LinesRead(command_file, position)
           n == Len(command_file)
<1>1. stage = "command_file" /\ NextChar = "ff"
  BY DEF command_file_end, InStage
<1>2. command_file \in Seq(Characters) /\ position \in 0..n /\ n \in Nat
  <2>1. command_file \in CommandFiles /\ position \in 0..Len(command_file)
    BY <1>1, Zenon DEF ConfigInvariant, FileInHand, ConfigTypeOK
  <2>2. command_file \in Seq(Characters)
    BY <2>1, ConfigAssumption
  <2>3. QED BY <2>1, <2>2
<1>3. /\ IsPrefix(read, CommandLines(command_file))
      /\ Len(read) \in Nat /\ Len(CommandLines(command_file)) \in Nat
      /\ Len(read) <= Len(CommandLines(command_file))
      /\ \A x : Contains(read, x) => Contains(CommandLines(command_file), x)
  <2>1. position \in Nat /\ n + 1 \in Nat /\ position <= n + 1
    BY <1>2
  <2>2. QED BY <2>1, LinesReadSoFar DEF CommandLines
<1>4. ASSUME Plain(command_file) PROVE read = CommandLines(command_file)
  <2>1. position = n
    <3>1. SUFFICES ASSUME position # n PROVE FALSE
      OBVIOUS
    <3>2. command_file[position + 1] = "ff" /\ position + 1 \in DOMAIN command_file
      BY <1>1, <1>2, <3>1 DEF NextChar
    <3>3. QED BY <1>4, <3>2 DEF Plain
  <2>2. \A i \in 1..(n + 1) : ~IsLine(command_file, i, n + 1)
    <3>1. SUFFICES ASSUME NEW i \in 1..(n + 1), IsLine(command_file, i, n + 1) PROVE FALSE
      OBVIOUS
    <3>2. i <= n /\ command_file[n] # "nl"
      BY <1>2, <3>1 DEF IsLine
    <3>3. command_file # <<>> /\ Last(command_file) = command_file[n]
      BY <1>2, <3>2 DEF Last
    <3>4. QED BY <1>4, <3>2, <3>3 DEF Plain
  <2>3. QED BY <1>2, <2>1, <2>2, NoLineMore DEF CommandLines
<1>5. /\ Len(telnet_command_list) <= Len(read)
      /\ \A k \in DOMAIN telnet_command_list : Contains(read, telnet_command_list[k])
      /\ ~append_failed => telnet_command_list = read
  BY <1>1 DEF ConfigInvariant, ReadSoFar
<1>6. Len(telnet_command_list) \in Nat
  <2>1. telnet_command_list \in Seq(Seq(Characters))
    BY Zenon DEF ConfigInvariant, ConfigTypeOK
  <2>2. QED BY <2>1
<1> HIDE DEF read
<1>7. QED BY <1>3, <1>4, <1>5, <1>6

\* main begins with nothing read and no Deployer.
LEMMA ConfigBegins == ConfigInit => ConfigInvariant
<1> SUFFICES ASSUME ConfigInit
             PROVE  ConfigInvariant
  OBVIOUS
<1> USE DEF ConfigInit
<1>1. command_file \in Seq(Characters) /\ command_file \in CommandFiles
  BY ConfigAssumption
<1>2. Len(command_file) \in Nat
  BY <1>1
<1>3. ConfigTypeOK
  <2>1. position \in 0..Len(command_file)
    BY <1>2
  <2>2. stage \in Stages /\ deployer \in {"none", "live", "freed", "freed twice"}
    BY DEF Stages
  <2>3. QED BY <1>1, <2>1, <2>2, NothingTyped, Zenon DEF ConfigTypeOK
<1>4. QED
  BY <1>1, <1>3
     DEF ConfigInvariant, FileInHand, ReadSoFar, CommandsAsWritten, InOneHand, Early, Stages

\* Main and deployer_init keep the invariant, whatever fails.
LEMMA ConfigStep ==
    ASSUME ConfigInvariant, MainMoves
    PROVE  ConfigInvariant'
<1> USE DEF ConfigInvariant, reading, Goto, InStage
<1>0. ConfigTypeOK'
  BY ConfigKept
<1>1. CASE command_char
  <2>1. ReadSoFar'
    BY <1>1, CharRead, NewlineRead
  <2>2. stage = "command_file" /\ UNCHANGED <<stage, deployer, deploy_file_list, command_file>>
    BY <1>1 DEF command_char
  <2>3. FileInHand' /\ InOneHand' /\ CommandsAsWritten'
    BY <2>2 DEF FileInHand, InOneHand, CommandsAsWritten, Early, Stages
  <2>4. QED BY <1>0, <2>1, <2>3
<1>2. CASE command_file_end
  <2>1. /\ stage' = "targets" /\ stage = "command_file"
        /\ UNCHANGED <<deployer, deploy_file_list, reading, telnet_command_list>>
    BY <1>2 DEF command_file_end
  <2>2. CommandsAsWritten'
    BY <1>2, <2>1, FileRead DEF CommandsAsWritten
  <2>3. FileInHand' /\ InOneHand' /\ ReadSoFar'
    BY <2>1 DEF FileInHand, InOneHand, ReadSoFar, Early, Stages
  <2>4. QED BY <1>0, <2>2, <2>3
<1>3. CASE deployer_parse_telnet
  <2>1. /\ stage = "telnet" /\ stage' = "command_file"
        /\ UNCHANGED <<deployer, deploy_file_list, reading, telnet_command_list>>
    BY <1>3 DEF deployer_parse_telnet, Parsed
  <2>2. /\ position' = 0 /\ buffer' = <<>> /\ telnet_command_list' = <<>>
        /\ telnet_command_list' = LinesRead(command_file', 0)
    BY <2>1, NothingRead DEF FileInHand, Early
  <2>3. LineBegun(1)'
    BY <2>2 DEF LineBegun
  <2>4. ReadSoFar'
    BY <2>2, <2>3 DEF ReadSoFar
  <2>5. FileInHand' /\ InOneHand' /\ CommandsAsWritten'
    BY <2>1 DEF FileInHand, InOneHand, CommandsAsWritten, Early, Stages
  <2>6. QED BY <1>0, <2>4, <2>5
<1>4. CASE deployer_init
  <2>1. /\ stage = "files" /\ stage' = "deploy" /\ deploy_file_list = Files
        /\ UNCHANGED <<deployer, deploy_file_list, telnet_command_list>>
    BY <1>4 DEF deployer_init
  <2>2. Len(telnet_command_list) <= NumCommands
    <3>1. /\ Len(telnet_command_list) <= Len(CommandLines(command_file))
          /\ Len(CommandLines(command_file)) <= NumCommands /\ command_file \in Seq(Characters)
      BY <2>1, ConfigAssumption DEF CommandsAsWritten, FileInHand
    <3>2. Len(CommandLines(command_file)) \in Nat
      <4>1. Len(command_file) + 1 \in Nat
        BY <3>1
      <4>2. QED BY <4>1, LinesReadSoFar DEF CommandLines
    <3>3. Len(telnet_command_list) \in Nat
      <4>1. telnet_command_list \in Seq(Seq(Characters))
        BY Zenon DEF ConfigTypeOK
      <4>2. QED BY <4>1
    <3>4. QED BY <3>1, <3>2, <3>3
  <2>3. QED
    BY <1>0, <2>1, <2>2
       DEF FileInHand, InOneHand, CommandsAsWritten, ReadSoFar, Early, Stages
<1>5. CASE parse_fails \/ main_returns
  <2>1. /\ stage \in {"ftp", "telnet", "targets", "files", "deploy"}
        /\ stage' \in {"failed", "exited"}
        /\ deployer_destroy /\ UNCHANGED reading
    BY <1>5 DEF parse_fails, main_returns
  <2>2. deployer' = "freed" /\ deploy_file_list' = {} /\ telnet_command_list' = <<>>
    BY <2>1 DEF deployer_destroy, InOneHand, Stages
  <2>3. QED
    BY <1>0, <2>1, <2>2
       DEF FileInHand, InOneHand, CommandsAsWritten, ReadSoFar, Early, Stages
<1>6. CASE deployer_create_fails
  <2>1. /\ stage = "create" /\ stage' = "exited" /\ deployer' \in {deployer, "freed"}
        /\ UNCHANGED <<deploy_file_list, reading, telnet_command_list>>
    BY <1>6 DEF deployer_create_fails
  <2>2. QED
    BY <1>0, <2>1 DEF FileInHand, InOneHand, CommandsAsWritten, ReadSoFar, Early, Stages
<1>7. CASE deployer_create
  BY <1>0, <1>7
     DEF deployer_create, FileInHand, InOneHand, CommandsAsWritten, ReadSoFar, Early, Stages
<1>8. CASE deployer_init_fails \/ main_fails
  <2>1. /\ stage \in {"init", "failed"} /\ stage' \in {"failed", "exited"}
        /\ UNCHANGED <<deployer, deploy_file_list, reading, telnet_command_list>>
    BY <1>8 DEF deployer_init_fails, main_fails
  <2>2. QED
    BY <1>0, <2>1 DEF FileInHand, InOneHand, CommandsAsWritten, ReadSoFar, Early, Stages
<1>9. CASE open_config_file \/ deployer_parse_ftp
  <2>1. /\ stage \in {"init", "ftp"} /\ stage' \in {"ftp", "telnet"}
        /\ UNCHANGED <<deployer, deploy_file_list, reading, telnet_command_list>>
    BY <1>9 DEF open_config_file, deployer_parse_ftp, Parsed
  <2>2. QED
    BY <1>0, <2>1 DEF FileInHand, InOneHand, CommandsAsWritten, ReadSoFar, Early, Stages
<1>10. CASE deployer_parse_deploy_targets
  <2>1. /\ stage = "targets" /\ stage' = "files"
        /\ UNCHANGED <<deployer, deploy_file_list, reading, telnet_command_list>>
    BY <1>10 DEF deployer_parse_deploy_targets, Parsed
  <2>2. QED
    BY <1>0, <2>1 DEF FileInHand, InOneHand, CommandsAsWritten, ReadSoFar, Early, Stages
<1>11. CASE deployer_parse_deploy_files
  <2>1. /\ stage = "files" /\ UNCHANGED <<stage, deployer, reading, telnet_command_list>>
    BY <1>11 DEF deployer_parse_deploy_files
  <2>2. QED
    BY <1>0, <2>1 DEF FileInHand, InOneHand, CommandsAsWritten, ReadSoFar, Early, Stages
<1>12. CASE parse_crashes \/ UNCHANGED conf_own
  <2>1. UNCHANGED conf_own
    BY <1>12 DEF parse_crashes
  <2>2. LineBegun(1)' = LineBegun(1) /\ \A i : LineBegun(i)' = LineBegun(i)
    BY <2>1 DEF conf_own, LineBegun
  <2>3. ReadSoFar'
    BY <2>1, <2>2 DEF conf_own, ReadSoFar
  <2>4. QED
    BY <1>0, <2>1, <2>3 DEF conf_own, FileInHand, InOneHand, CommandsAsWritten
<1>13. QED
  BY <1>1, <1>2, <1>3, <1>4, <1>5, <1>6, <1>7, <1>8, <1>9, <1>10, <1>11, <1>12
     DEF MainMoves, Configure
=============================================================================
