-------------------------- MODULE TelnetPeersProofs --------------------------
(***************************************************************************)
(* For any buffer, chunks, options and calls: the types of the two ends of   *)
(* a connection, that cutting a stream into chunks changes nothing, that a   *)
(* text or a subnegotiation is read as it was sent whatever the state of the *)
(* options, that every event is therefore delivered once and in order, and  *)
(* that the ends agree on every option, as their users asked.               *)
(***************************************************************************)
EXTENDS TelnetPeers, SequenceTheorems, WellFoundedInduction, TLAPS

USE LibTelnetAssumption

-----------------------------------------------------------------------------
(* Induction, and recursive functions. *)

\* Induction over the natural numbers, for a set.
LEMMA SetInduction ==
    ASSUME NEW S \in SUBSET Nat, 0 \in S, \A n \in S : n + 1 \in S
    PROVE  S = Nat
<1>1. IsWellFoundedOn({p \in Nat \X Nat : p[1] < p[2]}, Nat)
  BY ONLY NatLessThanWellFounded DEF OpToRel
<1> DEFINE Less == {p \in Nat \X Nat : p[1] < p[2]}
           T == Nat \ S
<1>2. SUFFICES ASSUME T # {} PROVE FALSE
  OBVIOUS
<1>3. PICK x \in T : \A y \in T : <<y, x>> \notin Less
  BY ONLY <1>1, <1>2, WFMin, T \subseteq Nat
<1>4. x # 0 /\ x - 1 \in Nat /\ <<x - 1, x>> \in Less
  OBVIOUS
<1>5. x - 1 \in S
  BY <1>3, <1>4
<1>6. QED BY <1>4, <1>5

\* Induction over sequences, for a set: a property of the empty sequence that an element
\* more preserves.
LEMMA SeqInduction ==
    ASSUME NEW S, NEW T \in SUBSET Seq(S), <<>> \in T,
           \A s \in T : \A x \in S : Append(s, x) \in T
    PROVE  T = Seq(S)
<1> DEFINE N == {n \in Nat : \A s \in Seq(S) : Len(s) = n => s \in T}
<1>1. 0 \in N
  <2>1. ASSUME NEW s \in Seq(S), Len(s) = 0 PROVE s \in T
    <3>1. s = <<>>
      BY <2>1
    <3>2. QED BY <3>1
  <2>2. QED BY <2>1
<1>2. ASSUME NEW n \in N PROVE n + 1 \in N
  <2>1. ASSUME NEW s \in Seq(S), Len(s) = n + 1 PROVE s \in T
    <3> DEFINE a == SubSeq(s, 1, n)
    <3>1. n \in Nat
      BY <1>2
    <3>2. a \in Seq(S) /\ Len(a) = n /\ s[n + 1] \in S
      BY <2>1, <3>1
    <3>3. s = Append(a, s[n + 1])
      <4>1. \A i \in 1..n : a[i] = s[i]
        BY <2>1, <3>1
      <4> DEFINE y == s[n + 1]
                 l == Append(a, y)
      <4> HIDE DEF a
      <4>2. a \in Seq(S) /\ Len(a) = n /\ y \in S /\ n \in Nat
        BY <3>1, <3>2
      <4> HIDE DEF y
      <4>3. l \in Seq(S) /\ Len(l) = n + 1 /\ l[n + 1] = y /\ \A k \in 1..n : l[k] = a[k]
        BY ONLY <4>2
      <4> HIDE DEF l
      <4>4. l[n + 1] = s[n + 1] /\ \A k \in 1..n : l[k] = s[k]
        BY <4>1, <4>3 DEF y
      <4>5. s \in Seq(S) /\ Len(s) = n + 1
        BY <2>1
      <4>6. l = s
        <5>1. ASSUME NEW i \in 1..(n + 1) PROVE l[i] = s[i]
          <6>1. i \in 1..n \/ i = n + 1
            BY ONLY <3>1
          <6>2. QED BY ONLY <4>4, <6>1
        <5>2. QED BY ONLY <4>3, <4>5, <5>1, <3>1
      <4>7. QED BY <4>6 DEF l, y
    <3>4. a \in T
      BY <1>2, <3>2
    <3> HIDE DEF a, N
    <3>5. QED BY <3>2, <3>3, <3>4
  <2>2. QED BY <2>1
<1>3. N \in SUBSET Nat
  OBVIOUS
<1> HIDE DEF N
<1>4. N = Nat
  BY <1>1, <1>2, <1>3, SetInduction
<1>5. ASSUME NEW s \in Seq(S) PROVE s \in T
  <2>1. Len(s) \in Nat
    OBVIOUS
  <2>2. Len(s) \in N
    BY <1>4, <2>1
  <2>3. QED BY <2>2 DEF N
<1>6. QED BY <1>5

\* The function that process is: each step from the one before.
Steps(tel, chunk, user, f) ==
    f = [i \in 0..Len(chunk) |->
            IF i = 0 THEN process_begin(tel)
            ELSE CHOOSE t \in {process_byte(f[i - 1], chunk, i, user)} : TRUE]

LEMMA ProcessIsChosen ==
    ASSUME NEW tel, NEW chunk, NEW user
    PROVE  process(tel, chunk, user) = CHOOSE f : Steps(tel, chunk, user, f)
  BY DEF process, Steps

\* There is such a function, since each of its values is defined by those before.
LEMMA ProcessSteps ==
    ASSUME NEW tel, NEW chunk \in Seq(Bytes), NEW user
    PROVE  LET P == process(tel, chunk, user)
           IN  /\ P[0] = process_begin(tel)
               /\ \A i \in 1..Len(chunk) : P[i] = process_byte(P[i - 1], chunk, i, user)
<1> DEFINE Upto(n, f) ==
               /\ f[0] = process_begin(tel)
               /\ \A i \in 1..n : f[i] = process_byte(f[i - 1], chunk, i, user)
           S == {n \in Nat : \E f : Upto(n, f)}
<1>1. 0 \in S
  <2> DEFINE f == [i \in {0} |-> process_begin(tel)]
  <2>1. Upto(0, f)
    OBVIOUS
  <2>2. QED BY <2>1
<1>2. ASSUME NEW n \in S PROVE n + 1 \in S
  <2>1. PICK f : Upto(n, f)
    OBVIOUS
  <2> DEFINE g == [i \in 0..(n + 1) |-> IF i = n + 1 THEN process_byte(f[n], chunk, n + 1, user)
                                        ELSE f[i]]
  <2>2. g[0] = f[0] /\ \A i \in 1..n : g[i] = f[i] /\ g[i - 1] = f[i - 1]
    OBVIOUS
  <2>3. g[n + 1] = process_byte(g[n], chunk, n + 1, user)
    OBVIOUS
  <2> HIDE DEF g
  <2>4. ASSUME NEW i \in 1..(n + 1) PROVE g[i] = process_byte(g[i - 1], chunk, i, user)
    <3>1. CASE i = n + 1
      <4>1. i - 1 = n
        BY <3>1
      <4>2. QED BY <2>3, <3>1, <4>1
    <3>2. CASE i # n + 1
      <4>1. i \in 1..n
        BY <3>2
      <4>2. QED BY <2>1, <2>2, <4>1
    <3>3. QED BY <3>1, <3>2
  <2>5. Upto(n + 1, g)
    BY <2>1, <2>2, <2>4
  <2>6. QED BY <2>5
<1>3. S = Nat
  <2> HIDE DEF S
  <2>1. S \in SUBSET Nat
    BY DEF S
  <2>2. QED BY <1>1, <1>2, <2>1, SetInduction
<1>4. Len(chunk) \in Nat
  OBVIOUS
<1>5. PICK f : Upto(Len(chunk), f)
  BY <1>3, <1>4
<1> DEFINE g == [i \in 0..Len(chunk) |-> f[i]]
<1>6. Steps(tel, chunk, user, g)
  <2>1. ASSUME NEW i \in 0..Len(chunk)
        PROVE  g[i] = IF i = 0 THEN process_begin(tel)
                      ELSE CHOOSE t \in {process_byte(g[i - 1], chunk, i, user)} : TRUE
    <3>1. CASE i = 0
      BY <1>4, <1>5, <3>1
    <3>2. CASE i # 0
      <4>1. i \in 1..Len(chunk) /\ i - 1 \in 0..Len(chunk)
        BY <1>4, <3>2
      <4>2. g[i] = process_byte(g[i - 1], chunk, i, user)
        BY <1>5, <4>1
      <4>3. QED BY <3>2, <4>2
    <3>3. QED BY <3>1, <3>2
  <2> HIDE DEF g
  <2>2. g = [i \in 0..Len(chunk) |-> g[i]]
    BY DEF g
  <2>3. QED BY <2>1, <2>2, Zenon DEF Steps
<1> DEFINE P == process(tel, chunk, user)
<1>7. Steps(tel, chunk, user, P)
  BY <1>6, ProcessIsChosen
<1> HIDE DEF P
<1>8. P[0] = process_begin(tel)
  BY <1>4, <1>7 DEF Steps
<1>9. ASSUME NEW i \in 1..Len(chunk) PROVE P[i] = process_byte(P[i - 1], chunk, i, user)
  <2>1. i \in 0..Len(chunk) /\ i # 0
    BY <1>4
  <2>2. P[i] = CHOOSE t \in {process_byte(P[i - 1], chunk, i, user)} : TRUE
    BY <1>7, <2>1 DEF Steps
  <2>3. QED BY <2>2
<1>10. QED BY <1>8, <1>9 DEF P

-----------------------------------------------------------------------------
(* FlattenSeq. *)

\* The function that FlattenSeq takes the last value of.
FlatSteps(seqs, f) ==
    f = [i \in 1..Len(seqs) |-> IF i = 1 THEN seqs[i] ELSE f[i - 1] \o seqs[i]]

LEMMA FlattenIsChosen ==
    ASSUME NEW seqs, Len(seqs) # 0
    PROVE  FlattenSeq(seqs) = (CHOOSE f : FlatSteps(seqs, f))[Len(seqs)]
  BY DEF FlattenSeq, FlatSteps

\* Up to n, f joins the sequences.
Joins(seqs, n, f) == f[1] = seqs[1] /\ \A i \in 2..n : f[i] = f[i - 1] \o seqs[i]

LEMMA FlattenSteps ==
    ASSUME NEW S, NEW seqs \in Seq(Seq(S)), seqs # <<>>
    PROVE  \E f : Joins(seqs, Len(seqs), f) /\ FlattenSeq(seqs) = f[Len(seqs)]
<1> DEFINE T == {n \in Nat : \E f : Joins(seqs, n, f)}
<1>1. 0 \in T
  <2> DEFINE f == [i \in {1} |-> seqs[1]]
  <2>1. Joins(seqs, 0, f)
    BY DEF Joins
  <2>2. QED BY <2>1
<1>2. ASSUME NEW n \in T PROVE n + 1 \in T
  <2>1. PICK f : Joins(seqs, n, f)
    OBVIOUS
  <2> DEFINE g == [i \in 1..(n + 1) |-> IF i = n + 1 /\ i # 1 THEN f[n] \o seqs[n + 1]
                                        ELSE f[i]]
  <2>2. g[1] = f[1] /\ \A i \in 2..n : g[i] = f[i] /\ g[i - 1] = f[i - 1]
    <3>1. n \in Nat /\ 1 \in 1..(n + 1)
      OBVIOUS
    <3>2. \A i \in 1..n : i \in 1..(n + 1) /\ i # n + 1
      BY <3>1
    <3>3. g[1] = f[1] /\ \A i \in 1..n : g[i] = f[i]
      BY <3>1, <3>2
    <3>4. \A i \in 2..n : i \in 1..n /\ i - 1 \in 1..n
      BY <3>1
    <3> HIDE DEF g
    <3>5. QED BY <3>3, <3>4
  <2>3. n # 0 => g[n + 1] = g[n] \o seqs[n + 1]
    <3>1. n # 0 => n \in 1..(n + 1) /\ n # n + 1 /\ n + 1 \in 1..(n + 1) /\ n + 1 # 1
      OBVIOUS
    <3>2. QED BY <3>1
  <2> HIDE DEF g
  <2>4. ASSUME NEW i \in 2..(n + 1) PROVE g[i] = g[i - 1] \o seqs[i]
    <3>1. CASE i = n + 1
      <4>1. i - 1 = n /\ n # 0
        BY <3>1
      <4>2. QED BY <2>3, <3>1, <4>1
    <3>2. CASE i # n + 1
      <4>1. i \in 2..n
        BY <3>2
      <4>2. QED BY <2>1, <2>2, <4>1 DEF Joins
    <3>3. QED BY <3>1, <3>2
  <2>5. Joins(seqs, n + 1, g)
    BY <2>1, <2>2, <2>4 DEF Joins
  <2>6. QED BY <2>5
<1>3. T = Nat
  <2> HIDE DEF T
  <2>1. T \in SUBSET Nat
    BY DEF T
  <2>2. QED BY <1>1, <1>2, <2>1, SetInduction
<1>4. Len(seqs) \in Nat /\ Len(seqs) # 0
  OBVIOUS
<1>5. PICK f : Joins(seqs, Len(seqs), f)
  BY <1>3, <1>4
<1> DEFINE g == [i \in 1..Len(seqs) |-> f[i]]
<1>6. FlatSteps(seqs, g)
  <2>1. ASSUME NEW i \in 1..Len(seqs)
        PROVE  g[i] = IF i = 1 THEN seqs[i] ELSE g[i - 1] \o seqs[i]
    <3>1. CASE i = 1
      BY <1>4, <1>5, <3>1 DEF Joins
    <3>2. CASE i # 1
      <4>1. i \in 2..Len(seqs) /\ i - 1 \in 1..Len(seqs)
        BY <1>4, <3>2
      <4>2. f[i] = f[i - 1] \o seqs[i]
        BY <1>5, <4>1 DEF Joins
      <4>3. QED BY <3>2, <4>1, <4>2
    <3>3. QED BY <3>1, <3>2
  <2> HIDE DEF g
  <2>2. g = [i \in 1..Len(seqs) |-> g[i]]
    BY DEF g
  <2>3. QED BY <2>1, <2>2, Zenon DEF FlatSteps
<1> DEFINE h == CHOOSE x : FlatSteps(seqs, x)
<1>7. FlatSteps(seqs, h)
  BY <1>6
<1>8. FlattenSeq(seqs) = h[Len(seqs)]
  BY <1>4, FlattenIsChosen
<1> HIDE DEF h
<1>9. h[1] = seqs[1]
  BY <1>4, <1>7 DEF FlatSteps
<1>10. ASSUME NEW i \in 2..Len(seqs) PROVE h[i] = h[i - 1] \o seqs[i]
  <2>1. i \in 1..Len(seqs) /\ i # 1
    BY <1>4
  <2>2. QED BY <1>7, <2>1 DEF FlatSteps
<1>11. QED BY <1>8, <1>9, <1>10 DEF Joins

LEMMA FlattenNothing == FlattenSeq(<<>>) = <<>>
  BY DEF FlattenSeq

\* A sequence more is joined to what the others flatten to.
LEMMA FlattenAppend ==
    ASSUME NEW S, NEW seqs \in Seq(Seq(S)), NEW x \in Seq(S)
    PROVE  FlattenSeq(Append(seqs, x)) = FlattenSeq(seqs) \o x
<1> DEFINE more == Append(seqs, x)
           n == Len(seqs)
<1>1. /\ n \in Nat /\ more \in Seq(Seq(S)) /\ more # <<>> /\ Len(more) = n + 1
      /\ more[n + 1] = x /\ \A i \in 1..n : more[i] = seqs[i]
  <2> DEFINE R == Seq(S)
  <2>1. seqs \in Seq(R) /\ x \in R
    OBVIOUS
  <2> HIDE DEF R
  <2>2. n \in Nat /\ more \in Seq(R) /\ Len(more) = n + 1
    BY <2>1
  <2>3. more[n + 1] = x
    BY <2>1
  <2>4. \A i \in 1..n : more[i] = seqs[i]
    BY <2>1
  <2>5. more # <<>>
    BY <2>1
  <2>6. QED BY <2>2, <2>3, <2>4, <2>5 DEF R
<1> HIDE DEF more
<1>2. PICK g : Joins(more, Len(more), g) /\ FlattenSeq(more) = g[Len(more)]
  BY <1>1, FlattenSteps
<1>3. CASE n = 0
  <2>1. seqs = <<>>
    BY <1>3
  <2>2. FlattenSeq(more) = x
    BY <1>1, <1>2, <1>3 DEF Joins
  <2>3. <<>> \o x = x
    OBVIOUS
  <2>4. QED BY <2>1, <2>2, <2>3, FlattenNothing DEF more
<1>4. CASE n # 0
  <2>1. seqs # <<>>
    BY <1>4
  <2>2. PICK f : Joins(seqs, n, f) /\ FlattenSeq(seqs) = f[n]
    BY <2>1, FlattenSteps
  <2> DEFINE T == {i \in Nat : i + 1 <= n => g[i + 1] = f[i + 1]}
  <2>3. 0 \in T
    BY <1>1, <1>2, <1>4, <2>2 DEF Joins
  <2>4. ASSUME NEW i \in T PROVE i + 1 \in T
    <3>1. SUFFICES ASSUME (i + 1) + 1 <= n PROVE g[(i + 1) + 1] = f[(i + 1) + 1]
      OBVIOUS
    <3> DEFINE k == (i + 1) + 1
    <3>2. k \in 2..n /\ k \in 2..Len(more) /\ k \in 1..n /\ k - 1 = i + 1 /\ g[i + 1] = f[i + 1]
      BY <1>1, <3>1
    <3> HIDE DEF k
    <3>3. f[k] = f[k - 1] \o seqs[k] /\ g[k] = g[k - 1] \o more[k]
      BY <1>2, <2>2, <3>2 DEF Joins
    <3>4. g[k] = f[k]
      BY <1>1, <3>2, <3>3
    <3>5. QED BY <3>4 DEF k
  <2>5. T = Nat
    <3> HIDE DEF T
    <3>1. T \in SUBSET Nat
      BY DEF T
    <3>2. QED BY <2>3, <2>4, <3>1, SetInduction
  <2>6. g[n] = f[n]
    <3>1. n - 1 \in Nat /\ (n - 1) + 1 = n
      BY <1>1, <1>4
    <3>2. n - 1 \in T
      BY <2>5, <3>1
    <3>3. QED BY <3>1, <3>2
  <2>7. g[n + 1] = g[n] \o x
    <3>1. n + 1 \in 2..Len(more) /\ (n + 1) - 1 = n
      BY <1>1, <1>4
    <3>2. QED BY <1>1, <1>2, <3>1 DEF Joins
  <2>8. QED BY <1>1, <1>2, <2>2, <2>6, <2>7 DEF more
<1>5. QED BY <1>3, <1>4

\* Each element of a sequence is replaced by what f makes of it.
Spread(f, s) == FlattenSeq([i \in DOMAIN s |-> f[s[i]]])

LEMMA SpreadNothing == ASSUME NEW f PROVE Spread(f, <<>>) = <<>>
<1>1. [i \in DOMAIN <<>> |-> f[<<>>[i]]] = <<>>
  OBVIOUS
<1>2. QED BY <1>1, FlattenNothing DEF Spread

LEMMA SpreadAppend ==
    ASSUME NEW S, NEW f \in [S -> Seq(S)], NEW s \in Seq(S), NEW x \in S
    PROVE  Spread(f, Append(s, x)) = Spread(f, s) \o f[x]
<1> DEFINE m == [i \in DOMAIN s |-> f[s[i]]]
           l == Append(m, f[x])
           r == [i \in DOMAIN Append(s, x) |-> f[Append(s, x)[i]]]
           n == Len(s)
<1>1. n \in Nat /\ DOMAIN s = 1..n /\ DOMAIN Append(s, x) = 1..(n + 1) /\ f[x] \in Seq(S)
      /\ \A i \in 1..n : s[i] \in S /\ Append(s, x)[i] = s[i]
  OBVIOUS
<1>2. Append(s, x)[n + 1] = x
  OBVIOUS
<1>3. m \in Seq(Seq(S)) /\ Len(m) = n
  <2>1. m = [i \in 1..n |-> f[s[i]]] /\ \A i \in 1..n : f[s[i]] \in Seq(S)
    BY <1>1
  <2> HIDE DEF n
  <2>2. QED BY <1>1, <2>1
<1>4. \A i \in 1..n : m[i] = f[s[i]]
  BY <1>1
<1> HIDE DEF n, m
<1>5. l \in Seq(Seq(S)) /\ Len(l) = n + 1 /\ l[n + 1] = f[x] /\ \A i \in 1..n : l[i] = m[i]
  BY <1>1, <1>3
<1>6. DOMAIN r = 1..(n + 1) /\ r[n + 1] = f[x] /\ \A i \in 1..n : r[i] = f[s[i]]
  BY <1>1, <1>2
<1>7. r = [i \in 1..(n + 1) |-> r[i]]
  BY <1>1
<1> HIDE DEF l, r
<1>8. ASSUME NEW i \in 1..(n + 1) PROVE r[i] = l[i]
  <2>1. i \in 1..n \/ i = n + 1
    BY ONLY <1>1
  <2>2. QED BY <1>4, <1>5, <1>6, <2>1
<1>9. l = [i \in 1..(n + 1) |-> l[i]]
  BY ONLY <1>1, <1>5
<1>10. r = l
  BY <1>7, <1>8, <1>9
<1>11. FlattenSeq(l) = FlattenSeq(m) \o f[x]
  BY <1>1, <1>3, FlattenAppend DEF l
<1>12. QED BY <1>10, <1>11 DEF Spread, r, m

LEMMA SpreadType ==
    ASSUME NEW S, NEW f \in [S -> Seq(S)], NEW s \in Seq(S)
    PROVE  Spread(f, s) \in Seq(S)
<1> DEFINE T == {a \in Seq(S) : Spread(f, a) \in Seq(S)}
<1>1. <<>> \in T
  <2>1. Spread(f, <<>>) = <<>>
    BY SpreadNothing
  <2>2. <<>> \in Seq(S) /\ <<>> \in Seq(S)
    OBVIOUS
  <2>3. QED BY <2>1, <2>2
<1>2. ASSUME NEW a \in T, NEW x \in S PROVE Append(a, x) \in T
  <2> DEFINE u == Spread(f, a)
             w == f[x]
  <2>1. w \in Seq(S) /\ u \in Seq(S) /\ Append(a, x) \in Seq(S) /\ a \in Seq(S)
    OBVIOUS
  <2>2. Spread(f, Append(a, x)) = u \o w
    BY <2>1, SpreadAppend
  <2> HIDE DEF u, w
  <2>3. u \o w \in Seq(S)
    BY <2>1
  <2>4. QED BY <2>1, <2>2, <2>3
<1>3. T \in SUBSET Seq(S)
  OBVIOUS
<1> HIDE DEF T
<1>4. s \in T
  BY <1>1, <1>2, <1>3, SeqInduction
<1>5. QED BY <1>4 DEF T

LEMMA SpreadConcat ==
    ASSUME NEW S, NEW f \in [S -> Seq(S)], NEW a \in Seq(S), NEW b \in Seq(S)
    PROVE  Spread(f, a \o b) = Spread(f, a) \o Spread(f, b)
<1> DEFINE T == {s \in Seq(S) : Spread(f, a \o s) = Spread(f, a) \o Spread(f, s)}
<1>1. <<>> \in T
  <2> DEFINE u == Spread(f, a)
  <2>1. u \in Seq(S)
    BY SpreadType
  <2>2. a \o <<>> = a /\ <<>> \in Seq(S)
    OBVIOUS
  <2>3. Spread(f, <<>>) = <<>>
    BY SpreadNothing
  <2>4. Spread(f, a \o <<>>) = u
    BY <2>2
  <2> HIDE DEF u
  <2>5. u \o <<>> = u
    BY <2>1
  <2>6. QED BY <2>2, <2>3, <2>4, <2>5 DEF u
<1>2. ASSUME NEW s \in T, NEW x \in S PROVE Append(s, x) \in T
  <2> DEFINE u == Spread(f, a)
             v == Spread(f, s)
             w == f[x]
  <2>1. /\ s \in Seq(S) /\ a \o s \in Seq(S) /\ Append(s, x) \in Seq(S)
        /\ a \o Append(s, x) = Append(a \o s, x)
    OBVIOUS
  <2>2. u \in Seq(S) /\ v \in Seq(S) /\ w \in Seq(S)
    BY <2>1, SpreadType
  <2>3. Spread(f, Append(s, x)) = v \o w
    BY <2>1, SpreadAppend
  <2>4. Spread(f, Append(a \o s, x)) = Spread(f, a \o s) \o w
    BY <2>1, SpreadAppend
  <2>5. Spread(f, a \o s) = u \o v
    OBVIOUS
  <2> HIDE DEF u, v, w, T
  <2>6. (u \o v) \o w = u \o (v \o w)
    BY <2>2
  <2>7. Spread(f, a \o Append(s, x)) = u \o Spread(f, Append(s, x))
    BY <2>1, <2>3, <2>4, <2>5, <2>6
  <2>8. QED BY <2>1, <2>7 DEF T, u
<1>3. T \in SUBSET Seq(S)
  OBVIOUS
<1> HIDE DEF T
<1>4. b \in T
  BY <1>1, <1>2, <1>3, SeqInduction
<1>5. QED BY <1>4 DEF T

\* A sequence of one element.
LEMMA SpreadOne ==
    ASSUME NEW S, NEW f \in [S -> Seq(S)], NEW x \in S
    PROVE  Spread(f, <<x>>) = f[x]
<1>1. <<>> \in Seq(S) /\ Append(<<>>, x) = <<x>> /\ f[x] \in Seq(S)
  OBVIOUS
<1>2. Spread(f, Append(<<>>, x)) = Spread(f, <<>>) \o f[x]
  BY <1>1, SpreadAppend
<1>3. Spread(f, <<x>>) = <<>> \o f[x]
  BY <1>1, <1>2, SpreadNothing
<1>4. QED BY <1>1, <1>3

-----------------------------------------------------------------------------
(* The types of the parser. *)

\* What the parsers of the options may raise, and telnet_recv.
PayloadOf(o, c) == {payload(o, c)[i] : i \in DOMAIN payload(o, c)}
PayloadEvents == UNION {PayloadOf(o, c) : o \in Bytes, c \in Seq(Bytes)}

Events ==
    {<<"data", b>> : b \in Bytes} \cup {<<"iac", b>> : b \in Bytes} \cup {<<"overflow">>}
    \cup {<<v, o>> : v \in Verbs, o \in Bytes}
    \cup {<<"subnegotiation", o, c>> : o \in Bytes, c \in Seq(Bytes)}
    \cup PayloadEvents

IsQ(q) == q \in [DOMAIN q -> OptionT] /\ DOMAIN q \subseteq Bytes

\* Where process may be after i bytes.
IsParser(t, i) ==
    /\ DOMAIN t = {"state", "sb_telopt", "buffer", "q", "start", "out", "events"}
    /\ t.state \in States /\ t.sb_telopt \in Bytes
    /\ t.buffer \in Seq(Bytes) /\ Len(t.buffer) <= MaxBuffer
    /\ IsQ(t.q) /\ t.start \in 1..(i + 1)
    /\ t.out \in Seq(Bytes) /\ t.events \in Seq(Events)

\* A handler sends bytes, if any.
IsHandler(user) == user.on_ttype_send \in Seq(Bytes)

\* A parser of a payload raises one event, or none.
LEMMA PayloadType ==
    ASSUME NEW o \in Bytes, NEW c \in Seq(Bytes)
    PROVE  payload(o, c) \in Seq(Events) /\ Len(payload(o, c)) \in 0..1
<1> DEFINE One(s) == s = <<>> \/ \E e : s = <<e>>
<1>1. One(payload(o, c))
  <2>1. One(zmp_telnet(c))
    BY Zenon DEF zmp_telnet
  <2>2. One(mssp_telnet(c))
    BY Zenon DEF mssp_telnet
  <2>3. One(environ_telnet(c))
    BY Zenon DEF environ_telnet
  <2>4. One(ttype_telnet(c))
    BY DEF ttype_telnet
  <2>5. One(<<>>)
    OBVIOUS
  <2> HIDE DEF One
  <2>6. QED BY <2>1, <2>2, <2>3, <2>4, <2>5 DEF payload
<1>2. \A i \in DOMAIN payload(o, c) : payload(o, c)[i] \in Events
  <2> SUFFICES ASSUME NEW i \in DOMAIN payload(o, c)
               PROVE  payload(o, c)[i] \in Events
    OBVIOUS
  <2>1. payload(o, c)[i] \in PayloadOf(o, c)
    BY DEF PayloadOf
  <2>2. payload(o, c)[i] \in PayloadEvents
    BY <2>1 DEF PayloadEvents
  <2>3. QED BY <2>2 DEF Events
<1> DEFINE p == payload(o, c)
<1> HIDE DEF p
<1>3. CASE p = <<>>
  BY <1>3 DEF p
<1>4. ASSUME NEW e, p = <<e>> PROVE p \in Seq(Events) /\ Len(p) \in 0..1
  <2>1. p[1] \in Events
    BY <1>2, <1>4 DEF p
  <2>2. QED BY <1>4, <2>1
<1>5. QED BY <1>1, <1>3, <1>4 DEF p

\* A move leads to a state, and sends and raises a verb or nothing.
MoveT == [next : QStates, send : Verbs \cup {"none"}, event : Verbs \cup {"none"}]

LEMMA ReceivedType ==
    ASSUME NEW verb \in Verbs, NEW supported, NEW state \in QStates
    PROVE  OnReceived(verb, supported, state) \in MoveT
<1> USE DEF QStates, Verbs, Move, MoveT
<1>1. on_will(supported)[state] \in MoveT /\ on_do(supported)[state] \in MoveT
  BY DEF on_will, on_do
<1>2. on_wont[state] \in MoveT /\ on_dont[state] \in MoveT
  BY DEF on_wont, on_dont
<1>3. QED BY <1>1, <1>2 DEF OnReceived

LEMMA AskedType ==
    ASSUME NEW verb \in Verbs, NEW state \in QStates
    PROVE  OnAsked(verb, state) \in MoveT
  BY DEF OnAsked, ask_enable, ask_disable, QStates, Verbs, Move, MoveT

LEMMA SentType ==
    ASSUME NEW move \in MoveT, NEW telopt \in Bytes
    PROVE  (IF move.send = "none" THEN <<>> ELSE send_negotiate(move.send, telopt)) \in Seq(Bytes)
<1>1. CASE move.send = "none"
  BY <1>1
<1>2. CASE move.send # "none"
  <2>1. move.send \in Verbs
    BY <1>2 DEF MoveT
  <2>2. VerbByte[move.send] \in Bytes /\ IAC \in Bytes
    BY <2>1 DEF VerbByte, Verbs, Bytes, IAC
  <2>3. send_negotiate(move.send, telopt) \in Seq(Bytes)
    BY <2>2 DEF send_negotiate
  <2>4. QED BY <1>2, <2>3
<1>3. QED BY <1>1, <1>2

LEMMA OptionType ==
    ASSUME NEW q, IsQ(q), NEW telopt
    PROVE  get_rfc1143(q, telopt) \in OptionT
  BY DEF IsQ, get_rfc1143, OptionT, QStates

LEMMA MovedType ==
    ASSUME NEW q, IsQ(q), NEW telopt \in Bytes, NEW side \in Sides, NEW next \in QStates
    PROVE  IsQ(moved(q, telopt, side, next))
<1> DEFINE r == set_rfc1143(q, telopt, side, next)
           new == [get_rfc1143(q, telopt) EXCEPT ![side] = next]
<1>1. new \in OptionT
  BY OptionType DEF OptionT, Sides
<1>2. \A o \in DOMAIN q \cup {telopt} : r[o] = IF o = telopt THEN new ELSE q[o]
  BY DEF set_rfc1143
<1>3. DOMAIN r = DOMAIN q \cup {telopt} /\ r = [o \in DOMAIN r |-> r[o]]
  BY DEF set_rfc1143
<1> HIDE DEF r, new
<1>4. IsQ(r)
  BY <1>1, <1>2, <1>3 DEF IsQ
<1>5. QED BY <1>4 DEF moved, r

LEMMA RaiseType ==
    ASSUME NEW i \in Nat, NEW t, IsParser(t, i), NEW events \in Seq(Events)
    PROVE  /\ IsParser(Raise(t, events), i)
           /\ Raise(t, events).state = t.state
  BY DEF IsParser, Raise

LEMMA ToDataType ==
    ASSUME NEW i \in Nat, NEW t, IsParser(t, i)
    PROVE  IsParser(ToData(t, i), i)
  BY DEF IsParser, ToData, States

LEMMA RaisedToData ==
    ASSUME NEW i \in Nat, NEW t, IsParser(t, i), NEW events \in Seq(Events)
    PROVE  IsParser(ToData(Raise(t, events), i), i)
<1>1. IsParser(Raise(t, events), i)
  BY RaiseType
<1>2. QED BY <1>1, ToDataType

\* One event is a sequence of them.
LEMMA EventTypes ==
    ASSUME NEW b \in Bytes
    PROVE  /\ <<<<"data", b>>>> \in Seq(Events) /\ <<<<"iac", b>>>> \in Seq(Events)
           /\ <<<<"overflow">>>> \in Seq(Events)
           /\ \A v \in Verbs : <<<<v, b>>>> \in Seq(Events)
           /\ \A c \in Seq(Bytes) : <<<<"subnegotiation", b, c>>>> \in Seq(Events)
<1>1. <<"data", b>> \in Events /\ <<"iac", b>> \in Events /\ <<"overflow">> \in Events
  BY DEF Events
<1>2. \A v \in Verbs : <<v, b>> \in Events
  BY DEF Events
<1>3. \A c \in Seq(Bytes) : <<"subnegotiation", b, c>> \in Events
  BY DEF Events
<1> HIDE DEF Events
<1>4. QED BY <1>1, <1>2, <1>3

\* The data of a chunk.
LEMMA PassOnEvents ==
    ASSUME NEW i \in Nat, NEW t, IsParser(t, i), NEW chunk \in Seq(Bytes),
           NEW last \in Nat, last <= Len(chunk)
    PROVE  [k \in 1..(last - t.start + 1) |-> <<"data", chunk[t.start + k - 1]>>] \in Seq(Events)
<1> DEFINE e == [k \in 1..(last - t.start + 1) |-> <<"data", chunk[t.start + k - 1]>>]
<1>1. t.start \in Nat \ {0}
  BY DEF IsParser
<1>2. \A k \in 1..(last - t.start + 1) : <<"data", chunk[t.start + k - 1]>> \in Events
  <2>1. \A k \in 1..(last - t.start + 1) : chunk[t.start + k - 1] \in Bytes
    BY <1>1
  <2>2. QED BY <2>1 DEF Events
<1>3. e \in Seq(Events)
  <2>1. CASE last - t.start + 1 \in Nat
    <3> DEFINE n == last - t.start + 1
    <3>1. \A k \in 1..n : e[k] \in Events
      BY <1>2
    <3>2. e = [k \in 1..n |-> e[k]]
      OBVIOUS
    <3> HIDE DEF e, n
    <3>3. n \in Nat
      BY <2>1 DEF n
    <3>4. QED BY <3>1, <3>2, <3>3
  <2>2. CASE last - t.start + 1 \notin Nat
    <3>1. ~(last - t.start + 1 >= 1)
      BY <1>1, <2>2
    <3>2. 1..(last - t.start + 1) = {}
      BY <1>1, <3>1
    <3>3. e = <<>>
      BY <3>2
    <3> HIDE DEF e
    <3>4. QED BY <3>3
  <2> HIDE DEF e
  <2>3. QED BY <2>1, <2>2
<1>4. QED BY <1>3

LEMMA PassOnType ==
    ASSUME NEW i \in Nat, NEW t, IsParser(t, i), NEW chunk \in Seq(Bytes),
           NEW last \in Nat, last <= Len(chunk)
    PROVE  IsParser(PassOn(t, chunk, last), i) /\ PassOn(t, chunk, last).state = t.state
<1> DEFINE e == [k \in 1..(last - t.start + 1) |-> <<"data", chunk[t.start + k - 1]>>]
<1>1. e \in Seq(Events)
  BY PassOnEvents
<1>2. PassOn(t, chunk, last) = Raise(t, e)
  BY DEF PassOn
<1> HIDE DEF e
<1>3. QED BY <1>1, <1>2, RaiseType

\* What negotiate raises, sends and remembers.
LEMMA NegotiateMoves ==
    ASSUME NEW i \in Nat, NEW t, IsParser(t, i), t.state \in Verbs, NEW telopt \in Bytes,
           NEW user
    PROVE  LET side == TouchedBy(t.state)
               move == OnReceived(t.state, <<side, telopt>> \in user.supported,
                                  get_rfc1143(t.q, telopt)[side])
           IN  /\ (IF move.event = "none" THEN <<>> ELSE <<<<move.event, telopt>>>>) \in Seq(Events)
               /\ (IF move.send = "none" THEN <<>> ELSE send_negotiate(move.send, telopt))
                      \in Seq(Bytes)
               /\ IsQ(moved(t.q, telopt, side, move.next))
<1> DEFINE side == TouchedBy(t.state)
           move == OnReceived(t.state, <<side, telopt>> \in user.supported,
                              get_rfc1143(t.q, telopt)[side])
           e == IF move.event = "none" THEN <<>> ELSE <<<<move.event, telopt>>>>
<1>1. side \in Sides /\ IsQ(t.q)
  BY DEF TouchedBy, Sides, IsParser
<1>2. get_rfc1143(t.q, telopt)[side] \in QStates
  BY <1>1, OptionType DEF OptionT, Sides
<1>3. move \in MoveT
  BY <1>2, ReceivedType
<1> HIDE DEF move, side
<1>4. e \in Seq(Events)
  <2>1. CASE move.event = "none"
    BY <2>1
  <2>2. CASE move.event # "none"
    <3>1. move.event \in Verbs
      BY <1>3, <2>2 DEF MoveT
    <3>2. <<<<move.event, telopt>>>> \in Seq(Events)
      BY <3>1, EventTypes
    <3>3. QED BY <2>2, <3>2
  <2>3. QED BY <2>1, <2>2
<1>5. (IF move.send = "none" THEN <<>> ELSE send_negotiate(move.send, telopt)) \in Seq(Bytes)
  BY <1>3, SentType
<1>6. IsQ(moved(t.q, telopt, side, move.next))
  BY <1>1, <1>3, MovedType DEF MoveT
<1>7. QED BY <1>4, <1>5, <1>6, Zenon DEF move, side

LEMMA NegotiateType ==
    ASSUME NEW i \in Nat, NEW t, IsParser(t, i), t.state \in Verbs, NEW telopt \in Bytes,
           NEW user
    PROVE  IsParser(negotiate(t, telopt, user), i)
<1> DEFINE side == TouchedBy(t.state)
           move == OnReceived(t.state, <<side, telopt>> \in user.supported,
                              get_rfc1143(t.q, telopt)[side])
           e == IF move.event = "none" THEN <<>> ELSE <<<<move.event, telopt>>>>
           o == IF move.send = "none" THEN <<>> ELSE send_negotiate(move.send, telopt)
           q == moved(t.q, telopt, side, move.next)
<1>1. e \in Seq(Events) /\ o \in Seq(Bytes) /\ IsQ(q)
  BY NegotiateMoves
<1>2. Raise(t, e).q = t.q
  BY DEF Raise, IsParser
<1>3. negotiate(t, telopt, user) =
          [Raise(t, e) EXCEPT !.q = moved(@, telopt, side, move.next), !.out = @ \o o]
  BY Zenon DEF negotiate
<1> HIDE DEF e, o, side, move
<1>4. negotiate(t, telopt, user) = [Raise(t, e) EXCEPT !.q = q, !.out = @ \o o]
  BY <1>2, <1>3, Zenon
<1> HIDE DEF q
<1>5. QED BY <1>1, <1>4 DEF IsParser, Raise

\* What subnegotiate raises and sends.
LEMMA SubnegotiateRaises ==
    ASSUME NEW i \in Nat, NEW t, IsParser(t, i), NEW user, IsHandler(user)
    PROVE  LET p == payload(t.sb_telopt, t.buffer)
           IN  /\ <<<<"subnegotiation", t.sb_telopt, t.buffer>>>> \o p \in Seq(Events)
               /\ (IF p = <<<<"ttype_send">>>> THEN user.on_ttype_send ELSE <<>>) \in Seq(Bytes)
<1> DEFINE p == payload(t.sb_telopt, t.buffer)
<1>1. t.sb_telopt \in Bytes /\ t.buffer \in Seq(Bytes)
  BY DEF IsParser
<1>2. p \in Seq(Events)
  BY <1>1, PayloadType
<1>3. <<<<"subnegotiation", t.sb_telopt, t.buffer>>>> \in Seq(Events)
  BY <1>1, EventTypes
<1> HIDE DEF p
<1>4. <<<<"subnegotiation", t.sb_telopt, t.buffer>>>> \o p \in Seq(Events)
  BY <1>2, <1>3
<1>5. (IF p = <<<<"ttype_send">>>> THEN user.on_ttype_send ELSE <<>>) \in Seq(Bytes)
  BY DEF IsHandler
<1>6. QED BY <1>4, <1>5 DEF p

LEMMA SubnegotiateType ==
    ASSUME NEW i \in Nat, NEW t, IsParser(t, i), NEW user, IsHandler(user)
    PROVE  /\ IsParser(subnegotiate(t, user), i)
           /\ subnegotiate(t, user).state = t.state
<1> DEFINE p == payload(t.sb_telopt, t.buffer)
           e == <<<<"subnegotiation", t.sb_telopt, t.buffer>>>> \o p
           o == IF p = <<<<"ttype_send">>>> THEN user.on_ttype_send ELSE <<>>
<1>1. e \in Seq(Events) /\ o \in Seq(Bytes)
  BY SubnegotiateRaises
<1>2. subnegotiate(t, user) = [Raise(t, e) EXCEPT !.out = @ \o o]
  BY DEF subnegotiate
<1> HIDE DEF e, o
<1>3. QED BY <1>1, <1>2 DEF IsParser, Raise

\* What follows an IAC: the four cases exclude each other.
IsVerb(byte) == \E v \in Verbs : byte = VerbByte[v]
VerbOf(byte) == CHOOSE v \in Verbs : byte = VerbByte[v]

LEMMA InIacIs ==
    ASSUME NEW t, NEW byte, NEW i
    PROVE  in_iac(t, byte, i) =
               IF byte = SB THEN [t EXCEPT !.state = "SB"]
               ELSE IF IsVerb(byte) THEN [t EXCEPT !.state = VerbOf(byte)]
               ELSE ToData(Raise(t, IF byte = IAC THEN <<<<"data", byte>>>>
                                    ELSE <<<<"iac", byte>>>>), i)
<1>1. SB # IAC /\ ~IsVerb(SB) /\ ~IsVerb(IAC)
  BY DEF SB, IAC, IsVerb, Verbs, VerbByte
<1>2. in_iac(t, byte, i) =
          CASE byte = SB -> [t EXCEPT !.state = "SB"]
            [] IsVerb(byte) -> [t EXCEPT !.state = VerbOf(byte)]
            [] byte = IAC -> ToData(Raise(t, <<<<"data", IAC>>>>), i)
            [] OTHER -> ToData(Raise(t, <<<<"iac", byte>>>>), i)
  BY Zenon DEF in_iac, IsVerb, VerbOf
<1>3. QED BY <1>1, <1>2

LEMMA InIacType ==
    ASSUME NEW i \in Nat, NEW t, IsParser(t, i), NEW byte \in Bytes
    PROVE  IsParser(in_iac(t, byte, i), i)
<1> DEFINE e == IF byte = IAC THEN <<<<"data", byte>>>> ELSE <<<<"iac", byte>>>>
<1>1. IsParser([t EXCEPT !.state = "SB"], i)
  BY DEF IsParser, States
<1>2. IsVerb(byte) => VerbOf(byte) \in Verbs
  BY Zenon DEF IsVerb, VerbOf
<1>3. IsVerb(byte) => IsParser([t EXCEPT !.state = VerbOf(byte)], i)
  BY <1>2 DEF IsParser, States
<1>4. e \in Seq(Events)
  BY EventTypes
<1>5. IsParser(ToData(Raise(t, e), i), i)
  BY <1>4, RaisedToData
<1> HIDE DEF e
<1>6. in_iac(t, byte, i) = IF byte = SB THEN [t EXCEPT !.state = "SB"]
                           ELSE IF IsVerb(byte) THEN [t EXCEPT !.state = VerbOf(byte)]
                           ELSE ToData(Raise(t, e), i)
  BY InIacIs, Zenon DEF e
<1>7. QED BY <1>1, <1>3, <1>5, <1>6

LEMMA BufferByteType ==
    ASSUME NEW i \in Nat, NEW t, IsParser(t, i), NEW byte \in Bytes
    PROVE  IsParser(buffer_byte(t, byte, i), i)
<1>1. CASE Len(t.buffer) < MaxBuffer
  <2>1. buffer_byte(t, byte, i) = [t EXCEPT !.buffer = Append(@, byte), !.state = "SB_DATA"]
    BY <1>1 DEF buffer_byte
  <2>2. Append(t.buffer, byte) \in Seq(Bytes) /\ Len(Append(t.buffer, byte)) <= MaxBuffer
    BY <1>1 DEF IsParser
  <2>3. QED BY <2>1, <2>2 DEF IsParser, States
<1>2. CASE ~(Len(t.buffer) < MaxBuffer)
  <2>1. buffer_byte(t, byte, i) = ToData(Raise(t, <<<<"overflow">>>>), i)
    BY <1>2 DEF buffer_byte
  <2>2. QED BY <2>1, RaisedToData, EventTypes
<1>3. QED BY <1>1, <1>2

LEMMA ProcessByteType ==
    ASSUME NEW chunk \in Seq(Bytes), NEW i \in 1..Len(chunk), NEW t, IsParser(t, i - 1),
           NEW user, IsHandler(user)
    PROVE  IsParser(process_byte(t, chunk, i, user), i)
<1> DEFINE b == chunk[i]
           r == process_byte(t, chunk, i, user)
<1>1. b \in Bytes /\ i \in Nat /\ i - 1 \in Nat /\ i - 1 <= Len(chunk)
  OBVIOUS
<1>2. IsParser(t, i) /\ t.state \in States
  BY <1>1 DEF IsParser
<1> HIDE DEF b
<1>3. CASE t.state = "DATA"
  <2>1. r = in_data(t, chunk, i)
    BY <1>3 DEF process_byte, b, Verbs
  <2>2. IsParser(PassOn(t, chunk, i - 1), i)
    BY <1>1, <1>2, PassOnType
  <2>3. IsParser([PassOn(t, chunk, i - 1) EXCEPT !.state = "IAC"], i)
    BY <2>2 DEF IsParser, States
  <2>4. QED BY <1>2, <2>1, <2>3 DEF in_data
<1>4. CASE t.state = "IAC"
  <2>1. r = in_iac(t, b, i)
    BY <1>4 DEF process_byte, b, Verbs
  <2>2. QED BY <1>1, <1>2, <2>1, InIacType
<1>5. CASE t.state \in Verbs
  <2>1. r = ToData(negotiate(t, b, user), i)
    BY <1>5 DEF process_byte, b, Verbs
  <2>2. QED BY <1>1, <1>2, <1>5, <2>1, NegotiateType, ToDataType
<1>6. CASE t.state = "SB"
  <2>1. r = [t EXCEPT !.sb_telopt = b, !.buffer = <<>>, !.state = "SB_DATA"]
    BY <1>6 DEF process_byte, b, Verbs
  <2>2. QED BY <1>1, <1>2, <2>1 DEF IsParser, States
<1>7. CASE t.state = "SB_DATA" /\ b = IAC
  <2>1. r = [t EXCEPT !.state = "SB_DATA_IAC"]
    BY <1>7 DEF process_byte, b, Verbs
  <2>2. QED BY <1>2, <2>1 DEF IsParser, States
<1>8. CASE t.state = "SB_DATA" /\ b # IAC
  <2>1. r = buffer_byte(t, b, i)
    BY <1>8 DEF process_byte, b, Verbs
  <2>2. QED BY <1>1, <1>2, <2>1, BufferByteType
<1>9. CASE t.state = "SB_DATA_IAC"
  <2>1. r = in_sb_data_iac(t, b, i, user)
    BY <1>9 DEF process_byte, b, Verbs
  <2>2. IsParser(subnegotiate(ToData(t, i), user), i)
    BY <1>1, <1>2, ToDataType, SubnegotiateType
  <2>3. IsParser([t EXCEPT !.state = "IAC", !.start = i + 1], i)
    BY <1>1, <1>2 DEF IsParser, States
  <2>4. IsParser(in_iac(subnegotiate([t EXCEPT !.state = "IAC", !.start = i + 1], user), b, i), i)
    BY <1>1, <2>3, SubnegotiateType, InIacType
  <2>5. CASE b = IAC /\ b # SE
    BY <1>1, <1>2, <2>1, <2>5, BufferByteType DEF in_sb_data_iac
  <2>6. QED BY <2>1, <2>2, <2>4, <2>5 DEF in_sb_data_iac, IAC, SE
<1>10. QED BY <1>2, <1>3, <1>4, <1>5, <1>6, <1>7, <1>8, <1>9 DEF States

LEMMA BeginType ==
    ASSUME NEW tel, IsTelnet(tel)
    PROVE  IsParser(process_begin(tel), 0)
<1>1. /\ tel.state \in States /\ tel.sb_telopt \in Bytes
      /\ tel.buffer \in Seq(Bytes) /\ Len(tel.buffer) <= MaxBuffer /\ IsQ(tel.q)
  BY DEF IsTelnet, IsQ
<1>2. 1 \in 1..(0 + 1) /\ <<>> \in Seq(Bytes) /\ <<>> \in Seq(Events)
  OBVIOUS
<1>3. QED BY <1>1, <1>2 DEF IsParser, process_begin

LEMMA ProcessType ==
    ASSUME NEW tel, IsTelnet(tel), NEW chunk \in Seq(Bytes),
           NEW user, IsHandler(user), NEW n \in 0..Len(chunk)
    PROVE  IsParser(process(tel, chunk, user)[n], n)
<1> DEFINE P == process(tel, chunk, user)
           S == {i \in Nat : i <= Len(chunk) => IsParser(P[i], i)}
<1>1. /\ P[0] = process_begin(tel)
      /\ \A i \in 1..Len(chunk) : P[i] = process_byte(P[i - 1], chunk, i, user)
  BY ProcessSteps
<1> HIDE DEF P
<1>2. 0 \in S
  BY <1>1, BeginType
<1>3. ASSUME NEW i \in S PROVE i + 1 \in S
  <2>1. SUFFICES ASSUME i + 1 <= Len(chunk) PROVE IsParser(P[i + 1], i + 1)
    OBVIOUS
  <2>2. Len(chunk) \in Nat /\ i \in Nat
    OBVIOUS
  <2>3. i + 1 \in 1..Len(chunk) /\ (i + 1) - 1 = i /\ i <= Len(chunk)
    BY <2>1, <2>2
  <2>4. IsParser(P[(i + 1) - 1], (i + 1) - 1)
    BY <2>3
  <2> DEFINE j == i + 1
  <2>5. j \in 1..Len(chunk) /\ IsParser(P[j - 1], j - 1)
    BY <2>3, <2>4
  <2> HIDE DEF j
  <2>6. IsParser(P[j], j)
    BY <1>1, <2>5, ProcessByteType
  <2>7. QED BY <2>6 DEF j
<1>4. S = Nat
  <2> HIDE DEF S
  <2>1. S \in SUBSET Nat
    BY DEF S
  <2>2. QED BY <1>2, <1>3, <2>1, SetInduction
<1>5. n \in S /\ n <= Len(chunk)
  BY <1>4
<1>6. QED BY <1>5 DEF P

\* telnet_recv leaves a telnet_t, sends bytes and raises events.
LEMMA RecvType ==
    ASSUME NEW tel, IsTelnet(tel), NEW chunk \in Seq(Bytes),
           NEW user, IsHandler(user)
    PROVE  LET r == telnet_recv(tel, chunk, user)
           IN  IsTelnet(r.telnet) /\ r.out \in Seq(Bytes) /\ r.events \in Seq(Events)
<1> DEFINE n == Len(chunk)
           p == process(tel, chunk, user)[n]
           t == process_end(p, chunk, n)
<1>1. n \in Nat /\ n \in 0..n /\ n <= Len(chunk)
  OBVIOUS
<1>2. IsParser(p, n)
  BY <1>1, ProcessType
<1> HIDE DEF p
<1>3. IsParser(t, n)
  BY <1>1, <1>2, PassOnType DEF process_end
<1> DEFINE u == [state |-> t.state, sb_telopt |-> t.sb_telopt, buffer |-> t.buffer, q |-> t.q]
<1>4. telnet_recv(tel, chunk, user) = [telnet |-> u, out |-> t.out, events |-> t.events]
  BY DEF telnet_recv, p
<1> HIDE DEF t
<1>5. IsTelnet(u)
  BY <1>3 DEF IsTelnet, IsParser, IsQ
<1>6. QED BY <1>3, <1>4, <1>5 DEF IsParser

LEMMA NegotiatedType ==
    ASSUME NEW tel, IsTelnet(tel), NEW verb \in Verbs, NEW o \in Bytes
    PROVE  LET r == telnet_negotiate(tel, verb, o)
           IN  IsTelnet(r.telnet) /\ r.out \in Seq(Bytes)
<1> DEFINE side == TouchedByAsking(verb)
           move == OnAsked(verb, get_rfc1143(tel.q, o)[side])
           out == IF move.send = "none" THEN <<>> ELSE send_negotiate(move.send, o)
           q == moved(tel.q, o, side, move.next)
<1>1. side \in Sides /\ IsQ(tel.q)
  BY DEF TouchedByAsking, Sides, IsTelnet, IsQ
<1>2. get_rfc1143(tel.q, o)[side] \in QStates
  BY <1>1, OptionType DEF OptionT, Sides
<1>3. move \in MoveT
  BY <1>2, AskedType
<1> HIDE DEF move, side
<1>4. IsQ(q)
  BY <1>1, <1>3, MovedType DEF MoveT
<1>5. out \in Seq(Bytes)
  BY <1>3, SentType
<1>6. telnet_negotiate(tel, verb, o) = [telnet |-> [tel EXCEPT !.q = q], out |-> out]
  BY DEF telnet_negotiate, move, side
<1> HIDE DEF q, out
<1>7. IsTelnet([tel EXCEPT !.q = q])
  BY <1>4 DEF IsTelnet, IsQ
<1>8. QED BY <1>5, <1>6, <1>7

-----------------------------------------------------------------------------
(* What is read later does not depend on how it is cut. *)

\* t is where u is, but sent o and raised e before.
After(t, u, o, e) ==
    /\ t.state = u.state /\ t.sb_telopt = u.sb_telopt /\ t.buffer = u.buffer /\ t.q = u.q
    /\ t.out = o \o u.out /\ t.events = e \o u.events

LEMMA RaiseAfter ==
    ASSUME NEW i \in Nat, NEW t, IsParser(t, i), NEW j \in Nat, NEW u, IsParser(u, j),
           NEW o \in Seq(Bytes), NEW e \in Seq(Events), After(t, u, o, e),
           NEW x \in Seq(Events)
    PROVE  After(Raise(t, x), Raise(u, x), o, e)
<1>1. u.events \in Seq(Events)
  BY DEF IsParser
<1>2. \A d \in Seq(Events) : (e \o d) \o x = e \o (d \o x)
  <2> HIDE DEF Events
  <2>1. QED OBVIOUS
<1>3. (e \o u.events) \o x = e \o (u.events \o x)
  BY <1>1, <1>2
<1>4. QED BY <1>3 DEF After, Raise, IsParser

LEMMA ToDataAfter ==
    ASSUME NEW i \in Nat, NEW t, IsParser(t, i), NEW j \in Nat, NEW u, IsParser(u, j),
           NEW o \in Seq(Bytes), NEW e \in Seq(Events), After(t, u, o, e)
    PROVE  After(ToData(t, i), ToData(u, j), o, e)
  BY DEF After, ToData, IsParser

LEMMA RaisedAfter ==
    ASSUME NEW i \in Nat, NEW t, IsParser(t, i), NEW j \in Nat, NEW u, IsParser(u, j),
           NEW o \in Seq(Bytes), NEW e \in Seq(Events), After(t, u, o, e),
           NEW x \in Seq(Events)
    PROVE  After(ToData(Raise(t, x), i), ToData(Raise(u, x), j), o, e)
<1>1. After(Raise(t, x), Raise(u, x), o, e)
  BY RaiseAfter
<1>2. IsParser(Raise(t, x), i) /\ IsParser(Raise(u, x), j)
  BY RaiseType
<1>3. QED BY <1>1, <1>2, ToDataAfter

LEMMA NegotiateAfter ==
    ASSUME NEW i \in Nat, NEW t, IsParser(t, i), NEW j \in Nat, NEW u, IsParser(u, j),
           NEW o \in Seq(Bytes), NEW e \in Seq(Events), After(t, u, o, e),
           t.state \in Verbs, NEW telopt \in Bytes, NEW user
    PROVE  After(negotiate(t, telopt, user), negotiate(u, telopt, user), o, e)
<1> DEFINE side == TouchedBy(t.state)
           move == OnReceived(t.state, <<side, telopt>> \in user.supported,
                              get_rfc1143(t.q, telopt)[side])
           x == IF move.event = "none" THEN <<>> ELSE <<<<move.event, telopt>>>>
           y == IF move.send = "none" THEN <<>> ELSE send_negotiate(move.send, telopt)
           q == moved(t.q, telopt, side, move.next)
<1>1. x \in Seq(Events) /\ y \in Seq(Bytes)
  BY NegotiateMoves
<1>2. t.state = u.state /\ t.q = u.q
  BY DEF After
<1>3. /\ negotiate(t, telopt, user) = [Raise(t, x) EXCEPT !.q = q, !.out = @ \o y]
      /\ negotiate(u, telopt, user) = [Raise(u, x) EXCEPT !.q = q, !.out = @ \o y]
  <2>1. Raise(t, x).q = t.q /\ Raise(u, x).q = t.q
    BY <1>2 DEF Raise, IsParser
  <2>2. negotiate(t, telopt, user) =
            [Raise(t, x) EXCEPT !.q = moved(@, telopt, side, move.next), !.out = @ \o y]
    BY Zenon DEF negotiate
  <2>3. negotiate(u, telopt, user) =
            [Raise(u, x) EXCEPT !.q = moved(@, telopt, side, move.next), !.out = @ \o y]
    BY <1>2, Zenon DEF negotiate
  <2> HIDE DEF x, y, side, move
  <2>4. QED BY <2>1, <2>2, <2>3, Zenon
<1> HIDE DEF x, y, q
<1>4. After(Raise(t, x), Raise(u, x), o, e)
  BY <1>1, RaiseAfter
<1>5. IsParser(Raise(t, x), i) /\ IsParser(Raise(u, x), j)
  BY <1>1, RaiseType
<1> DEFINE a == Raise(t, x)
           b == Raise(u, x)
<1> HIDE DEF a, b
<1>6. (o \o b.out) \o y = o \o (b.out \o y)
  <2>1. b.out \in Seq(Bytes)
    BY <1>5 DEF IsParser, b
  <2>2. \A d \in Seq(Bytes) : (o \o d) \o y = o \o (d \o y)
    BY <1>1
  <2>3. QED BY <2>1, <2>2
<1>7. After(a, b, o, e) /\ IsParser(a, i) /\ IsParser(b, j)
  BY <1>4, <1>5 DEF a, b
<1>8. After([a EXCEPT !.q = q, !.out = @ \o y], [b EXCEPT !.q = q, !.out = @ \o y], o, e)
  BY <1>6, <1>7 DEF After, IsParser
<1>9. QED BY <1>3, <1>8 DEF a, b

LEMMA SubnegotiateAfter ==
    ASSUME NEW i \in Nat, NEW t, IsParser(t, i), NEW j \in Nat, NEW u, IsParser(u, j),
           NEW o \in Seq(Bytes), NEW e \in Seq(Events), After(t, u, o, e),
           NEW user, IsHandler(user)
    PROVE  After(subnegotiate(t, user), subnegotiate(u, user), o, e)
<1> DEFINE p == payload(t.sb_telopt, t.buffer)
           x == <<<<"subnegotiation", t.sb_telopt, t.buffer>>>> \o p
           y == IF p = <<<<"ttype_send">>>> THEN user.on_ttype_send ELSE <<>>
<1>1. x \in Seq(Events) /\ y \in Seq(Bytes)
  BY SubnegotiateRaises
<1>2. t.sb_telopt = u.sb_telopt /\ t.buffer = u.buffer
  BY DEF After
<1>3. /\ subnegotiate(t, user) = [Raise(t, x) EXCEPT !.out = @ \o y]
      /\ subnegotiate(u, user) = [Raise(u, x) EXCEPT !.out = @ \o y]
  BY <1>2 DEF subnegotiate
<1> HIDE DEF x, y
<1>4. After(Raise(t, x), Raise(u, x), o, e)
  BY <1>1, RaiseAfter
<1>5. IsParser(Raise(t, x), i) /\ IsParser(Raise(u, x), j)
  BY <1>1, RaiseType
<1> DEFINE a == Raise(t, x)
           b == Raise(u, x)
<1> HIDE DEF a, b
<1>6. (o \o b.out) \o y = o \o (b.out \o y)
  <2>1. b.out \in Seq(Bytes)
    BY <1>5 DEF IsParser, b
  <2>2. \A d \in Seq(Bytes) : (o \o d) \o y = o \o (d \o y)
    BY <1>1
  <2>3. QED BY <2>1, <2>2
<1>7. After(a, b, o, e) /\ IsParser(a, i) /\ IsParser(b, j)
  BY <1>4, <1>5 DEF a, b
<1>8. After([a EXCEPT !.out = @ \o y], [b EXCEPT !.out = @ \o y], o, e)
  BY <1>6, <1>7 DEF After, IsParser
<1>9. QED BY <1>3, <1>8 DEF a, b

LEMMA InIacAfter ==
    ASSUME NEW i \in Nat, NEW t, IsParser(t, i), NEW j \in Nat, NEW u, IsParser(u, j),
           NEW o \in Seq(Bytes), NEW e \in Seq(Events), After(t, u, o, e),
           NEW byte \in Bytes
    PROVE  After(in_iac(t, byte, i), in_iac(u, byte, j), o, e)
<1> DEFINE x == IF byte = IAC THEN <<<<"data", byte>>>> ELSE <<<<"iac", byte>>>>
<1>1. x \in Seq(Events)
  BY EventTypes
<1>2. After(ToData(Raise(t, x), i), ToData(Raise(u, x), j), o, e)
  BY <1>1, RaisedAfter
<1>3. \A s : After([t EXCEPT !.state = s], [u EXCEPT !.state = s], o, e)
  BY DEF After, IsParser
<1>4. /\ in_iac(t, byte, i) = IF byte = SB THEN [t EXCEPT !.state = "SB"]
                              ELSE IF IsVerb(byte) THEN [t EXCEPT !.state = VerbOf(byte)]
                              ELSE ToData(Raise(t, x), i)
      /\ in_iac(u, byte, j) = IF byte = SB THEN [u EXCEPT !.state = "SB"]
                              ELSE IF IsVerb(byte) THEN [u EXCEPT !.state = VerbOf(byte)]
                              ELSE ToData(Raise(u, x), j)
  BY InIacIs, Zenon
<1> HIDE DEF x
<1>5. QED BY <1>2, <1>3, <1>4

LEMMA BufferByteAfter ==
    ASSUME NEW i \in Nat, NEW t, IsParser(t, i), NEW j \in Nat, NEW u, IsParser(u, j),
           NEW o \in Seq(Bytes), NEW e \in Seq(Events), After(t, u, o, e),
           NEW byte \in Bytes
    PROVE  After(buffer_byte(t, byte, i), buffer_byte(u, byte, j), o, e)
<1>1. t.buffer = u.buffer
  BY DEF After
<1>2. After(ToData(Raise(t, <<<<"overflow">>>>), i), ToData(Raise(u, <<<<"overflow">>>>), j), o, e)
  BY RaisedAfter, EventTypes
<1>3. After([t EXCEPT !.buffer = Append(@, byte), !.state = "SB_DATA"],
            [u EXCEPT !.buffer = Append(@, byte), !.state = "SB_DATA"], o, e)
  BY DEF After, IsParser
<1>4. QED BY <1>1, <1>2, <1>3 DEF buffer_byte

\* Where a state becomes DATA, the next byte begins the data.
StartsAt(t, i) == t.state = "DATA" => t.start = i + 1

LEMMA ToIacType ==
    ASSUME NEW i \in Nat, NEW t, IsParser(t, i)
    PROVE  IsParser([t EXCEPT !.state = "IAC", !.start = i + 1], i)
  BY DEF IsParser, States

LEMMA SubnegotiateKeeps ==
    ASSUME NEW i \in Nat, NEW t, IsParser(t, i), NEW user, IsHandler(user)
    PROVE  subnegotiate(t, user).state = t.state /\ subnegotiate(t, user).start = t.start
<1> DEFINE p == payload(t.sb_telopt, t.buffer)
           x == <<<<"subnegotiation", t.sb_telopt, t.buffer>>>> \o p
           y == IF p = <<<<"ttype_send">>>> THEN user.on_ttype_send ELSE <<>>
<1>1. subnegotiate(t, user) = [Raise(t, x) EXCEPT !.out = @ \o y]
  BY DEF subnegotiate
<1> HIDE DEF x, y
<1>2. QED BY <1>1 DEF Raise, IsParser

LEMMA InIacStarts ==
    ASSUME NEW i \in Nat, NEW t, IsParser(t, i), NEW byte \in Bytes
    PROVE  StartsAt(in_iac(t, byte, i), i)
<1> DEFINE x == IF byte = IAC THEN <<<<"data", byte>>>> ELSE <<<<"iac", byte>>>>
<1>1. in_iac(t, byte, i) = IF byte = SB THEN [t EXCEPT !.state = "SB"]
                           ELSE IF IsVerb(byte) THEN [t EXCEPT !.state = VerbOf(byte)]
                           ELSE ToData(Raise(t, x), i)
  BY InIacIs, Zenon
<1>2. IsVerb(byte) => VerbOf(byte) \in Verbs
  BY Zenon DEF IsVerb, VerbOf
<1> HIDE DEF x
<1>3. [t EXCEPT !.state = "SB"].state = "SB"
  BY DEF IsParser
<1>4. IsVerb(byte) => [t EXCEPT !.state = VerbOf(byte)].state # "DATA"
  BY <1>2 DEF IsParser, Verbs
<1>5. ToData(Raise(t, x), i).start = i + 1
  BY DEF IsParser, ToData, Raise
<1>6. QED BY <1>1, <1>3, <1>4, <1>5 DEF StartsAt

LEMMA BufferByteStarts ==
    ASSUME NEW i \in Nat, NEW t, IsParser(t, i), NEW byte \in Bytes
    PROVE  StartsAt(buffer_byte(t, byte, i), i)
<1>1. ToData(Raise(t, <<<<"overflow">>>>), i).start = i + 1
  BY DEF IsParser, ToData, Raise
<1>2. [t EXCEPT !.buffer = Append(@, byte), !.state = "SB_DATA"].state = "SB_DATA"
  BY DEF IsParser
<1>3. QED BY <1>1, <1>2 DEF buffer_byte, StartsAt

\* Outside of data a byte does the same wherever it is in a chunk.
LEMMA ByteAfter ==
    ASSUME NEW c \in Seq(Bytes), NEW i \in 1..Len(c), NEW t, IsParser(t, i - 1),
           NEW d \in Seq(Bytes), NEW j \in 1..Len(d), NEW u, IsParser(u, j - 1),
           NEW o \in Seq(Bytes), NEW e \in Seq(Events), After(t, u, o, e),
           c[i] = d[j], t.state # "DATA", NEW user, IsHandler(user)
    PROVE  /\ After(process_byte(t, c, i, user), process_byte(u, d, j, user), o, e)
           /\ StartsAt(process_byte(t, c, i, user), i)
           /\ StartsAt(process_byte(u, d, j, user), j)
<1> DEFINE b == c[i]
           r == process_byte(t, c, i, user)
           s == process_byte(u, d, j, user)
<1>1. b \in Bytes /\ i \in Nat /\ i - 1 \in Nat /\ j \in Nat /\ j - 1 \in Nat /\ b = d[j]
  OBVIOUS
<1>2. IsParser(t, i) /\ IsParser(u, j) /\ t.state \in States /\ u.state = t.state
  BY <1>1 DEF IsParser, After
<1> HIDE DEF b
<1>3. CASE t.state = "IAC"
  <2>1. r = in_iac(t, b, i) /\ s = in_iac(u, b, j)
    BY <1>1, <1>2, <1>3 DEF process_byte, b, Verbs
  <2>2. QED BY <1>1, <1>2, <2>1, InIacAfter, InIacStarts
<1>4. CASE t.state \in Verbs
  <2>1. r = ToData(negotiate(t, b, user), i) /\ s = ToData(negotiate(u, b, user), j)
    BY <1>1, <1>2, <1>4 DEF process_byte, b, Verbs
  <2>2. /\ IsParser(negotiate(t, b, user), i) /\ IsParser(negotiate(u, b, user), j)
        /\ After(negotiate(t, b, user), negotiate(u, b, user), o, e)
    BY <1>1, <1>2, <1>4, NegotiateType, NegotiateAfter
  <2>3. After(r, s, o, e)
    BY <1>1, <2>1, <2>2, ToDataAfter
  <2>4. r.start = i + 1 /\ s.start = j + 1
    BY <2>1, <2>2 DEF ToData, IsParser
  <2>5. QED BY <2>3, <2>4 DEF StartsAt
<1>5. CASE t.state = "SB"
  <2>1. /\ r = [t EXCEPT !.sb_telopt = b, !.buffer = <<>>, !.state = "SB_DATA"]
        /\ s = [u EXCEPT !.sb_telopt = b, !.buffer = <<>>, !.state = "SB_DATA"]
    BY <1>1, <1>2, <1>5 DEF process_byte, b, Verbs
  <2>2. r.state # "DATA" /\ s.state # "DATA"
    BY <1>2, <2>1 DEF IsParser
  <2>3. After(r, s, o, e)
    BY <1>2, <2>1 DEF IsParser, After
  <2>4. QED BY <2>2, <2>3 DEF StartsAt
<1>6. CASE t.state = "SB_DATA" /\ b = IAC
  <2>1. r = [t EXCEPT !.state = "SB_DATA_IAC"] /\ s = [u EXCEPT !.state = "SB_DATA_IAC"]
    BY <1>1, <1>2, <1>6 DEF process_byte, b, Verbs
  <2>2. QED BY <1>2, <2>1 DEF IsParser, After, StartsAt
<1>7. CASE t.state = "SB_DATA" /\ b # IAC
  <2>1. r = buffer_byte(t, b, i) /\ s = buffer_byte(u, b, j)
    BY <1>1, <1>2, <1>7 DEF process_byte, b, Verbs
  <2>2. QED BY <1>1, <1>2, <2>1, BufferByteAfter, BufferByteStarts
<1>8. CASE t.state = "SB_DATA_IAC"
  <2>1. r = in_sb_data_iac(t, b, i, user) /\ s = in_sb_data_iac(u, b, j, user)
    BY <1>1, <1>2, <1>8 DEF process_byte, b, Verbs
  <2>2. CASE b = SE
    <3> DEFINE x == ToData(t, i)
               y == ToData(u, j)
    <3>1. r = subnegotiate(x, user) /\ s = subnegotiate(y, user)
      BY <2>1, <2>2 DEF in_sb_data_iac, IAC, SE
    <3>2. IsParser(x, i) /\ IsParser(y, j) /\ After(x, y, o, e)
      BY <1>1, <1>2, ToDataType, ToDataAfter
    <3>3. x.start = i + 1 /\ y.start = j + 1
      BY <1>2 DEF ToData, IsParser
    <3> HIDE DEF x, y
    <3>4. After(r, s, o, e)
      BY <1>1, <3>1, <3>2, SubnegotiateAfter
    <3>5. r.start = x.start /\ s.start = y.start
      BY <1>1, <3>1, <3>2, SubnegotiateKeeps
    <3>6. QED BY <3>3, <3>4, <3>5 DEF StartsAt
  <2>3. CASE b = IAC
    <3>1. r = buffer_byte(t, b, i) /\ s = buffer_byte(u, b, j)
      BY <2>1, <2>3 DEF in_sb_data_iac, IAC, SE
    <3>2. QED BY <1>1, <1>2, <3>1, BufferByteAfter, BufferByteStarts
  <2>4. CASE b # SE /\ b # IAC
    <3> DEFINE x == [t EXCEPT !.state = "IAC", !.start = i + 1]
               y == [u EXCEPT !.state = "IAC", !.start = j + 1]
    <3>1. r = in_iac(subnegotiate(x, user), b, i) /\ s = in_iac(subnegotiate(y, user), b, j)
      BY <2>1, <2>4 DEF in_sb_data_iac
    <3>2. IsParser(x, i) /\ IsParser(y, j)
      BY <1>1, <1>2, ToIacType
    <3>3. After(x, y, o, e)
      BY <1>1, <1>2 DEF IsParser, After
    <3> HIDE DEF x, y
    <3>4. /\ IsParser(subnegotiate(x, user), i) /\ IsParser(subnegotiate(y, user), j)
          /\ After(subnegotiate(x, user), subnegotiate(y, user), o, e)
      BY <1>1, <3>2, <3>3, SubnegotiateType, SubnegotiateAfter
    <3>5. QED BY <1>1, <3>1, <3>4, InIacAfter, InIacStarts
  <2>5. QED BY <2>2, <2>3, <2>4
<1>9. QED BY <1>2, <1>3, <1>4, <1>5, <1>6, <1>7, <1>8 DEF States

\* What comes later in a chunk does not matter.
LEMMA ProcessOfPrefix ==
    ASSUME NEW tel, IsTelnet(tel), NEW a \in Seq(Bytes), NEW b \in Bytes,
           NEW user, IsHandler(user), NEW n \in 0..Len(a)
    PROVE  process(tel, Append(a, b), user)[n] = process(tel, a, user)[n]
<1> DEFINE c == Append(a, b)
           P == process(tel, a, user)
           Q == process(tel, c, user)
           S == {i \in Nat : i <= Len(a) => Q[i] = P[i]}
<1>1. /\ c \in Seq(Bytes) /\ Len(c) = Len(a) + 1 /\ Len(a) \in Nat
      /\ \A i \in 1..Len(a) : c[i] = a[i]
  OBVIOUS
<1> HIDE DEF c
<1>2. /\ P[0] = process_begin(tel)
      /\ \A i \in 1..Len(a) : P[i] = process_byte(P[i - 1], a, i, user)
  BY ProcessSteps
<1>3. /\ Q[0] = process_begin(tel)
      /\ \A i \in 1..Len(c) : Q[i] = process_byte(Q[i - 1], c, i, user)
  BY <1>1, ProcessSteps
<1>4. \A i \in 0..Len(a) : P[i].start \in Nat \ {0}
  <2>1. ASSUME NEW i \in 0..Len(a) PROVE IsParser(P[i], i) /\ i \in Nat
    BY ProcessType
  <2> HIDE DEF P
  <2>2. QED BY <2>1 DEF IsParser
<1> HIDE DEF P, Q
<1>5. 0 \in S
  BY <1>2, <1>3
<1>6. ASSUME NEW t, t.start \in Nat \ {0}, NEW i \in 1..Len(a)
      PROVE  process_byte(t, c, i, user) = process_byte(t, a, i, user)
  <2>1. i \in Nat /\ c[i] = a[i]
    BY <1>1
  <2>2. [k \in 1..((i - 1) - t.start + 1) |-> <<"data", c[t.start + k - 1]>>] =
        [k \in 1..((i - 1) - t.start + 1) |-> <<"data", a[t.start + k - 1]>>]
    <3>1. \A k \in 1..((i - 1) - t.start + 1) : c[t.start + k - 1] = a[t.start + k - 1]
      <4> DEFINE z == t.start
      <4>1. z \in Nat \ {0} /\ i \in 1..Len(a)
        BY <1>6
      <4> HIDE DEF z
      <4>2. \A k \in 1..((i - 1) - z + 1) : z + k - 1 \in 1..Len(a)
        BY <1>1, <4>1
      <4>3. QED BY <1>1, <4>2 DEF z
    <3>2. QED BY <3>1
  <2>3. in_data(t, c, i) = in_data(t, a, i)
    BY <2>1, <2>2 DEF in_data, PassOn
  <2>4. QED BY <2>1, <2>3, Zenon DEF process_byte
<1>7. ASSUME NEW i \in S PROVE i + 1 \in S
  <2>1. SUFFICES ASSUME i + 1 <= Len(a) PROVE Q[i + 1] = P[i + 1]
    OBVIOUS
  <2>2. i + 1 \in 1..Len(a) /\ i + 1 \in 1..Len(c) /\ (i + 1) - 1 = i /\ Q[i] = P[i]
    BY <1>1, <2>1
  <2>3. P[i + 1] = process_byte(P[i], a, i + 1, user) /\ Q[i + 1] = process_byte(Q[i], c, i + 1, user)
    BY <1>2, <1>3, <2>2
  <2>4. P[i].start \in Nat \ {0}
    BY <1>4, <2>2
  <2>5. QED BY <1>6, <2>2, <2>3, <2>4
<1>8. S = Nat
  <2> HIDE DEF S
  <2>1. S \in SUBSET Nat
    BY DEF S
  <2>2. QED BY <1>5, <1>7, <2>1, SetInduction
<1>9. n \in S /\ n <= Len(a)
  BY <1>8
<1>10. QED BY <1>9 DEF P, Q, c

\* telnet_recv of nothing.
LEMMA RecvNothing ==
    ASSUME NEW tel, IsTelnet(tel), NEW user
    PROVE  telnet_recv(tel, <<>>, user) = [telnet |-> tel, out |-> <<>>, events |-> <<>>]
<1> DEFINE u == process_begin(tel)
<1>1. process(tel, <<>>, user)[0] = u
  <2>1. <<>> \in Seq(Bytes)
    OBVIOUS
  <2> HIDE DEF u
  <2>2. QED BY <2>1, ProcessSteps DEF u
<1>2. /\ u.state = tel.state /\ u.sb_telopt = tel.sb_telopt /\ u.buffer = tel.buffer
      /\ u.q = tel.q /\ u.out = <<>> /\ u.events = <<>>
      /\ u.start = 1
  BY DEF process_begin
<1>3. DOMAIN u = {"state", "sb_telopt", "buffer", "q", "start", "out", "events"}
  BY DEF process_begin
<1> HIDE DEF u
<1>4. [k \in 1..(0 - 1 + 1) |-> <<"data", <<>>[1 + k - 1]>>] = <<>>
  OBVIOUS
<1>5. PassOn(u, <<>>, 0) = Raise(u, <<>>)
  BY <1>2, <1>4 DEF PassOn
<1> DEFINE e == process_end(u, <<>>, 0)
<1>6. /\ e.state = tel.state /\ e.sb_telopt = tel.sb_telopt /\ e.buffer = tel.buffer
      /\ e.q = tel.q /\ e.out = <<>> /\ e.events = <<>>
  BY <1>2, <1>3, <1>5 DEF process_end, Raise
<1> HIDE DEF e
<1>7. tel = [state |-> tel.state, sb_telopt |-> tel.sb_telopt,
                buffer |-> tel.buffer, q |-> tel.q]
  BY DEF IsTelnet
<1>8. telnet_recv(tel, <<>>, user) =
          [telnet |-> [state |-> e.state, sb_telopt |-> e.sb_telopt,
                       buffer |-> e.buffer, q |-> e.q],
           out |-> e.out, events |-> e.events]
  BY <1>1 DEF telnet_recv, e
<1>9. QED BY <1>6, <1>7, <1>8

\* Raising nothing changes nothing.
LEMMA RaiseNothing ==
    ASSUME NEW i \in Nat, NEW t, IsParser(t, i) PROVE After(Raise(t, <<>>), t, <<>>, <<>>)
  BY DEF Raise, IsParser, After

LEMMA AppendedAsFunction ==
    ASSUME NEW S, NEW s \in Seq(S), NEW f \in S, NEW w \in Nat, Len(s) = w
    PROVE  s \o <<f>> = [k \in 1..(w + 1) |-> IF k <= w THEN s[k] ELSE f]
<1> DEFINE r == [k \in 1..(w + 1) |-> IF k <= w THEN s[k] ELSE f]
           l == s \o <<f>>
<1>1. l \in Seq(S) /\ Len(l) = w + 1
  OBVIOUS
<1>2. \A k \in 1..(w + 1) : r[k] \in S /\ r[k] = l[k]
  OBVIOUS
<1>3. r = [k \in 1..(w + 1) |-> r[k]]
  OBVIOUS
<1> HIDE DEF r, l
<1>4. r \in Seq(S) /\ Len(r) = w + 1
  BY <1>2, <1>3
<1>5. l = r
  BY <1>1, <1>2, <1>4
<1>6. QED BY <1>5 DEF l, r

\* The data before position last, and the one there.
LEMMA PassOnOneMore ==
    ASSUME NEW a \in Seq(Bytes), NEW b \in Bytes, NEW t, IsParser(t, Len(a))
    PROVE  LET c == Append(a, b)
           IN  /\ PassOn(t, c, Len(a)) = PassOn(t, a, Len(a))
               /\ PassOn(t, c, Len(a) + 1).events =
                      PassOn(t, a, Len(a)).events \o <<<<"data", b>>>>
<1> DEFINE c == Append(a, b)
           n == Len(a)
           s == t.start
           D(m) == [k \in 1..(m - s + 1) |-> <<"data", c[s + k - 1]>>]
           E == [k \in 1..(n - s + 1) |-> <<"data", a[s + k - 1]>>]
<1>1. /\ n \in Nat /\ s \in 1..(n + 1) /\ t.events \in Seq(Events) /\ "events" \in DOMAIN t
      /\ \A k \in 1..n : c[k] = a[k]
      /\ c[n + 1] = b
  BY DEF IsParser
<1> HIDE DEF c, s
<1>2. \A k \in 1..(n - s + 1) : c[s + k - 1] = a[s + k - 1]
  <2> HIDE DEF n
  <2>1. \A k \in 1..(n - s + 1) : s + k - 1 \in 1..n
    BY <1>1
  <2>2. QED BY <1>1, <2>1
<1>3. D(n) = E
  BY <1>2
<1>4. PassOn(t, c, n) = Raise(t, D(n)) /\ PassOn(t, a, n) = Raise(t, E)
  BY DEF PassOn, s
<1>5. PassOn(t, c, n + 1) = Raise(t, D(n + 1))
  BY DEF PassOn, s
<1>6. E \in Seq(Events) /\ <<<<"data", b>>>> \in Seq(Events)
  <2>1. \A k \in 1..(n - s + 1) : a[s + k - 1] \in Bytes
    <3>1. \A k \in 1..(n - s + 1) : s + k - 1 \in 1..n
      BY <1>1
    <3>2. QED BY <3>1
  <2>2. \A k \in 1..(n - s + 1) : E[k] \in Events
    BY <2>1 DEF Events
  <2>3. n - s + 1 \in Nat /\ E = [k \in 1..(n - s + 1) |-> E[k]]
    BY <1>1
  <2> HIDE DEF E
  <2>4. E \in Seq(Events)
    BY <2>2, <2>3
  <2>5. QED BY <2>4, EventTypes
<1>7. D(n + 1) = E \o <<<<"data", b>>>>
  <2> DEFINE w == n - s + 1
             f == <<"data", b>>
  <2>1. w \in Nat /\ (n + 1) - s + 1 = w + 1 /\ s + (w + 1) - 1 = n + 1
    BY <1>1
  <2>2. E \in Seq(Events) /\ Len(E) = w /\ f \in Events
    BY <1>6, <2>1 DEF Events
  <2>3. E \o <<f>> = [k \in 1..(w + 1) |-> IF k <= w THEN E[k] ELSE f]
    <3> HIDE DEF E, w, f, Events
    <3>1. QED BY <2>1, <2>2, AppendedAsFunction
  <2>4. \A k \in 1..(w + 1) : <<"data", c[s + k - 1]>> = IF k <= w THEN E[k] ELSE f
    <3>1. ASSUME NEW k \in 1..(w + 1) PROVE <<"data", c[s + k - 1]>> = IF k <= w THEN E[k] ELSE f
      <4>1. CASE k <= w
        <5>1. k \in 1..w
          BY <2>1, <4>1
        <5>2. c[s + k - 1] = a[s + k - 1]
          BY <1>2, <5>1
        <5>3. QED BY <4>1, <5>1, <5>2
      <4>2. CASE ~(k <= w)
        <5>1. k = w + 1
          BY <2>1, <4>2
        <5>2. c[s + k - 1] = b
          BY <1>1, <2>1, <5>1
        <5>3. QED BY <4>2, <5>2
      <4>3. QED BY <4>1, <4>2
    <3>2. QED BY <3>1
  <2>5. D(n + 1) = [k \in 1..(w + 1) |-> <<"data", c[s + k - 1]>>]
    BY <2>1
  <2> HIDE DEF D, E, w, f
  <2>6. E \o <<f>> = D(n + 1)
    BY <2>3, <2>4, <2>5
  <2>7. QED BY <2>6 DEF f
<1> HIDE DEF D, E
<1>8. (t.events \o E) \o <<<<"data", b>>>> = t.events \o (E \o <<<<"data", b>>>>)
  <2> DEFINE f == <<<<"data", b>>>>
  <2> HIDE DEF f
  <2>1. \A d \in Seq(Events) : (d \o E) \o f = d \o (E \o f)
    <3> HIDE DEF Events
    <3>1. E \in Seq(Events) /\ f \in Seq(Events)
      BY <1>6 DEF f
    <3>2. QED BY <3>1
  <2>2. QED BY <1>1, <2>1 DEF f
<1>9. QED BY <1>1, <1>3, <1>4, <1>5, <1>7, <1>8 DEF Raise, c

\* One step of process.
LEMMA ProcessNext ==
    ASSUME NEW tel, NEW chunk \in Seq(Bytes), NEW user, NEW i \in Nat, i < Len(chunk)
    PROVE  process(tel, chunk, user)[i + 1] =
               process_byte(process(tel, chunk, user)[i], chunk, i + 1, user)
<1> DEFINE P == process(tel, chunk, user)
           j == i + 1
<1>1. \A k \in 1..Len(chunk) : P[k] = process_byte(P[k - 1], chunk, k, user)
  BY ProcessSteps
<1>2. j \in 1..Len(chunk) /\ j - 1 = i
  OBVIOUS
<1> HIDE DEF P, j
<1>3. P[j] = process_byte(P[j - 1], chunk, j, user)
  BY <1>1, <1>2
<1>4. P[j] = process_byte(P[i], chunk, j, user)
  BY <1>2, <1>3
<1>5. QED BY <1>4 DEF P, j

LEMMA ProcessFirst ==
    ASSUME NEW tel, NEW chunk \in Seq(Bytes), NEW user
    PROVE  process(tel, chunk, user)[0] = process_begin(tel)
  BY ProcessSteps

\* Where the data begin behind the chunk its end raises nothing.
LEMMA EndAfter ==
    ASSUME NEW c, NEW i \in Nat, NEW t, IsParser(t, i), StartsAt(t, i),
           NEW d, NEW j \in Nat, NEW u, IsParser(u, j), StartsAt(u, j),
           NEW o \in Seq(Bytes), NEW e \in Seq(Events), After(t, u, o, e)
    PROVE  After(process_end(t, c, i), process_end(u, d, j), o, e)
<1>1. t.state = u.state
  BY DEF After
<1>2. CASE t.state = "DATA"
  <2>1. t.start = i + 1 /\ u.start = j + 1
    BY <1>1, <1>2 DEF StartsAt
  <2>2. i - t.start + 1 = 0 /\ j - u.start + 1 = 0
    BY <2>1
  <2>3. PassOn(t, c, i) = Raise(t, <<>>) /\ PassOn(u, d, j) = Raise(u, <<>>)
    BY <2>2 DEF PassOn
  <2>4. <<>> \in Seq(Events)
    OBVIOUS
  <2>5. After(Raise(t, <<>>), Raise(u, <<>>), o, e)
    BY <2>4, RaiseAfter
  <2>6. QED BY <1>1, <1>2, <2>3, <2>5 DEF process_end
<1>3. CASE t.state # "DATA"
  BY <1>1, <1>3 DEF process_end
<1>4. QED BY <1>2, <1>3

\* A telnet_t as process begins with it, after what it did before.
LEMMA BeginAfter ==
    ASSUME NEW tel, IsTelnet(tel), NEW i \in Nat, NEW t, IsParser(t, i),
           tel = [state |-> t.state, sb_telopt |-> t.sb_telopt,
                     buffer |-> t.buffer, q |-> t.q]
    PROVE  After(t, process_begin(tel), t.out, t.events)
  BY DEF After, process_begin, IsParser

\* What telnet_recv makes of bytes in two chunks, and in one.
InTwo(tel, a, b, user) ==
    LET r == telnet_recv(tel, a, user)
        s == telnet_recv(r.telnet, b, user)
    IN [telnet |-> s.telnet, out |-> r.out \o s.out, events |-> r.events \o s.events]

\* A byte more: whether the last byte comes with those before or by itself.
LEMMA LastByte ==
    ASSUME NEW tel, IsTelnet(tel), NEW a \in Seq(Bytes), NEW b \in Bytes,
           NEW user, IsHandler(user)
    PROVE  telnet_recv(tel, Append(a, b), user) = InTwo(tel, a, <<b>>, user)
<1> DEFINE n == Len(a)
           c == Append(a, b)
           d == <<b>>
           t == process(tel, a, user)[n]
           f == process_end(t, a, n)
           r == telnet_recv(tel, a, user)
           v == r.telnet
           u == process_begin(v)
           t2 == process_byte(t, c, n + 1, user)
           u2 == process_byte(u, d, 1, user)
           f2 == process_end(t2, c, n + 1)
           g2 == process_end(u2, d, 1)
<1>1. /\ n \in Nat /\ n \in 0..n /\ n + 1 \in 1..Len(c) /\ Len(c) = n + 1 /\ c[n + 1] = b
      /\ c \in Seq(Bytes) /\ d \in Seq(Bytes) /\ 1 \in 1..Len(d) /\ Len(d) = 1 /\ d[1] = b
      /\ n + 1 \in Nat /\ (n + 1) - 1 = n
  OBVIOUS
<1>2. IsParser(t, n)
  BY <1>1, ProcessType
<1>3. IsTelnet(v)
  BY RecvType
<1>4. r = [telnet |-> [state |-> f.state, sb_telopt |-> f.sb_telopt, buffer |-> f.buffer,
                       q |-> f.q], out |-> f.out, events |-> f.events]
  BY DEF telnet_recv
<1>5. IsParser(u, 0)
  BY <1>3, BeginType
<1>6. process(tel, c, user)[n + 1] = t2
  <2> HIDE DEF n, t
  <2>1. process(tel, c, user)[n] = t
    BY <1>1, ProcessOfPrefix DEF n, t
  <2> HIDE DEF c
  <2>2. n \in Nat /\ n < Len(c)
    BY <1>1
  <2>3. c \in Seq(Bytes)
    BY <1>1
  <2>4. ASSUME NEW i \in Nat, i < Len(c)
        PROVE  process(tel, c, user)[i + 1] =
                   process_byte(process(tel, c, user)[i], c, i + 1, user)
    BY ONLY <2>3, <2>4, ProcessNext
  <2>5. QED BY ONLY <2>1, <2>2, <2>4 DEF t2
<1>7. process(v, d, user)[1] = u2
  <2> HIDE DEF v, d
  <2>1. process(v, d, user)[0] = process_begin(v)
    BY <1>1, ProcessFirst
  <2>2. d \in Seq(Bytes) /\ Len(d) = 1
    BY <1>1
  <2>3. ASSUME NEW i \in Nat, i < Len(d)
        PROVE  process(v, d, user)[i + 1] =
                   process_byte(process(v, d, user)[i], d, i + 1, user)
    BY ONLY <2>2, <2>3, ProcessNext
  <2>4. QED BY <2>1, <2>2, <2>3
<1> HIDE DEF t
<1>8. IsParser(f, n)
  BY <1>1, <1>2, PassOnType DEF process_end
<1>9. After(f, u, f.out, f.events)
  <2> HIDE DEF f, r
  <2>1. v = [state |-> f.state, sb_telopt |-> f.sb_telopt, buffer |-> f.buffer, q |-> f.q]
    BY <1>4
  <2> HIDE DEF v
  <2>2. QED BY <1>1, <1>3, <1>8, <2>1, BeginAfter
<1>10. f.out \in Seq(Bytes) /\ f.events \in Seq(Events)
  BY <1>8 DEF IsParser
<1> HIDE DEF n, c, d, u, v, r
<1>11. IsParser(t2, n + 1) /\ IsParser(u2, 1)
  <2>1. IsParser(t, (n + 1) - 1) /\ IsParser(u, 1 - 1)
    BY <1>1, <1>2, <1>5
  <2>2. QED BY <1>1, <2>1, ProcessByteType
<1>12. After(f2, g2, f.out, f.events)
  <2>1. CASE t.state # "DATA"
    <3>1. f = t
      BY <2>1 DEF process_end
    <3>2. /\ After(t2, u2, f.out, f.events) /\ StartsAt(t2, n + 1) /\ StartsAt(u2, 1)
      <4>1. IsParser(t, (n + 1) - 1) /\ IsParser(u, 1 - 1) /\ c[n + 1] = d[1]
            /\ After(t, u, f.out, f.events)
        BY <1>1, <1>2, <1>5, <1>9, <3>1
      <4> HIDE DEF f
      <4>2. QED BY <1>1, <1>10, <2>1, <4>1, ByteAfter
    <3> HIDE DEF f, t2, u2
    <3>3. QED BY <1>1, <1>10, <1>11, <3>2, EndAfter
  <2>2. CASE t.state = "DATA"
    <3>1. f = PassOn(t, a, n) /\ u.state = "DATA" /\ u.start = 1 /\ u.events = <<>>
          /\ DOMAIN u = DOMAIN t
      BY <1>2, <1>5, <1>8, <1>9, <2>2 DEF process_end, After, u, v, process_begin, IsParser, PassOn, Raise
    <3>2. t2 = in_data(t, c, n + 1) /\ u2 = in_data(u, d, 1)
      BY <2>2, <3>1 DEF process_byte, Verbs
    <3>3. /\ PassOn(t, c, n) = PassOn(t, a, n)
          /\ PassOn(t, c, n + 1).events = PassOn(t, a, n).events \o <<<<"data", b>>>>
      BY <1>2, PassOnOneMore DEF n, c
    <3>4. CASE b = IAC
      <4>1. t2 = [f EXCEPT !.state = "IAC"]
        BY <1>1, <3>1, <3>2, <3>3, <3>4 DEF in_data
      <4>2. u2 = [PassOn(u, d, 0) EXCEPT !.state = "IAC"]
        BY <1>1, <3>2, <3>4 DEF in_data
      <4>3. PassOn(u, d, 0) = Raise(u, <<>>)
        BY <3>1 DEF PassOn
      <4> HIDE DEF f
      <4>4. f2 = t2 /\ g2 = u2
        <5>1. t2.state = "IAC" /\ u2.state = "IAC"
          BY <1>5, <1>8, <4>1, <4>2, <4>3 DEF IsParser, Raise
        <5>2. QED BY <5>1 DEF process_end
      <4>5. After(t2, u2, f.out, f.events)
        <5> DEFINE w == Raise(u, <<>>)
        <5>1. IsParser(w, 0) /\ After(f, w, f.out, f.events)
          <6>1. /\ w.state = u.state /\ w.sb_telopt = u.sb_telopt /\ w.buffer = u.buffer
                /\ w.q = u.q /\ w.out = u.out /\ w.events = <<>> \o <<>>
            BY <1>5, <3>1 DEF Raise, IsParser
          <6>2. <<>> \o <<>> = <<>> /\ <<>> \in Seq(Events) /\ 0 \in Nat
            OBVIOUS
          <6>3. IsParser(w, 0)
            BY <1>5, <6>2, RaiseType
          <6> HIDE DEF w
          <6>4. QED BY <1>9, <3>1, <6>1, <6>2, <6>3 DEF After
        <5> HIDE DEF w
        <5>2. u2 = [w EXCEPT !.state = "IAC"]
          BY <4>2, <4>3 DEF w
        <5>3. QED BY <1>8, <4>1, <5>1, <5>2 DEF After, IsParser
      <4>6. QED BY <4>4, <4>5
    <3>5. CASE b # IAC
      <4>1. t2 = t /\ u2 = u
        BY <1>1, <3>2, <3>5 DEF in_data
      <4>2. f2 = PassOn(t, c, n + 1) /\ g2 = PassOn(u, d, 1)
        BY <2>2, <3>1, <4>1 DEF process_end
      <4>3. f2.events = f.events \o <<<<"data", b>>>>
        BY <3>1, <3>3, <4>2
      <4>4. g2.events = <<<<"data", b>>>>
        <5>1. [k \in 1..(1 - 1 + 1) |-> <<"data", d[1 + k - 1]>>] = <<<<"data", b>>>>
          BY <1>1
        <5>2. PassOn(u, d, 1) = Raise(u, <<<<"data", b>>>>)
          BY <3>1, <5>1 DEF PassOn
        <5>3. <<>> \o <<<<"data", b>>>> = <<<<"data", b>>>>
          OBVIOUS
        <5>4. QED BY <1>5, <3>1, <4>2, <5>2, <5>3 DEF Raise, IsParser
      <4>5. /\ f2.state = f.state /\ f2.sb_telopt = f.sb_telopt /\ f2.buffer = f.buffer
            /\ f2.q = f.q /\ f2.out = f.out
        BY <1>2, <3>1, <4>2 DEF PassOn, Raise, IsParser
      <4>6. /\ g2.state = u.state /\ g2.sb_telopt = u.sb_telopt /\ g2.buffer = u.buffer
            /\ g2.q = u.q /\ g2.out = u.out
        BY <1>5, <4>2 DEF PassOn, Raise, IsParser
      <4> HIDE DEF f, f2, g2
      <4>7. QED BY <1>9, <4>3, <4>4, <4>5, <4>6 DEF After
    <3>6. QED BY <3>4, <3>5
  <2>3. QED BY <2>1, <2>2
<1>13. telnet_recv(tel, c, user) =
           [telnet |-> [state |-> f2.state, sb_telopt |-> f2.sb_telopt, buffer |-> f2.buffer,
                        q |-> f2.q], out |-> f2.out, events |-> f2.events]
  BY <1>1, <1>6 DEF telnet_recv
<1>14. telnet_recv(v, d, user) =
           [telnet |-> [state |-> g2.state, sb_telopt |-> g2.sb_telopt, buffer |-> g2.buffer,
                        q |-> g2.q], out |-> g2.out, events |-> g2.events]
  BY <1>1, <1>7 DEF telnet_recv
<1> HIDE DEF f, f2, g2
<1>15. r.out = f.out /\ r.events = f.events
  BY <1>4
<1>16. telnet_recv(tel, c, user) =
           [telnet |-> telnet_recv(v, d, user).telnet,
            out |-> r.out \o telnet_recv(v, d, user).out,
            events |-> r.events \o telnet_recv(v, d, user).events]
  BY <1>12, <1>13, <1>14, <1>15 DEF After
<1>17. QED BY <1>16 DEF c, d, v, r, InTwo

\* However bytes are cut into chunks, telnet_recv sends and raises the same for them and
\* ends in the same state: the data that it has not passed on when a chunk ends are not
\* lost, and a command or a subnegotiation goes on in the next (libtelnet.c:937-1095).
THEOREM CutsDoNotMatter ==
    ASSUME NEW tel, IsTelnet(tel), NEW user, IsHandler(user),
           NEW a \in Seq(Bytes), NEW b \in Seq(Bytes)
    PROVE  telnet_recv(tel, a \o b, user) = InTwo(tel, a, b, user)
<1> DEFINE T == {s \in Seq(Bytes) : telnet_recv(tel, a \o s, user) = InTwo(tel, a, s, user)}
           r == telnet_recv(tel, a, user)
<1>1. IsTelnet(r.telnet) /\ r.out \in Seq(Bytes) /\ r.events \in Seq(Events)
  BY RecvType
<1>2. <<>> \in T
  <2> DEFINE s == telnet_recv(r.telnet, <<>>, user)
  <2>1. s = [telnet |-> r.telnet, out |-> <<>>, events |-> <<>>]
    BY <1>1, RecvNothing
  <2>2. a \o <<>> = a
    OBVIOUS
  <2>3. r = [telnet |-> r.telnet, out |-> r.out, events |-> r.events]
    BY DEF telnet_recv
  <2> HIDE DEF r, s
  <2>4. r.out \o <<>> = r.out /\ r.events \o <<>> = r.events
    <3>1. \A S : \A c \in Seq(S) : c \o <<>> = c
      OBVIOUS
    <3> HIDE DEF Bytes, Events
    <3>2. QED BY <1>1, <3>1
  <2>5. InTwo(tel, a, <<>>, user) =
            [telnet |-> s.telnet, out |-> r.out \o s.out, events |-> r.events \o s.events]
    BY DEF InTwo, r, s
  <2>6. s.telnet = r.telnet /\ s.out = <<>> /\ s.events = <<>>
    BY <2>1
  <2>7. <<>> \in Seq(Bytes)
    OBVIOUS
  <2>8. InTwo(tel, a, <<>>, user) = r
    BY <2>3, <2>4, <2>5, <2>6
  <2>9. QED BY <2>2, <2>7, <2>8 DEF r
<1>3. ASSUME NEW s \in T, NEW x \in Bytes PROVE Append(s, x) \in T
  <2> DEFINE c == a \o s
             w == telnet_recv(tel, c, user)
             z == telnet_recv(r.telnet, s, user)
             y == telnet_recv(z.telnet, <<x>>, user)
  <2>1. s \in Seq(Bytes) /\ c \in Seq(Bytes) /\ a \o Append(s, x) = Append(c, x)
        /\ Append(s, x) \in Seq(Bytes) /\ <<x>> \in Seq(Bytes)
    OBVIOUS
  <2>2. w = [telnet |-> z.telnet, out |-> r.out \o z.out, events |-> r.events \o z.events]
    BY DEF InTwo
  <2>3. IsTelnet(z.telnet) /\ z.out \in Seq(Bytes) /\ z.events \in Seq(Events)
    BY <1>1, <2>1, RecvType
  <2>4. y.out \in Seq(Bytes) /\ y.events \in Seq(Events)
    BY <2>1, <2>3, RecvType
  <2> HIDE DEF c, r, T
  <2>5. telnet_recv(tel, Append(c, x), user) = InTwo(tel, c, <<x>>, user)
    BY <2>1, LastByte
  <2>6. telnet_recv(r.telnet, Append(s, x), user) = InTwo(r.telnet, s, <<x>>, user)
    BY <1>1, <2>1, LastByte
  <2> HIDE DEF w, z
  <2>7. w.telnet = z.telnet /\ w.out = r.out \o z.out /\ w.events = r.events \o z.events
    BY <2>2
  <2> HIDE DEF y
  <2>8. InTwo(tel, c, <<x>>, user) =
            [telnet |-> y.telnet, out |-> w.out \o y.out, events |-> w.events \o y.events]
    <3>1. telnet_recv(w.telnet, <<x>>, user) = y
      BY <2>7 DEF y
    <3>2. QED BY <3>1 DEF InTwo, w
  <2>9. InTwo(r.telnet, s, <<x>>, user) =
             [telnet |-> y.telnet, out |-> z.out \o y.out, events |-> z.events \o y.events]
    BY DEF InTwo, y, z
  <2>10. (r.out \o z.out) \o y.out = r.out \o (z.out \o y.out)
    <3> DEFINE o1 == r.out
               o2 == z.out
               o3 == y.out
    <3>1. o1 \in Seq(Bytes) /\ o2 \in Seq(Bytes) /\ o3 \in Seq(Bytes)
      BY <1>1, <2>3, <2>4
    <3> HIDE DEF o1, o2, o3
    <3>2. (o1 \o o2) \o o3 = o1 \o (o2 \o o3)
      BY <3>1
    <3>3. QED BY <3>2 DEF o1, o2, o3
  <2>11. (r.events \o z.events) \o y.events = r.events \o (z.events \o y.events)
    <3> DEFINE e1 == r.events
               e2 == z.events
               e3 == y.events
    <3>1. e1 \in Seq(Events) /\ e2 \in Seq(Events) /\ e3 \in Seq(Events)
      BY <1>1, <2>3, <2>4
    <3> HIDE DEF e1, e2, e3, Events
    <3>2. (e1 \o e2) \o e3 = e1 \o (e2 \o e3)
      BY <3>1
    <3>3. QED BY <3>2 DEF e1, e2, e3
  <2>12. InTwo(tel, a, Append(s, x), user) =
             [telnet |-> y.telnet, out |-> r.out \o (z.out \o y.out),
              events |-> r.events \o (z.events \o y.events)]
    <3> DEFINE g == telnet_recv(r.telnet, Append(s, x), user)
    <3>1. InTwo(tel, a, Append(s, x), user) =
              [telnet |-> g.telnet, out |-> r.out \o g.out, events |-> r.events \o g.events]
      BY DEF InTwo, r
    <3>2. g = [telnet |-> y.telnet, out |-> z.out \o y.out, events |-> z.events \o y.events]
      BY <2>6, <2>9
    <3> HIDE DEF g
    <3>3. QED BY <3>1, <3>2
  <2>13. telnet_recv(tel, a \o Append(s, x), user) = InTwo(tel, a, Append(s, x), user)
    BY <2>1, <2>5, <2>7, <2>8, <2>10, <2>11, <2>12
  <2>14. QED BY <2>1, <2>13 DEF T
<1>4. T \in SUBSET Seq(Bytes)
  OBVIOUS
<1> HIDE DEF T
<1>5. T = Seq(Bytes)
  BY <1>2, <1>3, <1>4, SeqInduction
<1>6. b \in T
  BY <1>5
<1>7. QED BY <1>6 DEF T

-----------------------------------------------------------------------------
(* What the users see. *)

seenOf == [e \in Events |-> IF e[1] \in Verbs THEN <<>> ELSE <<e>>]

LEMMA SeenIsSpread ==
    /\ seenOf \in [Events -> Seq(Events)]
    /\ \A es \in Seq(Events) : Seen(es) = Spread(seenOf, es)
<1>1. ASSUME NEW e \in Events PROVE seenOf[e] \in Seq(Events)
  <2> HIDE DEF Events
  <2>1. seenOf[e] = IF e[1] \in Verbs THEN <<>> ELSE <<e>>
    BY DEF seenOf
  <2>2. <<>> \in Seq(Events) /\ <<e>> \in Seq(Events)
    OBVIOUS
  <2>3. QED BY <2>1, <2>2
<1>2. seenOf \in [Events -> Seq(Events)]
  <2> HIDE DEF Events
  <2>1. seenOf = [e \in Events |-> seenOf[e]]
    BY DEF seenOf
  <2>2. QED BY <1>1, <2>1
<1>3. ASSUME NEW es \in Seq(Events) PROVE Seen(es) = Spread(seenOf, es)
  <2> HIDE DEF Events
  <2>1. \A i \in DOMAIN es : es[i] \in Events
    OBVIOUS
  <2>2. [i \in DOMAIN es |-> IF es[i][1] \in Verbs THEN <<>> ELSE <<es[i]>>] =
        [i \in DOMAIN es |-> seenOf[es[i]]]
    BY <2>1 DEF seenOf
  <2>3. QED BY <2>2 DEF Seen, Spread
<1>4. QED BY <1>2, <1>3

LEMMA SeenNothing == Seen(<<>>) = <<>>
<1>1. <<>> \in Seq(Events)
  OBVIOUS
<1>2. QED BY <1>1, SeenIsSpread, SpreadNothing

LEMMA SeenType == ASSUME NEW es \in Seq(Events) PROVE Seen(es) \in Seq(Events)
<1> HIDE DEF Events
<1>1. QED BY SeenIsSpread, SpreadType

LEMMA SeenConcat ==
    ASSUME NEW es \in Seq(Events), NEW fs \in Seq(Events)
    PROVE  Seen(es \o fs) = Seen(es) \o Seen(fs)
<1> HIDE DEF Events
<1>1. es \o fs \in Seq(Events)
  OBVIOUS
<1>2. Spread(seenOf, es \o fs) = Spread(seenOf, es) \o Spread(seenOf, fs)
  <2>1. seenOf \in [Events -> Seq(Events)]
    BY SeenIsSpread
  <2>2. \A S : \A g \in [S -> Seq(S)] : \A a, b \in Seq(S) :
            Spread(g, a \o b) = Spread(g, a) \o Spread(g, b)
    BY SpreadConcat
  <2>3. QED BY <2>1, <2>2, Zenon
<1>3. QED BY <1>1, <1>2, SeenIsSpread

LEMMA SeenOne ==
    ASSUME NEW e \in Events
    PROVE  Seen(<<e>>) = IF e[1] \in Verbs THEN <<>> ELSE <<e>>
<1> HIDE DEF Events
<1>1. <<e>> \in Seq(Events)
  OBVIOUS
<1>2. Spread(seenOf, <<e>>) = seenOf[e]
  BY SeenIsSpread, SpreadOne
<1>3. QED BY <1>1, <1>2, SeenIsSpread DEF seenOf

\* t and u read on alike: they differ at most in the options and in what was sent, and
\* their users saw the same.
Alike(t, u) ==
    /\ t.state = u.state /\ t.sb_telopt = u.sb_telopt /\ t.buffer = u.buffer
    /\ t.start = u.start /\ Seen(t.events) = Seen(u.events)

LEMMA RaiseAlike ==
    ASSUME NEW i \in Nat, NEW t, IsParser(t, i), NEW u, IsParser(u, i), Alike(t, u),
           NEW x \in Seq(Events), NEW y \in Seq(Events), Seen(x) = Seen(y)
    PROVE  Alike(Raise(t, x), Raise(u, y))
<1> DEFINE d == t.events
           e == u.events
<1>1. d \in Seq(Events) /\ e \in Seq(Events)
  BY DEF IsParser
<1>2. Raise(t, x).events = d \o x /\ Raise(u, y).events = e \o y
  BY DEF Raise, IsParser
<1>3. Seen(d) = Seen(e)
  BY DEF Alike
<1>4. /\ Raise(t, x).state = t.state /\ Raise(t, x).sb_telopt = t.sb_telopt
      /\ Raise(t, x).buffer = t.buffer /\ Raise(t, x).start = t.start
      /\ Raise(u, y).state = u.state /\ Raise(u, y).sb_telopt = u.sb_telopt
      /\ Raise(u, y).buffer = u.buffer /\ Raise(u, y).start = u.start
  BY DEF Raise, IsParser
<1> HIDE DEF d, e
<1>5. Seen(d \o x) = Seen(e \o y)
  <2>1. Seen(d \o x) = Seen(d) \o Seen(x)
    BY <1>1, SeenConcat
  <2>2. Seen(e \o y) = Seen(e) \o Seen(y)
    BY <1>1, SeenConcat
  <2>3. QED BY <1>3, <2>1, <2>2
<1>6. QED BY <1>2, <1>4, <1>5 DEF Alike

LEMMA ToDataAlike ==
    ASSUME NEW i \in Nat, NEW t, IsParser(t, i), NEW u, IsParser(u, i), Alike(t, u)
    PROVE  Alike(ToData(t, i), ToData(u, i))
  BY DEF Alike, ToData, IsParser

LEMMA RaisedAlike ==
    ASSUME NEW i \in Nat, NEW t, IsParser(t, i), NEW u, IsParser(u, i), Alike(t, u),
           NEW x \in Seq(Events)
    PROVE  Alike(ToData(Raise(t, x), i), ToData(Raise(u, x), i))
  BY RaiseAlike, RaiseType, ToDataAlike

\* A negotiation is not for the user.
LEMMA NegotiateAlike ==
    ASSUME NEW i \in Nat, NEW t, IsParser(t, i), t.state \in Verbs, NEW telopt \in Bytes,
           NEW user
    PROVE  Alike(negotiate(t, telopt, user), t)
<1> DEFINE side == TouchedBy(t.state)
           move == OnReceived(t.state, <<side, telopt>> \in user.supported,
                              get_rfc1143(t.q, telopt)[side])
           e == IF move.event = "none" THEN <<>> ELSE <<<<move.event, telopt>>>>
           o == IF move.send = "none" THEN <<>> ELSE send_negotiate(move.send, telopt)
<1>1. side \in Sides /\ IsQ(t.q)
  BY DEF TouchedBy, Sides, IsParser
<1>2. get_rfc1143(t.q, telopt)[side] \in QStates
  BY <1>1, OptionType DEF OptionT, Sides
<1>3. move \in MoveT
  BY <1>2, ReceivedType
<1>4. e \in Seq(Events)
  BY NegotiateMoves
<1>5. Seen(e) = <<>>
  <2> HIDE DEF move
  <2>1. CASE move.event = "none"
    BY <2>1, SeenNothing
  <2>2. CASE move.event # "none"
    <3> DEFINE f == <<move.event, telopt>>
    <3>1. move.event \in Verbs
      BY <1>3, <2>2 DEF MoveT
    <3>2. f \in Events /\ f[1] \in Verbs
      BY <3>1 DEF Events
    <3> HIDE DEF f
    <3>3. Seen(<<f>>) = <<>>
      BY <3>2, SeenOne
    <3>4. QED BY <2>2, <3>3 DEF f
  <2>3. QED BY <2>1, <2>2
<1>6. negotiate(t, telopt, user) =
          [Raise(t, e) EXCEPT !.q = moved(@, telopt, side, move.next), !.out = @ \o o]
  BY Zenon DEF negotiate
<1> HIDE DEF e, o, side, move
<1>7. Seen(<<>>) = Seen(e) /\ <<>> \in Seq(Events)
  BY <1>5, SeenNothing
<1>8. t.events \in Seq(Events) /\ Seen(t.events) \in Seq(Events)
  BY SeenType DEF IsParser
<1>9. Seen(t.events \o e) = Seen(t.events)
  <2> DEFINE d == t.events
  <2>1. d \in Seq(Events) /\ Seen(d) \in Seq(Events)
    BY <1>8
  <2> HIDE DEF d
  <2>2. Seen(d \o e) = Seen(d) \o Seen(e)
    BY <1>4, <2>1, SeenConcat
  <2>3. Seen(d) \o <<>> = Seen(d)
    BY <2>1
  <2>4. Seen(d \o e) = Seen(d)
    BY <1>5, <2>2, <2>3
  <2>5. QED BY <2>4 DEF d
<1>10. /\ negotiate(t, telopt, user).state = t.state
       /\ negotiate(t, telopt, user).sb_telopt = t.sb_telopt
       /\ negotiate(t, telopt, user).buffer = t.buffer
       /\ negotiate(t, telopt, user).start = t.start
       /\ negotiate(t, telopt, user).events = t.events \o e
  BY <1>6 DEF Raise, IsParser
<1>11. QED BY <1>9, <1>10 DEF Alike

LEMMA SubnegotiateAlike ==
    ASSUME NEW i \in Nat, NEW t, IsParser(t, i), NEW u, IsParser(u, i), Alike(t, u),
           NEW user, IsHandler(user), NEW other, IsHandler(other)
    PROVE  Alike(subnegotiate(t, user), subnegotiate(u, other))
<1> DEFINE p == payload(t.sb_telopt, t.buffer)
           x == <<<<"subnegotiation", t.sb_telopt, t.buffer>>>> \o p
           y == IF p = <<<<"ttype_send">>>> THEN user.on_ttype_send ELSE <<>>
           z == IF p = <<<<"ttype_send">>>> THEN other.on_ttype_send ELSE <<>>
<1>1. x \in Seq(Events)
  BY SubnegotiateRaises
<1>2. t.sb_telopt = u.sb_telopt /\ t.buffer = u.buffer
  BY DEF Alike
<1>3. /\ subnegotiate(t, user) = [Raise(t, x) EXCEPT !.out = @ \o y]
      /\ subnegotiate(u, other) = [Raise(u, x) EXCEPT !.out = @ \o z]
  BY <1>2 DEF subnegotiate
<1> HIDE DEF x, y, z
<1>4. Alike(Raise(t, x), Raise(u, x))
  BY <1>1, RaiseAlike
<1>5. IsParser(Raise(t, x), i) /\ IsParser(Raise(u, x), i)
  BY <1>1, RaiseType
<1> DEFINE a == Raise(t, x)
           b == Raise(u, x)
<1> HIDE DEF a, b
<1>6. Alike(a, b) /\ IsParser(a, i) /\ IsParser(b, i)
  BY <1>4, <1>5 DEF a, b
<1>7. Alike([a EXCEPT !.out = @ \o y], [b EXCEPT !.out = @ \o z])
  BY <1>6 DEF Alike, IsParser
<1>8. QED BY <1>3, <1>7 DEF a, b

LEMMA InIacAlike ==
    ASSUME NEW i \in Nat, NEW t, IsParser(t, i), NEW u, IsParser(u, i), Alike(t, u),
           NEW byte \in Bytes
    PROVE  Alike(in_iac(t, byte, i), in_iac(u, byte, i))
<1> DEFINE x == IF byte = IAC THEN <<<<"data", byte>>>> ELSE <<<<"iac", byte>>>>
<1>1. x \in Seq(Events)
  BY EventTypes
<1>2. Alike(ToData(Raise(t, x), i), ToData(Raise(u, x), i))
  BY <1>1, RaisedAlike
<1>3. \A s : Alike([t EXCEPT !.state = s], [u EXCEPT !.state = s])
  BY DEF Alike, IsParser
<1>4. /\ in_iac(t, byte, i) = IF byte = SB THEN [t EXCEPT !.state = "SB"]
                              ELSE IF IsVerb(byte) THEN [t EXCEPT !.state = VerbOf(byte)]
                              ELSE ToData(Raise(t, x), i)
      /\ in_iac(u, byte, i) = IF byte = SB THEN [u EXCEPT !.state = "SB"]
                              ELSE IF IsVerb(byte) THEN [u EXCEPT !.state = VerbOf(byte)]
                              ELSE ToData(Raise(u, x), i)
  BY InIacIs, Zenon
<1> HIDE DEF x
<1>5. QED BY <1>2, <1>3, <1>4

LEMMA BufferByteAlike ==
    ASSUME NEW i \in Nat, NEW t, IsParser(t, i), NEW u, IsParser(u, i), Alike(t, u),
           NEW byte \in Bytes
    PROVE  Alike(buffer_byte(t, byte, i), buffer_byte(u, byte, i))
<1>1. t.buffer = u.buffer
  BY DEF Alike
<1>2. Alike(ToData(Raise(t, <<<<"overflow">>>>), i), ToData(Raise(u, <<<<"overflow">>>>), i))
  BY RaisedAlike, EventTypes
<1>3. Alike([t EXCEPT !.buffer = Append(@, byte), !.state = "SB_DATA"],
            [u EXCEPT !.buffer = Append(@, byte), !.state = "SB_DATA"])
  BY DEF Alike, IsParser
<1>4. QED BY <1>1, <1>2, <1>3 DEF buffer_byte

LEMMA PassOnAlike ==
    ASSUME NEW i \in Nat, NEW t, IsParser(t, i), NEW u, IsParser(u, i), Alike(t, u),
           NEW chunk \in Seq(Bytes), NEW last \in Nat, last <= Len(chunk)
    PROVE  Alike(PassOn(t, chunk, last), PassOn(u, chunk, last))
<1> DEFINE e == [k \in 1..(last - t.start + 1) |-> <<"data", chunk[t.start + k - 1]>>]
<1>1. PassOn(t, chunk, last) = Raise(t, e) /\ PassOn(u, chunk, last) = Raise(u, e)
  BY DEF PassOn, Alike
<1>2. e \in Seq(Events)
  BY PassOnEvents
<1> HIDE DEF e
<1>3. QED BY <1>1, <1>2, RaiseAlike

LEMMA ByteAlike ==
    ASSUME NEW c \in Seq(Bytes), NEW i \in 1..Len(c),
           NEW t, IsParser(t, i - 1), NEW u, IsParser(u, i - 1), Alike(t, u),
           NEW user, IsHandler(user), NEW other, IsHandler(other)
    PROVE  Alike(process_byte(t, c, i, user), process_byte(u, c, i, other))
<1> DEFINE b == c[i]
           r == process_byte(t, c, i, user)
           s == process_byte(u, c, i, other)
<1>1. b \in Bytes /\ i \in Nat /\ i - 1 \in Nat /\ i - 1 <= Len(c)
  OBVIOUS
<1>2. IsParser(t, i) /\ IsParser(u, i) /\ t.state \in States /\ u.state = t.state
  BY <1>1 DEF IsParser, Alike
<1> HIDE DEF b
<1>3. CASE t.state = "DATA"
  <2>1. r = in_data(t, c, i) /\ s = in_data(u, c, i)
    BY <1>2, <1>3 DEF process_byte, Verbs
  <2> DEFINE x == PassOn(t, c, i - 1)
             y == PassOn(u, c, i - 1)
  <2>2. Alike(x, y) /\ IsParser(x, i) /\ IsParser(y, i)
    BY <1>1, <1>2, PassOnAlike, PassOnType
  <2>3. /\ in_data(t, c, i) = IF b = IAC THEN [x EXCEPT !.state = "IAC"] ELSE t
        /\ in_data(u, c, i) = IF b = IAC THEN [y EXCEPT !.state = "IAC"] ELSE u
    BY DEF in_data, b
  <2> HIDE DEF x, y
  <2>4. Alike([x EXCEPT !.state = "IAC"], [y EXCEPT !.state = "IAC"])
    BY <2>2 DEF Alike, IsParser
  <2>5. QED BY <2>1, <2>3, <2>4
<1>4. CASE t.state = "IAC"
  <2>1. r = in_iac(t, b, i) /\ s = in_iac(u, b, i)
    BY <1>2, <1>4 DEF process_byte, b, Verbs
  <2>2. QED BY <1>1, <1>2, <2>1, InIacAlike
<1>5. CASE t.state \in Verbs
  <2> DEFINE x == negotiate(t, b, user)
             y == negotiate(u, b, other)
  <2>1. r = ToData(x, i) /\ s = ToData(y, i)
    BY <1>2, <1>5 DEF process_byte, b, Verbs
  <2>2. IsParser(x, i) /\ IsParser(y, i) /\ Alike(x, t) /\ Alike(y, u)
    BY <1>1, <1>2, <1>5, NegotiateType, NegotiateAlike
  <2> HIDE DEF x, y
  <2>3. Alike(x, y)
    BY <2>2 DEF Alike
  <2>4. QED BY <1>1, <2>1, <2>2, <2>3, ToDataAlike
<1>6. CASE t.state = "SB"
  <2>1. /\ r = [t EXCEPT !.sb_telopt = b, !.buffer = <<>>, !.state = "SB_DATA"]
        /\ s = [u EXCEPT !.sb_telopt = b, !.buffer = <<>>, !.state = "SB_DATA"]
    BY <1>2, <1>6 DEF process_byte, b, Verbs
  <2>2. QED BY <1>2, <2>1 DEF IsParser, Alike
<1>7. CASE t.state = "SB_DATA" /\ b = IAC
  <2>1. r = [t EXCEPT !.state = "SB_DATA_IAC"] /\ s = [u EXCEPT !.state = "SB_DATA_IAC"]
    BY <1>2, <1>7 DEF process_byte, b, Verbs
  <2>2. QED BY <1>2, <2>1 DEF IsParser, Alike
<1>8. CASE t.state = "SB_DATA" /\ b # IAC
  <2>1. r = buffer_byte(t, b, i) /\ s = buffer_byte(u, b, i)
    BY <1>2, <1>8 DEF process_byte, b, Verbs
  <2>2. QED BY <1>1, <1>2, <2>1, BufferByteAlike
<1>9. CASE t.state = "SB_DATA_IAC"
  <2>1. r = in_sb_data_iac(t, b, i, user) /\ s = in_sb_data_iac(u, b, i, other)
    BY <1>2, <1>9 DEF process_byte, b, Verbs
  <2>2. CASE b = SE
    <3> DEFINE x == ToData(t, i)
               y == ToData(u, i)
    <3>1. r = subnegotiate(x, user) /\ s = subnegotiate(y, other)
      BY <2>1, <2>2 DEF in_sb_data_iac, IAC, SE
    <3>2. IsParser(x, i) /\ IsParser(y, i) /\ Alike(x, y)
      BY <1>1, <1>2, ToDataType, ToDataAlike
    <3> HIDE DEF x, y
    <3>3. QED BY <1>1, <3>1, <3>2, SubnegotiateAlike
  <2>3. CASE b = IAC
    <3>1. r = buffer_byte(t, b, i) /\ s = buffer_byte(u, b, i)
      BY <2>1, <2>3 DEF in_sb_data_iac, IAC, SE
    <3>2. QED BY <1>1, <1>2, <3>1, BufferByteAlike
  <2>4. CASE b # SE /\ b # IAC
    <3> DEFINE x == [t EXCEPT !.state = "IAC", !.start = i + 1]
               y == [u EXCEPT !.state = "IAC", !.start = i + 1]
    <3>1. r = in_iac(subnegotiate(x, user), b, i) /\ s = in_iac(subnegotiate(y, other), b, i)
      BY <2>1, <2>4 DEF in_sb_data_iac
    <3>2. IsParser(x, i) /\ IsParser(y, i)
      BY <1>1, <1>2, ToIacType
    <3>3. Alike(x, y)
      BY <1>1, <1>2 DEF IsParser, Alike
    <3> HIDE DEF x, y
    <3>4. /\ IsParser(subnegotiate(x, user), i) /\ IsParser(subnegotiate(y, other), i)
          /\ Alike(subnegotiate(x, user), subnegotiate(y, other))
      BY <1>1, <3>2, <3>3, SubnegotiateType, SubnegotiateAlike
    <3>5. QED BY <1>1, <3>1, <3>4, InIacAlike
  <2>5. QED BY <2>2, <2>3, <2>4
<1>10. QED BY <1>2, <1>3, <1>4, <1>5, <1>6, <1>7, <1>8, <1>9 DEF States

\* What telnet_recv has its user see, and whether it is in the middle of something, does
\* not depend on the options or on the user.
LEMMA RecvAlike ==
    ASSUME NEW tel, IsTelnet(tel), NEW tom, IsTelnet(tom),
           tel.state = tom.state, tel.sb_telopt = tom.sb_telopt, tel.buffer = tom.buffer,
           NEW user, IsHandler(user), NEW other, IsHandler(other), NEW c \in Seq(Bytes)
    PROVE  LET r == telnet_recv(tel, c, user)
               s == telnet_recv(tom, c, other)
           IN  /\ r.telnet.state = s.telnet.state /\ r.telnet.sb_telopt = s.telnet.sb_telopt
               /\ r.telnet.buffer = s.telnet.buffer
               /\ Seen(r.events) = Seen(s.events)
<1> DEFINE n == Len(c)
           P(i) == process(tel, c, user)[i]
           Q(i) == process(tom, c, other)[i]
           T == {i \in Nat : i <= n => Alike(P(i), Q(i))}
<1>1. n \in Nat
  OBVIOUS
<1>2. \A i \in 0..n : IsParser(P(i), i) /\ IsParser(Q(i), i)
  BY ProcessType
<1>3. \A i \in Nat : i < n => /\ P(i + 1) = process_byte(P(i), c, i + 1, user)
                              /\ Q(i + 1) = process_byte(Q(i), c, i + 1, other)
  BY ProcessNext
<1>4. P(0) = process_begin(tel) /\ Q(0) = process_begin(tom)
  BY ProcessFirst
<1> HIDE DEF P, Q
<1>5. 0 \in T
  BY <1>4 DEF Alike, process_begin
<1>6. ASSUME NEW i \in T PROVE i + 1 \in T
  <2>1. SUFFICES ASSUME i + 1 <= n PROVE Alike(P(i + 1), Q(i + 1))
    OBVIOUS
  <2> DEFINE k == i + 1
  <2>2. i \in Nat /\ i < n /\ i \in 0..n /\ k \in 1..n /\ k - 1 = i /\ Alike(P(i), Q(i))
    BY <1>1, <2>1
  <2>3. IsParser(P(i), k - 1) /\ IsParser(Q(i), k - 1)
    BY <1>2, <2>2
  <2>4. P(k) = process_byte(P(i), c, k, user) /\ Q(k) = process_byte(Q(i), c, k, other)
    BY <1>3, <2>2
  <2> HIDE DEF k
  <2>5. Alike(P(k), Q(k))
    BY <2>2, <2>3, <2>4, ByteAlike
  <2>6. QED BY <2>5 DEF k
<1>7. T = Nat
  <2> HIDE DEF T
  <2>1. T \in SUBSET Nat
    BY DEF T
  <2>2. QED BY <1>5, <1>6, <2>1, SetInduction
<1>8. Alike(P(n), Q(n)) /\ IsParser(P(n), n) /\ IsParser(Q(n), n) /\ n <= n
  <2>1. n \in T /\ n <= n /\ n \in 0..n
    BY <1>1, <1>7
  <2>2. QED BY <1>2, <2>1
<1> DEFINE x == process_end(P(n), c, n)
           y == process_end(Q(n), c, n)
<1>9. Alike(x, y)
  <2>1. P(n).state = Q(n).state
    BY <1>8 DEF Alike
  <2>2. Alike(PassOn(P(n), c, n), PassOn(Q(n), c, n))
    BY <1>1, <1>8, PassOnAlike
  <2>3. QED BY <1>8, <2>1, <2>2 DEF process_end
<1>10. telnet_recv(tel, c, user) =
           [telnet |-> [state |-> x.state, sb_telopt |-> x.sb_telopt, buffer |-> x.buffer,
                        q |-> x.q], out |-> x.out, events |-> x.events]
  BY DEF telnet_recv, P
<1>11. telnet_recv(tom, c, other) =
           [telnet |-> [state |-> y.state, sb_telopt |-> y.sb_telopt, buffer |-> y.buffer,
                        q |-> y.q], out |-> y.out, events |-> y.events]
  BY DEF telnet_recv, Q
<1> HIDE DEF x, y
<1>12. QED BY <1>9, <1>10, <1>11 DEF Alike

-----------------------------------------------------------------------------
(* What telnet_recv makes of one byte. *)

\* What a parser raises is for the user.
LEMMA PayloadSeen ==
    ASSUME NEW o \in Bytes, NEW c \in Seq(Bytes)
    PROVE  /\ Seen(payload(o, c)) = payload(o, c)
           /\ payload(o, c) = <<>> \/ \E e \in Events : payload(o, c) = <<e>> /\ e[1] \notin Verbs
<1> DEFINE Tags == {"zmp", "mssp", "environ", "ttype_is", "ttype_send"}
           One(s) == s = <<>> \/ \E e : s = <<e>> /\ e[1] \in Tags
           p == payload(o, c)
<1>1. One(p)
  <2>1. One(zmp_telnet(c))
    <3>1. zmp_telnet(c) = <<>> \/ \E x : zmp_telnet(c) = <<<<"zmp", x>>>>
      BY Zenon DEF zmp_telnet
    <3>2. QED BY <3>1
  <2>2. One(mssp_telnet(c))
    <3>1. mssp_telnet(c) = <<>> \/ \E x : mssp_telnet(c) = <<<<"mssp", x>>>>
      BY Zenon DEF mssp_telnet
    <3>2. QED BY <3>1
  <2>3. One(environ_telnet(c))
    <3>1. environ_telnet(c) = <<>> \/ \E x, y : environ_telnet(c) = <<<<"environ", x, y>>>>
      BY Zenon DEF environ_telnet
    <3>2. QED BY <3>1
  <2>4. One(ttype_telnet(c))
    BY DEF ttype_telnet
  <2>5. One(<<>>)
    OBVIOUS
  <2> HIDE DEF One
  <2>6. QED BY <2>1, <2>2, <2>3, <2>4, <2>5 DEF payload
<1>2. p \in Seq(Events)
  BY PayloadType
<1> HIDE DEF p
<1>3. CASE p = <<>>
  <2>1. QED BY <1>3, SeenNothing DEF p
<1>4. ASSUME NEW e, p = <<e>>, e[1] \in Tags
      PROVE  e \in Events /\ e[1] \notin Verbs /\ Seen(p) = p
  <2>1. e \in Events
    <3>1. p[1] = e /\ 1 \in 1..Len(p)
      BY <1>4
    <3>2. p[1] \in Events
      BY <1>2, <3>1
    <3>3. QED BY <3>1, <3>2
  <2>2. e[1] \notin Verbs
    BY <1>4 DEF Verbs
  <2>3. QED BY <1>4, <2>1, <2>2, SeenOne
<1>5. QED BY <1>1, <1>3, <1>4 DEF p

LEMMA Codes ==
    /\ IAC \in Bytes /\ SB \in Bytes /\ SE \in Bytes /\ TTYPE \in Bytes /\ 0 \in Bytes
    /\ SE # IAC /\ SB # IAC /\ SE # SB /\ ~IsVerb(SE) /\ ~IsVerb(IAC) /\ ~IsVerb(SB)
    /\ \A v \in Verbs : VerbByte[v] \in Bytes /\ VerbByte[v] # SB /\ IsVerb(VerbByte[v])
    /\ \A v, w \in Verbs : VerbByte[v] = VerbByte[w] => v = w
<1>1. /\ IAC \in Bytes /\ SB \in Bytes /\ SE \in Bytes /\ TTYPE \in Bytes /\ 0 \in Bytes
      /\ SE # IAC /\ SB # IAC /\ SE # SB
  BY DEF IAC, SB, SE, TTYPE, Bytes
<1>2. ~IsVerb(SE) /\ ~IsVerb(IAC) /\ ~IsVerb(SB)
  BY DEF IAC, SB, SE, IsVerb, Verbs, VerbByte
<1>3. \A v \in Verbs : VerbByte[v] \in Bytes /\ VerbByte[v] # SB
  BY DEF Verbs, VerbByte, Bytes, SB
<1>4. \A v \in Verbs : IsVerb(VerbByte[v])
  BY DEF IsVerb
<1>5. \A v, w \in Verbs : VerbByte[v] = VerbByte[w] => v = w
  BY DEF Verbs, VerbByte
<1>6. QED BY <1>1, <1>2, <1>3, <1>4, <1>5

LEMMA ProcessOne ==
    ASSUME NEW t, NEW c \in Seq(Bytes), Len(c) = 1, NEW user
    PROVE  process(t, c, user)[1] = process_byte(process_begin(t), c, 1, user)
<1>1. process(t, c, user)[0] = process_begin(t)
  BY ProcessFirst
<1>2. ASSUME NEW i \in Nat, i < Len(c)
      PROVE  process(t, c, user)[i + 1] = process_byte(process(t, c, user)[i], c, i + 1, user)
  BY ProcessNext, <1>2
<1>3. QED BY <1>1, <1>2

\* What it makes of the byte is what process_byte does, when no data are to be passed on.
LEMMA RecvOne ==
    ASSUME NEW t, IsTelnet(t), t.state # "DATA", NEW b \in Bytes, NEW user, IsHandler(user)
    PROVE  LET x == process_byte(process_begin(t), <<b>>, 1, user)
               r == telnet_recv(t, <<b>>, user)
           IN  /\ r.telnet.state = x.state /\ r.telnet.sb_telopt = x.sb_telopt
               /\ r.telnet.buffer = x.buffer /\ r.out = x.out /\ r.events = x.events
<1> DEFINE u == process_begin(t)
           c == <<b>>
           x == process_byte(u, c, 1, user)
           y == process_end(x, c, 1)
<1>1. c \in Seq(Bytes) /\ 1 \in 1..Len(c) /\ Len(c) = 1 /\ 1 - 1 = 0
  OBVIOUS
<1>2. IsParser(u, 0)
  BY BeginType
<1>3. u.state = t.state
  BY DEF process_begin
<1>4. After(u, u, <<>>, <<>>)
  BY <1>2 DEF After, IsParser
<1> HIDE DEF u, c
<1>5. IsParser(u, 1 - 1) /\ c[1] = c[1] /\ <<>> \in Seq(Bytes) /\ <<>> \in Seq(Events)
  BY <1>1, <1>2
<1>6. IsParser(x, 1)
  BY <1>1, <1>5, ProcessByteType
<1>7. StartsAt(x, 1)
  BY <1>1, <1>3, <1>4, <1>5, ByteAfter
<1>8. process(t, c, user)[1] = x
  BY <1>1, ProcessOne DEF u
<1> HIDE DEF x
<1>9. /\ y.state = x.state /\ y.sb_telopt = x.sb_telopt
      /\ y.buffer = x.buffer /\ y.out = x.out /\ y.events = x.events
  <2>1. CASE x.state = "DATA"
    <3>1. x.start = 2
      BY <1>7, <2>1 DEF StartsAt
    <3>2. PassOn(x, c, 1) = Raise(x, <<>>)
      BY <3>1 DEF PassOn
    <3>3. After(Raise(x, <<>>), x, <<>>, <<>>)
      BY <1>6, RaiseNothing
    <3>4. <<>> \o x.out = x.out /\ <<>> \o x.events = x.events
      <4> DEFINE o == x.out
                 e == x.events
      <4>1. o \in Seq(Bytes) /\ e \in Seq(Events)
        BY <1>6 DEF IsParser
      <4> HIDE DEF o, e, Events
      <4>2. <<>> \o o = o /\ <<>> \o e = e
        BY <4>1
      <4>3. QED BY <4>2 DEF o, e
    <3>5. QED BY <2>1, <3>2, <3>3, <3>4 DEF After, process_end
  <2>2. CASE x.state # "DATA"
    BY <2>2 DEF process_end
  <2>3. QED BY <2>1, <2>2
<1>10. telnet_recv(t, c, user) =
           [telnet |-> [state |-> y.state, sb_telopt |-> y.sb_telopt, buffer |-> y.buffer,
                        q |-> y.q], out |-> y.out, events |-> y.events]
  BY <1>1, <1>8 DEF telnet_recv
<1> HIDE DEF y
<1>11. QED BY <1>9, <1>10 DEF x, u, c

\* telnet_recv of b at t leads to state, raises events and sends out.
Reads(t, b, user, state, events, out) ==
    LET r == telnet_recv(t, <<b>>, user)
    IN r.telnet.state = state /\ r.events = events /\ r.out = out

LEMMA BeginsWith ==
    ASSUME NEW t, IsTelnet(t)
    PROVE  LET u == process_begin(t)
           IN  /\ IsParser(u, 1) /\ u.state = t.state /\ u.sb_telopt = t.sb_telopt
               /\ u.buffer = t.buffer /\ u.out = <<>> /\ u.events = <<>>
               /\ u.q = t.q /\ u.start = 1
<1>1. IsParser(process_begin(t), 0)
  BY BeginType
<1>2. IsParser(process_begin(t), 1)
  <2> DEFINE u == process_begin(t)
  <2> HIDE DEF u
  <2>1. IsParser(u, 0) => IsParser(u, 1)
    BY DEF IsParser
  <2>2. QED BY <1>1, <2>1 DEF u
<1>3. QED BY <1>2 DEF process_begin

LEMMA ReadsData ==
    ASSUME NEW t, IsTelnet(t), t.state = "DATA", NEW b \in Bytes, b # IAC,
           NEW user
    PROVE  Reads(t, b, user, "DATA", <<<<"data", b>>>>, <<>>)
<1> DEFINE u == process_begin(t)
           c == <<b>>
           y == PassOn(u, c, 1)
<1>1. c \in Seq(Bytes) /\ c[1] = b /\ Len(c) = 1
  OBVIOUS
<1>2. IsParser(u, 1) /\ u.state = "DATA" /\ u.out = <<>> /\ u.events = <<>> /\ u.start = 1
  BY BeginsWith
<1> HIDE DEF u, c
<1>3. process_byte(u, c, 1, user) = u
  BY <1>1, <1>2 DEF process_byte, in_data, Verbs
<1>4. process(t, c, user)[1] = process_byte(u, c, 1, user)
  BY <1>1, ProcessOne DEF u
<1>5. telnet_recv(t, c, user) =
          [telnet |-> [state |-> y.state, sb_telopt |-> y.sb_telopt, buffer |-> y.buffer,
                       q |-> y.q], out |-> y.out, events |-> y.events]
  <2>1. process_end(u, c, 1) = y
    BY <1>2 DEF process_end
  <2>2. QED BY <1>1, <1>3, <1>4, <2>1 DEF telnet_recv
<1>6. y = Raise(u, <<<<"data", b>>>>)
  <2>1. [k \in 1..(1 - 1 + 1) |-> <<"data", c[1 + k - 1]>>] = <<<<"data", b>>>>
    BY <1>1
  <2>2. QED BY <1>2, <2>1 DEF PassOn
<1>7. y.state = "DATA" /\ y.out = <<>> /\ y.events = <<<<"data", b>>>>
  BY <1>2, <1>6 DEF Raise, IsParser
<1> HIDE DEF y
<1>8. QED BY <1>5, <1>7 DEF Reads, c

LEMMA ReadsCommand ==
    ASSUME NEW t, IsTelnet(t), t.state = "DATA", NEW user
    PROVE  Reads(t, IAC, user, "IAC", <<>>, <<>>)
<1> DEFINE u == process_begin(t)
           c == <<IAC>>
           x == PassOn(u, c, 0)
           y == [x EXCEPT !.state = "IAC"]
<1>1. c \in Seq(Bytes) /\ c[1] = IAC /\ Len(c) = 1
  BY Codes
<1>2. IsParser(u, 1) /\ u.state = "DATA" /\ u.out = <<>> /\ u.events = <<>> /\ u.start = 1
  BY BeginsWith
<1> HIDE DEF u, c
<1>3. process_byte(u, c, 1, user) = y
  <2>1. process_byte(u, c, 1, user) = in_data(u, c, 1)
    BY <1>2 DEF process_byte, Verbs
  <2>2. 1 - 1 = 0
    OBVIOUS
  <2>3. QED BY <1>1, <2>1, <2>2 DEF in_data
<1>4. process(t, c, user)[1] = process_byte(u, c, 1, user)
  BY <1>1, ProcessOne DEF u
<1>5. x = Raise(u, <<>>)
  BY <1>2 DEF PassOn
<1>6. y.state = "IAC" /\ y.out = <<>> /\ y.events = <<>>
  <2>1. <<>> \o <<>> = <<>>
    OBVIOUS
  <2>2. QED BY <1>2, <1>5, <2>1 DEF Raise, IsParser
<1> HIDE DEF y, x
<1>7. telnet_recv(t, c, user) =
          [telnet |-> [state |-> y.state, sb_telopt |-> y.sb_telopt, buffer |-> y.buffer,
                       q |-> y.q], out |-> y.out, events |-> y.events]
  <2>1. process_end(y, c, 1) = y
    BY <1>6 DEF process_end
  <2>2. QED BY <1>1, <1>3, <1>4, <2>1 DEF telnet_recv
<1>8. QED BY <1>6, <1>7 DEF Reads, c

LEMMA ReadsCommandEnd ==
    ASSUME NEW t, IsTelnet(t), t.state = "IAC", NEW b \in Bytes, b # SB, ~IsVerb(b),
           NEW user, IsHandler(user)
    PROVE  Reads(t, b, user, "DATA",
                 IF b = IAC THEN <<<<"data", b>>>> ELSE <<<<"iac", b>>>>, <<>>)
<1> DEFINE u == process_begin(t)
           x == process_byte(u, <<b>>, 1, user)
           e == IF b = IAC THEN <<<<"data", b>>>> ELSE <<<<"iac", b>>>>
<1>1. IsParser(u, 1) /\ u.state = "IAC" /\ u.out = <<>> /\ u.events = <<>>
  BY BeginsWith
<1> HIDE DEF u
<1>2. <<b>>[1] = b
  OBVIOUS
<1>3. x = in_iac(u, b, 1)
  BY <1>1, <1>2 DEF process_byte, Verbs
<1>4. in_iac(u, b, 1) = ToData(Raise(u, e), 1)
  BY InIacIs
<1>5. e \in Seq(Events)
  BY EventTypes
<1> HIDE DEF e, x
<1>6. <<>> \o e = e
  <2> HIDE DEF Events
  <2>1. QED BY <1>5
<1>7. x.state = "DATA" /\ x.events = e /\ x.out = <<>>
  BY <1>1, <1>3, <1>4, <1>6 DEF ToData, Raise, IsParser
<1>8. QED BY <1>7, RecvOne DEF Reads, x, u, e

LEMMA ReadsVerb ==
    ASSUME NEW t, IsTelnet(t), t.state = "IAC", NEW v \in Verbs, NEW user, IsHandler(user)
    PROVE  Reads(t, VerbByte[v], user, v, <<>>, <<>>)
<1> DEFINE u == process_begin(t)
           b == VerbByte[v]
           x == process_byte(u, <<b>>, 1, user)
<1>1. IsParser(u, 1) /\ u.state = "IAC" /\ u.out = <<>> /\ u.events = <<>>
  BY BeginsWith
<1>2. b \in Bytes /\ b # SB /\ IsVerb(b) /\ \A w \in Verbs : b = VerbByte[w] => w = v
  BY Codes
<1>3. VerbOf(b) = v
  <2>1. VerbOf(b) \in Verbs /\ b = VerbByte[VerbOf(b)]
    BY <1>2, Zenon DEF VerbOf, IsVerb
  <2>2. QED BY <1>2, <2>1
<1> HIDE DEF u, b
<1>4. <<b>>[1] = b
  OBVIOUS
<1>5. x = in_iac(u, b, 1)
  BY <1>1, <1>4 DEF process_byte, Verbs
<1>6. in_iac(u, b, 1) = [u EXCEPT !.state = v]
  BY <1>2, <1>3, InIacIs
<1> HIDE DEF x
<1>7. x.state = v /\ x.events = <<>> /\ x.out = <<>>
  BY <1>1, <1>5, <1>6 DEF IsParser
<1>8. QED BY <1>2, <1>7, RecvOne DEF Reads, x, u, b

LEMMA ReadsSb ==
    ASSUME NEW t, IsTelnet(t), t.state = "IAC", NEW user, IsHandler(user)
    PROVE  Reads(t, SB, user, "SB", <<>>, <<>>)
<1> DEFINE u == process_begin(t)
           x == process_byte(u, <<SB>>, 1, user)
<1>1. IsParser(u, 1) /\ u.state = "IAC" /\ u.out = <<>> /\ u.events = <<>>
  BY BeginsWith
<1> HIDE DEF u
<1>2. <<SB>>[1] = SB /\ SB \in Bytes
  BY Codes
<1>3. x = in_iac(u, SB, 1)
  BY <1>1, <1>2 DEF process_byte, Verbs
<1>4. in_iac(u, SB, 1) = [u EXCEPT !.state = "SB"]
  BY InIacIs
<1> HIDE DEF x
<1>5. x.state = "SB" /\ x.events = <<>> /\ x.out = <<>>
  BY <1>1, <1>3, <1>4 DEF IsParser
<1>6. QED BY <1>2, <1>5, RecvOne DEF Reads, x, u

\* The bytes of a negotiation, or none.
Negotiations(o) == {<<>>} \cup {send_negotiate(v, o) : v \in Verbs}

LEMMA ReadsOption ==
    ASSUME NEW t, IsTelnet(t), t.state \in Verbs, NEW b \in Bytes, NEW user, IsHandler(user)
    PROVE  LET r == telnet_recv(t, <<b>>, user)
           IN  r.telnet.state = "DATA" /\ Seen(r.events) = <<>> /\ r.out \in Negotiations(b)
<1> DEFINE u == process_begin(t)
           x == process_byte(u, <<b>>, 1, user)
           y == negotiate(u, b, user)
<1>1. IsParser(u, 1) /\ u.state = t.state /\ u.out = <<>> /\ u.events = <<>>
  BY BeginsWith
<1> HIDE DEF u
<1>2. <<b>>[1] = b
  OBVIOUS
<1>3. x = ToData(y, 1)
  BY <1>1, <1>2 DEF process_byte, Verbs
<1>4. IsParser(y, 1) /\ Alike(y, u)
  BY <1>1, NegotiateType, NegotiateAlike
<1>5. y.out \in Negotiations(b)
  <2> DEFINE side == TouchedBy(u.state)
             move == OnReceived(u.state, <<side, b>> \in user.supported,
                                get_rfc1143(u.q, b)[side])
             e == IF move.event = "none" THEN <<>> ELSE <<<<move.event, b>>>>
             o == IF move.send = "none" THEN <<>> ELSE send_negotiate(move.send, b)
  <2>1. side \in Sides /\ IsQ(u.q)
    BY <1>1 DEF TouchedBy, Sides, IsParser
  <2>2. get_rfc1143(u.q, b)[side] \in QStates
    BY <2>1, OptionType DEF OptionT, Sides
  <2>3. move \in MoveT
    BY <1>1, <2>2, ReceivedType
  <2>4. y = [Raise(u, e) EXCEPT !.q = moved(@, b, side, move.next), !.out = @ \o o]
    BY Zenon DEF negotiate
  <2>5. o \in Negotiations(b) /\ o \in Seq(Bytes)
    <3> HIDE DEF move
    <3>1. o \in Seq(Bytes)
      BY <2>3, SentType
    <3>2. move.send = "none" \/ move.send \in Verbs
      BY <2>3 DEF MoveT
    <3>3. QED BY <3>1, <3>2 DEF Negotiations
  <2> HIDE DEF e, o, side, move
  <2>6. y.out = <<>> \o o
    BY <1>1, <2>4 DEF Raise, IsParser
  <2>7. <<>> \o o = o
    BY <2>5
  <2>8. QED BY <2>5, <2>6, <2>7
<1> HIDE DEF x, y
<1>6. x.state = "DATA" /\ x.events = y.events /\ x.out = y.out
  BY <1>3, <1>4 DEF ToData, IsParser
<1>7. Seen(y.events) = <<>>
  BY <1>1, <1>4, SeenNothing DEF Alike
<1>8. t.state # "DATA"
  BY DEF Verbs
<1> DEFINE r == telnet_recv(t, <<b>>, user)
<1>9. r.telnet.state = x.state /\ r.out = x.out /\ r.events = x.events
  BY <1>8, RecvOne DEF x, u
<1> HIDE DEF r
<1>10. r.telnet.state = "DATA" /\ Seen(r.events) = <<>> /\ r.out \in Negotiations(b)
  BY <1>5, <1>6, <1>7, <1>9
<1>11. QED BY <1>10 DEF r

LEMMA ReadsSbOption ==
    ASSUME NEW t, IsTelnet(t), t.state = "SB", NEW b \in Bytes, NEW user, IsHandler(user)
    PROVE  /\ Reads(t, b, user, "SB_DATA", <<>>, <<>>)
           /\ telnet_recv(t, <<b>>, user).telnet.sb_telopt = b
           /\ telnet_recv(t, <<b>>, user).telnet.buffer = <<>>
<1> DEFINE u == process_begin(t)
           x == process_byte(u, <<b>>, 1, user)
<1>1. IsParser(u, 1) /\ u.state = "SB" /\ u.out = <<>> /\ u.events = <<>>
  BY BeginsWith
<1> HIDE DEF u
<1>2. <<b>>[1] = b
  OBVIOUS
<1>3. x = [u EXCEPT !.sb_telopt = b, !.buffer = <<>>, !.state = "SB_DATA"]
  BY <1>1, <1>2 DEF process_byte, Verbs
<1> HIDE DEF x
<1>4. x.state = "SB_DATA" /\ x.events = <<>> /\ x.out = <<>> /\ x.sb_telopt = b /\ x.buffer = <<>>
  BY <1>1, <1>3 DEF IsParser
<1>5. QED BY <1>4, RecvOne DEF Reads, x, u

LEMMA ReadsSbCommand ==
    ASSUME NEW t, IsTelnet(t), t.state = "SB_DATA", NEW user, IsHandler(user)
    PROVE  /\ Reads(t, IAC, user, "SB_DATA_IAC", <<>>, <<>>)
           /\ telnet_recv(t, <<IAC>>, user).telnet.sb_telopt = t.sb_telopt
           /\ telnet_recv(t, <<IAC>>, user).telnet.buffer = t.buffer
<1> DEFINE u == process_begin(t)
           x == process_byte(u, <<IAC>>, 1, user)
<1>1. IsParser(u, 1) /\ u.state = "SB_DATA" /\ u.out = <<>> /\ u.events = <<>>
      /\ u.sb_telopt = t.sb_telopt /\ u.buffer = t.buffer
  BY BeginsWith
<1> HIDE DEF u
<1>2. <<IAC>>[1] = IAC /\ IAC \in Bytes
  BY Codes
<1>3. x = [u EXCEPT !.state = "SB_DATA_IAC"]
  BY <1>1, <1>2 DEF process_byte, Verbs
<1> HIDE DEF x
<1>4. x.state = "SB_DATA_IAC" /\ x.events = <<>> /\ x.out = <<>>
      /\ x.sb_telopt = t.sb_telopt /\ x.buffer = t.buffer
  BY <1>1, <1>3 DEF IsParser
<1>5. QED BY <1>2, <1>4, RecvOne DEF Reads, x, u

\* A byte of the content: in the buffer, or what follows is data.
LEMMA ReadsContent ==
    ASSUME NEW t, IsTelnet(t), NEW b \in Bytes, NEW user, IsHandler(user),
           \/ t.state = "SB_DATA" /\ b # IAC
           \/ t.state = "SB_DATA_IAC" /\ b = IAC
    PROVE  LET r == telnet_recv(t, <<b>>, user)
           IN  IF Len(t.buffer) < MaxBuffer
               THEN /\ Reads(t, b, user, "SB_DATA", <<>>, <<>>)
                    /\ r.telnet.sb_telopt = t.sb_telopt /\ r.telnet.buffer = Append(t.buffer, b)
               ELSE Reads(t, b, user, "DATA", <<<<"overflow">>>>, <<>>)
<1> DEFINE u == process_begin(t)
           x == process_byte(u, <<b>>, 1, user)
<1>1. IsParser(u, 1) /\ u.state = t.state /\ u.out = <<>> /\ u.events = <<>>
      /\ u.sb_telopt = t.sb_telopt /\ u.buffer = t.buffer
  BY BeginsWith
<1> HIDE DEF u
<1>2. <<b>>[1] = b /\ t.state # "DATA"
  OBVIOUS
<1>3. x = buffer_byte(u, b, 1)
  <2>1. CASE t.state = "SB_DATA" /\ b # IAC
    BY <1>1, <1>2, <2>1 DEF process_byte, Verbs
  <2>2. CASE t.state = "SB_DATA_IAC" /\ b = IAC
    <3>1. x = in_sb_data_iac(u, b, 1, user)
      BY <1>1, <1>2, <2>2 DEF process_byte, Verbs
    <3>2. QED BY <2>2, <3>1 DEF in_sb_data_iac, IAC, SE
  <2>3. QED BY <2>1, <2>2
<1> HIDE DEF x
<1>4. CASE Len(t.buffer) < MaxBuffer
  <2>1. x = [u EXCEPT !.buffer = Append(@, b), !.state = "SB_DATA"]
    BY <1>1, <1>3, <1>4 DEF buffer_byte
  <2>2. x.state = "SB_DATA" /\ x.events = <<>> /\ x.out = <<>>
        /\ x.sb_telopt = t.sb_telopt /\ x.buffer = Append(t.buffer, b)
    BY <1>1, <2>1 DEF IsParser
  <2>3. QED BY <1>2, <1>4, <2>2, RecvOne DEF Reads, x, u
<1>5. CASE ~(Len(t.buffer) < MaxBuffer)
  <2>1. x = ToData(Raise(u, <<<<"overflow">>>>), 1)
    BY <1>1, <1>3, <1>5 DEF buffer_byte
  <2>2. <<>> \o <<<<"overflow">>>> = <<<<"overflow">>>>
    OBVIOUS
  <2>3. x.state = "DATA" /\ x.events = <<<<"overflow">>>> /\ x.out = <<>>
    BY <1>1, <2>1, <2>2 DEF IsParser, ToData, Raise
  <2>4. QED BY <1>2, <1>5, <2>3, RecvOne DEF Reads, x, u
<1>6. QED BY <1>4, <1>5

\* What subnegotiate raises, and what it has the user send.
Whole(o, c) == <<<<"subnegotiation", o, c>>>> \o payload(o, c)
Reply(o, c, user) == IF payload(o, c) = <<<<"ttype_send">>>> THEN user.on_ttype_send ELSE <<>>

LEMMA WholeSeen ==
    ASSUME NEW o \in Bytes, NEW c \in Seq(Bytes)
    PROVE  Whole(o, c) \in Seq(Events) /\ Seen(Whole(o, c)) = Whole(o, c)
<1> DEFINE e == <<"subnegotiation", o, c>>
           p == payload(o, c)
<1>1. e \in Events /\ e[1] \notin Verbs
  BY DEF Events, Verbs
<1>2. p \in Seq(Events) /\ Seen(p) = p
  BY PayloadType, PayloadSeen
<1> HIDE DEF e, p, Events
<1>3. <<e>> \in Seq(Events) /\ <<e>> \o p \in Seq(Events)
  BY <1>1, <1>2
<1>4. Seen(<<e>>) = <<e>>
  BY <1>1, SeenOne
<1>5. Seen(<<e>> \o p) = <<e>> \o p
  BY <1>2, <1>3, <1>4, SeenConcat
<1>6. QED BY <1>3, <1>5 DEF Whole, e, p

LEMMA SubnegotiateIs ==
    ASSUME NEW u, IsParser(u, 1), u.out = <<>>, u.events = <<>>, NEW user, IsHandler(user)
    PROVE  /\ subnegotiate(u, user).out = Reply(u.sb_telopt, u.buffer, user)
           /\ subnegotiate(u, user).events = Whole(u.sb_telopt, u.buffer)
<1> DEFINE w == Whole(u.sb_telopt, u.buffer)
           o == Reply(u.sb_telopt, u.buffer, user)
<1>1. w \in Seq(Events) /\ o \in Seq(Bytes)
  BY SubnegotiateRaises DEF Whole, Reply
<1>2. subnegotiate(u, user) = [Raise(u, w) EXCEPT !.out = @ \o o]
  BY Zenon DEF subnegotiate, Whole, Reply
<1> HIDE DEF w, o
<1>3. <<>> \o w = w /\ <<>> \o o = o
  <2> HIDE DEF Events, Bytes
  <2>1. QED BY <1>1
<1>4. subnegotiate(u, user).out = <<>> \o o /\ subnegotiate(u, user).events = <<>> \o w
  BY <1>2 DEF Raise, IsParser
<1>5. QED BY <1>3, <1>4 DEF w, o

LEMMA ReadsSbEnd ==
    ASSUME NEW t, IsTelnet(t), t.state = "SB_DATA_IAC", NEW user, IsHandler(user)
    PROVE  Reads(t, SE, user, "DATA", Whole(t.sb_telopt, t.buffer),
                 Reply(t.sb_telopt, t.buffer, user))
<1> DEFINE u == process_begin(t)
           y == ToData(u, 1)
           x == process_byte(u, <<SE>>, 1, user)
<1>1. IsParser(u, 1) /\ u.state = t.state /\ u.out = <<>> /\ u.events = <<>>
      /\ u.sb_telopt = t.sb_telopt /\ u.buffer = t.buffer
  BY BeginsWith
<1> HIDE DEF u
<1>2. <<SE>>[1] = SE /\ SE \in Bytes /\ t.state # "DATA"
  BY Codes
<1>3. x = in_sb_data_iac(u, SE, 1, user)
  BY <1>1, <1>2 DEF process_byte, Verbs
<1>4. x = subnegotiate(y, user)
  BY <1>3 DEF in_sb_data_iac, IAC, SE
<1>5. IsParser(y, 1)
  BY <1>1, ToDataType
<1>6. /\ y.state = "DATA" /\ y.out = <<>> /\ y.events = <<>>
      /\ y.sb_telopt = t.sb_telopt /\ y.buffer = t.buffer
  BY <1>1 DEF ToData, IsParser
<1> HIDE DEF x, y
<1>7. /\ x.state = "DATA" /\ x.out = Reply(t.sb_telopt, t.buffer, user)
      /\ x.events = Whole(t.sb_telopt, t.buffer)
  BY <1>4, <1>5, <1>6, SubnegotiateKeeps, SubnegotiateIs
<1>8. QED BY <1>2, <1>7, RecvOne DEF Reads, x, u

\* Another command than SE ends a subnegotiation too.
LEMMA ReadsSbBroken ==
    ASSUME NEW t, IsTelnet(t), t.state = "SB_DATA_IAC", NEW b \in Bytes, b # SE, b # IAC,
           NEW user, IsHandler(user)
    PROVE  LET r == telnet_recv(t, <<b>>, user)
           IN  /\ r.out = Reply(t.sb_telopt, t.buffer, user)
               /\ \/ r.events = Whole(t.sb_telopt, t.buffer)
                  \/ r.events = Whole(t.sb_telopt, t.buffer) \o <<<<"iac", b>>>>
<1> DEFINE u == process_begin(t)
           y == [u EXCEPT !.state = "IAC", !.start = 1 + 1]
           z == subnegotiate(y, user)
           x == process_byte(u, <<b>>, 1, user)
           w == Whole(t.sb_telopt, t.buffer)
           o == Reply(t.sb_telopt, t.buffer, user)
<1>1. IsParser(u, 1) /\ u.state = t.state /\ u.out = <<>> /\ u.events = <<>>
      /\ u.sb_telopt = t.sb_telopt /\ u.buffer = t.buffer
  BY BeginsWith
<1> HIDE DEF u
<1>2. <<b>>[1] = b /\ t.state # "DATA"
  OBVIOUS
<1>3. x = in_sb_data_iac(u, b, 1, user)
  BY <1>1, <1>2 DEF process_byte, Verbs
<1>4. x = in_iac(z, b, 1)
  BY <1>3 DEF in_sb_data_iac
<1>5. IsParser(y, 1)
  BY <1>1, ToIacType
<1>6. /\ y.out = <<>> /\ y.events = <<>>
      /\ y.sb_telopt = t.sb_telopt /\ y.buffer = t.buffer
  BY <1>1 DEF IsParser
<1> HIDE DEF x, y
<1>7. z.out = o /\ z.events = w /\ IsParser(z, 1)
  BY <1>5, <1>6, SubnegotiateIs, SubnegotiateType
<1>8. in_iac(z, b, 1) = IF b = SB THEN [z EXCEPT !.state = "SB"]
                        ELSE IF IsVerb(b) THEN [z EXCEPT !.state = VerbOf(b)]
                        ELSE ToData(Raise(z, <<<<"iac", b>>>>), 1)
  BY InIacIs
<1> HIDE DEF z, w, o
<1>9. x.out = o /\ (x.events = w \/ x.events = w \o <<<<"iac", b>>>>)
  BY <1>4, <1>7, <1>8 DEF ToData, Raise, IsParser
<1>10. QED BY <1>2, <1>9, RecvOne DEF x, u, w, o

-----------------------------------------------------------------------------
(* What the senders write is read as promised. *)

\* A telnet_t that is not in the middle of something reads bytes as promised, and is
\* not in the middle of something then, whoever its user is.
Kept(bytes, promised) ==
    \A t, user : IsTelnet(t) /\ t.state = "DATA" /\ IsHandler(user) =>
        LET r == telnet_recv(t, bytes, user)
        IN r.telnet.state = "DATA" /\ Seen(r.events) = promised

LEMMA KeptNothing == Kept(<<>>, <<>>)
<1> SUFFICES ASSUME NEW t, NEW user, IsTelnet(t), t.state = "DATA", IsHandler(user)
             PROVE  LET r == telnet_recv(t, <<>>, user)
                    IN r.telnet.state = "DATA" /\ Seen(r.events) = <<>>
  BY DEF Kept
<1>1. telnet_recv(t, <<>>, user) = [telnet |-> t, out |-> <<>>, events |-> <<>>]
  BY RecvNothing
<1>2. QED BY <1>1, SeenNothing

\* The state and what is seen after two chunks.
LEMMA RecvTwo ==
    ASSUME NEW t, IsTelnet(t), NEW user, IsHandler(user),
           NEW a \in Seq(Bytes), NEW b \in Seq(Bytes)
    PROVE  LET r == telnet_recv(t, a, user)
               s == telnet_recv(r.telnet, b, user)
               w == telnet_recv(t, a \o b, user)
           IN  /\ w.telnet = s.telnet /\ w.out = r.out \o s.out
               /\ w.events = r.events \o s.events
               /\ Seen(w.events) = Seen(r.events) \o Seen(s.events)
<1> DEFINE r == telnet_recv(t, a, user)
           s == telnet_recv(r.telnet, b, user)
           w == telnet_recv(t, a \o b, user)
<1>1. w = InTwo(t, a, b, user)
  BY CutsDoNotMatter
<1>2. InTwo(t, a, b, user) =
          [telnet |-> s.telnet, out |-> r.out \o s.out, events |-> r.events \o s.events]
  BY DEF InTwo
<1>3. IsTelnet(r.telnet) /\ r.events \in Seq(Events)
  BY RecvType
<1>4. s.events \in Seq(Events)
  BY <1>3, RecvType
<1> DEFINE d == r.events
           e == s.events
<1>5. d \in Seq(Events) /\ e \in Seq(Events)
  BY <1>3, <1>4
<1> HIDE DEF d, e
<1>6. Seen(d \o e) = Seen(d) \o Seen(e)
  BY <1>5, SeenConcat
<1> HIDE DEF r, s, w
<1>7. w.telnet = s.telnet /\ w.out = r.out \o s.out /\ w.events = d \o e
  <2>1. w = [telnet |-> s.telnet, out |-> r.out \o s.out, events |-> d \o e]
    BY <1>1, <1>2, Zenon DEF d, e
  <2>2. QED BY ONLY <2>1
<1>8. Seen(w.events) = Seen(d) \o Seen(e)
  BY <1>6, <1>7
<1>9. QED BY <1>7, <1>8 DEF d, e, r, s, w

ReadInTurn(t, user, a, b) ==
    LET r == telnet_recv(t, a, user)
        s == telnet_recv(r.telnet, b, user)
        w == telnet_recv(t, a \o b, user)
    IN  /\ w.telnet = s.telnet /\ w.out = r.out \o s.out
        /\ w.events = r.events \o s.events
        /\ Seen(w.events) = Seen(r.events) \o Seen(s.events)

LEMMA RecvInTurn ==
    ASSUME NEW t, IsTelnet(t), NEW user, IsHandler(user),
           NEW a \in Seq(Bytes), NEW b \in Seq(Bytes)
    PROVE  ReadInTurn(t, user, a, b)
  BY RecvTwo DEF ReadInTurn

LEMMA KeptConcat ==
    ASSUME NEW a \in Seq(Bytes), NEW b \in Seq(Bytes), NEW x, NEW y, Kept(a, x), Kept(b, y)
    PROVE  Kept(a \o b, x \o y)
<1> SUFFICES ASSUME NEW t, NEW user, IsTelnet(t), t.state = "DATA", IsHandler(user)
             PROVE  LET r == telnet_recv(t, a \o b, user)
                    IN r.telnet.state = "DATA" /\ Seen(r.events) = x \o y
  BY DEF Kept
<1> DEFINE r == telnet_recv(t, a, user)
           s == telnet_recv(r.telnet, b, user)
           w == telnet_recv(t, a \o b, user)
<1>1. r.telnet.state = "DATA" /\ Seen(r.events) = x
  BY DEF Kept
<1>2. IsTelnet(r.telnet)
  BY RecvType
<1>3. s.telnet.state = "DATA" /\ Seen(s.events) = y
  BY <1>1, <1>2 DEF Kept
<1>4. w.telnet = s.telnet /\ Seen(w.events) = Seen(r.events) \o Seen(s.events)
  BY RecvTwo
<1> HIDE DEF r, s, w
<1>5. w.telnet.state = "DATA" /\ Seen(w.events) = x \o y
  BY <1>1, <1>3, <1>4
<1>6. QED BY <1>5 DEF w

LEMMA Pair ==
    ASSUME NEW x \in Bytes, NEW y \in Bytes
    PROVE  <<x>> \in Seq(Bytes) /\ <<x, y>> \in Seq(Bytes) /\ <<x>> \o <<y>> = <<x, y>>
<1> DEFINE c == <<x>>
           n == Len(c)
<1>1. c \in Seq(Bytes) /\ n \in Nat /\ n = 1 /\ c[1] = x /\ <<x, y>> \in Seq(Bytes)
  OBVIOUS
<1> HIDE DEF c, n
<1>2. c \o <<y>> = [k \in 1..(n + 1) |-> IF k <= n THEN c[k] ELSE y]
  <2>1. c \in Seq(Bytes) /\ n \in Nat /\ Len(c) = n
    BY <1>1 DEF n
  <2>2. y \in Bytes
    OBVIOUS
  <2> HIDE DEF Bytes
  <2>3. QED BY <2>1, <2>2, AppendedAsFunction
<1>3. [k \in 1..(n + 1) |-> IF k <= n THEN c[k] ELSE y] = <<x, y>>
  BY <1>1
<1>4. QED BY <1>1, <1>2, <1>3 DEF c

LEMMA Triple ==
    ASSUME NEW x \in Bytes, NEW y \in Bytes, NEW z \in Bytes
    PROVE  <<x, y, z>> \in Seq(Bytes) /\ <<x, y>> \o <<z>> = <<x, y, z>>
<1> DEFINE c == <<x, y>>
           n == Len(c)
<1>1. /\ c \in Seq(Bytes) /\ n \in Nat /\ n = 2 /\ c[1] = x /\ c[2] = y
      /\ <<x, y, z>> \in Seq(Bytes)
  OBVIOUS
<1> HIDE DEF c, n
<1>2. c \o <<z>> = [k \in 1..(n + 1) |-> IF k <= n THEN c[k] ELSE z]
  <2>1. c \in Seq(Bytes) /\ n \in Nat /\ Len(c) = n
    BY <1>1 DEF n
  <2>2. z \in Bytes
    OBVIOUS
  <2> HIDE DEF Bytes
  <2>3. QED BY <2>1, <2>2, AppendedAsFunction
<1>3. [k \in 1..(n + 1) |-> IF k <= n THEN c[k] ELSE z] = <<x, y, z>>
  BY <1>1
<1>4. QED BY <1>1, <1>2, <1>3 DEF c

\* The two bytes of a command, or of an IAC among the data.
LEMMA CommandKept ==
    ASSUME NEW b \in Bytes, b # SB, ~IsVerb(b)
    PROVE  Kept(<<IAC, b>>, <<IF b = IAC THEN <<"data", b>> ELSE <<"iac", b>>>>)
<1> DEFINE f == IF b = IAC THEN <<"data", b>> ELSE <<"iac", b>>
<1> SUFFICES ASSUME NEW t, NEW user, IsTelnet(t), t.state = "DATA", IsHandler(user)
             PROVE  LET r == telnet_recv(t, <<IAC, b>>, user)
                    IN r.telnet.state = "DATA" /\ Seen(r.events) = <<f>>
  BY DEF Kept
<1> DEFINE c == <<IAC>>
           d == <<b>>
           r == telnet_recv(t, c, user)
           s == telnet_recv(r.telnet, d, user)
           w == telnet_recv(t, c \o d, user)
<1>1. c \in Seq(Bytes) /\ d \in Seq(Bytes) /\ c \o d = <<IAC, b>>
  <2>1. IAC \in Bytes
    BY Codes
  <2>2. QED BY <2>1, Pair, Zenon
<1>2. r.telnet.state = "IAC" /\ r.events = <<>>
  BY ReadsCommand DEF Reads
<1>3. IsTelnet(r.telnet)
  BY <1>1, RecvType
<1>4. s.telnet.state = "DATA"
      /\ s.events = (IF b = IAC THEN <<<<"data", b>>>> ELSE <<<<"iac", b>>>>)
  BY <1>2, <1>3, ReadsCommandEnd DEF Reads
<1>5. f \in Events /\ f[1] \notin Verbs
  BY DEF Events, Verbs
<1>6. s.events = <<f>>
  BY <1>4
<1>7. w.telnet = s.telnet /\ Seen(w.events) = Seen(r.events) \o Seen(s.events)
  <2> HIDE DEF c, d, f
  <2>1. c \in Seq(Bytes) /\ d \in Seq(Bytes)
    BY <1>1
  <2>2. QED BY ONLY <2>1, IsTelnet(t), IsHandler(user), RecvTwo
<1> HIDE DEF r, s, w, f
<1>8. Seen(<<f>>) = <<f>> /\ <<>> \o <<f>> = <<f>>
  BY <1>5, SeenOne
<1>9. w.telnet.state = "DATA" /\ Seen(w.events) = <<f>>
  BY <1>2, <1>4, <1>6, <1>7, <1>8, SeenNothing
<1>10. QED BY <1>1, <1>9 DEF w

LEMMA ByteKept ==
    ASSUME NEW b \in Bytes, b # IAC
    PROVE  Kept(<<b>>, <<<<"data", b>>>>)
<1> DEFINE f == <<"data", b>>
<1> SUFFICES ASSUME NEW t, NEW user, IsTelnet(t), t.state = "DATA", IsHandler(user)
             PROVE  LET r == telnet_recv(t, <<b>>, user)
                    IN r.telnet.state = "DATA" /\ Seen(r.events) = <<f>>
  BY DEF Kept
<1>1. telnet_recv(t, <<b>>, user).telnet.state = "DATA"
      /\ telnet_recv(t, <<b>>, user).events = <<f>>
  BY ReadsData DEF Reads
<1>2. f \in Events /\ f[1] \notin Verbs
  BY DEF Events, Verbs
<1> HIDE DEF f
<1>3. Seen(<<f>>) = <<f>>
  BY <1>2, SeenOne
<1>4. QED BY <1>1, <1>3

\* A negotiation is not for the user.
LEMMA NegotiationKept ==
    ASSUME NEW o \in Bytes, NEW bytes \in Negotiations(o)
    PROVE  bytes \in Seq(Bytes) /\ Kept(bytes, <<>>)
<1>1. CASE bytes = <<>>
  BY <1>1, KeptNothing
<1>2. ASSUME NEW v \in Verbs, bytes = send_negotiate(v, o)
      PROVE  bytes \in Seq(Bytes) /\ Kept(bytes, <<>>)
  <2> DEFINE b == VerbByte[v]
  <2>1. IAC \in Bytes /\ b \in Bytes
    BY Codes
  <2>2. bytes = <<IAC, b, o>>
    BY <1>2 DEF send_negotiate
  <2> HIDE DEF b
  <2> DEFINE c == <<IAC>>
             d == <<b>>
             e == <<o>>
  <2>3. bytes = (c \o d) \o e /\ bytes \in Seq(Bytes)
        /\ c \in Seq(Bytes) /\ d \in Seq(Bytes) /\ e \in Seq(Bytes)
        /\ c \o d \in Seq(Bytes)
    <3>1. c \in Seq(Bytes) /\ c \o d = <<IAC, b>> /\ <<IAC, b>> \in Seq(Bytes)
      BY <2>1, Pair, Zenon
    <3>2. <<IAC, b>> \o e = <<IAC, b, o>> /\ <<IAC, b, o>> \in Seq(Bytes)
      BY <2>1, Triple, Zenon
    <3>3. d \in Seq(Bytes) /\ e \in Seq(Bytes)
      BY <2>1, Pair, Zenon
    <3> HIDE DEF c, d, e
    <3>4. QED BY <2>2, <3>1, <3>2, <3>3
  <2> SUFFICES ASSUME NEW t, NEW user, IsTelnet(t), t.state = "DATA", IsHandler(user)
               PROVE  LET r == telnet_recv(t, (c \o d) \o e, user)
                      IN r.telnet.state = "DATA" /\ Seen(r.events) = <<>>
    BY <2>3 DEF Kept
  <2> DEFINE r == telnet_recv(t, c, user)
             s == telnet_recv(r.telnet, d, user)
             w == telnet_recv(t, c \o d, user)
             x == telnet_recv(w.telnet, e, user)
             y == telnet_recv(t, (c \o d) \o e, user)
  <2>4. r.telnet.state = "IAC" /\ r.events = <<>>
    BY ReadsCommand DEF Reads
  <2>5. IsTelnet(r.telnet) /\ IsTelnet(w.telnet)
    <3> HIDE DEF c, d
    <3>1. QED BY <2>3, RecvType
  <2>6. s.telnet.state = v /\ s.events = <<>>
    BY <2>4, <2>5, ReadsVerb DEF Reads, b
  <2>7. w.telnet = s.telnet /\ Seen(w.events) = Seen(r.events) \o Seen(s.events)
    <3>1. IsTelnet(t) /\ IsHandler(user)
      OBVIOUS
    <3>2. c \in Seq(Bytes) /\ d \in Seq(Bytes)
      BY <2>3
    <3> HIDE DEF c, d
    <3>3. LET g == telnet_recv(t, c, user)
              h == telnet_recv(g.telnet, d, user)
              k == telnet_recv(t, c \o d, user)
          IN k.telnet = h.telnet /\ Seen(k.events) = Seen(g.events) \o Seen(h.events)
      BY ONLY <3>1, <3>2, RecvTwo
    <3>4. QED BY <3>3
  <2>8. x.telnet.state = "DATA" /\ Seen(x.events) = <<>>
    <3> HIDE DEF w
    <3>1. w.telnet.state \in Verbs
      BY <2>6, <2>7
    <3>2. QED BY <2>5, <3>1, ReadsOption
  <2>9. y.telnet = x.telnet /\ Seen(y.events) = Seen(w.events) \o Seen(x.events)
    <3>1. IsTelnet(t) /\ IsHandler(user)
      OBVIOUS
    <3> DEFINE cd == c \o d
    <3>2. cd \in Seq(Bytes) /\ e \in Seq(Bytes)
      BY <2>3
    <3> HIDE DEF cd, e
    <3>3. LET g == telnet_recv(t, cd, user)
              h == telnet_recv(g.telnet, e, user)
              k == telnet_recv(t, cd \o e, user)
          IN k.telnet = h.telnet /\ Seen(k.events) = Seen(g.events) \o Seen(h.events)
      BY ONLY <3>1, <3>2, RecvTwo
    <3>4. QED BY <3>3 DEF cd
  <2> HIDE DEF r, s, w, x, y
  <2>10. <<>> \o <<>> = <<>>
    OBVIOUS
  <2>11. y.telnet.state = "DATA" /\ Seen(y.events) = <<>>
    BY <2>4, <2>6, <2>7, <2>8, <2>9, <2>10, SeenNothing
  <2>12. QED BY <2>11 DEF y
<1>3. QED BY <1>1, <1>2 DEF Negotiations

\* IAC is doubled on the wire.
sentOf == [b \in Bytes |-> IF b = IAC THEN <<IAC, IAC>> ELSE <<b>>]

LEMMA SentIsSpread ==
    /\ sentOf \in [Bytes -> Seq(Bytes)]
    /\ \A text \in Seq(Bytes) : telnet_send(text) = Spread(sentOf, text)
<1>1. ASSUME NEW b \in Bytes PROVE sentOf[b] \in Seq(Bytes)
  <2>1. IAC \in Bytes
    BY Codes
  <2>2. sentOf[b] = IF b = IAC THEN <<IAC, IAC>> ELSE <<b>>
    BY DEF sentOf
  <2>3. <<IAC, IAC>> \in Seq(Bytes) /\ <<b>> \in Seq(Bytes)
    BY <2>1
  <2>4. QED BY <2>2, <2>3
<1>2. sentOf \in [Bytes -> Seq(Bytes)]
  <2>1. sentOf = [b \in Bytes |-> sentOf[b]]
    BY DEF sentOf
  <2>2. QED BY <1>1, <2>1
<1>3. ASSUME NEW text \in Seq(Bytes) PROVE telnet_send(text) = Spread(sentOf, text)
  <2>1. \A i \in DOMAIN text : text[i] \in Bytes
    OBVIOUS
  <2>2. [i \in DOMAIN text |-> IF text[i] = IAC THEN <<IAC, IAC>> ELSE <<text[i]>>] =
        [i \in DOMAIN text |-> sentOf[text[i]]]
    BY <2>1 DEF sentOf
  <2>3. QED BY <2>2 DEF telnet_send, Spread
<1>4. QED BY <1>2, <1>3

LEMMA SendNothing == telnet_send(<<>>) = <<>>
<1>1. <<>> \in Seq(Bytes)
  OBVIOUS
<1>2. QED BY <1>1, SentIsSpread, SpreadNothing

LEMMA SendMore ==
    ASSUME NEW text \in Seq(Bytes), NEW b \in Bytes
    PROVE  /\ telnet_send(text) \in Seq(Bytes) /\ sentOf[b] \in Seq(Bytes)
           /\ telnet_send(Append(text, b)) = telnet_send(text) \o sentOf[b]
<1>1. Append(text, b) \in Seq(Bytes)
  OBVIOUS
<1>2. Spread(sentOf, Append(text, b)) = Spread(sentOf, text) \o sentOf[b]
  BY SentIsSpread, SpreadAppend
<1>3. Spread(sentOf, text) \in Seq(Bytes)
  BY SentIsSpread, SpreadType
<1>4. sentOf[b] \in Seq(Bytes)
  BY SentIsSpread
<1>5. QED BY <1>1, <1>2, <1>3, <1>4, SentIsSpread

\* A byte of data on the wire is seen as it is.
LEMMA SentKept ==
    ASSUME NEW b \in Bytes
    PROVE  Kept(sentOf[b], <<<<"data", b>>>>)
<1>1. CASE b = IAC
  <2>1. sentOf[b] = <<IAC, b>>
    BY <1>1 DEF sentOf
  <2>2. QED BY <1>1, <2>1, CommandKept, Codes
<1>2. CASE b # IAC
  <2>1. sentOf[b] = <<b>>
    BY <1>2 DEF sentOf
  <2>2. QED BY <1>2, <2>1, ByteKept
<1>3. QED BY <1>1, <1>2

LEMMA AsDataMore ==
    ASSUME NEW text \in Seq(Bytes), NEW b \in Bytes
    PROVE  /\ AsData(text) \in Seq(Events)
           /\ AsData(Append(text, b)) = AsData(text) \o <<<<"data", b>>>>
<1> DEFINE n == Len(text)
           d == AsData(text)
           f == <<"data", b>>
<1>1. n \in Nat /\ DOMAIN text = 1..n /\ Append(text, b)[n + 1] = b
      /\ DOMAIN Append(text, b) = 1..(n + 1)
  OBVIOUS
<1>2. \A i \in 1..n : text[i] \in Bytes /\ Append(text, b)[i] = text[i]
  OBVIOUS
<1>3. \A i \in 1..n : d[i] = <<"data", text[i]>>
  BY <1>1 DEF AsData
<1>4. \A i \in 1..n : d[i] \in Events
  <2>1. \A x \in Bytes : <<"data", x>> \in Events
    BY DEF Events
  <2> HIDE DEF Events, Bytes
  <2>2. QED BY <1>2, <1>3, <2>1
<1>5. d = [i \in 1..n |-> d[i]]
  BY <1>1 DEF AsData
<1> HIDE DEF n, d
<1>6. d \in Seq(Events) /\ Len(d) = n
  <2> HIDE DEF Events
  <2>1. QED BY <1>1, <1>4, <1>5
<1>7. f \in Events
  BY DEF Events
<1> HIDE DEF f
<1>8. d \o <<f>> = [k \in 1..(n + 1) |-> IF k <= n THEN d[k] ELSE f]
  BY <1>1, <1>6, <1>7, AppendedAsFunction
<1>9. AsData(Append(text, b)) = [k \in 1..(n + 1) |-> <<"data", Append(text, b)[k]>>]
  BY <1>1 DEF AsData
<1>10. ASSUME NEW k \in 1..(n + 1)
       PROVE  <<"data", Append(text, b)[k]>> = IF k <= n THEN d[k] ELSE f
  <2>1. CASE k <= n
    <3>1. k \in 1..n
      BY <1>1, <2>1
    <3>2. QED BY <1>2, <1>3, <2>1, <3>1
  <2>2. CASE ~(k <= n)
    <3>1. k = n + 1
      BY <1>1, <2>2
    <3>2. Append(text, b)[k] = b
      BY <1>1, <3>1
    <3>3. QED BY <2>2, <3>2 DEF f
  <2>3. QED BY <2>1, <2>2
<1>11. AsData(Append(text, b)) = d \o <<f>>
  BY <1>8, <1>9, <1>10
<1>12. QED BY <1>6, <1>11 DEF d, f

LEMMA AsDataNothing == AsData(<<>>) = <<>>
  BY DEF AsData

\* A text is seen as it was, byte by byte.
LEMMA TextKept ==
    ASSUME NEW text \in Seq(Bytes)
    PROVE  telnet_send(text) \in Seq(Bytes) /\ Kept(telnet_send(text), AsData(text))
<1> DEFINE T == {s \in Seq(Bytes) : telnet_send(s) \in Seq(Bytes)
                                    /\ Kept(telnet_send(s), AsData(s))}
<1>1. <<>> \in T
  <2>1. <<>> \in Seq(Bytes)
    OBVIOUS
  <2>2. QED BY <2>1, SendNothing, AsDataNothing, KeptNothing
<1>2. ASSUME NEW s \in T, NEW b \in Bytes PROVE Append(s, b) \in T
  <2> DEFINE w == telnet_send(s)
             v == sentOf[b]
  <2>1. s \in Seq(Bytes) /\ Append(s, b) \in Seq(Bytes)
    OBVIOUS
  <2>2. telnet_send(Append(s, b)) = w \o v /\ w \in Seq(Bytes) /\ v \in Seq(Bytes)
    BY <2>1, SendMore
  <2>3. AsData(Append(s, b)) = AsData(s) \o <<<<"data", b>>>>
    BY <2>1, AsDataMore
  <2>4. Kept(w, AsData(s)) /\ Kept(v, <<<<"data", b>>>>)
    BY SentKept
  <2> HIDE DEF w, v, T
  <2>5. w \o v \in Seq(Bytes)
    BY <2>2
  <2>6. Kept(w \o v, AsData(s) \o <<<<"data", b>>>>)
    BY <2>2, <2>4, KeptConcat
  <2>7. QED BY <2>1, <2>2, <2>3, <2>5, <2>6 DEF T
<1>3. T \in SUBSET Seq(Bytes)
  OBVIOUS
<1> HIDE DEF T
<1>4. text \in T
  BY <1>1, <1>2, <1>3, SeqInduction
<1>5. QED BY <1>4 DEF T

-----------------------------------------------------------------------------
(* Subnegotiations. *)

\* The sequence of two chunks, one byte each.
LEMMA RecvPair ==
    ASSUME NEW t, IsTelnet(t), NEW user, IsHandler(user), NEW x \in Bytes, NEW y \in Bytes
    PROVE  LET r == telnet_recv(t, <<x>>, user)
               s == telnet_recv(r.telnet, <<y>>, user)
               w == telnet_recv(t, <<x, y>>, user)
           IN  /\ IsTelnet(r.telnet) /\ IsTelnet(w.telnet)
               /\ w.telnet = s.telnet /\ Seen(w.events) = Seen(r.events) \o Seen(s.events)
<1> DEFINE c == <<x>>
           d == <<y>>
           r == telnet_recv(t, c, user)
           s == telnet_recv(r.telnet, d, user)
           w == telnet_recv(t, c \o d, user)
<1>1. c \in Seq(Bytes) /\ d \in Seq(Bytes) /\ c \o d = <<x, y>> /\ c \o d \in Seq(Bytes)
  BY Pair, Zenon
<1>2. w.telnet = s.telnet /\ Seen(w.events) = Seen(r.events) \o Seen(s.events)
  <2>1. c \in Seq(Bytes) /\ d \in Seq(Bytes) /\ IsTelnet(t) /\ IsHandler(user)
    BY <1>1
  <2> HIDE DEF c, d
  <2>2. QED BY ONLY <2>1, RecvTwo
<1>3. IsTelnet(r.telnet) /\ IsTelnet(w.telnet)
  <2> HIDE DEF c, d
  <2>1. QED BY <1>1, RecvType
<1>4. w = telnet_recv(t, <<x, y>>, user)
  BY <1>1
<1> HIDE DEF w
<1>5. QED BY <1>2, <1>3, <1>4

\* What goes before the end of a subnegotiation.
Opened(o, s) == telnet_begin_sb(o) \o telnet_send(s)

LEMMA OpenedSteps ==
    ASSUME NEW o \in Bytes, NEW s \in Seq(Bytes), NEW b \in Bytes
    PROVE  /\ Opened(o, <<>>) = <<IAC, SB, o>> /\ Opened(o, s) \in Seq(Bytes)
           /\ Opened(o, Append(s, b)) = Opened(o, s) \o sentOf[b]
           /\ telnet_subnegotiation(o, s) = Opened(o, s) \o <<IAC, SE>>
<1> DEFINE h == telnet_begin_sb(o)
           x == telnet_send(s)
           y == sentOf[b]
<1>1. h = <<IAC, SB, o>> /\ h \in Seq(Bytes)
  <2>1. h = <<IAC, SB, o>>
    BY DEF telnet_begin_sb
  <2>2. IAC \in Bytes /\ SB \in Bytes
    BY Codes
  <2>3. <<IAC, SB, o>> \in Seq(Bytes)
    BY <2>2, Triple, Zenon
  <2>4. QED BY <2>1, <2>3
<1>2. x \in Seq(Bytes) /\ y \in Seq(Bytes) /\ telnet_send(Append(s, b)) = x \o y
  BY SendMore
<1>3. telnet_subnegotiation(o, s) = (h \o x) \o <<IAC, SE>>
  BY DEF telnet_subnegotiation, telnet_finish_sb, telnet_iac
<1> HIDE DEF h, x, y, Bytes
<1>4. h \o <<>> = h /\ h \o x \in Seq(Bytes) /\ h \o (x \o y) = (h \o x) \o y
  BY <1>1, <1>2
<1>5. QED BY <1>1, <1>2, <1>3, <1>4, SendNothing DEF Opened, h, x, y

\* A byte of the content.
LEMMA SentContent ==
    ASSUME NEW t, IsTelnet(t), t.state = "SB_DATA", NEW b \in Bytes, NEW user, IsHandler(user)
    PROVE  LET r == telnet_recv(t, sentOf[b], user)
           IN  IF Len(t.buffer) < MaxBuffer
               THEN /\ r.telnet.state = "SB_DATA" /\ r.telnet.sb_telopt = t.sb_telopt
                    /\ r.telnet.buffer = Append(t.buffer, b) /\ Seen(r.events) = <<>>
               ELSE r.telnet.state = "DATA" /\ Seen(r.events) = <<<<"overflow">>>>
<1> DEFINE f == <<"overflow">>
<1>1. Seen(<<f>>) = <<f>> /\ Seen(<<>>) = <<>> /\ <<>> \o <<>> = <<>> /\ <<>> \o <<f>> = <<f>>
  <2>1. f \in Events /\ f[1] \notin Verbs
    BY DEF Events, Verbs
  <2> HIDE DEF f
  <2>2. Seen(<<f>>) = <<f>>
    BY <2>1, SeenOne
  <2>3. <<>> \o <<>> = <<>> /\ <<>> \o <<f>> = <<f>>
    OBVIOUS
  <2>4. QED BY <2>2, <2>3, SeenNothing
<1>2. CASE b # IAC
  <2> DEFINE r == telnet_recv(t, <<b>>, user)
  <2>1. sentOf[b] = <<b>>
    BY <1>2 DEF sentOf
  <2>2. IF Len(t.buffer) < MaxBuffer
        THEN /\ r.telnet.state = "SB_DATA" /\ r.events = <<>>
             /\ r.telnet.sb_telopt = t.sb_telopt /\ r.telnet.buffer = Append(t.buffer, b)
        ELSE r.telnet.state = "DATA" /\ r.events = <<f>>
    BY <1>2, ReadsContent DEF Reads
  <2> HIDE DEF r, f
  <2>3. IF Len(t.buffer) < MaxBuffer
        THEN /\ r.telnet.state = "SB_DATA" /\ Seen(r.events) = <<>>
             /\ r.telnet.sb_telopt = t.sb_telopt /\ r.telnet.buffer = Append(t.buffer, b)
        ELSE r.telnet.state = "DATA" /\ Seen(r.events) = <<f>>
    BY <1>1, <2>2
  <2>4. QED BY <2>1, <2>3 DEF r, f
<1>3. CASE b = IAC
  <2> DEFINE q == telnet_recv(t, <<IAC>>, user)
             v == q.telnet
             r == telnet_recv(v, <<IAC>>, user)
             w == telnet_recv(t, <<IAC, IAC>>, user)
  <2>1. sentOf[b] = <<IAC, IAC>>
    BY <1>3 DEF sentOf
  <2>2. /\ q.telnet.state = "SB_DATA_IAC" /\ q.events = <<>>
        /\ q.telnet.sb_telopt = t.sb_telopt /\ q.telnet.buffer = t.buffer
    BY ReadsSbCommand DEF Reads
  <2>3. /\ IsTelnet(q.telnet) /\ w.telnet = r.telnet
        /\ Seen(w.events) = Seen(q.events) \o Seen(r.events)
    <3>1. IAC \in Bytes /\ IsTelnet(t) /\ IsHandler(user)
      BY Codes
    <3>2. QED BY ONLY <3>1, RecvPair
  <2>4. IF Len(v.buffer) < MaxBuffer
        THEN /\ r.telnet.state = "SB_DATA" /\ r.events = <<>>
             /\ r.telnet.sb_telopt = v.sb_telopt
             /\ r.telnet.buffer = Append(v.buffer, IAC)
        ELSE r.telnet.state = "DATA" /\ r.events = <<f>>
    <3>1. IsTelnet(v) /\ v.state = "SB_DATA_IAC" /\ IAC \in Bytes
      BY <2>2, <2>3, Codes
    <3> HIDE DEF v
    <3>2. QED BY <3>1, ReadsContent DEF Reads
  <2> HIDE DEF q, v, r, w, f
  <2>5. IF Len(t.buffer) < MaxBuffer
        THEN /\ w.telnet.state = "SB_DATA" /\ Seen(w.events) = <<>>
             /\ w.telnet.sb_telopt = t.sb_telopt /\ w.telnet.buffer = Append(t.buffer, b)
        ELSE w.telnet.state = "DATA" /\ Seen(w.events) = <<f>>
    BY <1>1, <1>3, <2>2, <2>3, <2>4 DEF v
  <2>6. QED BY <2>1, <2>5 DEF w, f
<1>4. QED BY <1>2, <1>3

\* IAC SE ends it.
LEMMA EndOfContent ==
    ASSUME NEW t, IsTelnet(t), t.state = "SB_DATA", NEW user, IsHandler(user)
    PROVE  LET r == telnet_recv(t, <<IAC, SE>>, user)
           IN  r.telnet.state = "DATA" /\ Seen(r.events) = Whole(t.sb_telopt, t.buffer)
<1> DEFINE q == telnet_recv(t, <<IAC>>, user)
           v == q.telnet
           r == telnet_recv(v, <<SE>>, user)
           w == telnet_recv(t, <<IAC, SE>>, user)
           h == Whole(t.sb_telopt, t.buffer)
<1>1. /\ q.telnet.state = "SB_DATA_IAC" /\ q.events = <<>>
      /\ q.telnet.sb_telopt = t.sb_telopt /\ q.telnet.buffer = t.buffer
  BY ReadsSbCommand DEF Reads
<1>2. /\ IsTelnet(q.telnet) /\ w.telnet = r.telnet
      /\ Seen(w.events) = Seen(q.events) \o Seen(r.events)
  <2>1. IAC \in Bytes /\ SE \in Bytes /\ IsTelnet(t) /\ IsHandler(user)
    BY Codes
  <2>2. QED BY ONLY <2>1, RecvPair
<1>3. r.telnet.state = "DATA" /\ r.events = Whole(v.sb_telopt, v.buffer)
  <2>1. IsTelnet(v) /\ v.state = "SB_DATA_IAC"
    BY <1>1, <1>2
  <2> HIDE DEF v
  <2>2. QED BY <2>1, ReadsSbEnd DEF Reads
<1>4. h \in Seq(Events) /\ Seen(h) = h
  BY WholeSeen DEF IsTelnet
<1>5. Whole(v.sb_telopt, v.buffer) = h
  BY <1>1
<1> HIDE DEF q, v, r, w, h
<1>6. <<>> \o h = h
  <2> HIDE DEF Events
  <2>1. QED BY <1>4
<1>7. w.telnet.state = "DATA" /\ Seen(w.events) = h
  BY <1>1, <1>2, <1>3, <1>4, <1>5, <1>6, SeenNothing
<1>8. QED BY <1>7 DEF w, h

\* How far a subnegotiation of option o has come with content s.
Within(r, o, s) ==
    IF Len(s) <= MaxBuffer
    THEN /\ r.telnet.state = "SB_DATA" /\ r.telnet.sb_telopt = o
         /\ r.telnet.buffer = s /\ Seen(r.events) = <<>>
    ELSE /\ r.telnet.state = "DATA"
         /\ Seen(r.events) = <<<<"overflow">>>> \o AsData(SubSeq(s, MaxBuffer + 2, Len(s)))

LEMMA WithinFirst ==
    ASSUME NEW o \in Bytes, NEW t, IsTelnet(t), t.state = "DATA", NEW user, IsHandler(user)
    PROVE  Within(telnet_recv(t, <<IAC, SB, o>>, user), o, <<>>)
<1> DEFINE c == <<IAC, SB>>
           d == <<o>>
           q == telnet_recv(t, <<IAC>>, user)
           v == q.telnet
           r == telnet_recv(v, <<SB>>, user)
           w == telnet_recv(t, c, user)
           u == w.telnet
           x == telnet_recv(u, d, user)
           y == telnet_recv(t, c \o d, user)
<1>1. IAC \in Bytes /\ SB \in Bytes /\ IsTelnet(t) /\ IsHandler(user)
  BY Codes
<1>2. c \in Seq(Bytes)
  BY <1>1, Pair, Zenon
<1>3. d \in Seq(Bytes) /\ c \o d = <<IAC, SB, o>>
  BY <1>1, Pair, Triple, Zenon
<1>4. IsTelnet(v) /\ IsTelnet(u) /\ u = r.telnet
      /\ Seen(w.events) = Seen(q.events) \o Seen(r.events)
  <2>1. IsTelnet(q.telnet) /\ IsTelnet(w.telnet) /\ w.telnet = r.telnet
        /\ Seen(w.events) = Seen(q.events) \o Seen(r.events)
    BY ONLY <1>1, RecvPair
  <2> HIDE DEF w, r, q
  <2>2. QED BY <2>1
<1>5. v.state = "IAC" /\ q.events = <<>>
  BY ReadsCommand DEF Reads
<1>6. r.telnet.state = "SB" /\ r.events = <<>>
  <2> HIDE DEF v
  <2>1. QED BY <1>1, <1>4, <1>5, ReadsSb DEF Reads
<1>7. /\ x.telnet.state = "SB_DATA" /\ x.events = <<>>
      /\ x.telnet.sb_telopt = o /\ x.telnet.buffer = <<>>
  <2>1. u.state = "SB"
    BY <1>4, <1>6
  <2> HIDE DEF u
  <2>2. IsTelnet(u) /\ IsHandler(user)
    BY <1>4
  <2>3. Reads(u, o, user, "SB_DATA", <<>>, <<>>)
    BY ONLY o \in Bytes, <2>1, <2>2, ReadsSbOption
  <2>4. x.telnet.sb_telopt = o /\ x.telnet.buffer = <<>>
    BY ONLY o \in Bytes, <2>1, <2>2, ReadsSbOption
  <2>5. QED BY <2>3, <2>4 DEF Reads
<1>8. y.telnet = x.telnet /\ Seen(y.events) = Seen(w.events) \o Seen(x.events)
  <2> HIDE DEF c, d
  <2>1. QED BY ONLY <1>1, <1>2, <1>3, RecvTwo
<1>9. y = telnet_recv(t, <<IAC, SB, o>>, user)
  BY <1>3
<1> HIDE DEF c, d, q, v, r, w, u, x, y
<1>10. <<>> \o <<>> = <<>> /\ Len(<<>>) = 0 /\ 0 <= MaxBuffer
  OBVIOUS
<1>11. Seen(y.events) = <<>>
  BY <1>4, <1>5, <1>6, <1>7, <1>8, <1>10, SeenNothing
<1>12. Within(y, o, <<>>)
  BY <1>7, <1>8, <1>10, <1>11 DEF Within
<1>13. QED BY <1>9, <1>12

\* The content beyond what was dropped.
LEMMA RestMore ==
    ASSUME NEW s \in Seq(Bytes), NEW b \in Bytes, NEW m \in Nat
    PROVE  /\ Len(s) = m => SubSeq(Append(s, b), m + 2, Len(s) + 1) = <<>>
           /\ Len(s) > m => /\ SubSeq(s, m + 2, Len(s)) \in Seq(Bytes)
                            /\ SubSeq(Append(s, b), m + 2, Len(s) + 1) =
                                   Append(SubSeq(s, m + 2, Len(s)), b)
<1> DEFINE n == Len(s)
           l == SubSeq(Append(s, b), m + 2, n + 1)
           r == SubSeq(s, m + 2, n)
<1>1. n \in Nat /\ Append(s, b) \in Seq(Bytes) /\ Len(Append(s, b)) = n + 1
  OBVIOUS
<1>2. ASSUME n = m PROVE l = <<>>
  BY <1>1, <1>2
<1>3. ASSUME n > m PROVE r \in Seq(Bytes) /\ l = Append(r, b)
  <2>1. r \in Seq(Bytes) /\ Len(r) = n - m - 1
    BY <1>1, <1>3
  <2>2. l \in Seq(Bytes) /\ Len(l) = n - m
    BY <1>1, <1>3
  <2>3. \A k \in 1..(n - m - 1) : r[k] = s[m + 1 + k] /\ l[k] = s[m + 1 + k]
    BY <1>1, <1>3
  <2>4. l[n - m] = b
    BY <1>1, <1>3
  <2> HIDE DEF n, l, r, Bytes
  <2> DEFINE g == Append(r, b)
  <2>5. /\ g \in Seq(Bytes) /\ Len(g) = n - m /\ g[n - m] = b
        /\ \A k \in 1..(n - m - 1) : g[k] = r[k]
    BY <1>1, <1>3, <2>1
  <2> HIDE DEF g
  <2>6. \A k \in 1..(n - m) : g[k] = l[k]
    BY <1>1, <1>3, <2>3, <2>4, <2>5
  <2>7. g = l
    BY <1>1, <1>3, <2>2, <2>5, <2>6
  <2>8. QED BY <2>1, <2>7 DEF g
<1>4. QED BY <1>2, <1>3

LEMMA WithinMore ==
    ASSUME NEW o \in Bytes, NEW t, IsTelnet(t), t.state = "DATA", NEW user, IsHandler(user),
           NEW s \in Seq(Bytes), NEW b \in Bytes,
           Within(telnet_recv(t, Opened(o, s), user), o, s)
    PROVE  Within(telnet_recv(t, Opened(o, Append(s, b)), user), o, Append(s, b))
<1> DEFINE n == Len(s)
           c == Opened(o, s)
           d == sentOf[b]
           r == telnet_recv(t, c, user)
           v == r.telnet
           x == telnet_recv(v, d, user)
           w == telnet_recv(t, c \o d, user)
           f == <<"overflow">>
           g == <<"data", b>>
<1>1. c \in Seq(Bytes) /\ d \in Seq(Bytes) /\ Opened(o, Append(s, b)) = c \o d
  BY OpenedSteps, SendMore
<1>2. /\ w.telnet = x.telnet /\ Seen(w.events) = Seen(r.events) \o Seen(x.events)
      /\ IsTelnet(v)
  <2>1. IsTelnet(t) /\ IsHandler(user) /\ c \in Seq(Bytes) /\ d \in Seq(Bytes)
    BY <1>1
  <2> HIDE DEF c, d
  <2>2. w.telnet = x.telnet /\ Seen(w.events) = Seen(r.events) \o Seen(x.events)
    <3>1. ReadInTurn(t, user, c, d)
      BY ONLY <2>1, RecvInTurn
    <3>2. QED BY ONLY <3>1 DEF ReadInTurn
  <2>3. IsTelnet(v)
    BY ONLY <2>1, RecvType
  <2>4. QED BY <2>2, <2>3
<1>3. n \in Nat /\ Len(Append(s, b)) = n + 1
  OBVIOUS
<1>4. f \in Events /\ g \in Events
  BY DEF Events
<1>5. Within(r, o, s)
  OBVIOUS
<1> HIDE DEF c
<1>6. CASE n <= MaxBuffer
  <2>1. v.state = "SB_DATA" /\ v.sb_telopt = o /\ v.buffer = s /\ Seen(r.events) = <<>>
    BY <1>6, <1>5 DEF Within
  <2>2. IF n < MaxBuffer
        THEN /\ x.telnet.state = "SB_DATA" /\ x.telnet.sb_telopt = o
             /\ x.telnet.buffer = Append(s, b) /\ Seen(x.events) = <<>>
        ELSE x.telnet.state = "DATA" /\ Seen(x.events) = <<f>>
    <3> HIDE DEF v, d
    <3>1. IF Len(v.buffer) < MaxBuffer
          THEN /\ x.telnet.state = "SB_DATA" /\ x.telnet.sb_telopt = v.sb_telopt
               /\ x.telnet.buffer = Append(v.buffer, b) /\ Seen(x.events) = <<>>
          ELSE x.telnet.state = "DATA" /\ Seen(x.events) = <<f>>
      BY <1>2, <2>1, SentContent DEF d
    <3> HIDE DEF x, f
    <3>2. QED BY <2>1, <3>1
  <2> HIDE DEF r, v, x, w, f, d
  <2>3. <<>> \o <<>> = <<>> /\ <<>> \o <<f>> = <<f>> /\ <<f>> \o <<>> = <<f>>
    BY DEF f
  <2>4. CASE n < MaxBuffer
    <3>1. Seen(w.events) = <<>>
      BY <1>2, <2>1, <2>2, <2>3, <2>4
    <3>2. /\ w.telnet.state = "SB_DATA" /\ w.telnet.sb_telopt = o
          /\ w.telnet.buffer = Append(s, b)
      BY <1>2, <2>2, <2>4
    <3>3. n + 1 <= MaxBuffer
      BY <1>3, <2>4
    <3>4. Within(w, o, Append(s, b))
      BY <1>3, <3>1, <3>2, <3>3 DEF Within
    <3>5. QED BY <1>1, <3>4 DEF w
  <2>5. CASE n = MaxBuffer
    <3>1. Seen(w.events) = <<f>>
      BY <1>2, <2>1, <2>2, <2>3, <2>5
    <3>2. w.telnet.state = "DATA"
      BY <1>2, <2>2, <2>5
    <3>3. SubSeq(Append(s, b), MaxBuffer + 2, n + 1) = <<>>
      BY <2>5, RestMore
    <3>4. ~(n + 1 <= MaxBuffer)
      BY <1>3, <2>5
    <3>5. <<f>> \o AsData(<<>>) = <<f>>
      BY <2>3, AsDataNothing, Zenon
    <3>6. Within(w, o, Append(s, b))
      BY <1>3, <3>1, <3>2, <3>3, <3>4, <3>5 DEF Within, f
    <3>7. QED BY <1>1, <3>6 DEF w
  <2>6. QED BY <1>3, <1>6, <2>4, <2>5
<1>7. CASE ~(n <= MaxBuffer)
  <2> DEFINE z == SubSeq(s, MaxBuffer + 2, n)
             a == AsData(z)
  <2>1. v.state = "DATA" /\ Seen(r.events) = <<f>> \o a
    BY <1>7, <1>5 DEF Within
  <2>2. x.telnet.state = "DATA" /\ Seen(x.events) = <<g>>
    <3> HIDE DEF v, d
    <3>1. Kept(d, <<g>>)
      BY SentKept DEF d
    <3> HIDE DEF g
    <3>2. QED BY <1>2, <2>1, <3>1 DEF Kept
  <2> HIDE DEF r, v, x, w, f, d
  <2>3. n > MaxBuffer
    BY <1>3, <1>7
  <2>4. /\ z \in Seq(Bytes)
        /\ SubSeq(Append(s, b), MaxBuffer + 2, n + 1) = Append(z, b)
    BY <2>3, RestMore
  <2> HIDE DEF z
  <2>5. a \in Seq(Events) /\ AsData(Append(z, b)) = a \o <<g>>
    BY <2>4, AsDataMore
  <2> HIDE DEF a, g
  <2>6. (<<f>> \o a) \o <<g>> = <<f>> \o (a \o <<g>>)
    <3> HIDE DEF Events
    <3> DEFINE l == <<f>>
               m == <<g>>
    <3>1. l \in Seq(Events) /\ m \in Seq(Events)
      BY <1>4
    <3> HIDE DEF l, m
    <3>2. (l \o a) \o m = l \o (a \o m)
      BY <2>5, <3>1
    <3>3. QED BY <3>2 DEF l, m
  <2>7. Seen(w.events) = <<f>> \o (a \o <<g>>)
    BY <1>2, <2>1, <2>2, <2>6
  <2>8. w.telnet.state = "DATA" /\ ~(n + 1 <= MaxBuffer)
    BY <1>2, <1>3, <2>2, <2>3
  <2>9. Within(w, o, Append(s, b))
    BY <1>3, <2>4, <2>5, <2>7, <2>8 DEF Within, f
  <2>10. QED BY <1>1, <2>9 DEF w
<1>8. QED BY <1>6, <1>7

\* A subnegotiation is seen whole, with what its parser makes of it; or, where it is too
\* long for the buffer, as the rest of it.
LEMMA ContentKept ==
    ASSUME NEW o \in Bytes, NEW content \in Seq(Bytes)
    PROVE  /\ telnet_subnegotiation(o, content) \in Seq(Bytes)
           /\ Kept(telnet_subnegotiation(o, content),
                   Subnegotiated(o, content, payload(o, content)))
<1> DEFINE e == <<IAC, SE>>
<1>1. e \in Seq(Bytes)
  BY Codes, Pair, Zenon
<1>2. /\ Opened(o, content) \in Seq(Bytes)
      /\ telnet_subnegotiation(o, content) = Opened(o, content) \o e
  BY Codes, OpenedSteps
<1> HIDE DEF e
<1>3. Opened(o, content) \o e \in Seq(Bytes)
  BY <1>1, <1>2
<1> SUFFICES ASSUME NEW t, NEW user, IsTelnet(t), t.state = "DATA", IsHandler(user)
             PROVE  LET r == telnet_recv(t, Opened(o, content) \o e, user)
                    IN /\ r.telnet.state = "DATA"
                       /\ Seen(r.events) = Subnegotiated(o, content, payload(o, content))
  BY <1>2, <1>3 DEF Kept
<1> DEFINE T == {s \in Seq(Bytes) : Within(telnet_recv(t, Opened(o, s), user), o, s)}
<1>4. content \in T
  <2>1. <<>> \in T
    <3>1. <<>> \in Seq(Bytes) /\ Opened(o, <<>>) = <<IAC, SB, o>>
      BY Codes, OpenedSteps
    <3>2. QED BY <3>1, WithinFirst
  <2>2. ASSUME NEW s \in T, NEW b \in Bytes PROVE Append(s, b) \in T
    <3>1. Append(s, b) \in Seq(Bytes)
      OBVIOUS
    <3>2. QED BY <3>1, WithinMore
  <2>3. T \in SUBSET Seq(Bytes)
    OBVIOUS
  <2> HIDE DEF T
  <2>4. QED BY <2>1, <2>2, <2>3, SeqInduction
<1> DEFINE c == Opened(o, content)
           r == telnet_recv(t, c, user)
           v == r.telnet
           x == telnet_recv(v, e, user)
           w == telnet_recv(t, c \o e, user)
           p == payload(o, content)
<1>5. Within(r, o, content)
  BY <1>4
<1> HIDE DEF T
<1>6. /\ w.telnet = x.telnet /\ Seen(w.events) = Seen(r.events) \o Seen(x.events)
      /\ IsTelnet(v)
  <2>1. IsTelnet(t) /\ IsHandler(user) /\ c \in Seq(Bytes) /\ e \in Seq(Bytes)
    BY <1>1, <1>2
  <2> HIDE DEF c
  <2>2. w.telnet = x.telnet /\ Seen(w.events) = Seen(r.events) \o Seen(x.events)
    <3>1. ReadInTurn(t, user, c, e)
      BY ONLY <2>1, RecvInTurn
    <3>2. QED BY ONLY <3>1 DEF ReadInTurn
  <2>3. IsTelnet(v)
    BY ONLY <2>1, RecvType
  <2>4. QED BY <2>2, <2>3
<1>7. CASE Len(content) <= MaxBuffer
  <2>1. v.state = "SB_DATA" /\ v.sb_telopt = o /\ v.buffer = content /\ Seen(r.events) = <<>>
    BY <1>5, <1>7 DEF Within
  <2>2. x.telnet.state = "DATA" /\ Seen(x.events) = Whole(o, content)
    <3> HIDE DEF v
    <3>1. x.telnet.state = "DATA" /\ Seen(x.events) = Whole(v.sb_telopt, v.buffer)
      BY <1>6, <2>1, EndOfContent DEF e
    <3>2. QED BY <2>1, <3>1
  <2> DEFINE h == Whole(o, content)
  <2>3. h \in Seq(Events) /\ h = Subnegotiated(o, content, p)
    BY <1>7, WholeSeen DEF Whole, Subnegotiated
  <2> HIDE DEF r, v, x, w, h, p, e, c
  <2>4. <<>> \o h = h
    <3> HIDE DEF Events
    <3>1. QED BY <2>3
  <2>5. w.telnet.state = "DATA" /\ Seen(w.events) = Subnegotiated(o, content, p)
    BY <1>6, <2>1, <2>2, <2>3, <2>4 DEF h
  <2>6. QED BY <2>5 DEF w, c, p
<1>8. CASE ~(Len(content) <= MaxBuffer)
  <2> DEFINE f == <<"overflow">>
             a == AsData(SubSeq(content, MaxBuffer + 2, Len(content)))
             g == <<"iac", SE>>
  <2>1. v.state = "DATA" /\ Seen(r.events) = <<f>> \o a
    BY <1>5, <1>8 DEF Within
  <2>2. x.telnet.state = "DATA" /\ Seen(x.events) = <<g>>
    <3>1. Kept(e, <<g>>)
      BY Codes, CommandKept DEF e
    <3> HIDE DEF v, g
    <3>2. QED BY <1>6, <2>1, <3>1 DEF Kept
  <2> HIDE DEF r, v, x, w, f, g, a, p, e, c
  <2>3. Subnegotiated(o, content, p) = (<<f>> \o a) \o <<g>>
    BY <1>8 DEF Subnegotiated, f, a, g
  <2>4. w.telnet.state = "DATA" /\ Seen(w.events) = Subnegotiated(o, content, p)
    BY <1>6, <2>1, <2>2, <2>3
  <2>5. QED BY <2>4 DEF w, c, p
<1>9. QED BY <1>7, <1>8

-----------------------------------------------------------------------------
(* The ends at the beginning, and their handlers. *)

LEMMA HandlerType == ASSUME NEW p \in Peers PROVE IsHandler(event_handler(p))
<1>1. telnet_ttype_is(Terminal) \in Seq(Bytes)
  BY PeersAssumption DEF telnet_ttype_is, telnet_finish_sb, telnet_iac, Bytes, IAC, SB, TTYPE, SE
<1>2. QED BY <1>1 DEF IsHandler, event_handler

LEMMA InitType == IsTelnet(telnet_init)
<1>1. <<>> \in Seq(Bytes) /\ Len(<<>>) = 0 /\ DOMAIN <<>> = {}
  OBVIOUS
<1>2. <<>> \in [{} -> OptionT]
  BY <1>1
<1>3. QED BY <1>1, <1>2 DEF IsTelnet, telnet_init, States, Bytes

-----------------------------------------------------------------------------
(* The terminal's name, and the commander's answers. *)

\* TERM has no IAC, which telnet_ttype_is would not escape.
PlainTerminal == \A i \in DOMAIN Terminal : Terminal[i] # IAC

LEMMA PlainSend ==
    ASSUME NEW text \in Seq(Bytes), \A i \in DOMAIN text : text[i] # IAC
    PROVE  telnet_send(text) = text
<1> DEFINE NoIac(s) == \A i \in DOMAIN s : s[i] # IAC
           T == {s \in Seq(Bytes) : NoIac(s) => telnet_send(s) = s}
<1>1. <<>> \in T
  <2>1. <<>> \in Seq(Bytes)
    OBVIOUS
  <2>2. QED BY <2>1, SendNothing
<1>2. ASSUME NEW s \in T, NEW b \in Bytes PROVE Append(s, b) \in T
  <2> DEFINE l == Append(s, b)
  <2>1. s \in Seq(Bytes) /\ l \in Seq(Bytes)
    OBVIOUS
  <2>2. ASSUME NoIac(l) PROVE telnet_send(l) = l
    <3>1. /\ DOMAIN l = 1..(Len(s) + 1) /\ DOMAIN s = 1..Len(s) /\ Len(s) \in Nat
          /\ l[Len(s) + 1] = b /\ \A i \in 1..Len(s) : l[i] = s[i]
      BY <2>1
    <3>2. Len(s) + 1 \in DOMAIN l /\ \A i \in DOMAIN s : i \in DOMAIN l
      BY <3>1
    <3>3. NoIac(s) /\ b # IAC
      BY <2>2, <3>1, <3>2
    <3>4. telnet_send(s) = s
      BY <3>3
    <3>5. sentOf[b] = <<b>>
      BY <3>3 DEF sentOf
    <3>6. telnet_send(l) = s \o <<b>>
      BY <2>1, <3>4, <3>5, SendMore
    <3>7. s \o <<b>> = l
      <4> HIDE DEF Bytes
      <4>1. QED BY <2>1
    <3>8. QED BY <3>6, <3>7
  <2> HIDE DEF l
  <2>3. QED BY <2>1, <2>2 DEF l
<1>3. T \in SUBSET Seq(Bytes)
  OBVIOUS
<1> HIDE DEF T
<1>4. text \in T
  BY <1>1, <1>2, <1>3, SeqInduction
<1>5. QED BY <1>4 DEF T

LEMMA Prefixed ==
    ASSUME NEW z \in Seq(Bytes), Len(z) = 1, NEW x \in Seq(Bytes)
    PROVE  LET c == z \o x
           IN  /\ c \in Seq(Bytes) /\ Len(c) = 1 + Len(x) /\ c # <<>>
               /\ c[1] = z[1] /\ Tail(c) = x /\ \A i \in 2..Len(c) : c[i] = x[i - 1]
<1> DEFINE c == z \o x
           l == Tail(c)
<1> HIDE DEF Bytes
<1>1. /\ c \in Seq(Bytes) /\ Len(c) = Len(z) + Len(x)
      /\ \A i \in 1..(Len(z) + Len(x)) : c[i] = IF i <= Len(z) THEN z[i] ELSE x[i - Len(z)]
  BY ConcatProperties
<1> HIDE DEF c
<1>2. c \in Seq(Bytes) /\ Len(c) = 1 + Len(x) /\ Len(x) \in Nat
  BY <1>1
<1>3. c[1] = z[1]
  BY <1>2, <1>1
<1>4. \A i \in 2..Len(c) : c[i] = x[i - 1]
  BY <1>2, <1>1
<1>5. c # <<>>
  BY <1>2
<1>6. l \in Seq(Bytes) /\ Len(l) = Len(x) /\ \A i \in 1..Len(x) : l[i] = c[i + 1]
  BY <1>2, <1>5
<1>7. \A i \in 1..Len(x) : c[i + 1] = x[i]
  BY <1>2, <1>4
<1> HIDE DEF l
<1>8. l = x
  BY <1>6, <1>7
<1>9. QED BY <1>2, <1>3, <1>4, <1>5, <1>8 DEF c, l

LEMMA TerminalKept ==
    ASSUME PlainTerminal
    PROVE  /\ telnet_ttype_is(Terminal) \in Seq(Bytes)
           /\ Kept(telnet_ttype_is(Terminal), TerminalPromised)
           /\ \E c \in Seq(Bytes) : telnet_ttype_is(Terminal) = telnet_subnegotiation(TTYPE, c)
<1> DEFINE z == <<0>>
           c == z \o Terminal
           h == <<IAC, SB, TTYPE>>
           e == <<IAC, SE>>
           x == Terminal
<1>1. x \in Seq(Bytes)
  BY PeersAssumption
<1>2. z \in Seq(Bytes) /\ Len(z) = 1 /\ z[1] = 0
  BY Codes
<1>3. h \in Seq(Bytes) /\ e \in Seq(Bytes)
  BY Codes, Pair, Triple, Zenon
<1>4. h \o z = <<IAC, SB, TTYPE, 0>>
  <2> DEFINE n == Len(h)
  <2>1. h \in Seq(Bytes) /\ n \in Nat /\ Len(h) = n /\ 0 \in Bytes
    BY <1>3, Codes
  <2>2. n = 3 /\ h[1] = IAC /\ h[2] = SB /\ h[3] = TTYPE
    OBVIOUS
  <2> HIDE DEF n, h, Bytes
  <2>3. h \o <<0>> = [k \in 1..(n + 1) |-> IF k <= n THEN h[k] ELSE 0]
    BY ONLY <2>1, AppendedAsFunction
  <2>4. [k \in 1..(n + 1) |-> IF k <= n THEN h[k] ELSE 0] = <<IAC, SB, TTYPE, 0>>
    BY <2>2
  <2>5. QED BY <2>3, <2>4
<1>5. telnet_ttype_is(Terminal) = ((h \o z) \o x) \o e
  BY <1>4 DEF telnet_ttype_is, telnet_finish_sb, telnet_iac
<1>6. telnet_subnegotiation(TTYPE, c) = (h \o telnet_send(c)) \o e
  BY DEF telnet_subnegotiation, telnet_begin_sb, telnet_finish_sb, telnet_iac
<1> HIDE DEF h, e, x, z
<1>7. c \in Seq(Bytes) /\ Len(c) = 1 + Len(x) /\ (h \o z) \o x = h \o c
      /\ c[1] = 0 /\ c # <<>> /\ Tail(c) = x /\ \A i \in 2..Len(c) : c[i] = x[i - 1]
  <2>1. (h \o z) \o x = h \o c
    <3>1. h \in Seq(Bytes) /\ z \in Seq(Bytes) /\ x \in Seq(Bytes)
      BY <1>1, <1>2, <1>3
    <3>2. (h \o z) \o x = h \o (z \o x)
      <4> HIDE DEF Bytes
      <4>1. QED BY ONLY <3>1
    <3>3. QED BY <3>2 DEF x
  <2>2. c = z \o x
    BY DEF x
  <2> HIDE DEF c
  <2>3. QED BY <1>1, <1>2, <2>1, <2>2, Prefixed
<1>8. telnet_send(c) = c
  <2>1. \A i \in DOMAIN x : x[i] # IAC
    BY DEF PlainTerminal, x
  <2>2. ASSUME NEW i \in DOMAIN c PROVE c[i] # IAC
    <3>1. CASE i = 1
      BY <1>7, <3>1 DEF IAC
    <3>2. CASE i # 1
      <4>1. i \in 2..Len(c) /\ i - 1 \in DOMAIN x
        BY <1>1, <1>7, <3>2
      <4>2. QED BY <1>7, <2>1, <4>1
    <3>3. QED BY <3>1, <3>2
  <2> HIDE DEF c
  <2>3. QED BY <1>7, <2>2, PlainSend
<1>9. payload(TTYPE, c) = <<<<"ttype_is", Terminal>>>>
  <2>1. ttype_telnet(c) = <<<<"ttype_is", Tail(c)>>>>
    <3> HIDE DEF c
    <3>1. c # <<>> /\ c[1] = 0
      BY <1>7
    <3>2. QED BY <3>1 DEF ttype_telnet
  <2>2. payload(TTYPE, c) = ttype_telnet(c)
    <3> HIDE DEF c
    <3>1. TTYPE # ZMP /\ TTYPE # MSSP /\ TTYPE \notin {ENVIRON, NEW_ENVIRON}
      BY DEF TTYPE, ZMP, MSSP, ENVIRON, NEW_ENVIRON
    <3>2. QED BY <3>1 DEF payload
  <2>3. QED BY <1>7, <2>1, <2>2 DEF x
<1>10. TerminalPromised = Subnegotiated(TTYPE, c, payload(TTYPE, c))
  BY <1>9 DEF TerminalPromised, z
<1>11. telnet_ttype_is(Terminal) = telnet_subnegotiation(TTYPE, c)
  BY <1>5, <1>6, <1>7, <1>8
<1> HIDE DEF c
<1>12. telnet_ttype_is(Terminal) \in Seq(Bytes)
       /\ Kept(telnet_ttype_is(Terminal), TerminalPromised)
  BY <1>7, <1>10, <1>11, Codes, ContentKept
<1>13. QED BY <1>7, <1>11, <1>12

answerOf(p) ==
    [e \in Events |-> IF p = "commander" /\ e = <<"ttype_send">> THEN TerminalPromised ELSE <<>>]

LEMMA AnsweredIsSpread ==
    ASSUME PlainTerminal, NEW p \in Peers
    PROVE  /\ answerOf(p) \in [Events -> Seq(Events)]
           /\ \A es \in Seq(Events) : Answered(p, es) = Spread(answerOf(p), es)
<1>1. TerminalPromised \in Seq(Events)
  <2> DEFINE t == telnet_init
             user == event_handler(p)
             c == telnet_ttype_is(Terminal)
             r == telnet_recv(t, c, user)
  <2>1. IsTelnet(t) /\ t.state = "DATA"
    BY InitType DEF telnet_init
  <2>2. IsHandler(user)
    BY HandlerType
  <2>3. c \in Seq(Bytes) /\ Kept(c, TerminalPromised)
    BY TerminalKept
  <2> HIDE DEF t, user, c
  <2>4. Seen(r.events) = TerminalPromised
    BY <2>1, <2>2, <2>3 DEF Kept
  <2>5. r.events \in Seq(Events)
    BY <2>1, <2>2, <2>3, RecvType
  <2>6. QED BY <2>4, <2>5, SeenType
<1> DEFINE f == answerOf(p)
<1>2. ASSUME NEW e \in Events PROVE f[e] \in Seq(Events)
  <2> HIDE DEF Events
  <2>1. f[e] \in {TerminalPromised, <<>>}
    BY DEF answerOf
  <2>2. <<>> \in Seq(Events)
    OBVIOUS
  <2>3. QED BY <1>1, <2>1, <2>2
<1>3. f \in [Events -> Seq(Events)]
  <2> HIDE DEF Events
  <2>1. f = [e \in Events |-> f[e]]
    BY DEF answerOf
  <2>2. QED BY <1>2, <2>1
<1>4. ASSUME NEW es \in Seq(Events) PROVE Answered(p, es) = Spread(f, es)
  <2> HIDE DEF Events
  <2>1. \A i \in DOMAIN es : es[i] \in Events
    OBVIOUS
  <2>2. [i \in DOMAIN es |-> IF p = "commander" /\ es[i] = <<"ttype_send">>
                             THEN TerminalPromised ELSE <<>>] =
        [i \in DOMAIN es |-> f[es[i]]]
    BY <2>1 DEF answerOf
  <2>3. QED BY <2>2 DEF Answered, Spread
<1>5. QED BY <1>3, <1>4

LEMMA AnsweredConcat ==
    ASSUME PlainTerminal, NEW p \in Peers, NEW es \in Seq(Events), NEW fs \in Seq(Events)
    PROVE  Answered(p, es \o fs) = Answered(p, es) \o Answered(p, fs)
<1> HIDE DEF Events
<1> DEFINE f == answerOf(p)
<1>1. f \in [Events -> Seq(Events)] /\ \A s \in Seq(Events) : Answered(p, s) = Spread(f, s)
  BY AnsweredIsSpread
<1> HIDE DEF f
<1>2. es \o fs \in Seq(Events)
  OBVIOUS
<1>3. Spread(f, es \o fs) = Spread(f, es) \o Spread(f, fs)
  <2>1. \A S : \A g \in [S -> Seq(S)] : \A a, b \in Seq(S) :
            Spread(g, a \o b) = Spread(g, a) \o Spread(g, b)
    BY SpreadConcat
  <2>2. QED BY <1>1, <2>1, Zenon
<1>4. QED BY <1>1, <1>2, <1>3

LEMMA AnsweredOne ==
    ASSUME PlainTerminal, NEW p \in Peers, NEW e \in Events
    PROVE  Answered(p, <<e>>) =
               IF p = "commander" /\ e = <<"ttype_send">> THEN TerminalPromised ELSE <<>>
<1> HIDE DEF Events
<1> DEFINE f == answerOf(p)
<1>1. f \in [Events -> Seq(Events)] /\ \A s \in Seq(Events) : Answered(p, s) = Spread(f, s)
  BY AnsweredIsSpread
<1>2. f[e] = IF p = "commander" /\ e = <<"ttype_send">> THEN TerminalPromised ELSE <<>>
  BY DEF answerOf
<1> HIDE DEF f
<1>3. <<e>> \in Seq(Events)
  OBVIOUS
<1>4. Spread(f, <<e>>) = f[e]
  <2>1. \A S : \A g \in [S -> Seq(S)] : \A x \in S : Spread(g, <<x>>) = g[x]
    BY SpreadOne
  <2>2. QED BY <1>1, <2>1, Zenon
<1>5. QED BY <1>1, <1>2, <1>3, <1>4

LEMMA AnsweredNothing == \A p : Answered(p, <<>>) = <<>>
<1> SUFFICES ASSUME NEW p PROVE Answered(p, <<>>) = <<>>
  OBVIOUS
<1>1. FlattenSeq(<<>>) = <<>>
  BY FlattenNothing
<1>2. QED BY <1>1 DEF Answered

\* Whatever is no question is not answered.
NoQuestion(events) == events = <<>> \/ \E e \in Events : events = <<e>> /\ e # <<"ttype_send">>

LEMMA NotAnswered ==
    ASSUME PlainTerminal, NEW p \in Peers, NEW es, NoQuestion(es)
    PROVE  Seen(es) \in Seq(Events) /\ Answered(p, Seen(es)) = <<>>
<1>1. CASE es = <<>>
  <2>1. Seen(es) = <<>> /\ <<>> \in Seq(Events)
    BY <1>1, SeenNothing
  <2>2. QED BY <2>1, AnsweredNothing
<1>2. ASSUME NEW e \in Events, es = <<e>>, e # <<"ttype_send">>
      PROVE  Seen(es) \in Seq(Events) /\ Answered(p, Seen(es)) = <<>>
  <2> HIDE DEF Events
  <2>1. <<e>> \in Seq(Events) /\ <<>> \in Seq(Events)
    OBVIOUS
  <2>2. Answered(p, <<e>>) = <<>> /\ Answered(p, <<>>) = <<>>
    BY <1>2, AnsweredOne, AnsweredNothing
  <2>3. Seen(<<e>>) = <<>> \/ Seen(<<e>>) = <<e>>
    BY SeenOne
  <2> DEFINE d == <<e>>
             x == Seen(d)
  <2> HIDE DEF d, x
  <2>4. x = <<>> \/ x = d
    BY <2>3 DEF d, x
  <2>5. d \in Seq(Events) /\ Answered(p, d) = <<>> /\ Seen(es) = x
    BY <1>2, <2>1, <2>2 DEF d, x
  <2>6. QED BY <2>1, <2>2, <2>4, <2>5
<1>3. QED BY <1>1, <1>2 DEF NoQuestion

\* A subnegotiation is answered as its reply promises.
LEMMA ReplyKept ==
    ASSUME PlainTerminal, NEW p \in Peers, NEW o \in Bytes, NEW c \in Seq(Bytes)
    PROVE  LET r == Reply(o, c, event_handler(p))
           IN  /\ r \in Seq(Bytes) /\ Seen(Whole(o, c)) \in Seq(Events)
               /\ Kept(r, Answered(p, Seen(Whole(o, c))))
<1> DEFINE s == <<"subnegotiation", o, c>>
           d == <<s>>
           w == payload(o, c)
           r == Reply(o, c, event_handler(p))
           q == <<"ttype_send">>
<1>1. Whole(o, c) = d \o w /\ Seen(Whole(o, c)) = Whole(o, c) /\ Whole(o, c) \in Seq(Events)
  BY WholeSeen DEF Whole
<1>2. s \in Events /\ s # q
  BY DEF Events
<1>3. w = <<>> \/ \E e \in Events : w = <<e>>
  BY PayloadSeen
<1>4. d \in Seq(Events) /\ w \in Seq(Events)
  <2>1. w \in Seq(Events)
    BY PayloadType
  <2> HIDE DEF Events, w, s
  <2>2. QED BY <1>2, <2>1
<1>5. Answered(p, d) = <<>>
  BY <1>2, AnsweredOne
<1>6. Answered(p, d \o w) = Answered(p, d) \o Answered(p, w)
  <2> HIDE DEF Events, d, w
  <2>1. QED BY <1>4, AnsweredConcat
<1>7. r = IF w = <<q>> THEN event_handler(p).on_ttype_send ELSE <<>>
  BY DEF Reply
<1> HIDE DEF w, d, r
<1>8. CASE w = <<q>> /\ p = "commander"
  <2>1. q \in Events
    BY <1>3, <1>8
  <2>2. Answered(p, w) = TerminalPromised
    BY <1>8, <2>1, AnsweredOne
  <2>3. r = telnet_ttype_is(Terminal)
    BY <1>7, <1>8 DEF event_handler
  <2>4. TerminalPromised \in Seq(Events)
    BY <2>2, AnsweredIsSpread, <1>4, SpreadType
  <2>5. <<>> \o TerminalPromised = TerminalPromised
    <3> HIDE DEF Events
    <3>1. QED BY <2>4
  <2>6. QED BY <1>1, <1>5, <1>6, <2>2, <2>3, <2>5, TerminalKept DEF r
<1>9. CASE ~(w = <<q>> /\ p = "commander")
  <2>1. Answered(p, w) = <<>>
    <3>1. CASE w = <<>>
      BY <3>1, AnsweredNothing
    <3>2. ASSUME NEW e \in Events, w = <<e>> PROVE Answered(p, w) = <<>>
      <4>1. ~(p = "commander" /\ e = q)
        BY <1>9, <3>2
      <4>2. QED BY <3>2, <4>1, AnsweredOne
    <3>3. QED BY <1>3, <3>1, <3>2
  <2>2. r = <<>>
    BY <1>7, <1>9 DEF event_handler
  <2>3. <<>> \o <<>> = <<>> /\ <<>> \in Seq(Bytes)
    OBVIOUS
  <2>4. QED BY <1>1, <1>5, <1>6, <2>1, <2>2, <2>3, KeptNothing DEF r
<1>10. QED BY <1>8, <1>9

\* Bytes that p sends when it saw these events: they are read as its answers.
AnswersWell(p, out, events) ==
    out \in Seq(Bytes) /\ Kept(out, Answered(p, Seen(events)))

LEMMA Unanswered ==
    ASSUME PlainTerminal, NEW p \in Peers, NEW es, NoQuestion(es)
    PROVE  AnswersWell(p, <<>>, es)
<1>1. <<>> \in Seq(Bytes) /\ Answered(p, Seen(es)) = <<>>
  BY NotAnswered
<1>2. QED BY <1>1, KeptNothing DEF AnswersWell

LEMMA AnswersTwo ==
    ASSUME PlainTerminal, NEW p \in Peers, NEW es \in Seq(Events), NEW fs \in Seq(Events),
           NEW x, AnswersWell(p, x, es), NEW y, AnswersWell(p, y, fs)
    PROVE  AnswersWell(p, x \o y, es \o fs)
<1> DEFINE a == Seen(es)
           b == Seen(fs)
<1>1. a \in Seq(Events) /\ b \in Seq(Events)
  BY SeenType
<1>2. Seen(es \o fs) = a \o b
  BY SeenConcat
<1>3. /\ x \in Seq(Bytes) /\ Kept(x, Answered(p, a))
      /\ y \in Seq(Bytes) /\ Kept(y, Answered(p, b))
  BY DEF AnswersWell
<1> HIDE DEF a, b, Bytes
<1>4. Answered(p, a \o b) = Answered(p, a) \o Answered(p, b)
  BY <1>1, AnsweredConcat
<1>5. x \o y \in Seq(Bytes)
  BY <1>3
<1>6. Kept(x \o y, Answered(p, a) \o Answered(p, b))
  BY <1>3, KeptConcat
<1>7. QED BY <1>2, <1>4, <1>5, <1>6 DEF AnswersWell

LEMMA AnswersByte ==
    ASSUME PlainTerminal, NEW p \in Peers, NEW t, IsTelnet(t), NEW b \in Bytes
    PROVE  LET r == telnet_recv(t, <<b>>, event_handler(p))
           IN  AnswersWell(p, r.out, r.events)
<1> DEFINE user == event_handler(p)
           r == telnet_recv(t, <<b>>, user)
           o == t.sb_telopt
           c == t.buffer
<1>1. IsHandler(user)
  BY HandlerType
<1>2. NoQuestion(<<>>) /\ NoQuestion(<<<<"overflow">>>>)
      /\ NoQuestion(<<<<"data", b>>>>) /\ NoQuestion(<<<<"iac", b>>>>)
  <2>1. /\ <<"overflow">> \in Events /\ <<"overflow">> # <<"ttype_send">>
        /\ <<"data", b>> \in Events /\ <<"data", b>> # <<"ttype_send">>
        /\ <<"iac", b>> \in Events /\ <<"iac", b>> # <<"ttype_send">>
    BY DEF Events
  <2> HIDE DEF Events
  <2>2. QED BY <2>1 DEF NoQuestion
<1>3. ASSUME r.out = <<>>, NoQuestion(r.events) PROVE AnswersWell(p, r.out, r.events)
  BY <1>3, Unanswered
<1>4. AnswersWell(p, Reply(o, c, user), Whole(o, c)) /\ Whole(o, c) \in Seq(Events)
  <2>1. o \in Bytes /\ c \in Seq(Bytes)
    BY DEF IsTelnet
  <2>2. QED BY <2>1, ReplyKept, WholeSeen DEF AnswersWell
<1> SUFFICES AnswersWell(p, r.out, r.events)
  OBVIOUS
<1> HIDE DEF user, o, c
<1>5. CASE t.state = "DATA"
  <2>1. CASE b = IAC
    <3>1. r.out = <<>> /\ r.events = <<>>
      BY <1>5, <2>1, ReadsCommand DEF Reads
    <3>2. QED BY <1>2, <1>3, <3>1
  <2>2. CASE b # IAC
    <3>1. r.out = <<>> /\ r.events = <<<<"data", b>>>>
      BY <1>5, <2>2, ReadsData DEF Reads
    <3>2. QED BY <1>2, <1>3, <3>1
  <2>3. QED BY <2>1, <2>2
<1>6. CASE t.state = "IAC"
  <2>1. CASE b = SB
    <3>1. r.out = <<>> /\ r.events = <<>>
      BY <1>1, <1>6, <2>1, ReadsSb DEF Reads
    <3>2. QED BY <1>2, <1>3, <3>1
  <2>2. ASSUME NEW v \in Verbs, b = VerbByte[v] PROVE AnswersWell(p, r.out, r.events)
    <3>1. r.out = <<>> /\ r.events = <<>>
      BY <1>1, <1>6, <2>2, ReadsVerb DEF Reads
    <3>2. QED BY <1>2, <1>3, <3>1
  <2>3. CASE b # SB /\ ~IsVerb(b)
    <3>1. r.out = <<>> /\ r.events \in {<<<<"data", b>>>>, <<<<"iac", b>>>>}
      BY <1>1, <1>6, <2>3, ReadsCommandEnd DEF Reads
    <3>2. QED BY <1>2, <1>3, <3>1
  <2>4. QED BY <2>1, <2>2, <2>3 DEF IsVerb
<1>7. CASE t.state \in Verbs
  <2>1. Seen(r.events) = <<>> /\ r.out \in Negotiations(b)
    BY <1>1, <1>7, ReadsOption
  <2> HIDE DEF r
  <2>2. Answered(p, Seen(r.events)) = <<>>
    BY <2>1, AnsweredNothing
  <2>3. r.out \in Seq(Bytes) /\ Kept(r.out, <<>>)
    BY <2>1, NegotiationKept
  <2>4. QED BY <2>2, <2>3 DEF AnswersWell, r
<1>8. CASE t.state = "SB"
  <2>1. r.out = <<>> /\ r.events = <<>>
    BY <1>1, <1>8, ReadsSbOption DEF Reads
  <2>2. QED BY <1>2, <1>3, <2>1
<1>9. CASE t.state = "SB_DATA" /\ b = IAC
  <2>1. r.out = <<>> /\ r.events = <<>>
    BY <1>1, <1>9, ReadsSbCommand DEF Reads
  <2>2. QED BY <1>2, <1>3, <2>1
<1>10. CASE (t.state = "SB_DATA" /\ b # IAC) \/ (t.state = "SB_DATA_IAC" /\ b = IAC)
  <2>1. r.out = <<>> /\ r.events \in {<<>>, <<<<"overflow">>>>}
    BY <1>1, <1>10, ReadsContent DEF Reads
  <2>2. QED BY <1>2, <1>3, <2>1
<1>11. CASE t.state = "SB_DATA_IAC" /\ b = SE
  <2>1. r.out = Reply(o, c, user) /\ r.events = Whole(o, c)
    BY <1>1, <1>11, ReadsSbEnd DEF Reads, o, c
  <2>2. QED BY <1>4, <2>1 DEF user
<1>12. CASE t.state = "SB_DATA_IAC" /\ b # SE /\ b # IAC
  <2> DEFINE f == <<"iac", b>>
             d == <<f>>
             x == Reply(o, c, user)
             w == Whole(o, c)
  <2>1. r.out = x /\ (r.events = w \/ r.events = w \o d)
    BY <1>1, <1>12, ReadsSbBroken DEF o, c
  <2>2. d \in Seq(Events)
    <3>1. f \in Events
      BY DEF Events
    <3> HIDE DEF f, Events
    <3>2. QED BY <3>1
  <2>3. AnswersWell(p, <<>>, d)
    BY <1>2, Unanswered
  <2>4. AnswersWell(p, x, w) /\ w \in Seq(Events)
    BY <1>4
  <2> HIDE DEF r, x, w, d
  <2>5. AnswersWell(p, x \o <<>>, w \o d)
    BY <2>2, <2>3, <2>4, AnswersTwo
  <2>6. x \o <<>> = x
    <3>1. x \in Seq(Bytes)
      BY <2>4 DEF AnswersWell
    <3> HIDE DEF Bytes
    <3>2. QED BY <3>1
  <2>7. AnswersWell(p, r.out, r.events)
    BY <2>1, <2>4, <2>5, <2>6
  <2>8. QED BY <2>7 DEF r
<1>13. \/ t.state = "DATA" \/ t.state = "IAC" \/ t.state \in Verbs \/ t.state = "SB"
       \/ t.state = "SB_DATA" \/ t.state = "SB_DATA_IAC"
  <2>1. t.state \in States
    BY DEF IsTelnet
  <2>2. QED BY <2>1 DEF States
<1> HIDE DEF r
<1>14. QED BY <1>5, <1>6, <1>7, <1>8, <1>9, <1>10, <1>11, <1>12, <1>13

\* The same of any bytes.
LEMMA Answers ==
    ASSUME PlainTerminal, NEW p \in Peers, NEW t, IsTelnet(t), NEW bytes \in Seq(Bytes)
    PROVE  LET r == telnet_recv(t, bytes, event_handler(p))
           IN  AnswersWell(p, r.out, r.events)
<1> DEFINE user == event_handler(p)
           Well(s) == LET r == telnet_recv(t, s, user) IN AnswersWell(p, r.out, r.events)
           T == {s \in Seq(Bytes) : Well(s)}
<1>1. IsHandler(user)
  BY HandlerType
<1>2. <<>> \in T
  <2>1. telnet_recv(t, <<>>, user) = [telnet |-> t, out |-> <<>>, events |-> <<>>]
    BY RecvNothing
  <2>2. NoQuestion(<<>>) /\ <<>> \in Seq(Bytes)
    BY DEF NoQuestion
  <2>3. AnswersWell(p, <<>>, <<>>)
    BY <2>2, Unanswered
  <2>4. QED BY <2>1, <2>2, <2>3
<1>3. ASSUME NEW s \in T, NEW b \in Bytes PROVE Append(s, b) \in T
  <2> DEFINE d == <<b>>
             r == telnet_recv(t, s, user)
             v == r.telnet
             x == telnet_recv(v, d, user)
             w == telnet_recv(t, s \o d, user)
  <2>1. s \in Seq(Bytes) /\ Append(s, b) \in Seq(Bytes) /\ d \in Seq(Bytes)
        /\ Append(s, b) = s \o d
    OBVIOUS
  <2>2. IsTelnet(v) /\ r.events \in Seq(Events)
    BY <1>1, <2>1, RecvType
  <2>3. AnswersWell(p, r.out, r.events)
    <3>1. Well(s)
      <4> HIDE DEF Well
      <4>1. QED OBVIOUS
    <3>2. QED BY <3>1
  <2>4. x.events \in Seq(Events) /\ AnswersWell(p, x.out, x.events)
    <3> HIDE DEF v, T
    <3>1. AnswersWell(p, x.out, x.events)
      BY <2>2, AnswersByte
    <3> HIDE DEF user, d
    <3>2. x.events \in Seq(Events)
      BY <1>1, <2>1, <2>2, RecvType
    <3>3. QED BY <3>1, <3>2
  <2> HIDE DEF T, user, d
  <2>5. w.out = r.out \o x.out /\ w.events = r.events \o x.events
    <3>1. s \in Seq(Bytes) /\ d \in Seq(Bytes) /\ IsTelnet(t) /\ IsHandler(user)
      BY <1>1, <2>1
    <3>2. ReadInTurn(t, user, s, d)
      BY ONLY <3>1, RecvInTurn
    <3>3. QED BY ONLY <3>2 DEF ReadInTurn
  <2> HIDE DEF r, v, x, w
  <2>6. AnswersWell(p, r.out \o x.out, r.events \o x.events)
    BY <2>2, <2>3, <2>4, AnswersTwo
  <2>7. AnswersWell(p, w.out, w.events)
    BY <2>5, <2>6
  <2>8. QED BY <2>1, <2>7 DEF w, T, user, d
<1>4. T \in SUBSET Seq(Bytes)
  OBVIOUS
<1> HIDE DEF T
<1>5. bytes \in T
  BY <1>2, <1>3, <1>4, SeqInduction
<1>6. QED BY <1>5 DEF T

-----------------------------------------------------------------------------
(* What is on its way to an end, and what the end has still to see. *)

\* Reading all of bytes, t raises what was promised, and is not in the middle of something.
Flows(t, bytes, user, promised) ==
    LET r == telnet_recv(t, bytes, user)
    IN r.telnet.state = "DATA" /\ Seen(r.events) = promised

LEMMA FlowMore ==
    ASSUME NEW t, IsTelnet(t), NEW user, IsHandler(user), NEW a \in Seq(Bytes),
           NEW b \in Seq(Bytes), NEW x, Flows(t, a, user, x), NEW y, Kept(b, y)
    PROVE  Flows(t, a \o b, user, x \o y)
<1> DEFINE r == telnet_recv(t, a, user)
           v == r.telnet
           s == telnet_recv(v, b, user)
           w == telnet_recv(t, a \o b, user)
<1>1. v.state = "DATA" /\ Seen(r.events) = x
  BY DEF Flows
<1>2. IsTelnet(v)
  BY RecvType
<1>3. s.telnet.state = "DATA" /\ Seen(s.events) = y
  <2> HIDE DEF v
  <2>1. QED BY <1>1, <1>2 DEF Kept
<1>4. w.telnet = s.telnet /\ Seen(w.events) = Seen(r.events) \o Seen(s.events)
  <2>1. IsTelnet(t) /\ IsHandler(user) /\ a \in Seq(Bytes) /\ b \in Seq(Bytes)
    OBVIOUS
  <2>2. ReadInTurn(t, user, a, b)
    BY ONLY <2>1, RecvInTurn
  <2>3. QED BY ONLY <2>2 DEF ReadInTurn
<1> HIDE DEF r, v, s, w
<1>5. w.telnet.state = "DATA" /\ Seen(w.events) = x \o y
  BY <1>1, <1>3, <1>4
<1>6. QED BY <1>5 DEF Flows, w

LEMMA FlowNothing ==
    ASSUME NEW t, IsTelnet(t), NEW user, NEW x
    PROVE  Flows(t, <<>>, user, x) <=> t.state = "DATA" /\ x = <<>>
<1>1. telnet_recv(t, <<>>, user) = [telnet |-> t, out |-> <<>>, events |-> <<>>]
  BY RecvNothing
<1>2. QED BY <1>1, SeenNothing DEF Flows

LEMMA FlowType ==
    ASSUME NEW t, IsTelnet(t), NEW user, IsHandler(user), NEW a \in Seq(Bytes),
           NEW x, Flows(t, a, user, x)
    PROVE  x \in Seq(Events)
<1> DEFINE r == telnet_recv(t, a, user)
<1>1. r.events \in Seq(Events) /\ Seen(r.events) = x
  BY RecvType DEF Flows
<1> HIDE DEF r
<1>2. QED BY <1>1, SeenType

\* What an end sees of some of the bytes is what it is to see first, and the rest is still
\* to be seen of the rest.
LEMMA FlowCut ==
    ASSUME NEW t, IsTelnet(t), NEW user, IsHandler(user), NEW a \in Seq(Bytes),
           NEW b \in Seq(Bytes), NEW x, Flows(t, a \o b, user, x)
    PROVE  LET r == telnet_recv(t, a, user)
               seen == Seen(r.events)
           IN  /\ seen = SubSeq(x, 1, Len(seen))
               /\ Flows(r.telnet, b, user, SubSeq(x, Len(seen) + 1, Len(x)))
<1> DEFINE r == telnet_recv(t, a, user)
           v == r.telnet
           s == telnet_recv(v, b, user)
           w == telnet_recv(t, a \o b, user)
           d == Seen(r.events)
           e == Seen(s.events)
<1>1. w.telnet.state = "DATA" /\ Seen(w.events) = x
  BY DEF Flows
<1>2. IsTelnet(v) /\ r.events \in Seq(Events)
  BY RecvType
<1>3. s.events \in Seq(Events)
  <2> HIDE DEF v
  <2>1. QED BY <1>2, RecvType
<1>4. w.telnet = s.telnet /\ Seen(w.events) = d \o e
  <2>1. IsTelnet(t) /\ IsHandler(user) /\ a \in Seq(Bytes) /\ b \in Seq(Bytes)
    OBVIOUS
  <2>2. ReadInTurn(t, user, a, b)
    BY ONLY <2>1, RecvInTurn
  <2>3. QED BY ONLY <2>2 DEF ReadInTurn
<1>5. d \in Seq(Events) /\ e \in Seq(Events)
  BY <1>2, <1>3, SeenType
<1> HIDE DEF r, v, s, w, d, e, Events
<1>6. x = d \o e
  BY <1>1, <1>4
<1>7. d = SubSeq(x, 1, Len(d)) /\ e = SubSeq(x, Len(d) + 1, Len(x))
  <2>1. /\ x \in Seq(Events) /\ Len(x) = Len(d) + Len(e)
        /\ \A i \in 1..(Len(d) + Len(e)) : x[i] = IF i <= Len(d) THEN d[i] ELSE e[i - Len(d)]
    BY <1>5, <1>6, ConcatProperties
  <2> DEFINE l == SubSeq(x, 1, Len(d))
             k == SubSeq(x, Len(d) + 1, Len(x))
  <2>2. Len(d) \in Nat /\ Len(e) \in Nat
    BY <1>5
  <2>3. l \in Seq(Events) /\ Len(l) = Len(d) /\ \A i \in 1..Len(d) : l[i] = x[i]
    BY <2>1, <2>2
  <2>4. /\ k \in Seq(Events) /\ Len(k) = Len(e)
        /\ \A i \in 1..Len(e) : k[i] = x[Len(d) + i]
    BY <2>1, <2>2
  <2>5. \A i \in 1..Len(e) : x[Len(d) + i] = e[i]
    BY <2>1, <2>2
  <2> HIDE DEF l, k
  <2>6. l = d
    <3>1. \A i \in 1..Len(d) : l[i] = d[i]
      BY <2>1, <2>2, <2>3
    <3>2. QED BY ONLY <1>5, <2>3, <3>1, SeqEqual
  <2>7. k = e
    <3>1. \A i \in 1..Len(e) : k[i] = e[i]
      BY <2>4, <2>5
    <3>2. QED BY ONLY <1>5, <2>4, <3>1, SeqEqual
  <2>8. QED BY <2>6, <2>7 DEF l, k
<1>8. Flows(v, b, user, e)
  BY <1>1, <1>4 DEF Flows, s, e
<1>9. QED BY <1>7, <1>8 DEF v, d, r

\* The options do not matter.
LEMMA FlowOptions ==
    ASSUME NEW t, IsTelnet(t), NEW u, IsTelnet(u), t.state = u.state,
           t.sb_telopt = u.sb_telopt, t.buffer = u.buffer, NEW user, IsHandler(user),
           NEW a \in Seq(Bytes), NEW x, Flows(t, a, user, x)
    PROVE  Flows(u, a, user, x)
  BY RecvAlike DEF Flows

-----------------------------------------------------------------------------
(* The types of both ends. *)

LEMMA Ends == \A p \in Peers : Other(p) \in Peers /\ Other(p) # p
  BY DEF Peers, Other

LEMMA TypeInit == PeersInit => PeersTypeOK
<1> SUFFICES ASSUME PeersInit PROVE PeersTypeOK
  OBVIOUS
<1>1. QED BY InitType, PeersAssumption DEF PeersInit, PeersTypeOK, Wishes

LEMMA SendsType == ASSUME PeersTypeOK, NEW p \in Peers, UserSends(p) PROVE PeersTypeOK'
<1>1. PICK call \in Calls[p] : wire' = [wire EXCEPT ![Other(p)] = @ \o call.bytes]
  BY DEF UserSends
<1>2. wire' \in [Peers -> Seq(Bytes)]
  <2>1. wire[Other(p)] \o call.bytes \in Seq(Bytes)
    BY Ends, PeersAssumption DEF PeersTypeOK
  <2>2. QED BY <1>1, <2>1 DEF PeersTypeOK
<1>3. QED BY <1>2, PeersAssumption DEF UserSends, PeersTypeOK

LEMMA AsksType == ASSUME PeersTypeOK, NEW p \in Peers, UserAsks(p) PROVE PeersTypeOK'
<1>1. PICK verb \in Verbs, o \in Telopts :
          LET asked == telnet_negotiate(telnet[p], verb, o)
          IN /\ telnet' = [telnet EXCEPT ![p] = asked.telnet]
             /\ wire' = [wire EXCEPT ![Other(p)] = @ \o asked.out]
             /\ wish' = [wish EXCEPT ![p][o][TouchedByAsking(verb)] =
                             IF verb \in {"WILL", "DO"} THEN "on" ELSE "off"]
  BY DEF UserAsks
<1>2. o \in Bytes
  BY PeersAssumption
<1>3. /\ IsTelnet(telnet_negotiate(telnet[p], verb, o).telnet)
      /\ telnet_negotiate(telnet[p], verb, o).out \in Seq(Bytes)
  BY <1>2, NegotiatedType DEF PeersTypeOK
<1>4. DOMAIN telnet' = Peers /\ \A q \in Peers : IsTelnet(telnet'[q])
  BY <1>1, <1>3 DEF PeersTypeOK
<1>5. wire' \in [Peers -> Seq(Bytes)]
  BY <1>1, <1>3, Ends DEF PeersTypeOK
<1>6. wish' \in [Peers -> [Telopts -> [us : Wishes, him : Wishes]]]
  <2>1. TouchedByAsking(verb) \in {"us", "him"}
    BY DEF TouchedByAsking
  <2> DEFINE side == TouchedByAsking(verb)
             w == IF verb \in {"WILL", "DO"} THEN "on" ELSE "off"
             new == [wish[p][o] EXCEPT ![side] = w]
  <2>2. wish[p] \in [Telopts -> [us : Wishes, him : Wishes]] /\ w \in Wishes
    BY DEF PeersTypeOK, Wishes
  <2>3. new \in [us : Wishes, him : Wishes]
    BY <2>1, <2>2
  <2>4. wish' = [wish EXCEPT ![p] = [@ EXCEPT ![o] = new]]
    BY <1>1
  <2> HIDE DEF new
  <2>5. [wish[p] EXCEPT ![o] = new] \in [Telopts -> [us : Wishes, him : Wishes]]
    BY <2>2, <2>3
  <2>6. QED BY <2>4, <2>5 DEF PeersTypeOK
<1>7. QED BY PeersAssumption, <1>4, <1>5, <1>6 DEF UserAsks, PeersTypeOK

\* The bytes that recv(2) gives, and those that it leaves.
LEMMA CutType ==
    ASSUME NEW s \in Seq(Bytes), NEW n \in 1..RecvBuffer, n <= Len(s)
    PROVE  /\ SubSeq(s, 1, n) \in Seq(Bytes) /\ SubSeq(s, n + 1, Len(s)) \in Seq(Bytes)
           /\ s = SubSeq(s, 1, n) \o SubSeq(s, n + 1, Len(s))
<1>1. n \in Nat /\ Len(s) \in Nat
  BY PeersAssumption
<1>2. SubSeq(s, 1, n) \in Seq(Bytes) /\ SubSeq(s, n + 1, Len(s)) \in Seq(Bytes)
  BY <1>1
<1>3. QED BY <1>1, <1>2

LEMMA ReceiveType == ASSUME PeersTypeOK, NEW p \in Peers, Receive(p) PROVE PeersTypeOK'
<1> DEFINE Got(n) == telnet_recv(telnet[p], SubSeq(wire[p], 1, n), event_handler(p))
<1>1. PICK n \in 1..RecvBuffer :
          /\ n <= Len(wire[p])
          /\ telnet' = [telnet EXCEPT ![p] = Got(n).telnet]
          /\ wire' = [wire EXCEPT ![p] = SubSeq(@, n + 1, Len(@)),
                                  ![Other(p)] = @ \o Got(n).out]
          /\ garbled' \in {garbled, garbled \cup {p}}
          /\ lost' = lost \cup {<<p, o>> : o \in LosesDo(p, SubSeq(wire[p], 1, n))}
  BY DEF Receive
<1>2. wire[p] \in Seq(Bytes) /\ IsTelnet(telnet[p])
  BY DEF PeersTypeOK
<1>3. SubSeq(wire[p], 1, n) \in Seq(Bytes) /\ SubSeq(wire[p], n + 1, Len(wire[p])) \in Seq(Bytes)
  BY <1>1, <1>2, CutType
<1>4. IsTelnet(Got(n).telnet) /\ Got(n).out \in Seq(Bytes)
  BY <1>2, <1>3, RecvType, HandlerType
<1> HIDE DEF Got
<1>5. DOMAIN telnet' = Peers /\ \A q \in Peers : IsTelnet(telnet'[q])
  BY <1>1, <1>4 DEF PeersTypeOK
<1>6. wire' \in [Peers -> Seq(Bytes)]
  <2>1. /\ \A q \in Peers : wire'[q] = IF q = p THEN SubSeq(wire[p], n + 1, Len(wire[p]))
                                       ELSE wire[q] \o Got(n).out
        /\ DOMAIN wire' = Peers /\ wire' = [q \in Peers |-> wire'[q]]
    BY <1>1, Ends DEF PeersTypeOK, Peers
  <2>2. \A q \in Peers : wire[q] \o Got(n).out \in Seq(Bytes)
    BY <1>4 DEF PeersTypeOK
  <2>3. QED BY <1>3, <2>1, <2>2
<1>7. lost' \subseteq Peers \X Telopts
  BY <1>1 DEF LosesDo, PeersTypeOK
<1>8. QED BY <1>1, <1>5, <1>6, <1>7 DEF Receive, PeersTypeOK

LEMMA TypeStep == PeersTypeOK /\ [Next]_vars => PeersTypeOK'
<1> SUFFICES ASSUME PeersTypeOK, [Next]_vars PROVE PeersTypeOK'
  OBVIOUS
<1>1. CASE UNCHANGED vars
  BY <1>1 DEF vars, PeersTypeOK
<1>2. QED BY <1>1, SendsType, AsksType, ReceiveType DEF Next

\* libtelnet.c:869-1095: whatever bytes arrive and however they are cut, each telnet_t keeps
\* its types; no subnegotiation, escaped or not, runs over the buffer of MaxBuffer bytes.
THEOREM PeersTypeCorrect == Spec => []PeersTypeOK
  BY TypeInit, TypeStep, PTL DEF Spec

-----------------------------------------------------------------------------
(* Every event is delivered. *)

\* Each call is telnet_send of a text, or a whole subnegotiation, promised as its parser
\* reads it.
CallsAreSends ==
    \A p \in Peers : \A call \in Calls[p] :
        \/ \E text \in Seq(Bytes) : call = SendText(text)
        \/ \E o \in Bytes, content \in Seq(Bytes) :
               call = [bytes |-> telnet_subnegotiation(o, content),
                       promised |-> Subnegotiated(o, content, payload(o, content))]

LEMMA CallKept ==
    ASSUME CallsAreSends, NEW p \in Peers, NEW call \in Calls[p]
    PROVE  call.bytes \in Seq(Bytes) /\ Kept(call.bytes, call.promised)
<1>1. ASSUME NEW text \in Seq(Bytes), call = SendText(text)
      PROVE  call.bytes \in Seq(Bytes) /\ Kept(call.bytes, call.promised)
  <2>1. call.bytes = telnet_send(text) /\ call.promised = AsData(text)
    BY <1>1 DEF SendText
  <2>2. QED BY <2>1, TextKept
<1>2. ASSUME NEW o \in Bytes, NEW content \in Seq(Bytes),
             call = [bytes |-> telnet_subnegotiation(o, content),
                     promised |-> Subnegotiated(o, content, payload(o, content))]
      PROVE  call.bytes \in Seq(Bytes) /\ Kept(call.bytes, call.promised)
  <2>1. /\ call.bytes = telnet_subnegotiation(o, content)
        /\ call.promised = Subnegotiated(o, content, payload(o, content))
    BY ONLY <1>2
  <2>2. QED BY <2>1, ContentKept
<1>3. QED BY <1>1, <1>2 DEF CallsAreSends

\* What p has not read is all of what it has still to see.
Flowing(p) == Flows(telnet[p], wire[p], event_handler(p), owed[p])

DeliveryInv ==
    /\ PeersTypeOK
    /\ garbled = {}
    /\ owed = [p \in Peers |-> owed[p]]
    /\ \A p \in Peers : Flowing(p)

LEMMA DeliveryInit == PeersInit => DeliveryInv
<1> SUFFICES ASSUME PeersInit PROVE DeliveryInv
  OBVIOUS
<1>1. PeersTypeOK
  BY TypeInit
<1>2. ASSUME NEW p \in Peers PROVE Flowing(p)
  <2>1. telnet[p] = telnet_init /\ wire[p] = <<>> /\ owed[p] = <<>>
    BY DEF PeersInit
  <2>2. telnet_init.state = "DATA"
    BY DEF telnet_init
  <2> HIDE DEF telnet_init
  <2>3. QED BY <2>1, <2>2, InitType, FlowNothing DEF Flowing
<1>3. QED BY <1>1, <1>2 DEF PeersInit, DeliveryInv

LEMMA SendsDelivered ==
    ASSUME CallsAreSends, DeliveryInv, NEW p \in Peers, UserSends(p)
    PROVE  DeliveryInv'
<1> DEFINE q == Other(p)
<1>1. PeersTypeOK'
  BY SendsType DEF DeliveryInv
<1>2. PICK call \in Calls[p] :
          /\ wire' = [wire EXCEPT ![q] = @ \o call.bytes]
          /\ owed' = [owed EXCEPT ![q] = @ \o call.promised]
  BY DEF UserSends
<1>3. telnet' = telnet /\ garbled' = garbled
  BY DEF UserSends
<1>4. q \in Peers
  BY Ends
<1>5. DOMAIN wire = Peers /\ owed = [r \in Peers |-> owed[r]]
      /\ \A r \in Peers : IsTelnet(telnet[r]) /\ wire[r] \in Seq(Bytes) /\ Flowing(r)
  BY DEF DeliveryInv, PeersTypeOK
<1> HIDE DEF q
<1>6. ASSUME NEW r \in Peers PROVE Flowing(r)'
  <2>1. CASE r = q
    <3> DEFINE t == telnet[q]
               user == event_handler(q)
               a == wire[q]
               x == owed[q]
               b == call.bytes
               y == call.promised
    <3>1. wire'[q] = a \o b /\ owed'[q] = x \o y /\ telnet'[q] = t
      BY <1>2, <1>3, <1>4, <1>5
    <3>2. b \in Seq(Bytes) /\ Kept(b, y)
      BY CallKept
    <3>3. IsTelnet(t) /\ a \in Seq(Bytes) /\ IsHandler(user) /\ Flows(t, a, user, x)
      BY <1>4, <1>5, HandlerType DEF Flowing
    <3> HIDE DEF t, user, a, b, x, y
    <3>4. Flows(t, a \o b, user, x \o y)
      BY <3>2, <3>3, FlowMore
    <3>5. QED BY <2>1, <3>1, <3>4 DEF Flowing, user
  <2>2. CASE r # q
    <3>1. wire'[r] = wire[r] /\ owed'[r] = owed[r] /\ telnet'[r] = telnet[r]
      BY <1>2, <1>3, <1>5, <2>2
    <3>2. QED BY <1>5, <3>1 DEF Flowing
  <2>3. QED BY <2>1, <2>2
<1>7. owed' = [r \in Peers |-> owed'[r]]
  BY <1>2, <1>5
<1>8. QED BY <1>1, <1>3, <1>6, <1>7 DEF DeliveryInv

LEMMA AsksDelivered ==
    ASSUME DeliveryInv, NEW p \in Peers, UserAsks(p)
    PROVE  DeliveryInv'
<1> DEFINE q == Other(p)
<1>1. PeersTypeOK'
  BY AsksType DEF DeliveryInv
<1>2. PICK verb \in Verbs, o \in Telopts :
          LET asked == telnet_negotiate(telnet[p], verb, o)
          IN /\ telnet' = [telnet EXCEPT ![p] = asked.telnet]
             /\ wire' = [wire EXCEPT ![q] = @ \o asked.out]
  BY DEF UserAsks
<1> DEFINE asked == telnet_negotiate(telnet[p], verb, o)
           u == asked.telnet
           b == asked.out
<1>3. owed' = owed /\ garbled' = garbled
  BY DEF UserAsks
<1>4. q \in Peers /\ q # p
  BY Ends
<1>5. DOMAIN wire = Peers /\ DOMAIN telnet = Peers /\ owed = [r \in Peers |-> owed[r]]
      /\ \A r \in Peers : IsTelnet(telnet[r]) /\ wire[r] \in Seq(Bytes) /\ Flowing(r)
  BY DEF DeliveryInv, PeersTypeOK
<1>6. /\ u.state = telnet[p].state /\ u.sb_telopt = telnet[p].sb_telopt
      /\ u.buffer = telnet[p].buffer
  <2>1. IsTelnet(telnet[p])
    BY <1>5
  <2>2. DOMAIN telnet[p] = {"state", "sb_telopt", "buffer", "q"}
    BY <2>1 DEF IsTelnet
  <2>3. \E z : u = [telnet[p] EXCEPT !.q = z]
    BY DEF telnet_negotiate
  <2> HIDE DEF u
  <2>4. QED BY <2>2, <2>3
<1>7. b \in Negotiations(o) /\ o \in Bytes
  <2>1. o \in Bytes
    BY PeersAssumption
  <2> DEFINE side == TouchedByAsking(verb)
             move == OnAsked(verb, get_rfc1143(telnet[p].q, o)[side])
  <2>2. side \in Sides /\ IsQ(telnet[p].q)
    BY <1>5 DEF TouchedByAsking, Sides, IsTelnet, IsQ
  <2>3. get_rfc1143(telnet[p].q, o)[side] \in QStates
    BY <2>1, <2>2, OptionType DEF OptionT, Sides
  <2>4. move \in MoveT
    BY <2>3, AskedType
  <2>5. b = IF move.send = "none" THEN <<>> ELSE send_negotiate(move.send, o)
    BY DEF telnet_negotiate
  <2> HIDE DEF move, b
  <2>6. QED BY <2>1, <2>4, <2>5 DEF Negotiations, MoveT
<1>8. b \in Seq(Bytes) /\ Kept(b, <<>>)
  <2> HIDE DEF b
  <2>1. QED BY <1>7, NegotiationKept
<1>9. telnet' = [telnet EXCEPT ![p] = u] /\ wire' = [wire EXCEPT ![q] = @ \o b]
  BY <1>2
<1> HIDE DEF q, u, b
<1>10. telnet'[p] = u /\ telnet'[q] = telnet[q] /\ wire'[p] = wire[p]
       /\ wire'[q] = wire[q] \o b
  BY <1>4, <1>5, <1>9
<1>11. IsTelnet(u)
  BY <1>1, <1>10 DEF PeersTypeOK
<1>12. Flowing(p)'
  <2> DEFINE t == telnet[p]
             user == event_handler(p)
             a == wire[p]
             x == owed[p]
  <2>1. IsTelnet(t) /\ a \in Seq(Bytes) /\ IsHandler(user) /\ Flows(t, a, user, x)
        /\ u.state = t.state /\ u.sb_telopt = t.sb_telopt /\ u.buffer = t.buffer
    BY <1>5, <1>6, HandlerType DEF Flowing
  <2> HIDE DEF t, user, a, x
  <2>2. Flows(u, a, user, x)
    BY <1>11, <2>1, FlowOptions
  <2>3. QED BY <1>3, <1>10, <2>2 DEF Flowing, user, a, x
<1>13. Flowing(q)'
  <2> DEFINE t == telnet[q]
             user == event_handler(q)
             a == wire[q]
             x == owed[q]
  <2>1. IsTelnet(t) /\ a \in Seq(Bytes) /\ IsHandler(user) /\ Flows(t, a, user, x)
    BY <1>4, <1>5, HandlerType DEF Flowing
  <2>2. x \in Seq(Events)
    BY <2>1, FlowType
  <2> HIDE DEF t, user, a, x
  <2>3. Flows(t, a \o b, user, x \o <<>>)
    BY <1>8, <2>1, FlowMore
  <2>4. x \o <<>> = x
    <3> HIDE DEF Events
    <3>1. QED BY <2>2
  <2>5. QED BY <1>3, <1>10, <2>3, <2>4 DEF Flowing, user, t, a, x
<1>14. \A r \in Peers : r = p \/ r = q
  BY DEF Peers, Other, q
<1>15. QED BY <1>1, <1>3, <1>5, <1>12, <1>13, <1>14 DEF DeliveryInv

LEMMA ReceiveDelivered ==
    ASSUME PlainTerminal, DeliveryInv, NEW p \in Peers, Receive(p)
    PROVE  DeliveryInv'
<1> DEFINE q == Other(p)
           user == event_handler(p)
           Got(n) == telnet_recv(telnet[p], SubSeq(wire[p], 1, n), user)
<1>1. PeersTypeOK'
  BY ReceiveType DEF DeliveryInv
<1>2. PICK n \in 1..RecvBuffer :
          LET got == Got(n)
              seen == Seen(got.events)
          IN /\ n <= Len(wire[p])
             /\ telnet' = [telnet EXCEPT ![p] = got.telnet]
             /\ wire' = [wire EXCEPT ![p] = SubSeq(@, n + 1, Len(@)),
                                     ![q] = @ \o got.out]
             /\ IF seen = SubSeq(owed[p], 1, Len(seen))
                THEN /\ owed' = [owed EXCEPT ![p] = SubSeq(@, Len(seen) + 1, Len(@)),
                                             ![q] = @ \o Answered(p, seen)]
                     /\ UNCHANGED garbled
                ELSE garbled' = garbled \cup {p} /\ UNCHANGED owed
  BY DEF Receive
<1> DEFINE t == telnet[p]
           w == wire[p]
           a == SubSeq(w, 1, n)
           b == SubSeq(w, n + 1, Len(w))
           x == owed[p]
           r == telnet_recv(t, a, user)
           seen == Seen(r.events)
           y == SubSeq(x, Len(seen) + 1, Len(x))
           z == Answered(p, seen)
<1>3. q \in Peers /\ q # p /\ \A s \in Peers : s = p \/ s = q
  BY DEF Other, Peers
<1>4. DOMAIN wire = Peers /\ DOMAIN telnet = Peers /\ owed = [s \in Peers |-> owed[s]]
      /\ \A s \in Peers : IsTelnet(telnet[s]) /\ wire[s] \in Seq(Bytes) /\ Flowing(s)
  BY DEF DeliveryInv, PeersTypeOK
<1>5. a \in Seq(Bytes) /\ b \in Seq(Bytes) /\ w = a \o b
  <2>1. w \in Seq(Bytes) /\ n <= Len(w)
    BY <1>2, <1>4
  <2> HIDE DEF w
  <2>2. QED BY <2>1, CutType
<1>6. IsTelnet(t) /\ IsHandler(user) /\ Flows(t, w, user, x)
  BY <1>4, HandlerType DEF Flowing
<1>7. Got(n) = r
  OBVIOUS
<1>8. seen = SubSeq(x, 1, Len(seen)) /\ Flows(r.telnet, b, user, y)
  <2>1. Flows(t, a \o b, user, x)
    BY <1>5, <1>6
  <2> HIDE DEF t, user, a, b, x
  <2>2. QED BY <1>5, <1>6, <2>1, FlowCut
<1>9. AnswersWell(p, r.out, r.events)
  <2> HIDE DEF t, a
  <2>1. QED BY <1>5, <1>6, Answers
<1> HIDE DEF Got, q
<1>10. /\ telnet' = [telnet EXCEPT ![p] = r.telnet]
       /\ wire' = [wire EXCEPT ![p] = b, ![q] = @ \o r.out]
       /\ owed' = [owed EXCEPT ![p] = y, ![q] = @ \o z] /\ garbled' = garbled
  BY <1>2, <1>7, <1>8
<1> HIDE DEF t, w, a, b, x, r, seen, y, z, user
<1>11. /\ telnet'[p] = r.telnet /\ telnet'[q] = telnet[q]
       /\ wire'[p] = b /\ wire'[q] = wire[q] \o r.out
       /\ owed'[p] = y /\ owed'[q] = owed[q] \o z
       /\ owed' = [s \in Peers |-> owed'[s]]
  BY <1>3, <1>4, <1>10
<1>12. Flowing(p)'
  BY <1>8, <1>11 DEF Flowing, user
<1>13. Flowing(q)'
  <2> DEFINE u == telnet[q]
             h == event_handler(q)
             c == wire[q]
             o == owed[q]
             d == r.out
  <2>1. IsTelnet(u) /\ c \in Seq(Bytes) /\ IsHandler(h) /\ Flows(u, c, h, o)
    BY <1>3, <1>4, HandlerType DEF Flowing
  <2>2. d \in Seq(Bytes) /\ Kept(d, z)
    BY <1>9 DEF AnswersWell, z, seen
  <2> HIDE DEF u, h, c, o, d
  <2>3. Flows(u, c \o d, h, o \o z)
    BY <2>1, <2>2, FlowMore
  <2>4. QED BY <1>11, <2>3 DEF Flowing, u, h, c, o, d
<1>14. QED BY <1>1, <1>3, <1>10, <1>11, <1>12, <1>13 DEF DeliveryInv

\* libtelnet.c:937-1095, telnet_commander.c:18-59, 101-131: whatever texts and subnegotiations
\* the users send, whatever they negotiate meanwhile and however recv(2) cuts the bytes, each
\* end sees the events of what the other sent, once and in order, and at the end all of them;
\* where a subnegotiation does not fit the buffer, those that the code makes of its rest.
\* TERM must have no IAC.
THEOREM EverythingIsDelivered ==
    ASSUME CallsAreSends, PlainTerminal
    PROVE  Spec => []DeliveredInOrder
<1>1. PeersInit => DeliveryInv
  BY DeliveryInit
<1>2. DeliveryInv /\ [Next]_vars => DeliveryInv'
  <2> SUFFICES ASSUME DeliveryInv, [Next]_vars PROVE DeliveryInv'
    OBVIOUS
  <2>1. CASE UNCHANGED vars
    <3>1. PeersTypeOK'
      BY <2>1, TypeStep DEF DeliveryInv
    <3>2. QED BY <2>1, <3>1 DEF vars, DeliveryInv, Flowing
  <2>2. ASSUME NEW p \in Peers, UserSends(p) PROVE DeliveryInv'
    BY <2>2, SendsDelivered
  <2>3. ASSUME NEW p \in Peers, UserAsks(p) PROVE DeliveryInv'
    BY <2>3, AsksDelivered
  <2>4. ASSUME NEW p \in Peers, Receive(p) PROVE DeliveryInv'
    BY <2>4, ReceiveDelivered
  <2>5. QED BY <2>1, <2>2, <2>3, <2>4 DEF Next
<1>3. DeliveryInv => DeliveredInOrder
  <2> SUFFICES ASSUME DeliveryInv, Quiet, NEW p \in Peers
               PROVE  owed[p] = <<>> /\ telnet[p].state = "DATA"
    BY DEF DeliveredInOrder, DeliveryInv
  <2>1. IsTelnet(telnet[p]) /\ Flows(telnet[p], <<>>, event_handler(p), owed[p])
    BY DEF DeliveryInv, PeersTypeOK, Flowing, Quiet
  <2>2. QED BY <2>1, FlowNothing
<1>4. QED BY <1>1, <1>2, <1>3, PTL DEF Spec

-----------------------------------------------------------------------------
(* What the ends tell each other of an option. *)

nobody == [supported |-> {}, on_ttype_send |-> <<>>]

\* The verb for a side of an option, if any, that t takes from the next byte.
Takes(t, byte, side, o) ==
    IF t.state \in Verbs /\ TouchedBy(t.state) = side /\ byte = o THEN <<t.state>> ELSE <<>>

\* The verbs for a side of an option that t will take from bytes.
Told(t, bytes, side, o) ==
    FlattenSeq([i \in DOMAIN bytes |->
        Takes(telnet_recv(t, SubSeq(bytes, 1, i - 1), nobody).telnet, bytes[i], side, o)])

-----------------------------------------------------------------------------
(* One direction of an option: him at one end, us at the other. *)

\* A request that was noted behind another is not on its way.
Asked(state) ==
    CASE state = "WANTNO_OP" -> "WANTNO"
      [] state = "WANTYES_OP" -> "WANTYES"
      [] OTHER -> state

\* What is on its way: one verb, or one and then another.
Only(verb) == <<verb>>
Then(verb, next) == <<verb, next>>

\* How him and us can stand, with the verbs on their way to either.
Standing(him, toHim, us, toUs) ==
    \* Both know.
    \/ him = us /\ us \in {"NO", "YES"} /\ toHim = <<>> /\ toUs = <<>>
    \* One asks, and the other has not heard of it or has answered.
    \/ him = "WANTYES" /\ us = "NO" /\ toHim = <<>> /\ toUs = Only("DO")
    \/ him = "WANTYES" /\ us = "NO" /\ toHim = Only("WONT") /\ toUs = <<>>
    \/ him = "WANTYES" /\ us = "YES" /\ toHim = Only("WILL") /\ toUs = <<>>
    \/ him = "WANTNO" /\ us = "YES" /\ toHim = <<>> /\ toUs = Only("DONT")
    \/ him = "WANTNO" /\ us = "NO" /\ toHim = Only("WONT") /\ toUs = <<>>
    \/ us = "WANTYES" /\ him = "NO" /\ toHim = Only("WILL") /\ toUs = <<>>
    \/ us = "WANTYES" /\ him = "NO" /\ toHim = <<>> /\ toUs = Only("DONT")
    \/ us = "WANTYES" /\ him = "YES" /\ toHim = <<>> /\ toUs = Only("DO")
    \/ us = "WANTNO" /\ him = "YES" /\ toHim = Only("WONT") /\ toUs = <<>>
    \/ us = "WANTNO" /\ him = "NO" /\ toHim = <<>> /\ toUs = Only("DONT")
    \* Both ask for the same, and the requests cross.
    \/ him = "WANTYES" /\ us = "WANTYES" /\ toHim = Only("WILL") /\ toUs = Only("DO")
    \/ him = "WANTNO" /\ us = "WANTNO" /\ toHim = Only("WONT") /\ toUs = Only("DONT")
    \* One has answered, and asks in its turn before the other has read the answer.
    \/ him = "WANTYES" /\ us = "WANTNO" /\ toHim = Then("WILL", "WONT") /\ toUs = <<>>
    \/ him \in {"WANTNO", "WANTYES"} /\ us = "WANTYES"
       /\ toHim = Then("WONT", "WILL") /\ toUs = <<>>
    \/ us = "WANTYES" /\ him = "WANTNO" /\ toUs = Then("DO", "DONT") /\ toHim = <<>>
    \/ us \in {"WANTNO", "WANTYES"} /\ him = "WANTYES"
       /\ toUs = Then("DONT", "DO") /\ toHim = <<>>

\* A state is what its user asked for last, save for YES and NO, which the other end may
\* have asked for.
AsWished(state, supports, wished) ==
    /\ state \in {"WANTYES", "WANTNO_OP"} => wished = "on"
    /\ state \in {"WANTNO", "WANTYES_OP"} => wished = "off"
    /\ state = "YES" => supports \/ wished = "on"

\* A refusal on its way has a reason.
RefusedRightly(him, toHim, us, toUs, supportsHim, supportsUs, wishedHim, wishedUs) ==
    /\ Asked(him) = "WANTYES" /\ us = "NO" /\ toHim = Only("WONT") =>
           ~supportsUs \/ wishedUs = "off"
    /\ Asked(us) = "WANTYES" /\ him = "NO" /\ toUs = Only("DONT") =>
           ~supportsHim \/ wishedHim = "off"
    /\ him = "NO" /\ us = "NO" /\ toHim = <<>> /\ toUs = <<>> =>
           AsAsked(FALSE, supportsHim, supportsUs, wishedHim, wishedUs)

Fits(him, toHim, us, toUs, supportsHim, supportsUs, wishedHim, wishedUs) ==
    /\ him \in QStates /\ us \in QStates
    /\ Standing(Asked(him), toHim, Asked(us), toUs)
    /\ AsWished(him, supportsHim, wishedHim) /\ AsWished(us, supportsUs, wishedUs)
    /\ RefusedRightly(him, toHim, us, toUs, supportsHim, supportsUs, wishedHim, wishedUs)

\* Sequences of verbs.
LEMMA Queues ==
    ASSUME NEW v \in Verbs, NEW w \in Verbs
    PROVE  /\ Only(v) # <<>> /\ Then(v, w) # <<>> /\ Only(v) # Then(v, w) /\ Only(w) # Then(v, w)
           /\ Only(v) = Only(w) => v = w
           /\ <<v>> \in Seq(Verbs) /\ Only(v) \o <<w>> = Then(v, w)
<1> DEFINE c == <<v>>
           n == Len(c)
<1>1. c \in Seq(Verbs) /\ n \in Nat /\ n = 1 /\ c[1] = v /\ <<v, w>> \in Seq(Verbs)
  OBVIOUS
<1>2. /\ Only(v) # <<>> /\ Then(v, w) # <<>> /\ Only(v) # Then(v, w) /\ Only(w) # Then(v, w)
      /\ Only(v) = Only(w) => v = w
  BY DEF Only, Then
<1> HIDE DEF c, n
<1>3. c \o <<w>> = [k \in 1..(n + 1) |-> IF k <= n THEN c[k] ELSE w]
  <2>1. c \in Seq(Verbs) /\ n \in Nat /\ Len(c) = n
    BY <1>1 DEF n
  <2>2. w \in Verbs
    OBVIOUS
  <2> HIDE DEF Verbs
  <2>3. QED BY <2>1, <2>2, AppendedAsFunction
<1>4. [k \in 1..(n + 1) |-> IF k <= n THEN c[k] ELSE w] = <<v, w>>
  BY <1>1
<1>5. QED BY <1>1, <1>2, <1>3, <1>4 DEF c, Only, Then

\* The queue behind its first verb.
LEMMA QueueHead ==
    ASSUME NEW v \in Verbs, NEW q \in Seq(Verbs)
    PROVE  /\ <<v>> \o q # <<>>
           /\ \A x : <<v>> \o q = Only(x) => v = x /\ q = <<>>
           /\ \A x, y : <<v>> \o q = Then(x, y) => v = x /\ q = Only(y)
<1> DEFINE s == <<v>> \o q
<1>1. <<v>> \in Seq(Verbs) /\ Len(<<v>>) = 1
  OBVIOUS
<1>2. /\ s \in Seq(Verbs) /\ Len(s) = 1 + Len(q) /\ s[1] = v /\ Len(q) \in Nat
      /\ \A i \in 1..Len(q) : s[i + 1] = q[i]
  BY <1>1, ConcatProperties
<1> HIDE DEF s
<1>3. s # <<>>
  BY <1>2
<1>4. ASSUME NEW x, s = <<x>> PROVE v = x /\ q = <<>>
  BY <1>2, <1>4
<1>5. ASSUME NEW x, NEW y, s = <<x, y>> PROVE v = x /\ q = <<y>>
  <2>1. Len(s) = 2 /\ s[1] = x /\ s[2] = y
    BY ONLY <1>5
  <2>2. Len(q) = 1
    <3>1. Len(q) \in Nat /\ Len(s) = 1 + Len(q)
      BY ONLY <1>2
    <3>2. Len(s) = 2
      BY ONLY <2>1
    <3>3. \A k \in Nat : 2 = 1 + k => k = 1
      OBVIOUS
    <3>4. QED BY <3>1, <3>2, <3>3
  <2>3. 1 \in 1..Len(q) /\ 1 + 1 = 2
    BY ONLY <2>2
  <2>4. s[1 + 1] = q[1]
    BY ONLY <1>2, <2>3
  <2>5. q[1] = y
    BY ONLY <2>1, <2>3, <2>4
  <2>6. q = <<y>>
    BY ONLY q \in Seq(Verbs), <2>2, <2>5
  <2>7. QED BY <1>2, <2>1, <2>6
<1>6. QED BY <1>3, <1>4, <1>5 DEF s, Only, Then

Sent(verb) == IF verb = "none" THEN <<>> ELSE <<verb>>

LEMMA QueueMore ==
    ASSUME NEW q \in Seq(Verbs), NEW v \in Verbs \cup {"none"}
    PROVE  /\ v = "none" => q \o Sent(v) = q
           /\ q = <<>> /\ v # "none" => q \o Sent(v) = Only(v)
           /\ \A w \in Verbs : q = Only(w) /\ v # "none" => q \o Sent(v) = Then(w, v)
<1>1. CASE v = "none"
  BY <1>1 DEF Sent
<1>2. CASE v # "none"
  <2>1. v \in Verbs /\ Sent(v) = <<v>>
    BY <1>2 DEF Sent
  <2>2. <<v>> \in Seq(Verbs)
    BY <2>1
  <2>3. <<>> \o <<v>> = <<v>>
    BY <2>2
  <2>4. QED BY <1>2, <2>1, <2>3, Queues DEF Only
<1>3. QED BY <1>1, <1>2

LEMMA Literals ==
    /\ Only("WILL") # <<>> /\ Only("WONT") # <<>> /\ Only("DO") # <<>> /\ Only("DONT") # <<>>
    /\ Only("WILL") # Only("WONT") /\ Only("DO") # Only("DONT")
    /\ Then("WILL", "WONT") # Only("WONT") /\ Then("WONT", "WILL") # Only("WONT")
    /\ Then("DO", "DONT") # Only("DONT") /\ Then("DONT", "DO") # Only("DONT")
    /\ Then("WILL", "WONT") # <<>> /\ Then("WONT", "WILL") # <<>>
    /\ Then("DO", "DONT") # <<>> /\ Then("DONT", "DO") # <<>>
  BY Queues DEF Verbs

\* A WILL or WONT is read.  In WANTNO_OP, a WONT loses the DO.
LEMMA HimTold ==
    ASSUME NEW him, NEW v \in {"WILL", "WONT"}, NEW toHim \in Seq(Verbs), NEW us,
           NEW toUs \in Seq(Verbs), NEW sh \in BOOLEAN, NEW su \in BOOLEAN,
           NEW wh \in Wishes, NEW wu \in Wishes,
           Fits(him, <<v>> \o toHim, us, toUs, sh, su, wh, wu),
           ~(v = "WONT" /\ him = "WANTNO_OP")
    PROVE  LET move == OnReceived(v, sh, him)
           IN  Fits(move.next, toHim, us, toUs \o Sent(move.send), sh, su, wh, wu)
<1> DEFINE move == OnReceived(v, sh, him)
           told == <<v>> \o toHim
           more == toUs \o Sent(move.send)
<1>1. /\ told # <<>>
      /\ \A x : told = Only(x) => v = x /\ toHim = <<>>
      /\ \A x, y : told = Then(x, y) => v = x /\ toHim = Only(y)
  <2>1. v \in Verbs
    BY DEF Verbs
  <2>2. QED BY ONLY <2>1, toHim \in Seq(Verbs), QueueHead
<1>2. him \in QStates /\ us \in QStates
  BY DEF Fits
<1>3. v \in Verbs
  BY DEF Verbs
<1>4. move.send \in Verbs \cup {"none"}
  BY <1>2, <1>3, ReceivedType DEF MoveT
<1>5. /\ move.send = "none" => more = toUs
      /\ toUs = <<>> /\ move.send # "none" => more = Only(move.send)
      /\ \A w \in Verbs : toUs = Only(w) /\ move.send # "none" => more = Then(w, move.send)
  BY <1>4, QueueMore
<1>6. Fits(him, told, us, toUs, sh, su, wh, wu)
  OBVIOUS
<1> HIDE DEF told, more
<1>7. CASE him = "NO" /\ v = "WILL" /\ sh
  <2>1. move.next = "YES" /\ move.send = "DO"
    BY <1>7 DEF OnReceived, on_will, on_wont, Move
  <2> HIDE DEF move
  <2>2. QED BY <1>1, <1>2, <1>5, <1>6, <1>7, <2>1, Literals
           DEF Fits, Standing, Asked, AsWished, RefusedRightly, AsAsked, QStates, Wishes,
               Verbs, move, more
<1>8. CASE him = "NO" /\ v = "WILL" /\ ~sh
  <2>1. move.next = "NO" /\ move.send = "DONT"
    BY <1>8 DEF OnReceived, on_will, on_wont, Move
  <2> HIDE DEF move
  <2>2. QED BY <1>1, <1>2, <1>5, <1>6, <1>8, <2>1, Literals
           DEF Fits, Standing, Asked, AsWished, RefusedRightly, AsAsked, QStates, Wishes,
               Verbs, move, more
<1>9. CASE him = "NO" /\ v = "WONT"
  <2>1. move.next = "NO" /\ move.send = "none"
    BY <1>9 DEF OnReceived, on_will, on_wont, Move
  <2> HIDE DEF move
  <2>2. QED BY <1>1, <1>2, <1>5, <1>6, <1>9, <2>1, Literals
           DEF Fits, Standing, Asked, AsWished, RefusedRightly, AsAsked, QStates, Wishes,
               Verbs, move, more
<1>10. CASE him = "YES" /\ v = "WILL"
  <2>1. move.next = "YES" /\ move.send = "none"
    BY <1>10 DEF OnReceived, on_will, on_wont, Move
  <2> HIDE DEF move
  <2>2. QED BY <1>1, <1>2, <1>5, <1>6, <1>10, <2>1, Literals
           DEF Fits, Standing, Asked, AsWished, RefusedRightly, AsAsked, QStates, Wishes,
               Verbs, move, more
<1>11. CASE him = "YES" /\ v = "WONT"
  <2>1. move.next = "NO" /\ move.send = "DONT"
    BY <1>11 DEF OnReceived, on_will, on_wont, Move
  <2> HIDE DEF move
  <2>2. QED BY <1>1, <1>2, <1>5, <1>6, <1>11, <2>1, Literals
           DEF Fits, Standing, Asked, AsWished, RefusedRightly, AsAsked, QStates, Wishes,
               Verbs, move, more
<1>12. CASE him = "WANTNO" /\ v = "WILL"
  <2>1. move.next = "NO" /\ move.send = "none"
    BY <1>12 DEF OnReceived, on_will, on_wont, Move
  <2> HIDE DEF move
  <2>2. QED BY <1>1, <1>2, <1>5, <1>6, <1>12, <2>1, Literals
           DEF Fits, Standing, Asked, AsWished, RefusedRightly, AsAsked, QStates, Wishes,
               Verbs, move, more
<1>13. CASE him = "WANTNO" /\ v = "WONT"
  <2>1. move.next = "NO" /\ move.send = "none"
    BY <1>13 DEF OnReceived, on_will, on_wont, Move
  <2> HIDE DEF move
  <2>2. QED BY <1>1, <1>2, <1>5, <1>6, <1>13, <2>1, Literals
           DEF Fits, Standing, Asked, AsWished, RefusedRightly, AsAsked, QStates, Wishes,
               Verbs, move, more
<1>14. CASE him = "WANTNO_OP" /\ v = "WILL"
  <2>1. move.next = "YES" /\ move.send = "none"
    BY <1>14 DEF OnReceived, on_will, on_wont, Move
  <2> HIDE DEF move
  <2>2. QED BY <1>1, <1>2, <1>5, <1>6, <1>14, <2>1, Literals
           DEF Fits, Standing, Asked, AsWished, RefusedRightly, AsAsked, QStates, Wishes,
               Verbs, move, more
<1>15. CASE him = "WANTYES" /\ v = "WILL"
  <2>1. move.next = "YES" /\ move.send = "none"
    BY <1>15 DEF OnReceived, on_will, on_wont, Move
  <2> HIDE DEF move
  <2>2. QED BY <1>1, <1>2, <1>5, <1>6, <1>15, <2>1, Literals
           DEF Fits, Standing, Asked, AsWished, RefusedRightly, AsAsked, QStates, Wishes,
               Verbs, move, more
<1>16. CASE him = "WANTYES" /\ v = "WONT"
  <2>1. move.next = "NO" /\ move.send = "none"
    BY <1>16 DEF OnReceived, on_will, on_wont, Move
  <2> HIDE DEF move
  <2>2. QED BY <1>1, <1>2, <1>5, <1>6, <1>16, <2>1, Literals
           DEF Fits, Standing, Asked, AsWished, RefusedRightly, AsAsked, QStates, Wishes,
               Verbs, move, more
<1>17. CASE him = "WANTYES_OP" /\ v = "WILL"
  <2>1. move.next = "WANTNO" /\ move.send = "DONT"
    BY <1>17 DEF OnReceived, on_will, on_wont, Move
  <2> HIDE DEF move
  <2>2. QED BY <1>1, <1>2, <1>5, <1>6, <1>17, <2>1, Literals
           DEF Fits, Standing, Asked, AsWished, RefusedRightly, AsAsked, QStates, Wishes,
               Verbs, move, more
<1>18. CASE him = "WANTYES_OP" /\ v = "WONT"
  <2>1. move.next = "NO" /\ move.send = "none"
    BY <1>18 DEF OnReceived, on_will, on_wont, Move
  <2> HIDE DEF move
  <2>2. QED BY <1>1, <1>2, <1>5, <1>6, <1>18, <2>1, Literals
           DEF Fits, Standing, Asked, AsWished, RefusedRightly, AsAsked, QStates, Wishes,
               Verbs, move, more
<1>19. QED BY <1>2, <1>7, <1>8, <1>9, <1>10, <1>11, <1>12, <1>13, <1>14, <1>15, <1>16, <1>17, <1>18 DEF QStates

\* A DO or DONT is read.
LEMMA UsTold ==
    ASSUME NEW him, NEW v \in {"DO", "DONT"}, NEW toHim \in Seq(Verbs), NEW us,
           NEW toUs \in Seq(Verbs), NEW sh \in BOOLEAN, NEW su \in BOOLEAN,
           NEW wh \in Wishes, NEW wu \in Wishes,
           Fits(him, toHim, us, <<v>> \o toUs, sh, su, wh, wu)
    PROVE  LET move == OnReceived(v, su, us)
           IN  Fits(him, toHim \o Sent(move.send), move.next, toUs, sh, su, wh, wu)
<1> DEFINE move == OnReceived(v, su, us)
           told == <<v>> \o toUs
           more == toHim \o Sent(move.send)
<1>1. /\ told # <<>>
      /\ \A x : told = Only(x) => v = x /\ toUs = <<>>
      /\ \A x, y : told = Then(x, y) => v = x /\ toUs = Only(y)
  <2>1. v \in Verbs
    BY DEF Verbs
  <2>2. QED BY ONLY <2>1, toUs \in Seq(Verbs), QueueHead
<1>2. him \in QStates /\ us \in QStates
  BY DEF Fits
<1>3. v \in Verbs
  BY DEF Verbs
<1>4. move.send \in Verbs \cup {"none"}
  BY <1>2, <1>3, ReceivedType DEF MoveT
<1>5. /\ move.send = "none" => more = toHim
      /\ toHim = <<>> /\ move.send # "none" => more = Only(move.send)
      /\ \A w \in Verbs : toHim = Only(w) /\ move.send # "none" => more = Then(w, move.send)
  BY <1>4, QueueMore
<1>6. Fits(him, toHim, us, told, sh, su, wh, wu)
  OBVIOUS
<1> HIDE DEF told, more
<1>7. CASE us = "NO" /\ v = "DO" /\ su
  <2>1. move.next = "YES" /\ move.send = "WILL"
    BY <1>7 DEF OnReceived, on_do, on_dont, Move
  <2> HIDE DEF move
  <2>2. QED BY <1>1, <1>2, <1>5, <1>6, <1>7, <2>1, Literals
           DEF Fits, Standing, Asked, AsWished, RefusedRightly, AsAsked, QStates, Wishes,
               Verbs, move, more
<1>8. CASE us = "NO" /\ v = "DO" /\ ~su
  <2>1. move.next = "NO" /\ move.send = "WONT"
    BY <1>8 DEF OnReceived, on_do, on_dont, Move
  <2> HIDE DEF move
  <2>2. QED BY <1>1, <1>2, <1>5, <1>6, <1>8, <2>1, Literals
           DEF Fits, Standing, Asked, AsWished, RefusedRightly, AsAsked, QStates, Wishes,
               Verbs, move, more
<1>9. CASE us = "NO" /\ v = "DONT"
  <2>1. move.next = "NO" /\ move.send = "none"
    BY <1>9 DEF OnReceived, on_do, on_dont, Move
  <2> HIDE DEF move
  <2>2. QED BY <1>1, <1>2, <1>5, <1>6, <1>9, <2>1, Literals
           DEF Fits, Standing, Asked, AsWished, RefusedRightly, AsAsked, QStates, Wishes,
               Verbs, move, more
<1>10. CASE us = "YES" /\ v = "DO"
  <2>1. move.next = "YES" /\ move.send = "none"
    BY <1>10 DEF OnReceived, on_do, on_dont, Move
  <2> HIDE DEF move
  <2>2. QED BY <1>1, <1>2, <1>5, <1>6, <1>10, <2>1, Literals
           DEF Fits, Standing, Asked, AsWished, RefusedRightly, AsAsked, QStates, Wishes,
               Verbs, move, more
<1>11. CASE us = "YES" /\ v = "DONT"
  <2>1. move.next = "NO" /\ move.send = "WONT"
    BY <1>11 DEF OnReceived, on_do, on_dont, Move
  <2> HIDE DEF move
  <2>2. QED BY <1>1, <1>2, <1>5, <1>6, <1>11, <2>1, Literals
           DEF Fits, Standing, Asked, AsWished, RefusedRightly, AsAsked, QStates, Wishes,
               Verbs, move, more
<1>12. CASE us = "WANTNO" /\ v = "DO"
  <2>1. move.next = "NO" /\ move.send = "none"
    BY <1>12 DEF OnReceived, on_do, on_dont, Move
  <2> HIDE DEF move
  <2>2. QED BY <1>1, <1>2, <1>5, <1>6, <1>12, <2>1, Literals
           DEF Fits, Standing, Asked, AsWished, RefusedRightly, AsAsked, QStates, Wishes,
               Verbs, move, more
<1>13. CASE us = "WANTNO" /\ v = "DONT"
  <2>1. move.next = "NO" /\ move.send = "none"
    BY <1>13 DEF OnReceived, on_do, on_dont, Move
  <2> HIDE DEF move
  <2>2. QED BY <1>1, <1>2, <1>5, <1>6, <1>13, <2>1, Literals
           DEF Fits, Standing, Asked, AsWished, RefusedRightly, AsAsked, QStates, Wishes,
               Verbs, move, more
<1>14. CASE us = "WANTNO_OP" /\ v = "DO"
  <2>1. move.next = "YES" /\ move.send = "none"
    BY <1>14 DEF OnReceived, on_do, on_dont, Move
  <2> HIDE DEF move
  <2>2. QED BY <1>1, <1>2, <1>5, <1>6, <1>14, <2>1, Literals
           DEF Fits, Standing, Asked, AsWished, RefusedRightly, AsAsked, QStates, Wishes,
               Verbs, move, more
<1>15. CASE us = "WANTNO_OP" /\ v = "DONT"
  <2>1. move.next = "WANTYES" /\ move.send = "WILL"
    BY <1>15 DEF OnReceived, on_do, on_dont, Move
  <2> HIDE DEF move
  <2>2. QED BY <1>1, <1>2, <1>5, <1>6, <1>15, <2>1, Literals
           DEF Fits, Standing, Asked, AsWished, RefusedRightly, AsAsked, QStates, Wishes,
               Verbs, move, more
<1>16. CASE us = "WANTYES" /\ v = "DO"
  <2>1. move.next = "YES" /\ move.send = "none"
    BY <1>16 DEF OnReceived, on_do, on_dont, Move
  <2> HIDE DEF move
  <2>2. QED BY <1>1, <1>2, <1>5, <1>6, <1>16, <2>1, Literals
           DEF Fits, Standing, Asked, AsWished, RefusedRightly, AsAsked, QStates, Wishes,
               Verbs, move, more
<1>17. CASE us = "WANTYES" /\ v = "DONT"
  <2>1. move.next = "NO" /\ move.send = "none"
    BY <1>17 DEF OnReceived, on_do, on_dont, Move
  <2> HIDE DEF move
  <2>2. QED BY <1>1, <1>2, <1>5, <1>6, <1>17, <2>1, Literals
           DEF Fits, Standing, Asked, AsWished, RefusedRightly, AsAsked, QStates, Wishes,
               Verbs, move, more
<1>18. CASE us = "WANTYES_OP" /\ v = "DO"
  <2>1. move.next = "WANTNO" /\ move.send = "WONT"
    BY <1>18 DEF OnReceived, on_do, on_dont, Move
  <2> HIDE DEF move
  <2>2. QED BY <1>1, <1>2, <1>5, <1>6, <1>18, <2>1, Literals
           DEF Fits, Standing, Asked, AsWished, RefusedRightly, AsAsked, QStates, Wishes,
               Verbs, move, more
<1>19. CASE us = "WANTYES_OP" /\ v = "DONT"
  <2>1. move.next = "NO" /\ move.send = "none"
    BY <1>19 DEF OnReceived, on_do, on_dont, Move
  <2> HIDE DEF move
  <2>2. QED BY <1>1, <1>2, <1>5, <1>6, <1>19, <2>1, Literals
           DEF Fits, Standing, Asked, AsWished, RefusedRightly, AsAsked, QStates, Wishes,
               Verbs, move, more
<1>20. QED BY <1>2, <1>7, <1>8, <1>9, <1>10, <1>11, <1>12, <1>13, <1>14, <1>15, <1>16, <1>17, <1>18, <1>19 DEF QStates

\* A user asks for the other end's side, or refuses it.
LEMMA HimAsks ==
    ASSUME NEW him, NEW v \in {"DO", "DONT"}, NEW toHim \in Seq(Verbs), NEW us,
           NEW toUs \in Seq(Verbs), NEW sh \in BOOLEAN, NEW su \in BOOLEAN,
           NEW wh \in Wishes, NEW wu \in Wishes,
           Fits(him, toHim, us, toUs, sh, su, wh, wu)
    PROVE  LET move == OnAsked(v, him)
               wished == IF v = "DO" THEN "on" ELSE "off"
           IN  Fits(move.next, toHim, us, toUs \o Sent(move.send), sh, su, wished, wu)
<1> DEFINE move == OnAsked(v, him)
           more == toUs \o Sent(move.send)
<1>1. v \in Verbs
  BY DEF Verbs
<1>2. him \in QStates /\ us \in QStates
  BY DEF Fits
<1>3. move.send \in Verbs \cup {"none"}
  BY <1>1, <1>2, AskedType DEF MoveT
<1>4. /\ move.send = "none" => more = toUs
      /\ toUs = <<>> /\ move.send # "none" => more = Only(move.send)
      /\ \A w \in Verbs : toUs = Only(w) /\ move.send # "none" => more = Then(w, move.send)
  BY <1>3, QueueMore
<1>5. Fits(him, toHim, us, toUs, sh, su, wh, wu)
  OBVIOUS
<1> HIDE DEF more
<1>6. CASE him = "NO" /\ v = "DO"
  <2>1. move.next = "WANTYES" /\ move.send = "DO"
    BY <1>6 DEF OnAsked, ask_enable, ask_disable, Move
  <2> HIDE DEF move
  <2>2. QED BY <1>2, <1>4, <1>5, <1>6, <2>1, Literals
           DEF Fits, Standing, Asked, AsWished, RefusedRightly, AsAsked, QStates, Wishes,
               Verbs, move, more
<1>7. CASE him = "YES" /\ v = "DO"
  <2>1. move.next = "YES" /\ move.send = "none"
    BY <1>7 DEF OnAsked, ask_enable, ask_disable, Move
  <2> HIDE DEF move
  <2>2. QED BY <1>2, <1>4, <1>5, <1>7, <2>1, Literals
           DEF Fits, Standing, Asked, AsWished, RefusedRightly, AsAsked, QStates, Wishes,
               Verbs, move, more
<1>8. CASE him = "WANTNO" /\ v = "DO"
  <2>1. move.next = "WANTNO_OP" /\ move.send = "none"
    BY <1>8 DEF OnAsked, ask_enable, ask_disable, Move
  <2> HIDE DEF move
  <2>2. QED BY <1>2, <1>4, <1>5, <1>8, <2>1, Literals
           DEF Fits, Standing, Asked, AsWished, RefusedRightly, AsAsked, QStates, Wishes,
               Verbs, move, more
<1>9. CASE him = "WANTNO_OP" /\ v = "DO"
  <2>1. move.next = "WANTNO_OP" /\ move.send = "none"
    BY <1>9 DEF OnAsked, ask_enable, ask_disable, Move
  <2> HIDE DEF move
  <2>2. QED BY <1>2, <1>4, <1>5, <1>9, <2>1, Literals
           DEF Fits, Standing, Asked, AsWished, RefusedRightly, AsAsked, QStates, Wishes,
               Verbs, move, more
<1>10. CASE him = "WANTYES" /\ v = "DO"
  <2>1. move.next = "WANTYES" /\ move.send = "none"
    BY <1>10 DEF OnAsked, ask_enable, ask_disable, Move
  <2> HIDE DEF move
  <2>2. QED BY <1>2, <1>4, <1>5, <1>10, <2>1, Literals
           DEF Fits, Standing, Asked, AsWished, RefusedRightly, AsAsked, QStates, Wishes,
               Verbs, move, more
<1>11. CASE him = "WANTYES_OP" /\ v = "DO"
  <2>1. move.next = "WANTYES" /\ move.send = "none"
    BY <1>11 DEF OnAsked, ask_enable, ask_disable, Move
  <2> HIDE DEF move
  <2>2. QED BY <1>2, <1>4, <1>5, <1>11, <2>1, Literals
           DEF Fits, Standing, Asked, AsWished, RefusedRightly, AsAsked, QStates, Wishes,
               Verbs, move, more
<1>12. CASE him = "NO" /\ v = "DONT"
  <2>1. move.next = "NO" /\ move.send = "none"
    BY <1>12 DEF OnAsked, ask_enable, ask_disable, Move
  <2> HIDE DEF move
  <2>2. QED BY <1>2, <1>4, <1>5, <1>12, <2>1, Literals
           DEF Fits, Standing, Asked, AsWished, RefusedRightly, AsAsked, QStates, Wishes,
               Verbs, move, more
<1>13. CASE him = "YES" /\ v = "DONT"
  <2>1. move.next = "WANTNO" /\ move.send = "DONT"
    BY <1>13 DEF OnAsked, ask_enable, ask_disable, Move
  <2> HIDE DEF move
  <2>2. QED BY <1>2, <1>4, <1>5, <1>13, <2>1, Literals
           DEF Fits, Standing, Asked, AsWished, RefusedRightly, AsAsked, QStates, Wishes,
               Verbs, move, more
<1>14. CASE him = "WANTNO" /\ v = "DONT"
  <2>1. move.next = "WANTNO" /\ move.send = "none"
    BY <1>14 DEF OnAsked, ask_enable, ask_disable, Move
  <2> HIDE DEF move
  <2>2. QED BY <1>2, <1>4, <1>5, <1>14, <2>1, Literals
           DEF Fits, Standing, Asked, AsWished, RefusedRightly, AsAsked, QStates, Wishes,
               Verbs, move, more
<1>15. CASE him = "WANTNO_OP" /\ v = "DONT"
  <2>1. move.next = "WANTNO" /\ move.send = "none"
    BY <1>15 DEF OnAsked, ask_enable, ask_disable, Move
  <2> HIDE DEF move
  <2>2. QED BY <1>2, <1>4, <1>5, <1>15, <2>1, Literals
           DEF Fits, Standing, Asked, AsWished, RefusedRightly, AsAsked, QStates, Wishes,
               Verbs, move, more
<1>16. CASE him = "WANTYES" /\ v = "DONT"
  <2>1. move.next = "WANTYES_OP" /\ move.send = "none"
    BY <1>16 DEF OnAsked, ask_enable, ask_disable, Move
  <2> HIDE DEF move
  <2>2. QED BY <1>2, <1>4, <1>5, <1>16, <2>1, Literals
           DEF Fits, Standing, Asked, AsWished, RefusedRightly, AsAsked, QStates, Wishes,
               Verbs, move, more
<1>17. CASE him = "WANTYES_OP" /\ v = "DONT"
  <2>1. move.next = "WANTYES_OP" /\ move.send = "none"
    BY <1>17 DEF OnAsked, ask_enable, ask_disable, Move
  <2> HIDE DEF move
  <2>2. QED BY <1>2, <1>4, <1>5, <1>17, <2>1, Literals
           DEF Fits, Standing, Asked, AsWished, RefusedRightly, AsAsked, QStates, Wishes,
               Verbs, move, more
<1>18. QED BY <1>2, <1>6, <1>7, <1>8, <1>9, <1>10, <1>11, <1>12, <1>13, <1>14, <1>15, <1>16, <1>17 DEF QStates

\* A user asks for its own side, or refuses it.
LEMMA UsAsks ==
    ASSUME NEW him, NEW v \in {"WILL", "WONT"}, NEW toHim \in Seq(Verbs), NEW us,
           NEW toUs \in Seq(Verbs), NEW sh \in BOOLEAN, NEW su \in BOOLEAN,
           NEW wh \in Wishes, NEW wu \in Wishes,
           Fits(him, toHim, us, toUs, sh, su, wh, wu)
    PROVE  LET move == OnAsked(v, us)
               wished == IF v = "WILL" THEN "on" ELSE "off"
           IN  Fits(him, toHim \o Sent(move.send), move.next, toUs, sh, su, wh, wished)
<1> DEFINE move == OnAsked(v, us)
           more == toHim \o Sent(move.send)
<1>1. v \in Verbs
  BY DEF Verbs
<1>2. him \in QStates /\ us \in QStates
  BY DEF Fits
<1>3. move.send \in Verbs \cup {"none"}
  BY <1>1, <1>2, AskedType DEF MoveT
<1>4. /\ move.send = "none" => more = toHim
      /\ toHim = <<>> /\ move.send # "none" => more = Only(move.send)
      /\ \A w \in Verbs : toHim = Only(w) /\ move.send # "none" => more = Then(w, move.send)
  BY <1>3, QueueMore
<1>5. Fits(him, toHim, us, toUs, sh, su, wh, wu)
  OBVIOUS
<1> HIDE DEF more
<1>6. CASE us = "NO" /\ v = "WILL"
  <2>1. move.next = "WANTYES" /\ move.send = "WILL"
    BY <1>6 DEF OnAsked, ask_enable, ask_disable, Move
  <2> HIDE DEF move
  <2>2. QED BY <1>2, <1>4, <1>5, <1>6, <2>1, Literals
           DEF Fits, Standing, Asked, AsWished, RefusedRightly, AsAsked, QStates, Wishes,
               Verbs, move, more
<1>7. CASE us = "YES" /\ v = "WILL"
  <2>1. move.next = "YES" /\ move.send = "none"
    BY <1>7 DEF OnAsked, ask_enable, ask_disable, Move
  <2> HIDE DEF move
  <2>2. QED BY <1>2, <1>4, <1>5, <1>7, <2>1, Literals
           DEF Fits, Standing, Asked, AsWished, RefusedRightly, AsAsked, QStates, Wishes,
               Verbs, move, more
<1>8. CASE us = "WANTNO" /\ v = "WILL"
  <2>1. move.next = "WANTNO_OP" /\ move.send = "none"
    BY <1>8 DEF OnAsked, ask_enable, ask_disable, Move
  <2> HIDE DEF move
  <2>2. QED BY <1>2, <1>4, <1>5, <1>8, <2>1, Literals
           DEF Fits, Standing, Asked, AsWished, RefusedRightly, AsAsked, QStates, Wishes,
               Verbs, move, more
<1>9. CASE us = "WANTNO_OP" /\ v = "WILL"
  <2>1. move.next = "WANTNO_OP" /\ move.send = "none"
    BY <1>9 DEF OnAsked, ask_enable, ask_disable, Move
  <2> HIDE DEF move
  <2>2. QED BY <1>2, <1>4, <1>5, <1>9, <2>1, Literals
           DEF Fits, Standing, Asked, AsWished, RefusedRightly, AsAsked, QStates, Wishes,
               Verbs, move, more
<1>10. CASE us = "WANTYES" /\ v = "WILL"
  <2>1. move.next = "WANTYES" /\ move.send = "none"
    BY <1>10 DEF OnAsked, ask_enable, ask_disable, Move
  <2> HIDE DEF move
  <2>2. QED BY <1>2, <1>4, <1>5, <1>10, <2>1, Literals
           DEF Fits, Standing, Asked, AsWished, RefusedRightly, AsAsked, QStates, Wishes,
               Verbs, move, more
<1>11. CASE us = "WANTYES_OP" /\ v = "WILL"
  <2>1. move.next = "WANTYES" /\ move.send = "none"
    BY <1>11 DEF OnAsked, ask_enable, ask_disable, Move
  <2> HIDE DEF move
  <2>2. QED BY <1>2, <1>4, <1>5, <1>11, <2>1, Literals
           DEF Fits, Standing, Asked, AsWished, RefusedRightly, AsAsked, QStates, Wishes,
               Verbs, move, more
<1>12. CASE us = "NO" /\ v = "WONT"
  <2>1. move.next = "NO" /\ move.send = "none"
    BY <1>12 DEF OnAsked, ask_enable, ask_disable, Move
  <2> HIDE DEF move
  <2>2. QED BY <1>2, <1>4, <1>5, <1>12, <2>1, Literals
           DEF Fits, Standing, Asked, AsWished, RefusedRightly, AsAsked, QStates, Wishes,
               Verbs, move, more
<1>13. CASE us = "YES" /\ v = "WONT"
  <2>1. move.next = "WANTNO" /\ move.send = "WONT"
    BY <1>13 DEF OnAsked, ask_enable, ask_disable, Move
  <2> HIDE DEF move
  <2>2. QED BY <1>2, <1>4, <1>5, <1>13, <2>1, Literals
           DEF Fits, Standing, Asked, AsWished, RefusedRightly, AsAsked, QStates, Wishes,
               Verbs, move, more
<1>14. CASE us = "WANTNO" /\ v = "WONT"
  <2>1. move.next = "WANTNO" /\ move.send = "none"
    BY <1>14 DEF OnAsked, ask_enable, ask_disable, Move
  <2> HIDE DEF move
  <2>2. QED BY <1>2, <1>4, <1>5, <1>14, <2>1, Literals
           DEF Fits, Standing, Asked, AsWished, RefusedRightly, AsAsked, QStates, Wishes,
               Verbs, move, more
<1>15. CASE us = "WANTNO_OP" /\ v = "WONT"
  <2>1. move.next = "WANTNO" /\ move.send = "none"
    BY <1>15 DEF OnAsked, ask_enable, ask_disable, Move
  <2> HIDE DEF move
  <2>2. QED BY <1>2, <1>4, <1>5, <1>15, <2>1, Literals
           DEF Fits, Standing, Asked, AsWished, RefusedRightly, AsAsked, QStates, Wishes,
               Verbs, move, more
<1>16. CASE us = "WANTYES" /\ v = "WONT"
  <2>1. move.next = "WANTYES_OP" /\ move.send = "none"
    BY <1>16 DEF OnAsked, ask_enable, ask_disable, Move
  <2> HIDE DEF move
  <2>2. QED BY <1>2, <1>4, <1>5, <1>16, <2>1, Literals
           DEF Fits, Standing, Asked, AsWished, RefusedRightly, AsAsked, QStates, Wishes,
               Verbs, move, more
<1>17. CASE us = "WANTYES_OP" /\ v = "WONT"
  <2>1. move.next = "WANTYES_OP" /\ move.send = "none"
    BY <1>17 DEF OnAsked, ask_enable, ask_disable, Move
  <2> HIDE DEF move
  <2>2. QED BY <1>2, <1>4, <1>5, <1>17, <2>1, Literals
           DEF Fits, Standing, Asked, AsWished, RefusedRightly, AsAsked, QStates, Wishes,
               Verbs, move, more
<1>18. QED BY <1>2, <1>6, <1>7, <1>8, <1>9, <1>10, <1>11, <1>12, <1>13, <1>14, <1>15, <1>16, <1>17 DEF QStates

\* When nothing is on its way the ends agree, on what was asked.
LEMMA FitsAtRest ==
    ASSUME NEW him, NEW us, NEW sh \in BOOLEAN, NEW su \in BOOLEAN,
           NEW wh \in Wishes, NEW wu \in Wishes,
           Fits(him, <<>>, us, <<>>, sh, su, wh, wu)
    PROVE  /\ him = us /\ him \in {"YES", "NO"}
           /\ AsAsked(him = "YES", sh, su, wh, wu)
<1>1. Asked(him) = Asked(us) /\ Asked(us) \in {"NO", "YES"}
  BY Literals DEF Fits, Standing
<1>2. him = us /\ him \in {"YES", "NO"}
  BY <1>1 DEF Fits, QStates, Asked
<1>3. CASE him = "NO"
  BY <1>2, <1>3 DEF Fits, RefusedRightly
<1>4. CASE him = "YES"
  BY <1>2, <1>4 DEF Fits, AsWished, AsAsked
<1>5. QED BY <1>2, <1>3, <1>4

LEMMA FitsAtFirst ==
    ASSUME NEW sh \in BOOLEAN, NEW su \in BOOLEAN
    PROVE  Fits("NO", <<>>, "NO", <<>>, sh, su, "nothing", "nothing")
  BY DEF Fits, Standing, Asked, AsWished, RefusedRightly, AsAsked, QStates

-----------------------------------------------------------------------------
(* Reading a stream in two, what each part tells is told in turn. *)

\* Where t is after bytes.  The options and the user do not matter to what it is told.
Reading(t, bytes) == telnet_recv(t, bytes, nobody).telnet

LEMMA NobodyType == IsHandler(nobody)
<1>1. <<>> \in Seq(Bytes)
  OBVIOUS
<1>2. QED BY <1>1 DEF IsHandler, nobody

LEMMA ReadingType ==
    ASSUME NEW t, IsTelnet(t), NEW a \in Seq(Bytes)
    PROVE  IsTelnet(Reading(t, a))
  BY NobodyType, RecvType DEF Reading

LEMMA ReadingTwo ==
    ASSUME NEW t, IsTelnet(t), NEW a \in Seq(Bytes), NEW b \in Seq(Bytes)
    PROVE  Reading(t, a \o b) = Reading(Reading(t, a), b)
<1>1. ReadInTurn(t, nobody, a, b)
  BY NobodyType, RecvInTurn
<1>2. QED BY ONLY <1>1 DEF ReadInTurn, Reading

LEMMA ReadingAlike ==
    ASSUME NEW t, IsTelnet(t), NEW u, IsTelnet(u), t.state = u.state,
           t.sb_telopt = u.sb_telopt, t.buffer = u.buffer, NEW user, IsHandler(user),
           NEW a \in Seq(Bytes)
    PROVE  LET r == telnet_recv(t, a, user).telnet
               s == Reading(u, a)
           IN  r.state = s.state /\ r.sb_telopt = s.sb_telopt /\ r.buffer = s.buffer
  BY NobodyType, RecvAlike DEF Reading

LEMMA TakesType ==
    \A t, byte, side, o : Takes(t, byte, side, o) \in Seq(Verbs)
<1> TAKE t, byte, side, o
<1>1. <<>> \in Seq(Verbs)
  OBVIOUS
<1>2. CASE t.state \in Verbs
  <2>1. <<t.state>> \in Seq(Verbs)
    BY <1>2
  <2>2. QED BY <1>1, <2>1, Zenon DEF Takes
<1>3. CASE t.state \notin Verbs
  BY <1>1, <1>3 DEF Takes
<1>4. QED BY <1>2, <1>3

LEMMA ToldNothing ==
    \A t, side, o : Told(t, <<>>, side, o) = <<>>
<1> TAKE t, side, o
<1> DEFINE F(i) == Takes(telnet_recv(t, SubSeq(<<>>, 1, i - 1), nobody).telnet,
                         <<>>[i], side, o)
<1>1. [i \in DOMAIN <<>> |-> F(i)] = <<>>
  <2> HIDE DEF F
  <2>1. QED OBVIOUS
<1>2. QED BY <1>1, FlattenNothing DEF Told

LEMMA PrefixAlike ==
    ASSUME NEW a \in Seq(Bytes), NEW b \in Bytes, NEW k \in 0..Len(a)
    PROVE  SubSeq(Append(a, b), 1, k) = SubSeq(a, 1, k)
<1> DEFINE c == Append(a, b)
           n == Len(a)
<1>1. c \in Seq(Bytes) /\ n \in Nat /\ k \in 0..n /\ \A i \in 1..n : c[i] = a[i]
  OBVIOUS
<1> HIDE DEF n, c, Bytes
<1>2. k \in Nat /\ \A i \in 1..k : i \in 1..n
  BY <1>1
<1>3. SubSeq(c, 1, k) = [i \in 1..k |-> c[i]]
  BY <1>1, <1>2
<1>4. SubSeq(a, 1, k) = [i \in 1..k |-> a[i]]
  BY <1>2
<1>5. SubSeq(c, 1, k) = SubSeq(a, 1, k)
  BY <1>1, <1>2, <1>3, <1>4
<1>6. QED BY <1>5 DEF c

\* A byte more.
LEMMA ToldMore ==
    ASSUME NEW t, NEW a \in Seq(Bytes), NEW b \in Bytes, NEW side, NEW o
    PROVE  Told(t, Append(a, b), side, o) =
               Told(t, a, side, o) \o Takes(Reading(t, a), b, side, o)
<1> DEFINE n == Len(a)
           c == Append(a, b)
           At(s, i) == Takes(Reading(t, SubSeq(s, 1, i - 1)), s[i], side, o)
           m == [i \in DOMAIN a |-> At(a, i)]
           r == [i \in DOMAIN c |-> At(c, i)]
           x == Takes(Reading(t, a), b, side, o)
           l == Append(m, x)
           R == Seq(Verbs)
<1>1. n \in Nat /\ DOMAIN a = 1..n /\ DOMAIN c = 1..(n + 1) /\ c[n + 1] = b
      /\ \A i \in 1..n : c[i] = a[i]
  OBVIOUS
<1>2. c \in Seq(Bytes) /\ a \in Seq(Bytes)
  OBVIOUS
<1>3. \A i \in 1..(n + 1) : SubSeq(c, 1, i - 1) = SubSeq(a, 1, i - 1)
  <2>1. \A i \in 1..(n + 1) : i - 1 \in 0..n
    BY <1>1
  <2>2. QED BY <2>1, PrefixAlike
<1>4. SubSeq(a, 1, (n + 1) - 1) = a
  OBVIOUS
<1> HIDE DEF n, c, At, x, R
<1>5. ASSUME NEW i \in 1..n PROVE At(c, i) = At(a, i)
  <2>1. i \in 1..(n + 1)
    BY ONLY <1>1
  <2>2. SubSeq(c, 1, i - 1) = SubSeq(a, 1, i - 1) /\ c[i] = a[i]
    BY ONLY <1>1, <1>3, <2>1
  <2>3. QED BY ONLY <2>2 DEF At
<1>6. At(c, n + 1) = x
  <2>1. n + 1 \in 1..(n + 1)
    BY ONLY <1>1
  <2>2. SubSeq(c, 1, (n + 1) - 1) = a /\ c[n + 1] = b
    BY ONLY <1>1, <1>3, <1>4, <2>1
  <2>3. QED BY ONLY <2>2 DEF At, x
<1>7. x \in R /\ \A s, i : At(s, i) \in R
  BY TakesType DEF At, x, R
<1>8. m \in Seq(R) /\ Len(m) = n /\ \A i \in 1..n : m[i] = At(a, i)
  BY <1>1, <1>7
<1> HIDE DEF m
<1>9. l \in Seq(R) /\ Len(l) = n + 1 /\ l[n + 1] = x /\ \A i \in 1..n : l[i] = m[i]
  BY <1>1, <1>7, <1>8
<1>10. DOMAIN r = 1..(n + 1) /\ r = [i \in 1..(n + 1) |-> r[i]]
       /\ r[n + 1] = x /\ \A i \in 1..n : r[i] = At(a, i)
  BY <1>1, <1>5, <1>6
<1> HIDE DEF l, r
<1>11. ASSUME NEW i \in 1..(n + 1) PROVE r[i] = l[i]
  <2>1. i \in 1..n \/ i = n + 1
    BY ONLY <1>1
  <2>2. QED BY <1>8, <1>9, <1>10, <2>1
<1>12. l = [i \in 1..(n + 1) |-> l[i]]
  BY ONLY <1>1, <1>9
<1>13. r = l
  BY <1>10, <1>11, <1>12
<1>14. FlattenSeq(l) = FlattenSeq(m) \o x
  BY <1>7, <1>8, FlattenAppend DEF l, R
<1>15. Told(t, c, side, o) = FlattenSeq(r) /\ Told(t, a, side, o) = FlattenSeq(m)
  BY DEF Told, r, m, At, Reading
<1>16. QED BY <1>13, <1>14, <1>15 DEF c, x

LEMMA ToldType ==
    ASSUME NEW t, NEW a \in Seq(Bytes), NEW side, NEW o
    PROVE  Told(t, a, side, o) \in Seq(Verbs)
<1> DEFINE T == {s \in Seq(Bytes) : Told(t, s, side, o) \in Seq(Verbs)}
<1>1. <<>> \in T
  <2>1. <<>> \in Seq(Bytes) /\ <<>> \in Seq(Verbs)
    OBVIOUS
  <2>2. QED BY <2>1, ToldNothing
<1>2. ASSUME NEW s \in T, NEW b \in Bytes PROVE Append(s, b) \in T
  <2> DEFINE u == Told(t, s, side, o)
             w == Takes(Reading(t, s), b, side, o)
  <2>1. s \in Seq(Bytes) /\ Append(s, b) \in Seq(Bytes) /\ u \in Seq(Verbs)
    OBVIOUS
  <2>2. w \in Seq(Verbs)
    BY TakesType
  <2>3. Told(t, Append(s, b), side, o) = u \o w
    BY <2>1, ToldMore
  <2> HIDE DEF u, w
  <2>4. u \o w \in Seq(Verbs)
    BY <2>1, <2>2
  <2>5. QED BY <2>1, <2>3, <2>4
<1>3. T \in SUBSET Seq(Bytes)
  OBVIOUS
<1> HIDE DEF T
<1>4. a \in T
  BY <1>1, <1>2, <1>3, SeqInduction
<1>5. QED BY <1>4 DEF T

\* A stretch more.
LEMMA ToldTwo ==
    ASSUME NEW t, IsTelnet(t), NEW a \in Seq(Bytes), NEW b \in Seq(Bytes), NEW side, NEW o
    PROVE  Told(t, a \o b, side, o) = Told(t, a, side, o) \o Told(Reading(t, a), b, side, o)
<1> DEFINE u == Told(t, a, side, o)
           v == Reading(t, a)
           T == {s \in Seq(Bytes) : Told(t, a \o s, side, o) = u \o Told(v, s, side, o)}
<1>1. u \in Seq(Verbs)
  BY ToldType
<1>2. <<>> \in T
  <2>1. <<>> \in Seq(Bytes) /\ a \o <<>> = a
    OBVIOUS
  <2>2. Told(t, a \o <<>>, side, o) = u
    BY <2>1
  <2>3. Told(v, <<>>, side, o) = <<>>
    BY ToldNothing
  <2> HIDE DEF u, v
  <2>4. u \o <<>> = u
    BY <1>1
  <2>5. QED BY <2>1, <2>2, <2>3, <2>4
<1>3. ASSUME NEW s \in T, NEW x \in Bytes PROVE Append(s, x) \in T
  <2> DEFINE d == Told(v, s, side, o)
             e == Takes(Reading(v, s), x, side, o)
             y == a \o s
  <2>1. /\ s \in Seq(Bytes) /\ y \in Seq(Bytes) /\ Append(s, x) \in Seq(Bytes)
        /\ a \o Append(s, x) = Append(y, x)
    OBVIOUS
  <2>2. Told(t, y, side, o) = u \o d
    OBVIOUS
  <2>3. Reading(t, y) = Reading(v, s)
    BY <2>1, ReadingTwo
  <2> HIDE DEF T, y, v
  <2>4. Told(v, Append(s, x), side, o) = d \o e
    BY ONLY <2>1, x \in Bytes, ToldMore DEF d, e
  <2>5. Told(t, Append(y, x), side, o) = Told(t, y, side, o) \o Takes(Reading(t, y), x, side, o)
    BY ONLY <2>1, x \in Bytes, ToldMore
  <2>6. d \in Seq(Verbs) /\ e \in Seq(Verbs)
    BY <2>1, ToldType, TakesType
  <2>7. Told(t, Append(y, x), side, o) = (u \o d) \o e
    BY <2>2, <2>3, <2>5
  <2>8. (u \o d) \o e = u \o (d \o e)
    <3> HIDE DEF u, d, e
    <3>1. QED BY <1>1, <2>6
  <2>9. Told(t, a \o Append(s, x), side, o) = u \o Told(v, Append(s, x), side, o)
    BY <2>1, <2>4, <2>7, <2>8
  <2> HIDE DEF u, v
  <2>10. QED BY <2>1, <2>9 DEF T
<1>4. T \in SUBSET Seq(Bytes)
  OBVIOUS
<1> HIDE DEF T
<1>5. b \in T
  BY <1>2, <1>3, <1>4, SeqInduction
<1>6. QED BY <1>5 DEF T

LEMMA ToldAlike ==
    ASSUME NEW t, IsTelnet(t), NEW u, IsTelnet(u), t.state = u.state,
           t.sb_telopt = u.sb_telopt, t.buffer = u.buffer, NEW a \in Seq(Bytes),
           NEW side, NEW o
    PROVE  Told(t, a, side, o) = Told(u, a, side, o)
<1> DEFINE At(v, i) == Takes(telnet_recv(v, SubSeq(a, 1, i - 1), nobody).telnet, a[i], side, o)
<1>1. ASSUME NEW i \in DOMAIN a PROVE At(t, i) = At(u, i)
  <2> DEFINE c == SubSeq(a, 1, i - 1)
  <2>1. c \in Seq(Bytes)
    <3>1. i \in 1..Len(a) /\ Len(a) \in Nat
      OBVIOUS
    <3>2. QED BY <3>1
  <2> HIDE DEF c
  <2>2. Reading(t, c).state = Reading(u, c).state
    BY <2>1, NobodyType, ReadingAlike DEF Reading
  <2>3. QED BY <2>2 DEF Reading, Takes, c
<1> HIDE DEF At
<1>2. [i \in DOMAIN a |-> At(t, i)] = [i \in DOMAIN a |-> At(u, i)]
  BY <1>1
<1>3. QED BY <1>2 DEF Told, At

\* What an end is told of some of the bytes, and of the rest.
LEMMA ToldCut ==
    ASSUME NEW t, IsTelnet(t), NEW user, IsHandler(user), NEW a \in Seq(Bytes),
           NEW b \in Seq(Bytes), NEW side, NEW o
    PROVE  Told(t, a \o b, side, o) =
               Told(t, a, side, o) \o Told(telnet_recv(t, a, user).telnet, b, side, o)
<1> DEFINE r == telnet_recv(t, a, user).telnet
           s == Reading(t, a)
<1>1. IsTelnet(r) /\ IsTelnet(s)
  BY RecvType, ReadingType
<1>2. r.state = s.state /\ r.sb_telopt = s.sb_telopt /\ r.buffer = s.buffer
  BY ReadingAlike
<1> HIDE DEF r, s
<1>3. Told(r, b, side, o) = Told(s, b, side, o)
  BY <1>1, <1>2, ToldAlike
<1>4. Told(t, a \o b, side, o) = Told(t, a, side, o) \o Told(s, b, side, o)
  BY ToldTwo DEF s
<1>5. QED BY <1>3, <1>4 DEF r

LEMMA ToldOne ==
    ASSUME NEW t, IsTelnet(t), NEW b \in Bytes, NEW side, NEW o
    PROVE  Told(t, <<b>>, side, o) = Takes(t, b, side, o)
<1> DEFINE x == Takes(t, b, side, o)
<1>1. <<>> \in Seq(Bytes) /\ Append(<<>>, b) = <<b>>
  OBVIOUS
<1>2. Reading(t, <<>>) = t
  BY RecvNothing DEF Reading
<1>3. Told(t, Append(<<>>, b), side, o) = Told(t, <<>>, side, o) \o x
  <2> DEFINE c == <<>>
  <2>1. c \in Seq(Bytes) /\ Reading(t, c) = t
    BY ONLY <1>1, <1>2
  <2> HIDE DEF c
  <2>2. Told(t, Append(c, b), side, o) =
            Told(t, c, side, o) \o Takes(Reading(t, c), b, side, o)
    BY ONLY <2>1, b \in Bytes, ToldMore
  <2>3. QED BY ONLY <2>1, <2>2 DEF c, x
<1>4. x \in Seq(Verbs) /\ Told(t, <<>>, side, o) = <<>>
  BY TakesType, ToldNothing
<1> HIDE DEF x
<1>5. <<>> \o x = x
  BY <1>4
<1>6. QED BY <1>1, <1>3, <1>4, <1>5 DEF x

-----------------------------------------------------------------------------
(* What the users send tells nothing of an option. *)

\* From a state of from, bytes tell nothing and lead to one of to.
Silent(from, bytes, to) ==
    \A t : IsTelnet(t) /\ t.state \in from =>
        Reading(t, bytes).state \in to /\ \A side, o : Told(t, bytes, side, o) = <<>>

LEMMA SilentConcat ==
    ASSUME NEW from, NEW via, NEW to, NEW a \in Seq(Bytes), NEW b \in Seq(Bytes),
           Silent(from, a, via), Silent(via, b, to)
    PROVE  Silent(from, a \o b, to)
<1> SUFFICES ASSUME NEW t, IsTelnet(t), t.state \in from, NEW side, NEW o
             PROVE  Reading(t, a \o b).state \in to /\ Told(t, a \o b, side, o) = <<>>
  BY DEF Silent
<1> DEFINE u == Reading(t, a)
<1>1. u.state \in via /\ Told(t, a, side, o) = <<>>
  BY DEF Silent
<1>2. IsTelnet(u)
  BY ReadingType
<1>3. Reading(t, a \o b) = Reading(u, b)
  BY ReadingTwo
<1>4. Told(t, a \o b, side, o) = Told(t, a, side, o) \o Told(u, b, side, o)
  BY ToldTwo
<1> HIDE DEF u
<1>5. Reading(u, b).state \in to /\ Told(u, b, side, o) = <<>>
  BY <1>1, <1>2 DEF Silent
<1>6. <<>> \o <<>> = <<>>
  OBVIOUS
<1>7. QED BY <1>1, <1>3, <1>4, <1>5, <1>6

LEMMA SilentNothing == \A from : Silent(from, <<>>, from)
<1> SUFFICES ASSUME NEW from, NEW t, IsTelnet(t), t.state \in from
             PROVE  Reading(t, <<>>).state \in from /\ \A side, o : Told(t, <<>>, side, o) = <<>>
  BY DEF Silent
<1>1. Reading(t, <<>>) = t
  BY RecvNothing DEF Reading
<1>2. QED BY <1>1, ToldNothing

\* One byte that is no option of a negotiation.
LEMMA SilentByte ==
    ASSUME NEW from, from \cap Verbs = {}, NEW to, NEW b \in Bytes,
           \A t : IsTelnet(t) /\ t.state \in from => Reading(t, <<b>>).state \in to
    PROVE  Silent(from, <<b>>, to)
<1> SUFFICES ASSUME NEW t, IsTelnet(t), t.state \in from, NEW side, NEW o
             PROVE  Told(t, <<b>>, side, o) = <<>>
  BY DEF Silent
<1>1. Told(t, <<b>>, side, o) = Takes(t, b, side, o)
  BY ToldOne
<1>2. t.state \notin Verbs
  OBVIOUS
<1>3. QED BY <1>1, <1>2 DEF Takes

Text == {"DATA", "SB_DATA"}

\* The bytes of which the senders' output is made.
LEMMA SilentBytes ==
    /\ Silent({"DATA"}, <<IAC>>, {"IAC"})
    /\ Silent({"IAC"}, <<IAC>>, {"DATA"}) /\ Silent({"IAC"}, <<SE>>, {"DATA"})
    /\ Silent({"IAC"}, <<SB>>, {"SB"})
    /\ \A v \in Verbs : Silent({"IAC"}, <<VerbByte[v]>>, {v})
    /\ \A b \in Bytes : Silent({"SB"}, <<b>>, {"SB_DATA"})
    /\ \A b \in Bytes : b # IAC => Silent({"DATA"}, <<b>>, Text)
    /\ \A b \in Bytes : b # IAC => Silent({"SB_DATA"}, <<b>>, Text)
    /\ Silent({"SB_DATA"}, <<IAC>>, {"SB_DATA_IAC"})
    /\ Silent({"SB_DATA_IAC"}, <<IAC>>, Text) /\ Silent({"SB_DATA_IAC"}, <<SE>>, {"DATA"})
<1>1. /\ {"DATA"} \cap Verbs = {} /\ {"IAC"} \cap Verbs = {} /\ {"SB"} \cap Verbs = {}
      /\ {"SB_DATA"} \cap Verbs = {} /\ {"SB_DATA_IAC"} \cap Verbs = {}
  BY DEF Verbs
<1>2. IsHandler(nobody)
  BY NobodyType
<1>3. Silent({"DATA"}, <<IAC>>, {"IAC"})
  BY <1>1, <1>2, Codes, ReadsCommand, SilentByte DEF Reads, Reading
<1>4. Silent({"IAC"}, <<IAC>>, {"DATA"}) /\ Silent({"IAC"}, <<SE>>, {"DATA"})
  <2>1. ASSUME NEW t, IsTelnet(t), t.state \in {"IAC"}
        PROVE  Reading(t, <<IAC>>).state \in {"DATA"} /\ Reading(t, <<SE>>).state \in {"DATA"}
    <3>1. ASSUME NEW b \in Bytes, b # SB, ~IsVerb(b) PROVE Reading(t, <<b>>).state = "DATA"
      <4>1. t.state = "IAC"
        BY <2>1
      <4>2. Reads(t, b, nobody, "DATA",
                  IF b = IAC THEN <<<<"data", b>>>> ELSE <<<<"iac", b>>>>, <<>>)
        BY <1>2, <2>1, <3>1, <4>1, ReadsCommandEnd
      <4>3. QED BY <4>2 DEF Reads, Reading
    <3>2. QED BY <3>1, Codes
  <2>2. QED BY <1>1, <2>1, Codes, SilentByte
<1>5. Silent({"IAC"}, <<SB>>, {"SB"})
  <2>1. ASSUME NEW t, IsTelnet(t), t.state \in {"IAC"} PROVE Reading(t, <<SB>>).state \in {"SB"}
    BY <1>2, <2>1, Codes, ReadsSb DEF Reads, Reading
  <2>2. QED BY <1>1, <2>1, Codes, SilentByte
<1>6. ASSUME NEW v \in Verbs PROVE Silent({"IAC"}, <<VerbByte[v]>>, {v})
  <2>1. ASSUME NEW t, IsTelnet(t), t.state \in {"IAC"}
        PROVE  Reading(t, <<VerbByte[v]>>).state \in {v}
    BY <1>2, <2>1, ReadsVerb DEF Reads, Reading
  <2>2. VerbByte[v] \in Bytes
    BY Codes
  <2>3. QED BY <1>1, <2>1, <2>2, SilentByte
<1>7. ASSUME NEW b \in Bytes PROVE Silent({"SB"}, <<b>>, {"SB_DATA"})
  <2>1. ASSUME NEW t, IsTelnet(t), t.state \in {"SB"}
        PROVE  Reading(t, <<b>>).state \in {"SB_DATA"}
    <3>1. t.state = "SB"
      BY <2>1
    <3>2. Reads(t, b, nobody, "SB_DATA", <<>>, <<>>)
      BY <1>2, <2>1, <3>1, ReadsSbOption
    <3>3. QED BY <3>2 DEF Reads, Reading
  <2>2. QED BY <1>1, <2>1, SilentByte
<1>8. ASSUME NEW b \in Bytes, b # IAC PROVE Silent({"DATA"}, <<b>>, Text)
  <2>1. ASSUME NEW t, IsTelnet(t), t.state \in {"DATA"} PROVE Reading(t, <<b>>).state \in Text
    BY <1>8, <2>1, ReadsData DEF Reads, Reading, Text
  <2>2. QED BY <1>1, <2>1, SilentByte
<1>9. ASSUME NEW s \in {"SB_DATA", "SB_DATA_IAC"}, NEW b \in Bytes,
             s = "SB_DATA" <=> b # IAC
      PROVE  Silent({s}, <<b>>, Text)
  <2>1. ASSUME NEW t, IsTelnet(t), t.state \in {s} PROVE Reading(t, <<b>>).state \in Text
    <3>1. \/ t.state = "SB_DATA" /\ b # IAC
          \/ t.state = "SB_DATA_IAC" /\ b = IAC
      BY <1>9, <2>1
    <3>2. Reads(t, b, nobody, "SB_DATA", <<>>, <<>>)
          \/ Reads(t, b, nobody, "DATA", <<<<"overflow">>>>, <<>>)
      BY <1>2, <2>1, <3>1, ReadsContent
    <3>3. QED BY <3>2 DEF Reads, Reading, Text
  <2>2. QED BY <1>1, <2>1, SilentByte
<1>10. Silent({"SB_DATA"}, <<IAC>>, {"SB_DATA_IAC"})
  <2>1. ASSUME NEW t, IsTelnet(t), t.state \in {"SB_DATA"}
        PROVE  Reading(t, <<IAC>>).state \in {"SB_DATA_IAC"}
    BY <1>2, <2>1, ReadsSbCommand DEF Reads, Reading
  <2>2. QED BY <1>1, <2>1, Codes, SilentByte
<1>11. Silent({"SB_DATA_IAC"}, <<SE>>, {"DATA"})
  <2>1. ASSUME NEW t, IsTelnet(t), t.state \in {"SB_DATA_IAC"}
        PROVE  Reading(t, <<SE>>).state \in {"DATA"}
    <3>1. Reads(t, SE, nobody, "DATA", Whole(t.sb_telopt, t.buffer),
                Reply(t.sb_telopt, t.buffer, nobody))
      BY <1>2, <2>1, ReadsSbEnd
    <3>2. QED BY <3>1 DEF Reads, Reading
  <2>2. QED BY <1>1, <2>1, Codes, SilentByte
<1>12. QED BY <1>3, <1>4, <1>5, <1>6, <1>7, <1>8, <1>9, <1>10, <1>11, Codes

LEMMA SilentEither ==
    ASSUME NEW a, NEW to, Silent({"DATA"}, a, to), Silent({"SB_DATA"}, a, to)
    PROVE  Silent(Text, a, to)
  BY DEF Silent, Text

LEMMA SilentFewer ==
    ASSUME NEW a, NEW from, NEW fewer \in SUBSET from, NEW to, Silent(from, a, to)
    PROVE  Silent(fewer, a, to)
  BY DEF Silent

\* A byte of a text, or of the content of a subnegotiation.
LEMMA SentSilent == \A b \in Bytes : Silent(Text, sentOf[b], Text)
<1> SUFFICES ASSUME NEW b \in Bytes PROVE Silent(Text, sentOf[b], Text)
  OBVIOUS
<1>1. CASE b = IAC
  <2> DEFINE c == <<IAC>>
  <2>1. c \in Seq(Bytes) /\ c \o c = <<IAC, IAC>>
    BY Codes, Pair, Zenon
  <2>2. Silent({"IAC"}, c, Text)
    BY SilentBytes DEF Silent, Text
  <2>3. Silent({"DATA"}, c, {"IAC"}) /\ Silent({"SB_DATA"}, c, {"SB_DATA_IAC"})
        /\ Silent({"SB_DATA_IAC"}, c, Text)
    BY SilentBytes
  <2> HIDE DEF c
  <2>4. Silent({"DATA"}, c \o c, Text) /\ Silent({"SB_DATA"}, c \o c, Text)
    BY <2>1, <2>2, <2>3, SilentConcat
  <2>5. sentOf[b] = c \o c
    BY <1>1, <2>1 DEF sentOf
  <2>6. QED BY <2>4, <2>5, SilentEither
<1>2. CASE b # IAC
  <2>1. sentOf[b] = <<b>>
    BY <1>2 DEF sentOf
  <2>2. QED BY <1>2, <2>1, SilentBytes, SilentEither
<1>3. QED BY <1>1, <1>2

LEMMA SendSilent ==
    ASSUME NEW text \in Seq(Bytes)
    PROVE  Silent(Text, telnet_send(text), Text)
<1> DEFINE T == {s \in Seq(Bytes) : Silent(Text, telnet_send(s), Text)}
<1>1. <<>> \in T
  <2>1. <<>> \in Seq(Bytes)
    OBVIOUS
  <2>2. QED BY <2>1, SendNothing, SilentNothing
<1>2. ASSUME NEW s \in T, NEW b \in Bytes PROVE Append(s, b) \in T
  <2> DEFINE w == telnet_send(s)
             v == sentOf[b]
  <2>1. s \in Seq(Bytes) /\ Append(s, b) \in Seq(Bytes) /\ Silent(Text, w, Text)
    OBVIOUS
  <2>2. telnet_send(Append(s, b)) = w \o v /\ w \in Seq(Bytes) /\ v \in Seq(Bytes)
    BY <2>1, SendMore
  <2>3. Silent(Text, v, Text)
    BY SentSilent
  <2> HIDE DEF w, v
  <2>4. Silent(Text, w \o v, Text)
    BY <2>1, <2>2, <2>3, SilentConcat
  <2>5. QED BY <2>1, <2>2, <2>4
<1>3. T \in SUBSET Seq(Bytes)
  OBVIOUS
<1> HIDE DEF T
<1>4. text \in T
  BY <1>1, <1>2, <1>3, SeqInduction
<1>5. QED BY <1>4 DEF T

\* The begin and the end of a subnegotiation.
LEMMA BeginSilent ==
    ASSUME NEW o \in Bytes
    PROVE  telnet_begin_sb(o) \in Seq(Bytes) /\ Silent({"DATA"}, telnet_begin_sb(o), Text)
<1> DEFINE c == <<IAC>>
           d == <<SB>>
           e == <<o>>
           cd == <<IAC, SB>>
<1>1. c \in Seq(Bytes) /\ d \in Seq(Bytes) /\ c \o d = cd /\ cd \in Seq(Bytes)
  BY Codes, Pair, Zenon
<1>2. e \in Seq(Bytes) /\ cd \o e = telnet_begin_sb(o) /\ telnet_begin_sb(o) \in Seq(Bytes)
  <2>1. e \in Seq(Bytes)
    BY Pair, Zenon
  <2>2. cd \o e = <<IAC, SB, o>> /\ <<IAC, SB, o>> \in Seq(Bytes)
    BY Codes, Triple, Zenon
  <2>3. QED BY <2>1, <2>2 DEF telnet_begin_sb
<1>3. Silent({"DATA"}, c, {"IAC"}) /\ Silent({"IAC"}, d, {"SB"}) /\ Silent({"SB"}, e, Text)
  <2>1. Silent({"SB"}, e, {"SB_DATA"})
    BY SilentBytes
  <2>2. {"SB_DATA"} \subseteq Text
    BY DEF Text
  <2>3. Silent({"SB"}, e, Text)
    BY <2>1, <2>2 DEF Silent
  <2>4. QED BY <2>3, SilentBytes
<1> HIDE DEF c, d, e, cd
<1>4. Silent({"DATA"}, cd, {"SB"})
  BY <1>1, <1>3, SilentConcat
<1>5. QED BY <1>1, <1>2, <1>3, <1>4, SilentConcat

LEMMA FinishSilent ==
    telnet_finish_sb \in Seq(Bytes) /\ Silent(Text, telnet_finish_sb, {"DATA"})
<1> DEFINE c == <<IAC>>
           d == <<SE>>
<1>1. c \in Seq(Bytes) /\ d \in Seq(Bytes) /\ c \o d = <<IAC, SE>> /\ <<IAC, SE>> \in Seq(Bytes)
  BY Codes, Pair, Zenon
<1>2. Silent({"DATA"}, c, {"IAC"}) /\ Silent({"IAC"}, d, {"DATA"})
      /\ Silent({"SB_DATA"}, c, {"SB_DATA_IAC"}) /\ Silent({"SB_DATA_IAC"}, d, {"DATA"})
  BY SilentBytes
<1>3. telnet_finish_sb = <<IAC, SE>>
  BY DEF telnet_finish_sb, telnet_iac
<1> HIDE DEF c, d
<1>4. Silent({"DATA"}, c \o d, {"DATA"}) /\ Silent({"SB_DATA"}, c \o d, {"DATA"})
  BY <1>1, <1>2, SilentConcat
<1>5. QED BY <1>1, <1>3, <1>4, SilentEither

LEMMA SubnegotiationSilent ==
    ASSUME NEW o \in Bytes, NEW content \in Seq(Bytes)
    PROVE  Silent({"DATA"}, telnet_subnegotiation(o, content), {"DATA"})
<1> DEFINE a == telnet_begin_sb(o)
           b == telnet_send(content)
           c == telnet_finish_sb
<1>1. a \in Seq(Bytes) /\ b \in Seq(Bytes) /\ c \in Seq(Bytes)
  BY BeginSilent, TextKept, FinishSilent
<1>2. Silent({"DATA"}, a, Text) /\ Silent(Text, b, Text) /\ Silent(Text, c, {"DATA"})
  BY BeginSilent, SendSilent, FinishSilent
<1>3. telnet_subnegotiation(o, content) = (a \o b) \o c
  BY DEF telnet_subnegotiation
<1> HIDE DEF a, b, c
<1>4. Silent({"DATA"}, a \o b, Text) /\ a \o b \in Seq(Bytes)
  BY <1>1, <1>2, SilentConcat
<1>5. QED BY <1>1, <1>2, <1>3, <1>4, SilentConcat

LEMMA CallSilent ==
    ASSUME CallsAreSends, NEW p \in Peers, NEW call \in Calls[p]
    PROVE  \E to : Silent({"DATA"}, call.bytes, to)
<1>1. ASSUME NEW text \in Seq(Bytes), call = SendText(text)
      PROVE  Silent({"DATA"}, call.bytes, Text)
  <2>1. call.bytes = telnet_send(text)
    BY <1>1 DEF SendText
  <2>2. {"DATA"} \in SUBSET Text
    BY DEF Text
  <2>3. QED BY <2>1, <2>2, SendSilent, SilentFewer
<1>2. ASSUME NEW o \in Bytes, NEW content \in Seq(Bytes),
             call = [bytes |-> telnet_subnegotiation(o, content),
                     promised |-> Subnegotiated(o, content, payload(o, content))]
      PROVE  Silent({"DATA"}, call.bytes, {"DATA"})
  <2>1. call.bytes = telnet_subnegotiation(o, content)
    BY ONLY <1>2
  <2>2. QED BY <2>1, SubnegotiationSilent
<1>3. QED BY <1>1, <1>2 DEF CallsAreSends

\* The event handler's answer.
LEMMA AnswerSilent ==
    ASSUME PlainTerminal, NEW p \in Peers
    PROVE  Silent({"DATA"}, event_handler(p).on_ttype_send, {"DATA"})
<1>1. event_handler(p).on_ttype_send \in {<<>>, telnet_ttype_is(Terminal)}
  BY DEF event_handler
<1>2. Silent({"DATA"}, <<>>, {"DATA"})
  BY SilentNothing
<1>3. Silent({"DATA"}, telnet_ttype_is(Terminal), {"DATA"})
  BY TerminalKept, Codes, SubnegotiationSilent
<1>4. QED BY <1>1, <1>2, <1>3

-----------------------------------------------------------------------------
(* What a negotiation tells, and what a byte does to the options. *)

\* The verb, to the side and the option it is for.
LEMMA NegotiationTold ==
    ASSUME NEW v \in Verbs, NEW telopt \in Bytes, NEW t, IsTelnet(t), t.state = "DATA",
           NEW side, NEW o
    PROVE  Told(t, send_negotiate(v, telopt), side, o) =
               IF TouchedBy(v) = side /\ telopt = o THEN <<v>> ELSE <<>>
<1> DEFINE b == VerbByte[v]
           c == <<IAC>>
           d == <<b>>
           e == <<telopt>>
           cd == <<IAC, b>>
           u == Reading(t, cd)
           x == Takes(u, telopt, side, o)
<1>1. IAC \in Bytes /\ b \in Bytes
  BY Codes
<1>2. Silent({"DATA"}, c, {"IAC"}) /\ Silent({"IAC"}, d, {v})
  BY SilentBytes
<1>3. send_negotiate(v, telopt) = <<IAC, b, telopt>>
  BY DEF send_negotiate
<1> HIDE DEF b
<1>4. c \in Seq(Bytes) /\ d \in Seq(Bytes) /\ c \o d = cd /\ cd \in Seq(Bytes)
  BY <1>1, Pair, Zenon
<1>5. e \in Seq(Bytes)
  BY Pair, Zenon
<1>6. cd \o e = <<IAC, b, telopt>>
  BY <1>1, Triple, Zenon
<1>7. Told(t, e, side, o) = Told(t, e, side, o) /\ Told(u, e, side, o) = x
  <2>1. IsTelnet(u)
    <3> HIDE DEF cd
    <3>1. QED BY <1>4, ReadingType
  <2> HIDE DEF u
  <2>2. QED BY <2>1, ToldOne
<1> HIDE DEF c, d, e, cd
<1>8. Silent({"DATA"}, cd, {v})
  BY <1>2, <1>4, SilentConcat
<1>9. u.state = v /\ Told(t, cd, side, o) = <<>>
  BY <1>8 DEF Silent
<1>10. Told(t, cd \o e, side, o) = <<>> \o x
  <2>1. Told(t, cd \o e, side, o) = Told(t, cd, side, o) \o Told(u, e, side, o)
    BY ONLY <1>4, <1>5, IsTelnet(t), ToldTwo
  <2>2. QED BY <1>7, <1>9, <2>1
<1>11. x = IF TouchedBy(v) = side /\ telopt = o THEN <<v>> ELSE <<>>
  BY <1>9 DEF Takes
<1>12. x \in Seq(Verbs)
  BY TakesType
<1> HIDE DEF x
<1>13. <<>> \o x = x
  BY <1>12
<1>14. QED BY <1>3, <1>6, <1>10, <1>11, <1>13

LEMMA MovedOption ==
    ASSUME NEW q, IsQ(q), NEW telopt, NEW side \in Sides, NEW next, NEW o, NEW s \in Sides
    PROVE  get_rfc1143(moved(q, telopt, side, next), o)[s] =
               IF o = telopt /\ s = side THEN next ELSE get_rfc1143(q, o)[s]
<1> DEFINE old == get_rfc1143(q, telopt)
           new == [old EXCEPT ![side] = next]
           r == set_rfc1143(q, telopt, side, next)
<1>1. \A z : get_rfc1143(q, z) \in OptionT
  BY OptionType
<1>2. DOMAIN old = Sides
  BY <1>1 DEF OptionT, Sides
<1>3. CASE next = old[side]
  BY <1>3 DEF moved
<1>4. CASE next # old[side]
  <2>1. moved(q, telopt, side, next) = r
    BY <1>4 DEF moved
  <2>2. DOMAIN r = DOMAIN q \cup {telopt} /\ r[telopt] = new
        /\ \A z \in DOMAIN q : z # telopt => r[z] = q[z]
    BY DEF set_rfc1143
  <2>3. get_rfc1143(r, o) = IF o = telopt THEN new ELSE get_rfc1143(q, o)
    <3> HIDE DEF r, new
    <3>1. QED BY <2>2 DEF get_rfc1143
  <2>4. new[s] = IF s = side THEN next ELSE old[s]
    BY <1>2
  <2>5. QED BY <2>1, <2>3, <2>4
<1>5. QED BY <1>3, <1>4

\* Only a byte behind a verb changes an option.
LEMMA ByteOptions ==
    ASSUME NEW c \in Seq(Bytes), NEW i \in 1..Len(c), NEW t, IsParser(t, i), t.state \notin Verbs,
           NEW user
    PROVE  process_byte(t, c, i, user).q = t.q
<1> DEFINE Fields(u) == DOMAIN u = {"state", "sb_telopt", "buffer", "q", "start", "out", "events"}
           Same(u) == Fields(u) /\ u.q = t.q
<1>1. Same(t)
  BY DEF IsParser
<1>2. ASSUME NEW u, Same(u), NEW events PROVE Same(Raise(u, events))
  BY <1>2 DEF Raise
<1>3. ASSUME NEW u, Same(u) PROVE Same(ToData(u, i))
  BY <1>3 DEF ToData
<1>4. ASSUME NEW u, Same(u) PROVE Same(subnegotiate(u, user))
  BY <1>4 DEF subnegotiate, Raise
<1>5. ASSUME NEW u, Same(u), NEW b PROVE Same(in_iac(u, b, i))
  <2>1. /\ Same(ToData(Raise(u, <<<<"data", IAC>>>>), i))
        /\ Same(ToData(Raise(u, <<<<"iac", b>>>>), i))
    BY <1>2, <1>3, <1>5
  <2>2. \A z : Same([u EXCEPT !.state = z])
    BY <1>5
  <2> HIDE DEF Same
  <2>3. QED BY <2>1, <2>2 DEF in_iac
<1>6. ASSUME NEW b PROVE Same(buffer_byte(t, b, i))
  <2>1. Same(ToData(Raise(t, <<<<"overflow">>>>), i))
    BY <1>1, <1>2, <1>3
  <2>2. \A y, z : Same([t EXCEPT !.buffer = y, !.state = z])
    BY <1>1
  <2> HIDE DEF Same
  <2>3. QED BY <2>1, <2>2 DEF buffer_byte
<1>7. Same(in_data(t, c, i))
  <2>1. Same(PassOn(t, c, i - 1))
    BY <1>1, <1>2 DEF PassOn
  <2> DEFINE u == PassOn(t, c, i - 1)
  <2> HIDE DEF u
  <2>2. Same([u EXCEPT !.state = "IAC"])
    BY <2>1 DEF u
  <2>3. QED BY <1>1, <2>2 DEF in_data, u
<1>8. Same(in_sb_data_iac(t, c[i], i, user))
  <2>1. Same(subnegotiate(ToData(t, i), user))
    BY <1>1, <1>3, <1>4
  <2>2. Same([t EXCEPT !.state = "IAC", !.start = i + 1])
    BY <1>1
  <2> DEFINE u == [t EXCEPT !.state = "IAC", !.start = i + 1]
  <2>3. Same(in_iac(subnegotiate(u, user), c[i], i))
    <3> HIDE DEF u, Same
    <3>1. QED BY <1>4, <1>5, <2>2 DEF u
  <2> HIDE DEF Same
  <2>4. QED BY <1>6, <2>1, <2>3 DEF in_sb_data_iac
<1>9. \A y, z : Same([t EXCEPT !.sb_telopt = y, !.buffer = <<>>, !.state = z])
      /\ Same([t EXCEPT !.state = z])
  BY <1>1
<1>10. t.state \in States
  BY DEF IsParser
<1> HIDE DEF Same
<1>11. Same(process_byte(t, c, i, user))
  BY <1>5, <1>6, <1>1, <1>7, <1>8, <1>9, <1>10 DEF process_byte, States
<1>12. QED BY <1>11 DEF Same

\* The options after one byte.
LEMMA ByteQ ==
    ASSUME NEW t, IsTelnet(t), NEW b \in Bytes, NEW user, IsHandler(user)
    PROVE  telnet_recv(t, <<b>>, user).telnet.q =
               process_byte(process_begin(t), <<b>>, 1, user).q
<1> DEFINE u == process_begin(t)
           c == <<b>>
           x == process_byte(u, c, 1, user)
           y == process_end(x, c, 1)
<1>1. c \in Seq(Bytes) /\ 1 \in 1..Len(c) /\ Len(c) = 1 /\ 1 - 1 = 0
  OBVIOUS
<1>2. IsParser(u, 1 - 1)
  BY <1>1, BeginType
<1>3. process(t, c, user)[1] = x
  BY <1>1, ProcessOne
<1>4. telnet_recv(t, c, user).telnet.q = y.q
  BY <1>1, <1>3 DEF telnet_recv
<1>5. IsParser(x, 1)
  <2> HIDE DEF u, c
  <2>1. QED BY <1>1, <1>2, ProcessByteType
<1> HIDE DEF x
<1>6. y.q = x.q
  BY <1>5 DEF process_end, PassOn, Raise, IsParser
<1>7. QED BY <1>4, <1>6 DEF x

\* A byte that is no option of a negotiation.
LEMMA OtherByte ==
    ASSUME NEW t, IsTelnet(t), t.state \notin Verbs, NEW b \in Bytes, NEW user, IsHandler(user)
    PROVE  LET r == telnet_recv(t, <<b>>, user)
           IN  r.telnet.q = t.q /\ r.out \in {<<>>, user.on_ttype_send}
<1> DEFINE u == process_begin(t)
           r == telnet_recv(t, <<b>>, user)
           Replied(s) == s \in {<<>>, user.on_ttype_send}
<1>1. r.telnet.q = t.q
  <2> DEFINE c == <<b>>
  <2>1. c \in Seq(Bytes) /\ 1 \in 1..Len(c)
    OBVIOUS
  <2>2. IsParser(u, 1) /\ u.state = t.state
    BY BeginsWith
  <2>3. u.q = t.q
    BY DEF process_begin
  <2>4. r.telnet.q = process_byte(u, c, 1, user).q
    BY ByteQ
  <2> HIDE DEF u, c, r
  <2>5. process_byte(u, c, 1, user).q = u.q
    BY <2>1, <2>2, ByteOptions
  <2>6. QED BY <2>3, <2>4, <2>5
<1>2. \A o, c : Replied(Reply(o, c, user)) /\ Replied(<<>>)
  BY DEF Reply
<1>3. CASE t.state = "DATA"
  <2>1. r.out = <<>>
    BY <1>3, Codes, ReadsData, ReadsCommand DEF Reads
  <2>2. QED BY <1>1, <2>1
<1>4. CASE t.state = "IAC"
  <2>1. CASE b = SB
    <3>1. Reads(t, SB, user, "SB", <<>>, <<>>)
      BY <1>4, ReadsSb
    <3>2. QED BY <1>1, <2>1, <3>1 DEF Reads
  <2>2. ASSUME NEW v \in Verbs, b = VerbByte[v] PROVE Replied(r.out)
    <3>1. Reads(t, VerbByte[v], user, v, <<>>, <<>>)
      BY <1>4, ReadsVerb
    <3>2. QED BY <2>2, <3>1 DEF Reads
  <2>3. CASE b # SB /\ ~IsVerb(b)
    <3>1. Reads(t, b, user, "DATA",
                IF b = IAC THEN <<<<"data", b>>>> ELSE <<<<"iac", b>>>>, <<>>)
      BY <1>4, <2>3, ReadsCommandEnd
    <3>2. QED BY <1>1, <3>1 DEF Reads
  <2>4. QED BY <1>1, <2>1, <2>2, <2>3 DEF IsVerb
<1>5. CASE t.state = "SB"
  <2>1. Reads(t, b, user, "SB_DATA", <<>>, <<>>)
    BY <1>5, ReadsSbOption
  <2>2. QED BY <1>1, <2>1 DEF Reads
<1>6. CASE t.state = "SB_DATA" /\ b = IAC
  <2>1. Reads(t, IAC, user, "SB_DATA_IAC", <<>>, <<>>)
    BY <1>6, ReadsSbCommand
  <2>2. QED BY <1>1, <1>6, <2>1 DEF Reads
<1>7. CASE \/ t.state = "SB_DATA" /\ b # IAC
           \/ t.state = "SB_DATA_IAC" /\ b = IAC
  <2>1. Reads(t, b, user, "SB_DATA", <<>>, <<>>)
        \/ Reads(t, b, user, "DATA", <<<<"overflow">>>>, <<>>)
    BY <1>7, ReadsContent
  <2>2. QED BY <1>1, <2>1 DEF Reads
<1>8. CASE t.state = "SB_DATA_IAC" /\ b # IAC
  <2>1. r.out = Reply(t.sb_telopt, t.buffer, user)
    <3>1. CASE b = SE
      <4>1. Reads(t, SE, user, "DATA", Whole(t.sb_telopt, t.buffer),
                  Reply(t.sb_telopt, t.buffer, user))
        BY <1>8, ReadsSbEnd
      <4>2. QED BY <3>1, <4>1 DEF Reads
    <3>2. CASE b # SE
      BY <1>8, <3>2, ReadsSbBroken
    <3>3. QED BY <3>1, <3>2
  <2> HIDE DEF r
  <2>2. r.telnet.q = t.q /\ Replied(r.out)
    BY <1>1, <1>2, <2>1
  <2>3. QED BY <2>2 DEF r
<1>9. t.state \in States
  BY DEF IsTelnet
<1>10. QED BY <1>3, <1>4, <1>5, <1>6, <1>7, <1>8, <1>9 DEF States

\* The option of a negotiation.
LEMMA OptionByte ==
    ASSUME NEW t, IsTelnet(t), t.state \in Verbs, NEW b \in Bytes, NEW user, IsHandler(user)
    PROVE  LET r == telnet_recv(t, <<b>>, user)
               side == TouchedBy(t.state)
               move == OnReceived(t.state, <<side, b>> \in user.supported,
                                  get_rfc1143(t.q, b)[side])
           IN  /\ r.telnet.q = moved(t.q, b, side, move.next)
               /\ r.out = IF move.send = "none" THEN <<>> ELSE send_negotiate(move.send, b)
<1> DEFINE u == process_begin(t)
           x == process_byte(u, <<b>>, 1, user)
           y == negotiate(u, b, user)
           side == TouchedBy(t.state)
           move == OnReceived(t.state, <<side, b>> \in user.supported,
                              get_rfc1143(t.q, b)[side])
           e == IF move.event = "none" THEN <<>> ELSE <<<<move.event, b>>>>
           o == IF move.send = "none" THEN <<>> ELSE send_negotiate(move.send, b)
           z == moved(t.q, b, side, move.next)
           r == telnet_recv(t, <<b>>, user)
<1>1. IsParser(u, 1) /\ u.state = t.state /\ u.out = <<>> /\ u.events = <<>>
  BY BeginsWith
<1>2. u.q = t.q
  BY DEF process_begin
<1>3. side \in Sides /\ IsQ(t.q)
  BY DEF TouchedBy, Sides, IsTelnet, IsQ
<1>4. get_rfc1143(t.q, b)[side] \in QStates
  BY <1>3, OptionType DEF OptionT, Sides
<1>5. move \in MoveT
  BY <1>4, ReceivedType
<1>6. o \in Seq(Bytes)
  <2> HIDE DEF move
  <2>1. QED BY <1>5, SentType
<1> HIDE DEF u
<1>7. y = [Raise(u, e) EXCEPT !.q = z, !.out = @ \o o]
  <2>1. y = [Raise(u, e) EXCEPT !.q = moved(u.q, b, side, move.next), !.out = @ \o o]
    <3>1. Raise(u, e).q = u.q
      BY <1>1 DEF Raise, IsParser
    <3> DEFINE side2 == TouchedBy(u.state)
               move2 == OnReceived(u.state, <<side2, b>> \in user.supported,
                                   get_rfc1143(u.q, b)[side2])
    <3>2. y = [Raise(u, IF move2.event = "none" THEN <<>> ELSE <<<<move2.event, b>>>>)
               EXCEPT !.q = moved(@, b, side2, move2.next),
                      !.out = @ \o (IF move2.send = "none" THEN <<>>
                                    ELSE send_negotiate(move2.send, b))]
      BY Zenon DEF negotiate
    <3>3. side2 = side /\ move2 = move
      BY <1>1, <1>2
    <3> HIDE DEF y, side2, move2, side, move
    <3>4. QED BY <3>1, <3>2, <3>3
  <2>2. QED BY <1>2, <2>1
<1> HIDE DEF e, o, side, move, z
<1>8. y.q = z /\ y.out = <<>> \o o
  BY <1>1, <1>7 DEF Raise, IsParser
<1>9. <<>> \o o = o
  BY <1>6
<1>10. x = ToData(y, 1)
  <2>1. <<b>>[1] = b
    OBVIOUS
  <2>2. QED BY <1>1, <2>1 DEF process_byte, Verbs
<1>11. IsParser(y, 1)
  BY <1>1, NegotiateType
<1> HIDE DEF x, y
<1>12. x.q = z /\ x.out = o
  BY <1>8, <1>9, <1>10, <1>11 DEF ToData, IsParser
<1>13. t.state # "DATA"
  BY DEF Verbs
<1>14. r.out = x.out
  BY <1>13, RecvOne DEF x, u
<1>15. r.telnet.q = x.q
  BY ByteQ DEF x, u
<1> HIDE DEF r
<1>16. r.telnet.q = z /\ r.out = o
  BY <1>12, <1>14, <1>15
<1>17. QED BY <1>16 DEF r, z, o, move, side

-----------------------------------------------------------------------------
(* One byte received, seen from either end of an option. *)

Opposite(side) == IF side = "him" THEN "us" ELSE "him"

\* An end's side of an option and the opposite side at the other end.
SidesFit(side, mine, toMine, theirs, toTheirs, supMine, supTheirs, wishMine, wishTheirs) ==
    IF side = "him"
    THEN Fits(mine, toMine, theirs, toTheirs, supMine, supTheirs, wishMine, wishTheirs)
    ELSE Fits(theirs, toTheirs, mine, toMine, supTheirs, supMine, wishTheirs, wishMine)

\* An answer is for the opposite side; nothing received is noted to be asked for later.
LEMMA AnswerSide ==
    ASSUME NEW v \in Verbs, NEW supported, NEW state \in QStates
    PROVE  LET move == OnReceived(v, supported, state)
           IN  /\ move.send # "none" =>
                      move.send \in Verbs /\ TouchedBy(move.send) = Opposite(TouchedBy(v))
               /\ move.next # "WANTNO_OP"
               /\ v = "WONT" /\ state = "WANTNO_OP" => move.next = "WANTYES"
<1> USE DEF QStates, Move
<1>1. CASE v \in {"WILL", "WONT"}
  <2>1. ASSUME NEW m \in {on_will(supported)[state], on_wont[state]}
        PROVE  m.send \in {"none", "DO", "DONT"} /\ m.next # "WANTNO_OP"
    BY DEF on_will, on_wont
  <2>2. on_wont["WANTNO_OP"].next = "WANTYES"
    BY DEF on_wont
  <2>3. OnReceived(v, supported, state) \in {on_will(supported)[state], on_wont[state]}
        /\ (v = "WONT" => OnReceived(v, supported, state) = on_wont[state])
    BY <1>1 DEF OnReceived
  <2>4. TouchedBy("DO") = "us" /\ TouchedBy("DONT") = "us" /\ Opposite(TouchedBy(v)) = "us"
        /\ "DO" \in Verbs /\ "DONT" \in Verbs
    BY <1>1 DEF TouchedBy, Opposite, Verbs
  <2> DEFINE move == OnReceived(v, supported, state)
  <2> HIDE DEF move
  <2>5. move.send \in {"none", "DO", "DONT"} /\ move.next # "WANTNO_OP"
        /\ (v = "WONT" /\ state = "WANTNO_OP" => move.next = "WANTYES")
    BY <2>1, <2>2, <2>3 DEF move
  <2>6. QED BY <2>4, <2>5 DEF move
<1>2. CASE v \in {"DO", "DONT"}
  <2>1. ASSUME NEW m \in {on_do(supported)[state], on_dont[state]}
        PROVE  m.send \in {"none", "WILL", "WONT"} /\ m.next # "WANTNO_OP"
    BY DEF on_do, on_dont
  <2>2. OnReceived(v, supported, state) \in {on_do(supported)[state], on_dont[state]}
    BY <1>2 DEF OnReceived
  <2>3. TouchedBy("WILL") = "him" /\ TouchedBy("WONT") = "him" /\ Opposite(TouchedBy(v)) = "him"
        /\ "WILL" \in Verbs /\ "WONT" \in Verbs /\ v # "WONT"
    BY <1>2 DEF TouchedBy, Opposite, Verbs
  <2> DEFINE move == OnReceived(v, supported, state)
  <2> HIDE DEF move
  <2>4. move.send \in {"none", "WILL", "WONT"} /\ move.next # "WANTNO_OP"
    BY <2>1, <2>2 DEF move
  <2>5. QED BY <2>3, <2>4 DEF move
<1>3. QED BY <1>1, <1>2 DEF Verbs

LEMMA SideTold ==
    ASSUME NEW v \in Verbs, NEW side, side = TouchedBy(v), NEW mine, NEW theirs,
           NEW toMine \in Seq(Verbs), NEW toTheirs \in Seq(Verbs),
           NEW sm \in BOOLEAN, NEW st \in BOOLEAN, NEW wm \in Wishes, NEW wt \in Wishes,
           SidesFit(side, mine, <<v>> \o toMine, theirs, toTheirs, sm, st, wm, wt),
           ~(v = "WONT" /\ mine = "WANTNO_OP")
    PROVE  LET move == OnReceived(v, sm, mine)
           IN  SidesFit(side, move.next, toMine, theirs, toTheirs \o Sent(move.send),
                        sm, st, wm, wt)
<1>1. CASE v \in {"WILL", "WONT"}
  <2>1. side = "him"
    BY <1>1 DEF TouchedBy
  <2>2. Fits(mine, <<v>> \o toMine, theirs, toTheirs, sm, st, wm, wt)
    BY <2>1 DEF SidesFit
  <2>3. LET move == OnReceived(v, sm, mine)
        IN  Fits(move.next, toMine, theirs, toTheirs \o Sent(move.send), sm, st, wm, wt)
    BY <1>1, <2>2, HimTold
  <2>4. QED BY <2>1, <2>3 DEF SidesFit
<1>2. CASE v \in {"DO", "DONT"}
  <2>1. side = "us"
    BY <1>2 DEF TouchedBy
  <2>2. Fits(theirs, toTheirs, mine, <<v>> \o toMine, st, sm, wt, wm)
    BY <2>1 DEF SidesFit
  <2>3. LET move == OnReceived(v, sm, mine)
        IN  Fits(theirs, toTheirs \o Sent(move.send), move.next, toMine, st, sm, wt, wm)
    BY <1>2, <2>2, UsTold
  <2>4. QED BY <2>1, <2>3 DEF SidesFit
<1>3. QED BY <1>1, <1>2 DEF Verbs

LEMMA SideAsks ==
    ASSUME NEW v \in Verbs, NEW side, side = TouchedByAsking(v), NEW mine, NEW theirs,
           NEW toMine \in Seq(Verbs), NEW toTheirs \in Seq(Verbs),
           NEW sm \in BOOLEAN, NEW st \in BOOLEAN, NEW wm \in Wishes, NEW wt \in Wishes,
           SidesFit(side, mine, toMine, theirs, toTheirs, sm, st, wm, wt)
    PROVE  LET move == OnAsked(v, mine)
               wished == IF v \in {"WILL", "DO"} THEN "on" ELSE "off"
           IN  /\ SidesFit(side, move.next, toMine, theirs, toTheirs \o Sent(move.send),
                           sm, st, wished, wt)
               /\ move.send \in {"none", v}
<1>1. mine \in QStates
  BY DEF SidesFit, Fits
<1>2. OnAsked(v, mine).send \in {"none", v}
  BY <1>1 DEF OnAsked, ask_enable, ask_disable, QStates, Move
<1>3. CASE v \in {"WILL", "WONT"}
  <2>1. side = "us"
    BY <1>3 DEF TouchedByAsking
  <2>2. Fits(theirs, toTheirs, mine, toMine, st, sm, wt, wm)
    BY <2>1 DEF SidesFit
  <2>3. LET move == OnAsked(v, mine)
            wished == IF v = "WILL" THEN "on" ELSE "off"
        IN  Fits(theirs, toTheirs \o Sent(move.send), move.next, toMine, st, sm, wt, wished)
    BY <1>3, <2>2, UsAsks
  <2>4. (v = "WILL") = (v \in {"WILL", "DO"})
    BY <1>3
  <2>5. QED BY <1>2, <2>1, <2>3, <2>4 DEF SidesFit
<1>4. CASE v \in {"DO", "DONT"}
  <2>1. side = "him"
    BY <1>4 DEF TouchedByAsking
  <2>2. Fits(mine, toMine, theirs, toTheirs, sm, st, wm, wt)
    BY <2>1 DEF SidesFit
  <2>3. LET move == OnAsked(v, mine)
            wished == IF v = "DO" THEN "on" ELSE "off"
        IN  Fits(move.next, toMine, theirs, toTheirs \o Sent(move.send), sm, st, wished, wt)
    BY <1>4, <2>2, HimAsks
  <2>4. (v = "DO") = (v \in {"WILL", "DO"})
    BY <1>4
  <2>5. QED BY <1>2, <2>1, <2>3, <2>4 DEF SidesFit
<1>5. QED BY <1>3, <1>4 DEF Verbs

\* What is sent behind bytes after which u is not in the middle of something.
LEMMA MoreSilent ==
    ASSUME NEW u, IsTelnet(u), NEW x \in Seq(Bytes), Reading(u, x).state = "DATA",
           NEW y \in Seq(Bytes), NEW to, Silent({"DATA"}, y, to), NEW side, NEW o
    PROVE  Told(u, x \o y, side, o) = Told(u, x, side, o)
<1> DEFINE s == Reading(u, x)
           d == Told(u, x, side, o)
<1>1. IsTelnet(s) /\ s.state = "DATA"
  BY ReadingType
<1>2. d \in Seq(Verbs)
  BY ToldType
<1>3. Told(u, x \o y, side, o) = d \o Told(s, y, side, o)
  BY ToldTwo
<1> HIDE DEF s, d
<1>4. Told(s, y, side, o) = <<>>
  BY <1>1 DEF Silent
<1>5. d \o <<>> = d
  BY <1>2
<1>6. QED BY <1>3, <1>4, <1>5 DEF d

LEMMA MoreNegotiated ==
    ASSUME NEW u, IsTelnet(u), NEW x \in Seq(Bytes), Reading(u, x).state = "DATA",
           NEW v \in Verbs, NEW b \in Bytes, NEW y, y = send_negotiate(v, b),
           NEW side, NEW o
    PROVE  /\ y \in Seq(Bytes)
           /\ Told(u, x \o y, side, o) =
                  Told(u, x, side, o) \o (IF TouchedBy(v) = side /\ b = o THEN <<v>> ELSE <<>>)
<1> DEFINE s == Reading(u, x)
<1>1. IsTelnet(s) /\ s.state = "DATA"
  BY ReadingType
<1>2. y \in Seq(Bytes)
  BY NegotiationKept DEF Negotiations
<1>3. Told(u, x \o y, side, o) = Told(u, x, side, o) \o Told(s, y, side, o)
  BY <1>2, ToldTwo
<1> HIDE DEF s
<1>4. Told(s, y, side, o) = IF TouchedBy(v) = side /\ b = o THEN <<v>> ELSE <<>>
  BY <1>1, NegotiationTold
<1>5. QED BY <1>2, <1>3, <1>4

\* The side of option o of t, of which bytes are on their way to t, fits the opposite side of
\* u, to which x is on its way; given the tables and the wishes of both.
Matched(side, o, t, bytes, u, x, supMine, supTheirs, wishMine, wishTheirs) ==
    SidesFit(side,
             Option(t, o)[side], Told(t, bytes, side, o),
             Option(u, o)[Opposite(side)], Told(u, x, Opposite(side), o),
             supMine, supTheirs, wishMine, wishTheirs)

\* A byte that neither end is told anything by.
LEMMA ByteTellsNothing ==
    ASSUME NEW side, NEW o, NEW t, IsTelnet(t), NEW v, NEW u, NEW b \in Bytes,
           NEW rest \in Seq(Bytes), NEW x \in Seq(Bytes), NEW y \in Seq(Bytes),
           NEW sm, NEW st, NEW wm, NEW wt, NEW user, IsHandler(user),
           v = telnet_recv(t, <<b>>, user).telnet,
           Matched(side, o, t, <<b>> \o rest, u, x, sm, st, wm, wt),
           Takes(t, b, side, o) = <<>>, Option(v, o)[side] = Option(t, o)[side],
           Told(u, x \o y, Opposite(side), o) = Told(u, x, Opposite(side), o)
    PROVE  Matched(side, o, v, rest, u, x \o y, sm, st, wm, wt)
<1> DEFINE d == Told(v, rest, side, o)
           c == <<b>>
<1>1. c \in Seq(Bytes)
  OBVIOUS
<1>2. Told(t, c, side, o) = <<>>
  BY ToldOne
<1>3. Told(t, c \o rest, side, o) = Told(t, c, side, o) \o d
  <2> HIDE DEF c
  <2>1. Told(t, c \o rest, side, o) =
            Told(t, c, side, o) \o Told(telnet_recv(t, c, user).telnet, rest, side, o)
    BY ONLY <1>1, IsTelnet(t), IsHandler(user), rest \in Seq(Bytes), ToldCut
  <2>2. QED BY <2>1 DEF c
<1>4. d \in Seq(Verbs)
  BY ToldType
<1> HIDE DEF d
<1>5. <<>> \o d = d
  BY <1>4
<1>6. Told(t, c \o rest, side, o) = d
  BY <1>2, <1>3, <1>5
<1>7. QED BY <1>6 DEF Matched, d

\* Whether the table of user has a side of an option.
Known(user, side, o, supports) ==
    supports \in BOOLEAN /\ supports = (<<side, o>> \in user.supported)

LEMMA ByteMatched ==
    ASSUME NEW side \in Sides, NEW o \in Bytes, NEW t, IsTelnet(t), NEW u, IsTelnet(u),
           NEW b \in Bytes, NEW rest \in Seq(Bytes), NEW x \in Seq(Bytes),
           NEW user, IsHandler(user), Silent({"DATA"}, user.on_ttype_send, {"DATA"}),
           Reading(u, x).state = "DATA",
           NEW sm, Known(user, side, o, sm),
           NEW st \in BOOLEAN, NEW wm \in Wishes, NEW wt \in Wishes,
           Matched(side, o, t, <<b>> \o rest, u, x, sm, st, wm, wt),
           ~(side = "him" /\ t.state = "WONT" /\ b = o /\ Option(t, o).him = "WANTNO_OP")
    PROVE  LET r == telnet_recv(t, <<b>>, user)
           IN  Matched(side, o, r.telnet, rest, u, x \o r.out, sm, st, wm, wt)
<1> DEFINE r == telnet_recv(t, <<b>>, user)
           v == r.telnet
           y == r.out
           opp == Opposite(side)
           d == Told(u, x, opp, o)
<1>1. IsTelnet(v) /\ y \in Seq(Bytes)
  <2> DEFINE c == <<b>>
  <2>1. c \in Seq(Bytes)
    OBVIOUS
  <2> HIDE DEF c
  <2>2. IsTelnet(telnet_recv(t, c, user).telnet) /\ telnet_recv(t, c, user).out \in Seq(Bytes)
    BY <2>1, RecvType
  <2>3. QED BY <2>2 DEF c
<1>2. IsQ(t.q) /\ sm \in BOOLEAN
  BY DEF IsTelnet, IsQ, Known
<1>3. CASE t.state \notin Verbs
  <2>1. v.q = t.q /\ y \in {<<>>, user.on_ttype_send}
    BY <1>3, OtherByte
  <2>2. Takes(t, b, side, o) = <<>>
    BY <1>3 DEF Takes
  <2>3. Option(v, o)[side] = Option(t, o)[side]
    BY <2>1 DEF Option
  <2>4. Silent({"DATA"}, y, {"DATA"})
    BY <2>1, SilentNothing
  <2> HIDE DEF y, d, v
  <2>5. Told(u, x \o y, opp, o) = Told(u, x, opp, o)
    BY <1>1, <2>4, MoreSilent
  <2> HIDE DEF opp
  <2>6. Matched(side, o, v, rest, u, x \o y, sm, st, wm, wt)
    BY <1>1, <2>2, <2>3, <2>5, ByteTellsNothing DEF v, opp
  <2>7. QED BY <2>6 DEF v, y
<1>4. CASE t.state \in Verbs
  <2> DEFINE verb == t.state
             s == TouchedBy(verb)
             move == OnReceived(verb, <<s, b>> \in user.supported, get_rfc1143(t.q, b)[s])
  <2>1. /\ v.q = moved(t.q, b, s, move.next)
        /\ y = IF move.send = "none" THEN <<>> ELSE send_negotiate(move.send, b)
    BY <1>4, OptionByte
  <2>2. s \in Sides /\ get_rfc1143(t.q, b)[s] \in QStates
    <3>1. s \in Sides
      BY DEF TouchedBy, Sides
    <3>2. QED BY <1>2, <3>1, OptionType DEF OptionT, Sides
  <2>3. /\ move.send # "none" => move.send \in Verbs /\ TouchedBy(move.send) = Opposite(s)
        /\ move \in MoveT
    BY <1>4, <2>2, AnswerSide, ReceivedType
  <2>4. Option(v, o)[side] = IF o = b /\ side = s THEN move.next ELSE Option(t, o)[side]
    <3> HIDE DEF move, v, s
    <3>1. QED BY <1>2, <2>1, <2>2, MovedOption DEF Option
  <2> HIDE DEF move, y
  <2>5. Told(u, x \o y, opp, o) =
            d \o (IF move.send # "none" /\ Opposite(s) = opp /\ b = o THEN <<move.send>> ELSE <<>>)
        /\ d \in Seq(Verbs)
    <3>1. d \in Seq(Verbs)
      BY ToldType
    <3> HIDE DEF d, opp, s
    <3>2. CASE move.send = "none"
      <4>1. y = <<>> /\ x \o <<>> = x
        BY <2>1, <3>2
      <4>2. d \o <<>> = d
        BY <3>1
      <4>3. QED BY <3>1, <3>2, <4>1, <4>2 DEF d
    <3>3. CASE move.send # "none"
      <4>1. move.send \in Verbs /\ TouchedBy(move.send) = Opposite(s)
            /\ y = send_negotiate(move.send, b)
        BY <2>1, <2>3, <3>3
      <4> DEFINE m == move.send
      <4> HIDE DEF m
      <4>2. m \in Verbs /\ TouchedBy(m) = Opposite(s) /\ y = send_negotiate(m, b)
        BY <4>1 DEF m
      <4>3. Told(u, x \o y, opp, o) =
                d \o (IF TouchedBy(m) = opp /\ b = o THEN <<m>> ELSE <<>>)
        BY ONLY <4>2, IsTelnet(u), x \in Seq(Bytes), Reading(u, x).state = "DATA",
                b \in Bytes, MoreNegotiated DEF d
      <4>4. QED BY <3>1, <3>3, <4>2, <4>3 DEF m
    <3>4. QED BY <3>2, <3>3
  <2>6. Opposite(s) = opp <=> s = side
    BY <2>2 DEF Opposite, Sides
  <2>7. CASE b = o /\ s = side
    <3> DEFINE mine == Option(t, o)[side]
               theirs == Option(u, o)[opp]
               e == Told(v, rest, side, o)
               c == <<b>>
    <3>1. Told(t, c \o rest, side, o) = <<verb>> \o e
      <4>1. Told(t, c, side, o) = Takes(t, b, side, o)
        BY ToldOne
      <4>2. Takes(t, b, side, o) = <<verb>>
        BY <1>4, <2>7 DEF Takes
      <4>3. c \in Seq(Bytes)
        OBVIOUS
      <4> HIDE DEF c, s
      <4>4. Told(t, c \o rest, side, o) =
                Told(t, c, side, o) \o Told(telnet_recv(t, c, user).telnet, rest, side, o)
        BY ONLY <4>3, IsTelnet(t), IsHandler(user), rest \in Seq(Bytes), ToldCut
      <4>5. QED BY <4>1, <4>2, <4>4 DEF c
    <3>2. SidesFit(side, mine, <<verb>> \o e, theirs, d, sm, st, wm, wt)
      BY <3>1 DEF Matched
    <3>3. move = OnReceived(verb, sm, mine)
      BY <2>7 DEF move, Option, Known
    <3>4. ~(verb = "WONT" /\ mine = "WANTNO_OP")
      <4>1. verb = "WONT" => side = "him"
        BY <2>7 DEF TouchedBy
      <4>2. QED BY <2>7, <4>1
    <3>5. e \in Seq(Verbs) /\ d \in Seq(Verbs)
      BY ToldType
    <3> DEFINE w == TouchedBy(verb)
    <3>6. SidesFit(side, move.next, e, theirs, d \o Sent(move.send), sm, st, wm, wt)
      <4>1. side = TouchedBy(verb) /\ verb \in Verbs
        BY <1>4, <2>7
      <4> HIDE DEF e, mine, theirs, verb, s, d, move
      <4>2. LET m == OnReceived(verb, sm, mine)
            IN  SidesFit(side, m.next, e, theirs, d \o Sent(m.send), sm, st, wm, wt)
        BY ONLY <1>2, <3>2, <3>4, <3>5, <4>1, SideTold, st \in BOOLEAN, wm \in Wishes,
                wt \in Wishes
      <4>3. QED BY <3>3, <4>2
    <3>7. Told(u, x \o y, opp, o) = d \o Sent(move.send)
      BY <2>5, <2>6, <2>7 DEF Sent
    <3>8. Option(v, o)[side] = move.next
      BY <2>4, <2>7
    <3> HIDE DEF move, v, y, opp
    <3>9. Matched(side, o, v, rest, u, x \o y, sm, st, wm, wt)
      BY <3>6, <3>7, <3>8 DEF Matched, opp
    <3>10. QED BY <3>9 DEF v, y
  <2>8. CASE ~(b = o /\ s = side)
    <3>1. Takes(t, b, side, o) = <<>>
      BY <2>8 DEF Takes
    <3>2. Option(v, o)[side] = Option(t, o)[side]
      BY <2>4, <2>8
    <3>3. Told(u, x \o y, opp, o) = Told(u, x, opp, o)
      <4> HIDE DEF d, opp, s
      <4>1. d \o <<>> = d
        BY <2>5
      <4>2. QED BY <2>5, <2>6, <2>8, <4>1 DEF d
    <3> HIDE DEF y, d, v, opp
    <3>4. Matched(side, o, v, rest, u, x \o y, sm, st, wm, wt)
      BY <1>1, <3>1, <3>2, <3>3, ByteTellsNothing DEF v, opp
    <3>5. QED BY <3>4 DEF v, y
  <2>9. QED BY <2>7, <2>8
<1>5. QED BY <1>3, <1>4

\* What a byte does to a request for later.
LEMMA ByteLater ==
    ASSUME NEW o \in Bytes, NEW t, IsTelnet(t), NEW b \in Bytes, NEW user, IsHandler(user)
    PROVE  LET v == telnet_recv(t, <<b>>, user).telnet
           IN  /\ Option(v, o).him = "WANTNO_OP" => Option(t, o).him = "WANTNO_OP"
               /\ t.state = "WONT" /\ b = o /\ Option(t, o).him = "WANTNO_OP" =>
                      Option(v, o).him = "WANTYES"
<1> DEFINE v == telnet_recv(t, <<b>>, user).telnet
<1>1. CASE t.state \notin Verbs
  <2>1. v.q = t.q
    BY <1>1, OtherByte
  <2>2. t.state # "WONT"
    BY <1>1 DEF Verbs
  <2>3. QED BY <2>1, <2>2 DEF Option
<1>2. CASE t.state \in Verbs
  <2> DEFINE verb == t.state
             s == TouchedBy(verb)
             state == get_rfc1143(t.q, b)[s]
             move == OnReceived(verb, <<s, b>> \in user.supported, state)
  <2>1. v.q = moved(t.q, b, s, move.next)
    BY <1>2, OptionByte
  <2>2. s \in Sides /\ IsQ(t.q) /\ "him" \in Sides
    BY DEF TouchedBy, Sides, IsTelnet, IsQ
  <2>3. state \in QStates
    BY <2>2, OptionType DEF OptionT, Sides
  <2>4. move.next # "WANTNO_OP" /\ (verb = "WONT" /\ state = "WANTNO_OP" => move.next = "WANTYES")
    BY <1>2, <2>3, AnswerSide
  <2>5. Option(v, o)["him"] = IF o = b /\ "him" = s THEN move.next ELSE Option(t, o)["him"]
    <3> HIDE DEF move, v, s
    <3>1. QED BY <2>1, <2>2, MovedOption DEF Option
  <2>6. verb = "WONT" => s = "him"
    BY DEF TouchedBy
  <2>7. b = o /\ s = "him" => state = Option(t, o)["him"]
    BY DEF Option
  <2> HIDE DEF v, move, state, s
  <2>8. QED BY <2>4, <2>5, <2>6, <2>7 DEF v
<1>3. QED BY <1>1, <1>2

\* The same of all the bytes that recv(2) gives, unless a DO that waited is lost.
LEMMA ChunkMatched ==
    ASSUME PlainTerminal, NEW p \in Peers, NEW side \in Sides, NEW o \in Bytes,
           NEW t, IsTelnet(t), NEW u, IsTelnet(u), NEW chunk \in Seq(Bytes),
           NEW rest \in Seq(Bytes), NEW x \in Seq(Bytes), Reading(u, x).state = "DATA",
           NEW sm, Known(event_handler(p), side, o, sm),
           NEW st \in BOOLEAN, NEW wm \in Wishes, NEW wt \in Wishes,
           Matched(side, o, t, chunk \o rest, u, x, sm, st, wm, wt),
           side = "him" /\ Option(t, o).him = "WANTNO_OP" =>
               \A k \in DOMAIN chunk :
                   Option(telnet_recv(t, SubSeq(chunk, 1, k), event_handler(p)).telnet, o).him
                       # "WANTYES"
    PROVE  LET r == telnet_recv(t, chunk, event_handler(p))
           IN  Matched(side, o, r.telnet, rest, u, x \o r.out, sm, st, wm, wt)
<1> DEFINE user == event_handler(p)
           At(s) == telnet_recv(t, s, user)
           Him(s) == Option(At(s).telnet, o).him
           Spared(s) == side = "him" /\ Option(t, o).him = "WANTNO_OP" =>
                           \A k \in DOMAIN s : Him(SubSeq(s, 1, k)) # "WANTYES"
           Before(s, z) == Matched(side, o, t, s \o z, u, x, sm, st, wm, wt)
           Behind(s, z) == Matched(side, o, At(s).telnet, z, u, x \o At(s).out, sm, st, wm, wt)
           T == {s \in Seq(Bytes) :
                   /\ Him(s) = "WANTNO_OP" => Option(t, o).him = "WANTNO_OP"
                   /\ Spared(s) => \A z \in Seq(Bytes) : Before(s, z) => Behind(s, z)}
<1>1. IsHandler(user) /\ Silent({"DATA"}, user.on_ttype_send, {"DATA"})
      /\ Known(user, side, o, sm)
  BY HandlerType, AnswerSilent
<1>2. <<>> \in T
  <2>1. At(<<>>) = [telnet |-> t, out |-> <<>>, events |-> <<>>]
    BY RecvNothing
  <2>2. At(<<>>).telnet = t /\ At(<<>>).out = <<>> /\ <<>> \in Seq(Bytes)
    BY <2>1
  <2>3. x \o <<>> = x /\ \A z \in Seq(Bytes) : <<>> \o z = z
    OBVIOUS
  <2> HIDE DEF At
  <2>4. QED BY <2>2, <2>3
<1>3. ASSUME NEW s \in T, NEW b \in Bytes PROVE Append(s, b) \in T
  <2> DEFINE l == Append(s, b)
             c == <<b>>
             r == At(s)
             v == r.telnet
             g == telnet_recv(v, c, user)
             n == Len(s)
  <2>1. s \in Seq(Bytes) /\ l \in Seq(Bytes) /\ c \in Seq(Bytes) /\ l = s \o c /\ n \in Nat
    <3>1. s \in Seq(Bytes)
      OBVIOUS
    <3>2. c \in Seq(Bytes) /\ Len(s) \in Nat /\ l \in Seq(Bytes)
      BY <3>1
    <3> HIDE DEF T, Bytes
    <3>3. l = s \o <<b>>
      BY ONLY <3>1, b \in Bytes
    <3>4. QED BY <3>1, <3>2, <3>3
  <2>2. /\ Him(s) = "WANTNO_OP" => Option(t, o).him = "WANTNO_OP"
        /\ Spared(s) => \A z \in Seq(Bytes) : Before(s, z) => Behind(s, z)
    OBVIOUS
  <2>3. /\ DOMAIN s = 1..n /\ DOMAIN l = 1..(n + 1) /\ SubSeq(l, 1, n + 1) = l
        /\ \A k \in 1..n : SubSeq(l, 1, k) = SubSeq(s, 1, k)
    <3>1. DOMAIN s = 1..n /\ DOMAIN l = 1..(n + 1) /\ Len(l) = n + 1
          /\ \A i \in 1..n : l[i] = s[i]
      BY <2>1
    <3>2. SubSeq(l, 1, n + 1) = l
      <4> HIDE DEF l, n
      <4>1. QED BY <2>1, <3>1
    <3>3. \A k \in 1..n : SubSeq(l, 1, k) = SubSeq(s, 1, k)
      <4>1. \A k \in 1..n : k \in 0..Len(s)
        BY <2>1
      <4>2. QED BY ONLY <2>1, <4>1, b \in Bytes, PrefixAlike
    <3>4. QED BY <3>1, <3>2, <3>3
  <2> HIDE DEF T, l, c, n
  <2>4. IsTelnet(v) /\ r.out \in Seq(Bytes)
    BY <1>1, <2>1, RecvType
  <2>5. At(l).telnet = g.telnet /\ At(l).out = r.out \o g.out
    <3>1. ReadInTurn(t, user, s, c)
      BY ONLY <1>1, <2>1, IsTelnet(t), RecvInTurn
    <3>2. QED BY ONLY <2>1, <3>1 DEF ReadInTurn
  <2>6. g.out \in Seq(Bytes)
    <3> HIDE DEF v
    <3>1. QED BY <1>1, <2>1, <2>4, RecvType
  <2>7. Reading(u, x \o r.out).state = "DATA" /\ x \o r.out \in Seq(Bytes)
    <3>1. AnswersWell(p, r.out, r.events)
      BY <2>1, Answers
    <3> DEFINE y == r.out
               f == Reading(u, x)
    <3>2. y \in Seq(Bytes) /\ Kept(y, Answered(p, Seen(r.events)))
      BY <3>1 DEF AnswersWell
    <3>3. IsTelnet(f) /\ f.state = "DATA"
      BY ReadingType
    <3> HIDE DEF y, f
    <3>4. Reading(f, y).state = "DATA"
      BY <3>2, <3>3, NobodyType DEF Kept, Reading
    <3>5. Reading(u, x \o y) = Reading(f, y)
      BY <3>2, ReadingTwo DEF f
    <3>6. x \o y \in Seq(Bytes)
      BY <3>2
    <3>7. QED BY <3>4, <3>5, <3>6 DEF y
  <2>8. /\ Him(l) = "WANTNO_OP" => Him(s) = "WANTNO_OP"
        /\ v.state = "WONT" /\ b = o /\ Him(s) = "WANTNO_OP" => Him(l) = "WANTYES"
    <3> HIDE DEF r, v, g
    <3>1. /\ Option(g.telnet, o).him = "WANTNO_OP" => Option(v, o).him = "WANTNO_OP"
          /\ v.state = "WONT" /\ b = o /\ Option(v, o).him = "WANTNO_OP" =>
                 Option(g.telnet, o).him = "WANTYES"
      BY <1>1, <2>4, ByteLater DEF g, c
    <3> HIDE DEF At
    <3>2. QED BY <2>5, <3>1 DEF v, r
  <2>9. ASSUME Spared(l), NEW z \in Seq(Bytes), Before(l, z) PROVE Behind(l, z)
    <3> DEFINE cz == c \o z
    <3>1. cz \in Seq(Bytes) /\ l \o z = s \o cz
      <4> HIDE DEF At, Bytes
      <4>1. QED BY <2>1
    <3> HIDE DEF At, cz
    <3>2. Spared(s)
      <4> SUFFICES ASSUME side = "him", Option(t, o).him = "WANTNO_OP", NEW k \in DOMAIN s
                   PROVE  Him(SubSeq(s, 1, k)) # "WANTYES"
        OBVIOUS
      <4>1. k \in 1..n /\ k \in DOMAIN l /\ SubSeq(l, 1, k) = SubSeq(s, 1, k)
        BY <2>1, <2>3
      <4>2. QED BY <2>9, <4>1
    <3>3. Behind(s, cz)
      <4>1. Before(s, cz)
        BY <2>9, <3>1
      <4>2. QED BY <2>2, <3>1, <3>2, <4>1
    <3>4. ~(side = "him" /\ v.state = "WONT" /\ b = o /\ Option(v, o).him = "WANTNO_OP")
      <4> SUFFICES ASSUME side = "him", v.state = "WONT", b = o, Him(s) = "WANTNO_OP"
                   PROVE  FALSE
        BY DEF v, r
      <4>1. Him(l) = "WANTYES" /\ Option(t, o).him = "WANTNO_OP"
        BY <2>2, <2>8
      <4>2. n + 1 \in DOMAIN l
        BY <2>1, <2>3
      <4>3. QED BY <2>3, <2>9, <4>1, <4>2
    <3> DEFINE y == r.out
               xy == x \o y
    <3>5. Matched(side, o, v, cz, u, xy, sm, st, wm, wt)
      BY <3>3 DEF v, r
    <3>6. xy \in Seq(Bytes) /\ Reading(u, xy).state = "DATA"
      BY <2>7
    <3> HIDE DEF v, xy
    <3>7. Matched(side, o, g.telnet, z, u, xy \o g.out, sm, st, wm, wt)
      <4>1. Matched(side, o, v, <<b>> \o z, u, xy, sm, st, wm, wt)
        BY <3>5 DEF cz, c
      <4> HIDE DEF user
      <4>2. LET h == telnet_recv(v, <<b>>, user)
            IN  Matched(side, o, h.telnet, z, u, xy \o h.out, sm, st, wm, wt)
        BY ONLY <1>1, <2>4, <3>4, <3>6, <4>1, ByteMatched, side \in Sides, o \in Bytes,
                IsTelnet(u), b \in Bytes, z \in Seq(Bytes), st \in BOOLEAN, wm \in Wishes,
                wt \in Wishes, ZenonT(60)
      <4>3. QED BY <4>2 DEF g, c
    <3> HIDE DEF g, y
    <3>8. xy \o g.out = x \o (y \o g.out)
      <4> DEFINE go == g.out
      <4>1. y \in Seq(Bytes) /\ go \in Seq(Bytes) /\ x \in Seq(Bytes)
        BY <2>4, <2>6 DEF y
      <4> HIDE DEF go, Bytes
      <4>2. (x \o y) \o go = x \o (y \o go)
        BY ONLY <4>1
      <4>3. QED BY <4>2 DEF xy, go
    <3>9. QED BY <2>5, <3>7, <3>8 DEF y
  <2> HIDE DEF Him, Spared, Before, Behind
  <2>10. QED BY <2>1, <2>2, <2>8, <2>9 DEF T, l
<1>4. T \in SUBSET Seq(Bytes)
  OBVIOUS
<1> HIDE DEF T
<1>5. chunk \in T
  BY <1>2, <1>3, <1>4, SeqInduction
<1>6. Before(chunk, rest) /\ Spared(chunk)
  BY <1>1
<1> HIDE DEF Before, Behind, Spared
<1>7. Behind(chunk, rest)
  BY <1>5, <1>6 DEF T
<1>8. QED BY <1>1, <1>7 DEF Behind

-----------------------------------------------------------------------------
(* Both ends agree on their options. *)

Has(p, side, o) == IF <<side, o>> \in Supported[p] THEN TRUE ELSE FALSE

LEMMA HasKnown ==
    \A p, side, o : Has(p, side, o) \in BOOLEAN /\ Known(event_handler(p), side, o, Has(p, side, o))
<1> TAKE p, side, o
<1>1. event_handler(p).supported = Supported[p]
  BY DEF event_handler
<1>2. Has(p, side, o) \in BOOLEAN /\ (Has(p, side, o) <=> <<side, o>> \in Supported[p])
  BY Zenon DEF Has
<1>3. Has(p, side, o) = (<<side, o>> \in event_handler(p).supported)
  <2>1. CASE <<side, o>> \in Supported[p]
    <3>1. Has(p, side, o) = TRUE
      BY <2>1 DEF Has
    <3>2. (<<side, o>> \in event_handler(p).supported) = TRUE
      BY <1>1, <2>1
    <3>3. QED BY <3>1, <3>2, Zenon
  <2>2. CASE <<side, o>> \notin Supported[p]
    <3>1. Has(p, side, o) = FALSE
      BY <2>2 DEF Has
    <3>2. (<<side, o>> \in event_handler(p).supported) = FALSE
      BY <1>1, <2>2
    <3>3. QED BY <3>1, <3>2, Zenon
  <2>3. QED BY <2>1, <2>2
<1>4. QED BY <1>2, <1>3, Zenon DEF Known

\* The side of an option at p fits the opposite side at the other end.
AgreeOn(tel, way, wishes, p, side, o) ==
    Matched(side, o, tel[p], way[p], tel[Other(p)], way[Other(p)],
            Has(p, side, o), Has(Other(p), Opposite(side), o),
            wishes[p][o][side], wishes[Other(p)][o][Opposite(side)])

AgreedBut(excepted, tel, way, wishes) ==
    \A p \in Peers, o \in Telopts :
        <<p, o>> \notin excepted => AgreeOn(tel, way, wishes, p, "him", o)

\* The inductive invariant.  What an end has not read is needed: the two states of an option
\* alone differ most of the time.
NegotiationInv == DeliveryInv /\ AgreedBut(lost, telnet, wire, wish)

\* The end whose him it is.
HimOf(p, side) == IF side = "him" THEN p ELSE Other(p)

\* The same, all seen from one end.
LEMMA FromOneEnd ==
    ASSUME NEW excepted, NEW tel, NEW way, NEW wishes, NEW p \in Peers
    PROVE  AgreedBut(excepted, tel, way, wishes) <=>
               \A side \in Sides, o \in Telopts :
                   <<HimOf(p, side), o>> \notin excepted => AgreeOn(tel, way, wishes, p, side, o)
<1> DEFINE q == Other(p)
<1>1. q \in Peers /\ Other(q) = p /\ \A r \in Peers : r = p \/ r = q
  BY DEF Peers, Other
<1>2. Opposite("us") = "him" /\ Opposite("him") = "us" /\ HimOf(p, "him") = p /\ HimOf(p, "us") = q
      /\ \A side \in Sides : side = "him" \/ side = "us"
  BY DEF Opposite, HimOf, Sides
<1> HIDE DEF q
<1>3. ASSUME NEW o PROVE AgreeOn(tel, way, wishes, p, "us", o) <=> AgreeOn(tel, way, wishes, q, "him", o)
  <2>1. AgreeOn(tel, way, wishes, p, "us", o) <=>
            Matched("us", o, tel[p], way[p], tel[q], way[q], Has(p, "us", o), Has(q, "him", o),
                    wishes[p][o]["us"], wishes[q][o]["him"])
    BY <1>2 DEF AgreeOn, q
  <2>2. AgreeOn(tel, way, wishes, q, "him", o) <=>
            Matched("him", o, tel[q], way[q], tel[p], way[p], Has(q, "him", o), Has(p, "us", o),
                    wishes[q][o]["him"], wishes[p][o]["us"])
    BY <1>1, <1>2 DEF AgreeOn
  <2>3. QED BY <1>2, <2>1, <2>2 DEF Matched, SidesFit
<1>4. "him" \in Sides /\ "us" \in Sides
  BY DEF Sides
<1>5. QED BY <1>1, <1>2, <1>3, <1>4 DEF AgreedBut

LEMMA FlowReading ==
    ASSUME NEW t, IsTelnet(t), NEW user, IsHandler(user), NEW a \in Seq(Bytes), NEW x,
           Flows(t, a, user, x)
    PROVE  Reading(t, a).state = "DATA"
<1>1. telnet_recv(t, a, user).telnet.state = "DATA"
  BY DEF Flows
<1>2. QED BY <1>1, ReadingAlike

LEMMA EndsTypes ==
    ASSUME DeliveryInv, NEW p \in Peers
    PROVE  /\ IsTelnet(telnet[p]) /\ wire[p] \in Seq(Bytes)
           /\ Reading(telnet[p], wire[p]).state = "DATA"
           /\ \A o \in Telopts, side \in Sides : wish[p][o][side] \in Wishes
<1>1. IsTelnet(telnet[p]) /\ wire[p] \in Seq(Bytes) /\ Flowing(p)
  BY DEF DeliveryInv, PeersTypeOK
<1>2. Reading(telnet[p], wire[p]).state = "DATA"
  BY <1>1, HandlerType, FlowReading DEF Flowing
<1>3. ASSUME NEW o \in Telopts, NEW side \in Sides PROVE wish[p][o][side] \in Wishes
  <2>1. wish[p] \in [Telopts -> [us : Wishes, him : Wishes]]
    BY DEF DeliveryInv, PeersTypeOK
  <2>2. wish[p][o] \in [us : Wishes, him : Wishes]
    BY <2>1
  <2>3. QED BY <2>2 DEF Sides
<1>4. QED BY <1>1, <1>2, <1>3

LEMMA NegotiationInit == PeersInit => NegotiationInv
<1> SUFFICES ASSUME PeersInit PROVE NegotiationInv
  OBVIOUS
<1>1. DeliveryInv
  BY DeliveryInit
<1>2. ASSUME NEW p \in Peers, NEW o \in Telopts PROVE AgreeOn(telnet, wire, wish, p, "him", o)
  <2> DEFINE q == Other(p)
             t == telnet_init
  <2>1. /\ telnet[p] = t /\ telnet[q] = t /\ wire[p] = <<>> /\ wire[q] = <<>>
        /\ wish[p][o]["him"] = "nothing" /\ wish[q][o]["us"] = "nothing"
    BY Ends DEF PeersInit
  <2>2. Option(t, o).him = "NO" /\ Option(t, o).us = "NO"
    BY DEF Option, get_rfc1143, telnet_init
  <2>3. Told(t, <<>>, "him", o) = <<>> /\ Told(t, <<>>, "us", o) = <<>> /\ Opposite("him") = "us"
    BY ToldNothing DEF Opposite
  <2> DEFINE sm == Has(p, "him", o)
             st == Has(q, "us", o)
  <2>4. sm \in BOOLEAN /\ st \in BOOLEAN
    BY DEF Has
  <2> HIDE DEF sm, st, t, q
  <2>5. Fits("NO", <<>>, "NO", <<>>, sm, st, "nothing", "nothing")
    BY <2>4, FitsAtFirst
  <2>6. AgreeOn(telnet, wire, wish, p, "him", o) <=>
            Matched("him", o, t, <<>>, t, <<>>, sm, st, "nothing", "nothing")
    BY <2>1, <2>3 DEF AgreeOn, sm, st, q
  <2>7. Matched("him", o, t, <<>>, t, <<>>, sm, st, "nothing", "nothing")
    BY <2>2, <2>3, <2>5 DEF Matched, SidesFit
  <2>8. QED BY <2>6, <2>7
<1>3. QED BY <1>1, <1>2 DEF NegotiationInv, AgreedBut

LEMMA SendsAgreed ==
    ASSUME CallsAreSends, NegotiationInv, NEW p \in Peers, UserSends(p)
    PROVE  NegotiationInv'
<1> DEFINE q == Other(p)
<1>1. DeliveryInv /\ DeliveryInv'
  BY SendsDelivered DEF NegotiationInv
<1>2. PICK call \in Calls[p] : wire' = [wire EXCEPT ![q] = @ \o call.bytes]
  BY DEF UserSends
<1>3. telnet' = telnet /\ wish' = wish /\ lost' = lost
  BY DEF UserSends
<1>4. q \in Peers /\ q # p
  BY Ends
<1> DEFINE a == call.bytes
<1>5. a \in Seq(Bytes) /\ \E to : Silent({"DATA"}, a, to)
  BY CallKept, CallSilent
<1>6. wire'[p] = wire[p] /\ wire'[q] = wire[q] \o a
  <2>1. DOMAIN wire = Peers
    BY <1>1 DEF DeliveryInv, PeersTypeOK
  <2>2. QED BY <1>2, <1>4, <2>1
<1>7. IsTelnet(telnet[q]) /\ wire[q] \in Seq(Bytes) /\ Reading(telnet[q], wire[q]).state = "DATA"
  BY <1>1, <1>4, EndsTypes
<1>8. ASSUME NEW side, NEW o
      PROVE  Told(telnet[q], wire'[q], side, o) = Told(telnet[q], wire[q], side, o)
  <2> HIDE DEF q, a
  <2>1. QED BY <1>5, <1>6, <1>7, MoreSilent
<1> HIDE DEF a
<1>9. ASSUME NEW side \in Sides, NEW o \in Telopts, <<HimOf(p, side), o>> \notin lost'
      PROVE  AgreeOn(telnet', wire', wish', p, side, o)
  <2>1. AgreeOn(telnet, wire, wish, p, side, o)
    BY <1>3, <1>9, FromOneEnd DEF NegotiationInv
  <2>2. QED BY <1>3, <1>6, <1>8, <2>1 DEF AgreeOn, Matched
<1>10. QED BY <1>1, <1>9, FromOneEnd DEF NegotiationInv

LEMMA ReceiveAgreed ==
    ASSUME PlainTerminal, NegotiationInv, NEW p \in Peers, Receive(p)
    PROVE  NegotiationInv'
<1> DEFINE q == Other(p)
           user == event_handler(p)
           Got(n) == telnet_recv(telnet[p], SubSeq(wire[p], 1, n), user)
<1>1. DeliveryInv /\ DeliveryInv'
  BY ReceiveDelivered DEF NegotiationInv
<1>2. PICK n \in 1..RecvBuffer :
          /\ n <= Len(wire[p])
          /\ telnet' = [telnet EXCEPT ![p] = Got(n).telnet]
          /\ wire' = [wire EXCEPT ![p] = SubSeq(@, n + 1, Len(@)),
                                  ![q] = @ \o Got(n).out]
          /\ lost' = lost \cup {<<p, o>> : o \in LosesDo(p, SubSeq(wire[p], 1, n))}
  BY DEF Receive
<1> DEFINE t == telnet[p]
           w == wire[p]
           a == SubSeq(w, 1, n)
           b == SubSeq(w, n + 1, Len(w))
           u == telnet[q]
           x == wire[q]
           r == telnet_recv(t, a, user)
<1>3. wish' = wish
  BY DEF Receive
<1>4. q \in Peers /\ q # p
  BY Ends
<1>5. /\ IsTelnet(t) /\ w \in Seq(Bytes)
      /\ IsTelnet(u) /\ x \in Seq(Bytes) /\ Reading(u, x).state = "DATA"
  BY <1>1, <1>4, EndsTypes
<1>6. a \in Seq(Bytes) /\ b \in Seq(Bytes) /\ w = a \o b
  <2>1. w \in Seq(Bytes) /\ n <= Len(w)
    BY <1>2, <1>5
  <2> HIDE DEF w
  <2>2. QED BY <2>1, CutType
<1>7. DOMAIN wire = Peers /\ DOMAIN telnet = Peers
  BY <1>1 DEF DeliveryInv, PeersTypeOK
<1>8. /\ telnet' = [telnet EXCEPT ![p] = r.telnet]
      /\ wire' = [wire EXCEPT ![p] = b, ![q] = @ \o r.out]
      /\ lost' = lost \cup {<<p, o>> : o \in LosesDo(p, a)}
  BY <1>2
<1> HIDE DEF Got, q, r, b
<1>9. telnet'[p] = r.telnet /\ telnet'[q] = u /\ wire'[p] = b /\ wire'[q] = x \o r.out
  BY <1>4, <1>7, <1>8
<1>10. ASSUME NEW side \in Sides, NEW o \in Telopts, <<HimOf(p, side), o>> \notin lost'
       PROVE  AgreeOn(telnet', wire', wish', p, side, o)
  <2> DEFINE sm == Has(p, side, o)
             st == Has(q, Opposite(side), o)
             wm == wish[p][o][side]
             wt == wish[q][o][Opposite(side)]
  <2>1. AgreeOn(telnet, wire, wish, p, side, o)
    <3>1. <<HimOf(p, side), o>> \notin lost
      BY <1>8, <1>10
    <3>2. QED BY <3>1, FromOneEnd DEF NegotiationInv
  <2>2. Matched(side, o, t, a \o b, u, x, sm, st, wm, wt)
    <3>1. Matched(side, o, t, w, u, x, sm, st, wm, wt)
      BY <2>1 DEF AgreeOn, q
    <3>2. QED BY <1>6, <3>1
  <2>3. /\ Known(user, side, o, sm) /\ st \in BOOLEAN /\ wm \in Wishes /\ wt \in Wishes
        /\ o \in Bytes
    <3>1. Opposite(side) \in Sides
      BY DEF Opposite, Sides
    <3>2. wm \in Wishes /\ wt \in Wishes
      BY <1>1, <1>4, <3>1, EndsTypes
    <3>3. Known(user, side, o, sm) /\ st \in BOOLEAN
      BY HasKnown
    <3>4. QED BY <3>2, <3>3, PeersAssumption
  <2>4. side = "him" /\ Option(t, o).him = "WANTNO_OP" =>
            \A k \in DOMAIN a :
                Option(telnet_recv(t, SubSeq(a, 1, k), user).telnet, o).him # "WANTYES"
    <3> SUFFICES ASSUME side = "him", Option(t, o).him = "WANTNO_OP", NEW k \in DOMAIN a,
                        Option(telnet_recv(t, SubSeq(a, 1, k), user).telnet, o).him = "WANTYES"
                 PROVE  FALSE
      OBVIOUS
    <3>1. o \in LosesDo(p, a)
      BY DEF LosesDo
    <3>2. HimOf(p, side) = p
      BY DEF HimOf
    <3>3. QED BY <1>8, <1>10, <3>1, <3>2
  <2> HIDE DEF t, u, x, a, w, sm, st, wm, wt
  <2>5. LET h == telnet_recv(t, a, user)
        IN  Matched(side, o, h.telnet, b, u, x \o h.out, sm, st, wm, wt)
    BY ONLY <1>5, <1>6, <2>2, <2>3, <2>4, ChunkMatched, PlainTerminal, p \in Peers,
            side \in Sides, ZenonT(60)
  <2>6. Matched(side, o, r.telnet, b, u, x \o r.out, sm, st, wm, wt)
    BY <2>5 DEF r
  <2>7. QED BY <1>3, <1>9, <2>6 DEF AgreeOn, sm, st, wm, wt, q
<1>11. QED BY <1>1, <1>10, FromOneEnd DEF NegotiationInv

LEMMA AsksAgreed ==
    ASSUME NegotiationInv, NEW p \in Peers, UserAsks(p)
    PROVE  NegotiationInv'
<1> DEFINE q == Other(p)
<1>1. DeliveryInv /\ DeliveryInv'
  BY AsksDelivered DEF NegotiationInv
<1>2. PICK verb \in Verbs, option \in Telopts :
          LET asked == telnet_negotiate(telnet[p], verb, option)
          IN /\ telnet' = [telnet EXCEPT ![p] = asked.telnet]
             /\ wire' = [wire EXCEPT ![q] = @ \o asked.out]
             /\ wish' = [wish EXCEPT ![p][option][TouchedByAsking(verb)] =
                             IF verb \in {"WILL", "DO"} THEN "on" ELSE "off"]
  BY DEF UserAsks
<1> DEFINE t == telnet[p]
           w == wire[p]
           u == telnet[q]
           x == wire[q]
           s == TouchedByAsking(verb)
           wished == IF verb \in {"WILL", "DO"} THEN "on" ELSE "off"
           move == OnAsked(verb, Option(t, option)[s])
           asked == telnet_negotiate(t, verb, option)
           v == asked.telnet
           y == asked.out
<1>3. lost' = lost
  BY DEF UserAsks
<1>4. q \in Peers /\ q # p /\ option \in Bytes /\ s \in Sides
  BY Ends, PeersAssumption DEF TouchedByAsking, Sides
<1>5. /\ IsTelnet(t) /\ w \in Seq(Bytes)
      /\ IsTelnet(u) /\ x \in Seq(Bytes) /\ Reading(u, x).state = "DATA"
  BY <1>1, <1>4, EndsTypes
<1>6. DOMAIN wire = Peers /\ DOMAIN telnet = Peers
      /\ wish \in [Peers -> [Telopts -> [us : Wishes, him : Wishes]]]
  BY <1>1 DEF DeliveryInv, PeersTypeOK
<1>7. /\ v = [t EXCEPT !.q = moved(@, option, s, move.next)]
      /\ y = IF move.send = "none" THEN <<>> ELSE send_negotiate(move.send, option)
  BY DEF telnet_negotiate, Option
<1>8. /\ v.state = t.state /\ v.sb_telopt = t.sb_telopt /\ v.buffer = t.buffer
      /\ v.q = moved(t.q, option, s, move.next) /\ IsQ(t.q)
  <2>1. DOMAIN t = {"state", "sb_telopt", "buffer", "q"} /\ IsQ(t.q)
    BY <1>5 DEF IsTelnet, IsQ
  <2> HIDE DEF t, v, move, s
  <2>2. QED BY <1>7, <2>1
<1>9. /\ telnet' = [telnet EXCEPT ![p] = v] /\ wire' = [wire EXCEPT ![q] = @ \o y]
      /\ wish' = [wish EXCEPT ![p][option][s] = wished]
  BY <1>2
<1> HIDE DEF q, v, y, s, wished
<1>10. telnet'[p] = v /\ telnet'[q] = u /\ wire'[p] = w /\ wire'[q] = x \o y
  BY <1>4, <1>6, <1>9
<1>11. IsTelnet(v)
  <2>1. IsTelnet(telnet'[p])
    BY <1>1 DEF DeliveryInv, PeersTypeOK
  <2>2. QED BY <1>10, <2>1
<1>12. ASSUME NEW side \in Sides, NEW o \in Telopts
       PROVE  /\ wish'[q][o][Opposite(side)] = wish[q][o][Opposite(side)]
              /\ wish'[p][o][side] = IF o = option /\ side = s THEN wished ELSE wish[p][o][side]
  <2>1. wish'[q] = wish[q] /\ wish'[p] = [wish[p] EXCEPT ![option][s] = wished]
    BY <1>4, <1>6, <1>9
  <2>2. wish[p] \in [Telopts -> [us : Wishes, him : Wishes]]
    BY <1>6
  <2>3. wish'[p][o] = IF o = option THEN [wish[p][o] EXCEPT ![s] = wished] ELSE wish[p][o]
    BY <2>1, <2>2
  <2>4. DOMAIN wish[p][o] = Sides
    BY <2>2 DEF Sides
  <2>5. QED BY <2>1, <2>3, <2>4
<1>13. ASSUME NEW side \in Sides, NEW o \in Telopts, <<HimOf(p, side), o>> \notin lost'
       PROVE  AgreeOn(telnet', wire', wish', p, side, o)
  <2> DEFINE opp == Opposite(side)
             sm == Has(p, side, o)
             st == Has(q, opp, o)
             wm == wish[p][o][side]
             wt == wish[q][o][opp]
             d == Told(u, x, opp, o)
             e == Told(t, w, side, o)
             mine == Option(t, o)[side]
             theirs == Option(u, o)[opp]
  <2>1. AgreeOn(telnet, wire, wish, p, side, o)
    BY <1>3, <1>13, FromOneEnd DEF NegotiationInv
  <2>2. SidesFit(side, mine, e, theirs, d, sm, st, wm, wt)
    BY <2>1 DEF AgreeOn, Matched, q
  <2>3. sm \in BOOLEAN /\ st \in BOOLEAN /\ wm \in Wishes /\ wt \in Wishes /\ opp \in Sides
        /\ d \in Seq(Verbs) /\ e \in Seq(Verbs)
    <3>1. opp \in Sides
      BY DEF Opposite, Sides
    <3>2. wm \in Wishes /\ wt \in Wishes
      BY <1>1, <1>4, <3>1, EndsTypes
    <3>3. d \in Seq(Verbs) /\ e \in Seq(Verbs)
      <4> HIDE DEF t, u, x, w
      <4>1. QED BY <1>5, ToldType
    <3>4. QED BY <3>1, <3>2, <3>3, HasKnown
  <2>4. Told(v, w, side, o) = e
    <3> HIDE DEF t, w
    <3>1. QED BY <1>5, <1>8, <1>11, ToldAlike
  <2>5. Option(v, o)[side] = IF o = option /\ side = s THEN move.next ELSE mine
    <3> HIDE DEF t, move
    <3>1. QED BY <1>4, <1>8, MovedOption DEF Option
  <2>6. Opposite(s) = opp <=> s = side
    BY <1>4 DEF Opposite, Sides
  <2>7. TouchedBy(verb) = Opposite(s)
    BY DEF TouchedBy, TouchedByAsking, Opposite, s, Verbs
  <2>8. move.send \in {"none", verb}
    <3> DEFINE state == Option(t, option)[s]
    <3>1. state \in QStates
      BY <1>4, <1>8, OptionType DEF Option, OptionT, Sides
    <3> HIDE DEF state
    <3>2. OnAsked(verb, state).send \in {"none", verb}
      BY <3>1 DEF OnAsked, ask_enable, ask_disable, QStates, Move
    <3>3. QED BY <3>2 DEF state
  <2>9. Told(u, x \o y, opp, o) =
            d \o (IF move.send # "none" /\ Opposite(s) = opp /\ option = o THEN <<verb>> ELSE <<>>)
    <3> HIDE DEF d, opp, move, u, x
    <3>1. CASE move.send = "none"
      <4>1. y = <<>> /\ x \o <<>> = x
        BY <1>5, <1>7, <3>1
      <4>2. d \o <<>> = d
        BY <2>3
      <4>3. QED BY <3>1, <4>1, <4>2 DEF d
    <3>2. CASE move.send # "none"
      <4>1. y = send_negotiate(verb, option)
        BY <1>7, <2>8, <3>2
      <4>2. Told(u, x \o y, opp, o) =
                d \o (IF TouchedBy(verb) = opp /\ option = o THEN <<verb>> ELSE <<>>)
        BY ONLY <1>4, <1>5, <4>1, verb \in Verbs, MoreNegotiated DEF d
      <4>3. QED BY <2>7, <3>2, <4>2
    <3>3. QED BY <3>1, <3>2
  <2>10. CASE o = option /\ side = s
    <3>1. /\ SidesFit(side, move.next, e, theirs, d \o Sent(move.send), sm, st, wished, wt)
      <4>1. move = OnAsked(verb, mine) /\ side = TouchedByAsking(verb)
            /\ wished = IF verb \in {"WILL", "DO"} THEN "on" ELSE "off"
        BY <2>10 DEF s, wished
      <4> HIDE DEF e, d, sm, st, wm, wt, theirs, mine, move
      <4>2. LET m == OnAsked(verb, mine)
                z == IF verb \in {"WILL", "DO"} THEN "on" ELSE "off"
            IN  SidesFit(side, m.next, e, theirs, d \o Sent(m.send), sm, st, z, wt)
        BY ONLY <2>2, <2>3, <4>1, verb \in Verbs, SideAsks
      <4>3. QED BY <4>1, <4>2
    <3>2. Told(u, x \o y, opp, o) = d \o Sent(move.send)
      BY <2>6, <2>8, <2>9, <2>10 DEF Sent
    <3>3. Option(v, o)[side] = move.next /\ wish'[p][o][side] = wished
          /\ wish'[q][o][opp] = wt
      BY <1>12, <2>5, <2>10
    <3> HIDE DEF move, u, x, w, d, t, e
    <3>4. SidesFit(side, Option(v, o)[side], Told(v, w, side, o), theirs, Told(u, x \o y, opp, o),
                   sm, st, wish'[p][o][side], wish'[q][o][opp])
      BY <2>4, <3>1, <3>2, <3>3
    <3>5. QED BY <1>10, <3>4 DEF AgreeOn, Matched, q
  <2>11. CASE ~(o = option /\ side = s)
    <3>1. Told(u, x \o y, opp, o) = d
      <4> HIDE DEF d, opp, move
      <4>1. d \o <<>> = d
        BY <2>3
      <4>2. QED BY <2>6, <2>9, <2>11, <4>1
    <3>2. Option(v, o)[side] = mine /\ wish'[p][o][side] = wm /\ wish'[q][o][opp] = wt
      BY <1>12, <2>5, <2>11
    <3> HIDE DEF move, u, x, w, d, t, e, mine
    <3>3. SidesFit(side, Option(v, o)[side], Told(v, w, side, o), theirs, Told(u, x \o y, opp, o),
                   sm, st, wish'[p][o][side], wish'[q][o][opp])
      BY <2>2, <2>4, <3>1, <3>2
    <3>4. QED BY <1>10, <3>3 DEF AgreeOn, Matched, q
  <2>12. QED BY <2>10, <2>11
<1>14. QED BY <1>1, <1>13, FromOneEnd DEF NegotiationInv

LEMMA NegotiationStep ==
    ASSUME CallsAreSends, PlainTerminal
    PROVE  NegotiationInv /\ [Next]_vars => NegotiationInv'
<1> SUFFICES ASSUME NegotiationInv, [Next]_vars PROVE NegotiationInv'
  OBVIOUS
<1>1. CASE UNCHANGED vars
  <2>1. PeersTypeOK'
    BY <1>1, TypeStep DEF NegotiationInv, DeliveryInv
  <2>2. DeliveryInv'
    BY <1>1, <2>1 DEF vars, NegotiationInv, DeliveryInv, Flowing
  <2>3. QED BY <1>1, <2>2 DEF vars, NegotiationInv, AgreedBut
<1>2. ASSUME NEW p \in Peers, UserSends(p) PROVE NegotiationInv'
  BY <1>2, SendsAgreed
<1>3. ASSUME NEW p \in Peers, UserAsks(p) PROVE NegotiationInv'
  BY <1>3, AsksAgreed
<1>4. ASSUME NEW p \in Peers, Receive(p) PROVE NegotiationInv'
  BY <1>4, ReceiveAgreed
<1>5. QED BY <1>1, <1>2, <1>3, <1>4 DEF Next

\* When nothing is on its way, each option stands as at rest.
LEMMA AtRest ==
    ASSUME NegotiationInv, Quiet, NEW p \in Peers, NEW o \in Telopts, <<p, o>> \notin lost
    PROVE  LET him == Theirs(p, o)
               us == Mine(Other(p), o)
           IN  /\ him = us /\ him \in {"YES", "NO"}
               /\ AsAsked(him = "YES", Has(p, "him", o), Has(Other(p), "us", o),
                          wish[p][o].him, wish[Other(p)][o].us)
<1> DEFINE q == Other(p)
           t == telnet[p]
           u == telnet[q]
           him == Option(t, o).him
           us == Option(u, o).us
           sm == Has(p, "him", o)
           st == Has(q, "us", o)
           wm == wish[p][o].him
           wt == wish[q][o].us
<1>1. AgreeOn(telnet, wire, wish, p, "him", o)
  BY DEF NegotiationInv, AgreedBut
<1>2. Opposite("him") = "us" /\ q \in Peers /\ "him" \in Sides /\ "us" \in Sides
  BY Ends DEF Opposite, Sides
<1>3. Fits(him, Told(t, wire[p], "him", o), us, Told(u, wire[q], "us", o), sm, st, wm, wt)
  BY <1>1, <1>2 DEF AgreeOn, Matched, SidesFit
<1>4. wire[p] = <<>> /\ wire[q] = <<>>
  BY <1>2 DEF Quiet
<1>5. Told(t, wire[p], "him", o) = <<>> /\ Told(u, wire[q], "us", o) = <<>>
  BY <1>4, ToldNothing
<1>6. sm \in BOOLEAN /\ st \in BOOLEAN /\ wm \in Wishes /\ wt \in Wishes
  <2>1. wm \in Wishes /\ wt \in Wishes
    BY <1>2, EndsTypes DEF NegotiationInv
  <2>2. QED BY <2>1, HasKnown
<1> HIDE DEF him, us, sm, st, wm, wt, t, u, q
<1>7. /\ him = us /\ him \in {"YES", "NO"}
      /\ AsAsked(him = "YES", sm, st, wm, wt)
  <2>1. Fits(him, <<>>, us, <<>>, sm, st, wm, wt)
    BY <1>3, <1>5
  <2>2. QED BY <1>6, <2>1, FitsAtRest
<1>8. QED BY <1>7 DEF him, us, sm, st, wm, wt, t, u, q, Theirs, Mine

\* libtelnet.c:330-475, 1188-1254: whatever the users ask for and send, at both ends, and however
\* the bytes are cut, the requests that cross on the way leave the two ends of every option in
\* the same state, and neither waiting; unless the one that asked has lost a DO that it had
\* noted for later.
THEOREM EndsAgree ==
    ASSUME CallsAreSends, PlainTerminal
    PROVE  Spec => []SettledAgree
<1>1. NegotiationInv => SettledAgree
  BY AtRest DEF SettledAgree
<1>2. QED BY <1>1, NegotiationInit, NegotiationStep, PTL DEF Spec

\* libtelnet.c:354-474, 1188-1254: the state that an option is left in is what its two ends asked
\* for: on only if each supports it or asked for it last, and on if both support it and one asked
\* for it, or one asked for what the other supports, and none of them refused it after that.
THEOREM EndsAsAsked ==
    ASSUME CallsAreSends, PlainTerminal
    PROVE  Spec => []SettledAsAsked
<1>1. NegotiationInv => SettledAsAsked
  <2> SUFFICES ASSUME NegotiationInv, Quiet, NEW p \in Peers, NEW o \in Telopts, <<p, o>> \notin lost
               PROVE  AsAsked(Theirs(p, o) = "YES",
                              <<"him", o>> \in Supported[p], <<"us", o>> \in Supported[Other(p)],
                              wish[p][o].him, wish[Other(p)][o].us)
    BY DEF SettledAsAsked
  <2>1. AsAsked(Theirs(p, o) = "YES", Has(p, "him", o), Has(Other(p), "us", o),
                wish[p][o].him, wish[Other(p)][o].us)
    BY AtRest
  <2>2. QED BY <2>1 DEF AsAsked, Has
<1>2. QED BY <1>1, NegotiationInit, NegotiationStep, PTL DEF Spec
=============================================================================
