---------------------------- MODULE DListProofs ----------------------------
(***************************************************************************)
(* For any number of nodes and data: the links of a DList stay consistent   *)
(* and its nodes and data are owned, through every sequence of calls; and   *)
(* a DList implements a DataList.                                           *)
(***************************************************************************)
EXTENDS DList, SequenceTheorems, TLAPS

USE ListAssumption

-----------------------------------------------------------------------------
(* The inductive invariant. *)

\* A new list has the types and the invariant.
LEMMA ListInit == DListInit => DListTypeOK /\ DListInvariant
<1> SUFFICES ASSUME DListInit PROVE DListTypeOK /\ DListInvariant
  OBVIOUS
<1> USE DEF DListInit, NoArg, NoResult
<1>1. order = <<>> /\ Len(order) = 0 /\ order \in Seq(Nodes) /\ <<>> \in Seq(Data \cup {NULL})
  OBVIOUS
<1>2. DListTypeOK
  BY <1>1 DEF DListTypeOK, HeapTypes, LoopTypes, GetNode, Nodes
<1>3. Linked
  BY <1>1 DEF Linked, Distinct, FirstLinked, NextLinked, PrevLinked, Counted
<1>4. HeapOwned
  BY <1>1 DEF HeapOwned, LinkedNodes, Pending
<1>5. Walking /\ CallInProgress
  BY DEF Walking, CallInProgress, GetNode
<1>6. QED BY <1>2, <1>3, <1>4, <1>5 DEF DListInvariant

\* A step that leaves the list and the heap as they are, and neither begins nor goes
\* on with a walk to a position, keeps the invariant.
LEMMA QuietStep ==
    ASSUME DListTypeOK, DListInvariant, UNCHANGED <<list, heap>>,
           pc \notin {"insert", "destroy", "destroyed"},
           pc' \in {"idle", "find", "foreach", "dead"}
    PROVE  DListInvariant'
<1> USE DEF DListInvariant, list, heap
<1>1. Linked'
  BY DEF Linked, Distinct, FirstLinked, NextLinked, PrevLinked, Counted
<1>2. HeapOwned'
  BY DEF HeapOwned, LinkedNodes, Pending
<1>3. Walking' /\ CallInProgress'
  BY DEF Walking, CallInProgress, GetNode
<1>4. QED BY <1>1, <1>2, <1>3

\* Next from a node of the list is the node of the next position, or the end.
LEMMA WalkStep ==
    ASSUME DListTypeOK, DListInvariant, dlist_get_node_next
    PROVE  DListInvariant'
<1> USE DEF DListInvariant, dlist_get_node_next, list, heap
<1>1. Linked'
  BY DEF Linked, Distinct, FirstLinked, NextLinked, PrevLinked, Counted, GetNode
<1>2. HeapOwned'
  <2>1. LinkedNodes' = LinkedNodes /\ Pending' = Pending
    BY DEF LinkedNodes, Pending
  <2>2. QED BY <2>1 DEF HeapOwned
<1>3. CallInProgress'
  BY DEF CallInProgress
<1>4. Walking'
  <2>1. order # <<>> /\ Position \in 1..Len(order) /\ iter = order[Position]
    BY DEF Walking
  <2>2. Position # Len(order) /\ next[iter] = order[Position + 1]
    BY <2>1 DEF Linked, NextLinked
  <2>3. Position' = Position + 1 /\ index' \in 0..arg'.index
    BY <2>1 DEF Position, DListTypeOK, HeapTypes, LoopTypes, Walking
  <2>4. Position \in Int /\ Len(order) \in Nat
    BY <2>1 DEF DListTypeOK, HeapTypes, LoopTypes
  <2>5. Position' \in 1..Len(order') /\ iter' = order'[Position']
    BY <2>1, <2>2, <2>3, <2>4
  <2>6. QED BY <2>1, <2>3, <2>5 DEF Walking
<1>5. QED BY <1>1, <1>2, <1>3, <1>4

\* Every call that begins with its loop is at the first node.
LEMMA CallStep ==
    ASSUME DListTypeOK, DListInvariant, ListCall
    PROVE  DListInvariant'
<1> USE DEF DListInvariant, list, heap
<1>0. pc = "idle" /\ iter' = head /\ index' = arg'.index /\ arg'.index \in Nat
      /\ pc' \in {"delete", "get", "set", "find", "foreach", "destroy"}
      /\ UNCHANGED <<list, heap>>
      /\ (pc' = "set" => arg'.value \in Data \ live)
  <2> DEFINE Begun == /\ pc = "idle" /\ iter' = head /\ index' = arg'.index
                      /\ arg'.index \in Nat
                      /\ pc' \in {"delete", "get", "set", "find", "foreach", "destroy"}
                      /\ (pc' = "set" => arg'.value \in Data \ live)
  <2>1. \A i \in Indices : i \in Nat
    BY DEF Indices
  <2>2. ASSUME NEW i \in Indices, NEW op \in {"delete", "get"},
               Call(op, [NoArg EXCEPT !.index = i])
        PROVE  Begun
    BY <2>1, <2>2 DEF Call, NoArg
  <2>3. ASSUME NEW i \in Indices, NEW d \in Data \ live,
               Call("set", [NoArg EXCEPT !.index = i, !.value = d])
        PROVE  Begun
    BY <2>1, <2>3 DEF Call, NoArg
  <2>4. ASSUME NEW d \in Data, Call("find", [NoArg EXCEPT !.value = d])
        PROVE  Begun
    BY <2>4 DEF Call, NoArg
  <2>5. ASSUME NEW op \in {"foreach", "destroy"}, Call(op, NoArg)
        PROVE  Begun
    BY <2>5 DEF Call, NoArg
  <2>6. Begun
    <3> HIDE DEF Begun
    <3>1. QED BY <2>2, <2>3, <2>4, <2>5 DEF ListCall
  <2>7. QED BY <2>6 DEF ListCall
<1>1. Linked'
  BY <1>0 DEF Linked, Distinct, FirstLinked, NextLinked, PrevLinked, Counted
<1>2. HeapOwned'
  BY <1>0 DEF HeapOwned, LinkedNodes, Pending
<1>3. CallInProgress'
  BY <1>0 DEF CallInProgress
<1>4. Walking'
  <2>1. Position' = 1
    BY <1>0 DEF Position
  <2>2. IF order = <<>> THEN head = NULL ELSE head = order[1] /\ Len(order) \in Nat \ {0}
    BY <1>0 DEF Linked, FirstLinked, DListTypeOK, HeapTypes, LoopTypes
  <2>3. QED BY <1>0, <2>1, <2>2 DEF Walking
<1>5. QED BY <1>1, <1>2, <1>3, <1>4

-----------------------------------------------------------------------------
(* The steps that change the links. *)

\* When a node is inserted in the order, the nodes in the list are those of before and
\* the new one.
LEMMA NodesAfterInsert ==
    ASSUME order \in Seq(Nodes), NEW p \in 1..(Len(order) + 1), NEW n,
           Len(order') = Len(order) + 1,
           \A i \in 1..(Len(order) + 1) :
               order'[i] = IF i < p THEN order[i] ELSE IF i = p THEN n ELSE order[i - 1]
    PROVE  LinkedNodes' = LinkedNodes \cup {n}
<1>1. Len(order) \in Nat
  OBVIOUS
<1>2. ASSUME NEW i \in 1..Len(order') PROVE order'[i] \in LinkedNodes \cup {n}
  <2>1. CASE i < p
    BY <1>1, <2>1 DEF LinkedNodes
  <2>2. CASE i = p
    BY <1>1, <2>2
  <2>3. CASE i > p
    <3>1. i - 1 \in 1..Len(order) /\ order'[i] = order[i - 1]
      BY <1>1, <2>3
    <3>2. QED BY <3>1 DEF LinkedNodes
  <2>4. QED BY <2>1, <2>2, <2>3
<1>3. n \in LinkedNodes'
  <2>1. p \in 1..Len(order') /\ order'[p] = n
    BY <1>1
  <2>2. QED BY <2>1 DEF LinkedNodes
<1>4. ASSUME NEW i \in 1..Len(order) PROVE order[i] \in LinkedNodes'
  <2>1. CASE i < p
    <3>1. i \in 1..Len(order') /\ order'[i] = order[i]
      BY <1>1, <2>1
    <3>2. QED BY <3>1 DEF LinkedNodes
  <2>2. CASE i >= p
    <3>1. i + 1 \in 1..Len(order') /\ order'[i + 1] = order[i]
      BY <1>1, <2>2
    <3>2. QED BY <3>1 DEF LinkedNodes
  <2>3. QED BY <2>1, <2>2, <1>1
<1>5. \A m \in LinkedNodes : m \in LinkedNodes'
  BY <1>4 DEF LinkedNodes
<1>6. \A m \in LinkedNodes' : m \in LinkedNodes \cup {n}
  BY <1>2 DEF LinkedNodes
<1>7. QED BY <1>3, <1>5, <1>6

\* When a node is removed from the order, the nodes in the list are the others.
LEMMA NodesAfterRemove ==
    ASSUME order \in Seq(Nodes), NEW p \in 1..Len(order), Distinct,
           Len(order') = Len(order) - 1,
           \A i \in 1..(Len(order) - 1) :
               order'[i] = IF i < p THEN order[i] ELSE order[i + 1]
    PROVE  LinkedNodes' = LinkedNodes \ {order[p]}
<1>1. Len(order) \in Nat /\ \A i, j \in 1..Len(order) : order[i] = order[j] => i = j
  BY DEF Distinct
<1>2. ASSUME NEW i \in 1..Len(order') PROVE order'[i] \in LinkedNodes \ {order[p]}
  <2>1. CASE i < p
    <3>1. i \in 1..Len(order) /\ order'[i] = order[i] /\ i # p
      BY <1>1, <2>1
    <3>2. QED BY <1>1, <3>1 DEF LinkedNodes
  <2>2. CASE i >= p
    <3>1. i + 1 \in 1..Len(order) /\ order'[i] = order[i + 1] /\ i + 1 # p
      BY <1>1, <2>2
    <3>2. QED BY <1>1, <3>1 DEF LinkedNodes
  <2>3. QED BY <2>1, <2>2, <1>1
<1>3. ASSUME NEW i \in 1..Len(order), i # p PROVE order[i] \in LinkedNodes'
  <2>1. CASE i < p
    <3>1. i \in 1..Len(order') /\ order'[i] = order[i]
      BY <1>1, <2>1
    <3>2. QED BY <3>1 DEF LinkedNodes
  <2>2. CASE i > p
    <3>1. i - 1 \in 1..Len(order') /\ order'[i - 1] = order[i]
      BY <1>1, <2>2
    <3>2. QED BY <3>1 DEF LinkedNodes
  <2>3. QED BY <1>3, <2>1, <2>2, <1>1
<1>4. \A m \in LinkedNodes \ {order[p]} : m \in LinkedNodes'
  BY <1>3 DEF LinkedNodes
<1>5. \A m \in LinkedNodes' : m \in LinkedNodes \ {order[p]}
  BY <1>2 DEF LinkedNodes
<1>6. QED BY <1>4, <1>5

\* What the invariant says of the nodes in the list.
LEMMA ListFacts ==
    ASSUME DListTypeOK, DListInvariant
    PROVE  /\ Len(order) \in Nat
           /\ \A i \in 1..Len(order) : order[i] \in Nodes /\ order[i] \in nodes
           /\ \A i \in 1..Len(order) : order[i] # NULL
           /\ order = <<>> <=> Len(order) = 0
           /\ pc # "destroy" => (head = NULL <=> order = <<>>)
<1>1. Len(order) \in Nat /\ (order = <<>> <=> Len(order) = 0)
  BY DEF DListTypeOK, HeapTypes, LoopTypes
<1>2. \A i \in 1..Len(order) : order[i] \in Nodes /\ order[i] # NULL
  BY DEF DListTypeOK, HeapTypes, LoopTypes, Nodes, NULL
<1>3. \A i \in 1..Len(order) : order[i] \in nodes
  BY DEF DListInvariant, HeapOwned, LinkedNodes
<1>4. pc # "destroy" => (head = NULL <=> order = <<>>)
  BY <1>1, <1>2 DEF DListInvariant, Linked, FirstLinked
<1>5. QED BY <1>1, <1>2, <1>3, <1>4

\* What the invariant says of the position that a walk has ended at.
LEMMA PositionTypes ==
    ASSUME DListTypeOK, DListInvariant, pc \in GetNode, iter # NULL
    PROVE  /\ order \in Seq(Nodes) /\ order # <<>> /\ Len(order) \in Nat \ {0}
           /\ Position \in 1..Len(order)
<1>1. order # <<>> /\ Position \in 1..Len(order)
  BY DEF DListInvariant, Walking
<1>2. QED BY <1>1, ListFacts DEF DListTypeOK, HeapTypes, LoopTypes

\* An element that is inserted is at its position, and what was there and after it one
\* further.
LEMMA InsertedAt ==
    ASSUME NEW S, NEW s \in Seq(S), NEW p \in 1..(Len(s) + 1), NEW e \in S
    PROVE  /\ InsertAt(s, p, e) \in Seq(S) /\ Len(InsertAt(s, p, e)) = Len(s) + 1
           /\ \A i \in 1..(Len(s) + 1) :
                  InsertAt(s, p, e)[i] = IF i < p THEN s[i] ELSE IF i = p THEN e ELSE s[i - 1]
<1> DEFINE a == SubSeq(s, 1, p - 1)
           b == SubSeq(s, p, Len(s))
           c == a \o <<e>>
           r == InsertAt(s, p, e)
<1>1. r = c \o b
  BY DEF InsertAt
<1>2. /\ a \in Seq(S) /\ Len(a) = p - 1
      /\ \A i \in 1..(p - 1) : a[i] = s[i]
  OBVIOUS
<1>3. /\ b \in Seq(S) /\ Len(b) = Len(s) - p + 1
      /\ \A i \in 1..(Len(s) - p + 1) : b[i] = s[p + i - 1]
  OBVIOUS
<1>4. <<e>> \in Seq(S) /\ Len(<<e>>) = 1 /\ <<e>>[1] = e
  OBVIOUS
<1> HIDE DEF a, b, r
<1>5. /\ c \in Seq(S) /\ Len(c) = p
      /\ \A i \in 1..p : c[i] = IF i <= Len(a) THEN a[i] ELSE <<e>>[i - Len(a)]
  BY <1>2, <1>4, ConcatProperties
<1>6. \A i \in 1..p : c[i] = IF i < p THEN s[i] ELSE e
  BY <1>2, <1>4, <1>5
<1> HIDE DEF c
<1>7. /\ r \in Seq(S) /\ Len(r) = Len(c) + Len(b)
      /\ \A i \in 1..(Len(c) + Len(b)) : r[i] = IF i <= Len(c) THEN c[i] ELSE b[i - Len(c)]
  BY <1>1, <1>3, <1>5, ConcatProperties
<1>8. Len(c) = p /\ Len(b) = Len(s) - p + 1 /\ Len(s) \in Nat
  BY <1>3, <1>5
<1>9. ASSUME NEW i \in 1..(Len(s) + 1)
      PROVE  r[i] = IF i < p THEN s[i] ELSE IF i = p THEN e ELSE s[i - 1]
  <2>1. r[i] = IF i <= p THEN c[i] ELSE b[i - p]
    BY <1>7, <1>8
  <2>2. CASE i <= p
    BY <1>6, <1>8, <2>1, <2>2
  <2>3. CASE i > p
    <3>1. i - p \in 1..(Len(s) - p + 1) /\ p + (i - p) - 1 = i - 1
      BY <1>8, <2>3
    <3>2. b[i - p] = s[p + (i - p) - 1]
      BY <1>3, <3>1
    <3>3. QED BY <2>1, <2>3, <3>1, <3>2
  <2>4. QED BY <2>2, <2>3
<1>10. r \in Seq(S) /\ Len(r) = Len(s) + 1
  BY <1>7, <1>8
<1>11. QED BY <1>9, <1>10 DEF r

\* When an element is removed, what was after it is one before.
LEMMA RemovedAt ==
    ASSUME NEW S, NEW s \in Seq(S), NEW p \in 1..Len(s)
    PROVE  /\ RemoveAt(s, p) \in Seq(S) /\ Len(RemoveAt(s, p)) = Len(s) - 1
           /\ \A i \in 1..(Len(s) - 1) :
                  RemoveAt(s, p)[i] = IF i < p THEN s[i] ELSE s[i + 1]
<1> DEFINE a == SubSeq(s, 1, p - 1)
           b == SubSeq(s, p + 1, Len(s))
           r == RemoveAt(s, p)
<1>1. r = a \o b
  BY DEF RemoveAt
<1>2. /\ a \in Seq(S) /\ Len(a) = p - 1
      /\ \A i \in 1..(p - 1) : a[i] = s[i]
  OBVIOUS
<1>3. /\ b \in Seq(S) /\ Len(b) = Len(s) - p
      /\ \A i \in 1..(Len(s) - p) : b[i] = s[p + i]
  OBVIOUS
<1> HIDE DEF a, b, r
<1>4. /\ r \in Seq(S) /\ Len(r) = Len(a) + Len(b)
      /\ \A i \in 1..(Len(a) + Len(b)) : r[i] = IF i <= Len(a) THEN a[i] ELSE b[i - Len(a)]
  BY <1>1, <1>2, <1>3, ConcatProperties
<1>5. Len(a) = p - 1 /\ Len(b) = Len(s) - p /\ Len(s) \in Nat
  BY <1>2, <1>3
<1>6. ASSUME NEW i \in 1..(Len(s) - 1)
      PROVE  r[i] = IF i < p THEN s[i] ELSE s[i + 1]
  <2>1. r[i] = IF i <= p - 1 THEN a[i] ELSE b[i - (p - 1)]
    BY <1>4, <1>5
  <2>2. CASE i < p
    BY <1>2, <1>5, <2>1, <2>2
  <2>3. CASE i >= p
    <3>1. i - (p - 1) \in 1..(Len(s) - p) /\ p + (i - (p - 1)) = i + 1
      BY <1>5, <2>3
    <3>2. b[i - (p - 1)] = s[p + (i - (p - 1))]
      BY <1>3, <3>1
    <3>3. QED BY <2>1, <2>3, <3>1, <3>2
  <2>4. QED BY <2>2, <2>3
<1>7. r \in Seq(S) /\ Len(r) = Len(s) - 1
  BY <1>4, <1>5
<1>8. QED BY <1>6, <1>7 DEF r

\* dlist_insert: the new node is at the position of the cursor, the rest one further.
LEMMA OrderAfterInsert ==
    ASSUME DListTypeOK, DListInvariant, insert_before_cursor
    PROVE  /\ order' \in Seq(Nodes) /\ Len(order') = Len(order) + 1
           /\ \A i \in 1..(Len(order) + 1) :
                  order'[i] = IF i < Position THEN order[i]
                              ELSE IF i = Position THEN arg.node ELSE order[i - 1]
<1>1. pc = "insert" /\ iter # NULL /\ order' = InsertAt(order, Position, arg.node)
  BY DEF insert_before_cursor, AtNode
<1>2. order \in Seq(Nodes) /\ Position \in 1..(Len(order) + 1) /\ arg.node \in Nodes
  BY <1>1, PositionTypes DEF GetNode, DListInvariant, CallInProgress
<1>3. QED BY <1>1, <1>2, InsertedAt

\* dlist_delete: the node of the cursor is out, the rest one before.
LEMMA OrderAfterRemove ==
    ASSUME DListTypeOK, DListInvariant, dlist_delete, InRange
    PROVE  /\ order' \in Seq(Nodes) /\ Len(order') = Len(order) - 1
           /\ \A i \in 1..(Len(order) - 1) :
                  order'[i] = IF i < Position THEN order[i] ELSE order[i + 1]
<1>1. pc = "delete" /\ iter # NULL /\ order' = RemoveAt(order, Position)
  BY DEF dlist_delete, AtNode
<1>2. order \in Seq(Nodes) /\ Position \in 1..Len(order)
  BY <1>1, PositionTypes DEF GetNode
<1>3. QED BY <1>1, <1>2, RemovedAt

\* The start of an insertion: a node that is in no list yet, or the only one.
LEMMA InsertStep ==
    ASSUME DListTypeOK, DListInvariant, NEW i \in Indices, NEW d \in Data,
           dlist_insert(i, d)
    PROVE  DListInvariant'
<1>1. PICK n \in Nodes \ nodes :
          /\ nodes' = nodes \cup {n} /\ live' = live \cup {d}
          /\ prev' = [prev EXCEPT ![n] = NULL] /\ next' = [next EXCEPT ![n] = NULL]
          /\ data' = [data EXCEPT ![n] = d]
          /\ length' = length + 1
          /\ IF head = NULL
             THEN head' = n /\ order' = <<n>> /\ Return("insert", i, "OK", <<>>)
             ELSE /\ Call("insert", [NoArg EXCEPT !.index = i, !.value = d, !.node = n])
                  /\ UNCHANGED <<head, order>>
  BY DEF dlist_insert
<1>2. pc = "idle" /\ d \notin live
  BY DEF dlist_insert
<1>3. /\ nodes = LinkedNodes /\ live = {data[m] : m \in nodes}
      /\ \A m1, m2 \in nodes : data[m1] = data[m2] => m1 = m2
  BY <1>2 DEF DListInvariant, HeapOwned, Pending
<1>4. /\ live' = {data'[m] : m \in nodes'}
      /\ \A m1, m2 \in nodes' : data'[m1] = data'[m2] => m1 = m2
  <2>1. data'[n] = d /\ \A m \in nodes : data'[m] = data[m] /\ data[m] # d
    BY <1>1, <1>2, <1>3 DEF DListTypeOK, HeapTypes, LoopTypes
  <2>2. QED BY <1>1, <1>3, <2>1
<1>5. CASE head = NULL
  <2>1. /\ order = <<>> /\ Len(order) = 0 /\ order' = <<n>> /\ head' = n
        /\ pc' = "idle" /\ length = 0
    BY <1>1, <1>2, <1>5, ListFacts DEF Return, DListInvariant, Linked, Counted
  <2>2. Len(order') = 1 /\ order'[1] = n
    BY <2>1
  <2>3. next'[n] = NULL /\ prev'[n] = NULL
    BY <1>1 DEF DListTypeOK, HeapTypes, LoopTypes
  <2>4. Linked'
    BY <1>1, <2>1, <2>2, <2>3 DEF Linked, Distinct, FirstLinked, NextLinked, PrevLinked,
                                  Counted
  <2>5. LinkedNodes' = {n} /\ LinkedNodes = {} /\ Pending' = {}
    BY <2>1, <2>2 DEF LinkedNodes, Pending
  <2>6. HeapOwned'
    <3>1. pc' # "destroyed" /\ nodes' = nodes \cup {n} /\ n \notin nodes
      BY <1>1, <2>1
    <3>2. nodes' = LinkedNodes' \cup Pending' /\ LinkedNodes' \cap Pending' = {}
      BY <1>3, <2>5, <3>1
    <3>3. QED BY ONLY <1>4, <3>1, <3>2 DEF HeapOwned
  <2>7. QED BY <2>1, <2>4, <2>6 DEF DListInvariant, Walking, CallInProgress, GetNode
<1>6. CASE head # NULL
  <2>1. /\ order' = order /\ head' = head /\ pc' = "insert" /\ iter' = head
        /\ index' = arg'.index /\ arg'.index = i /\ arg'.node = n
    BY <1>1, <1>6 DEF Call, NoArg
  <2>2. order # <<>> /\ head = order[1] /\ Len(order) \in Nat \ {0}
    BY <1>2, <1>6, ListFacts DEF DListInvariant, Linked, FirstLinked
  <2>3. /\ next'[n] = NULL /\ prev'[n] = NULL
        /\ \A j \in 1..Len(order) : next'[order[j]] = next[order[j]]
                                    /\ prev'[order[j]] = prev[order[j]]
    BY <1>1, ListFacts DEF DListTypeOK, HeapTypes, LoopTypes
  <2>4. Linked'
    BY <1>1, <1>2, <2>1, <2>2, <2>3
       DEF DListInvariant, Linked, Distinct, FirstLinked, NextLinked, PrevLinked, Counted
  <2>5. LinkedNodes' = LinkedNodes /\ Pending' = {n}
    BY <2>1 DEF LinkedNodes, Pending
  <2>6. HeapOwned'
    <3>1. pc' # "destroyed" /\ nodes' = nodes \cup {n} /\ n \notin nodes
      BY <1>1, <2>1
    <3>2. nodes' = LinkedNodes' \cup Pending' /\ LinkedNodes' \cap Pending' = {}
      BY <1>3, <2>5, <3>1
    <3>3. QED BY ONLY <1>4, <3>1, <3>2 DEF HeapOwned
  <2>7. Walking'
    <3>1. i \in Nat
      BY DEF Indices
    <3>2. Position' = 1
      BY <2>1, <3>1 DEF Position
    <3>3. QED BY <2>1, <2>2, <3>1, <3>2 DEF Walking
  <2>8. CallInProgress'
    BY <1>1, <2>1, <2>2, <2>3 DEF CallInProgress
  <2>9. QED BY <2>4, <2>6, <2>7, <2>8 DEF DListInvariant
<1>7. QED BY <1>5, <1>6

\* The end of an insertion before the node that dlist_get_node returned.
LEMMA BeforeCursorStep ==
    ASSUME DListTypeOK, DListInvariant, insert_before_cursor
    PROVE  DListInvariant'
<1> DEFINE node == arg.node
           L == Len(order)
           p == Position
<1>1. /\ pc = "insert" /\ pc' = "idle"
      /\ order' = InsertAt(order, p, node)
      /\ UNCHANGED <<length, data, nodes, live>>
  BY DEF insert_before_cursor, AtNode, Return
<1>2. /\ L \in Nat /\ p \in 1..L /\ iter = order[p]
      /\ order # <<>> /\ head = order[1] /\ head # NULL
      /\ length = L + 1
  BY <1>1, ListFacts
     DEF DListInvariant, Walking, CallInProgress, GetNode, Linked, FirstLinked, Counted
<1>3. /\ node \in Nodes /\ next[node] = NULL /\ prev[node] = NULL
      /\ \A i \in 1..L : order[i] # node /\ order[i] \in Nodes
      /\ nodes = LinkedNodes \cup {node}
  <2>1. LinkedNodes \cap {node} = {} /\ nodes = LinkedNodes \cup {node}
    BY <1>1 DEF DListInvariant, HeapOwned, Pending
  <2>2. QED BY <1>1, <2>1, ListFacts DEF DListInvariant, CallInProgress, LinkedNodes
<1>4. \A i, j \in 1..L : order[i] = order[j] => i = j
  BY DEF DListInvariant, Linked, Distinct
<1>5. \A i \in 1..L : /\ next[order[i]] = IF i = L THEN NULL ELSE order[i + 1]
                      /\ prev[order[i]] = IF i = 1 THEN NULL ELSE order[i - 1]
  BY <1>1 DEF DListInvariant, Linked, NextLinked, PrevLinked
<1>6. order \in Seq(Nodes)
  BY DEF DListTypeOK, HeapTypes, LoopTypes
<1> HIDE DEF node, p
<1>7. /\ Len(order') = L + 1
      /\ \A i \in 1..(L + 1) : order'[i] = IF i < p THEN order[i]
                                         ELSE IF i = p THEN node ELSE order[i - 1]
  BY OrderAfterInsert DEF node, p
<1>8. HeapOwned'
  <2>1. p \in 1..(Len(order) + 1)
    BY <1>2
  <2>2. /\ Len(order') = Len(order) + 1
        /\ \A i \in 1..(Len(order) + 1) :
               order'[i] = IF i < p THEN order[i] ELSE IF i = p THEN node ELSE order[i - 1]
    BY <1>7
  <2>3. LinkedNodes' = LinkedNodes \cup {node}
    BY <1>6, <2>1, <2>2, NodesAfterInsert
  <2>4. Pending' = {}
    BY <1>1 DEF Pending
  <2>5. QED BY <1>1, <1>3, <2>3, <2>4 DEF DListInvariant, HeapOwned
<1> HIDE DEF L
<1>9. /\ head' = IF p = 1 THEN node ELSE head
      /\ next'[node] = iter
      /\ \A i \in 1..L : next'[order[i]] = IF i = p - 1 THEN node ELSE next[order[i]]
      /\ prev'[node] = IF p = 1 THEN NULL ELSE order[p - 1]
      /\ \A i \in 1..L : prev'[order[i]] = IF i = p THEN node ELSE prev[order[i]]
  <2>1. CASE p = 1
    <3>1. /\ head' = node
          /\ next' = [next EXCEPT ![node] = iter]
          /\ prev' = [prev EXCEPT ![iter] = node]
      BY <1>2, <2>1 DEF insert_before_cursor, node
    <3>2. QED BY <1>2, <1>3, <1>4, <2>1, <3>1 DEF DListTypeOK, HeapTypes, LoopTypes
  <2>2. CASE p # 1
    <3>1. head # iter /\ p - 1 \in 1..L /\ prev[iter] = order[p - 1]
      BY <1>2, <1>4, <1>5, <2>2
    <3>2. /\ head' = head
          /\ next' = [next EXCEPT ![prev[iter]] = node, ![node] = iter]
          /\ prev' = [prev EXCEPT ![node] = prev[iter], ![iter] = node]
      BY <3>1 DEF insert_before_cursor, node
    <3>3. /\ next' = [next EXCEPT ![order[p - 1]] = node, ![node] = iter]
          /\ prev' = [prev EXCEPT ![node] = order[p - 1], ![iter] = node]
      BY <3>1, <3>2
    <3>4. /\ next'[node] = iter
          /\ \A i \in 1..L : next'[order[i]] = IF i = p - 1 THEN node ELSE next[order[i]]
      BY <1>3, <1>4, <3>1, <3>3 DEF DListTypeOK, HeapTypes, LoopTypes
    <3>5. /\ prev'[node] = order[p - 1]
          /\ \A i \in 1..L : prev'[order[i]] = IF i = p THEN node ELSE prev[order[i]]
      BY <1>2, <1>3, <1>4, <3>1, <3>3 DEF DListTypeOK, HeapTypes, LoopTypes
    <3>6. QED BY <2>2, <3>2, <3>4, <3>5
  <2>3. QED BY <2>1, <2>2
<1>10. Distinct'
  <2>1. ASSUME NEW i \in 1..(L + 1), NEW j \in 1..(L + 1), order'[i] = order'[j]
        PROVE  i = j
    BY <1>2, <1>3, <1>4, <1>7, <2>1
  <2>2. QED BY <1>7, <2>1 DEF Distinct
<1>11. FirstLinked'
  <2>1. order'[1] = IF p = 1 THEN node ELSE order[1]
    BY <1>2, <1>7
  <2>2. order' # <<>>
    BY <1>2, <1>7
  <2>3. QED BY <1>1, <1>2, <1>9, <2>1, <2>2 DEF FirstLinked
<1>12. NextLinked'
  <2>1. ASSUME NEW i \in 1..(L + 1)
        PROVE  next'[order'[i]] = IF i = L + 1 THEN NULL ELSE order'[i + 1]
    <3>1. CASE i < p
      <4>1. i \in 1..L /\ order'[i] = order[i] /\ i # L + 1
        BY <1>2, <1>7, <3>1
      <4>2. CASE i = p - 1
        BY <1>2, <1>7, <1>9, <4>1, <4>2
      <4>3. CASE i # p - 1
        <5>1. order'[i + 1] = order[i + 1] /\ i # L
          BY <1>2, <1>7, <3>1, <4>3
        <5>2. QED BY <1>5, <1>9, <4>1, <4>3, <5>1
      <4>4. QED BY <4>2, <4>3
    <3>2. CASE i = p
      <4>1. order'[i] = node /\ order'[i + 1] = order[p] /\ i # L + 1
        BY <1>2, <1>7, <3>2
      <4>2. QED BY <1>2, <1>9, <4>1
    <3>3. CASE i > p
      <4>1. i - 1 \in 1..L /\ order'[i] = order[i - 1] /\ i - 1 # p - 1
        BY <1>2, <1>7, <3>3
      <4>2. i # L + 1 => order'[i + 1] = order[i]
        BY <1>2, <1>7, <3>3
      <4>3. next'[order'[i]] = IF i - 1 = L THEN NULL ELSE order[i - 1 + 1]
        BY <1>5, <1>9, <4>1
      <4>4. QED BY <1>2, <4>2, <4>3
    <3>4. QED BY <3>1, <3>2, <3>3, <1>2
  <2>2. QED BY <1>7, <2>1 DEF NextLinked
<1>13. PrevLinked'
  <2>1. ASSUME NEW i \in 1..(L + 1)
        PROVE  prev'[order'[i]] = IF i = 1 THEN NULL ELSE order'[i - 1]
    <3>1. CASE i < p
      <4>1. i \in 1..L /\ order'[i] = order[i] /\ i # p
        BY <1>2, <1>7, <3>1
      <4>2. i # 1 => order'[i - 1] = order[i - 1]
        BY <1>2, <1>7, <3>1
      <4>3. QED BY <1>5, <1>9, <4>1, <4>2
    <3>2. CASE i = p
      <4>1. order'[i] = node /\ (i # 1 => order'[i - 1] = order[p - 1])
        BY <1>2, <1>7, <3>2
      <4>2. QED BY <1>9, <3>2, <4>1
    <3>3. CASE i = p + 1
      <4>1. order'[i] = order[p] /\ order'[i - 1] = node /\ i # 1
        BY <1>2, <1>7, <3>3
      <4>2. QED BY <1>2, <1>9, <4>1
    <3>4. CASE i > p + 1
      <4>1. /\ i - 1 \in 1..L /\ order'[i] = order[i - 1] /\ i - 1 # p /\ i - 1 # 1
            /\ order'[i - 1] = order[i - 2]
        BY <1>2, <1>7, <3>4
      <4>2. prev'[order'[i]] = order[i - 1 - 1]
        BY <1>5, <1>9, <4>1
      <4>3. QED BY <1>2, <3>4, <4>1, <4>2
    <3>5. QED BY <3>1, <3>2, <3>3, <3>4, <1>2
  <2>2. QED BY <1>7, <2>1 DEF PrevLinked
<1>14. Counted'
  BY <1>1, <1>2, <1>7 DEF Counted
<1>15. Walking' /\ CallInProgress'
  BY <1>1 DEF Walking, CallInProgress, GetNode
<1>16. QED BY <1>10, <1>11, <1>12, <1>13, <1>14, <1>8, <1>15 DEF DListInvariant, Linked

\* The end of an insertion after the last node.
LEMMA AtEndStep ==
    ASSUME DListTypeOK, DListInvariant, insert_at_end
    PROVE  DListInvariant'
<1> DEFINE node == arg.node
           L == Len(order)
<1>1. /\ pc = "insert" /\ pc' = "idle"
      /\ next' = [next EXCEPT ![iter] = node]
      /\ prev' = [prev EXCEPT ![node] = iter]
      /\ order' = Append(order, node)
      /\ UNCHANGED <<head, length, data, nodes, live>>
  BY DEF insert_at_end, AtNode, Return
<1>2. /\ order \in Seq(Nodes) /\ L \in Nat \ {0}
      /\ order # <<>> /\ head = order[1] /\ length = L + 1
      /\ node \in Nodes /\ next[node] = NULL
      /\ nodes = LinkedNodes \cup {node} /\ node \notin LinkedNodes
  BY <1>1, ListFacts
     DEF DListTypeOK, HeapTypes, LoopTypes, DListInvariant, CallInProgress, Linked,
         FirstLinked, Counted,
         HeapOwned, Pending
<1>3. /\ \A i, j \in 1..L : order[i] = order[j] => i = j
      /\ \A i \in 1..L : /\ next[order[i]] = IF i = L THEN NULL ELSE order[i + 1]
                        /\ prev[order[i]] = IF i = 1 THEN NULL ELSE order[i - 1]
      /\ \A i \in 1..L : order[i] # node /\ order[i] \in Nodes /\ order[i] # NULL
  BY <1>1, <1>2, ListFacts
     DEF DListInvariant, Linked, Distinct, NextLinked, PrevLinked, LinkedNodes
<1>4. iter = order[L]
  <2>1. /\ Position \in 1..L /\ iter = order[Position]
        /\ arg.index >= L + 1 /\ (next[iter] = NULL \/ index = 0)
    BY <1>1, <1>2
       DEF insert_at_end, AtNode, DListInvariant, Walking, GetNode
  <2>2. index # 0
    BY <1>2, <2>1 DEF Position, DListTypeOK, HeapTypes, LoopTypes
  <2>3. Position # L => next[iter] = order[Position + 1] /\ Position + 1 \in 1..L
    BY <1>2, <1>3, <2>1
  <2>4. QED BY <1>3, <2>1, <2>2, <2>3
<1>5. /\ Len(order') = L + 1 /\ order' # <<>>
      /\ \A i \in 1..(L + 1) : order'[i] = IF i = L + 1 THEN node ELSE order[i]
  BY <1>1, <1>2
<1> HIDE DEF node
<1>6. /\ next'[node] = NULL /\ prev'[node] = order[L]
      /\ \A i \in 1..L : next'[order[i]] = IF i = L THEN node ELSE next[order[i]]
      /\ \A i \in 1..L : prev'[order[i]] = prev[order[i]]
  BY <1>1, <1>2, <1>3, <1>4 DEF DListTypeOK, HeapTypes, LoopTypes
<1>7. LinkedNodes' = LinkedNodes \cup {node}
  <2>1. /\ L + 1 \in 1..(Len(order) + 1) /\ Len(order') = Len(order) + 1
        /\ \A i \in 1..(Len(order) + 1) :
               order'[i] = IF i < L + 1 THEN order[i]
                           ELSE IF i = L + 1 THEN node ELSE order[i - 1]
    BY <1>2, <1>5
  <2>2. QED BY <1>2, <2>1, NodesAfterInsert
<1>8. HeapOwned'
  <2>1. Pending' = {}
    BY <1>1 DEF Pending
  <2>2. QED BY <1>1, <1>2, <1>7, <2>1 DEF DListInvariant, HeapOwned
<1> HIDE DEF L
<1>9. Distinct'
  BY <1>2, <1>3, <1>5 DEF Distinct
<1>10. FirstLinked'
  BY <1>1, <1>2, <1>5 DEF FirstLinked
<1>11. NextLinked'
  <2>1. ASSUME NEW i \in 1..(L + 1)
        PROVE  next'[order'[i]] = IF i = L + 1 THEN NULL ELSE order'[i + 1]
    <3>1. CASE i = L + 1
      BY <1>5, <1>6, <3>1
    <3>2. CASE i # L + 1
      <4>1. i \in 1..L /\ order'[i] = order[i] /\ i + 1 \in 1..(L + 1)
        BY <1>2, <1>5, <3>2
      <4>2. order'[i + 1] = IF i = L THEN node ELSE order[i + 1]
        BY <1>2, <1>5, <4>1
      <4>3. QED BY <1>3, <1>6, <3>2, <4>1, <4>2
    <3>3. QED BY <3>1, <3>2
  <2>2. QED BY <1>5, <2>1 DEF NextLinked
<1>12. PrevLinked'
  <2>1. ASSUME NEW i \in 1..(L + 1)
        PROVE  prev'[order'[i]] = IF i = 1 THEN NULL ELSE order'[i - 1]
    <3>1. CASE i = L + 1
      BY <1>2, <1>5, <1>6, <3>1
    <3>2. CASE i # L + 1
      <4>1. i \in 1..L /\ order'[i] = order[i]
        BY <1>2, <1>5, <3>2
      <4>2. i # 1 => order'[i - 1] = order[i - 1]
        BY <1>2, <1>5, <4>1
      <4>3. QED BY <1>3, <1>6, <4>1, <4>2
    <3>3. QED BY <3>1, <3>2
  <2>2. QED BY <1>5, <2>1 DEF PrevLinked
<1>13. Counted'
  BY <1>1, <1>2, <1>5 DEF Counted
<1>14. Walking' /\ CallInProgress'
  BY <1>1 DEF Walking, CallInProgress, GetNode
<1>15. QED BY <1>8, <1>9, <1>10, <1>11, <1>12, <1>13, <1>14 DEF DListInvariant, Linked

\* A deletion: the links around the node are joined, its datum is destroyed.
LEMMA DeleteStep ==
    ASSUME DListTypeOK, DListInvariant, dlist_delete
    PROVE  DListInvariant'
<1> DEFINE c == iter
           L == Len(order)
           p == Position
<1>1. pc = "delete" /\ pc' = "idle" /\ iter # NULL
  BY DEF dlist_delete, AtNode, Return
<1>2. CASE ~InRange
  BY <1>1, <1>2, QuietStep DEF dlist_delete
<1>3. CASE InRange
  <2>1. /\ order \in Seq(Nodes) /\ L \in Nat /\ p \in 1..L /\ c = order[p]
        /\ order # <<>> /\ head = order[1] /\ length = L /\ c \in Nodes
        /\ nodes = LinkedNodes /\ Distinct
    BY <1>1, ListFacts
       DEF DListTypeOK, HeapTypes, LoopTypes, DListInvariant, Walking, GetNode, Linked,
           FirstLinked, Counted,
           HeapOwned, Pending
  <2>2. /\ \A i, j \in 1..L : order[i] = order[j] => i = j
        /\ \A i \in 1..L : /\ next[order[i]] = IF i = L THEN NULL ELSE order[i + 1]
                          /\ prev[order[i]] = IF i = 1 THEN NULL ELSE order[i - 1]
        /\ \A i \in 1..L : order[i] \in Nodes /\ order[i] # NULL /\ order[i] \in nodes
    BY <1>1, ListFacts DEF DListInvariant, Linked, Distinct, NextLinked, PrevLinked
  <2>3. /\ order' = RemoveAt(order, p) /\ length' = length - 1
        /\ nodes' = nodes \ {c} /\ live' = live \ {data[c]} /\ data' = data
        /\ Unlink(c)
    BY <1>3 DEF dlist_delete, dlist_node_destroy
  <2> HIDE DEF c, p
  <2>4. /\ Len(order') = L - 1
        /\ \A i \in 1..(L - 1) : order'[i] = IF i < p THEN order[i] ELSE order[i + 1]
    BY <1>3, OrderAfterRemove DEF p
  <2>5. LinkedNodes' = LinkedNodes \ {c}
    <3>1. /\ p \in 1..Len(order) /\ Len(order') = Len(order) - 1
          /\ \A i \in 1..(Len(order) - 1) :
                 order'[i] = IF i < p THEN order[i] ELSE order[i + 1]
      BY <2>1, <2>4
    <3>2. LinkedNodes' = LinkedNodes \ {order[p]}
      BY <2>1, <3>1, NodesAfterRemove
    <3>3. QED BY <2>1, <3>2
  <2>6. HeapOwned'
    <3>1. Pending' = {}
      BY <1>1 DEF Pending
    <3>2. /\ live = {data[n] : n \in nodes} /\ c \in nodes
          /\ \A m, n \in nodes : data[m] = data[n] => m = n
      BY <2>1, <2>2 DEF DListInvariant, HeapOwned
    <3>3. live' = {data'[n] : n \in nodes'}
      BY <2>3, <3>2
    <3>4. QED BY <1>1, <2>1, <2>3, <2>5, <3>1, <3>2, <3>3 DEF HeapOwned
  <2> HIDE DEF L
  <2>7. /\ head' = IF p = 1 THEN next[c] ELSE head
        /\ \A i \in 1..L : i # p =>
               /\ next'[order[i]] = IF i = p - 1 THEN next[c] ELSE next[order[i]]
               /\ prev'[order[i]] = IF i = p + 1 THEN prev[c] ELSE prev[order[i]]
    <3>1. c = head <=> p = 1
      BY <2>1, <2>2
    <3>2. ASSUME NEW i \in 1..L, i # p
          PROVE  order[i] # c /\ (order[i] = prev[c] <=> i = p - 1)
                              /\ (order[i] = next[c] <=> i = p + 1)
      <4>1. order[i] # c
        BY <2>1, <2>2, <3>2
      <4>2. order[i] = prev[c] <=> i = p - 1
        <5>1. CASE p = 1
          BY <2>1, <2>2, <5>1
        <5>2. CASE p # 1
          <6>1. prev[c] = order[p - 1] /\ p - 1 \in 1..L
            BY <2>1, <2>2, <5>2
          <6>2. QED BY <2>2, <6>1
        <5>3. QED BY <5>1, <5>2
      <4>3. order[i] = next[c] <=> i = p + 1
        <5>1. CASE p = L
          BY <2>1, <2>2, <5>1
        <5>2. CASE p # L
          <6>1. next[c] = order[p + 1] /\ p + 1 \in 1..L
            BY <2>1, <2>2, <5>2
          <6>2. QED BY <2>2, <6>1
        <5>3. QED BY <5>1, <5>2
      <4>4. QED BY <4>1, <4>2, <4>3
    <3>3. QED BY <2>2, <2>3, <3>1, <3>2 DEF Unlink
  <2>8. /\ next[c] = IF p = L THEN NULL ELSE order[p + 1]
        /\ prev[c] = IF p = 1 THEN NULL ELSE order[p - 1]
    BY <2>1, <2>2
  <2>9. Distinct'
    <3>1. ASSUME NEW i \in 1..(L - 1), NEW j \in 1..(L - 1), order'[i] = order'[j]
          PROVE  i = j
      <4>1. PICK a \in 1..L : order'[i] = order[a] /\ a = IF i < p THEN i ELSE i + 1
        BY <2>1, <2>4
      <4>2. PICK b \in 1..L : order'[j] = order[b] /\ b = IF j < p THEN j ELSE j + 1
        BY <2>1, <2>4
      <4>3. order[a] = order[b]
        BY <3>1, <4>1, <4>2
      <4>4. a = b
        BY <2>2, <4>3
      <4>5. i \in Int /\ j \in Int /\ p \in Int
        BY <2>1
      <4>6. QED BY <4>1, <4>2, <4>4, <4>5
    <3>2. QED BY <2>4, <3>1 DEF Distinct
  <2>10. FirstLinked'
    <3>1. CASE L = 1
      <4>1. order' = <<>> /\ p = 1
        BY <1>3, <2>1, <2>4, <3>1, OrderAfterRemove
      <4>2. QED BY <1>1, <2>7, <2>8, <3>1, <4>1 DEF FirstLinked
    <3>2. CASE L # 1
      <4>1. order' # <<>> /\ order'[1] = IF p = 1 THEN order[2] ELSE order[1]
        BY <2>1, <2>4, <3>2
      <4>2. QED BY <1>1, <2>1, <2>7, <2>8, <3>2, <4>1 DEF FirstLinked
    <3>3. QED BY <3>1, <3>2
  <2>11. NextLinked'
    <3>1. ASSUME NEW i \in 1..(L - 1)
          PROVE  next'[order'[i]] = IF i = L - 1 THEN NULL ELSE order'[i + 1]
      <4>1. CASE i < p
        <5>1. i \in 1..L /\ i # p /\ order'[i] = order[i] /\ i # L
          BY <2>1, <2>4, <4>1
        <5>2. next'[order'[i]] = IF i = p - 1 THEN next[c] ELSE order[i + 1]
          BY <2>2, <2>7, <5>1
        <5>3. i # L - 1 => order'[i + 1] = IF i = p - 1 THEN order[p + 1] ELSE order[i + 1]
          BY <2>1, <2>4, <4>1
        <5>4. QED BY <2>1, <2>8, <4>1, <5>2, <5>3
      <4>2. CASE i >= p
        <5>1. i + 1 \in 1..L /\ i + 1 # p /\ i + 1 # p - 1 /\ order'[i] = order[i + 1]
          BY <2>1, <2>4, <4>2
        <5>2. next'[order'[i]] = IF i + 1 = L THEN NULL ELSE order[i + 1 + 1]
          BY <2>2, <2>7, <5>1
        <5>3. i # L - 1 => order'[i + 1] = order[i + 1 + 1]
          BY <2>1, <2>4, <4>2
        <5>4. QED BY <2>1, <5>2, <5>3
      <4>3. QED BY <4>1, <4>2, <2>1
    <3>2. QED BY <2>4, <3>1 DEF NextLinked
  <2>12. PrevLinked'
    <3>1. ASSUME NEW i \in 1..(L - 1)
          PROVE  prev'[order'[i]] = IF i = 1 THEN NULL ELSE order'[i - 1]
      <4>1. CASE i < p
        <5>1. i \in 1..L /\ i # p /\ i # p + 1 /\ order'[i] = order[i]
          BY <2>1, <2>4, <4>1
        <5>2. i # 1 => order'[i - 1] = order[i - 1]
          BY <2>1, <2>4, <4>1
        <5>3. QED BY <2>2, <2>7, <5>1, <5>2
      <4>2. CASE i >= p
        <5>1. i + 1 \in 1..L /\ i + 1 # p /\ order'[i] = order[i + 1]
          BY <2>1, <2>4, <4>2
        <5>2. prev'[order'[i]] = IF i = p THEN prev[c] ELSE order[i + 1 - 1]
          BY <2>1, <2>2, <2>7, <5>1
        <5>3. i # 1 => order'[i - 1] = IF i = p THEN order[p - 1] ELSE order[i]
          BY <2>1, <2>4, <4>2
        <5>4. QED BY <2>1, <2>8, <4>2, <5>2, <5>3
      <4>3. QED BY <4>1, <4>2, <2>1
    <3>2. QED BY <2>4, <3>1 DEF PrevLinked
  <2>13. Counted'
    BY <1>1, <2>1, <2>3, <2>4 DEF Counted
  <2>14. Walking' /\ CallInProgress'
    BY <1>1 DEF Walking, CallInProgress, GetNode
  <2>15. QED
    BY <2>6, <2>9, <2>10, <2>11, <2>12, <2>13, <2>14 DEF DListInvariant, Linked
<1>4. QED BY <1>2, <1>3

\* A datum is replaced by one that is not in the list.
LEMMA SetStep ==
    ASSUME DListTypeOK, DListInvariant, dlist_set_by_index
    PROVE  DListInvariant'
<1>1. pc = "set" /\ pc' = "idle" /\ iter # NULL /\ UNCHANGED <<list, prev, next, nodes>>
  BY DEF dlist_set_by_index, AtNode, Return
<1>2. CASE ~InRange
  <2>1. UNCHANGED <<list, heap>>
    BY <1>1, <1>2 DEF dlist_set_by_index, heap
  <2>2. QED BY <1>1, <2>1, QuietStep
<1>3. CASE InRange
  <2>1. /\ data' = [data EXCEPT ![iter] = arg.value]
        /\ live' = (live \ {data[iter]}) \cup {arg.value}
    BY <1>3 DEF dlist_set_by_index
  <2>2. iter \in nodes /\ arg.value \notin live /\ nodes \subseteq Nodes
    BY <1>1, ListFacts DEF DListInvariant, Walking, GetNode, CallInProgress, DListTypeOK,
                           HeapTypes, LoopTypes
  <2>3. /\ nodes = LinkedNodes /\ live = {data[n] : n \in nodes}
        /\ \A m, n \in nodes : data[m] = data[n] => m = n
    BY <1>1 DEF DListInvariant, HeapOwned, Pending
  <2>4. data'[iter] = arg.value /\ \A n \in nodes : n # iter => data'[n] = data[n]
    BY <2>1, <2>2 DEF DListTypeOK, HeapTypes, LoopTypes
  <2>5. \A n \in nodes : data[n] \in live
    BY <2>3
  <2>6. \A m, n \in nodes : data'[m] = data'[n] => m = n
    BY <2>2, <2>3, <2>4, <2>5
  <2>7. live' = {data'[n] : n \in nodes}
    <3>1. \A n \in nodes : data'[n] \in live'
      BY <2>1, <2>3, <2>4, <2>5, <2>2
    <3>2. \A d \in live' : \E n \in nodes : d = data'[n]
      BY <2>1, <2>2, <2>3, <2>4
    <3>3. QED BY <3>1, <3>2
  <2>8. LinkedNodes' = LinkedNodes /\ Pending' = {}
    BY <1>1 DEF list, LinkedNodes, Pending
  <2>9. HeapOwned'
    BY <1>1, <2>3, <2>6, <2>7, <2>8 DEF HeapOwned
  <2>10. Linked'
    BY <1>1 DEF DListInvariant, Linked, Distinct, FirstLinked, NextLinked, PrevLinked,
                Counted, list
  <2>11. Walking' /\ CallInProgress'
    BY <1>1 DEF Walking, CallInProgress, GetNode
  <2>12. QED BY <2>9, <2>10, <2>11 DEF DListInvariant
<1>4. QED BY <1>2, <1>3

\* dlist_destroy frees the first of the nodes that are left.
LEMMA DestroyNodeStep ==
    ASSUME DListTypeOK, DListInvariant, dlist_destroy_node
    PROVE  DListInvariant'
<1> DEFINE L == Len(order)
<1>1. /\ pc = "destroy" /\ pc' = "destroy" /\ iter # NULL
      /\ iter' = next[iter] /\ next' = [next EXCEPT ![iter] = NULL]
      /\ nodes' = nodes \ {iter} /\ live' = live \ {data[iter]} /\ data' = data
      /\ order' = Tail(order)
  BY DEF dlist_destroy_node, dlist_node_destroy
<1>2. /\ order \in Seq(Nodes) /\ order # <<>> /\ iter = order[1] /\ L \in Nat \ {0}
      /\ nodes = LinkedNodes /\ Distinct
  BY <1>1, ListFacts
     DEF DListTypeOK, HeapTypes, LoopTypes, DListInvariant, Linked, FirstLinked,
         HeapOwned, Pending
<1>3. /\ \A i, j \in 1..L : order[i] = order[j] => i = j
      /\ \A i \in 1..L : next[order[i]] = IF i = L THEN NULL ELSE order[i + 1]
      /\ \A i \in 1..L : order[i] \in Nodes /\ order[i] \in nodes
  BY ListFacts DEF DListInvariant, Linked, Distinct, NextLinked
<1>4. /\ Len(order') = L - 1 /\ \A i \in 1..(L - 1) : order'[i] = order[i + 1]
      /\ (order' = <<>> <=> L = 1)
  <2>1. /\ Tail(order) \in Seq(Nodes) /\ Len(Tail(order)) = Len(order) - 1
        /\ \A i \in 1..Len(Tail(order)) : Tail(order)[i] = order[i + 1]
    BY <1>2, HeadTailProperties
  <2>2. Tail(order) = <<>> <=> Len(Tail(order)) = 0
    BY <2>1, EmptySeq
  <2>3. QED BY <1>1, <1>2, <2>1, <2>2
<1>5. LinkedNodes' = LinkedNodes \ {iter}
  <2>1. /\ 1 \in 1..Len(order) /\ Len(order') = Len(order) - 1
        /\ \A i \in 1..(Len(order) - 1) :
               order'[i] = IF i < 1 THEN order[i] ELSE order[i + 1]
    BY <1>2, <1>4
  <2>2. LinkedNodes' = LinkedNodes \ {order[1]}
    BY <1>2, <2>1, NodesAfterRemove
  <2>3. QED BY <1>2, <2>2
<1> HIDE DEF L
<1>6. Distinct'
  <2>1. ASSUME NEW i \in 1..(L - 1), NEW j \in 1..(L - 1), order'[i] = order'[j]
        PROVE  i = j
    <3>1. i + 1 \in 1..L /\ j + 1 \in 1..L /\ order[i + 1] = order[j + 1]
      BY <1>2, <1>4, <2>1
    <3>2. i + 1 = j + 1
      BY <1>3, <3>1
    <3>3. QED BY <3>2
  <2>2. QED BY <1>4, <2>1 DEF Distinct
<1>7. FirstLinked'
  BY <1>1, <1>2, <1>3, <1>4 DEF FirstLinked
<1>8. NextLinked'
  <2>1. ASSUME NEW i \in 1..(L - 1)
        PROVE  next'[order'[i]] = IF i = L - 1 THEN NULL ELSE order'[i + 1]
    <3>1. i + 1 \in 1..L /\ i + 1 # 1 /\ order'[i] = order[i + 1]
      BY <1>2, <1>4
    <3>2. order[i + 1] # iter /\ order[i + 1] \in Nodes
      BY <1>2, <1>3, <3>1
    <3>3. next'[order'[i]] = IF i + 1 = L THEN NULL ELSE order[i + 1 + 1]
      BY <1>1, <1>3, <3>1, <3>2 DEF DListTypeOK, HeapTypes, LoopTypes
    <3>4. i # L - 1 => order'[i + 1] = order[i + 1 + 1]
      BY <1>2, <1>4
    <3>5. QED BY <1>2, <3>3, <3>4
  <2>2. QED BY <1>4, <2>1 DEF NextLinked
<1>9. PrevLinked' /\ Counted' /\ Walking' /\ CallInProgress'
  BY <1>1 DEF PrevLinked, Counted, Walking, CallInProgress, GetNode
<1>10. HeapOwned'
  <2>1. Pending' = {}
    BY <1>1 DEF Pending
  <2>2. /\ live = {data[n] : n \in nodes} /\ iter \in nodes
        /\ \A m, n \in nodes : data[m] = data[n] => m = n
    BY <1>2, <1>3 DEF DListInvariant, HeapOwned
  <2>3. live' = {data'[n] : n \in nodes'}
    BY <1>1, <2>2
  <2>4. QED BY <1>1, <1>2, <1>5, <2>1, <2>2, <2>3 DEF HeapOwned
<1>11. QED BY <1>6, <1>7, <1>8, <1>9, <1>10 DEF DListInvariant, Linked

\* dlist_destroy ends when there is no node left.
LEMMA DestroyStep ==
    ASSUME DListTypeOK, DListInvariant, dlist_destroy
    PROVE  DListInvariant'
<1>1. /\ pc = "destroy" /\ iter = NULL /\ pc' = "destroyed" /\ head' = NULL
      /\ UNCHANGED <<order, heap>>
  BY DEF dlist_destroy
<1>2. order = <<>> /\ Len(order) = 0
  BY <1>1, ListFacts DEF DListInvariant, Linked, FirstLinked
<1>3. Linked'
  BY <1>1, <1>2 DEF Linked, Distinct, FirstLinked, NextLinked, PrevLinked, Counted
<1>4. HeapOwned'
  <2>1. LinkedNodes = {} /\ Pending = {} /\ LinkedNodes' = {} /\ Pending' = {}
    BY <1>1, <1>2 DEF LinkedNodes, Pending
  <2>2. nodes = {} /\ live = {}
    BY <2>1 DEF DListInvariant, HeapOwned
  <2>3. QED BY <1>1, <2>1, <2>2 DEF HeapOwned, heap
<1>5. QED BY <1>1, <1>3, <1>4 DEF DListInvariant, Walking, CallInProgress, GetNode

\* Every step of a DList keeps the invariant.
LEMMA InvariantStep ==
    ASSUME DListTypeOK, DListInvariant, [DListNext]_vars
    PROVE  DListInvariant'
<1>1. CASE UNCHANGED vars
  <2>1. /\ UNCHANGED <<head, length, order, pc, iter, index, arg>>
        /\ UNCHANGED <<prev, next, data, nodes, live>>
    BY <1>1 DEF vars, list, heap, loop
  <2>2. Distinct' /\ FirstLinked' /\ NextLinked' /\ PrevLinked' /\ Counted'
    BY <2>1 DEF DListInvariant, Linked, Distinct, FirstLinked, NextLinked, PrevLinked,
                Counted
  <2>3. LinkedNodes' = LinkedNodes /\ Pending' = Pending
    BY <2>1 DEF LinkedNodes, Pending
  <2>4. HeapOwned'
    BY <2>1, <2>3 DEF DListInvariant, HeapOwned
  <2>5. Position' = Position
    BY <2>1 DEF Position
  <2>6. Walking' /\ CallInProgress'
    BY <2>1, <2>5 DEF DListInvariant, Walking, CallInProgress
  <2>7. QED BY <2>2, <2>4, <2>6 DEF DListInvariant, Linked
<1>2. ASSUME NEW i \in Indices, NEW d \in Data, dlist_insert_oom(i, d)
      PROVE  DListInvariant'
  <2>1. pc = "idle" /\ pc' = "idle" /\ UNCHANGED <<list, heap>>
    BY <1>2 DEF dlist_insert_oom, Return
  <2>2. QED BY <2>1, QuietStep
<1>3. ASSUME NEW i \in Indices, NEW d \in Data, dlist_insert(i, d)
      PROVE  DListInvariant'
  BY <1>3, InsertStep
<1>4. CASE dlist_length
  <2>1. pc = "idle" /\ pc' = "idle" /\ UNCHANGED <<list, heap>>
    BY <1>4 DEF dlist_length, Return
  <2>2. QED BY <2>1, QuietStep
<1>5. CASE ListCall
  BY <1>5, CallStep
<1>6. CASE dlist_get_node_next
  BY <1>6, WalkStep
<1>7. CASE dlist_get_node_dead
  <2>1. pc # "insert"
    BY <1>7, ListFacts
       DEF dlist_get_node_dead, DListInvariant, Walking, CallInProgress, GetNode
  <2>2. pc \notin {"destroy", "destroyed"} /\ pc' = "dead" /\ UNCHANGED <<list, heap>>
    BY <1>7 DEF dlist_get_node_dead, GetNode
  <2>3. QED BY <2>1, <2>2, QuietStep
<1>8. CASE insert_before_cursor
  BY <1>8, BeforeCursorStep
<1>9. CASE insert_at_end
  BY <1>9, AtEndStep
<1>10. CASE dlist_delete
  BY <1>10, DeleteStep
<1>11. CASE dlist_set_by_index
  BY <1>11, SetStep
<1>12. CASE dlist_get_by_index
  <2>1. pc = "get" /\ pc' = "idle" /\ UNCHANGED <<list, heap>>
    BY <1>12 DEF dlist_get_by_index, AtNode, Return
  <2>2. QED BY <2>1, QuietStep
<1>13. CASE dlist_find_next
  <2>1. pc = "find" /\ pc' = "find" /\ UNCHANGED <<list, heap>>
    BY <1>13 DEF dlist_find_next
  <2>2. QED BY <2>1, QuietStep
<1>14. CASE dlist_find
  <2>1. pc = "find" /\ pc' = "idle" /\ UNCHANGED <<list, heap>>
    BY <1>14 DEF dlist_find, Return
  <2>2. QED BY <2>1, QuietStep
<1>15. CASE dlist_foreach_visit
  <2>1. pc = "foreach" /\ pc' = "foreach" /\ UNCHANGED <<list, heap>>
    BY <1>15 DEF dlist_foreach_visit
  <2>2. QED BY <2>1, QuietStep
<1>16. CASE dlist_foreach
  <2>1. pc = "foreach" /\ pc' = "idle" /\ UNCHANGED <<list, heap>>
    BY <1>16 DEF dlist_foreach, Return
  <2>2. QED BY <2>1, QuietStep
<1>17. CASE dlist_destroy_node
  BY <1>17, DestroyNodeStep
<1>18. CASE dlist_destroy
  BY <1>18, DestroyStep
<1>19. QED
  BY <1>1, <1>2, <1>3, <1>4, <1>5, <1>6, <1>7, <1>8, <1>9, <1>10, <1>11, <1>12, <1>13,
     <1>14, <1>15, <1>16, <1>17, <1>18 DEF DListNext, InCall

-----------------------------------------------------------------------------
(* The types. *)

\* A return leaves the types of the loop and of the result.
LEMMA ReturnTypes ==
    ASSUME NEW op \in GetNode \cup {"length", "find", "foreach"}, NEW i \in Nat,
           NEW ret \in {"OK", "OOM", "FAIL", "STOP"}, NEW values \in Seq(Data \cup {NULL}),
           Return(op, i, ret, values)
    PROVE  LoopTypes'
<1>1. <<>> \in Seq(Data \cup {NULL})
  OBVIOUS
<1>2. QED BY <1>1 DEF Return, NoArg, LoopTypes

\* A call leaves the types of the loop and of the result.
LEMMA CallTypes ==
    ASSUME DListTypeOK, NEW op \in GetNode \cup {"find", "foreach", "destroy"},
           NEW a \in [index : Nat, value : Data \cup {NULL}, node : Nodes \cup {NULL},
                      ret : {"OK", "FAIL", "STOP"}, values : Seq(Data \cup {NULL})],
           Call(op, a)
    PROVE  LoopTypes'
<1>1. <<>> \in Seq(Data \cup {NULL})
  OBVIOUS
<1>2. a.index \in Nat
  OBVIOUS
<1>3. QED BY <1>1, <1>2 DEF Call, NoResult, LoopTypes, DListTypeOK, HeapTypes

\* Every step of a DList keeps the types.
LEMMA TypeStep ==
    ASSUME DListTypeOK, DListInvariant, [DListNext]_vars
    PROVE  DListTypeOK'
<1> USE DEF DListTypeOK
<1> DEFINE Args == [index : Nat, value : Data \cup {NULL}, node : Nodes \cup {NULL},
                    ret : {"OK", "FAIL", "STOP"}, values : Seq(Data \cup {NULL})]
<1>0. /\ Indices \subseteq Nat
      /\ \A x \in Data \cup {NULL} : <<x>> \in Seq(Data \cup {NULL})
      /\ <<>> \in Seq(Data \cup {NULL})
  BY DEF Indices
<1>a. UNCHANGED <<list, heap>> => HeapTypes'
  BY DEF HeapTypes, list, heap
<1>1. CASE UNCHANGED vars
  <2>1. LoopTypes'
    BY <1>1 DEF LoopTypes, vars, loop
  <2>2. QED BY <1>1, <1>a, <2>1 DEF vars
<1>2. ASSUME NEW i \in Indices, NEW d \in Data, dlist_insert_oom(i, d)
      PROVE  DListTypeOK'
  <2>1. Return("insert", i, "OOM", <<>>) /\ UNCHANGED <<list, heap>>
    BY <1>2 DEF dlist_insert_oom
  <2>2. QED BY <1>0, <1>a, <2>1, ReturnTypes DEF GetNode
<1>3. ASSUME NEW i \in Indices, NEW d \in Data, dlist_insert(i, d)
      PROVE  DListTypeOK'
  <2>1. PICK n \in Nodes \ nodes :
          /\ nodes' = nodes \cup {n} /\ live' = live \cup {d}
          /\ prev' = [prev EXCEPT ![n] = NULL] /\ next' = [next EXCEPT ![n] = NULL]
          /\ data' = [data EXCEPT ![n] = d]
          /\ length' = length + 1
          /\ IF head = NULL
             THEN head' = n /\ order' = <<n>> /\ Return("insert", i, "OK", <<>>)
             ELSE /\ Call("insert", [NoArg EXCEPT !.index = i, !.value = d, !.node = n])
                  /\ UNCHANGED <<head, order>>
    BY <1>3 DEF dlist_insert
  <2>2. CASE head = NULL
    <3>1. /\ nodes' = nodes \cup {n} /\ live' = live \cup {d} /\ length' = length + 1
          /\ prev' = [prev EXCEPT ![n] = NULL] /\ next' = [next EXCEPT ![n] = NULL]
          /\ data' = [data EXCEPT ![n] = d] /\ head' = n /\ order' = <<n>>
      BY <2>1, <2>2
    <3>2. HeapTypes'
      BY <3>1 DEF HeapTypes
    <3>3. Return("insert", i, "OK", <<>>) /\ i \in Nat
      BY <1>0, <2>1, <2>2
    <3>4. LoopTypes'
      BY <1>0, <3>3, ReturnTypes DEF GetNode
    <3>5. QED BY <3>2, <3>4
  <2>3. CASE head # NULL
    <3>1. HeapTypes'
      BY <2>1, <2>3 DEF HeapTypes
    <3>2. [NoArg EXCEPT !.index = i, !.value = d, !.node = n] \in Args
      BY <1>0 DEF NoArg
    <3>3. LoopTypes'
      BY <2>1, <2>3, <3>2, CallTypes DEF GetNode
    <3>4. QED BY <3>1, <3>3
  <2>4. QED BY <2>2, <2>3
<1>4. CASE dlist_length
  <2>1. Return("length", length, "OK", <<>>) /\ UNCHANGED <<list, heap>> /\ length \in Nat
    BY <1>4 DEF dlist_length, HeapTypes
  <2>2. QED BY <1>0, <1>a, <2>1, ReturnTypes
<1>5. CASE ListCall
  <2>1. ASSUME NEW i \in Indices, NEW op \in {"delete", "get"},
               Call(op, [NoArg EXCEPT !.index = i])
        PROVE  LoopTypes'
    <3>1. [NoArg EXCEPT !.index = i] \in Args
      BY <1>0 DEF NoArg
    <3>2. QED BY <2>1, <3>1, CallTypes DEF GetNode
  <2>2. ASSUME NEW i \in Indices, NEW d \in Data \ live,
               Call("set", [NoArg EXCEPT !.index = i, !.value = d])
        PROVE  LoopTypes'
    <3>1. [NoArg EXCEPT !.index = i, !.value = d] \in Args
      BY <1>0 DEF NoArg
    <3>2. QED BY <2>2, <3>1, CallTypes DEF GetNode
  <2>3. ASSUME NEW d \in Data, Call("find", [NoArg EXCEPT !.value = d])
        PROVE  LoopTypes'
    <3>1. [NoArg EXCEPT !.value = d] \in Args
      BY <1>0 DEF NoArg
    <3>2. QED BY <2>3, <3>1, CallTypes
  <2>4. ASSUME NEW op \in {"foreach", "destroy"}, Call(op, NoArg)
        PROVE  LoopTypes'
    <3>1. NoArg \in Args
      BY <1>0 DEF NoArg
    <3>2. QED BY <2>4, <3>1, CallTypes
  <2>5. LoopTypes'
    BY <1>5, <2>1, <2>2, <2>3, <2>4 DEF ListCall
  <2>6. QED BY <1>5, <1>a, <2>5 DEF ListCall
<1>6. CASE dlist_get_node_next
  BY <1>6, <1>a DEF dlist_get_node_next, LoopTypes, HeapTypes, GetNode
<1>7. CASE dlist_get_node_dead
  BY <1>7, <1>a DEF dlist_get_node_dead, LoopTypes
<1>8. CASE insert_before_cursor
  <2>1. /\ pc = "insert" /\ iter # NULL /\ iter \in Nodes /\ arg.node \in Nodes
        /\ arg.index \in Nat /\ Return("insert", arg.index, "OK", <<>>)
    BY <1>8
       DEF insert_before_cursor, AtNode, LoopTypes, DListInvariant, CallInProgress
  <2>2. order' \in Seq(Nodes)
    BY <1>8, OrderAfterInsert
  <2>3. HeapTypes'
    BY <1>8, <2>1, <2>2 DEF insert_before_cursor, HeapTypes
  <2>4. QED BY <1>0, <2>1, <2>3, ReturnTypes DEF GetNode
<1>9. CASE insert_at_end
  <2>1. /\ pc = "insert" /\ iter # NULL /\ iter \in Nodes /\ arg.node \in Nodes
        /\ arg.index \in Nat /\ Return("insert", arg.index, "OK", <<>>)
    BY <1>9
       DEF insert_at_end, AtNode, LoopTypes, DListInvariant, CallInProgress
  <2>2. HeapTypes'
    BY <1>9, <2>1 DEF insert_at_end, HeapTypes
  <2>3. QED BY <1>0, <2>1, <2>2, ReturnTypes DEF GetNode
<1>10. CASE dlist_delete
  <2>1. /\ pc = "delete" /\ iter # NULL /\ iter \in Nodes
        /\ arg.index \in Nat /\ Return("delete", arg.index, "OK", <<>>)
    BY <1>10 DEF dlist_delete, AtNode, LoopTypes
  <2>2. CASE ~InRange
    BY <1>0, <1>10, <1>a, <2>1, <2>2, ReturnTypes DEF dlist_delete, GetNode
  <2>3. CASE InRange
    <3>1. /\ Unlink(iter) /\ nodes' = nodes \ {iter} /\ live' = live \ {data[iter]}
          /\ data' = data /\ length' = length - 1
      BY <1>10, <2>3 DEF dlist_delete, dlist_node_destroy
    <3>2. Position \in 1..Len(order) /\ order \in Seq(Nodes) /\ Len(order) \in Nat \ {0}
      BY <2>1, PositionTypes DEF GetNode
    <3>3. order' \in Seq(Nodes)
      BY <1>10, <2>3, OrderAfterRemove
    <3>4. length = Len(order)
      BY <2>1, <3>2 DEF DListInvariant, Linked, Counted
    <3>5. /\ head' \in Nodes \cup {NULL} /\ prev' \in [Nodes -> Nodes \cup {NULL}]
          /\ next' \in [Nodes -> Nodes \cup {NULL}]
      BY <2>1, <3>1 DEF Unlink, HeapTypes
    <3>6. HeapTypes'
      BY <3>1, <3>2, <3>3, <3>4, <3>5 DEF HeapTypes
    <3>7. QED BY <1>0, <2>1, <3>6, ReturnTypes DEF GetNode
  <2>4. QED BY <2>2, <2>3
<1>11. CASE dlist_set_by_index
  <2>1. /\ pc = "set" /\ iter # NULL /\ iter \in Nodes /\ arg.index \in Nat
        /\ arg.value \in Data
    BY <1>11 DEF dlist_set_by_index, AtNode, LoopTypes, DListInvariant, CallInProgress
  <2>2. HeapTypes'
    BY <1>11, <2>1 DEF dlist_set_by_index, HeapTypes, list
  <2>3. LoopTypes'
    <3>1. \E ret \in {"OK", "FAIL"} : Return("set", arg.index, ret, <<>>)
      BY <1>11 DEF dlist_set_by_index
    <3>2. QED BY <1>0, <2>1, <3>1, ReturnTypes DEF GetNode
  <2>4. QED BY <2>2, <2>3
<1>12. CASE dlist_get_by_index
  <2>1. /\ UNCHANGED <<list, heap>> /\ iter \in Nodes /\ arg.index \in Nat
        /\ data[iter] \in Data \cup {NULL}
    BY <1>12 DEF dlist_get_by_index, AtNode, LoopTypes, HeapTypes
  <2>2. \/ Return("get", arg.index, "OK", <<data[iter]>>)
        \/ Return("get", arg.index, "FAIL", <<>>)
    BY <1>12 DEF dlist_get_by_index
  <2>3. LoopTypes'
    BY <1>0, <2>1, <2>2, ReturnTypes DEF GetNode
  <2>4. QED BY <1>a, <2>1, <2>3
<1>13. CASE dlist_find_next
  BY <1>13, <1>a DEF dlist_find_next, LoopTypes, HeapTypes
<1>14. CASE dlist_find
  <2>1. /\ Return("find", index, "OK", <<arg.value>>) /\ UNCHANGED <<list, heap>>
        /\ index \in Nat /\ arg.value \in Data \cup {NULL}
    BY <1>14 DEF dlist_find, LoopTypes
  <2>2. QED BY <1>0, <1>a, <2>1, ReturnTypes
<1>15. CASE dlist_foreach_visit
  <2>1. PICK ret \in {"OK", "FAIL", "STOP"} :
            arg' = [arg EXCEPT !.ret = ret, !.values = Append(@, data[iter])]
    BY <1>15 DEF dlist_foreach_visit
  <2>2. /\ iter \in Nodes /\ iter' = next[iter] /\ UNCHANGED <<pc, index, list, heap, result>>
    BY <1>15 DEF dlist_foreach_visit, LoopTypes
  <2>3. data[iter] \in Data \cup {NULL} /\ next[iter] \in Nodes \cup {NULL}
    BY <2>2 DEF HeapTypes
  <2>4. Append(arg.values, data[iter]) \in Seq(Data \cup {NULL})
    BY <2>3 DEF LoopTypes
  <2>5. LoopTypes'
    BY <2>1, <2>2, <2>3, <2>4 DEF LoopTypes
  <2>6. QED BY <1>a, <2>2, <2>5
<1>16. CASE dlist_foreach
  <2>1. /\ Return("foreach", 0, arg.ret, arg.values) /\ UNCHANGED <<list, heap>>
        /\ arg.ret \in {"OK", "FAIL", "STOP"} /\ arg.values \in Seq(Data \cup {NULL})
    BY <1>16 DEF dlist_foreach, LoopTypes
  <2>2. QED BY <1>a, <2>1, ReturnTypes
<1>17. CASE dlist_destroy_node
  <2>1. /\ iter \in Nodes /\ pc = "destroy" /\ iter' = next[iter] /\ order' = Tail(order)
        /\ prev' = [prev EXCEPT ![iter] = NULL] /\ next' = [next EXCEPT ![iter] = NULL]
        /\ nodes' = nodes \ {iter} /\ live' = live \ {data[iter]}
        /\ UNCHANGED <<data, pc, index, arg, head, length, result>>
    BY <1>17 DEF dlist_destroy_node, dlist_node_destroy, LoopTypes
  <2>2. order # <<>>
    BY <1>17 DEF dlist_destroy_node, DListInvariant, Linked, FirstLinked
  <2>3. Tail(order) \in Seq(Nodes)
    BY <2>2, HeadTailProperties DEF HeapTypes
  <2>4. HeapTypes'
    BY <2>1, <2>3 DEF HeapTypes
  <2>5. LoopTypes'
    BY <2>1 DEF LoopTypes, HeapTypes
  <2>6. QED BY <2>4, <2>5
<1>18. CASE dlist_destroy
  BY <1>18 DEF dlist_destroy, LoopTypes, HeapTypes, heap
<1>19. QED
  BY <1>1, <1>2, <1>3, <1>4, <1>5, <1>6, <1>7, <1>8, <1>9, <1>10, <1>11, <1>12, <1>13,
     <1>14, <1>15, <1>16, <1>17, <1>18 DEF DListNext, InCall

-----------------------------------------------------------------------------
(* The theorems. *)

\* In every reachable state the list has its types and the inductive invariant.
LEMMA Inductive == DListSpec => [](DListTypeOK /\ DListInvariant)
<1>1. DListInit => DListTypeOK /\ DListInvariant
  BY ListInit
<1>2. DListTypeOK /\ DListInvariant /\ [DListNext]_vars => (DListTypeOK /\ DListInvariant)'
  BY InvariantStep, TypeStep
<1>3. QED BY <1>1, <1>2, PTL DEF DListSpec

\* dlist.c: every pointer is a node or null, and dlist_delete never decrements a
\* length of zero.
THEOREM ListTypeCorrect == DListSpec => []DListTypeOK
  BY Inductive, PTL

\* dlist_get_node and its callers: the cursor is at the position it has counted to in
\* an intact list, and a call that is in progress finds the list as it was.
THEOREM ListInvariant == DListSpec => []DListInvariant
  BY Inductive, PTL

\* dlist_insert, dlist_delete and dlist_destroy: the forward and the backward links,
\* the head and the length agree at every step of every call.
THEOREM ListIsLinked == DListSpec => []Linked
<1>1. DListInvariant => Linked
  BY DEF DListInvariant
<1>2. QED BY <1>1, Inductive, PTL

\* dlist_node_destroy: no node or datum is destroyed twice or while it is in the
\* list, and nothing is left after dlist_destroy.
THEOREM HeapIsOwned == DListSpec => []HeapOwned
<1>1. DListInvariant => HeapOwned
  BY DEF DListInvariant
<1>2. QED BY <1>1, Inductive, PTL

-----------------------------------------------------------------------------
(* The refinement: where dlist_find and dlist_foreach are in the list. *)

NodeAt(i) == IF i \in 1..Len(order) THEN order[i] ELSE NULL

\* dlist_find has passed index nodes, and none of them has the datum.
Searching ==
    pc = "find" =>
        /\ index \in 0..Len(order) /\ iter = NodeAt(index + 1)
        /\ arg.value \in Data
        /\ \A i \in 1..index : data[order[i]] # arg.value

\* dlist_foreach has shown the first n data, and n is not 0 when the visit has returned.
Shown(n) ==
    /\ iter = NodeAt(n + 1)
    /\ arg.values = SubSeq(Contents, 1, n)
    /\ arg.ret # "OK" => n > 0

Visiting == pc = "foreach" => \E n \in 0..Len(order) : Shown(n)

Asked == pc \in GetNode => arg.index \in Indices

CallInvariant == Searching /\ Visiting /\ Asked

\* What a caller sees of a list that is linked.
LEMMA ContentsFacts ==
    ASSUME DListTypeOK, DListInvariant
    PROVE  /\ Contents \in Seq(Data) /\ Len(Contents) = Len(order) /\ Len(order) \in Nat
           /\ \A i \in 1..Len(order) : Contents[i] = data[order[i]] /\ Contents[i] \in Data
           /\ Contents = <<>> <=> order = <<>>
<1>1. \A n \in nodes : data[n] \in Data
  BY DEF DListInvariant, HeapOwned, DListTypeOK, HeapTypes
<1>2. \A i \in 1..Len(order) : data[order[i]] \in Data
  BY <1>1, ListFacts
<1>3. Contents \in Seq(Data) /\ Len(Contents) = Len(order)
  BY <1>2, ListFacts DEF Contents
<1>4. Contents = <<>> <=> Len(Contents) = 0
  BY <1>3
<1>5. QED BY <1>2, <1>3, <1>4, ListFacts DEF Contents

\* A step that leaves the order and the data of its nodes leaves the contents.
LEMMA ContentsKept ==
    ASSUME order' = order, \A i \in 1..Len(order) : data'[order[i]] = data[order[i]]
    PROVE  Contents' = Contents
  BY DEF Contents

\* Next from a node of the list is the node of the next position.
LEMMA NextNode ==
    ASSUME DListTypeOK, DListInvariant, NEW i \in Nat, iter = NodeAt(i + 1), iter # NULL
    PROVE  i + 1 \in 1..Len(order) /\ iter = order[i + 1] /\ next[iter] = NodeAt(i + 2)
<1>1. i + 1 \in 1..Len(order) /\ iter = order[i + 1]
  BY DEF NodeAt
<1>2. next[iter] = IF i + 1 = Len(order) THEN NULL ELSE order[i + 2]
  BY <1>1 DEF DListInvariant, Linked, NextLinked
<1>3. i + 2 \in 1..Len(order) <=> i + 1 # Len(order)
  BY <1>1, ListFacts
<1>4. QED BY <1>1, <1>2, <1>3 DEF NodeAt

\* A call that begins at the head has passed and shown nothing.
LEMMA CallBegins ==
    ASSUME DListTypeOK, DListInvariant, ListCall
    PROVE  CallInvariant'
<1> DEFINE Begun(a) == /\ pc = "idle" /\ iter' = head /\ index' = a.index /\ arg' = a
                       /\ UNCHANGED <<order, data>>
<1>0. UNCHANGED <<order, data>>
  BY DEF ListCall, list, heap
<1>1. ASSUME pc = "idle" PROVE head = NodeAt(1)
  BY <1>1, ListFacts DEF DListInvariant, Linked, FirstLinked, NodeAt
<1>2. ASSUME NEW i \in Indices, NEW op \in {"delete", "get"},
             Call(op, [NoArg EXCEPT !.index = i])
      PROVE  CallInvariant'
  BY <1>2 DEF Call, NoArg, CallInvariant, Searching, Visiting, Asked, GetNode
<1>3. ASSUME NEW i \in Indices, NEW d \in Data \ live,
             Call("set", [NoArg EXCEPT !.index = i, !.value = d])
      PROVE  CallInvariant'
  BY <1>3 DEF Call, NoArg, CallInvariant, Searching, Visiting, Asked, GetNode
<1>4. ASSUME NEW d \in Data, Call("find", [NoArg EXCEPT !.value = d])
      PROVE  CallInvariant'
  <2>1. /\ pc = "idle" /\ pc' = "find" /\ iter' = head /\ index' = 0 /\ arg'.value = d
    BY <1>4 DEF Call, NoArg
  <2>2. iter' = NodeAt(1)'
    BY <1>0, <1>1, <2>1 DEF NodeAt
  <2>3. Searching'
    BY <1>0, <2>1, <2>2, ListFacts DEF Searching, NodeAt
  <2>4. QED BY <2>1, <2>3 DEF CallInvariant, Visiting, Asked, GetNode
<1>5. ASSUME NEW op \in {"foreach", "destroy"}, Call(op, NoArg)
      PROVE  CallInvariant'
  <2>1. /\ pc = "idle" /\ pc' = op /\ iter' = head /\ arg' = NoArg
    BY <1>5 DEF Call
  <2>2. Contents' = Contents
    BY <1>0, ContentsKept
  <2>3. SubSeq(Contents, 1, 0) = <<>>
    BY ContentsFacts
  <2>4. Shown(0)'
    BY <1>0, <1>1, <2>1, <2>2, <2>3 DEF Shown, NodeAt, NoArg
  <2>5. 0 \in 0..Len(order')
    BY <1>0, ListFacts
  <2>6. QED BY <2>1, <2>4, <2>5 DEF CallInvariant, Visiting, Searching, Asked, GetNode
<1>6. QED BY <1>2, <1>3, <1>4, <1>5 DEF ListCall

\* One more datum is shown.
LEMMA ShownMore ==
    ASSUME DListTypeOK, DListInvariant, CallInvariant, dlist_foreach_visit
    PROVE  CallInvariant'
<1>1. PICK ret \in {"OK", "FAIL", "STOP"} :
          arg' = [arg EXCEPT !.ret = ret, !.values = Append(@, data[iter])]
  BY DEF dlist_foreach_visit
<1>2. /\ pc = "foreach" /\ pc' = "foreach" /\ iter # NULL /\ iter' = next[iter]
      /\ UNCHANGED <<order, data>>
  BY DEF dlist_foreach_visit, list, heap
<1>3. PICK n \in 0..Len(order) : Shown(n)
  BY <1>2 DEF CallInvariant, Visiting
<1>4. PICK m \in 1..Len(order) : m = n + 1
  BY <1>2, <1>3, NextNode DEF Shown
<1>5. iter = order[m] /\ iter' = NodeAt(m + 1)
  BY <1>2, <1>3, <1>4, NextNode DEF Shown
<1>6. arg'.values = SubSeq(Contents, 1, m)
  <2>1. data[iter] = Contents[m] /\ arg.values = SubSeq(Contents, 1, n)
    BY <1>3, <1>5, ContentsFacts DEF Shown
  <2>2. arg'.values = Append(arg.values, data[iter])
    BY <1>1 DEF DListTypeOK, LoopTypes
  <2>3. Append(SubSeq(Contents, 1, n), Contents[n + 1]) = SubSeq(Contents, 1, n + 1)
    <3>1. PICK s \in Seq(Data) : s = Contents
      BY ContentsFacts
    <3>2. n \in Nat /\ n + 1 \in 1..Len(s)
      BY <1>4, <3>1, ContentsFacts
    <3>3. Append(SubSeq(s, 1, n), s[n + 1]) = SubSeq(s, 1, n + 1)
      BY <3>2
    <3>4. QED BY <3>1, <3>3
  <2>4. QED BY <1>4, <2>1, <2>2, <2>3
<1>7. Contents' = Contents
  BY <1>2, ContentsKept
<1>8. Shown(m)'
  BY <1>2, <1>4, <1>5, <1>6, <1>7 DEF Shown, NodeAt
<1>9. QED BY <1>2, <1>8 DEF CallInvariant, Visiting, Searching, Asked, GetNode

\* One more datum is passed.
LEMMA PassedOne ==
    ASSUME DListTypeOK, DListInvariant, CallInvariant, dlist_find_next
    PROVE  CallInvariant'
<1>1. /\ pc = "find" /\ pc' = "find" /\ iter # NULL /\ data[iter] # arg.value
      /\ iter' = next[iter] /\ index' = index + 1 /\ UNCHANGED <<arg, order, data>>
  BY DEF dlist_find_next, list, heap
<1>2. /\ index \in 0..Len(order) /\ iter = NodeAt(index + 1) /\ arg.value \in Data
      /\ \A i \in 1..index : data[order[i]] # arg.value
  BY <1>1 DEF CallInvariant, Searching
<1>3. index \in Nat
  BY <1>2, ListFacts
<1>4. /\ index + 1 \in 1..Len(order) /\ iter = order[index + 1]
      /\ next[iter] = NodeAt(index + 2)
  BY <1>1, <1>2, <1>3, NextNode
<1>5. iter' = NodeAt(index + 1)'
  <2>1. index' + 1 = index + 2
    BY <1>1, <1>3
  <2>2. QED BY <1>1, <1>4, <2>1 DEF NodeAt
<1>6. \A i \in 1..index' : data[order[i]] # arg.value
  BY <1>1, <1>2, <1>3, <1>4
<1>7. Searching'
  BY <1>1, <1>2, <1>4, <1>5, <1>6, ListFacts DEF Searching
<1>8. QED BY <1>1, <1>7 DEF CallInvariant, Visiting, Asked, GetNode

\* So every step keeps the places of the loops.
LEMMA CallStepKept ==
    ASSUME DListTypeOK, DListInvariant, CallInvariant, [DListNext]_vars
    PROVE  CallInvariant'
<1> USE DEF CallInvariant, Searching, Visiting, Asked, GetNode
<1>1. CASE UNCHANGED vars
  <2>1. \A n : Shown(n)' = Shown(n)
    BY <1>1 DEF vars, list, heap, loop, Shown, NodeAt, Contents
  <2>2. NodeAt(index + 1)' = NodeAt(index + 1)
    BY <1>1 DEF vars, list, loop, NodeAt
  <2>3. QED BY <1>1, <2>1, <2>2 DEF vars, list, heap, loop
<1>2. ASSUME pc' \in {"idle", "dead", "destroy", "destroyed"} PROVE CallInvariant'
  BY <1>2
<1>3. ASSUME NEW i \in Indices, NEW d \in Data, dlist_insert_oom(i, d) PROVE CallInvariant'
  BY <1>2, <1>3 DEF dlist_insert_oom, Return
<1>4. ASSUME NEW i \in Indices, NEW d \in Data, dlist_insert(i, d) PROVE CallInvariant'
  <2>1. \/ pc' = "idle"
        \/ pc' = "insert" /\ arg' = [NoArg EXCEPT !.index = i, !.value = d, !.node = arg'.node]
    BY <1>4 DEF dlist_insert, Return, Call, NoArg
  <2>2. QED BY <1>2, <2>1 DEF NoArg
<1>5. CASE dlist_length
  BY <1>2, <1>5 DEF dlist_length, Return
<1>6. CASE ListCall
  BY <1>6, CallBegins
<1>7. CASE dlist_get_node_next
  BY <1>7 DEF dlist_get_node_next
<1>8. CASE dlist_foreach_visit
  BY <1>8, ShownMore
<1>9. CASE dlist_find_next
  BY <1>9, PassedOne
<1>10. CASE \/ dlist_get_node_dead \/ insert_before_cursor \/ insert_at_end
            \/ dlist_delete \/ dlist_set_by_index \/ dlist_get_by_index
            \/ dlist_find \/ dlist_foreach \/ dlist_destroy_node \/ dlist_destroy
  BY <1>2, <1>10
     DEF dlist_get_node_dead, insert_before_cursor, insert_at_end, dlist_delete,
         dlist_set_by_index, dlist_get_by_index, dlist_find, dlist_foreach,
         dlist_destroy_node, dlist_destroy, Return
<1>11. QED
  BY <1>1, <1>3, <1>4, <1>5, <1>6, <1>7, <1>8, <1>9, <1>10 DEF DListNext, InCall

\* Both modules take the sequence operators from the same module.
LEMMA SameOperators ==
    \A s, i, e : /\ DL!InsertAt(s, i, e) = InsertAt(s, i, e)
                 /\ DL!RemoveAt(s, i) = RemoveAt(s, i)
                 /\ DL!ReplaceAt(s, i, e) = ReplaceAt(s, i, e)
  BY DEF DL!InsertAt, DL!RemoveAt, DL!ReplaceAt, InsertAt, RemoveAt, ReplaceAt

\* The abstract list, by the refinement mapping.
Items == IF pc \in {"destroy", "destroyed"} THEN <<>> ELSE Contents
Alive == pc \notin {"destroy", "destroyed", "dead"}

\* InsertedAt, for nodes.
LEMMA NodeInserted ==
    \A s \in Seq(Nodes), e \in Nodes : \A p \in 1..(Len(s) + 1) :
        /\ InsertAt(s, p, e) \in Seq(Nodes) /\ Len(InsertAt(s, p, e)) = Len(s) + 1
        /\ \A i \in 1..(Len(s) + 1) :
               InsertAt(s, p, e)[i] = IF i < p THEN s[i] ELSE IF i = p THEN e ELSE s[i - 1]
  BY ONLY InsertedAt

\* A datum inserted at a position of the order is at that position of the contents.
LEMMA ContentsInserted ==
    ASSUME DListTypeOK, DListInvariant, NEW p \in 1..(Len(order) + 1), NEW n \in Nodes,
           data[n] \in Data, data' = data, order' = InsertAt(order, p, n)
    PROVE  Contents' = InsertAt(Contents, p, data[n])
<1>1. /\ order \in Seq(Nodes) /\ Contents \in Seq(Data) /\ Len(Contents) = Len(order)
      /\ \A i \in 1..Len(order) : Contents[i] = data[order[i]]
      /\ Len(order) \in Nat
  BY ContentsFacts DEF DListTypeOK, HeapTypes
<1> DEFINE o == InsertAt(order, p, n)
<1>1a. /\ o \in Seq(Nodes) /\ Len(o) = Len(order) + 1
      /\ \A i \in 1..(Len(order) + 1) :
             o[i] = IF i < p THEN order[i] ELSE IF i = p THEN n ELSE order[i - 1]
  <2>1. order \in Seq(Nodes) /\ p \in 1..(Len(order) + 1) /\ n \in Nodes
    BY <1>1
  <2>2. /\ InsertAt(order, p, n) \in Seq(Nodes) /\ Len(InsertAt(order, p, n)) = Len(order) + 1
        /\ \A i \in 1..(Len(order) + 1) :
               InsertAt(order, p, n)[i] =
                   IF i < p THEN order[i] ELSE IF i = p THEN n ELSE order[i - 1]
    BY ONLY <2>1, NodeInserted, Zenon
  <2>3. QED BY <2>2, Zenon
<1>2. /\ Len(order') = Len(order) + 1
      /\ \A i \in 1..(Len(order) + 1) :
             order'[i] = IF i < p THEN order[i] ELSE IF i = p THEN n ELSE order[i - 1]
  <2> HIDE DEF o
  <2>1. order' = o
    BY DEF o
  <2>2. QED BY <1>1a, <2>1
<1> DEFINE c == InsertAt(Contents, p, data[n])
<1>3. /\ c \in Seq(Data) /\ Len(c) = Len(order) + 1
      /\ \A i \in 1..(Len(order) + 1) :
             c[i] = IF i < p THEN Contents[i] ELSE IF i = p THEN data[n] ELSE Contents[i - 1]
  <2>1. Contents \in Seq(Data) /\ p \in 1..(Len(Contents) + 1) /\ data[n] \in Data
    BY <1>1
  <2>2. /\ c \in Seq(Data) /\ Len(c) = Len(Contents) + 1
        /\ \A i \in 1..(Len(Contents) + 1) :
               c[i] = IF i < p THEN Contents[i] ELSE IF i = p THEN data[n] ELSE Contents[i - 1]
    BY ONLY <2>1, InsertedAt
  <2> HIDE DEF c
  <2>3. QED BY <1>1, <2>2
<1> HIDE DEF c
<1>4. ASSUME NEW i \in 1..(Len(order) + 1) PROVE data[order'[i]] = c[i]
  <2>1. CASE i < p
    BY <1>1, <1>2, <1>3, <2>1
  <2>2. CASE i = p
    BY <1>2, <1>3, <2>2
  <2>3. CASE i > p
    <3>1. i - 1 \in 1..Len(order)
      BY <1>1, <2>3
    <3>2. QED BY <1>1, <1>2, <1>3, <2>3, <3>1
  <2>4. QED BY <2>1, <2>2, <2>3
<1>5. Contents' = [i \in 1..(Len(order) + 1) |-> data[order'[i]]]
  BY <1>2 DEF Contents
<1>6. c = [i \in 1..(Len(order) + 1) |-> c[i]]
  BY <1>3
<1>7. QED BY <1>4, <1>5, <1>6 DEF c

\* A node removed from the order is removed from the contents.
LEMMA ContentsRemoved ==
    ASSUME DListTypeOK, DListInvariant, NEW p \in 1..Len(order),
           data' = data, order' = RemoveAt(order, p)
    PROVE  Contents' = RemoveAt(Contents, p)
<1>1. /\ order \in Seq(Nodes) /\ Contents \in Seq(Data) /\ Len(Contents) = Len(order)
      /\ \A i \in 1..Len(order) : Contents[i] = data[order[i]]
      /\ Len(order) \in Nat
  BY ContentsFacts DEF DListTypeOK, HeapTypes
<1>2. /\ Len(order') = Len(order) - 1
      /\ \A i \in 1..(Len(order) - 1) :
             order'[i] = IF i < p THEN order[i] ELSE order[i + 1]
  BY <1>1, RemovedAt
<1> DEFINE c == RemoveAt(Contents, p)
<1>3. /\ c \in Seq(Data) /\ Len(c) = Len(order) - 1
      /\ \A i \in 1..(Len(order) - 1) :
             c[i] = IF i < p THEN Contents[i] ELSE Contents[i + 1]
  BY <1>1, RemovedAt
<1> HIDE DEF c
<1>4. ASSUME NEW i \in 1..(Len(order) - 1) PROVE data[order'[i]] = c[i]
  <2>1. i \in 1..Len(order) /\ i + 1 \in 1..Len(order)
    BY <1>1
  <2>2. QED BY <1>1, <1>2, <1>3, <2>1
<1>5. Contents' = [i \in 1..(Len(order) - 1) |-> data[order'[i]]]
  BY <1>2 DEF Contents
<1>6. c = [i \in 1..(Len(order) - 1) |-> c[i]]
  BY <1>3
<1>7. QED BY <1>4, <1>5, <1>6 DEF c

\* A new datum in the node at a position is at that position of the contents.
LEMMA ContentsReplaced ==
    ASSUME DListTypeOK, DListInvariant, NEW p \in 1..Len(order), NEW d \in Data,
           order' = order, data' = [data EXCEPT ![order[p]] = d]
    PROVE  Contents' = ReplaceAt(Contents, p, d)
<1>1. /\ data \in [Nodes -> Data \cup {NULL}]
      /\ \A i \in 1..Len(order) : order[i] \in Nodes /\ (order[i] = order[p] => i = p)
  BY ListFacts DEF DListTypeOK, HeapTypes, DListInvariant, Linked, Distinct
<1>2. \A i \in 1..Len(order) : data'[order[i]] = IF i = p THEN d ELSE data[order[i]]
  BY <1>1
<1>3. Contents' = [i \in 1..Len(order) |-> data'[order[i]]]
  BY DEF Contents
<1>4. ReplaceAt(Contents, p, d) = [i \in 1..Len(order) |->
                                       IF i = p THEN d ELSE data[order[i]]]
  BY DEF ReplaceAt, Contents
<1>5. QED BY <1>2, <1>3, <1>4

\* The abstract step of a call that leaves the contents: what it returns.
LEMMA AnswerSteps ==
    ASSUME DListTypeOK, DListInvariant, CallInvariant,
           \/ \E i \in Indices, d \in Data : dlist_insert_oom(i, d)
           \/ dlist_length \/ dlist_get_by_index \/ dlist_find \/ dlist_foreach
    PROVE  DL!Next
<1> DEFINE L == Len(order)
<1>0. /\ Contents \in Seq(Data) /\ Len(Contents) = L /\ L \in Nat
      /\ \A i \in 1..L : Contents[i] = data[order[i]] /\ Contents[i] \in Data
  BY ContentsFacts
<1>1. UNCHANGED <<order, data>>
  BY DEF dlist_insert_oom, dlist_length, dlist_get_by_index, dlist_find, dlist_foreach,
         list, heap
<1>2. Contents' = Contents
  BY <1>1, ContentsKept
<1>3. pc \in {"idle", "get", "find", "foreach"} /\ pc' = "idle"
  BY DEF dlist_insert_oom, dlist_length, dlist_get_by_index, dlist_find, dlist_foreach,
         Return, AtNode
<1>4. Items = Contents /\ Items' = Contents /\ Alive /\ Alive'
  BY <1>2, <1>3 DEF Items, Alive
<1>5. ASSUME NEW i \in Indices, NEW d \in Data, dlist_insert_oom(i, d) PROVE DL!Next
  <2>1. DL!OutOfMemory(i)
    BY <1>4, <1>5 DEF dlist_insert_oom, Return, DL!OutOfMemory, DL!Result, Items, Alive
  <2>2. QED BY <1>4, <2>1 DEF DL!Next, Alive
<1>6. CASE dlist_length
  <2>1. pc = "idle" /\ length = L
    BY <1>6 DEF dlist_length, DListInvariant, Linked, Counted
  <2>2. DL!Size = L
    BY <1>0, <1>4 DEF DL!Size, Items
  <2>3. DL!Length
    BY <1>4, <1>6, <2>1, <2>2 DEF dlist_length, Return, DL!Length, DL!Result, Items, Alive
  <2>4. QED BY <1>4, <2>3 DEF DL!Next, Alive
<1>7. CASE dlist_get_by_index
  <2>1. /\ pc = "get" /\ iter # NULL /\ (next[iter] = NULL \/ index = 0)
        /\ arg.index \in Indices
    BY <1>7 DEF dlist_get_by_index, AtNode, CallInvariant, Asked, GetNode
  <2>2. Position \in 1..L /\ iter = order[Position] /\ index \in 0..arg.index
    BY <2>1, PositionTypes DEF DListInvariant, Walking, GetNode
  <2>3. arg.index \in Nat
    BY DEF DListTypeOK, LoopTypes
  <2>4. DL!Size = L
    BY <1>0, <1>4 DEF DL!Size, Items
  <2>5. CASE index = 0
    <3>1. Position = arg.index + 1 /\ arg.index < L
      BY <1>0, <2>2, <2>3, <2>5 DEF Position
    <3>2. Contents[arg.index + 1] = data[iter]
      BY <1>0, <2>2, <3>1
    <3>3. result' = [op |-> "get", index |-> arg.index, ret |-> "OK",
                     values |-> <<data[iter]>>]
      BY <1>7, <2>5 DEF dlist_get_by_index, Return, InRange
    <3>4. DL!Get(arg.index)
      BY <1>4, <2>4, <3>1, <3>2, <3>3 DEF DL!Get, DL!Result, Items, Alive
    <3>5. QED BY <1>4, <2>1, <3>4 DEF DL!Next, Alive
  <2>6. CASE index # 0
    <3>1. Position = L
      <4>1. next[order[Position]] = IF Position = L THEN NULL ELSE order[Position + 1]
        BY <2>2 DEF DListInvariant, Linked, NextLinked
      <4>2. Position # L => Position + 1 \in 1..L
        BY <1>0, <2>2
      <4>3. QED BY <2>1, <2>2, <2>6, <4>1, <4>2, ListFacts
    <3>2. ~(arg.index < L)
      BY <1>0, <2>2, <2>3, <2>6, <3>1 DEF Position
    <3>3. result' = [op |-> "get", index |-> arg.index, ret |-> "FAIL", values |-> <<>>]
      BY <1>7, <2>6 DEF dlist_get_by_index, Return, InRange
    <3>4. DL!Get(arg.index)
      BY <1>4, <2>4, <3>2, <3>3 DEF DL!Get, DL!Result, Items, Alive
    <3>5. QED BY <1>4, <2>1, <3>4 DEF DL!Next, Alive
  <2>7. QED BY <2>5, <2>6
<1>8. CASE dlist_find
  <2>1. /\ index \in 0..L /\ iter = NodeAt(index + 1) /\ arg.value \in Data
        /\ \A i \in 1..index : data[order[i]] # arg.value
    BY <1>8 DEF dlist_find, CallInvariant, Searching
  <2>2. \A i \in 1..index : Contents[i] # arg.value
    BY <1>0, <2>1
  <2>3. index < L => Contents[index + 1] = arg.value
    <3>1. ASSUME index < L PROVE index + 1 \in 1..L
      BY <1>0, <2>1, <3>1
    <3>2. ASSUME index < L PROVE iter = order[index + 1] /\ iter # NULL
      BY <2>1, <3>1, <3>2, ListFacts DEF NodeAt
    <3>3. QED BY <1>0, <1>8, <3>1, <3>2 DEF dlist_find
  <2>4. result' = [op |-> "find", index |-> index, ret |-> "OK", values |-> <<arg.value>>]
    BY <1>8 DEF dlist_find, Return
  <2>5. DL!Size = L
    BY <1>0, <1>4 DEF DL!Size, Items
  <2>6. DL!Find(arg.value)
    BY <1>4, <2>1, <2>2, <2>3, <2>4, <2>5 DEF DL!Find, DL!Result, Items, Alive
  <2>7. QED BY <1>4, <2>1, <2>6 DEF DL!Next, Alive
<1>9. CASE dlist_foreach
  <2>1. PICK n \in 0..L : Shown(n)
    BY <1>9 DEF dlist_foreach, CallInvariant, Visiting
  <2>2. arg.ret # "STOP" => n = L
    <3>1. arg.ret # "STOP" => iter = NULL
      BY <1>9 DEF dlist_foreach
    <3>2. n # L => n + 1 \in 1..L
      BY <1>0
    <3>3. n # L => iter # NULL
      BY <2>1, <3>2, ListFacts DEF Shown, NodeAt
    <3>4. QED BY <3>1, <3>3
  <2>3. arg.ret # "OK" => n > 0
    BY <2>1 DEF Shown
  <2>4. result' = [op |-> "foreach", index |-> 0, ret |-> arg.ret, values |-> arg.values]
    BY <1>9 DEF dlist_foreach, Return
  <2>5. arg.values = SubSeq(Contents, 1, n)
    BY <2>1 DEF Shown
  <2>6. DL!Size = L
    BY <1>0, <1>4 DEF DL!Size, Items
  <2>7. DL!Foreach(arg.ret)
    BY <1>4, <2>2, <2>3, <2>4, <2>5, <2>6 DEF DL!Foreach, DL!Result, Items, Alive
  <2>8. arg.ret \in {"OK", "FAIL", "STOP"}
    BY DEF DListTypeOK, LoopTypes
  <2>9. QED BY <1>4, <2>7, <2>8 DEF DL!Next, Alive
<1>10. QED BY <1>5, <1>6, <1>7, <1>8, <1>9

\* The abstract step of a call that inserts: the datum of the new node is in the list.
LEMMA InsertSteps ==
    ASSUME DListTypeOK, DListInvariant, CallInvariant, insert_before_cursor \/ insert_at_end
    PROVE  DL!Next
<1> DEFINE L == Len(order)
           d == data[arg.node]
<1>0. /\ Contents \in Seq(Data) /\ Len(Contents) = L /\ L \in Nat
  BY ContentsFacts
<1>1. /\ pc = "insert" /\ pc' = "idle" /\ iter # NULL
      /\ next[iter] = NULL \/ index = 0
      /\ data' = data
      /\ result' = [op |-> "insert", index |-> arg.index, ret |-> "OK", values |-> <<>>]
  BY DEF insert_before_cursor, insert_at_end, AtNode, Return
<1>2. /\ arg.index \in Indices /\ arg.index \in Nat /\ length = L + 1
      /\ Position \in 1..L /\ iter = order[Position] /\ index \in 0..arg.index
  BY <1>1, PositionTypes
     DEF DListTypeOK, LoopTypes, CallInvariant, Asked, GetNode, DListInvariant, Walking,
         Linked, Counted
<1>3. arg.node \in Nodes /\ d \in Data
  BY <1>1 DEF DListInvariant, CallInProgress, HeapOwned, Pending, DListTypeOK, HeapTypes
<1>4. Items = Contents /\ Items' = Contents' /\ Alive /\ Alive'
  BY <1>1 DEF Items, Alive
<1>5. DL!Size = L
  BY <1>0, <1>4 DEF DL!Size, Items
<1>6. index # 0 => Position = L
  <2>1. next[order[Position]] = IF Position = L THEN NULL ELSE order[Position + 1]
    BY <1>2 DEF DListInvariant, Linked, NextLinked
  <2>2. Position # L => Position + 1 \in 1..L
    BY <1>0, <1>2
  <2>3. QED BY <1>1, <1>2, <2>1, <2>2, ListFacts
<1>7. ASSUME NEW before \in 0..L, arg.index < L => before = arg.index,
             arg.index > L => before = L, Contents' = InsertAt(Contents, before + 1, d)
      PROVE  DL!Next
  <2>1. DL!Insert(arg.index, d)
    <3>1. Items' = DL!InsertAt(Items, before + 1, d)
      BY <1>4, <1>7, SameOperators
    <3>2. QED BY <1>1, <1>4, <1>5, <1>7, <3>1 DEF DL!Insert, DL!Result, Items, Alive
  <2>2. QED BY <1>2, <1>3, <1>4, <2>1 DEF DL!Next, Alive
<1>8. CASE insert_before_cursor
  <2>1. arg.index <= L /\ order' = InsertAt(order, Position, arg.node)
    BY <1>0, <1>2, <1>8 DEF insert_before_cursor
  <2>2. Contents' = InsertAt(Contents, Position, d)
    BY <1>0, <1>1, <1>2, <1>3, <2>1, ContentsInserted
  <2>3. arg.index < L => Position = arg.index + 1
    BY <1>0, <1>2, <1>6 DEF Position
  <2>4. PICK before \in 0..L : Position = before + 1
    <3>1. Position - 1 \in 0..L /\ Position = (Position - 1) + 1
      BY <1>0, <1>2
    <3>2. QED BY <3>1
  <2>5. /\ arg.index < L => before = arg.index
        /\ arg.index > L => before = L
    BY <1>0, <1>2, <2>1, <2>3, <2>4
  <2>6. QED BY <1>7, <2>2, <2>4, <2>5
<1>9. CASE insert_at_end
  <2>1. arg.index > L /\ order' = Append(order, arg.node)
    BY <1>0, <1>2, <1>9 DEF insert_at_end
  <2>2. order' = InsertAt(order, L + 1, arg.node)
    <3>1. order \in Seq(Nodes)
      BY DEF DListTypeOK, HeapTypes
    <3>2. SubSeq(order, 1, L) = order /\ SubSeq(order, L + 1, L) = <<>>
      BY <1>0, <3>1
    <3>3. (order \o <<arg.node>>) \o <<>> = Append(order, arg.node)
      BY <1>3, <3>1
    <3>4. L + 1 - 1 = L
      BY <1>0
    <3>5. QED BY <2>1, <3>2, <3>3, <3>4 DEF InsertAt
  <2>3. L + 1 \in 1..(L + 1)
    BY <1>0
  <2>4. Contents' = InsertAt(Contents, L + 1, d)
    BY <1>1, <1>3, <2>2, <2>3, ContentsInserted
  <2>5. L \in 0..L
    BY <1>0
  <2>6. /\ arg.index < L => L = arg.index
        /\ arg.index > L => L = L
    BY <1>0, <1>2, <2>1
  <2>7. QED BY <1>7, <2>4, <2>5, <2>6
<1>10. QED BY <1>8, <1>9

\* The abstract step of dlist_delete and of dlist_set_by_index: the datum at the index.
LEMMA ChangeSteps ==
    ASSUME DListTypeOK, DListInvariant, CallInvariant, dlist_delete \/ dlist_set_by_index
    PROVE  DL!Next
<1> DEFINE L == Len(order)
<1>0. /\ Contents \in Seq(Data) /\ Len(Contents) = L /\ L \in Nat
  BY ContentsFacts
<1>1. /\ pc \in {"delete", "set"} /\ pc' = "idle" /\ iter # NULL
      /\ next[iter] = NULL \/ index = 0
  BY DEF dlist_delete, dlist_set_by_index, AtNode, Return
<1>2. /\ arg.index \in Indices /\ arg.index \in Nat
      /\ Position \in 1..L /\ iter = order[Position] /\ index \in 0..arg.index
  BY <1>1, PositionTypes
     DEF DListTypeOK, LoopTypes, CallInvariant, Asked, GetNode, DListInvariant, Walking
<1>4. Items = Contents /\ Items' = Contents' /\ Alive /\ Alive'
  BY <1>1 DEF Items, Alive
<1>5. DL!Size = L
  BY <1>0, <1>4 DEF DL!Size, Items
<1>6. index # 0 => Position = L
  <2>1. next[order[Position]] = IF Position = L THEN NULL ELSE order[Position + 1]
    BY <1>2 DEF DListInvariant, Linked, NextLinked
  <2>2. Position # L => Position + 1 \in 1..L
    BY <1>0, <1>2
  <2>3. QED BY <1>1, <1>2, <2>1, <2>2, ListFacts
<1>7. /\ index = 0 => Position = arg.index + 1 /\ arg.index < L
      /\ index # 0 => ~(arg.index < L)
  BY <1>0, <1>2, <1>6 DEF Position
<1>8. CASE dlist_delete
  <2>1. result' = [op |-> "delete", index |-> arg.index, ret |-> "OK", values |-> <<>>]
    BY <1>8 DEF dlist_delete, Return
  <2>2. Contents' = IF arg.index < L THEN RemoveAt(Contents, arg.index + 1) ELSE Contents
    <3>1. CASE InRange
      <4>1. data' = data /\ order' = RemoveAt(order, Position)
        BY <1>8, <3>1 DEF dlist_delete, dlist_node_destroy
      <4>2. QED BY <1>2, <1>7, <3>1, <4>1, ContentsRemoved DEF InRange
    <3>2. CASE ~InRange
      <4>1. UNCHANGED <<order, data>>
        BY <1>8, <3>2 DEF dlist_delete, list, heap
      <4>2. QED BY <1>7, <3>2, <4>1, ContentsKept DEF InRange
    <3>3. QED BY <3>1, <3>2
  <2>3. DL!Delete(arg.index)
    BY <1>4, <1>5, <2>1, <2>2, SameOperators DEF DL!Delete, DL!Result, Items, Alive
  <2>4. QED BY <1>2, <1>4, <2>3 DEF DL!Next, Alive
<1>9. CASE dlist_set_by_index
  <2>1. pc = "set" /\ arg.value \in Data
    BY <1>9 DEF dlist_set_by_index, AtNode, DListInvariant, CallInProgress
  <2>2. order' = order
    BY <1>9 DEF dlist_set_by_index, list
  <2>3. CASE InRange
    <3>1. data' = [data EXCEPT ![order[Position]] = arg.value]
      BY <1>2, <1>9, <2>3 DEF dlist_set_by_index
    <3>2. Contents' = ReplaceAt(Contents, Position, arg.value)
      BY <1>2, <2>1, <2>2, <3>1, ContentsReplaced
    <3>3. result' = [op |-> "set", index |-> arg.index, ret |-> "OK", values |-> <<>>]
      BY <1>9, <2>3 DEF dlist_set_by_index, Return
    <3>4. DL!Set(arg.index, arg.value)
      BY <1>4, <1>5, <1>7, <2>3, <3>2, <3>3, SameOperators
         DEF InRange, DL!Set, DL!Result, Items, Alive
    <3>5. QED BY <1>2, <1>4, <2>1, <3>4 DEF DL!Next, Alive
  <2>4. CASE ~InRange
    <3>1. data' = data
      BY <1>9, <2>4 DEF dlist_set_by_index
    <3>2. Contents' = Contents
      BY <2>2, <3>1, ContentsKept
    <3>3. result' = [op |-> "set", index |-> arg.index, ret |-> "FAIL", values |-> <<>>]
      BY <1>9, <2>4 DEF dlist_set_by_index, Return
    <3>4. DL!Set(arg.index, arg.value)
      BY <1>4, <1>5, <1>7, <2>4, <3>2, <3>3 DEF InRange, DL!Set, DL!Result, Items, Alive
    <3>5. QED BY <1>2, <1>4, <2>1, <3>4 DEF DL!Next, Alive
  <2>5. QED BY <2>3, <2>4
<1>10. QED BY <1>8, <1>9

\* The abstract step of a call that begins; dlist_insert into an empty list is at once.
LEMMA BeginSteps ==
    ASSUME DListTypeOK, DListInvariant,
           ListCall \/ \E i \in Indices, d \in Data : dlist_insert(i, d)
    PROVE  DL!Next
<1>0. pc = "idle"
  BY DEF ListCall, Call, dlist_insert
<1>1. Items = Contents /\ Alive
  BY <1>0 DEF Items, Alive
<1>2. ASSUME pc' \notin {"destroy", "destroyed", "dead"}, Contents' = Contents,
             result' = NoResult
      PROVE  DL!Next
  <2>1. DL!Ask
    BY <1>1, <1>2 DEF DL!Ask, DL!NoResult, NoResult, Items, Alive
  <2>2. QED BY <1>1, <2>1 DEF DL!Next, Alive
<1>3. CASE ListCall
  <2>1. result' = NoResult /\ Contents' = Contents
    BY <1>3, ContentsKept DEF ListCall, Call, list, heap
  <2>2. pc' \in {"delete", "get", "set", "find", "foreach", "destroy"}
    BY <1>3 DEF ListCall, Call
  <2>3. CASE pc' = "destroy"
    <3>1. DL!Destroy
      BY <1>1, <2>1, <2>3 DEF DL!Destroy, DL!NoResult, NoResult, Items, Alive
    <3>2. QED BY <1>1, <3>1 DEF DL!Next, Alive
  <2>4. QED BY <1>2, <2>1, <2>2, <2>3
<1>4. ASSUME NEW i \in Indices, NEW d \in Data, dlist_insert(i, d) PROVE DL!Next
  <2>1. PICK n \in Nodes \ nodes :
            /\ data' = [data EXCEPT ![n] = d]
            /\ IF head = NULL
               THEN /\ head' = n /\ order' = <<n>>
                    /\ Return("insert", i, "OK", <<>>)
               ELSE /\ Call("insert", [NoArg EXCEPT !.index = i, !.value = d, !.node = n])
                    /\ UNCHANGED <<head, order>>
    BY <1>4 DEF dlist_insert
  <2>2. data \in [Nodes -> Data \cup {NULL}]
    BY DEF DListTypeOK, HeapTypes
  <2>3. CASE head = NULL
    <3>1. order = <<>> /\ Contents = <<>>
      BY <1>0, <2>3, ListFacts, ContentsFacts
    <3>2. Contents' = <<d>>
      <4>1. order' = <<n>> /\ data'[n] = d
        BY <2>1, <2>2, <2>3
      <4>2. Contents' = [j \in 1..1 |-> d]
        BY <4>1 DEF Contents
      <4>3. QED BY <4>2
    <3>3. pc' = "idle" /\ result' = [op |-> "insert", index |-> i, ret |-> "OK", values |-> <<>>]
      BY <2>1, <2>3 DEF Return
    <3>4. DL!InsertAt(<<>>, 1, d) = <<d>>
      <4>1. SubSeq(<<>>, 1, 1 - 1) = <<>> /\ SubSeq(<<>>, 1, Len(<<>>)) = <<>>
        OBVIOUS
      <4>2. (<<>> \o <<d>>) \o <<>> = <<d>>
        OBVIOUS
      <4>3. QED BY <4>1, <4>2 DEF DL!InsertAt
    <3>5. Items = <<>> /\ Items' = <<d>> /\ Alive /\ Alive'
      BY <1>0, <3>1, <3>2, <3>3 DEF Items, Alive
    <3>6. DL!Size = 0
      BY <3>5 DEF DL!Size, Items
    <3>7. DL!Insert(i, d)
      <4>1. i \in Nat
        BY DEF Indices
      <4>2. 0 \in 0..0 /\ (i < 0 => 0 = i) /\ (i > 0 => 0 = 0)
        BY <4>1
      <4>3. Items' = DL!InsertAt(Items, 0 + 1, d)
        BY <3>4, <3>5
      <4>4. QED
        BY <3>3, <3>5, <3>6, <4>2, <4>3 DEF DL!Insert, DL!Result, Items, Alive
    <3>8. QED BY <1>1, <3>7 DEF DL!Next, Alive
  <2>4. CASE head # NULL
    <3>1. /\ order' = order /\ pc' = "insert" /\ result' = NoResult
      BY <2>1, <2>4 DEF Call
    <3>2. \A j \in 1..Len(order) : order[j] # n /\ order[j] \in Nodes
      BY <2>1, ListFacts
    <3>3. \A j \in 1..Len(order) : data'[order[j]] = data[order[j]]
      BY <2>1, <2>2, <3>2
    <3>4. Contents' = Contents
      BY <3>1, <3>3, ContentsKept
    <3>5. QED BY <1>2, <3>1, <3>4
  <2>5. QED BY <2>3, <2>4
<1>5. QED BY <1>3, <1>4

\* The steps of the loops change nothing that a caller sees, and the only other one is
\* the end of the program, in an empty list.
LEMMA LoopSteps ==
    ASSUME DListTypeOK, DListInvariant,
           \/ dlist_get_node_next \/ dlist_get_node_dead \/ dlist_find_next
           \/ dlist_foreach_visit \/ dlist_destroy_node \/ dlist_destroy
           \/ UNCHANGED vars
    PROVE  [DL!Next]_(DL!vars)
<1>1. ASSUME Items' = Items, Alive' = Alive, result' = result
      PROVE  [DL!Next]_(DL!vars)
  BY <1>1 DEF DL!vars, Items, Alive
<1>2. ASSUME UNCHANGED <<pc, order, data, result>> PROVE [DL!Next]_(DL!vars)
  BY <1>1, <1>2 DEF Items, Alive, Contents
<1>3. CASE dlist_get_node_dead
  <2>1. /\ pc \in GetNode /\ iter = NULL /\ pc' = "dead"
        /\ UNCHANGED <<order, data, result>>
    BY <1>3 DEF dlist_get_node_dead, list, heap
  <2>2. order = <<>>
    BY <2>1, ListFacts DEF DListInvariant, Walking
  <2>3. Contents = <<>> /\ Contents' = Contents
    BY <2>1, <2>2, ContentsFacts, ContentsKept
  <2>4. Items = <<>> /\ Items' = <<>> /\ Alive /\ ~Alive'
    BY <2>1, <2>3 DEF Items, Alive, GetNode
  <2>5. DL!Crash
    BY <2>1, <2>4 DEF DL!Crash, Items, Alive
  <2>6. QED BY <2>4, <2>5 DEF DL!Next, Alive
<1>4. CASE dlist_destroy_node \/ dlist_destroy
  <2>1. pc = "destroy" /\ pc' \in {"destroy", "destroyed"} /\ result' = result
    BY <1>4 DEF dlist_destroy_node, dlist_destroy
  <2>2. QED BY <1>1, <2>1 DEF Items, Alive
<1>5. CASE dlist_get_node_next \/ dlist_find_next \/ dlist_foreach_visit \/ UNCHANGED vars
  BY <1>2, <1>5
     DEF dlist_get_node_next, dlist_find_next, dlist_foreach_visit, vars, list, heap, loop
<1>6. QED BY <1>3, <1>4, <1>5

\* dlist.h: after any sequence of calls, and for any number of nodes and data, a list
\* answers as the sequence that its callers take it for, each call taking effect in one
\* step of it: dlist_insert when the node is linked, dlist_delete when it is unlinked.
THEOREM ImplementsTheDataList == DListSpec => ImplementsDataList
<1>1. DListInit => DL!Init
  <2>1. DListInit => Contents = <<>>
    BY DEF DListInit, Contents
  <2>2. QED BY <2>1 DEF DListInit, DL!Init, DL!NoResult, NoResult
<1>2. DListInit => CallInvariant
  BY DEF DListInit, CallInvariant, Searching, Visiting, Asked, GetNode
<1>3. DListTypeOK /\ DListInvariant /\ CallInvariant /\ [DListNext]_vars => CallInvariant'
  BY CallStepKept
<1>4. DListTypeOK /\ DListInvariant /\ CallInvariant /\ [DListNext]_vars
          => [DL!Next]_(DL!vars)
  BY AnswerSteps, InsertSteps, ChangeSteps, BeginSteps, LoopSteps DEF DListNext, InCall
<1>5. QED BY <1>1, <1>2, <1>3, <1>4, Inductive, PTL DEF DListSpec, ImplementsDataList, DL!Spec
=============================================================================
