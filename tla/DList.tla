-------------------------------- MODULE DList --------------------------------
(***************************************************************************)
(* common/dlist.c: a doubly linked list on the heap.                        *)
(*                                                                          *)
(* A call that walks the list is one action per pass of its loop: `pc` is   *)
(* the call in progress, `iter` and `index` are the variables of the loop   *)
(* (of dlist_get_node for insert, delete, set and get), `arg` the call's    *)
(* arguments and locals.  `order` is a history variable: the nodes that the *)
(* links are meant to join, from the first to the last.                     *)
(***************************************************************************)
EXTENDS Integers, Sequences, SequencesExt

CONSTANTS
    NumNodes,   \* nodes that malloc can give: a bound
    NumData,    \* data that callers can hand over: a bound
    SizeMax     \* (size_t)-1, the index that dlist_append passes

ASSUME ListAssumption ==
    /\ NumNodes \in Nat \ {0} /\ NumData \in Nat \ {0}
    /\ SizeMax \in Nat /\ SizeMax > NumNodes + 1

Nodes == 1..NumNodes
Data == 1..NumData
NULL == 0
Indices == 0..(NumNodes + 1) \cup {SizeMax}

VARIABLES
    head, length,       \* struct _DList
    prev, next, data,   \* struct _DListNode, for every address
    nodes,              \* the nodes that are allocated
    live,               \* the data handed to the list and not destroyed by it
    pc, iter, index, arg,
    order,              \* history: the nodes in the order of the list
    result              \* what the last call to return was asked and returned

list == <<head, length, order>>
heap == <<prev, next, data, nodes, live>>
loop == <<pc, iter, index, arg>>
vars == <<list, heap, loop, result>>

NoArg == [index |-> 0, value |-> NULL, node |-> NULL, ret |-> "OK", values |-> <<>>]
NoResult == [op |-> "none", index |-> 0, ret |-> "OK", values |-> <<>>]
GetNode == {"insert", "delete", "set", "get"}

\* The list and its nodes.
HeapTypes ==
    /\ head \in Nodes \cup {NULL} /\ length \in Nat
    /\ prev \in [Nodes -> Nodes \cup {NULL}] /\ next \in [Nodes -> Nodes \cup {NULL}]
    /\ data \in [Nodes -> Data \cup {NULL}]
    /\ nodes \subseteq Nodes /\ live \subseteq Data
    /\ order \in Seq(Nodes)

\* The call in progress and what the last one returned.
LoopTypes ==
    /\ pc \in GetNode \cup {"idle", "find", "foreach", "destroy", "destroyed", "dead"}
    /\ iter \in Nodes \cup {NULL} /\ index \in Nat
    /\ arg \in [index : Nat, value : Data \cup {NULL}, node : Nodes \cup {NULL},
                ret : {"OK", "FAIL", "STOP"}, values : Seq(Data \cup {NULL})]
    /\ result \in [op : GetNode \cup {"none", "length", "find", "foreach"}, index : Nat,
                   ret : {"OK", "OOM", "FAIL", "STOP"}, values : Seq(Data \cup {NULL})]

\* Type invariant. The length is a size_t that dlist_delete decrements: it never
\* goes below zero.
DListTypeOK == HeapTypes /\ LoopTypes

\* dlist_create.
DListInit ==
    /\ head = NULL /\ length = 0
    /\ prev = [n \in Nodes |-> NULL] /\ next = [n \in Nodes |-> NULL]
    /\ data = [n \in Nodes |-> NULL]
    /\ nodes = {} /\ live = {}
    /\ pc = "idle" /\ iter = NULL /\ index = 0 /\ arg = NoArg
    /\ order = <<>>
    /\ result = NoResult

-----------------------------------------------------------------------------
(* Calls, loops and returns. *)

Call(op, a) ==
    /\ pc = "idle" /\ pc' = op
    /\ iter' = head /\ index' = a.index /\ arg' = a
    /\ result' = NoResult

Return(op, i, ret, values) ==
    /\ pc' = "idle" /\ iter' = NULL /\ index' = 0 /\ arg' = NoArg
    /\ result' = [op |-> op, index |-> i, ret |-> ret, values |-> values]

\* The loop of dlist_get_node; with no first node it reads through a null pointer.
dlist_get_node_next ==
    /\ pc \in GetNode /\ iter # NULL
    /\ next[iter] # NULL /\ index > 0
    /\ iter' = next[iter] /\ index' = index - 1
    /\ UNCHANGED <<pc, arg, list, heap, result>>

dlist_get_node_dead ==
    /\ pc \in GetNode /\ iter = NULL
    /\ pc' = "dead"
    /\ UNCHANGED <<iter, index, arg, list, heap, result>>

\* The loop has ended at iter, which is the node of the index if that is in range.
AtNode(op) == pc = op /\ iter # NULL /\ (next[iter] = NULL \/ index = 0)

\* Mutant: an index out of range is the last one, as for an insertion.
InRangeAlways == TRUE

InRange == index = 0
Position == arg.index - index + 1

\* Mutant: the datum is not destroyed with its node.
dlist_node_destroy_node_only(n) ==
    /\ nodes' = nodes \ {n}
    /\ UNCHANGED <<live, data>>

dlist_node_destroy(n) ==
    /\ nodes' = nodes \ {n}
    /\ live' = live \ {data[n]}
    /\ UNCHANGED data

-----------------------------------------------------------------------------
(* The functions. *)

\* dlist_insert, dlist_append (SizeMax) and dlist_prepend (0), up to dlist_get_node.
dlist_insert_oom(i, d) ==
    /\ pc = "idle" /\ d \notin live
    /\ Return("insert", i, "OOM", <<>>)
    /\ UNCHANGED <<list, heap>>

dlist_insert(i, d) ==
    /\ pc = "idle" /\ d \notin live
    /\ \E n \in Nodes \ nodes :
           /\ nodes' = nodes \cup {n} /\ live' = live \cup {d}
           /\ prev' = [prev EXCEPT ![n] = NULL] /\ next' = [next EXCEPT ![n] = NULL]
           /\ data' = [data EXCEPT ![n] = d]
           /\ length' = length + 1
           /\ IF head = NULL
              THEN /\ head' = n /\ order' = <<n>>
                   /\ Return("insert", i, "OK", <<>>)
              ELSE /\ Call("insert", [NoArg EXCEPT !.index = i, !.value = d, !.node = n])
                   /\ UNCHANGED <<head, order>>

\* Mutant: the head is not moved to a node inserted before it.
insert_before_cursor_keeps_head ==
    LET node == arg.node
    IN  /\ AtNode("insert") /\ arg.index < length
        /\ next' = [n \in Nodes |-> IF n = node THEN iter
                                    ELSE IF n = prev[iter] THEN node ELSE next[n]]
        /\ prev' = [prev EXCEPT ![node] = prev[iter], ![iter] = node]
        /\ order' = InsertAt(order, Position, node)
        /\ Return("insert", arg.index, "OK", <<>>)
        /\ UNCHANGED <<head, length, data, nodes, live>>

\* The index is compared with the length that already counts the new node.
insert_before_cursor ==
    LET node == arg.node
    IN  /\ AtNode("insert") /\ arg.index < length
        /\ IF head = iter
           THEN /\ head' = node
                /\ next' = [next EXCEPT ![node] = iter]
                /\ prev' = [prev EXCEPT ![iter] = node]
           ELSE /\ next' = [next EXCEPT ![prev[iter]] = node, ![node] = iter]
                /\ prev' = [prev EXCEPT ![node] = prev[iter], ![iter] = node]
                /\ UNCHANGED head
        /\ order' = InsertAt(order, Position, node)
        /\ Return("insert", arg.index, "OK", <<>>)
        /\ UNCHANGED <<length, data, nodes, live>>

insert_at_end ==
    /\ AtNode("insert") /\ arg.index >= length
    /\ next' = [next EXCEPT ![iter] = arg.node]
    /\ prev' = [prev EXCEPT ![arg.node] = iter]
    /\ order' = Append(order, arg.node)
    /\ Return("insert", arg.index, "OK", <<>>)
    /\ UNCHANGED <<head, length, data, nodes, live>>

\* Mutant: the next node still points back to the one that is deleted.
Unlink_forward_only(c) ==
    /\ head' = IF c = head THEN next[c] ELSE head
    /\ next' = [n \in Nodes |-> IF n = c THEN NULL
                                ELSE IF n = prev[c] THEN next[c] ELSE next[n]]
    /\ prev' = [prev EXCEPT ![c] = NULL]

\* What dlist_delete does to the links, next'[c] and prev'[c] by dlist_node_destroy.
Unlink(c) ==
    /\ head' = IF c = head THEN next[c] ELSE head
    /\ next' = [n \in Nodes |-> IF n = c THEN NULL
                                ELSE IF n = prev[c] THEN next[c] ELSE next[n]]
    /\ prev' = [n \in Nodes |-> IF n = c THEN NULL
                                ELSE IF n = next[c] THEN prev[c] ELSE prev[n]]

\* Mutant: the length is decremented for an index out of range too.
dlist_delete_counts_always ==
    /\ AtNode("delete")
    /\ IF InRange
       THEN /\ Unlink(iter) /\ dlist_node_destroy(iter)
            /\ order' = RemoveAt(order, Position)
       ELSE UNCHANGED <<head, order, heap>>
    /\ length' = length - 1
    /\ Return("delete", arg.index, "OK", <<>>)

dlist_delete ==
    /\ AtNode("delete")
    /\ IF InRange
       THEN /\ Unlink(iter) /\ dlist_node_destroy(iter)
            /\ length' = length - 1
            /\ order' = RemoveAt(order, Position)
       ELSE UNCHANGED <<list, heap>>
    /\ Return("delete", arg.index, "OK", <<>>)

\* The datum that is replaced is not destroyed: from now on it is the caller's.
dlist_set_by_index ==
    /\ AtNode("set")
    /\ IF InRange
       THEN /\ data' = [data EXCEPT ![iter] = arg.value]
            /\ live' = (live \ {data[iter]}) \cup {arg.value}
            /\ Return("set", arg.index, "OK", <<>>)
       ELSE /\ UNCHANGED <<data, live>>
            /\ Return("set", arg.index, "FAIL", <<>>)
    /\ UNCHANGED <<list, prev, next, nodes>>

dlist_get_by_index ==
    /\ AtNode("get")
    /\ IF InRange
       THEN Return("get", arg.index, "OK", <<data[iter]>>)
       ELSE Return("get", arg.index, "FAIL", <<>>)
    /\ UNCHANGED <<list, heap>>

dlist_length ==
    /\ pc = "idle"
    /\ Return("length", length, "OK", <<>>)
    /\ UNCHANGED <<list, heap>>

\* Mutant: the loop counts but does not advance.
dlist_find_next_stays ==
    /\ pc = "find" /\ iter # NULL /\ data[iter] # arg.value
    /\ UNCHANGED <<loop, list, heap, result>>

dlist_find_next ==
    /\ pc = "find" /\ iter # NULL /\ data[iter] # arg.value
    /\ iter' = next[iter] /\ index' = index + 1
    /\ UNCHANGED <<pc, arg, list, heap, result>>

dlist_find ==
    /\ pc = "find" /\ (iter # NULL => data[iter] = arg.value)
    /\ Return("find", index, "OK", <<arg.value>>)
    /\ UNCHANGED <<list, heap>>

\* visit may answer anything; values are the data it was shown.
dlist_foreach_visit ==
    /\ pc = "foreach" /\ iter # NULL /\ arg.ret # "STOP"
    /\ \E ret \in {"OK", "FAIL", "STOP"} :
           arg' = [arg EXCEPT !.ret = ret, !.values = Append(@, data[iter])]
    /\ iter' = next[iter]
    /\ UNCHANGED <<pc, index, list, heap, result>>

dlist_foreach ==
    /\ pc = "foreach" /\ (iter # NULL => arg.ret = "STOP")
    /\ Return("foreach", 0, arg.ret, arg.values)
    /\ UNCHANGED <<list, heap>>

dlist_destroy_node ==
    /\ pc = "destroy" /\ iter # NULL
    /\ iter' = next[iter]
    /\ prev' = [prev EXCEPT ![iter] = NULL] /\ next' = [next EXCEPT ![iter] = NULL]
    /\ dlist_node_destroy(iter)
    /\ order' = Tail(order)
    /\ UNCHANGED <<pc, index, arg, head, length, result>>

dlist_destroy ==
    /\ pc = "destroy" /\ iter = NULL
    /\ pc' = "destroyed" /\ head' = NULL
    /\ UNCHANGED <<iter, index, arg, length, order, heap, result>>

\* The calls whose first action is the head of their loop.
ListCall ==
    /\ \/ \E i \in Indices, op \in {"delete", "get"} :
              Call(op, [NoArg EXCEPT !.index = i])
       \/ \E i \in Indices, d \in Data \ live :
              Call("set", [NoArg EXCEPT !.index = i, !.value = d])
       \/ \E d \in Data : Call("find", [NoArg EXCEPT !.value = d])
       \/ \E op \in {"foreach", "destroy"} : Call(op, NoArg)
    /\ UNCHANGED <<list, heap>>

InCall ==
    \/ dlist_get_node_next \/ dlist_get_node_dead
    \/ insert_before_cursor \/ insert_at_end
    \/ dlist_delete \/ dlist_set_by_index \/ dlist_get_by_index
    \/ dlist_find_next \/ dlist_find
    \/ dlist_foreach_visit \/ dlist_foreach
    \/ dlist_destroy_node \/ dlist_destroy

DListNext ==
    \/ \E i \in Indices, d \in Data : dlist_insert_oom(i, d) \/ dlist_insert(i, d)
    \/ dlist_length \/ ListCall
    \/ InCall

DListSpec == DListInit /\ [][DListNext]_vars

\* A call that is in progress goes on: there is one thread and no wait in the list.
DListFairSpec == DListSpec /\ WF_vars(InCall)

-----------------------------------------------------------------------------
(* Properties. *)

\* A node is in one place only.
Distinct == \A i, j \in 1..Len(order) : order[i] = order[j] => i = j

\* The head is the first node; dlist_destroy leaves the head and keeps the first in iter.
FirstLinked ==
    (IF pc = "destroy" THEN iter ELSE head) = IF order = <<>> THEN NULL ELSE order[1]

NextLinked ==
    \A i \in 1..Len(order) :
        next[order[i]] = IF i = Len(order) THEN NULL ELSE order[i + 1]

PrevLinked ==
    pc # "destroy" =>
        \A i \in 1..Len(order) : prev[order[i]] = IF i = 1 THEN NULL ELSE order[i - 1]

Counted ==
    pc \notin {"destroy", "destroyed"} =>
        length = Len(order) + IF pc = "insert" THEN 1 ELSE 0

\* Forward and backward links, the head and the length agree with one order of
\* distinct nodes, after any sequence of calls and in the middle of each: the code
\* changes up to four pointers and a count per call, each under its own condition.
Linked == Distinct /\ FirstLinked /\ NextLinked /\ PrevLinked /\ Counted

LinkedNodes == {order[i] : i \in 1..Len(order)}
Pending == IF pc = "insert" THEN {arg.node} ELSE {}

\* Every node is in the list or is the one being inserted, every datum in it is live
\* and in one node, so data_destroy never runs twice on a datum nor is a node freed
\* that is still linked; after dlist_destroy nothing is left.
HeapOwned ==
    /\ LinkedNodes \cap Pending = {} /\ nodes = LinkedNodes \cup Pending
    /\ live = {data[n] : n \in nodes}
    /\ \A m, n \in nodes : data[m] = data[n] => m = n
    /\ pc = "destroyed" => nodes = {} /\ live = {}

\* dlist_get_node walks the list: it is at the node it has counted to.
Walking ==
    pc \in GetNode =>
        /\ index \in 0..arg.index
        /\ IF order = <<>> THEN iter = NULL
           ELSE Position \in 1..Len(order) /\ iter = order[Position]

\* The list does not change between the call and the end of the walk.
CallInProgress ==
    /\ pc = "insert" =>
           /\ order # <<>> /\ arg.node \in Nodes
           /\ next[arg.node] = NULL /\ prev[arg.node] = NULL
    /\ pc = "set" => arg.value \in Data \ live

\* The inductive invariant: the links, the ownership of the heap, and where in the
\* list dlist_get_node is when a call relies on it.
DListInvariant == Linked /\ HeapOwned /\ Walking /\ CallInProgress

\* The list is the sequence its callers take it for: results, order and length.
Contents == [i \in 1..Len(order) |-> data[order[i]]]
DL == INSTANCE DataList WITH
         items <- IF pc \in {"destroy", "destroyed"} THEN <<>> ELSE Contents,
         alive <- pc \notin {"destroy", "destroyed", "dead"}
ImplementsDataList == DL!Spec

\* No walk runs in a circle: every call returns, unless it ends the program.
ListCallsReturn == [](pc \in GetNode \cup {"find", "foreach", "destroy"} =>
                          <>(pc \in {"idle", "destroyed", "dead"}))
=============================================================================
