------------------------------ MODULE DataList ------------------------------
(***************************************************************************)
(* What a list promises to its callers: a sequence of data, indexed from 0, *)
(* each call taking effect at once, with the result it returns.             *)
(***************************************************************************)
EXTENDS Integers, Sequences, SequencesExt

CONSTANTS Data, Indices

\* A result names its call: what was asked (op and index, or the datum to find), and
\* what came back (ret and values, or the index of the datum).
VARIABLES items, alive, result

vars == <<items, alive, result>>

Size == Len(items)
NoResult == [op |-> "none", index |-> 0, ret |-> "OK", values |-> <<>>]

Init ==
    /\ items = <<>>
    /\ alive = TRUE
    /\ result = NoResult

Result(op, index, ret, values) ==
    result' = [op |-> op, index |-> index, ret |-> ret, values |-> values]

\* Insertion at an index inside the list is exact, and beyond the length it appends.
\* Of an index that equals the length nothing is promised but that no datum is lost:
\* dlist_insert puts it before the last.
Insert(index, d) ==
    /\ \E before \in 0..Size :
           /\ index < Size => before = index
           /\ index > Size => before = Size
           /\ items' = InsertAt(items, before + 1, d)
    /\ Result("insert", index, "OK", <<>>)
    /\ UNCHANGED alive

OutOfMemory(index) ==
    /\ Result("insert", index, "OOM", <<>>)
    /\ UNCHANGED <<items, alive>>

\* An index out of range deletes nothing, and is not reported.
Delete(index) ==
    /\ items' = IF index < Size THEN RemoveAt(items, index + 1) ELSE items
    /\ Result("delete", index, "OK", <<>>)
    /\ UNCHANGED alive

Set(index, d) ==
    /\ IF index < Size
       THEN items' = ReplaceAt(items, index + 1, d) /\ Result("set", index, "OK", <<>>)
       ELSE UNCHANGED items /\ Result("set", index, "FAIL", <<>>)
    /\ UNCHANGED alive

Get(index) ==
    /\ IF index < Size
       THEN Result("get", index, "OK", <<items[index + 1]>>)
       ELSE Result("get", index, "FAIL", <<>>)
    /\ UNCHANGED <<items, alive>>

\* The length when no datum matches.
Find(d) ==
    /\ \E index \in 0..Size :
           /\ \A i \in 1..index : items[i] # d
           /\ index < Size => items[index + 1] = d
           /\ Result("find", index, "OK", <<d>>)
    /\ UNCHANGED <<items, alive>>

Length ==
    /\ Result("length", Size, "OK", <<>>)
    /\ UNCHANGED <<items, alive>>

\* In order, all of them unless the visit said to stop.
Foreach(ret) ==
    /\ \E n \in 0..Size :
           /\ ret # "STOP" => n = Size
           /\ ret # "OK" => n > 0
           /\ Result("foreach", 0, ret, SubSeq(items, 1, n))
    /\ UNCHANGED <<items, alive>>

\* A call begins: the last result has been used.
Ask == result' = NoResult /\ UNCHANGED <<items, alive>>

Destroy == items' = <<>> /\ alive' = FALSE /\ result' = NoResult

\* An index of an empty list may end the program, of another list never.
Crash == items = <<>> /\ alive' = FALSE /\ UNCHANGED <<items, result>>

Next ==
    /\ alive
    /\ \/ Ask
       \/ \E index \in Indices, d \in Data : Insert(index, d) \/ Set(index, d)
       \/ \E index \in Indices : OutOfMemory(index) \/ Delete(index) \/ Get(index)
       \/ \E d \in Data : Find(d)
       \/ Length
       \/ \E ret \in {"OK", "FAIL", "STOP"} : Foreach(ret)
       \/ Destroy
       \/ Crash

Spec == Init /\ [][Next]_vars
=============================================================================
