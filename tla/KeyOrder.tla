------------------------------- MODULE KeyOrder -------------------------------
(****************************************************************************)
(* What a rbt_root_t promises to the code that uses it: its nodes stand in the *)
(* order of their keys, equal keys in the order they were inserted in, and a   *)
(* deletion tells the node behind.                                            *)
(****************************************************************************)
EXTENDS Sequences, SequencesExt, Naturals

CONSTANTS Nodes, Key, Null

VARIABLES
  order, \* the nodes of the tree
  ret    \* what the last operation returned

vars == <<order, ret>>

Init == order = <<>> /\ ret = Null

Insert(o, x) ==
  /\ x \notin ToSet(o)
  /\ order' = InsertAt(o, 1 + Cardinality({i \in 1 .. Len(o) : Key[o[i]] <= Key[x]}), x)
  /\ ret' = Null

Delete(o, i) ==
  /\ ret' = IF i = Len(o) THEN Null ELSE o[i + 1]
  /\ order' = RemoveAt(o, i)

Replace(o, i, x) ==
  /\ x \notin ToSet(o) /\ Key[x] = Key[o[i]]
  /\ order' = [o EXCEPT ![i] = x]
  /\ ret' = Null

\* o is the order before the step.
Next ==
  \E o \in {order} :
  \/ \E x \in Nodes : Insert(o, x)
  \/ \E i \in 1 .. Len(o) : Delete(o, i) \/ \E x \in Nodes : Replace(o, i, x)

Spec == Init /\ [][Next]_vars
==============================================================================
