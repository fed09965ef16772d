-------------------------------- MODULE RbTree --------------------------------
(****************************************************************************)
(* rns_rbt.c: red-black trees, the maps and queues of every program.  An      *)
(* action is a call of the library; the loops of the C code are recursive      *)
(* operators on the record that holds the pointers of all nodes.  The fields of  *)
(* a node outside the tree are not kept.                                      *)
(****************************************************************************)
EXTENDS Integers, FiniteSets, Sequences

CONSTANTS
  Nodes,
  Key,    \* the key each node is given, a number
  Null    \* not a node

Side == {"left", "right"}
Ref == Nodes \cup {Null}
Keys == {Key[x] : x \in Nodes}

VARIABLES
  tree,   \* root, kid (rbt_left, rbt_right), up and black (__rbt_parent_color)
  within, \* the nodes in it
  ret     \* what the last operation returned

vars == <<tree, within, ret>>

Other(s) == IF s = "left" THEN "right" ELSE "left"

Init ==
  /\ tree = [root |-> Null, kid |-> [s \in Side |-> [x \in Nodes |-> Null]],
             up |-> [x \in Nodes |-> Null], black |-> {}]
  /\ within = {}
  /\ ret = Null

IsRed(t, x) == x # Null /\ x \notin t.black

SetKid(t, x, s, y) == [t EXCEPT !.kid[s][x] = y]

SetParent(t, x, p) == IF x = Null THEN t ELSE [t EXCEPT !.up[x] = p]

SetParentColor(t, x, p, isBlack) ==
  [SetParent(t, x, p) EXCEPT !.black = IF isBlack THEN @ \cup {x} ELSE @ \ {x}]

\* tmp may be NULL: "if (tmp)"
SetBlackIfAny(t, x, p) == IF x = Null THEN t ELSE SetParentColor(t, x, p, TRUE)

ChangeChild(t, old, new, parent) ==
  IF parent = Null THEN [t EXCEPT !.root = new]
  ELSE SetKid(t, parent, IF t.kid["left"][parent] = old THEN "left" ELSE "right", new)

RotateSetParents(t, old, new, isBlack) ==
  LET parent == t.up[old]
      t1 == SetParentColor(t, new, parent, old \in t.black)
  IN  ChangeChild(SetParentColor(t1, old, new, isBlack), old, new, parent)

\* Case 2 of the insertion: node, the inner child of its parent, takes its place.
Inner(t, node, parent, s) ==
  LET tmp == t.kid[s][node]
      t1 == SetKid(SetKid(t, parent, Other(s), tmp), node, s, parent)
  IN  SetParentColor(SetBlackIfAny(t1, tmp, parent), parent, node, FALSE)

\* Case 3: the parent takes the place of the grandparent.
Outer(t, parent, gparent, s) ==
  LET tmp == t.kid[Other(s)][parent]
      t1 == SetKid(SetKid(t, gparent, s, tmp), parent, Other(s), gparent)
  IN  RotateSetParents(SetBlackIfAny(t1, tmp, gparent), gparent, parent, FALSE)

RECURSIVE InsertColorOnce(_, _)

\* Faulty variant of InsertColor: the flipped grandparent is not looked at again.
InsertColorOnce(t, node) ==
  LET parent == t.up[node] IN
  IF parent = Null THEN SetParentColor(t, node, Null, TRUE)
  ELSE IF parent \in t.black THEN t
  ELSE LET gparent == t.up[parent]
           s == IF parent = t.kid["left"][gparent] THEN "left" ELSE "right"
           uncle == t.kid[Other(s)][gparent]
       IN  IF IsRed(t, uncle)
           THEN SetParentColor(SetParentColor(SetParentColor(t, uncle, gparent, TRUE),
                  parent, gparent, TRUE), gparent, t.up[gparent], t.up[gparent] = Null)
           ELSE IF node = t.kid[Other(s)][parent]
           THEN Outer(Inner(t, node, parent, s), node, gparent, s)
           ELSE Outer(t, parent, gparent, s)

RECURSIVE InsertColor(_, _)

\* rbt_insert_color; s is the side of the parent, the code has each case twice.
InsertColor(t, node) ==
  LET parent == t.up[node] IN
  IF parent = Null THEN SetParentColor(t, node, Null, TRUE)
  ELSE IF parent \in t.black THEN t
  ELSE LET gparent == t.up[parent]
           s == IF parent = t.kid["right"][gparent] THEN "right" ELSE "left"
           uncle == t.kid[Other(s)][gparent]
       IN  IF IsRed(t, uncle)
           THEN InsertColor(SetParentColor(SetParentColor(SetParentColor(t, uncle, gparent, TRUE),
                  parent, gparent, TRUE), gparent, t.up[gparent], FALSE), gparent)
           ELSE IF node = t.kid[Other(s)][parent]
           THEN Outer(Inner(t, node, parent, s), node, gparent, s)
           ELSE Outer(t, parent, gparent, s)

RECURSIVE EraseColor(_, _, _)

\* ____rbt_erase_color; s is the side of node, which lacks a black node.
EraseColor(t, node, parent) ==
  LET s == IF node # t.kid["right"][parent] THEN "left" ELSE "right"
      o == Other(s)
      first == t.kid[o][parent]
      near == t.kid[s][first]
      \* case 1: a red sibling goes up
      t1 == IF ~IsRed(t, first) THEN t
            ELSE RotateSetParents(SetParentColor(SetKid(SetKid(t, parent, o, near),
                   first, s, parent), near, parent, TRUE), parent, first, FALSE)
      sibling == t1.kid[o][parent]
      far == t1.kid[o][sibling]
      inner == t1.kid[s][sibling]
      \* case 2: no red nephew
      flipped == SetParentColor(t1, sibling, parent, FALSE)
      \* case 3: only the inner nephew is red, it takes the sibling's place
      mid == t1.kid[o][inner]
      t3 == IF IsRed(t1, far) THEN t1
            ELSE SetBlackIfAny(SetKid(SetKid(SetKid(t1, sibling, s, mid),
                   inner, o, sibling), parent, o, inner), mid, sibling)
      top == IF IsRed(t1, far) THEN sibling ELSE inner
      red == IF IsRed(t1, far) THEN far ELSE sibling
      \* case 4: the sibling takes the place of the parent
      across == t3.kid[s][top]
      t4 == SetParentColor(SetKid(SetKid(t3, parent, o, across), top, s, parent), red, top, TRUE)
  IN  IF ~IsRed(t1, far) /\ ~IsRed(t1, inner)
      THEN IF IsRed(t1, parent) THEN [flipped EXCEPT !.black = @ \cup {parent}]
           ELSE IF t1.up[parent] = Null THEN flipped
           ELSE EraseColor(flipped, parent, t1.up[parent])
      ELSE RotateSetParents(SetParent(t4, across, parent), parent, top, TRUE)

RECURSIVE Deepest(_, _, _)

\* as far as one can go to a side
Deepest(t, x, s) == IF t.kid[s][x] = Null THEN x ELSE Deepest(t, t.kid[s][x], s)

\* rbt_first, rbt_last
End(t, s) == IF t.root = Null THEN Null ELSE Deepest(t, t.root, s)

RECURSIVE Above(_, _, _)

\* the first ancestor that is reached from its other side
Above(t, x, s) ==
  LET parent == t.up[x]
  IN  IF parent # Null /\ x = t.kid[s][parent] THEN Above(t, parent, s) ELSE parent

\* rbt_next (s = "right") and rbt_prev
Step(t, x, s) ==
  IF t.kid[s][x] # Null THEN Deepest(t, t.kid[s][x], Other(s)) ELSE Above(t, x, s)

RECURSIVE LeftDeepest(_, _)

LeftDeepest(t, x) ==
  IF t.kid["left"][x] # Null THEN LeftDeepest(t, t.kid["left"][x])
  ELSE IF t.kid["right"][x] # Null THEN LeftDeepest(t, t.kid["right"][x])
  ELSE x

NextPostorder(t, x) ==
  LET parent == t.up[x]
  IN  IF parent # Null /\ x = t.kid["left"][parent] /\ t.kid["right"][parent] # Null
      THEN LeftDeepest(t, t.kid["right"][parent])
      ELSE parent

\* Faulty variant of Unhooked: the right child keeps its parent.
UnhookedOnly(t, successor, right) ==
  IF successor = right THEN t
  ELSE SetKid(SetKid(t, t.up[successor], "left", t.kid["right"][successor]), successor, "right", right)

\* the successor, leftmost below the right child, taken from its place
Unhooked(t, successor, right) ==
  IF successor = right THEN t
  ELSE SetParent(SetKid(SetKid(t, t.up[successor], "left", t.kid["right"][successor]),
                        successor, "right", right), right, successor)

\* __rbt_erase_augmented: the tree without x, and where to rebalance
EraseNode(t, x) ==
  LET parent == t.up[x]
      left == t.kid["left"][x]
      right == t.kid["right"][x]
      only == IF left = Null THEN right ELSE left
      successor == Deepest(t, right, "left")
      child2 == t.kid["right"][successor]
      above == IF successor = right THEN successor ELSE t.up[successor]
      t1 == Unhooked(t, successor, right)
      t2 == ChangeChild(SetParent(SetKid(t1, successor, "left", left), left, successor),
                        x, successor, parent)
      t3 == SetParentColor(t2, successor, parent, x \in t.black)
  IN  IF left = Null \/ right = Null
      THEN IF only = Null
           THEN <<ChangeChild(t, x, Null, parent), IF x \in t.black THEN parent ELSE Null>>
           ELSE <<ChangeChild(SetParentColor(t, only, parent, x \in t.black), x, only, parent), Null>>
      ELSE IF child2 = Null
           THEN <<t3, IF successor \in t.black THEN above ELSE Null>>
           ELSE <<SetParentColor(t3, child2, above, TRUE), Null>>

\* a node that is not in the tree any more
Dropped(t, x) == [t EXCEPT !.kid["left"][x] = Null, !.kid["right"][x] = Null, !.up[x] = Null,
                           !.black = @ \ {x}]

\* rbt_erase
Erase(t, x) ==
  LET e == EraseNode(t, x)
  IN  Dropped(IF e[2] = Null THEN e[1] ELSE EraseColor(e[1], Null, e[2]), x)

RECURSIVE Place(_, _, _)

\* the node below which a new one goes: smaller keys left, equal ones right
Place(t, k, at) ==
  LET down == t.kid[IF k < Key[at] THEN "left" ELSE "right"][at]
  IN  IF down = Null THEN at ELSE Place(t, k, down)

\* rbt_link_node
Link(t, x, parent) ==
  LET t1 == [t EXCEPT !.up[x] = parent]
  IN  IF parent = Null THEN [t1 EXCEPT !.root = x]
      ELSE SetKid(t1, parent, IF Key[x] < Key[parent] THEN "left" ELSE "right", x)

\* rbt_insert
Inserted(t, x) ==
  InsertColor(Link(t, x, IF t.root = Null THEN Null ELSE Place(t, Key[x], t.root)), x)

RECURSIVE FirstEqual(_, _, _)

\* from a hit, as long as the left child has the key too
FirstEqual(t, k, at) ==
  LET down == t.kid["left"][at]
  IN  IF down # Null /\ Key[down] = k THEN FirstEqual(t, k, down) ELSE at

RECURSIVE WalkSwapped(_, _, _, _)

\* Faulty variant of Walk: the two neighbours are confused.
WalkSwapped(t, k, at, so) ==
  IF at = Null THEN so
  ELSE IF k < Key[at] THEN WalkSwapped(t, k, t.kid["left"][at], [so EXCEPT !.less = at])
  ELSE IF k > Key[at] THEN WalkSwapped(t, k, t.kid["right"][at], [so EXCEPT !.greater = at])
  ELSE LET hit == FirstEqual(t, k, at) IN [exact |-> hit, less |-> hit, greater |-> hit]

RECURSIVE Walk(_, _, _, _)

\* The searches go the same way and differ in what they return without a hit:
\* "exact" NULL, "less" the last node they left to the right, "greater" the last
\* they left to the left.
Walk(t, k, at, so) ==
  IF at = Null THEN so
  ELSE IF k < Key[at] THEN Walk(t, k, t.kid["left"][at], [so EXCEPT !.greater = at])
  ELSE IF k > Key[at] THEN Walk(t, k, t.kid["right"][at], [so EXCEPT !.less = at])
  ELSE LET hit == FirstEqual(t, k, at) IN [exact |-> hit, less |-> hit, greater |-> hit]

Search(t, k) == Walk(t, k, t.root, [exact |-> Null, less |-> Null, greater |-> Null])

----------------------------------------------------------------------------

Insert(x) ==
  /\ x \notin within
  /\ tree' = Inserted(tree, x)
  /\ within' = within \cup {x}
  /\ ret' = Null

\* Faulty variant of Delete: the next node is looked up in the tree without x.
DeleteLate(x) ==
  /\ x \in within
  /\ tree' = Erase(tree, x)
  /\ within' = within \ {x}
  /\ ret' = tree'.up[x]

\* rbt_delete returns the next node, with which loops go on.
Delete(x) ==
  /\ x \in within
  /\ ret' = Step(tree, x, "right")
  /\ tree' = Erase(tree, x)
  /\ within' = within \ {x}

\* rbt_replace_node
Replace(x, y) ==
  /\ x \in within /\ y \notin within /\ Key[x] = Key[y]
  /\ LET kid == tree.kid
         t1 == [tree EXCEPT !.kid["left"][y] = kid["left"][x], !.kid["right"][y] = kid["right"][x],
                            !.up[y] = tree.up[x], !.black = IF x \in @ THEN @ \cup {y} ELSE @]
         t2 == SetParent(SetParent(t1, kid["left"][x], y), kid["right"][x], y)
     IN  tree' = Dropped(ChangeChild(t2, x, y, tree.up[x]), x)
  /\ within' = (within \ {x}) \cup {y}
  /\ ret' = Null

Next ==
  \/ \E x \in Nodes : Insert(x) \/ Delete(x)
  \/ \E x, y \in Nodes : Replace(x, y)

Spec == Init /\ [][Next]_vars

----------------------------------------------------------------------------
(* Properties *)

\* the nodes that a walk with rbt_next or rbt_prev meets
Walked(s) ==
  LET from[x \in Ref] == IF x = Null THEN <<>> ELSE <<x>> \o from[Step(tree, x, s)]
  IN  from[End(tree, Other(s))]

InOrder == Walked("right")

\* the same in postorder, from rbt_first_postorder
Postorder ==
  LET from[x \in Ref] == IF x = Null THEN <<>> ELSE <<x>> \o from[NextPostorder(tree, x)]
  IN  from[IF tree.root = Null THEN Null ELSE LeftDeepest(tree, tree.root)]

RECURSIVE BlackHeights(_, _)
BlackHeights(t, x) ==
  IF x = Null THEN {0}
  ELSE {h + (IF x \in t.black THEN 1 ELSE 0) :
          h \in BlackHeights(t, t.kid["left"][x]) \cup BlackHeights(t, t.kid["right"][x])}

\* The pointers of every node lead to nodes of the tree, and back.
TypeOK ==
  /\ tree.root \in Ref
  /\ within \subseteq Nodes
  /\ \A x \in within :
       /\ tree.up[x] = Null <=> x = tree.root
       /\ \A s \in Side : tree.kid[s][x] # Null => tree.kid[s][x] \in within /\ tree.up[tree.kid[s][x]] = x

\* What keeps every search short: no red node below a red one, and as many black
\* nodes on every way down, after any insertions and erasures, whichever of the
\* mirrored cases of the rebalancing they took.
Balanced ==
  /\ ~IsRed(tree, tree.root)
  /\ \A x \in within : IsRed(tree, x) => \A s \in Side : ~IsRed(tree, tree.kid[s][x])
  /\ Cardinality(BlackHeights(tree, tree.root)) = 1

\* Walks in either direction meet the same nodes, and a walk in postorder, which
\* is meant for freeing, meets every node once, after its children.
WalksAgree ==
  LET back == Walked("left")
      post == Postorder
      n == Cardinality(within)
  IN  /\ Len(InOrder) = n /\ Len(back) = n /\ Len(post) = n
      /\ \A i \in 1 .. n : back[i] = InOrder[n + 1 - i]
      /\ {post[i] : i \in 1 .. n} = within
      /\ \A i, j \in 1 .. n : tree.up[post[i]] = post[j] => i < j

\* The searches, which go down one way only, find a node with the key when there
\* is one, and else the neighbours of the place where it would be.
Finds ==
  \A k \in Keys :
    LET found == Search(tree, k)
        less == {x \in within : Key[x] <= k}
        greater == {x \in within : Key[x] >= k}
    IN  /\ IF less = {} THEN found.less = Null
           ELSE found.less \in less /\ \A x \in less : Key[x] <= Key[found.less]
        /\ IF greater = {} THEN found.greater = Null
           ELSE found.greater \in greater /\ \A x \in greater : Key[x] >= Key[found.greater]
        /\ IF less \cap greater = {} THEN found.exact = Null
           ELSE found.exact \in less \cap greater

Order == INSTANCE KeyOrder WITH order <- InOrder

\* The tree is a queue ordered by key: timers of one time run in the order they
\* were added, and a loop that deletes meets every node.
KeepsOrder == Order!Spec
==============================================================================
