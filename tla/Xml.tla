---------------------------------- MODULE Xml ----------------------------------
(****************************************************************************)
(* rns_xml.c: the tree that is built of a document from the events of expat,   *)
(* and how values, attributes and lists of elements are found in it.           *)
(*                                                                          *)
(* A text comes in pieces, where expat cuts it; each is a sequence of letters, *)
(* with Blank for a space or the end of a line.                               *)
(****************************************************************************)
EXTENDS Integers, Sequences, FiniteSets, SequencesExt, Functions

CONSTANTS
  Names,      \* names of elements, in the order of rns_strcmp: numbers
  Attr,       \* the attributes of an element of each name: functions to values
  Pieces,     \* texts
  Blank, None,
  Room,       \* 1024: what is first allocated for a value
  MaxEvents   \* bound: events of a document

VARIABLES
  doc,    \* the events so far, each with the elements open behind it, by the numbers of
          \* the events that began them
  nodes,  \* the nodes, as they were inserted
  curr    \* xml->curr, 0 is the root

vars == <<doc, nodes, curr>>

Init == doc = <<>> /\ nodes = <<>> /\ curr = 0

Stack(k) == IF k = 0 THEN <<>> ELSE doc[k].open
Event(e, open) == doc' = Append(doc, [event |-> e, open |-> open])
Top == Stack(Len(doc))

------------------------------------------------------------------------------
(* Reading *)

\* A document has one element outside.
Open == doc = <<>> \/ curr # 0

\* Faulty variant of BeginNode: the new node is left out of the way down.
BeginNodeFlat(name) ==
  /\ nodes' = Append(nodes, [name |-> name, attr |-> Attr[name], parent |-> curr,
                             value |-> <<>>, size |-> 0])
  /\ curr' = IF curr = 0 THEN 1 ELSE curr
  /\ Event(<<"begin", name, Attr[name]>>, Append(Top, Len(doc) + 1))

\* begin_node
BeginNode(name) ==
  /\ nodes' = Append(nodes, [name |-> name, attr |-> Attr[name], parent |-> curr,
                             value |-> <<>>, size |-> 0])
  /\ curr' = Len(nodes) + 1
  /\ Event(<<"begin", name, Attr[name]>>, Append(Top, Len(doc) + 1))

\* end_node
EndNode ==
  /\ curr # 0
  /\ curr' = nodes[curr].parent
  /\ Event(<<"end">>, Front(Top))
  /\ UNCHANGED nodes

\* Blanks at the end of a piece are cut off, also where its text goes on.
Trimmed(piece) ==
  LET letters == {i \in DOMAIN piece : piece[i] # Blank}
  IN  IF letters = {} THEN <<>> ELSE SubSeq(piece, 1, CHOOSE i \in letters : \A j \in letters : j <= i)

\* Faulty variant of Grown: every piece is put in front.
GrownFirst(n, new) == [n EXCEPT !.value = new, !.size = Room]

\* The buffer of a value when new comes in: a larger buffer does not have what was in
\* the one before.
Grown(n, new) ==
  LET len == Len(n.value) + Len(new) IN
  IF n.size = 0 THEN [n EXCEPT !.value = new, !.size = IF Len(new) > Room THEN Len(new) ELSE Room]
  ELSE IF len > n.size
    THEN [n EXCEPT !.value = [i \in DOMAIN n.value |-> None] \o new, !.size = len]
    ELSE [n EXCEPT !.value = @ \o new]

\* text
Text(piece) ==
  /\ curr # 0
  /\ nodes' = IF Trimmed(piece) = <<>> THEN nodes
              ELSE [nodes EXCEPT ![curr] = Grown(@, Trimmed(piece))]
  /\ Event(<<"text", piece>>, Top)
  /\ UNCHANGED curr

Next ==
  /\ Len(doc) < MaxEvents
  /\ \/ Open /\ \E name \in Names : BeginNode(name)
     \/ EndNode
     \/ \E piece \in Pieces : Text(piece)

Spec == Init /\ [][Next]_vars

------------------------------------------------------------------------------
(* Searching *)

\* The tree of the children: by name, equal ones as they came
Children(p) ==
  SetToSortSeq({i \in DOMAIN nodes : nodes[i].parent = p},
               LAMBDA i, j : nodes[i].name < nodes[j].name \/ (nodes[i].name = nodes[j].name /\ i < j))

\* rbt_search_str goes from the node that it meets to the left, as long as the name is
\* the same: to the first of them if all children are alike; with others
\* among them it depends on the shape of the tree.
Found(p, name) ==
  LET hits == SelectSeq(Children(p), LAMBDA i : nodes[i].name = name)
  IN  IF hits = <<>> THEN {0}
      ELSE IF Len(hits) = Len(Children(p)) THEN {hits[1]} ELSE Range(hits)

\* rns_xml_node: the nodes that a path may lead to, 0 if there is none
Node(path) ==
  LET down[k \in 0 .. Len(path)] ==
        IF k = 0 THEN {0}
        ELSE UNION {IF p = 0 /\ k > 1 THEN {0} ELSE Found(p, path[k]) : p \in down[k - 1]}
  IN  down[Len(path)]

\* rns_xml_node_next: rbt_next, if it has the same name
NodeNext(i) ==
  LET all == Children(nodes[i].parent)
      k == CHOOSE k \in DOMAIN all : all[k] = i
  IN  IF k < Len(all) /\ nodes[all[k + 1]].name = nodes[i].name THEN all[k + 1] ELSE 0

\* The elements that a walk from i on comes to
Walk(i) ==
  LET w[n \in 0 .. Len(nodes)] ==
        IF n = 0 THEN <<i>>
        ELSE IF NodeNext(Last(w[n - 1])) = 0 THEN w[n - 1]
        ELSE Append(w[n - 1], NodeNext(Last(w[n - 1])))
  IN  w[Len(nodes)]

\* A value as its readers see it.  One that fills its buffer has no end, and what
\* lies behind is read with it.
AsText(i) ==
  nodes[i].value \o (IF nodes[i].size > 0 /\ Len(nodes[i].value) = nodes[i].size THEN <<None>> ELSE <<>>)

\* rns_xml_node_value, rns_xml_subnode_value
NodeValue(path) == {IF i = 0 THEN <<>> ELSE AsText(i) : i \in Node(path)}

\* rns_xml_node_attr, rns_xml_subnode_attr
SubnodeAttr(i, attr) == IF attr \in DOMAIN nodes[i].attr THEN nodes[i].attr[attr] ELSE None

------------------------------------------------------------------------------
(* The document, read by its events alone *)

Begins == SelectSeq([k \in DOMAIN doc |-> k], LAMBDA k : doc[k].event[1] = "begin")

\* The names down to the element that began with event k
Path(k) == [j \in DOMAIN Stack(k) |-> doc[Stack(k)[j]].event[2]]

Content(k) ==
  LET texts == SelectSeq(doc, LAMBDA d : d.event[1] = "text" /\ Last(d.open) = k)
  IN  FlattenSeq([j \in DOMAIN texts |-> Trimmed(texts[j].event[2])])

------------------------------------------------------------------------------
(* Properties *)

\* The tree has the elements of the document, each where it is in it.
Shape ==
  /\ Len(nodes) = Len(Begins)
  /\ curr = IF Top = <<>> THEN 0 ELSE Cardinality({b \in Range(Begins) : b <= Last(Top)})
  /\ \A i \in DOMAIN nodes :
       LET k == Begins[i] IN
       /\ nodes[i].name = doc[k].event[2] /\ nodes[i].attr = doc[k].event[3]
       /\ nodes[i].parent = IF Len(Stack(k)) = 1 THEN 0
                            ELSE CHOOSE p \in DOMAIN Begins : Begins[p] = Stack(k)[Len(Stack(k)) - 1]

\* A value is the text of its element, whatever pieces it came in and whatever elements are
\* between them, if it and its end fit the first buffer.
ValuesKept ==
  \A i \in DOMAIN nodes :
    Len(Content(Begins[i])) < Room => AsText(i) = Content(Begins[i])

\* Each element that has no other of its name beside it, nor beside those around it, is
\* found by its path with its text and attributes, and nothing else is found there.
Alone(k) == \A b \in Range(Begins) : Path(b) = Path(k) => b = k
FindsAlone ==
  \A i \in DOMAIN nodes :
    (\A j \in DOMAIN Stack(Begins[i]) : Alone(Stack(Begins[i])[j]))
      => /\ Node(Path(Begins[i])) = {i} /\ NodeValue(Path(Begins[i])) = {AsText(i)}
         /\ \A attr \in {"id", "none"} :
              SubnodeAttr(i, attr) = IF attr \in DOMAIN doc[Begins[i]].event[3]
                                       THEN doc[Begins[i]].event[3][attr] ELSE None

\* The walk from what is found comes to every element of a list, in its order, when the list
\* has no other elements.
WalksList ==
  \A p \in {0} \cup DOMAIN nodes :
    LET all == {i \in DOMAIN nodes : nodes[i].parent = p}
        names == {nodes[i].name : i \in all}
    IN  Cardinality(names) = 1 =>
          \A i \in Found(p, CHOOSE n \in names : TRUE) : Walk(i) = SetToSortSeq(all, <)

XmlSound == Shape /\ ValuesKept /\ FindsAlone /\ WalksList
================================================================================
