-------------------------------- MODULE XmlTree --------------------------------
(***************************************************************************)
(* The XML trees of src/util/xmlutils.c: entities, which the callbacks of  *)
(* a GMarkup parser build, and elements, which libxml2 builds.  A document *)
(* is a sequence of tokens: start tags with attributes, texts, end tags    *)
(* and comments, which stand for processing instructions too.  A text is a *)
(* sequence of characters; "<" stands for all that have to be escaped.     *)
(***************************************************************************)
EXTENDS Integers, SequencesExt

Start(name, attributes) ==
  [kind |-> "start", name |-> name, attributes |-> attributes]
Text(text) == [kind |-> "text", text |-> text]
End == [kind |-> "end"]
Comment == [kind |-> "comment"]

\* g_markup_escape_text, and what a parser makes of an escaped text.
g_markup_escape_text(s) == [i \in DOMAIN s |-> IF s[i] = "<" THEN "&lt;" ELSE s[i]]
Unescape(s) == [i \in DOMAIN s |-> IF s[i] = "&lt;" THEN "<" ELSE s[i]]

--------------------------------------------------------------------------------
(***************************************************************************)
(* Entities.  heap[i] is the i-th entity that was allocated, entities its  *)
(* list of children; first and current are the lists of context_data_t,    *)
(* current with the innermost open element at its head, 0 is NULL.         *)
(***************************************************************************)
make_entity(name, attributes) ==
  [name |-> name, text |-> <<>>, entities |-> <<>>, attributes |-> attributes]

NewContext == [heap |-> <<>>, first |-> 0, current |-> <<>>, done |-> FALSE]

\* Links the entity id to the innermost open element, if there is one.
add_entity(c, id) ==
  IF c.current = <<>> THEN c.heap
  ELSE [c.heap EXCEPT ![Head(c.current)].entities = Append(@, id)]

handle_start_element(c, t) ==
  LET id == Len(c.heap) + 1 IN
  [c EXCEPT !.heap = Append(add_entity(c, id), make_entity(t.name, t.attributes)),
            !.first = IF @ = 0 THEN id ELSE @,
            !.current = <<id>> \o @]

handle_end_element(c) ==
  [c EXCEPT !.done = @ \/ Head(c.current) = c.first, !.current = Tail(@)]

handle_text(c, text) ==
  [c EXCEPT !.heap[Head(c.current)].text = @ \o Unescape(text)]

Handle(c, t) ==
  CASE t.kind = "start" -> handle_start_element(c, t)
    [] t.kind = "text" -> handle_text(c, t.text)
    [] t.kind = "end" -> handle_end_element(c)
    [] t.kind = "comment" -> c

RECURSIVE Mutant_print_entity_to_string(_, _)
Mutant_print_entity_to_string(heap, id) ==
  LET e == heap[id]
      text == e.text
  IN <<Start(e.name, e.attributes)>>
     \o (IF text = <<>> THEN <<>> ELSE <<Text(text)>>)
     \o FlattenSeq([i \in DOMAIN e.entities |->
                      Mutant_print_entity_to_string(heap, e.entities[i])])
     \o <<End>>

RECURSIVE print_entity_to_string(_, _)
print_entity_to_string(heap, id) ==
  LET e == heap[id]
      text == g_markup_escape_text(e.text)
  IN <<Start(e.name, e.attributes)>>
     \o (IF text = <<>> THEN <<>> ELSE <<Text(text)>>)
     \o FlattenSeq([i \in DOMAIN e.entities |->
                      print_entity_to_string(heap, e.entities[i])])
     \o <<End>>

\* 0 if equal: the attributes of the first have to be among those of the second.
RECURSIVE compare_entities(_, _, _, _)
compare_entities(heap1, id1, heap2, id2) ==
  LET e1 == heap1[id1]
      e2 == heap2[id2]
      a1 == DOMAIN e1.attributes
      a2 == DOMAIN e2.attributes
  IN IF /\ e1.name = e2.name /\ e1.text = e2.text
        /\ (a1 = {}) = (a2 = {})
        /\ \A n \in a1 : n \in a2 /\ e1.attributes[n] = e2.attributes[n]
        /\ Len(e1.entities) = Len(e2.entities)
        /\ \A i \in DOMAIN e1.entities :
             compare_entities(heap1, e1.entities[i], heap2, e2.entities[i]) = 0
       THEN 0 ELSE 1

\* The callbacks of a reader whose caller does not want the tree.
NewIgnore == [current |-> 0, done |-> FALSE]
ignore_start_element(c) == [c EXCEPT !.current = @ + 1]
Mutant_ignore_end_element(c) ==
  [c EXCEPT !.done = @ \/ c.current = 0, !.current = @ - 1]
ignore_end_element(c) ==
  [c EXCEPT !.done = @ \/ c.current = 1, !.current = @ - 1]

Ignore(c, t) ==
  CASE t.kind = "start" -> ignore_start_element(c)
    [] t.kind = "end" -> ignore_end_element(c)
    [] t.kind \in {"text", "comment"} -> c

\* The contents of the hash table found_attributes are values, not names.
FoundAttributes(find, attributes) ==
  {find[n] : n \in {m \in DOMAIN find \cap DOMAIN attributes :
                      find[m] = attributes[m]}}

Mutant_xml_search_handle_start_element(found, find, t) ==
  \/ found
  \/ /\ t.name = find.element
     /\ DOMAIN find.attributes = {} \/ FoundAttributes(find.attributes, t.attributes) # {}

xml_search_handle_start_element(found, find, t) ==
  \/ found
  \/ /\ t.name = find.element
     /\ Cardinality(FoundAttributes(find.attributes, t.attributes))
          = Cardinality(DOMAIN find.attributes)

--------------------------------------------------------------------------------
(***************************************************************************)
(* Elements.  A node is an element, a text or a comment.                   *)
(***************************************************************************)
Element(name, attributes, nodes) ==
  [type |-> "element", name |-> name, attributes |-> attributes, nodes |-> nodes]
IsElement(node) == node.type = "element"

\* Concatenates the text nodes, and skips what is between them.
element_text(e) ==
  FoldLeft(LAMBDA text, node :
             IF node.type = "text" THEN text \o node.text ELSE text,
           <<>>, e.nodes)

\* The children that element_first_child and element_next go through.
Children(e) == SelectSeq(e.nodes, IsElement)

RECURSIVE print_element_to_string(_)
print_element_to_string(e) ==
  LET text == g_markup_escape_text(element_text(e))
      children == Children(e)
  IN <<Start(e.name, e.attributes)>>
     \o (IF text = <<>> THEN <<>> ELSE <<Text(text)>>)
     \o FlattenSeq([i \in DOMAIN children |-> print_element_to_string(children[i])])
     \o <<End>>

--------------------------------------------------------------------------------
(***************************************************************************)
(* Reference definitions, on the tokens of a document.                     *)
(***************************************************************************)
Count(s, kind) == Cardinality({i \in DOMAIN s : s[i].kind = kind})

\* The number of elements that are open behind the k-th token.
Level(s, k) == Count(SubSeq(s, 1, k), "start") - Count(SubSeq(s, 1, k), "end")

\* Where the elements inside of d others start, and where the element that
\* starts at token i ends: 0 if it does not.
StartsAt(s, d) == {i \in DOMAIN s : s[i].kind = "start" /\ Level(s, i - 1) = d}
EndOf(s, i) ==
  LET ends == {j \in i..Len(s) : s[j].kind = "end" /\ Level(s, j) = Level(s, i - 1)}
  IN IF ends = {} THEN 0 ELSE CHOOSE j \in ends : \A k \in ends : j <= k

\* The complete elements inside of d others, in their order in the document.
ElementsInside(s, d) ==
  LET starts == SetToSortSeq({i \in StartsAt(s, d) : EndOf(s, i) # 0}, <)
  IN [k \in DOMAIN starts |-> SubSeq(s, starts[k], EndOf(s, starts[k]))]

\* An element with its texts moved in front of the elements it contains.
RECURSIVE TextFirst(_)
TextFirst(s) ==
  LET texts == SelectSeq([i \in DOMAIN s |->
                            IF s[i].kind = "text" /\ Level(s, i) = 1
                              THEN s[i].text ELSE <<>>], LAMBDA x : x # <<>>)
      children == ElementsInside(s, 1)
  IN <<Head(s)>>
     \o (IF texts = <<>> THEN <<>> ELSE <<Text(FlattenSeq(texts))>>)
     \o FlattenSeq([i \in DOMAIN children |-> TextFirst(children[i])])
     \o <<End>>
================================================================================
