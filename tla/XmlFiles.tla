------------------------------- MODULE XmlFiles --------------------------------
(***************************************************************************)
(* Reading a document in chunks (src/util/xmlutils.c): by the readers of   *)
(* entities (try_read_entity_and_string and its variants, parse_entity),   *)
(* by find_element_in_xml_file and by the XML file iterator.               *)
(*                                                                         *)
(* The document unfolds while it is read: a token that was not read before *)
(* is any token.  A chunk holds any number of tokens; a token that         *)
(* straddles two chunks counts for the second.                             *)
(***************************************************************************)
EXTENDS XmlTree

CONSTANTS
  Starts,     \* the start tags of documents
  Texts,      \* their texts, escaped
  Finds,      \* what find_element_in_xml_file is asked for
  MaxTokens,  \* bound: length of a document
  MaxDepth    \* bound: depth of the elements an iterator returns

ASSUME XmlAssumption ==
  /\ \A t \in Starts : t = Start(t.name, t.attributes)
  /\ {MaxTokens, MaxDepth} \subseteq Nat \ {0}

VARIABLES
  use,       \* what reads the document: "reader", "search" or "iterator"
  doc,       \* the tokens of the document that are known
  ended,     \* the document has no further tokens
  pos,       \* number of tokens read
  chunk,     \* inside of a chunk
  accepted,  \* number of tokens the parser has accepted
  broken,    \* the parser has met an error
  ctx,       \* reader: context_data_t of the handle_ callbacks
  ign,       \* reader: context_data_t of the ignore_ callbacks
  rc,        \* reader: return value, 1 as long as it runs
  find,      \* search: element and attributes
  found,     \* search: the element was found
  pc,        \* iterator: "idle", "next" (inside of xml_file_iterator_next), "freed"
  it,        \* iterator: the struct
  stack,     \* iterator: the open elements of the libxml2 parser, outermost first
  returned,  \* iterator: elements returned since the last rewind
  reported,  \* iterator: an error was reported since the last rewind
  last       \* iterator: what next returned: "none", "element", "end" or "error"

input == <<doc, ended, pos, chunk, accepted, broken>>
readerVars == <<ctx, ign, rc>>
searchVars == <<find, found>>
iteratorVars == <<pc, it, stack, returned, reported, last>>
vars == <<use, input, readerVars, searchVars, iteratorVars>>

Bad == [kind |-> "bad"]
Tokens == Starts \cup {Text(x) : x \in Texts} \cup {End, Comment, Bad}

NoIterator == [initialized |-> FALSE, output_depth |-> 0, element_queue |-> <<>>]

Init ==
  /\ use \in {"reader", "search", "iterator"}
  /\ doc = <<>> /\ ended = FALSE /\ pos = 0 /\ chunk = FALSE
  /\ accepted = 0 /\ broken = FALSE
  /\ ctx = NewContext /\ ign = NewIgnore /\ rc = 1
  /\ IF use = "search" THEN find \in Finds ELSE find = CHOOSE x \in Finds : TRUE
  /\ found = FALSE
  /\ pc = "idle" /\ it = NoIterator /\ stack = <<>>
  /\ returned = <<>> /\ reported = FALSE /\ last = "none"

\* Reads the token t, which is new or is read again after a rewind.  What is
\* behind an error is never looked at.
ReadToken(t) ==
  /\ IF pos < Len(doc) THEN t = doc[pos + 1] /\ UNCHANGED doc
     ELSE /\ ~ended /\ Len(doc) < MaxTokens /\ (broken => t = Bad)
          /\ doc' = Append(doc, t)
  /\ pos' = pos + 1 /\ chunk' = TRUE
  /\ UNCHANGED ended

AtEnd == pos = Len(doc) /\ ~chunk

\* Whether a parser accepts t inside of so many elements: libxml2 wants a
\* single root, GMarkup does not mind more.
Accepts(level, t, again) ==
  CASE t.kind = "start" -> level > 0 \/ again
    [] t.kind \in {"text", "end"} -> level > 0
    [] t.kind = "comment" -> TRUE
    [] t.kind = "bad" -> FALSE

--------------------------------------------------------------------------------
(***************************************************************************)
(* The readers.                                                            *)
(***************************************************************************)
ReaderToken(t) ==
  /\ use = "reader" /\ rc = 1 /\ ~broken
  /\ ReadToken(t)
  /\ IF Accepts(Len(ctx.current), t, TRUE)
       THEN /\ ctx' = Handle(ctx, t) /\ ign' = Ignore(ign, t)
            /\ accepted' = accepted + 1 /\ UNCHANGED broken
       ELSE broken' = TRUE /\ UNCHANGED <<ctx, ign, accepted>>
  /\ UNCHANGED <<use, rc, searchVars, iteratorVars>>

\* At the end of a chunk the reader looks for an error and for a complete
\* document.
Mutant_ReaderChunkEnd ==
  /\ use = "reader" /\ rc = 1 /\ chunk
  /\ chunk' = FALSE
  /\ rc' = IF broken THEN -2 ELSE IF ctx.done THEN 0 ELSE 1
  /\ UNCHANGED <<use, doc, ended, pos, accepted, broken, ctx, ign, searchVars,
                 iteratorVars>>

ReaderChunkEnd ==
  /\ use = "reader" /\ rc = 1 /\ chunk
  /\ chunk' = FALSE
  /\ rc' = CASE broken -> -2
             [] ~broken /\ ~ctx.done -> 1
             [] ~broken /\ ctx.done -> IF ctx.current = <<>> THEN 0 ELSE -2
  /\ UNCHANGED <<use, doc, ended, pos, accepted, broken, ctx, ign, searchVars,
                 iteratorVars>>

ReaderEndOfFile ==
  /\ use = "reader" /\ rc = 1 /\ AtEnd
  /\ ended' = TRUE /\ rc' = -3
  /\ UNCHANGED <<use, doc, pos, chunk, accepted, broken, ctx, ign, searchVars,
                 iteratorVars>>

\* parse_entity, on a document in one piece: an unescaped "<" ends the text.
parse_entity(s) ==
  IF \E i \in DOMAIN s : s[i].kind = "text" /\ Contains(s[i].text, "<")
    THEN NewContext
    ELSE FoldLeft(Handle, NewContext, s)

--------------------------------------------------------------------------------
(***************************************************************************)
(* find_element_in_xml_file: reads up to the first error.  ctx.current is  *)
(* the parser's own stack of open elements here.                           *)
(***************************************************************************)
find_element_in_xml_file(t) ==
  /\ use = "search" /\ ~broken /\ ~ended
  /\ ReadToken(t)
  /\ IF Accepts(Len(ctx.current), t, TRUE)
       THEN /\ found' = IF t.kind = "start"
                          THEN xml_search_handle_start_element(found, find, t)
                          ELSE found
            /\ ctx' = [ctx EXCEPT !.current =
                         CASE t.kind = "start" -> <<0>> \o @
                           [] t.kind = "end" -> Tail(@)
                           [] OTHER -> @]
            /\ accepted' = accepted + 1 /\ UNCHANGED broken
       ELSE broken' = TRUE /\ UNCHANGED <<found, ctx, accepted>>
  /\ UNCHANGED <<use, ign, rc, find, iteratorVars>>

--------------------------------------------------------------------------------
(***************************************************************************)
(* The iterator.                                                           *)
(***************************************************************************)
xml_file_iterator_init_from_file_path(output_depth) ==
  /\ use = "iterator" /\ pc = "idle" /\ ~it.initialized
  /\ \E file, context \in BOOLEAN :
       it' = [NoIterator EXCEPT !.output_depth = output_depth,
                                !.initialized = file /\ context]
  /\ UNCHANGED <<use, input, readerVars, searchVars, pc, stack, returned, reported,
                 last>>

\* libxml2's own handlers keep the tree of the open elements.
AppendNode(s, node) == [s EXCEPT ![Len(s)].nodes = Append(@, node)]
xml_file_iterator_start_element_ns(s, t) ==
  Append(s, Element(t.name, t.attributes, <<>>))
xml_file_iterator_characters(s, text) ==
  AppendNode(s, [type |-> "text", text |-> Unescape(text)])
xml_file_iterator_comment(s) ==
  IF s = <<>> THEN s ELSE AppendNode(s, [type |-> "comment"])
xmlSAX2EndElementNs(s) ==
  IF Len(s) = 1 THEN <<>> ELSE AppendNode(Front(s), Last(s))

\* With the end of an element inside of output_depth others, all elements its
\* parent has so far go to the queue and everything is removed from the parent.
Mutant_xml_file_iterator_end_element_ns ==
  LET s == xmlSAX2EndElementNs(stack) IN
  IF Len(s) = it.output_depth
    THEN /\ stack' = s
         /\ it' = [it EXCEPT !.element_queue = @ \o Children(Last(s))]
    ELSE stack' = s /\ UNCHANGED it

xml_file_iterator_end_element_ns ==
  LET s == xmlSAX2EndElementNs(stack) IN
  IF Len(s) = it.output_depth
    THEN /\ stack' = [s EXCEPT ![Len(s)].nodes = <<>>]
         /\ it' = [it EXCEPT !.element_queue = @ \o Children(Last(s))]
    ELSE stack' = s /\ UNCHANGED it

Callback(t) ==
  CASE t.kind = "start" ->
         stack' = xml_file_iterator_start_element_ns(stack, t) /\ UNCHANGED it
    [] t.kind = "text" ->
         stack' = xml_file_iterator_characters(stack, t.text) /\ UNCHANGED it
    [] t.kind = "comment" ->
         stack' = xml_file_iterator_comment(stack) /\ UNCHANGED it
    [] t.kind = "end" -> xml_file_iterator_end_element_ns

CallNext ==
  /\ use = "iterator" /\ pc = "idle"
  /\ IF it.initialized THEN pc' = "next" /\ last' = "none" /\ UNCHANGED reported
     ELSE last' = "error" /\ UNCHANGED <<pc, reported>>
  /\ UNCHANGED <<use, input, readerVars, searchVars, it, stack, returned>>

\* One token of a chunk.  After an error libxml2 calls back no more.
NextToken(t) ==
  LET rooted == Count(SubSeq(doc, 1, accepted), "start") > 0 IN
  /\ pc = "next"
  /\ chunk \/ it.element_queue = <<>>
  /\ ReadToken(t)
  /\ CASE broken -> UNCHANGED <<stack, it, accepted, broken>>
       [] ~broken /\ Accepts(Len(stack), t, ~rooted) ->
            Callback(t) /\ accepted' = accepted + 1 /\ UNCHANGED broken
       [] OTHER -> broken' = TRUE /\ UNCHANGED <<stack, it, accepted>>
  /\ UNCHANGED <<use, readerVars, searchVars, pc, returned, reported, last>>

NextChunkEnd ==
  /\ pc = "next" /\ chunk
  /\ chunk' = FALSE
  /\ IF broken THEN pc' = "idle" /\ last' = "error" /\ reported' = TRUE
     ELSE UNCHANGED <<pc, last, reported>>
  /\ UNCHANGED <<use, doc, ended, pos, accepted, broken, readerVars, searchVars, it,
                 stack, returned>>

NextElement ==
  /\ pc = "next" /\ ~chunk /\ it.element_queue # <<>>
  /\ it' = [it EXCEPT !.element_queue = Tail(@)]
  /\ returned' = Append(returned, Head(it.element_queue))
  /\ pc' = "idle" /\ last' = "element"
  /\ UNCHANGED <<use, input, readerVars, searchVars, stack, reported>>

NextEndOfFile ==
  /\ pc = "next" /\ it.element_queue = <<>> /\ AtEnd
  /\ ended' = TRUE
  /\ pc' = "idle" /\ last' = "end"
  /\ UNCHANGED <<use, doc, pos, chunk, accepted, broken, readerVars, searchVars, it,
                 stack, returned, reported>>

\* fread fails.
NextReadError ==
  /\ pc = "next" /\ ~chunk /\ it.element_queue = <<>>
  /\ pc' = "idle" /\ last' = "error" /\ reported' = TRUE
  /\ UNCHANGED <<use, input, readerVars, searchVars, it, stack, returned>>

xml_file_iterator_rewind ==
  /\ pc = "idle" /\ it.initialized
  /\ pos' = 0 /\ accepted' = 0 /\ broken' = FALSE
  /\ it' = [it EXCEPT !.element_queue = <<>>] /\ stack' = <<>>
  /\ returned' = <<>> /\ reported' = FALSE /\ last' = "none"
  /\ UNCHANGED <<use, doc, ended, chunk, readerVars, searchVars, pc>>

xml_file_iterator_free ==
  /\ use = "iterator" /\ pc = "idle"
  /\ pc' = "freed" /\ it' = NoIterator /\ stack' = <<>> /\ returned' = <<>>
  /\ reported' = FALSE /\ last' = "none"
  /\ doc' = <<>> /\ ended' = FALSE /\ pos' = 0 /\ chunk' = FALSE
  /\ accepted' = 0 /\ broken' = FALSE
  /\ UNCHANGED <<use, readerVars, searchVars>>

--------------------------------------------------------------------------------
Next ==
  \/ \E t \in Tokens : ReaderToken(t) \/ find_element_in_xml_file(t) \/ NextToken(t)
  \/ ReaderChunkEnd
  \/ ReaderEndOfFile
  \/ \E d \in 1..MaxDepth : xml_file_iterator_init_from_file_path(d)
  \/ CallNext
  \/ NextChunkEnd
  \/ NextElement
  \/ NextEndOfFile
  \/ NextReadError
  \/ xml_file_iterator_rewind
  \/ xml_file_iterator_free

Spec == Init /\ [][Next]_vars

--------------------------------------------------------------------------------
(***************************************************************************)
(* Properties.                                                             *)
(***************************************************************************)
Accepted == SubSeq(doc, 1, accepted)

\* A reader whose caller does not want the tree finishes at the same token as
\* one whose caller does, so that both leave the connection at the same answer.
HandlersAgree ==
  use = "reader" => ign.done = ctx.done /\ ign.current = Len(ctx.current)

\* A reader that succeeds has built the first element of the document: printed,
\* it is the document with the texts moved in front of the elements.  It fails
\* on every document that is broken or ends in an element.
TreeIsDocument ==
  /\ rc = 0 => /\ print_entity_to_string(ctx.heap, ctx.first)
                    = TextFirst(ElementsInside(Accepted, 0)[1])
               /\ Level(doc, accepted) = 0
  /\ rc = -3 => ElementsInside(doc, 0) = <<>>

\* A tree survives being printed by print_entity_to_string and read by
\* parse_entity: compare_entities finds no difference in either direction.
PrintedIsReadBack ==
  rc = 0 =>
    LET copy == parse_entity(print_entity_to_string(ctx.heap, ctx.first)) IN
    /\ copy.done
    /\ compare_entities(ctx.heap, ctx.first, copy.heap, copy.first) = 0
    /\ compare_entities(copy.heap, copy.first, ctx.heap, ctx.first) = 0

\* find_element_in_xml_file finds an element exactly if one before the first
\* error has the name and every attribute that is looked for.
FoundIsThere ==
  use = "search" =>
    (found <=> \E i \in 1..accepted :
                 /\ doc[i].kind = "start" /\ doc[i].name = find.element
                 /\ \A n \in DOMAIN find.attributes :
                      /\ n \in DOMAIN doc[i].attributes
                      /\ doc[i].attributes[n] = find.attributes[n])

\* Since the last rewind the iterator has returned, or has in its queue, every
\* complete element inside of output_depth others, once, whole and in the order
\* of the document, wherever the chunks end and whatever text is in between.  It
\* says that there are no more when none is left and every error was reported.
ElementsInOrder ==
  it.initialized =>
    LET elements == returned \o it.element_queue
        expected == ElementsInside(Accepted, it.output_depth)
    IN /\ Len(elements) = Len(expected)
       /\ \A i \in DOMAIN elements :
            print_element_to_string(elements[i]) = TextFirst(expected[i])
       /\ last = "end" => it.element_queue = <<>> /\ (accepted = Len(doc) \/ reported)

================================================================================
