---------------------------- MODULE BrowseCommands ----------------------------
(***************************************************************************)
(* The commands of the browse cursor: quick navigation, text, containers,  *)
(* tables and find (internal/engine/engine.go, internal/profile/commands.go).*)
(* The mode decides whether their keys reach the browser, not what they do.*)
(***************************************************************************)
EXTENDS CursorState

-----------------------------------------------------------------------------
(* Targets of quick navigation *)

RolesOf ==
  [heading |-> {"heading"}, landmark |-> {"landmark"}, list |-> {"list"},
   listItem |-> {"list item"}, table |-> {"table"}, separator |-> {"separator"},
   button |-> {"push button", "toggle button", "button"},
   formField |-> {"entry", "password text", "check box", "radio button", "combo box",
                  "spin button", "slider", "button", "push button", "toggle button",
                  "page tab", "menu item"},
   graphic |-> {"image", "graphic"}, checkBox |-> {"check box"},
   radioButton |-> {"radio button"}, comboBox |-> {"combo box"},
   edit |-> {"entry", "password text"}, frame |-> {"frame", "internal frame"},
   blockQuote |-> {"blockquote"}, embeddedObject |-> {"embedded"},
   annotation |-> {"annotation", "content insertion", "content deletion"},
   article |-> {}, figure |-> {"figure"}, tab |-> {"page tab", "tab"},
   menuItem |-> {"menu item", "check menu item", "radio menu item", "menu button"},
   toggleButton |-> {"toggle button"}, progressBar |-> {"progress bar"},
   math |-> {"math", "equation"}, reference |-> {}]

\* Targets that a tag, an attribute or a state of a node also makes.
MarksOf ==
  [landmark |-> {"banner", "complementary", "contentinfo", "form", "main", "navigation",
                 "region", "search"},
   edit |-> {"editable"}, blockQuote |-> {"blockquote"}, article |-> {"article"},
   figure |-> {"figure"}, toggleButton |-> {"switch"}, math |-> {"math"}]

\* A sentence ends: punctuation after a letter, before a space or the end.
MatchesTextParagraph(t) ==
  \E i \in 2..Len(t) : /\ t[i] = Terminator /\ Letter(t[i - 1])
                       /\ i = Len(t) \/ t[i + 1] \in White

HeadingLevels == {"heading1", "heading2", "heading3", "heading4", "heading5", "heading6",
                  "heading7", "heading8", "heading9"}

MatchTarget(target, n) ==
  CASE target = "link" -> n.role = "link"
    [] target = "visitedLink" -> n.role = "link" /\ "visited" \in n.marks
    [] target = "unvisitedLink" -> n.role = "link" /\ "visited" \notin n.marks
    [] target \in HeadingLevels -> n.role = "heading" /\ target \in n.marks
    [] target = "grouping" -> /\ n.name # <<>>
                              /\ \/ n.role \in {"grouping", "group"}
                                 \/ n.marks \cap {"fieldset", "group", "radiogroup"} # {}
    [] target = "error" -> n.children = <<>> /\ n.marks \cap {"spelling", "grammar"} # {}
    [] target = "textParagraph" ->
         /\ n.role \in {"paragraph", "article"} \/ "p" \in n.marks
         /\ MatchesTextParagraph(IF NormalizeSpokenText(n.text) = <<>> /\ n.role # "article"
                                   THEN n.said ELSE Characters(n.text))
    [] OTHER -> \/ /\ n.role \in RolesOf[target]
                   /\ ~(target = "menuItem" /\ n.role = "menu item" /\ "option" \in n.marks)
                \/ target \in DOMAIN MarksOf /\ n.marks \cap MarksOf[target] # {}

\* What the node at the cursor has to do with the target.
Matches(target, n) ==
  LET here == NodeOf(cursor.object)
  IN CASE target = "verticalParagraph" ->
            /\ n.said # <<>> /\ n.x = (IF InGraph(cursor.object) THEN here.x ELSE 0)
            /\ n.role = "paragraph" \/ "p" \in n.marks
       [] target \in {"sameStyle", "differentStyle"} ->
            /\ n.said # <<>> /\ InGraph(cursor.object)
            /\ n.style # "" /\ here.style # ""
            /\ (target = "sameStyle") = (n.style = here.style)
       [] OTHER -> MatchTarget(target, n)

\* The first text between two consecutive links with enough of it, starting at the cursor.
FindNotLinkBlock(o, d) ==
  LET all == {x \in DOMAIN graph.nodes : NodeOf(x).role = "link"}
      links == {i \in PlacesIn(graph, DocumentRoot(graph, o), all) : d * (i - Index(graph, o)) > 0}
      Text(i, j) == {k \in i + 1..j - 1 :
                       /\ {graph.order[i], graph.order[j]} \cap ToSet(Up(graph, graph.order[k])) = {}
                       /\ NodeOf(graph.order[k]).said # <<>>}
      Length(text) == MapThenSumSet(LAMBDA k : Len(NodeOf(graph.order[k]).said) + 1, text)
      Ends(i) == {j \in links : j > i /\ ~\E k \in links : i < k /\ k < j}
      Enough(i) == {text \in {Text(i, j) : j \in Ends(i)} : Length(text) >= notLinkBlockMinimumLength}
      Targets(i) == {k \in UNION Enough(i) : ~RedundantTextLeaf(graph, NodeOf(graph.order[k]))}
      blocks == {i \in links : Targets(i) # {}}
  IN IF blocks = {} THEN Nothing
     ELSE graph.order[Min(Targets(IF d > 0 THEN Min(blocks) ELSE Max(blocks)))]

-----------------------------------------------------------------------------
(* Moves *)

\* A command moves the cursor to the place it found, or finds none and leaves it.
Browse(found, how) ==
  /\ \E to \in {found} :
       /\ cursor' = IF to.object = Nothing THEN cursor ELSE to
       /\ last' = IF to.object = Nothing THEN "boundary" ELSE how
  /\ UNCHANGED <<graphVars, mode, singleLetter, findQuery, leaving, reviewVars, focusVars, workload>>

Direction(d) == IF d > 0 THEN "next" ELSE "previous"

\* Quick navigation.  A table is entered at its first cell, backwards at its last.
Navigate(target, d) ==
  LET Target == IF target = "notLinkBlock" THEN FindNotLinkBlock(cursor.object, d)
                ELSE MoveInDocument(graph, cursor.object, d,
                       {x \in DOMAIN graph.nodes : Matches(target, NodeOf(x))})
      Entered(table) == IF PositionedCells(graph, table) = {} THEN table ELSE EdgeCell(graph, table, d)
  IN /\ singleLetter
     /\ \E found \in {Target} :
          Browse(Start(IF target = "table" /\ found # Nothing THEN Entered(found) ELSE found),
                 IF target = "table" /\ d < 0 THEN "within" ELSE Direction(d))

\* The first unit of the next node of the document with any, or the last of the previous.
AdjacentTextUnit(d, unit) ==
  LET o == IF Index(graph, cursor.object) = 0 THEN Nothing
           ELSE MoveInDocument(graph, cursor.object, d,
                  {x \in DOMAIN graph.nodes : NodeOf(x).navigable # <<>> /\ NodeOf(x).units[unit] # {}})
      ranges == NodeOf(o).units[unit]
  IN IF o = Nothing THEN Start(Nothing)
     ELSE At(o, Foremost(ranges, d).start)

MoveUnit(d, unit) ==
  LET Unit == MoveTextUnit(NodeOf(cursor.object).units[unit], cursor.offset, d)
  IN \E range \in {Unit} :
       Browse(IF range # NoRange THEN At(cursor.object, range.start) ELSE AdjacentTextUnit(d, unit),
              Direction(d))

\* Lines are those of the document, except within cells and texts of several lines.
MovesWithinNode(n) == n.role \in TableCells \/ "\n" \in ToSet(n.navigable)

MoveParagraph(d) ==
  LET blocks == {x \in DOMAIN graph.nodes : DocumentBlockNode(graph, NodeOf(x))}
  IN Browse(Start(MoveInDocument(graph, cursor.object, d, blocks)), Direction(d))

MoveLine(d) ==
  Browse(Start(MoveDocumentLine(graph, cursor.object, d)), IF d > 0 THEN "nextLine" ELSE "previousLine")

MoveText(unit, d) ==
  /\ InGraph(cursor.object)
  /\ CASE unit = "paragraph" -> MoveParagraph(d)
       [] unit = "line" /\ ~MovesWithinNode(NodeOf(cursor.object)) -> MoveLine(d)
       [] OTHER -> MoveUnit(d, unit)

DocumentStart ==
  LET document == DocumentRoot(graph, cursor.object)
      first == FirstDocumentBrowseNode(graph, document)
  IN /\ InGraph(cursor.object)
     /\ Browse(IF document = Nothing \/ first # Nothing THEN Start(first) ELSE Start(document),
               "within")

DocumentEnd ==
  LET document == DocumentRoot(graph, cursor.object)
      places == PlacesIn(graph, document, DOMAIN graph.nodes)
      end == graph.order[Max(places)]
  IN /\ InGraph(cursor.object)
     /\ Browse(IF document = Nothing THEN Start(Nothing)
               ELSE IF places = {} THEN At(cursor.object, Len(NodeOf(cursor.object).navigable))
               ELSE At(end, Len(NodeOf(end).navigable)), "within")

MoveToContainerStart == Browse(Start(Containing(graph, cursor.object, Containers)), "around")

\* The first object of the document after the run of descendants of the container.
MovePastContainerEnd ==
  LET document == DocumentRoot(graph, cursor.object)
      Outside(container) ==
        {i \in Index(graph, container) + 1..Len(graph.order) :
           /\ ~IsDescendantOf(graph, graph.order[i], container)
           /\ document # Nothing => InDocument(graph, graph.order[i], document)}
      After(container) == IF container = Nothing \/ Outside(container) = {} THEN Nothing
                          ELSE graph.order[Min(Outside(container))]
  IN \E container \in {Containing(graph, cursor.object, Containers)} :
       Browse(Start(After(container)), "past")

-----------------------------------------------------------------------------
(* Tables *)

\* From a cell, or from the first cell of the table around the cursor, by row or column.
NavigateTable(axis, d, toEdge) ==
  LET around == Containing(graph, cursor.object, TableCells)
      Current(table) == IF around # Nothing THEN around ELSE EdgeCell(graph, table, 1)
      CellIn(table, n, i) == IF axis = "row" THEN CellAt(graph, table, i, n.column)
                             ELSE CellAt(graph, table, n.row, i)
      Size(table) == IF axis = "row" THEN graph.tables[table].rows ELSE graph.tables[table].columns
      Near(n) == IF axis = "row" THEN n.row ELSE n.column
      Far(n) == IF axis = "row" THEN n.row + n.rowSpan ELSE n.column + n.columnSpan
      \* To an edge the search comes from beyond it, otherwise from the cell's own edge.
      Ahead(table, n) ==
        {i \in 1..Size(table) : /\ CellIn(table, n, i) # Nothing
                                /\ toEdge \/ IF d > 0 THEN i >= Far(n) ELSE i < Near(n)}
      First(found) == IF toEdge = (d < 0) THEN Min(found) ELSE Max(found)
  IN \E table \in {ContainingTable(graph, cursor.object)} \ {Nothing} :
       /\ PositionedCells(graph, table) # {}
       /\ \E n \in {NodeOf(Current(table))} :
            \E found \in {Ahead(table, n)} :
              \E to \in {IF found = {} THEN Nothing ELSE CellIn(table, n, First(found))} :
                Browse(Start(IF to = Current(table) THEN Nothing ELSE to), "around")

\* Reading to the end of a row or column leaves the cursor at its last cell.
SayAllTable(axis) ==
  LET ToEnd(table, n) ==
        IF axis = "row"
          THEN {CellAt(graph, table, n.row, i) : i \in n.column..graph.tables[table].columns}
          ELSE {CellAt(graph, table, i, n.column) : i \in n.row..graph.tables[table].rows}
      Beside(x, o) == IF axis = "row" THEN NodeOf(x).column <= NodeOf(o).column
                      ELSE NodeOf(x).row <= NodeOf(o).row
  IN \E current \in {Containing(graph, cursor.object, TableCells)} \ {Nothing} :
       \E read \in {ToEnd(ContainingTable(graph, current), NodeOf(current)) \ {Nothing}} :
         \E o \in read : /\ \A x \in read : Beside(x, o)
                        /\ Browse(Start(o), "around")

-----------------------------------------------------------------------------
(* Find *)

Occurrences(t, query) ==
  {k \in 0..Len(t) - Len(query) : SubSeq(t, k + 1, k + Len(query)) = query}

\* The places in a node for a search from an offset.  A name that is not the text is
\* found as a whole, at 0.
FindNodeOffsets(n, query, offset, d, includeOffset) ==
  LET ahead == {k \in Occurrences(n.readable, query) :
                  d * (k - offset) > 0 \/ (includeOffset /\ k = offset)}
      outside == d * offset < 0 \/ (includeOffset /\ offset = 0)
  IN ahead \cup {k \in {0} : /\ Occurrences(n.readable, query) = {} /\ outside
                           /\ Occurrences(n.said, query) # {}}

\* A parent and its child say the same.
SameFindOccurrence(o, x, query) ==
  LET Said(y) == NodeOf(y).said \o <<" ">> \o NodeOf(y).text
      Words(t) == NormalizeSpokenText([i \in 1..Len(t) |-> IF Letter(t[i]) THEN t[i] ELSE " "])
  IN /\ InGraph(o)
     /\ IsDescendantOf(graph, o, x) \/ IsDescendantOf(graph, x, o)
     /\ Occurrences(Said(o), query) # {} /\ Occurrences(Said(x), query) # {}
     /\ Words(Said(o)) = Words(Said(x))

FindFrom(query, d, includeCursor, how) ==
  LET document == DocumentRoot(graph, cursor.object)
      Offsets(o) ==
        IF o = cursor.object THEN FindNodeOffsets(NodeOf(o), query, cursor.offset, d, includeCursor)
        ELSE IF SameFindOccurrence(cursor.object, o, query) THEN {}
        ELSE FindNodeOffsets(NodeOf(o), query,
                             IF d > 0 THEN -1 ELSE Len(NodeOf(o).readable) + 1, d, FALSE)
      Found == {i \in 1..Len(graph.order) :
                  /\ Index(graph, cursor.object) # 0 => d * (i - Index(graph, cursor.object)) >= 0
                  /\ document # Nothing => InDocument(graph, graph.order[i], document)
                  /\ Offsets(graph.order[i]) # {}}
      First(places) == IF d > 0 THEN Min(places) ELSE Max(places)
  IN \E found \in {Found} :
       IF found = {} THEN cursor' = cursor /\ last' = "boundary"
       ELSE /\ \E o \in {graph.order[First(found)]} : cursor' = At(o, First(Offsets(o)))
            /\ last' = how

Find(query) ==
  /\ findQuery' = query
  /\ FindFrom(query, 1, TRUE, "within")
  /\ UNCHANGED <<graphVars, mode, singleLetter, leaving, reviewVars, focusVars, workload>>

FindAgain(d) ==
  /\ findQuery # <<>>
  /\ FindFrom(findQuery, d, FALSE, Direction(d))
  /\ UNCHANGED <<graphVars, mode, singleLetter, findQuery, leaving, reviewVars, focusVars, workload>>

-----------------------------------------------------------------------------
(* Embedded objects *)

\* Focus the document around the embedded object around the cursor's document ...
ExitEmbeddedObject ==
  LET up == Up(graph, cursor.object)
      documents == SelectSeq(up, LAMBDA o : NodeOf(o).role \in Documents)
      Between(o) == /\ NodeOf(o).role = "embedded"
                    /\ IsDescendantOf(graph, documents[1], o)
                    /\ ~IsDescendantOf(graph, documents[2], o)
  IN /\ Len(documents) >= 2 /\ \E o \in ToSet(up) : Between(o)
     /\ leaving' = documents[2]
     /\ last' = "other"
     /\ UNCHANGED <<graphVars, cursor, mode, singleLetter, findQuery, reviewVars, focusVars, workload>>

\* ... and go there, whatever the graph is by then, unless the browser refused.
LeaveEmbeddedObject ==
  /\ leaving # Nothing
  /\ cursor' \in {Start(leaving), cursor}
  /\ leaving' = Nothing
  /\ last' = "leave"
  /\ UNCHANGED <<graphVars, mode, singleLetter, findQuery, reviewVars, focusVars, workload>>
=============================================================================
