---------------------------- MODULE DocumentGraph ----------------------------
(***************************************************************************)
(* internal/model and the functions of internal/engine that read a graph:  *)
(* the accessibility tree of a page as HooVDA keeps it, its reading order, *)
(* its documents, lines and tables, and the units of a text.               *)
(*                                                                         *)
(* A text is a sequence of characters; offsets count from 0 as in the      *)
(* code.  Roles are the strings of the code.  The attributes and states of *)
(* a node that a command looks at are its marks.                           *)
(***************************************************************************)
EXTENDS Integers, SequencesExt, FiniteSetsExt

CONSTANTS Nothing,                 \* the object identifier that is not valid
          depthLimit,              \* 512: how many ancestors are looked at
          notLinkBlockMinimumLength,
          virtualLineWidth

ASSUME LengthAssumption == {depthLimit, notLinkBlockMinimumLength, virtualLineWidth} \subseteq Nat

-----------------------------------------------------------------------------
(* Characters and content *)

White == {" ", "\n", "\r"}
Embedded == "obj"                   \* where an embedded object stands in a text
Terminator == "."
Letter(c) == c \notin White \cup {Embedded, Terminator}

\* The members of a sequence at some of its places, in order.
Picked(t, places) ==
  LET Nth(i) == CHOOSE k \in places : Cardinality({j \in places : j <= k}) = i
  IN [i \in 1..Cardinality(places) |-> t[Nth(i)]]

\* A text without the objects that it embeds.
Characters(t) == Picked(t, {k \in 1..Len(t) : t[k] # Embedded})

\* Embedded objects are dropped, white space becomes single spaces, none at the ends.
NormalizeSpokenText(t) ==
  LET body == Characters(t)
      Inner(k) == /\ k > 1 /\ body[k - 1] \notin White
                  /\ \E j \in k..Len(body) : body[j] \notin White
      said == Picked(body, {k \in 1..Len(body) : body[k] \notin White \/ Inner(k)})
  IN [i \in DOMAIN said |-> IF said[i] \in White THEN " " ELSE said[i]]

IsProtected(n) == n.role = "password text" \/ n.marks \cap {"redacted", "hidden"} # {}

\* A hidden control masks its own text only.
ProtectsDescendantContent(n) ==
  n.role = "password text" \/ ("redacted" \in n.marks /\ "hidden" \notin n.marks)

RedactedContentCopy(n) ==
  [n EXCEPT !.marks = @ \cup {"redacted"}, !.name = <<"*">>,
            !.text = IF @ = <<>> THEN @ ELSE <<"*">>,
            !.selection = [start |-> 0, end |-> 0], !.caret = 0]

\* The name, or else the text; values and descriptions are more of the same.
SpokenContent(n) ==
  IF NormalizeSpokenText(n.name) # <<>> THEN NormalizeSpokenText(n.name)
  ELSE IF IsProtected(n) THEN <<>> ELSE NormalizeSpokenText(n.text)

Documents == {"document web", "document frame"}

SemanticRoles == Documents \cup
  {"heading", "link", "push button", "toggle button", "check box", "radio button", "combo box",
   "entry", "password text", "list", "list item", "table", "table cell", "row header",
   "column header", "landmark", "section", "article", "dialog", "alert", "status bar", "menu",
   "menu item", "page tab", "tree item", "slider", "progress bar", "image", "math", "separator",
   "blockquote", "embedded", "annotation"}

Semantic(n) ==
  /\ n.marks \cap {"invisible", "defunct"} = {}
  /\ SpokenContent(n) # <<>> \/ n.role \in SemanticRoles

\* What the text cursors move through: a leaf without a text has its content.
NavigableText(n) ==
  IF IsProtected(n) THEN <<>>
  ELSE IF n.text # <<>> THEN Characters(n.text)
  ELSE IF n.children = <<>> THEN SpokenContent(n) ELSE <<>>

-----------------------------------------------------------------------------
(* Text units: the ranges [start, end) of a text, no two from the same start *)

NoRange == [start |-> -1, end |-> -1]

\* A word reaches to the start of the next one.
WordRanges(t) ==
  LET starts == {k \in 0..Len(t) - 1 : Letter(t[k + 1]) /\ (k = 0 \/ ~Letter(t[k]))}
  IN {[start |-> k, end |-> Min({e \in starts \cup {Len(t)} : e > k})] : k \in starts}

\* A line reaches to its terminator, and may be empty; the last one has none.
LineRanges(t) ==
  LET starts == {0} \cup {k \in 1..Len(t) : t[k] = "\n"}
      Later(k) == {e \in starts : e > k}
      End(k) == IF Later(k) = {} THEN Len(t)
                ELSE LET e == Min(Later(k)) - 1 IN IF e > k /\ t[e] = "\r" THEN e - 1 ELSE e
  IN {[start |-> k, end |-> End(k)] : k \in starts}

TextUnitRanges(t, unit) ==
  CASE unit = "character" -> {[start |-> k, end |-> k + 1] : k \in 0..Len(t) - 1}
    [] unit = "word" -> WordRanges(t)
    [] unit = "line" -> LineRanges(t)

\* The first of some ranges in a direction, and so the last in the other.
Foremost(ranges, direction) ==
  CHOOSE r \in ranges : \A q \in ranges : direction * (q.start - r.start) >= 0

FirstRange(ranges) == Foremost(ranges, 1)
LastRange(ranges) == Foremost(ranges, -1)

\* Variant: the range that starts at the offset counts.
MoveTextUnitFrom(ranges, offset, direction) ==
  LET ahead == {r \in ranges : direction * (r.start - offset) >= 0}
  IN IF ahead = {} THEN NoRange ELSE Foremost(ahead, direction)

\* The nearest range that starts strictly after or before the offset.
MoveTextUnit(ranges, offset, direction) ==
  LET ahead == {r \in ranges : direction * (r.start - offset) > 0}
  IN IF ahead = {} THEN NoRange ELSE Foremost(ahead, direction)

\* The range around the offset; beyond the last one it is the last one.
TextRangeAt(ranges, offset, unit) ==
  LET Holds(r) == /\ offset >= r.start
                  /\ \/ offset < r.end \/ r.start = r.end
                     \/ unit = "line" /\ \A q \in ranges : q.start > r.start => offset < q.start
      around == {r \in ranges : Holds(r)}
  IN IF around # {} THEN FirstRange(around)
     ELSE IF ranges # {} /\ offset >= LastRange(ranges).end THEN LastRange(ranges) ELSE NoRange

CharacterRange(t, offset) ==
  IF offset \in 0..Len(t) - 1 THEN [start |-> offset, end |-> offset + 1] ELSE NoRange

-----------------------------------------------------------------------------
(* The graph: a root, nodes by identifier, and the reading order *)

Has(g, o) == o \in DOMAIN g.nodes

\* The next object of the walk is read; what is below a protected one is redacted.
Enter(nodes, w, entry, stack) ==
  LET n == IF entry.protected THEN RedactedContentCopy(nodes[entry.object]) ELSE nodes[entry.object]
      protects == entry.protected \/ ProtectsDescendantContent(n)
  IN [stack |-> [i \in DOMAIN n.children |-> [object |-> n.children[i], protected |-> protects]] \o stack,
      visited |-> w.visited \cup {entry.object},
      redacted |-> w.redacted \cup {o \in {entry.object} : entry.protected},
      order |-> IF Semantic(n) THEN Append(w.order, entry.object) ELSE w.order]

\* Depth first, each node once.
WalkOn(nodes, w) ==
  LET fresh == {i \in DOMAIN w.stack : w.stack[i].object \in DOMAIN nodes \ w.visited}
  IN IF fresh = {} THEN w
     ELSE Enter(nodes, w, w.stack[Min(fresh)], SubSeq(w.stack, Min(fresh) + 1, Len(w.stack)))

Walk(root, nodes) ==
  LET walk[n \in Nat] ==
        IF n = 0 THEN [stack |-> <<[object |-> root, protected |-> FALSE]>>, visited |-> {},
                       redacted |-> {}, order |-> <<>>]
        ELSE WalkOn(nodes, walk[n - 1])
  IN walk

\* From an object up, innermost first.
PathsUp(nodes) ==
  LET path[n \in Nat] ==
        [o \in DOMAIN nodes \cup {Nothing} |->
           IF n = 0 \/ o \notin DOMAIN nodes THEN <<>> ELSE <<o>> \o path[n - 1][nodes[o].parent]]
  IN path

Up(g, o) == IF Has(g, o) THEN g.nodes[o].up ELSE <<>>

\* The innermost object of Up with a role among these.
Containing(g, o, roles) ==
  LET found == {i \in DOMAIN Up(g, o) : g.nodes[Up(g, o)[i]].role \in roles}
  IN IF found = {} THEN Nothing ELSE Up(g, o)[Min(found)]

IsDescendantOf(g, o, ancestor) == o = ancestor \/ ancestor \in ToSet(Up(g, o))

\* The outermost document an object is in: an embedded one belongs to its page.
DocumentRoot(g, o) == IF Has(g, o) THEN g.nodes[o].document ELSE Nothing

\* Variant: in any document of the browser.
InAnyDocument(g, o, document) == document # Nothing /\ DocumentRoot(g, o) # Nothing

InDocument(g, o, document) == document # Nothing /\ DocumentRoot(g, o) = document

\* Places in the reading order count from 1; 0 is none.
Index(g, o) == IF Has(g, o) THEN g.nodes[o].place ELSE 0

\* The nearest of a set of places in a direction from a place, as an object.
Nearest(g, from, direction, places) ==
  LET ahead == {i \in places : direction * (i - from) > 0}
  IN IF ahead = {} THEN Nothing
     ELSE g.order[IF direction > 0 THEN Min(ahead) ELSE Max(ahead)]

\* The places of a set of objects, and those of them within a document.
Places(g, objects) == {i \in 1..Len(g.order) : g.order[i] \in objects}
PlacesIn(g, document, objects) == {i \in Places(g, objects) : InDocument(g, g.order[i], document)}

\* From an object without a place the search starts at the near end.
Move(g, o, direction, places) ==
  Nearest(g, IF Index(g, o) = 0 /\ direction < 0 THEN Len(g.order) + 1 ELSE Index(g, o),
          direction, places)

MoveInDocument(g, o, direction, objects) ==
  Move(g, o, direction, PlacesIn(g, DocumentRoot(g, o), objects))

-----------------------------------------------------------------------------
(* Documents and their parts *)

DocumentPriority(n) ==
  (IF "showing" \in n.marks THEN 1 ELSE 0) + (IF "focused" \in n.marks THEN 2 ELSE 0)

\* The last of the documents with the highest priority.
BestDocument(g, objects) ==
  LET places == Places(g, {x \in objects : g.nodes[x].role \in Documents})
      Priority(i) == DocumentPriority(g.nodes[g.order[i]])
      best == {i \in places : \A j \in places : Priority(j) <= Priority(i)}
  IN IF best = {} THEN Nothing ELSE g.order[Max(best)]

InitialCursor(g) ==
  LET document == BestDocument(g, DOMAIN g.nodes)
  IN IF document # Nothing THEN document
     ELSE IF g.order # <<>> THEN Head(g.order) ELSE g.root

\* A text leaf that only repeats its parent.
RedundantTextLeaf(g, n) ==
  /\ n.role = "static" /\ Has(g, n.parent)
  /\ g.nodes[n.parent].said = n.said

LineNode(g, n) ==
  /\ n.said # <<>> /\ ~RedundantTextLeaf(g, n)
  /\ n.role \notin Documents \cup {"landmark"}

BlockRoles == {"heading", "paragraph", "article", "blockquote", "list item", "table cell",
               "row header", "column header"}

DocumentBlockNode(g, n) == LineNode(g, n) /\ (n.role \in BlockRoles \/ "block" \in n.marks)

\* The lines of a document: a block is one, inline nodes share one up to its width.
DocumentLineGroups(g, document) ==
  LET Length(group) == MapThenSumSet(LAMBDA i : Len(g.nodes[group[i]].said) + 1, DOMAIN group) - 1
      Joins(groups, o) ==
        /\ groups # <<>>
        /\ ~DocumentBlockNode(g, g.nodes[Head(Last(groups))]) /\ ~DocumentBlockNode(g, g.nodes[o])
        /\ Length(Append(Last(groups), o)) <= virtualLineWidth
      Add(groups, o) ==
        IF ~InDocument(g, o, document) \/ ~LineNode(g, g.nodes[o]) THEN groups
        ELSE IF Joins(groups, o) THEN Append(Front(groups), Append(Last(groups), o))
        ELSE Append(groups, <<o>>)
      lines[i \in Nat] == IF i = 0 THEN <<>> ELSE Add(lines[i - 1], g.order[i])
  IN lines[Len(g.order)]

\* The first node of the line before or after the first line that holds the object,
\* one of its ancestors or one of its descendants.
MoveDocumentLine(g, o, direction) ==
  LET groups == IF DocumentRoot(g, o) = Nothing THEN <<>> ELSE g.lines[DocumentRoot(g, o)]
      Around(i) == \E x \in ToSet(groups[i]) : IsDescendantOf(g, o, x) \/ IsDescendantOf(g, x, o)
      here == {i \in 1..Len(groups) : Around(i)}
  IN IF here = {} \/ Min(here) + direction \notin 1..Len(groups) THEN Nothing
     ELSE Head(groups[Min(here) + direction])

FirstDocumentBrowseNode(g, document) ==
  IF Index(g, document) = 0 THEN Nothing
  ELSE Nearest(g, Index(g, document), 1,
               PlacesIn(g, document, {x \in DOMAIN g.nodes :
                                        /\ g.nodes[x].said # <<>>
                                        /\ g.nodes[x].role \notin Documents \cup {"landmark"}}))

Containers == {"list", "table", "article", "section", "grouping", "landmark", "blockquote",
               "menu", "tree", "page tab list"}
TableCells == {"table cell", "cell", "row header", "column header"}

ContainingTable(g, o) ==
  LET cell == Containing(g, o, TableCells)
  IN IF cell # Nothing /\ g.nodes[cell].table # Nothing THEN g.nodes[cell].table
     ELSE Containing(g, o, {"table"})

\* The places of the cells of a table.
CellsOf(g, table) ==
  {i \in 1..Len(g.order) : \E n \in {g.nodes[g.order[i]]} :
     /\ n.role \in TableCells /\ n.row >= 1 /\ n.column >= 1
     /\ ContainingTable(g, g.order[i]) = table}

Covers(n, row, column) ==
  row \in n.row..n.row + n.rowSpan - 1 /\ column \in n.column..n.column + n.columnSpan - 1

\* The cells of a table by position: the first in reading order, where two claim it.  The
\* counts a table states itself add positions without a cell and change no move.
Grid(g, table) ==
  LET cells == {g.nodes[g.order[i]] : i \in CellsOf(g, table)}
      At(row, column) ==
        LET here == {i \in CellsOf(g, table) : Covers(g.nodes[g.order[i]], row, column)}
        IN IF here = {} THEN Nothing ELSE g.order[Min(here)]
      rows == Max({0} \cup {n.row + n.rowSpan - 1 : n \in cells})
      columns == Max({0} \cup {n.column + n.columnSpan - 1 : n \in cells})
  IN [rows |-> rows, columns |-> columns,
      at |-> [position \in (1..rows) \X (1..columns) |-> At(position[1], position[2])]]

CellAt(g, table, row, column) ==
  IF row \in 1..g.tables[table].rows /\ column \in 1..g.tables[table].columns
    THEN g.tables[table].at[<<row, column>>] ELSE Nothing

PositionedCells(g, table) ==
  {p \in DOMAIN g.tables[table].at : g.tables[table].at[p] # Nothing}

\* The first cell row by row, or the last.
EdgeCell(g, table, direction) ==
  LET IsFirst(p) == \A q \in PositionedCells(g, table) :
        direction * (q[1] - p[1]) > 0 \/ (q[1] = p[1] /\ direction * (q[2] - p[2]) >= 0)
  IN g.tables[table].at[CHOOSE p \in PositionedCells(g, table) : IsFirst(p)]

-----------------------------------------------------------------------------
(* A new graph.  Its nodes also have what the commands ask of them time and again. *)

TextUnits == {"character", "word", "line"}
UnitsOf(t) == [unit \in TextUnits |-> TextUnitRanges(t, unit)]

\* What is reviewed and searched.
ReadableText(n) == IF NavigableText(n) # <<>> THEN NavigableText(n) ELSE SpokenContent(n)

Also(n, facts) ==
  [field \in DOMAIN n \cup DOMAIN facts |-> IF field \in DOMAIN facts THEN facts[field] ELSE n[field]]

\* An object's simple parent is its first ancestor with a meaning.
Described(nodes, order, up, o) ==
  LET n == nodes[o]
      documents == {i \in DOMAIN up : nodes[up[i]].role \in Documents}
      above == {i \in DOMAIN up \ {1} : Semantic(nodes[up[i]])}
  IN Also(n, [up |-> up, place |-> Max({0} \cup {i \in 1..Len(order) : order[i] = o}),
              document |-> IF documents = {} THEN Nothing ELSE up[Max(documents)],
              above |-> IF above = {} THEN Nothing ELSE up[Min(above)],
              said |-> SpokenContent(n),
              navigable |-> NavigableText(n), units |-> UnitsOf(NavigableText(n)),
              readable |-> ReadableText(n), readableUnits |-> UnitsOf(ReadableText(n))])

NewGraph(root, nodes) ==
  LET walked == Walk(root, nodes)[Cardinality(DOMAIN nodes)]
      up == PathsUp(nodes)[depthLimit]
      read == [o \in DOMAIN nodes |-> IF o \in walked.redacted THEN RedactedContentCopy(nodes[o])
                                                               ELSE nodes[o]]
      g == [root |-> root, order |-> walked.order,
            nodes |-> [o \in DOMAIN nodes |-> Described(read, walked.order, up[o], o)]]
  IN [root |-> root, order |-> g.order, nodes |-> g.nodes,
      lines |-> [o \in DOMAIN nodes |-> DocumentLineGroups(g, o)],
      tables |-> [o \in DOMAIN nodes \cup {Nothing} |-> Grid(g, o)]]
=============================================================================
