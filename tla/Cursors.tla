-------------------------------- MODULE Cursors --------------------------------
(* All cursors of the engine, the commands that move them, and a page that changes. *)
EXTENDS BrowseCommands, ReviewCommands

\* Commands and native events wait for each other at commandGate; a refresh does not.
Runs(command) == leaving = Nothing /\ command \in workload.commands

Directions == {-1, 1}

QuickNavigation == \E target \in workload.targets, d \in Directions : Navigate(target, d)

TextCommand ==
  /\ Runs("text")
  /\ \/ \E unit \in {"character", "word", "line", "paragraph"}, d \in Directions : MoveText(unit, d)
     \/ DocumentStart
     \/ DocumentEnd

ContainerCommand == Runs("container") /\ (MoveToContainerStart \/ MovePastContainerEnd)

TableCommand ==
  /\ Runs("table")
  /\ \/ \E axis \in {"row", "column"}, d \in Directions, toEdge \in BOOLEAN :
          NavigateTable(axis, d, toEdge)
     \/ \E axis \in {"row", "column"} : SayAllTable(axis)

FindCommand ==
  /\ Runs("find")
  /\ \/ \E query \in workload.queries : Find(query)
     \/ \E d \in Directions : FindAgain(d)

ModeCommands == Runs("mode") /\ (Escape \/ ToggleFocusMode \/ ToggleSingleLetterNavigation)

ObjectCommands ==
  /\ Runs("object")
  /\ \/ \E to \in {"containing", "inside", "focus", "current"} : ObjectCommand(to, 0)
     \/ \E to \in {"sibling", "flat"}, d \in Directions : ObjectCommand(to, d)

ReviewCommand ==
  /\ Runs("review")
  /\ \/ \E d \in Directions : ReviewEdge(d) \/ ReviewLineEdge(d) \/ ReviewSelectionEdge(d)
     \/ \E unit \in TextUnits : ReviewCurrent(unit)
     \/ \E d \in Directions : ReviewCharacter(d) \/ \E unit \in {"word", "line"} : ReviewMove(unit, d)
     \/ ReviewEmpty

CopyCommand ==
  Runs("copy") /\ (SetReviewCopyStart \/ MoveToReviewCopyStart \/ CopyToReviewPosition)

ReviewModeCommand == Runs("reviewMode") /\ \E d \in Directions : SwitchReviewMode(d)

MouseCommand ==
  /\ Runs("mouse")
  /\ \/ MoveMouseToNavigatorObject \/ MoveNavigatorToMouseObject \/ MouseClick
     \/ \E button \in {"left", "right"} : MouseLock(button)

BrailleCommand ==
  /\ Runs("braille")
  /\ \/ \E d \in Directions : BraillePan(d) \/ BrailleMoveLine(d)
     \/ \E cell \in workload.cells : BrailleRoute(cell)
     \/ BrailleToggleTether

FocusEvent ==
  /\ Runs("focus")
  /\ \E o \in workload.objects :
       \/ \E v, w \in workload.trees : HandleFocus(o, v, w)
       \/ HandleDocument(o)

Next ==
  \/ \E v \in workload.trees : Refresh(v)
  \/ FocusEvent
  \/ Runs("navigate") /\ QuickNavigation
  \/ TextCommand
  \/ ContainerCommand
  \/ TableCommand
  \/ FindCommand
  \/ Runs("exit") /\ ExitEmbeddedObject
  \/ LeaveEmbeddedObject
  \/ ModeCommands
  \/ ObjectCommands
  \/ ReviewCommand
  \/ CopyCommand
  \/ ReviewModeCommand
  \/ MouseCommand
  \/ BrailleCommand

Spec == Init /\ [][Next]_vars

-----------------------------------------------------------------------------
(* Properties *)

BrowseMoves == {"next", "previous", "nextLine", "previousLine", "past", "within", "around", "boundary"}

\* The container, the table and the table of the cell around the cursor are in the document.
Enclosed(document) ==
  /\ \A o \in {Containing(graph, cursor.object, Containers), ContainingTable(graph, cursor.object)} :
       o # Nothing => DocumentRoot(graph, o) = document
  /\ \A cell \in {Containing(graph, cursor.object, TableCells)} :
       cell # Nothing => DocumentRoot(graph, ContainingTable(graph, cell)) = document

\* A browse command leaves the cursor on an object of the page, and in the document it
\* was in: other tabs, the browser's own controls and documents around an embedded one
\* differ for every command (model.go:315-350, engine.go:763-1958).  Left out are the
\* commands to a container or table of the browser around the page, and those within the
\* cells without a table, which are one grid whatever document they are in.
BrowseStaysInDocument ==
  [][LET document == DocumentRoot(graph, cursor.object)
     IN last' \in BrowseMoves /\ document # Nothing /\ (last' = "around" => Enclosed(document)) =>
          InGraph(cursor'.object) /\ DocumentRoot(graph, cursor'.object) = document]_vars

Place(c) == Index(graph, c.object)

Beyond(d, from, to) ==
  \/ d * (Place(to) - Place(from)) > 0
  \/ to.object = from.object /\ d * (to.offset - from.offset) > 0

InsideLine(o) == \E x \in ToSet(Up(graph, o)) \ {o} : LineNode(graph, NodeOf(x))

\* A command that goes forward or backward and finds something goes there: repeating it
\* can neither stay nor come back (engine.go:963-1109, 2561-2607), nor can the review
\* cursor in the lines of a text (engine.go:1529-1530).  Left out are a cursor or a container
\* outside the reading order, lines from within another line, and the previous table.
CursorsAdvance ==
  [][/\ Place(cursor) # 0 =>
          /\ last' = "next" => Beyond(1, cursor, cursor')
          /\ last' = "previous" => Beyond(-1, cursor, cursor')
          /\ last' = "past" /\ Index(graph, Containing(graph, cursor.object, Containers)) # 0 =>
               Beyond(1, cursor, cursor')
          /\ ~InsideLine(cursor.object) =>
               /\ last' = "nextLine" => Beyond(1, cursor, cursor')
               /\ last' = "previousLine" => Beyond(-1, cursor, cursor')
     /\ \A place \in Reviewed :
          /\ last' = "reviewNext" => review'.offset > place.offset
          /\ last' = "reviewPrevious" => review'.offset < place.offset]_vars

\* A refresh leaves every cursor on the new page.  The browse cursor keeps an object that
\* is still there; otherwise it goes to the one object that is the same, in a document of
\* the name of its own, to that document, or, without one, to the start (engine.go:223-335).
\* Of several documents of that name it may choose another than the object is in.
RefreshKeepsPlace ==
  [][last' = "refresh" =>
       LET new == graph'
           old == DocumentRoot(graph, cursor.object)
           namesakes == {x \in ToSet(new.order) :
                           /\ old # Nothing /\ new.nodes[x].role \in Documents
                           /\ new.nodes[x].name = NodeOf(old).name}
           same == {o \in ToSet(new.order) : /\ DocumentRoot(new, o) \in namesakes
                                             /\ SameSemanticNode(NodeOf(cursor.object), new.nodes[o])}
       IN /\ {cursor'.object, navigator', review'.object} \subseteq DOMAIN new.nodes
          /\ Has(new, cursor.object) => cursor' = cursor
          /\ ~Has(new, cursor.object) =>
               /\ cursor'.offset = 0
               /\ IF namesakes # {} THEN cursor'.object \in namesakes \cup same
                                    ELSE cursor'.object = InitialCursor(new)
               /\ cursor.object # old /\ Cardinality(namesakes) = 1 /\ Cardinality(same) = 1 =>
                    cursor'.object \in same]_vars

\* After a review or braille command the review cursor is at a character of the text it
\* reads, or on its empty last line, however the text changed since it was placed; and a
\* selection is a range of that text (engine.go:1368-1549, 1838-1907).
ReviewInText ==
  [][last' \in {"review", "reviewNext", "reviewPrevious"} =>
       LET text == NodeOf(review'.object).readable
       IN /\ text # <<>> => InText(review'.offset, text)
          /\ selection' \notin {selection, NoSelection} =>
               /\ selection'.object = review'.object
               /\ 0 <= selection'.start /\ selection'.start <= selection'.end
               /\ selection'.end <= Len(text)]_vars
=============================================================================
