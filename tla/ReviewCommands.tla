---------------------------- MODULE ReviewCommands ----------------------------
(***************************************************************************)
(* The commands of the navigator, the review cursor, the mouse and the     *)
(* braille display (internal/engine/engine.go).  Each first repairs what it *)
(* starts from, and keeps the repair even when it then finds nothing.      *)
(***************************************************************************)
EXTENDS CursorState

CONSTANT brailleCells      \* by how much the display pans

ASSUME BrailleAssumption == brailleCells \in Nat \ {0}

AheadOrBack(d) == IF d > 0 THEN "reviewNext" ELSE "reviewPrevious"

-----------------------------------------------------------------------------
(* Objects: the tree without what has no meaning *)

SimpleObjectParent(o) == NodeOf(o).above

SimpleObjectChildren(o) == SelectSeq(graph.order, LAMBDA x : SimpleObjectParent(x) = o)

FirstSimpleObjectChild(o) ==
  IF SimpleObjectChildren(o) = <<>> THEN Nothing ELSE Head(SimpleObjectChildren(o))

SimpleObjectSibling(o, d) ==
  LET siblings == SimpleObjectChildren(SimpleObjectParent(o))
      to == {i \in 1..Len(siblings) : i - d \in 1..Len(siblings) /\ siblings[i - d] = o}
  IN IF SimpleObjectParent(o) = Nothing \/ to = {} THEN Nothing
     ELSE siblings[CHOOSE i \in to : TRUE]

\* Where an object command starts from.
CurrentObject ==
  CASE InGraph(navigator) -> navigator
    [] ~InGraph(navigator) /\ InGraph(focus) -> focus
    [] ~InGraph(navigator) /\ ~InGraph(focus) /\ InGraph(cursor.object) -> cursor.object
    [] OTHER -> InitialCursor(graph)

ObjectTarget(o, to, d) ==
  CASE to = "containing" -> SimpleObjectParent(o)
    [] to = "sibling" -> SimpleObjectSibling(o, d)
    [] to = "flat" -> Move(graph, o, d, 1..Len(graph.order))
    [] to = "inside" -> FirstSimpleObjectChild(o)
    [] to = "focus" -> IF InGraph(focus) THEN focus ELSE Nothing
    [] to = "current" -> Nothing

\* A target takes the review cursor with it.
ObjectCommand(to, d) ==
  /\ \E o \in {CurrentObject} : \E target \in {ObjectTarget(o, to, d)} :
       /\ navigator' = IF target = Nothing THEN o ELSE target
       /\ review' = IF target = Nothing /\ InGraph(review.object) THEN review
                    ELSE ReviewStart(navigator')
  /\ last' = "object"
  /\ UNCHANGED <<graphVars, browseVars, focusVars, copyStart, selection, tether, brailleOffset,
                 mouse, locks, workload>>

-----------------------------------------------------------------------------
(* Review *)

InText(offset, t) == offset < Len(t) \/ (offset = Len(t) /\ t # <<>> /\ Last(t) = "\n")

ReviewObjects ==
  IF InGraph(review.object) THEN {review.object} ELSE {navigator} \cap DOMAIN graph.nodes

\* Variant: the offset is never checked again.
ReviewOffsetKept(o) == IF o = review.object THEN review.offset ELSE 0

\* An offset that the text no longer has becomes its last.
ReviewOffset(o) ==
  LET offset == IF o = review.object THEN review.offset ELSE 0
      text == NodeOf(o).readable
  IN IF text = <<>> \/ InText(offset, text) THEN offset ELSE Len(text) - 1

\* Where the review commands start from: at most one place.
Reviewed == {At(o, ReviewOffset(o)) : o \in ReviewObjects}

TextAt(place) == NodeOf(place.object).readable
ReviewAt(place, offset) == [object |-> place.object, offset |-> offset, mode |-> review.mode]

\* A range is reviewed at its start; without one the repair remains.
Review(place, range, how) ==
  /\ review' = ReviewAt(place, IF range = NoRange THEN place.offset ELSE range.start)
  /\ last' = how
  /\ UNCHANGED <<graphVars, browseVars, focusVars, navigator, copyStart, selection, tether,
                 brailleOffset, mouse, locks, workload>>

\* Every command stops at a text that is empty.
ReviewEmpty == \E place \in Reviewed : TextAt(place) = <<>> /\ Review(place, NoRange, "boundary")

ReviewedText == {place \in Reviewed : TextAt(place) # <<>>}

RangeAt(place, unit) ==
  TextRangeAt(NodeOf(place.object).readableUnits[unit], place.offset, unit)

ReviewEdge(d) ==
  \E place \in ReviewedText : \E lines \in {NodeOf(place.object).readableUnits.line} :
    Review(place, IF d < 0 THEN FirstRange(lines) ELSE LastRange(lines), "review")

\* The end of an empty last line is a character of its own.
ReviewCurrent(unit) ==
  \E place \in ReviewedText :
    Review(place, IF unit = "character" THEN CharacterRange(TextAt(place), place.offset)
                  ELSE RangeAt(place, unit), "review")

\* A character is looked for in its line only, and stays; a line without one is itself.
ReviewCharacter(d) ==
  \E place \in ReviewedText : \E line \in {RangeAt(place, "line")} :
    IF place.offset + d \in line.start..line.end - 1
      THEN Review(place, CharacterRange(TextAt(place), place.offset + d), AheadOrBack(d))
      ELSE Review(place, IF line.start = line.end THEN line
                         ELSE CharacterRange(TextAt(place), place.offset), "review")

ReviewMove(unit, d) ==
  LET Found(place) == MoveTextUnit(NodeOf(place.object).readableUnits[unit], place.offset, d)
  IN \E place \in ReviewedText : \E found \in {Found(place)} :
       IF found # NoRange THEN Review(place, found, AheadOrBack(d))
       ELSE Review(place, RangeAt(place, unit), "review")

ReviewLineEdge(d) ==
  \E place \in ReviewedText : \E line \in {RangeAt(place, "line")} :
    LET offset == IF d < 0 THEN line.start ELSE Max({line.start, line.end - 1})
    IN Review(place, IF line.start = line.end THEN line ELSE CharacterRange(TextAt(place), offset),
              "review")

ReviewSelectionEdge(d) ==
  \E place \in ReviewedText : \E selected \in {NodeOf(place.object).selection} :
    Review(place, IF selected.end <= selected.start THEN NoRange
                  ELSE CharacterRange(TextAt(place), IF d < 0 THEN selected.start ELSE selected.end - 1),
           "review")

SetReviewCopyStart ==
  \E place \in ReviewedText :
    /\ review' = ReviewAt(place, place.offset)
    /\ copyStart' = place
    /\ selection' = NoSelection
    /\ last' = "review"
    /\ UNCHANGED <<graphVars, browseVars, focusVars, navigator, tether, brailleOffset, mouse, locks, workload>>

MoveToReviewCopyStart ==
  \E place \in ReviewedText :
    LET offset == Min({copyStart.offset, Len(TextAt(place)) - 1})
    IN Review(place, IF copyStart.object = place.object THEN CharacterRange(TextAt(place), offset)
                     ELSE NoRange, "review")

\* The application may refuse the selection.
CopyToReviewPosition ==
  LET Selected(place) ==
        [object |-> place.object, start |-> Min({copyStart.offset, place.offset}),
         end |-> Min({Max({copyStart.offset, place.offset}) + 1, Len(TextAt(place))})]
  IN \E place \in ReviewedText :
       /\ copyStart.object = place.object
       /\ review' = ReviewAt(place, place.offset)
       /\ selection' \in {Selected(place), selection}
       /\ last' = "review"
       /\ UNCHANGED <<graphVars, browseVars, focusVars, navigator, copyStart, tether, brailleOffset,
                      mouse, locks, workload>>

ReviewModes == <<"object", "document", "screen">>

SwitchReviewMode(d) ==
  LET to == {i \in 1..3 : i - d \in 1..3 /\ ReviewModes[i - d] = review.mode}
  IN \E place \in ReviewedText :
       /\ review' = [ReviewAt(place, place.offset) EXCEPT
                       !.mode = IF to = {} THEN @ ELSE ReviewModes[CHOOSE i \in to : TRUE]]
       /\ last' = "review"
       /\ UNCHANGED <<graphVars, browseVars, focusVars, navigator, copyStart, selection, tether,
                      brailleOffset, mouse, locks, workload>>

-----------------------------------------------------------------------------
(* Mouse: points of a line, and the objects that cover them *)

Centre(n) == (Min(n.box) + Max(n.box)) \div 2

\* Where the mouse goes by itself: the middle of the first of these that is known, if it has one.
Located ==
  LET known == SelectSeq(<<navigator, focus, cursor.object>>, InGraph)
  IN IF known = <<>> THEN {} ELSE {Centre(n) : n \in {m \in {NodeOf(Head(known))} : m.box # {}}}

\* Any command of the mouse first gives it a position.
MousePoints == IF mouse = NoPoint /\ Located # {} THEN Located ELSE {mouse}

\* The last in reading order is the innermost.
ObjectAtPoint(point) ==
  LET covering == {i \in 1..Len(graph.order) : point \in NodeOf(graph.order[i]).box}
  IN IF covering = {} THEN Nothing ELSE graph.order[Max(covering)]

Mouse(point, to, locked) ==
  /\ mouse' = point /\ locks' = locked
  /\ navigator' = IF to = Nothing THEN navigator ELSE to
  /\ review' = IF to = Nothing THEN review ELSE [object |-> to, offset |-> 0, mode |-> "object"]
  /\ last' = "object"
  /\ UNCHANGED <<graphVars, browseVars, focusVars, copyStart, selection, tether, brailleOffset, workload>>

MoveMouseToNavigatorObject ==
  \E point \in IF Located = {} THEN {mouse} ELSE Located : Mouse(point, Nothing, locks)

MoveNavigatorToMouseObject ==
  \E point \in MousePoints : \E o \in {ObjectAtPoint(point)} : Mouse(point, o, locks)

\* A click; and a lock, which is turned even where the mouse is nowhere.
MouseClick == \E point \in MousePoints : Mouse(point, Nothing, locks)
MouseLock(button) ==
  \E point \in MousePoints :
    Mouse(point, Nothing, IF button \in locks THEN locks \ {button} ELSE locks \cup {button})

-----------------------------------------------------------------------------
(* Braille *)

Tethers == <<"auto", "focus", "review">>

BrailleToggleTether ==
  /\ tether' = Tethers[((CHOOSE i \in 1..3 : Tethers[i] = tether) % 3) + 1]
  /\ brailleOffset' = 0
  /\ last' = "other"
  /\ UNCHANGED <<graphVars, browseVars, focusVars, navigator, review, copyStart, selection, mouse,
                 locks, workload>>

\* The object on the display: at most one.
BrailleSources ==
  LET tethered == IF tether = "focus" \/ (tether = "auto" /\ focus # Nothing) THEN focus
                  ELSE review.object
  IN IF InGraph(tethered) THEN {tethered} ELSE {navigator} \cap DOMAIN graph.nodes

\* The display takes the review cursor with it to a line, and with a route the browse cursor.
Braille(at, pan, browses, how) ==
  /\ review' = [object |-> at.object, offset |-> at.offset, mode |-> review.mode]
  /\ brailleOffset' = pan
  /\ cursor' = IF browses THEN at ELSE cursor
  /\ last' = how
  /\ UNCHANGED <<graphVars, mode, singleLetter, findQuery, leaving, focusVars, navigator, copyStart,
                 selection, tether, mouse, locks, workload>>

\* The start of the line next to the offset of the review cursor, wherever that is.
BrailleLine(o, d) ==
  LET found == MoveTextUnit(NodeOf(o).units.line, review.offset, d)
  IN IF found # NoRange THEN found.start
     ELSE TextRangeAt(NodeOf(o).units.line, review.offset, "line").start

Panned(d, width) ==
  IF d < 0 THEN Max({0, brailleOffset - brailleCells})
  ELSE IF width = 0 THEN brailleOffset ELSE Min({width - 1, brailleOffset + brailleCells})

BraillePan(d) ==
  \E o \in BrailleSources :
    IF "\n" \in ToSet(NodeOf(o).navigable)
      THEN \E line \in {BrailleLine(o, d)} : Braille(At(o, line), line, FALSE, "review")
      ELSE Braille(At(review.object, review.offset), Panned(d, Len(NodeOf(o).said)), FALSE, "other")

BrailleMoveLine(d) ==
  \E o \in BrailleSources : \E line \in {BrailleLine(o, d)} : Braille(At(o, line), 0, FALSE, "review")

BrailleRoute(cell) ==
  \E o \in BrailleSources :
    LET offset == Min({brailleOffset + cell, Max({0, Len(NodeOf(o).navigable) - 1})})
    IN Braille(At(o, offset), brailleOffset, TRUE, "review")
=============================================================================
