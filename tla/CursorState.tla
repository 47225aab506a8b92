----------------------------- MODULE CursorState -----------------------------
(***************************************************************************)
(* internal/engine/engine.go: the cursors of the screen reader and the     *)
(* page below them.  The browse cursor reads a document, the navigator and *)
(* the review cursor inspect objects and their text, the focus is the      *)
(* browser's.  The page changes; a refresh replaces the graph and carries  *)
(* the cursors over, a focus event moves them.                             *)
(*                                                                         *)
(* A command decides and moves under one section of mu and is one action;  *)
(* the two that call the browser in between are two.  When the graph is    *)
(* refreshed is GraphRefresh's matter: here it may be at any moment, to    *)
(* any tree the page had.                                                  *)
(***************************************************************************)
EXTENDS DocumentGraph

CONSTANTS Trees,      \* [root, nodes] by name: the page at different moments
          Workloads   \* bound: which trees and which commands one behaviour has

\* What the application tells of an object among others.
Node(objects) ==
  [parent : objects \cup {Nothing}, children : Seq(objects), role : STRING, name : Seq(STRING),
   text : Seq(STRING), marks : SUBSET STRING, style : STRING, x : Int, box : SUBSET Int,
   row : Int, column : Int, rowSpan : Int, columnSpan : Int, table : objects \cup {Nothing},
   selection : [start : Int, end : Int], caret : Int, id : STRING]

\* A tree is what a traversal from its root found: finite, since it stops at 100000 objects,
\* and no deeper than the limit, where it fails; the parent of an object is the one that
\* lists it (client.go:205-253).  That no other does is the browser's.
ASSUME TreesAssumption ==
  \A v \in DOMAIN Trees : \E root \in {Trees[v].root}, nodes \in {Trees[v].nodes} :
    /\ IsFiniteSet(DOMAIN nodes) /\ Nothing \notin DOMAIN nodes
    /\ root \in DOMAIN nodes /\ nodes[root].parent = Nothing
    /\ \A o \in DOMAIN nodes :
         /\ nodes[o] \in Node(DOMAIN nodes)
         /\ \A c \in ToSet(nodes[o].children) : nodes[c].parent = o
         /\ Len(PathsUp(nodes)[depthLimit][o]) < depthLimit

\* A cell that names its table is in that table, as the browser has it.
ASSUME TablesAssumption ==
  \A v \in DOMAIN Trees : \A o \in DOMAIN Trees[v].nodes : \E n \in {Trees[v].nodes[o]} :
    n.role \in TableCells /\ n.table # Nothing =>
      n.table # o /\ n.table \in ToSet(PathsUp(Trees[v].nodes)[depthLimit][o])

ASSUME WorkloadAssumption ==
  \A w \in Workloads :
    /\ w.trees # {} /\ w.trees \subseteq DOMAIN Trees
    /\ w.queries \subseteq Seq(STRING) /\ w.cells \subseteq Nat

VARIABLES graph,              \* what the commands know of the page
          version,            \* the tree that the graph was read from
          cursor,             \* the browse cursor: object and offset
          mode,               \* browse or focus
          singleLetter, findQuery,
          navigator, focus, webContentFocused,
          review,             \* the review cursor: object, offset and mode
          copyStart,          \* reviewCopyStart, of Nothing when it is not set
          selection,          \* reviewSelection, of Nothing when it is not set
          tether, brailleOffset,
          mouse, locks,       \* a point or none, and the buttons that are locked
          leaving,            \* the document whose focus exitEmbeddedObject awaits
          last,               \* history: what the last step was
          workload            \* the trees and commands; it never changes

browseVars == <<cursor, mode, singleLetter, findQuery, leaving>>
reviewVars == <<navigator, review, copyStart, selection, tether, brailleOffset, mouse, locks>>
focusVars == <<focus, webContentFocused>>
graphVars == <<graph, version>>
vars == <<graphVars, browseVars, reviewVars, focusVars, last, workload>>

Graphs == [v \in DOMAIN Trees |-> NewGraph(Trees[v].root, Trees[v].nodes)]
NodeOf(o) == graph.nodes[o]
InGraph(o) == Has(graph, o)

Start(o) == [object |-> o, offset |-> 0]
At(o, offset) == [object |-> o, offset |-> offset]
ReviewStart(o) == [object |-> o, offset |-> 0, mode |-> review.mode]
NoSelection == [object |-> Nothing, start |-> 0, end |-> 0]
NoPoint == 0

\* After the refresh of the start.
Init ==
  /\ workload \in Workloads
  /\ version \in workload.trees
  /\ graph = Graphs[version]
  /\ cursor = Start(InitialCursor(graph))
  /\ navigator = cursor.object
  /\ review = [object |-> cursor.object, offset |-> 0, mode |-> "object"]
  /\ mode = "browse" /\ singleLetter = TRUE /\ findQuery = <<>>
  /\ focus = Nothing /\ webContentFocused = FALSE
  /\ copyStart = Start(Nothing) /\ selection = NoSelection
  /\ tether = "auto" /\ brailleOffset = 0 /\ mouse = NoPoint /\ locks = {}
  /\ leaving = Nothing /\ last = "none"

-----------------------------------------------------------------------------
(* Refresh *)

SameSemanticNode(a, b) ==
  a.role = b.role /\ a.name = b.name /\ a.id = b.id

MatchingDocument(new, old) ==
  BestDocument(new, {x \in DOMAIN new.nodes : new.nodes[x].name = old.name})

\* The objects of the new graph that are an old one.
Same(old, new, o) == {x \in DOMAIN new.nodes : SameSemanticNode(old.nodes[o], new.nodes[x])}

\* Variant: to an object that is the same, in whichever document.
RemapAnywhere(old, new, o) ==
  LET same == Places(new, Same(old, new, o))
  IN IF Has(old, o) /\ Cardinality(same) = 1 THEN new.order[CHOOSE i \in same : TRUE]
     ELSE InitialCursor(new)

\* Where a cursor goes whose object is gone: the one node that is the same, or the document.
RemapCursor(old, new, o) ==
  LET document == DocumentRoot(old, o)
      found == IF document = Nothing THEN Nothing
               ELSE MatchingDocument(new, old.nodes[document])
      candidates == PlacesIn(new, found, Same(old, new, o))
  IN IF found = Nothing THEN InitialCursor(new)
     ELSE IF o # document /\ Cardinality(candidates) = 1
       THEN new.order[CHOOSE i \in candidates : TRUE]
       ELSE found

\* The cursors in a new graph.
Refreshed(new) ==
  LET Carried(o) == IF Has(new, o) THEN o ELSE RemapCursor(graph, new, o)
  IN [cursor |-> IF Has(new, cursor.object) THEN cursor ELSE Start(Carried(cursor.object)),
      navigator |-> Carried(navigator),
      review |-> IF Has(new, navigator) /\ Has(new, review.object) THEN review
                 ELSE ReviewStart(Carried(navigator))]

Refresh(v) ==
  /\ version' = v /\ graph' = Graphs[v]
  /\ \E to \in {Refreshed(graph')} :
       cursor' = to.cursor /\ navigator' = to.navigator /\ review' = to.review
  /\ last' = "refresh"
  /\ UNCHANGED <<mode, singleLetter, findQuery, leaving, copyStart, selection, tether,
                 brailleOffset, mouse, locks, focusVars, workload>>

-----------------------------------------------------------------------------
(* Focus *)

\* A cycle in the parents ends at no document, as after 512 steps.
HasDocumentAncestor(g, o) == Containing(g, o, Documents) # Nothing

NodeLooksLikeWebContent(n) == "web" \in n.marks

FocusModeTarget(g, n) ==
  \/ "editable" \in n.marks
  \/ n.role \in {"entry", "password text", "combo box", "list box", "tree", "tree table",
                 "spin button", "slider"}
  \/ \E o \in ToSet(Up(g, n.parent)) :
       g.nodes[o].role = "application" \/ "application" \in g.nodes[o].marks

\* The focus goes to an object, read from tree v.  If the graph does not hold it, one
\* refresh, of tree w, is tried; w is the old one if that fails.  What is read has no
\* parent, so that an application around the object is not seen.
HandleFocus(o, v, w) ==
  LET Read == IF w # version /\ Has(Trees[w], o) THEN Trees[w].nodes[o] ELSE Trees[v].nodes[o]
      Text(g, n) == NavigableText(IF Has(g, o) /\ "redacted" \in g.nodes[o].marks
                                    THEN RedactedContentCopy(n) ELSE n)
      Web(g, n) == \/ n.role \in Documents
                   \/ Has(g, o) /\ HasDocumentAncestor(g, o)
                   \/ ~Has(g, o) /\ NodeLooksLikeWebContent(n)
  IN /\ Has(Trees[v], o)
     /\ InGraph(o) => w = version
     /\ version' = w /\ graph' = IF w = version THEN graph ELSE Graphs[w]
     /\ \E n \in {Read} : \E text \in {Text(graph', n)}, web \in {Web(graph', n)},
           here \in {IF w = version THEN cursor ELSE Refreshed(graph').cursor} :
          LET focusMode == n.role \notin Documents /\ web /\ FocusModeTarget(graph', [n EXCEPT !.parent = Nothing])
              keeps == n.role \in Documents /\ InDocument(graph', here.object, o)
          IN /\ webContentFocused' = web
             /\ mode' = IF focusMode THEN "focus" ELSE "browse"
             /\ cursor' = IF /\ web /\ ~keeps
                             /\ n.role \in Documents \/ focusMode \/ "focusable" \in n.marks
                            THEN Start(o) ELSE here
             /\ review' = [object |-> o, offset |-> Max({0, Min({n.caret, Len(text) - 1})}),
                           mode |-> "object"]
     /\ focus' = o /\ navigator' = o
     /\ IF copyStart.object \notin {o, Nothing}
          THEN copyStart' = Start(Nothing) /\ selection' = NoSelection
          ELSE UNCHANGED <<copyStart, selection>>
     /\ brailleOffset' = 0
     /\ last' = "focus"
     /\ UNCHANGED <<singleLetter, findQuery, leaving, tether, mouse, locks, workload>>

\* A document event names its document and reads nothing.
HandleDocument(o) ==
  /\ focus' = o /\ webContentFocused' = TRUE
  /\ last' = "focus"
  /\ UNCHANGED <<graphVars, browseVars, reviewVars, workload>>

-----------------------------------------------------------------------------
(* Modes *)

ModeCommand(set, letter) ==
  /\ mode' = set /\ singleLetter' = letter
  /\ last' = "other"
  /\ UNCHANGED <<graphVars, cursor, findQuery, leaving, reviewVars, focusVars, workload>>

Escape == ModeCommand("browse", singleLetter)
ToggleFocusMode == ModeCommand(IF mode = "browse" THEN "focus" ELSE "browse", singleLetter)
ToggleSingleLetterNavigation == ModeCommand(mode, ~singleLetter)
=============================================================================
