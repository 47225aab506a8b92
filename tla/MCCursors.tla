------------------------------- MODULE MCCursors -------------------------------
(* Four pages: documents in documents and tabs, texts, a table, and boxes on a screen.  *)
(* The first two change.                                                               *)
EXTENDS Cursors

\* A node by role and name, with whatever else it has.
N(role, name) ==
  [parent |-> Nothing, children |-> <<>>, role |-> role, name |-> name, text |-> <<>>,
   marks |-> {}, style |-> "", x |-> 0, box |-> {}, row |-> 0, column |-> 0, rowSpan |-> 1,
   columnSpan |-> 1, table |-> Nothing, selection |-> [start |-> 0, end |-> 0], caret |-> 0,
   id |-> ""]
T(role, text) == [N(role, <<>>) EXCEPT !.text = text]
With(n, marks) == [n EXCEPT !.marks = marks]
Of(n, children) == [n EXCEPT !.children = children]
Cell(n, row, column, columnSpan) ==
  [n EXCEPT !.row = row, !.column = column, !.columnSpan = columnSpan, !.table = "t"]

\* Parents follow from children.
Tree(root, nodes) ==
  LET Parent(o) == {p \in DOMAIN nodes : o \in ToSet(nodes[p].children)}
  IN [root |-> root,
      nodes |-> [o \in DOMAIN nodes |->
                   [nodes[o] EXCEPT !.parent = IF Parent(o) = {} THEN Nothing
                                               ELSE CHOOSE p \in Parent(o) : TRUE]]]

-----------------------------------------------------------------------------
(* Two tabs under the controls of the browser, and a document in a document *)

Page(name) == With(N("document web", name), {"showing", "focused"})
Hidden == N("document web", <<"o">>)

Tabs ==
  [w |-> Of(N("frame", <<>>), <<"b", "d", "e">>),
   b |-> N("push button", <<"k">>),
   d |-> Of(Page(<<"p">>), <<"h", "g", "p", "l", "m">>),
   h |-> [With(N("heading", <<"t">>), {"heading1"}) EXCEPT !.style = "s"],
   g |-> Of(N("grouping", <<>>), <<"c">>),
   c |-> With(N("entry", <<"c">>), {"focusable"}),
   p |-> Of([T("paragraph", <<"a", ".", " ", Embedded>>) EXCEPT !.style = "s"], <<"k">>),
   k |-> [N("link", <<"a", "b">>) EXCEPT !.id = "k", !.style = "u"],
   l |-> Of(N("list", <<>>), <<"i", "j">>),
   i |-> N("list item", <<"x", "y">>),
   j |-> N("list item", <<"x", "z", "x">>),
   m |-> Of(N("embedded", <<>>), <<"n">>),
   n |-> Of(N("document frame", <<"n">>), <<"q">>),
   q |-> With(N("link", <<"a">>), {"visited"}),
   e |-> Of(Hidden, <<"r">>),
   r |-> [N("link", <<"a", "b">>) EXCEPT !.id = "k"]]

\* The link is rendered anew, an item is gone, and the other tab shows.
TabsChanged ==
  [o \in (DOMAIN Tabs \ {"k", "i"}) \cup {"k2"} |->
     CASE o = "k2" -> Tabs["k"]
       [] o = "p" -> Of(Tabs.p, <<"k2">>)
       [] o = "l" -> Of(Tabs.l, <<"j">>)
       [] o = "d" -> With(Tabs.d, {})
       [] o = "e" -> With(Tabs.e, {"showing"})
       [] OTHER -> Tabs[o]]

\* The page is loaded again, with two links alike and without the embedded document.
TabsReloaded ==
  [w |-> Of(Tabs.w, <<"b", "d4", "e">>), b |-> Tabs.b, e |-> Tabs.e, r |-> Tabs.r,
   d4 |-> Of(Page(<<"p">>), <<"h4", "k4", "k5">>),
   h4 |-> Tabs.h, k4 |-> Tabs.k, k5 |-> Tabs.k]

-----------------------------------------------------------------------------
(* Texts: lines and empty lines, inline nodes, and what is protected *)

Lines == <<"a", "b", " ", "c", "\n", "\n", "d", "\r", "\n">>

Texts ==
  [d |-> Of(Page(<<"p">>), <<"u", "v", "s", "f", "x", "h">>),
   u |-> [T("paragraph", Lines) EXCEPT !.selection = [start |-> 1, end |-> 4], !.caret = 6],
   v |-> N("link", <<"a">>),
   s |-> N("static", <<"a", "b", " ">>),
   f |-> With(T("entry", <<"a", "b">>), {"editable"}),
   x |-> Of(With(T("password text", <<"c">>), {"focusable"}), <<"y">>),
   y |-> N("static", <<"c">>),
   h |-> T("paragraph", <<"a", "b", ".">>)]

\* The text of the paragraph has shrunk, the field is empty.
TextsChanged == [Texts EXCEPT !.u.text = <<"a", "b">>, !.u.selection = [start |-> 0, end |-> 1],
                              !.f.text = <<>>]

-----------------------------------------------------------------------------
(* A table with a cell over two columns, and a position without a cell *)

Table ==
  [d |-> Of(Page(<<"p">>), <<"a", "l", "z">>),
   a |-> N("link", <<"a">>),
   l |-> Of(N("list", <<>>), <<"t">>),
   t |-> Of(N("table", <<"t">>), <<"1", "2", "3", "4", "5">>),
   z |-> N("link", <<"z">>)] @@
  ("1" :> Cell(N("column header", <<"1">>), 1, 1, 1)) @@
  ("2" :> Cell(N("column header", <<"2">>), 1, 2, 2)) @@
  ("3" :> Of(Cell(T("table cell", <<"3">>), 2, 1, 1), <<"6">>)) @@
  ("6" :> N("link", <<"6">>)) @@
  ("4" :> Cell(T("table cell", <<"4", "\n", "4">>), 2, 3, 1)) @@
  ("5" :> Cell(N("cell", <<"5">>), 3, 3, 1))

-----------------------------------------------------------------------------
(* Objects on the screen *)

Screen ==
  [w |-> Of([N("frame", <<>>) EXCEPT !.box = 1..9], <<"d">>),
   d |-> Of([Page(<<"p">>) EXCEPT !.box = 1..8], <<"a", "g">>),
   a |-> [N("link", <<"a">>) EXCEPT !.box = 2..4],
   g |-> Of(N("section", <<>>), <<"b">>),
   b |-> [N("push button", <<"b">>) EXCEPT !.box = 5..6]]

MCTrees ==
  [tabs |-> Tree("w", Tabs), changed |-> Tree("w", TabsChanged), reloaded |-> Tree("w", TabsReloaded),
   texts |-> Tree("d", Texts), shrunk |-> Tree("d", TextsChanged),
   table |-> Tree("d", Table),
   screen |-> Tree("w", Screen)]

Work(trees, commands) ==
  [trees |-> trees, commands |-> commands, targets |-> {}, queries |-> {}, objects |-> {}, cells |-> {}]

MCWorkloads ==
  {[Work({"tabs", "changed", "reloaded"}, {"navigate", "container", "exit", "mode", "focus"})
      EXCEPT !.targets = {"link", "unvisitedLink", "heading1", "list", "button", "textParagraph",
                          "notLinkBlock", "sameStyle", "embeddedObject"},
             !.objects = {"b", "c", "d", "k2"}],
   [Work({"tabs", "reloaded"}, {"text", "find"}) EXCEPT !.queries = {<<"a">>}],
   [Work({"texts", "shrunk"}, {"text", "find"}) EXCEPT !.queries = {<<"a", "b">>}],
   [Work({"texts", "shrunk"}, {"review", "object", "focus"}) EXCEPT !.objects = {"u", "f"}],
   [Work({"texts", "shrunk"}, {"review", "copy", "focus"}) EXCEPT !.objects = {"u"}],
   [Work({"texts", "shrunk"}, {"braille", "object"}) EXCEPT !.cells = {0, 3}],
   [Work({"table"}, {"table", "navigate", "text"}) EXCEPT !.targets = {"table", "link"}],
   [Work({"screen"}, {"mouse", "object", "reviewMode", "focus"}) EXCEPT !.objects = {"a", "w"}]}
=============================================================================
