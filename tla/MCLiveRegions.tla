---------------------------- MODULE MCLiveRegions ----------------------------
(* An atomic region, one where only additions matter, and two around a password. *)
EXTENDS LiveRegions

MCObjects == {"c", "d", "e", "g", "k", "m", "p", "q", "r", "s", "t", "u", "w", "x", "y", "z"}
MCWords == {"a", "b", "c", "e", "f", "key", "m", "name", "p", "secret", "u", "v", "y", "z", "redacted", "embedded"}

N(parent, children, text) ==
  [parent |-> parent, children |-> children, role |-> "static", live |-> "", atomic |-> FALSE,
   busy |-> FALSE, relevant |-> {}, text |-> text]
Document(children) == [N(Nothing, children, <<>>) EXCEPT !.role = "document web"]

\* A total with its label under a section that may be switched off, and a text beside it.
Atomic ==
  [d |-> Document(<<"r", "p">>),
   r |-> [N("d", <<"g", "x">>, <<"a", "b">>) EXCEPT !.live = "polite", !.atomic = TRUE],
   g |-> N("r", <<"t">>, <<>>),
   t |-> N("g", <<>>, <<"a">>),
   x |-> N("r", <<>>, <<"c">>),
   p |-> N("d", <<>>, <<"p">>)]

\* A log, and an alert.
Log ==
  [d |-> Document(<<"q", "e">>),
   q |-> [N("d", <<"z">>, <<>>) EXCEPT !.role = "log", !.relevant = {"additions"}],
   z |-> N("q", <<>>, <<"z">>),
   e |-> [N("d", <<"m">>, <<>>) EXCEPT !.role = "alert"],
   m |-> N("e", <<>>, <<"m">>)]

\* A status around a password with its characters.
Password ==
  [d |-> Document(<<"s">>),
   s |-> [N("d", <<"w", "u">>, <<>>) EXCEPT !.role = "status bar", !.atomic = TRUE],
   w |-> [N("s", <<"c">>, <<"name">>) EXCEPT !.role = "password text"],
   c |-> N("w", <<>>, <<"secret">>),
   u |-> N("s", <<>>, <<"u">>)]
Parts == [Password EXCEPT !.s.atomic = FALSE]

Work(tree) ==
  [page |-> tree, inserts |-> [x \in {} |-> Nothing], edits |-> {}, removed |-> {},
   announcements |-> {}, attributes |-> {}, controls |-> FALSE,
   secrets |-> [x \in {} |-> {}]]
Attribute(o, field, value) == [object |-> o, field |-> field, value |-> value]
Announcement(o, text) == [source |-> o, text |-> text, priority |-> "polite"]

MCWorkloads ==
  {[Work(Atomic) EXCEPT !.inserts = "y" :> N("r", <<>>, <<"y">>), 
      !.edits = {"x", "y", "p"} \X {<<"c">>, <<"e">>},
      !.attributes = {Attribute("r", "live", l) : l \in {"off", "polite"}}],
   [Work(Atomic) EXCEPT !.edits = {"x"} \X {<<"c">>, <<"e">>}, !.removed = {"x"},
      !.attributes = {Attribute("r", "busy", b) : b \in BOOLEAN}, !.controls = TRUE],
   [Work(Log) EXCEPT !.inserts = "y" :> N("q", <<>>, <<"y">>), 
      !.edits = {"z", "y", "m"} \X {<<"z">>, <<"f">>}],
   [Work(Password) EXCEPT !.edits = {<<"c", <<"secret", "secret">>>>, <<"u", <<"v">>>>},
      !.removed = {"c"}, !.announcements = {Announcement("c", <<"secret">>)},
      !.secrets = "c" :> {"secret"}],
   [Work(Parts) EXCEPT !.inserts = "k" :> N("w", <<>>, <<"key">>), !.edits = {<<"c", <<"secret", "secret">>>>},
      !.removed = {"k"}, !.announcements = {Announcement("k", <<"key">>)},
      !.secrets = "c" :> {"secret"} @@ "k" :> {"key"}]}
=============================================================================
