------------------------------ MODULE LiveRegions ------------------------------
(***************************************************************************)
(* Live regions: how changes of a page that nobody asked about are spoken    *)
(* (internal/engine/engine.go:2899-2918, 2944-3482).  The page changes and   *)
(* signals it; the event loop handles one signal at a time, reads the page   *)
(* as it is by then, and takes what an object's region is from the object    *)
(* itself, from the cached graph, and from what earlier reads remembered.    *)
(*                                                                           *)
(* A tree is a function from objects to nodes; a text is a sequence of       *)
(* words.  Time passes in units of the interruption window.                  *)
(***************************************************************************)
EXTENDS Integers, SequencesExt, FiniteSetsExt

CONSTANTS Objects, Words,
          Nothing,              \* no object, no announcement
          depthLimit,           \* 512: how many ancestors are looked at
          nodeLimit,            \* 1024: how many objects of a region are read
          interruptionWindow,   \* 100 ms: how long an assertive announcement silences polite ones
          duplicateWindow,      \* 750 ms: how long an announcement is not repeated
          Workloads,            \* what a behavior starts from and what may happen to it
          MaxChanges            \* bound: changes of the page

VARIABLES page,                     \* the application's tree
          unsettled,                \* the objects a traversal of the page may still miss
          signals,                  \* the signals not handled yet, in order
          graph,                    \* the cached tree
          liveRegionKnown,          \* the objects whose insertion is not news
          atomicLiveRegionOwners,   \* the atomic region an object was read in
          recentLiveRegions,        \* announcements with their age
          reportDynamicContentChanges,
          outputsSealed,
          announced,                \* what the step announced, if anything
          changes,                  \* each change of the page: whether it was heard
          workload

pageVars == <<page, unsettled>>
known == <<graph, liveRegionKnown, atomicLiveRegionOwners>>
settings == <<reportDynamicContentChanges, outputsSealed>>
vars == <<page, unsettled, signals, graph, liveRegionKnown, atomicLiveRegionOwners, recentLiveRegions,
          reportDynamicContentChanges, outputsSealed, announced, changes, workload>>

Redacted == <<"redacted">>
EmbeddedText == <<"embedded">>     \* U+FFFC, where an object is embedded in a text

ASSUME ConstantsAssumption ==
  /\ Nothing \notin Objects /\ ToSet(Redacted) \cup ToSet(EmbeddedText) \subseteq Words
  /\ depthLimit \in Nat \ {0} /\ nodeLimit \in Nat \ {0}
  /\ interruptionWindow \in Nat \ {0} /\ duplicateWindow \in Nat /\ interruptionWindow <= duplicateWindow

-----------------------------------------------------------------------------
(* Trees *)

Has(tree, o) == o \in DOMAIN tree

\* From an object up, nearest first.
PathsUp(tree) ==
  LET path[n \in Nat] ==
        [o \in Objects \cup {Nothing} |->
           IF n = 0 \/ ~Has(tree, o) THEN <<>> ELSE <<o>> \o path[n - 1][tree[o].parent]]
  IN path
Ancestors(tree, o) == PathsUp(tree)[depthLimit][o]

Subtree(tree, o) == {x \in DOMAIN tree : o \in ToSet(Ancestors(tree, x))}

\* The page without an object and what is below it.
Pruned(o) ==
  [x \in DOMAIN page \ Subtree(page, o) |->
     IF x = page[o].parent THEN [page[x] EXCEPT !.children = RemoveFirst(@, o)] ELSE page[x]]

\* The first of a sequence that is in a set.
FirstOf(path, objects) ==
  LET found == {i \in DOMAIN path : path[i] \in objects}
  IN IF found = {} THEN Nothing ELSE path[Min(found)]

Within(part, text) == \E i, j \in 1..Len(text) : part = SubSeq(text, i, j)

\* Passwords, and what is inside them.
Protects(n) == n.role = "password text"

\* One more object of a region is read: the next on the stack that is there and not yet
\* seen.  What an ancestor's text already says is not repeated, and nothing inside a
\* protected object is read.
Visit(tree, r, entry, stack) ==
  LET n == tree[entry.object]
      value == IF Protects(n) THEN Redacted ELSE n.text
      repeated == value = <<>> \/ \E a \in entry.above : Within(value, a)
      inside == [i \in DOMAIN n.children |->
                   [object |-> n.children[i], above |-> entry.above \cup ({value} \ {<<>>})]]
  IN [stack |-> IF Protects(n) THEN stack ELSE inside \o stack,
      seen |-> r.seen \cup {entry.object},
      said |-> IF repeated THEN r.said ELSE r.said \o value]

ReadNext(tree, r) ==
  LET fresh == {i \in DOMAIN r.stack : Has(tree, r.stack[i].object) /\ r.stack[i].object \notin r.seen}
  IN IF fresh = {} THEN r
     ELSE Visit(tree, r, r.stack[Min(fresh)], SubSeq(r.stack, Min(fresh) + 1, Len(r.stack)))

\* What is read of a region, in the order of the document.
Reading(tree, o) ==
  LET read[n \in Nat] ==
        IF n = 0 THEN [stack |-> <<[object |-> o, above |-> {}]>>, seen |-> {}, said |-> <<>>]
        ELSE ReadNext(tree, read[n - 1])
  IN read
Content(tree, o) == Reading(tree, o)[nodeLimit].said

Statuses == {"statusbar", "status bar", "status", "log"}

\* The region a node is by itself, as a priority.
LiveOf(n) ==
  CASE n.live \in {"assertive", "polite"} -> n.live
    [] n.live = "" /\ n.role = "alert" -> "assertive"
    [] n.live = "" /\ n.role \in Statuses -> "polite"
    [] OTHER -> ""

DefinesLiveRegion(n) == n.live \in {"assertive", "polite"} \/ n.role \in Statuses \cup {"alert"}

IsAtomicLiveRegionOwner(n) == DefinesLiveRegion(n) /\ n.atomic

\* Chromium tells every node of the region it is in: the nearest with a live attribute.
Region(tree, o) ==
  FirstOf(Ancestors(tree, o), {x \in DOMAIN tree : tree[x].live # "" \/ LiveOf(tree[x]) # ""})

Attributes(tree, o) ==
  LET n == tree[o]
      regions == {tree[x] : x \in {Region(tree, o)} \ {Nothing}}
  IN [object |-> o, live |-> n.live, own |-> LiveOf(n),
      containerLive |-> {IF r.live = "off" THEN "off" ELSE LiveOf(r) : r \in regions},
      atomic |-> n.atomic \/ \E r \in regions : r.atomic,
      busy |-> n.busy \/ \E r \in regions : r.busy,
      relevant |-> UNION {r.relevant : r \in regions}]

-----------------------------------------------------------------------------
(* Metadata: the region of an object *)

\* Direct reads have no parent; the graph has the parents of what it holds, and an object
\* it does not hold may name its region itself, which the graph must confirm.
Parents(o, memberOf) ==
  IF Has(graph, o) THEN Ancestors(graph, graph[o].parent)
  ELSE LET owners == {r \in memberOf : Has(graph, r) /\ o \in ToSet(graph[r].children)
                                       /\ DefinesLiveRegion(graph[r])}
       IN IF owners = {} THEN <<>> ELSE Ancestors(graph, CHOOSE r \in owners : TRUE)

\* The region an object is in by the graph, every step of the way confirmed by the parent.
LiveRegionOwnerInGraph(g, o) ==
  IF Has(g, o) THEN FirstOf(Ancestors(g, g[o].parent), {x \in DOMAIN g : DefinesLiveRegion(g[x])})
  ELSE Nothing

\* A traversal reads the page, but may miss a subtree that is still being built; what a
\* parent says of a child that was not read is dropped.
Traversals == {page} \cup {Pruned(o) : o \in unsettled}

\* Variant: a new graph makes everything news.
Forgotten(g) == {}

\* What a new graph holds is not news.
KnownBy(g) == DOMAIN g

Silent == [live |-> FALSE]
Live(priority, atomic, relevant, container, owned) ==
  [live |-> TRUE, priority |-> priority, atomic |-> atomic, relevant |-> relevant,
   container |-> container, containerOwned |-> owned]

\* Along a path of attributes from an object up, the first that is busy, off or a region
\* decides.  Without one, the object's own word for its region counts.
MetadataAlong(path) ==
  LET n == Len(path)
      Stops(a) == a.busy \/ a.live = "off" \/ a.own # "" \/ "off" \in a.containerLive
      stops == {i \in 1..n : Stops(path[i])}
      last == IF stops = {} THEN n ELSE Min(stops)
      atomic == \E i \in 1..last : path[i].atomic
      told == {i \in 1..last : path[i].relevant # {}}
      relevant == IF told = {} THEN {"additions", "text"} ELSE path[Max(told)].relevant
      a == path[last]
      inherited == {i \in 1..n : path[i].containerLive # {}}
      word == path[Min(inherited)]
  IN IF stops # {}
       THEN IF a.busy \/ a.live = "off" \/ a.own = "" THEN Silent
            ELSE Live(a.own, atomic, relevant, a.object, TRUE)
       ELSE IF inherited = {} THEN Silent
            ELSE Live(CHOOSE p \in word.containerLive : TRUE, atomic, relevant, word.object, FALSE)

\* Variant: the region that the refresh found is not taken.
RefreshOnly(o, m) == {[graph |-> g, metadata |-> m] : g \in Traversals}

\* The region that the graph confirms is the object's.
OwnedBy(m, owner) ==
  IF owner = Nothing THEN m ELSE [m EXCEPT !.container = owner, !.containerOwned = TRUE]

\* Each possible outcome of up to three refreshes: a traversal with the region, or the last
\* of them without it, or none that succeeded.
RefreshForLiveRegionOwner(o, m) ==
  {[graph |-> g, metadata |-> OwnedBy(m, LiveRegionOwnerInGraph(g, o))] : g \in Traversals}
  \cup {[graph |-> Nothing, metadata |-> m]}

LiveRegionMetadata(o, memberOf) ==
  LET above == Parents(o, memberOf)
      m == MetadataAlong(<<Attributes(page, o)>> \o [i \in DOMAIN above |-> Attributes(graph, above[i])])
  IN IF m.live /\ ~m.containerOwned /\ m.atomic THEN RefreshForLiveRegionOwner(o, m)
     ELSE {[graph |-> Nothing, metadata |-> m]}

CachedAtomicLiveRegionOwner(o) ==
  LET owner == IF o \in DOMAIN atomicLiveRegionOwners THEN atomicLiveRegionOwners[o] ELSE Nothing
  IN IF Has(graph, owner) /\ IsAtomicLiveRegionOwner(graph[owner]) THEN owner ELSE Nothing

\* Variant: a region that is remembered stays what it was.
RememberedMetadata(o, memberOf) ==
  IF o \in DOMAIN atomicLiveRegionOwners
    THEN {[graph |-> Nothing,
           metadata |-> Live("polite", TRUE, {"additions", "text"}, atomicLiveRegionOwners[o], TRUE)]}
    ELSE LiveRegionMetadata(o, memberOf)

\* The region an object was read in before is asked in its stead, as the graph has it.
ResolvedLiveRegionMetadata(o, memberOf) ==
  LET owner == CachedAtomicLiveRegionOwner(o)
      above == Ancestors(graph, owner)
      m == MetadataAlong([i \in DOMAIN above |-> Attributes(graph, above[i])])
  IN IF owner = Nothing THEN LiveRegionMetadata(o, memberOf)
     ELSE {[graph |-> Nothing,
            metadata |-> IF m.live THEN Live(m.priority, TRUE, m.relevant, owner, TRUE) ELSE Silent]}

-----------------------------------------------------------------------------
(* Announcing *)

\* By the graph, what an object is in: its parent, or what lists it as a child.
Holders(g, o) == IF Has(g, o) THEN {g[o].parent} ELSE {x \in DOMAIN g : o \in ToSet(g[x].children)}
ProtectsNodeContent(g, o) ==
  \E x \in Holders(g, o) : \E p \in ToSet(Ancestors(g, x)) : Protects(g[p])

\* Variant: only an object's own protection counts.
ProtectedItself(g, o) == Has(page, o) /\ Protects(page[o])

\* An object that is gone is what the graph had of it.
IsProtected(g, o) ==
  \/ ProtectsNodeContent(g, o)
  \/ Has(page, o) /\ Protects(page[o])
  \/ ~Has(page, o) /\ Has(g, o) /\ Protects(g[o])

\* Variant: what was said before does not count, only by whom.
RepeatsSource(a) == \E e \in recentLiveRegions : <<e.source, e.priority>> = <<a.source, a.priority>>

Repeats(a) ==
  \E e \in recentLiveRegions : <<e.source, e.text, e.priority>> = <<a.source, a.text, a.priority>>

Interrupted(priority) ==
  priority = "polite" /\ \E e \in recentLiveRegions : e.priority = "assertive" /\ e.age < interruptionWindow

SaysNothing == announced' = Nothing /\ UNCHANGED recentLiveRegions

\* The text of an object is announced for a signal of the source, unless it is switched
\* off or sealed, repeats itself, or trails an assertive announcement.
EmitLiveRegion(g, text, o, source, priority) ==
  LET a == [source |-> source, priority |-> priority,
            text |-> IF IsProtected(g, o) THEN Redacted ELSE text]
  IN IF text = <<>> \/ ~reportDynamicContentChanges \/ outputsSealed \/ Interrupted(priority) \/ Repeats(a)
       THEN SaysNothing
       ELSE /\ announced' = a
            /\ recentLiveRegions' = recentLiveRegions \cup {a @@ [age |-> 0]}

\* What reading a region remembers: all it visited, protected content excepted.
Visited(o) == Reading(page, o)[nodeLimit].seen

Remember(container, reads) ==
  atomicLiveRegionOwners' =
    IF reads /\ Has(page, container) /\ IsAtomicLiveRegionOwner(page[container])
      THEN [x \in DOMAIN atomicLiveRegionOwners \cup Visited(container) |->
              IF x \in Visited(container) THEN container ELSE atomicLiveRegionOwners[x]]
      ELSE atomicLiveRegionOwners

\* An announcement for an object: an atomic region is read as a whole, if it can be.
Speak(g, m, own, o, source, reads) ==
  /\ Remember(m.container, reads)
  /\ IF reads /\ Has(page, m.container)
       THEN EmitLiveRegion(g, Content(page, m.container), m.container, source, m.priority)
       ELSE EmitLiveRegion(g, own, o, source, m.priority)

\* The graph after the metadata were found, and what is known by it.
GraphOf(outcome) == IF outcome.graph = Nothing THEN graph ELSE outcome.graph
KnownOf(outcome) == IF outcome.graph = Nothing THEN liveRegionKnown ELSE KnownBy(outcome.graph)

Learn(outcome, objects) ==
  /\ graph' = GraphOf(outcome)
  /\ liveRegionKnown' = KnownOf(outcome) \cup objects

Quiet == SaysNothing /\ UNCHANGED atomicLiveRegionOwners

\* The outcomes of asking for the region of an object that can be read.
Asked(o) ==
  UNION {ResolvedLiveRegionMetadata(o, memberOf) :
           memberOf \in {{}, {Region(page, o)} \ {Nothing}}}

-----------------------------------------------------------------------------
(* Signals *)

\* An insertion is news unless the object is known; a region's own signal always is one.
HandleLiveTextChange(s) ==
  \E outcome \in Asked(s.source) : \E m \in {outcome.metadata} :
    IF ~m.live THEN Quiet /\ Learn(outcome, {})
    ELSE LET insertion == m.containerOwned /\ s.source = m.container
             addition == /\ s.detail = "insert" /\ "additions" \in m.relevant
                         /\ (s.source \notin KnownOf(outcome) \/ insertion)
         IN /\ Learn(outcome, Subtree(page, s.source))
            /\ IF "text" \in m.relevant \/ addition
                 THEN Speak(GraphOf(outcome), m, s.value, s.source, s.source, insertion \/ m.atomic)
                 ELSE Quiet

\* The child that was added or removed, or else the signal's source, is what changed.
HandleLiveChildrenChange(s) ==
  \E outcome \in Asked(s.source) : \E m \in {outcome.metadata} :
    LET relevance == IF s.detail = "remove" THEN "removals" ELSE "additions"
        changed == IF Has(page, s.object) THEN s.object ELSE s.source
        text == IF ProtectsNodeContent(GraphOf(outcome), changed) THEN Redacted ELSE page[changed].text
    IN IF ~m.live THEN Quiet /\ Learn(outcome, {})
       ELSE IF relevance \notin m.relevant THEN Quiet /\ Learn(outcome, {})
       ELSE /\ Learn(outcome, IF relevance = "additions" THEN Subtree(page, s.object) \cup {s.object} ELSE {})
            /\ Speak(GraphOf(outcome), m, text, changed, s.source, m.atomic)

HandleLivePropertyChange(s) ==
  \E outcome \in Asked(s.source) : \E m \in {outcome.metadata} :
    /\ Learn(outcome, {})
    /\ IF m.live /\ "text" \in m.relevant
         THEN Speak(GraphOf(outcome), m, s.value, s.source, s.source, m.atomic)
         ELSE Quiet

\* An announcement is spoken wherever it comes from, and also when its object is gone, if
\* the graph still tells that it may be.
HandleAnnouncement(s) ==
  /\ UNCHANGED known
  /\ IF Has(page, s.source) \/ Has(graph, s.source) \/ ProtectsNodeContent(graph, s.source)
       THEN EmitLiveRegion(graph, s.value, s.source, s.source, s.priority)
       ELSE SaysNothing

-----------------------------------------------------------------------------
(* What a behavior may start from, and what may happen to it *)

AttributeValues ==
  [live |-> {"", "off", "polite", "assertive"}, atomic |-> BOOLEAN, busy |-> BOOLEAN,
   relevant |-> SUBSET {"additions", "removals", "text"}]

Node ==
  [parent : Objects \cup {Nothing}, children : Seq(Objects), role : STRING, text : Seq(Words),
   live : AttributeValues.live, atomic : AttributeValues.atomic, busy : AttributeValues.busy,
   relevant : AttributeValues.relevant]

\* The page that a behavior starts from together with all that may be inserted.
Everything(w) ==
  [o \in DOMAIN w.page \cup DOMAIN w.inserts |-> IF Has(w.inserts, o) THEN w.inserts[o] ELSE w.page[o]]

\* The objects that are protected, from the start or once they are inserted.
Concealed(w) ==
  {o \in DOMAIN Everything(w) : Protects(Everything(w)[o]) \/ ProtectsNodeContent(Everything(w), o)}

\* A text has a word of what an object is to keep to itself.
Tells(w, o, text) == ToSet(text) \cap w.secrets[o] # {}

\* What an object says is no secret of another one.
Discreet(w, o, text) == \A x \in DOMAIN w.secrets \ {o} : ~Tells(w, x, text)

\* Objects are of a tree that is not too deep, and keep their place: the identifier of an
\* object that was inserted was none of the page, nor a parent there.
ASSUME TreesAssumption ==
  \A w \in Workloads :
    /\ DOMAIN Everything(w) \subseteq Objects /\ DOMAIN w.page \cap DOMAIN w.inserts = {}
    /\ \A o \in DOMAIN Everything(w) :
         LET n == Everything(w)[o]
         IN /\ n \in Node /\ n.parent \in DOMAIN Everything(w) \cup {Nothing}
            /\ \A c \in ToSet(n.children) \cap DOMAIN Everything(w) : Everything(w)[c].parent = o
            /\ Len(Ancestors(Everything(w), o)) < depthLimit
    /\ \A o \in DOMAIN w.page : w.page[o].parent \notin DOMAIN w.inserts

\* The place and the role of an object do not change.
ASSUME ChangesAssumption ==
  \A w \in Workloads :
    /\ \A e \in w.edits : e[1] \in Objects /\ e[2] \in Seq(Words)
    /\ \A a \in w.announcements : a.source \in Objects /\ a.text \in Seq(Words) /\ a.priority \in {"polite", "assertive"}
    /\ \A a \in w.attributes : a.field \in DOMAIN AttributeValues /\ a.value \in AttributeValues[a.field]

\* Secrets are the words of protected objects: nothing but the object says them.
ASSUME SecretsAssumption ==
  \A w \in Workloads :
    /\ DOMAIN w.secrets \subseteq Concealed(w)
    /\ \A o \in DOMAIN Everything(w) : Discreet(w, o, Everything(w)[o].text)
    /\ \A e \in w.edits : Discreet(w, e[1], e[2])
    /\ \A a \in w.announcements : Discreet(w, a.source, a.text)
    /\ \A o \in DOMAIN w.secrets : ~Tells(w, o, Redacted) /\ ~Tells(w, o, EmbeddedText)

-----------------------------------------------------------------------------
(* What became of a change *)

Relevant(r) == IF page[r].relevant = {} THEN {"additions", "text"} ELSE page[r].relevant

\* The announcements that count for a signal say what it brought, or what stands there now.
HeardBy(s) ==
  \E e \in recentLiveRegions' : e.source = s.source /\
    \E words \in ({s.value} \cup {page[o].text : o \in {s.object} \cap DOMAIN page}) \ {<<>>, EmbeddedText} :
      Within(words, e.text)

Off(n) == n.busy \/ n.live = "off"

\* Nobody is to hear of a change that is gone or protected, outside the regions or in one
\* that is busy or off, on the page or as it was read last, that the region calls
\* irrelevant, or that comes at the wrong moment.
Excused(s) ==
  \/ ~reportDynamicContentChanges \/ outputsSealed
  \/ ~Has(page, s.object)
  \/ \E r \in {Region(page, s.object)} :
       \/ r = Nothing
       \/ page[s.object].text = <<>> \/ IsProtected(graph', s.object)
       \/ \E x \in ToSet(Ancestors(page, s.object)) : Off(page[x])
       \/ \E x \in ToSet(Ancestors(page, s.object)) \cap DOMAIN graph' : Off(graph'[x])
       \/ s.relevance \notin Relevant(r)
       \/ Interrupted(LiveOf(page[r]))

Judge(s) ==
  changes' = [changes EXCEPT ![s.of] = IF @ = "heard" \/ HeardBy(s) THEN "heard"
                                       ELSE IF Excused(s) THEN "excused" ELSE @]

-----------------------------------------------------------------------------
(* The page, and the event loop *)

\* A change is signalled in the order given; signals of one object keep their order.
Signal(list) ==
  /\ Len(changes) < MaxChanges
  /\ changes' = Append(changes, "owed")
  /\ signals' = signals \o [i \in DOMAIN list |-> [list[i] EXCEPT !.of = Len(changes) + 1]]
  /\ announced' = Nothing
  /\ UNCHANGED <<known, recentLiveRegions, settings, workload>>

TextChanged(source, o, value, relevance) ==
  [name |-> "TextChanged", source |-> source, object |-> o, value |-> value, detail |-> "insert",
   relevance |-> relevance, priority |-> "", of |-> 0]
ChildrenChanged(parent, o, detail) ==
  [name |-> "ChildrenChanged", source |-> parent, object |-> o, value |-> <<>>, detail |-> detail,
   relevance |-> IF detail = "remove" THEN "removals" ELSE "additions", priority |-> "", of |-> 0]
PropertyChange(o, value) == [TextChanged(o, o, value, "text") EXCEPT !.name = "PropertyChange"]

\* One insertion comes as a text change of the object or of its parent, and then as a
\* change of the parent's children (engine.go:3209-3211, 3441-3443).
Insert(o, n) ==
  /\ ~Has(page, o) /\ Has(page, n.parent)
  /\ page' = [x \in DOMAIN page \cup {o} |->
               IF x = o THEN n
               ELSE IF x = n.parent THEN [page[x] EXCEPT !.children = Append(@, o)] ELSE page[x]]
  /\ unsettled' = unsettled \cup {o}
  /\ \E text \in {TextChanged(o, o, n.text, "additions"),
                  TextChanged(n.parent, o, EmbeddedText, "additions")} :
       Signal(<<text, ChildrenChanged(n.parent, o, "add")>>)

Edit(o, text) ==
  /\ Has(page, o) /\ page[o].text # text
  /\ page' = [page EXCEPT ![o].text = text]
  /\ UNCHANGED unsettled
  /\ \E s \in {TextChanged(o, o, text, "text"), PropertyChange(o, text)} : Signal(<<s>>)

Delete(o) ==
  /\ Has(page, o)
  /\ page' = Pruned(o)
  /\ unsettled' = unsettled \ Subtree(page, o)
  /\ Signal(<<ChildrenChanged(page[o].parent, o, "remove")>>)

Announce(o, text, priority) ==
  /\ Has(page, o)
  /\ UNCHANGED pageVars
  /\ Signal(<<[TextChanged(o, o, text, "any") EXCEPT !.name = "Announcement", !.priority = priority]>>)

\* Attributes change without a signal that is listened to.
SetAttribute(o, field, value) ==
  /\ Has(page, o) /\ page[o][field] # value
  /\ page' = [page EXCEPT ![o][field] = value]
  /\ announced' = Nothing
  /\ UNCHANGED <<unsettled, signals, known, recentLiveRegions, settings, changes, workload>>

Settle ==
  /\ unsettled # {} /\ unsettled' = {}
  /\ announced' = Nothing
  /\ UNCHANGED <<page, signals, known, recentLiveRegions, settings, changes, workload>>

\* Announcements that are too old count for nothing; the code deletes them later.
Elapse ==
  /\ recentLiveRegions # {}
  /\ recentLiveRegions' = {e \in {[e EXCEPT !.age = @ + 1] : e \in recentLiveRegions} :
                              e.age < duplicateWindow}
  /\ announced' = Nothing
  /\ UNCHANGED <<pageVars, signals, known, settings, changes, workload>>

\* A command refreshes the graph.
Refresh ==
  /\ graph' \in Traversals
  /\ liveRegionKnown' = KnownBy(graph')
  /\ announced' = Nothing
  /\ UNCHANGED <<pageVars, signals, atomicLiveRegionOwners, recentLiveRegions, settings, changes, workload>>

SetPresentationSettings ==
  /\ workload.controls
  /\ reportDynamicContentChanges' = ~reportDynamicContentChanges
  /\ announced' = Nothing
  /\ UNCHANGED <<pageVars, signals, known, recentLiveRegions, outputsSealed, changes, workload>>

SealOutputs ==
  /\ workload.controls /\ ~outputsSealed /\ outputsSealed' = TRUE
  /\ announced' = Nothing
  /\ UNCHANGED <<pageVars, signals, known, recentLiveRegions, reportDynamicContentChanges, changes, workload>>

BeginSession ==
  /\ workload.controls /\ outputsSealed /\ outputsSealed' = FALSE
  /\ atomicLiveRegionOwners' = [x \in {} |-> Nothing]
  /\ recentLiveRegions' = {}
  /\ announced' = Nothing
  /\ UNCHANGED <<pageVars, signals, graph, liveRegionKnown, reportDynamicContentChanges, changes, workload>>

\* A source that cannot be read says nothing, unless it is an announcement's.
HandleNativeEvent(i) ==
  /\ \A j \in 1..i - 1 : signals[j].source # signals[i].source
  /\ signals' = RemoveAt(signals, i)
  /\ LET s == signals[i]
         Readable(name) == s.name = name /\ Has(page, s.source)
     IN /\ \/ Readable("TextChanged") /\ HandleLiveTextChange(s)
           \/ Readable("ChildrenChanged") /\ HandleLiveChildrenChange(s)
           \/ Readable("PropertyChange") /\ HandleLivePropertyChange(s)
           \/ s.name = "Announcement" /\ HandleAnnouncement(s)
           \/ s.name # "Announcement" /\ ~Has(page, s.source) /\ SaysNothing /\ UNCHANGED known
        /\ Judge(s)
  /\ UNCHANGED <<pageVars, settings, workload>>

Init ==
  /\ workload \in Workloads
  /\ page = workload.page /\ unsettled = {} /\ signals = <<>>
  /\ graph = workload.page /\ liveRegionKnown = KnownBy(workload.page)
  /\ atomicLiveRegionOwners = [x \in {} |-> Nothing]
  /\ recentLiveRegions = {}
  /\ reportDynamicContentChanges = TRUE /\ outputsSealed = FALSE
  /\ announced = Nothing /\ changes = <<>>

Next ==
  \/ \E o \in DOMAIN workload.inserts : Insert(o, workload.inserts[o])
  \/ \E e \in workload.edits : Edit(e[1], e[2])
  \/ \E o \in workload.removed : Delete(o)
  \/ \E a \in workload.announcements : Announce(a.source, a.text, a.priority)
  \/ \E a \in workload.attributes : SetAttribute(a.object, a.field, a.value)
  \/ Settle
  \/ Elapse
  \/ Refresh
  \/ SetPresentationSettings
  \/ SealOutputs
  \/ BeginSession
  \/ \E i \in DOMAIN signals : HandleNativeEvent(i)

Spec == Init /\ [][Next]_vars

-----------------------------------------------------------------------------
(* Properties *)

Pending(i) == \E s \in ToSet(signals) : s.of = i

\* A change that somebody is to hear of is announced by one of its signals: neither a
\* refresh, which makes an insertion known, nor an earlier announcement, nor the order in
\* which the signals come, swallows it (engine.go:3184-3328, 3405-3470).
EveryChangeIsHeard ==
  \A i \in DOMAIN changes : changes[i] = "owed" => Pending(i)

\* The signal that a step handled.
HandledSignals == {signals[i] : i \in {j \in DOMAIN signals : signals' = RemoveAt(signals, j)}}

\* What is announced of an atomic region is all of it as it is now, and nothing else,
\* provided that the graph holds the region around the source: by its parents, by the
\* object's own word, by a refresh or by memory; and no other atomic region around it,
\* which may be remembered instead (engine.go:2951-3083, 3140-3169).
AtomicIsSpokenWhole ==
  [][\A s \in HandledSignals :
       announced' # Nothing /\ s.name # "Announcement" /\ Has(page, s.source) =>
         \A r \in {Region(page, s.source)} \ {Nothing} :
           /\ page[r].atomic /\ LiveOf(page[r]) # ""
           /\ LiveRegionOwnerInGraph(graph', s.source) = r \/ s.source = r
           /\ \A x \in ToSet(Ancestors(page, s.source)) \cap DOMAIN graph :
                IsAtomicLiveRegionOwner(graph[x]) => x = r
           => announced'.text = IF IsProtected(graph', r) THEN Redacted ELSE Content(page, r)]_vars

\* Nothing is announced of an object that is in no live region, neither on the page nor
\* as the graph has its ancestors (engine.go:2951-3156).
OnlyLiveIsSpoken ==
  [][\A s \in HandledSignals :
       announced' # Nothing /\ s.name # "Announcement" /\ Has(page, s.source) =>
         \E x \in ToSet(Ancestors(page, s.source)) :
           LiveOf(page[x]) # "" \/ (Has(graph', x) /\ LiveOf(graph'[x]) # "")]_vars

\* No announcement has a secret of an object that the graph holds by then, whatever signal
\* it is for, whichever region is read for it, and whether the object is still there
\* (engine.go:3409-3435).  Nothing is promised of an object that the graph does not hold: a
\* child that was just inserted below a password is announced as it is in a region that is
\* not atomic (engine.go:3184-3277), until a refresh.
KnownSecretsStayUnspoken ==
  \A o \in DOMAIN workload.secrets :
    Has(graph, o) => announced = Nothing \/ ~Tells(workload, o, announced.text)

\* Every region around an object, on the page and as the graph has it, is another one where
\* only additions matter.
AdditionsOnly(o) ==
  \A tree \in {page, graph} : \A x \in ToSet(Ancestors(page, o)) \cap DOMAIN tree :
    tree[x].live # "" \/ LiveOf(tree[x]) # "" => x # o /\ tree[x].relevant = {"additions"}

\* In regions where only additions matter, no text of an object that the graph holds is
\* announced, neither as a change nor as an addition (engine.go:3209-3218).
KnownEditsAreQuiet ==
  [][\A s \in HandledSignals :
       /\ s.name \in {"TextChanged", "PropertyChange"}
       /\ Has(page, s.source) /\ Has(graph', s.source) /\ AdditionsOnly(s.source)
       => announced' = Nothing]_vars

\* A region is quiet while it is busy (engine_test.go:1929-1933).
BusyIsQuiet ==
  [][\A s \in HandledSignals :
       s.name # "Announcement" /\ Has(page, s.source) /\ Region(page, s.source) # Nothing
       /\ page[Region(page, s.source)].busy => announced' = Nothing]_vars
=============================================================================
