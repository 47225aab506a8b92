---------------------------- MODULE CursorsProofs ----------------------------
(***************************************************************************)
(* Theorems about Cursors: for every set of trees that are trees, of       *)
(* whatever size and with whatever texts, and for every change of the page *)
(* the review cursor stays in its text, moves make progress and stay in    *)
(* their document, and a refresh keeps the place.                          *)
(*                                                                         *)
(* First what a recursive function on the natural numbers and a sequence   *)
(* are; then what a graph tells of each object, and the review cursor,     *)
(* which needs no more; then the reading order that the walk of a tree     *)
(* gives, and the moves of the browse cursor along it; then documents,     *)
(* which are together in that order; then the theorems.                    *)
(***************************************************************************)
EXTENDS Cursors, WellFoundedInduction, FiniteSetTheorems, TLAPS

-----------------------------------------------------------------------------
(* Natural numbers, and functions that are defined by recursion on them *)

\* The order of the natural numbers is well-founded, as a relation.
LEMMA LessThan ==
  \E R : IsWellFoundedOn(R, Nat) /\ \A x, y \in Nat : <<y, x>> \in R <=> y < x
<1>1. IsWellFoundedOn(OpToRel(<,Nat), Nat) BY NatLessThanWellFounded, Zenon
<1>2. \A x, y \in Nat : <<y, x>> \in OpToRel(<,Nat) <=> y < x
  BY DEF OpToRel
<1> HIDE DEF IsWellFoundedOn, OpToRel
<1> QED BY <1>1, <1>2, Zenon

\* Every set of natural numbers has a least one.
LEMMA LeastNat ==
  ASSUME NEW T, T \subseteq Nat, T # {}
  PROVE  \E x \in T : \A y \in T : x <= y
<1> HIDE DEF IsWellFoundedOn, OpToRel
<1>0. PICK R : IsWellFoundedOn(R, Nat) /\ \A x, y \in Nat : <<y, x>> \in R <=> y < x
  BY LessThan, Zenon
<1>1. \E x \in T : \A y \in T : ~ (<<y, x>> \in R)
  BY <1>0, WFMin
<1>2. PICK x \in T : \A y \in T : ~ (<<y, x>> \in R) BY <1>1
<1>3. ASSUME NEW y \in T PROVE x <= y
  <2>1. x \in Nat /\ y \in Nat OBVIOUS
  <2>2. ~(y < x) BY <2>1, <1>2, <1>0
  <2> QED BY <2>1, <2>2
<1> QED BY <1>3

\* Induction, over a set instead of a predicate.
LEMMA InductionOver ==
  ASSUME NEW P, 0 \in P, \A n \in Nat : n \in P => n + 1 \in P
  PROVE  Nat \subseteq P
<1> SUFFICES ASSUME ~(Nat \subseteq P) PROVE FALSE OBVIOUS
<1> DEFINE T == {n \in Nat : n \notin P}
<1>1. PICK x \in T : \A y \in T : x <= y BY LeastNat
<1>2. x # 0 BY <1>1
<1>3. x - 1 \in Nat /\ x - 1 \notin T BY <1>1, <1>2
<1>4. x - 1 \in P /\ (x-1)+1 = x BY <1>3, <1>1
<1>5. x \in P BY <1>3, <1>4
<1> QED BY <1>1, <1>5

\* The least and the greatest member of a set, as the community modules choose them.
LEMMA MinOfSome ==
  ASSUME NEW T, T \subseteq Nat, T # {}
  PROVE  Min(T) \in T /\ \A y \in T : Min(T) <= y
<1>1. PICK x \in T : \A y \in T : x <= y
  BY LeastNat
<1> QED
  BY <1>1 DEF Min

\* A function of a set into itself can be repeated any number of times.
LEMMA Iteration ==
  ASSUME NEW S, NEW c \in S, NEW D \in [S -> S]
  PROVE  \E f \in [Nat -> S] : f[0] = c /\ \A n \in Nat : f[n + 1] = D[f[n]]
<1> DEFINE Beginnings(n) == {h \in [0..n -> S] : h[0] = c /\ \A k \in 0..n : k # n => h[k + 1] = D[h[k]]}
           P == {n \in Nat : Beginnings(n) # {}}
<1>1. 0 \in P
  <2>1. [k \in 0..0 |-> c] \in Beginnings(0)
    OBVIOUS
  <2> QED
    BY <2>1
<1>2. ASSUME NEW n \in Nat, n \in P PROVE n + 1 \in P
  <2>1. PICK h \in Beginnings(n) : TRUE
    BY <1>2
  <2> DEFINE g == [k \in 0..n+1 |-> IF k = n + 1 THEN D[h[n]] ELSE h[k]]
  <2>2. h[n] \in S /\ D[h[n]] \in S
    BY <2>1
  <2>3. g \in [0..n+1 -> S]
    BY <2>1, <2>2
  <2>4. g[0] = c
    BY <2>1
  <2>5. ASSUME NEW k \in 0..n+1, k # n + 1 PROVE g[k + 1] = D[g[k]]
    BY <2>1, <2>5
  <2>6. g \in Beginnings(n + 1)
    BY <2>3, <2>4, <2>5
  <2> HIDE DEF g
  <2> QED
    BY <2>6
<1>3. Nat \subseteq P
  <2> HIDE DEF P
  <2> QED BY <1>1, <1>2, InductionOver
<1>4. ASSUME NEW m \in Nat, NEW n \in Nat, NEW g \in Beginnings(m), NEW h \in Beginnings(n)
      PROVE  \A k \in Nat : k <= m /\ k <= n => g[k] = h[k]
  <2> DEFINE Q == {k \in Nat : k <= m /\ k <= n => g[k] = h[k]}
  <2>1. 0 \in Q
    OBVIOUS
  <2>2. ASSUME NEW k \in Nat, k \in Q PROVE k + 1 \in Q
    BY <2>2
  <2>3. Nat \subseteq Q
    <3> HIDE DEF Q
    <3> QED BY <2>1, <2>2, InductionOver
  <2> QED
    BY <2>3
<1> DEFINE Run(n) == CHOOSE h \in Beginnings(n) : TRUE
<1>5. \A n \in Nat : Run(n) \in Beginnings(n)
  <2> SUFFICES ASSUME NEW n \in Nat PROVE Run(n) \in Beginnings(n)
    OBVIOUS
  <2>1. Beginnings(n) # {}
    BY <1>3
  <2> HIDE DEF Beginnings
  <2> QED BY <2>1
<1> HIDE DEF Run
<1>6. \A n \in Nat : /\ Run(n) \in [0..n -> S] /\ Run(n)[0] = c
                   /\ \A k \in 0..n : k # n => Run(n)[k + 1] = D[Run(n)[k]]
  BY <1>5
<1>7. \A n \in Nat : Run(n + 1)[n] = Run(n)[n]
  <2> SUFFICES ASSUME NEW n \in Nat PROVE Run(n + 1)[n] = Run(n)[n]
    OBVIOUS
  <2>1. Run(n) \in Beginnings(n) /\ Run(n + 1) \in Beginnings(n + 1) /\ n + 1 \in Nat
    BY <1>5
  <2> HIDE DEF Beginnings
  <2> QED BY <2>1, <1>4
<1> DEFINE f == [n \in Nat |-> Run(n)[n]]
<1>8. f \in [Nat -> S] /\ f[0] = c
  <2>1. \A n \in Nat : Run(n)[n] \in S
    BY <1>6
  <2> QED BY <2>1, <1>6
<1>9. ASSUME NEW n \in Nat PROVE f[n + 1] = D[f[n]]
  <2>1. n + 1 \in Nat /\ n \in 0..n+1 /\ n # n + 1
    OBVIOUS
  <2>2. Run(n + 1)[n + 1] = D[Run(n + 1)[n]]
    BY <2>1, <1>6
  <2> QED BY <2>1, <2>2, <1>7
<1> HIDE DEF f
<1> QED
  BY <1>8, <1>9


\* A set of natural numbers with an upper bound has a greatest one.
LEMMA MaxOfSome ==
  ASSUME NEW T, T \subseteq Nat, T # {}, NEW b \in Nat, \A y \in T : y <= b
  PROVE  Max(T) \in T /\ \A y \in T : y <= Max(T)
<1> DEFINE U == {b - y : y \in T}
<1>1. U \subseteq Nat /\ U # {}
  <2>1. \A y \in T : y \in Nat /\ b - y \in Nat
    OBVIOUS
  <2> QED BY <2>1
<1>2. PICK u \in U : \A w \in U : u <= w
  <2> HIDE DEF U
  <2> QED BY <1>1, LeastNat
<1>3. PICK x \in T : u = b - x
  OBVIOUS
<1>4. \A y \in T : y <= x
  BY <1>2, <1>3
<1> QED BY <1>4 DEF Max

Repeats(f, S, c, D) == f \in [Nat -> S] /\ f[0] = c /\ \A n \in Nat : f[n + 1] = D[f[n]]

\* Iteration for arguments that are not yet at hand.
LEMMA Repetition == \A S, c, D : c \in S /\ D \in [S -> S] => \E f : Repeats(f, S, c, D)
BY Iteration DEF Repeats

Counts(f, S, c, D) == f \in [Nat -> S] /\ f[0] = c /\ \A n \in Nat : f[n + 1] = D[n + 1][f[n]]

\* The same for a recursion that counts.
LEMMA CountedIteration == \A S, c, D : c \in S /\ D \in [Nat -> [S -> S]] => \E f : Counts(f, S, c, D)
<1> SUFFICES ASSUME NEW S, NEW c \in S, NEW D \in [Nat -> [S -> S]] PROVE \E f : Counts(f, S, c, D)
  OBVIOUS
<1>1. PICK T : T = [count : Nat, value : S]
  OBVIOUS
<1> DEFINE G(p) == [count |-> p.count + 1, value |-> D[p.count + 1][p.value]]
<1>2. PICK e : e = [count |-> 0, value |-> c]
  OBVIOUS
<1>3. PICK H : H = [p \in T |-> G(p)]
  OBVIOUS
<1>4. ASSUME NEW p \in T PROVE G(p) \in T
  <2>1. p.count + 1 \in Nat /\ p.value \in S
    BY <1>1
  <2>2. D[p.count + 1] \in [S -> S]
    BY <2>1
  <2> QED BY <1>1, <2>1, <2>2
<1>5. e \in T /\ H \in [T -> T]
  BY <1>1, <1>2, <1>3, <1>4
<1>6. PICK g \in [Nat -> T] : g[0] = e /\ \A n \in Nat : g[n + 1] = H[g[n]]
  <2>1. \E g : Repeats(g, T, e, H)
    BY <1>5, Repetition
  <2> QED BY <2>1 DEF Repeats
<1> DEFINE P == {n \in Nat : g[n].count = n}
<1>7. 0 \in P
  BY <1>2, <1>6
<1>8. ASSUME NEW n \in Nat, n \in P PROVE n + 1 \in P
  <2>1. g[n + 1] = G(g[n]) /\ g[n].count = n
    BY <1>3, <1>6, <1>8
  <2> QED BY <2>1
<1>9. Nat \subseteq P
  <2> HIDE DEF P
  <2> QED BY <1>7, <1>8, InductionOver
<1> DEFINE f == [n \in Nat |-> g[n].value]
<1>10. f \in [Nat -> S] /\ f[0] = c
  BY <1>1, <1>2, <1>6
<1>11. ASSUME NEW n \in Nat PROVE f[n + 1] = D[n + 1][f[n]]
  <2>1. g[n].count = n
    BY <1>9
  <2>2. g[n + 1] = G(g[n])
    BY <1>3, <1>6
  <2> QED BY <2>1, <2>2
<1> HIDE DEF f
<1>12. Counts(f, S, c, D)
  BY <1>10, <1>11 DEF Counts
<1> QED BY <1>12

-----------------------------------------------------------------------------
(* Sequences, and what is in them *)

\* What a sequence is in terms of its parts.
LEMMA Prepended ==
  ASSUME NEW S, NEW e \in S, NEW s \in Seq(S)
  PROVE  /\ <<e>> \o s \in Seq(S)
         /\ Len(<<e>> \o s) = Len(s) + 1
         /\ (<<e>> \o s)[1] = e
         /\ \A i \in 1..Len(s) : (<<e>> \o s)[i + 1] = s[i]
         /\ ToSet(<<e>> \o s) = {e} \cup ToSet(s)
<1> DEFINE t == <<e>> \o s
<1>1. /\ t \in Seq(S) /\ Len(t) = Len(s) + 1 /\ t[1] = e
      /\ \A i \in 1..Len(s) : t[i + 1] = s[i]
  <2>1. <<e>> \in Seq(S) /\ Len(<<e>>) = 1 /\ <<e>>[1] = e /\ Len(s) \in Nat
    OBVIOUS
  <2>2. t \in Seq(S) /\ Len(t) = Len(s) + 1
    BY <2>1
  <2>3. t[1] = e
    BY <2>1
  <2>4. ASSUME NEW i \in 1..Len(s) PROVE t[i + 1] = s[i]
    <3>1. i + 1 > 1 /\ i + 1 <= 1 + Len(s) /\ (i + 1) - 1 = i
      BY <2>1
    <3> QED BY <3>1, <2>1
  <2> QED BY <2>2, <2>3, <2>4
<1>2. DOMAIN (<<e>> \o s) = 1..Len(s) + 1 /\ DOMAIN s = 1..Len(s)
  BY <1>1
<1>3. ToSet(<<e>> \o s) = {e} \cup ToSet(s)
  <2>1. t[1] = e /\ (\A i \in 1..Len(s) : t[i + 1] = s[i]) /\ DOMAIN t = 1..Len(s) + 1 /\ Len(s) \in Nat
    BY <1>1, <1>2
  <2>2. \A i \in DOMAIN t : i = 1 \/ (i - 1 \in 1..Len(s) /\ t[i] = s[i - 1])
    <3> HIDE DEF t
    <3> SUFFICES ASSUME NEW i \in DOMAIN t, i # 1 PROVE i - 1 \in 1..Len(s) /\ t[i] = s[i - 1]
      OBVIOUS
    <3>1. i - 1 \in 1..Len(s) /\ i = (i - 1) + 1
      BY <2>1
    <3> QED BY <2>1, <3>1
  <2> HIDE DEF t
  <2>3. ToSet(t) = {e} \cup ToSet(s)
    <3>1. \A x : x \in ToSet(t) => x = e \/ x \in ToSet(s)
      BY <2>1, <2>2, <1>2 DEF ToSet
    <3>2. e \in ToSet(t)
      <4>1. 1 \in DOMAIN t BY <2>1
      <4> QED BY <2>1, <4>1 DEF ToSet
    <3>3. \A x : x \in ToSet(s) => x \in ToSet(t)
      <4> SUFFICES ASSUME NEW i \in DOMAIN s PROVE s[i] \in ToSet(t)
        BY DEF ToSet
      <4>1. i + 1 \in DOMAIN t /\ t[i + 1] = s[i]
        BY <2>1, <1>2
      <4> QED BY <4>1 DEF ToSet
    <3> QED BY <3>1, <3>2, <3>3
  <2> QED BY <2>3 DEF t
<1> QED
  BY <1>1, <1>3

LEMMA Part ==
  ASSUME NEW S, NEW s \in Seq(S), NEW m \in 1..Len(s)+1, NEW n \in 0..Len(s)
  PROVE  SubSeq(s, m, n) \in Seq(S) /\ ToSet(SubSeq(s, m, n)) \subseteq ToSet(s)
<1>1. Len(s) \in Nat /\ DOMAIN s = 1..Len(s)
  OBVIOUS
<1>2. SubSeq(s, m, n) \in Seq(S)
  BY <1>1
<1>3. DOMAIN SubSeq(s, m, n) = 1..Len(SubSeq(s, m, n)) /\ Len(SubSeq(s, m, n)) = IF m <= n THEN n - m + 1 ELSE 0
  BY <1>1
<1>4. ASSUME NEW i \in DOMAIN SubSeq(s, m, n) PROVE SubSeq(s, m, n)[i] = s[m + i - 1] /\ m + i - 1 \in DOMAIN s
  BY <1>1, <1>3
<1>5. \A i \in DOMAIN SubSeq(s, m, n) : SubSeq(s, m, n)[i] \in ToSet(s)
  BY <1>4 DEF ToSet
<1> QED
  BY <1>2, <1>5 DEF ToSet

LEMMA Listed ==
  ASSUME NEW S, NEW n \in Nat, NEW s \in [1..n -> S]
  PROVE  s \in Seq(S) /\ Len(s) = n
OBVIOUS

Longer(S, s, e, t) == t \in Seq(S) /\ ToSet(t) = ToSet(s) \cup {e}

LEMMA Appended == \A S, s, e : s \in Seq(S) /\ e \in S => Longer(S, s, e, Append(s, e))
<1> SUFFICES ASSUME NEW S, NEW s \in Seq(S), NEW e \in S PROVE Longer(S, s, e, Append(s, e))
  OBVIOUS
<1> DEFINE t == Append(s, e)
<1>1. t \in Seq(S) /\ DOMAIN t = 1..Len(s)+1 /\ t[Len(s)+1] = e /\ Len(s) \in Nat /\ DOMAIN s = 1..Len(s)
      /\ \A i \in 1..Len(s) : t[i] = s[i]
  OBVIOUS
<1> HIDE DEF t
<1>2. \A i \in DOMAIN t : i \in DOMAIN s \/ i = Len(s) + 1
  BY <1>1
<1>3. ToSet(t) = ToSet(s) \cup {e}
  BY <1>1, <1>2 DEF ToSet
<1> QED
  BY <1>1, <1>3 DEF t, Longer

LEMMA Single == ASSUME NEW S, NEW e \in S PROVE <<e>> \in Seq(S) /\ ToSet(<<e>>) = {e}
BY DEF ToSet

-----------------------------------------------------------------------------
(* Trees, and what is above an object *)

Spots(nodes) == DOMAIN nodes \cup {Nothing}

Rooted(nodes) == Nothing \notin DOMAIN nodes /\ \A o \in DOMAIN nodes : nodes[o].parent \in Spots(nodes)

\* The paths are what their definition says, for a function that is defined by itself
\* is that function only if there is one.
LEMMA PathsUpDefined ==
  ASSUME NEW nodes, Rooted(nodes)
  PROVE  /\ PathsUp(nodes) \in [Nat -> [Spots(nodes) -> Seq(DOMAIN nodes)]]
         /\ \A o \in Spots(nodes) : PathsUp(nodes)[0][o] = <<>>
         /\ \A n \in Nat, o \in Spots(nodes) :
              PathsUp(nodes)[n + 1][o] =
                IF o \in DOMAIN nodes THEN <<o>> \o PathsUp(nodes)[n][nodes[o].parent] ELSE <<>>
<1>1. PICK S : S = [Spots(nodes) -> Seq(DOMAIN nodes)]
  OBVIOUS
<1>2. PICK c : c = [o \in Spots(nodes) |-> <<>>]
  OBVIOUS
<1> DEFINE G(g) == [o \in Spots(nodes) |-> IF o \in DOMAIN nodes THEN <<o>> \o g[nodes[o].parent] ELSE <<>>]
<1>3. PICK D : D = [g \in S |-> G(g)]
  OBVIOUS
<1>4. c \in S
  BY <1>1, <1>2
<1>5. ASSUME NEW g \in S PROVE G(g) \in S
  <2>1. ASSUME NEW o \in DOMAIN nodes PROVE <<o>> \o g[nodes[o].parent] \in Seq(DOMAIN nodes)
    <3>1. nodes[o].parent \in Spots(nodes)
      BY DEF Rooted
    <3>2. g[nodes[o].parent] \in Seq(DOMAIN nodes)
      BY <1>1, <3>1
    <3> QED BY <3>2, Prepended
  <2>2. ASSUME NEW o \in Spots(nodes)
        PROVE  (IF o \in DOMAIN nodes THEN <<o>> \o g[nodes[o].parent] ELSE <<>>) \in Seq(DOMAIN nodes)
    <3>1. CASE o \in DOMAIN nodes
      BY <3>1, <2>1
    <3>2. CASE o \notin DOMAIN nodes
      BY <3>2
    <3> QED BY <3>1, <3>2
  <2> QED BY <1>1, <2>2
<1>6. D \in [S -> S]
  BY <1>3, <1>5
<1>7. PICK f : Repeats(f, S, c, D)
  BY <1>4, <1>6, Repetition
<1>8. f \in [Nat -> S] /\ f[0] = c /\ \A n \in Nat : f[n + 1] = G(f[n])
  BY <1>3, <1>7 DEF Repeats
<1> DEFINE E(h, n) == [o \in Spots(nodes) |->
                        IF n = 0 \/ o \notin DOMAIN nodes THEN <<>> ELSE <<o>> \o h[n - 1][nodes[o].parent]]
           Defines(h) == h = [n \in Nat |-> E(h, n)]
<1>9. Defines(f)
  <2>1. ASSUME NEW n \in Nat PROVE f[n] = E(f, n)
    <3>1. CASE n = 0
      BY <3>1, <1>2, <1>8
    <3>2. CASE n # 0
      <4>1. n - 1 \in Nat /\ (n - 1) + 1 = n
        BY <3>2
      <4>2. f[n] = G(f[n - 1])
        BY <4>1, <1>8
      <4> QED BY <3>2, <4>2
    <3> QED BY <3>1, <3>2
  <2>2. f = [n \in Nat |-> f[n]]
    BY <1>8
  <2> HIDE DEF E
  <2> QED BY <2>1, <2>2
<1>10. PathsUp(nodes) = CHOOSE h : Defines(h)
  BY DEF PathsUp, Spots
<1>11. Defines(PathsUp(nodes))
  <2> HIDE DEF Defines
  <2> QED BY <1>9, <1>10
<1>12. PICK path : path = PathsUp(nodes)
  OBVIOUS
<1>13. ASSUME NEW n \in Nat PROVE path[n] = E(path, n)
  <2> HIDE DEF E
  <2> QED BY <1>11, <1>12
<1>14. path[0] = c
  BY <1>2, <1>13
<1>15. ASSUME NEW n \in Nat PROVE path[n + 1] = G(path[n])
  <2>1. n + 1 \in Nat /\ n + 1 # 0 /\ (n + 1) - 1 = n
    OBVIOUS
  <2>2. path[n + 1] = E(path, n + 1)
    BY <2>1, <1>13
  <2> QED BY <2>1, <2>2
<1>16. path \in [Nat -> S]
  <2> DEFINE P == {n \in Nat : path[n] \in S}
  <2>1. 0 \in P
    BY <1>4, <1>14
  <2>2. ASSUME NEW n \in Nat, n \in P PROVE n + 1 \in P
    <3> HIDE DEF G
    <3>1. path[n + 1] = G(path[n]) /\ path[n] \in S /\ n + 1 \in Nat
      BY <1>15, <2>2
    <3> QED BY <1>5, <3>1
  <2>3. Nat \subseteq P
    <3> HIDE DEF P
    <3> QED BY <2>1, <2>2, InductionOver
  <2>4. path = [n \in Nat |-> path[n]]
    <3> HIDE DEF E
    <3>1. path = [n \in Nat |-> E(path, n)]
      BY <1>11, <1>12
    <3> QED BY <3>1
  <2> QED BY <2>3, <2>4
<1>17. ASSUME NEW n \in Nat, NEW o \in Spots(nodes)
       PROVE  path[n + 1][o] = IF o \in DOMAIN nodes THEN <<o>> \o path[n][nodes[o].parent] ELSE <<>>
  <2>1. path[n + 1] = G(path[n])
    BY <1>15
  <2> QED BY <2>1
<1> QED
  BY <1>1, <1>2, <1>12, <1>14, <1>16, <1>17

-----------------------------------------------------------------------------
(* Texts and their units *)

IsText(t) == t \in Seq({t[i] : i \in DOMAIN t})

\* A text is a sequence of whatever it holds.
LEMMA TextIs ==
  ASSUME NEW t, IsText(t)
  PROVE  Len(t) \in Nat /\ DOMAIN t = 1..Len(t) /\ (t = <<>> <=> Len(t) = 0)
<1> DEFINE S == {t[i] : i \in DOMAIN t}
<1>1. t \in Seq(S)
  BY DEF IsText
<1> HIDE DEF S
<1> QED BY <1>1

LEMMA TextFrom ==
  ASSUME NEW n \in Nat, NEW t, t = [i \in 1..n |-> t[i]]
  PROVE  IsText(t) /\ Len(t) = n
<1> DEFINE S == {t[i] : i \in DOMAIN t}
<1>1. t \in [1..n -> S]
  <2>1. DOMAIN t = 1..n
    <3> PICK e : e = t
      OBVIOUS
    <3>1. e = [i \in 1..n |-> e[i]]
      OBVIOUS
    <3> QED BY <3>1
  <2> QED BY <2>1
<1> HIDE DEF S
<1>2. t \in Seq(S) /\ Len(t) = n
  BY <1>1, Listed
<1> QED BY <1>2 DEF IsText, S

LEMMA SequenceIsText ==
  ASSUME NEW S, NEW t \in Seq(S)
  PROVE  IsText(t)
<1>1. Len(t) \in Nat /\ t = [i \in 1..Len(t) |-> t[i]]
  OBVIOUS
<1> QED BY <1>1, TextFrom

LEMMA PickedIsText ==
  ASSUME NEW t, NEW places, IsFiniteSet(places)
  PROVE  IsText(Picked(t, places))
<1>1. Cardinality(places) \in Nat
  BY FS_CardinalityType
<1> DEFINE Nth(i) == CHOOSE k \in places : Cardinality({j \in places : j <= k}) = i
           E(i) == t[Nth(i)]
<1>2. Picked(t, places) = [i \in 1..Cardinality(places) |-> E(i)]
  BY DEF Picked
<1> HIDE DEF E
<1>3. Picked(t, places) = [i \in 1..Cardinality(places) |-> Picked(t, places)[i]]
  BY <1>2
<1> QED BY <1>1, <1>3, TextFrom

LEMMA SomePlaces ==
  ASSUME NEW n \in Nat, NEW places, places \subseteq 1..n
  PROVE  IsFiniteSet(places)
<1>1. IsFiniteSet(1..n)
  BY FS_Interval
<1> QED BY <1>1, FS_Subset

LEMMA CharactersIsText ==
  ASSUME NEW t, IsText(t)
  PROVE  IsText(Characters(t))
<1> DEFINE places == {k \in 1..Len(t) : t[k] # Embedded}
<1>1. places \subseteq 1..Len(t) /\ Len(t) \in Nat
  BY TextIs
<1> HIDE DEF places
<1>2. IsFiniteSet(places)
  BY <1>1, SomePlaces
<1>3. IsText(Picked(t, places))
  BY <1>2, PickedIsText
<1> QED BY <1>3 DEF Characters, places

LEMMA NormalizedIsText ==
  ASSUME NEW t, IsText(t)
  PROVE  IsText(NormalizeSpokenText(t))
<1> DEFINE body == Characters(t)
           Inner(k) == /\ k > 1 /\ body[k - 1] \notin White
                       /\ \E j \in k..Len(body) : body[j] \notin White
           places == {k \in 1..Len(body) : body[k] \notin White \/ Inner(k)}
           said == Picked(body, places)
<1>1. IsText(body)
  BY CharactersIsText
<1>2. Len(body) \in Nat
  BY <1>1, TextIs
<1>3. IsFiniteSet(places)
  <2>1. places \subseteq 1..Len(body)
    OBVIOUS
  <2> HIDE DEF places
  <2> QED BY <1>2, <2>1, SomePlaces
<1>4. IsText(said)
  <2> HIDE DEF places
  <2> QED BY <1>3, PickedIsText
<1>5. NormalizeSpokenText(t) = [i \in DOMAIN said |-> IF said[i] \in White THEN " " ELSE said[i]]
  BY DEF NormalizeSpokenText
<1> HIDE DEF said
<1>6. Len(said) \in Nat /\ DOMAIN said = 1..Len(said)
  BY <1>4, TextIs
<1>7. NormalizeSpokenText(t) = [i \in 1..Len(said) |-> NormalizeSpokenText(t)[i]]
  BY <1>5, <1>6
<1> QED BY <1>6, <1>7, TextFrom

\* What a node says, and what the cursors move through in it.
LEMMA NodeTexts ==
  ASSUME NEW n, IsText(n.name), IsText(n.text)
  PROVE  /\ IsText(SpokenContent(n)) /\ IsText(NavigableText(n)) /\ IsText(ReadableText(n))
         /\ NavigableText(n) # <<>> => ReadableText(n) = NavigableText(n)
<1>1. IsText(<<>>)
  <2>1. <<>> \in Seq({})
    OBVIOUS
  <2> QED BY <2>1, SequenceIsText
<1>2. IsText(NormalizeSpokenText(n.name)) /\ IsText(NormalizeSpokenText(n.text)) /\ IsText(Characters(n.text))
  BY NormalizedIsText, CharactersIsText
<1>3. IsText(SpokenContent(n))
  BY <1>1, <1>2, Zenon DEF SpokenContent
<1>4. IsText(NavigableText(n))
  BY <1>1, <1>2, <1>3, Zenon DEF NavigableText
<1>5. IsText(ReadableText(n))
  BY <1>3, <1>4, Zenon DEF ReadableText
<1> QED BY <1>3, <1>4, <1>5, Zenon DEF ReadableText

\* The position of a cell.
SameCell(m, n) ==
  m.row = n.row /\ m.column = n.column /\ m.rowSpan = n.rowSpan /\ m.columnSpan = n.columnSpan

\* What the graph has of a node, redacted or not.
Copies(m, n) ==
  /\ DOMAIN m = DOMAIN n /\ IsText(m.name) /\ IsText(m.text)
  /\ m.parent = n.parent /\ m.children = n.children /\ m.role = n.role /\ m.table = n.table
  /\ SameCell(m, n)

LEMMA NodeIsCopy ==
  ASSUME NEW objects, NEW n \in Node(objects)
  PROVE  Copies(n, n)
<1>1. n.name \in Seq(STRING) /\ n.text \in Seq(STRING)
  BY DEF Node
<1>2. IsText(n.name) /\ IsText(n.text)
  BY <1>1, SequenceIsText
<1> QED BY <1>2 DEF Copies, SameCell

LEMMA RedactedIsCopy ==
  ASSUME NEW objects, NEW n \in Node(objects)
  PROVE  Copies(RedactedContentCopy(n), n)
<1> DEFINE text == IF n.text = <<>> THEN n.text ELSE <<"*">>
<1>1. IsText(<<"*">>)
  <2>1. <<"*">> \in Seq({"*"})
    OBVIOUS
  <2> QED BY <2>1, SequenceIsText
<1>2. IsText(text)
  <2>1. IsText(n.text)
    BY NodeIsCopy DEF Copies
  <2> QED BY <1>1, <2>1
<1>3. RedactedContentCopy(n) =
        [n EXCEPT !.marks = n.marks \cup {"redacted"}, !.name = <<"*">>, !.text = text,
                  !.selection = [start |-> 0, end |-> 0], !.caret = 0]
  BY DEF RedactedContentCopy
<1> HIDE DEF text
<1>4. PICK m, s, x, e : /\ m = n.marks \cup {"redacted"} /\ s = <<"*">> /\ x = text
                        /\ e = [start |-> 0, end |-> 0]
  OBVIOUS
<1>5. PICK r : r = [n EXCEPT !.marks = m, !.name = s, !.text = x, !.selection = e, !.caret = 0]
  OBVIOUS
<1>6. r = RedactedContentCopy(n)
  BY <1>3, <1>4, <1>5
<1>7. IsText(s) /\ IsText(x)
  BY <1>1, <1>2, <1>4
<1>8. /\ DOMAIN r = DOMAIN n /\ r.name = s /\ r.text = x
      /\ r.parent = n.parent /\ r.children = n.children /\ r.role = n.role /\ r.table = n.table
      /\ SameCell(r, n)
  BY <1>5 DEF Node, SameCell
<1> QED BY <1>6, <1>7, <1>8 DEF Copies

-----------------------------------------------------------------------------
(* Ranges of a text *)

\* Ranges that lie in a text of this length.
Within(ranges, n) == \A r \in ranges : r.start \in 0..n /\ r.end \in Int /\ r.end <= n

\* Ranges in a text have a first and a last one.
LEMMA ForemostIs ==
  ASSUME NEW n \in Nat, NEW ranges, Within(ranges, n), ranges # {}, NEW d \in {-1, 1}
  PROVE  Foremost(ranges, d) \in ranges
<1> DEFINE starts == {r.start : r \in ranges}
<1>1. starts \subseteq Nat /\ starts # {} /\ \A k \in starts : k <= n
  BY DEF Within
<1> HIDE DEF starts
<1>2. \E k \in starts : \A j \in starts : d * (j - k) >= 0
  <2>1. CASE d = 1
    <3>1. PICK k \in starts : \A j \in starts : k <= j
      BY <1>1, LeastNat
    <3> QED BY <2>1, <3>1, <1>1
  <2>2. CASE d = -1
    <3>1. Max(starts) \in starts /\ \A j \in starts : j <= Max(starts)
      BY <1>1, MaxOfSome
    <3>2. PICK k \in starts : \A j \in starts : j <= k
      BY <3>1
    <3>3. \A j \in starts : d * (j - k) >= 0
      BY <2>2, <3>2, <1>1
    <3> QED BY <3>3
  <2> QED BY <2>1, <2>2
<1>3. PICK r \in ranges : \A q \in ranges : d * (q.start - r.start) >= 0
  BY <1>2 DEF starts
<1> QED BY <1>3 DEF Foremost

LEMMA EdgeRanges ==
  ASSUME NEW n \in Nat, NEW ranges, Within(ranges, n), ranges # {}
  PROVE  FirstRange(ranges) \in ranges /\ LastRange(ranges) \in ranges
<1>1. 1 \in {-1, 1} /\ -1 \in {-1, 1}
  OBVIOUS
<1> QED BY <1>1, ForemostIs DEF FirstRange, LastRange

\* A move finds a range strictly ahead, if any.
LEMMA MoveTextUnitIs ==
  ASSUME NEW n \in Nat, NEW ranges, Within(ranges, n), NEW offset, NEW d \in {-1, 1},
         MoveTextUnit(ranges, offset, d) # NoRange
  PROVE  /\ MoveTextUnit(ranges, offset, d) \in ranges
         /\ d * (MoveTextUnit(ranges, offset, d).start - offset) > 0
<1> DEFINE ahead == {r \in ranges : d * (r.start - offset) > 0}
<1>1. MoveTextUnit(ranges, offset, d) = IF ahead = {} THEN NoRange ELSE Foremost(ahead, d)
  BY DEF MoveTextUnit
<1>2. ahead # {} /\ MoveTextUnit(ranges, offset, d) = Foremost(ahead, d)
  BY <1>1
<1>3. Within(ahead, n)
  BY DEF Within
<1>4. Foremost(ahead, d) \in ahead
  <2> HIDE DEF ahead
  <2> QED BY <1>2, <1>3, ForemostIs
<1> QED BY <1>2, <1>4

LEMMA TextRangeAtIs ==
  ASSUME NEW n \in Nat, NEW ranges, Within(ranges, n), NEW offset, NEW unit
  PROVE  TextRangeAt(ranges, offset, unit) \in ranges \cup {NoRange}
<1> DEFINE Holds(r) == /\ offset >= r.start
                       /\ \/ offset < r.end \/ r.start = r.end
                          \/ unit = "line" /\ \A q \in ranges : q.start > r.start => offset < q.start
           around == {r \in ranges : Holds(r)}
<1>1. TextRangeAt(ranges, offset, unit) =
        IF around # {} THEN FirstRange(around)
        ELSE IF ranges # {} /\ offset >= LastRange(ranges).end THEN LastRange(ranges) ELSE NoRange
  BY Zenon DEF TextRangeAt
<1>2. Within(around, n) /\ around \subseteq ranges
  BY DEF Within
<1> HIDE DEF around
<1>3. around # {} => FirstRange(around) \in ranges
  BY <1>2, EdgeRanges
<1>4. ranges # {} => LastRange(ranges) \in ranges
  BY EdgeRanges
<1> QED BY <1>1, <1>3, <1>4, Zenon

\* The lines of a text lie in it, and there is always one.
LEMMA LinesAre ==
  ASSUME NEW t, IsText(t)
  PROVE  /\ Within(LineRanges(t), Len(t))
         /\ \A r \in LineRanges(t) : r.start # 0 => t[r.start] = "\n"
         /\ \E r \in LineRanges(t) : r.start = 0
<1> DEFINE starts == {0} \cup {k \in 1..Len(t) : t[k] = "\n"}
           Later(k) == {e \in starts : e > k}
           End(k) == IF Later(k) = {} THEN Len(t)
                     ELSE LET e == Min(Later(k)) - 1 IN IF e > k /\ t[e] = "\r" THEN e - 1 ELSE e
<1>0. Len(t) \in Nat /\ starts \subseteq 0..Len(t) /\ 0 \in starts
  BY TextIs
<1>1. LineRanges(t) = {[start |-> k, end |-> End(k)] : k \in starts}
  BY DEF LineRanges
<1>2. ASSUME NEW k \in starts PROVE End(k) \in Int /\ End(k) <= Len(t)
  <2>1. CASE Later(k) = {}
    BY <2>1, <1>0
  <2>2. CASE Later(k) # {}
    <3>1. Later(k) \subseteq Nat /\ Later(k) \subseteq 0..Len(t)
      <4>1. Later(k) \subseteq starts
        OBVIOUS
      <4>2. 0..Len(t) \subseteq Nat
        BY <1>0
      <4> HIDE DEF starts, Later
      <4> QED BY <1>0, <4>1, <4>2, Zenon
    <3> DEFINE e == Min(Later(k))
    <3>2. e \in Later(k)
      <4> HIDE DEF Later
      <4> QED BY <2>2, <3>1, MinOfSome
    <3>3. e \in 0..Len(t)
      BY <3>1, <3>2
    <3>4. End(k) = e - 1 \/ End(k) = (e - 1) - 1
      BY <2>2
    <3> HIDE DEF e, End
    <3> QED BY <1>0, <3>3, <3>4
  <2> QED BY <2>1, <2>2
<1>3. \A k \in starts : k # 0 => t[k] = "\n"
  OBVIOUS
<1> HIDE DEF starts, End
<1>4. \A r \in LineRanges(t) : r.start \in starts /\ r.end \in Int /\ r.end <= Len(t)
  BY <1>1, <1>2
<1>5. \E r \in LineRanges(t) : r.start = 0
  <2>1. [start |-> 0, end |-> End(0)] \in LineRanges(t)
    BY <1>0, <1>1
  <2> QED BY <2>1
<1> QED BY <1>0, <1>3, <1>4, <1>5 DEF Within

\* The words of a text lie in it.
LEMMA WordsAre ==
  ASSUME NEW t, IsText(t)
  PROVE  /\ Within(WordRanges(t), Len(t))
         /\ \A r \in WordRanges(t) : r.start < Len(t)
<1> DEFINE starts == {k \in 0..Len(t) - 1 : Letter(t[k + 1]) /\ (k = 0 \/ ~Letter(t[k]))}
           Later(k) == {e \in starts \cup {Len(t)} : e > k}
<1>0. Len(t) \in Nat /\ starts \subseteq 0..Len(t) - 1
  BY TextIs
<1>1. WordRanges(t) = {[start |-> k, end |-> Min(Later(k))] : k \in starts}
  BY DEF WordRanges
<1> HIDE DEF starts
<1>2. ASSUME NEW k \in starts PROVE Min(Later(k)) \in 0..Len(t)
  <2>1. Later(k) \subseteq 0..Len(t) /\ Len(t) \in Later(k) /\ Later(k) \subseteq Nat
    <3>1. k \in 0..Len(t) - 1
      BY <1>0
    <3>2. starts \subseteq 0..Len(t) /\ Len(t) \in 0..Len(t) /\ Len(t) > k
      BY <1>0, <3>1
    <3>3. Later(k) \subseteq starts \cup {Len(t)} /\ Len(t) \in Later(k)
      BY <3>2
    <3>4. 0..Len(t) \subseteq Nat
      BY <1>0
    <3> HIDE DEF Later
    <3> QED BY <3>2, <3>3, <3>4
  <2> HIDE DEF Later
  <2>2. Min(Later(k)) \in Later(k)
    BY <2>1, MinOfSome
  <2> QED BY <2>1, <2>2
<1> HIDE DEF Later
<1>3. \A r \in WordRanges(t) : r.start \in starts /\ r.end \in 0..Len(t)
  BY <1>1, <1>2
<1>4. ASSUME NEW r \in WordRanges(t) PROVE r.start \in 0..Len(t) /\ r.start < Len(t) /\ r.end \in Int /\ r.end <= Len(t)
  <2>1. r.start \in 0..Len(t) - 1 /\ r.end \in 0..Len(t)
    BY <1>0, <1>3
  <2> QED BY <1>0, <2>1
<1> QED BY <1>4 DEF Within

\* The units of a text.
LEMMA UnitsAre ==
  ASSUME NEW t, IsText(t)
  PROVE  /\ \A unit \in TextUnits : Within(UnitsOf(t)[unit], Len(t))
         /\ UnitsOf(t).line = LineRanges(t) /\ UnitsOf(t).word = WordRanges(t)
         /\ UnitsOf(t)["line"] = LineRanges(t) /\ UnitsOf(t)["word"] = WordRanges(t)
<1>0. Len(t) \in Nat
  BY TextIs
<1>1. UnitsOf(t)["line"] = LineRanges(t) /\ UnitsOf(t)["word"] = WordRanges(t)
  BY DEF UnitsOf, TextUnits, TextUnitRanges
<1>2. UnitsOf(t)["character"] = {[start |-> k, end |-> k + 1] : k \in 0..Len(t) - 1}
  BY DEF UnitsOf, TextUnits, TextUnitRanges
<1>3. Within(UnitsOf(t)["character"], Len(t))
  BY <1>0, <1>2 DEF Within
<1>4. UnitsOf(t).line = LineRanges(t) /\ UnitsOf(t).word = WordRanges(t)
  BY <1>1
<1> QED BY <1>1, <1>3, <1>4, LinesAre, WordsAre DEF TextUnits

\* A place of a text where the cursor may be: not beyond it.
Standing(k, t) == k \in Nat /\ (t # <<>> => InText(k, t))

\* Every line, word and character starts at such a place.
LEMMA RangesStand ==
  ASSUME NEW t, IsText(t)
  PROVE  /\ \A r \in LineRanges(t) : Standing(r.start, t)
         /\ \A r \in WordRanges(t) : Standing(r.start, t)
         /\ \A offset : CharacterRange(t, offset) # NoRange =>
              CharacterRange(t, offset).start = offset /\ Standing(offset, t)
<1>0. Len(t) \in Nat
  BY TextIs
<1>1. ASSUME NEW r \in LineRanges(t) PROVE Standing(r.start, t)
  <2>1. r.start \in 0..Len(t) /\ (r.start # 0 => t[r.start] = "\n")
    BY LinesAre DEF Within
  <2>2. t # <<>> => Len(t) # 0
    BY TextIs
  <2> QED BY <1>0, <2>1, <2>2 DEF Standing, InText, Last
<1>2. ASSUME NEW r \in WordRanges(t) PROVE Standing(r.start, t)
  BY <1>0, WordsAre DEF Standing, InText, Within
<1>3. ASSUME NEW offset, CharacterRange(t, offset) # NoRange
      PROVE  CharacterRange(t, offset).start = offset /\ Standing(offset, t)
  <2>1. offset \in 0..Len(t) - 1 /\ CharacterRange(t, offset) = [start |-> offset, end |-> offset + 1]
    BY <1>3, Zenon DEF CharacterRange
  <2> QED BY <1>0, <2>1 DEF Standing, InText
<1> QED BY <1>1, <1>2, <1>3

-----------------------------------------------------------------------------
(* The graph of a tree *)

NodesOf(v) == Trees[v].nodes
Above(v, o) == PathsUp(NodesOf(v))[depthLimit][o]

\* The outermost document of a path up.
Outermost(v, up) ==
  LET documents == {i \in DOMAIN up : NodesOf(v)[up[i]].role \in Documents}
  IN IF documents = {} THEN Nothing ELSE up[Max(documents)]

\* What the graph of tree v tells of an object: its text and what is around it.
Tells(v, o, n) ==
  /\ IsText(n.said)
  /\ IsText(n.navigable) /\ n.units = UnitsOf(n.navigable)
  /\ IsText(n.readable) /\ n.readableUnits = UnitsOf(n.readable)
  /\ n.navigable # <<>> => n.readable = n.navigable
  /\ n.role = NodesOf(v)[o].role /\ n.table = NodesOf(v)[o].table
  /\ SameCell(n, NodesOf(v)[o])
  /\ n.up = Above(v, o) /\ n.document = Outermost(v, Above(v, o))
  /\ n.document \in DOMAIN NodesOf(v) \cup {Nothing}
  /\ n.place = Max({0} \cup {i \in 1..Len(Graphs[v].order) : Graphs[v].order[i] = o})

\* What the assumptions say of a tree.
LEMMA TreesAre ==
  ASSUME NEW v \in DOMAIN Trees
  PROVE  /\ IsFiniteSet(DOMAIN NodesOf(v)) /\ Nothing \notin DOMAIN NodesOf(v)
         /\ Trees[v].root \in DOMAIN NodesOf(v) /\ NodesOf(v)[Trees[v].root].parent = Nothing
         /\ \A o \in DOMAIN NodesOf(v) :
              /\ NodesOf(v)[o] \in Node(DOMAIN NodesOf(v))
              /\ \A c \in ToSet(NodesOf(v)[o].children) : NodesOf(v)[c].parent = o
              /\ Len(PathsUp(NodesOf(v))[depthLimit][o]) < depthLimit
<1>1. \E root \in {Trees[v].root}, nodes \in {Trees[v].nodes} :
        /\ IsFiniteSet(DOMAIN nodes) /\ Nothing \notin DOMAIN nodes
        /\ root \in DOMAIN nodes /\ nodes[root].parent = Nothing
        /\ \A o \in DOMAIN nodes :
             /\ nodes[o] \in Node(DOMAIN nodes)
             /\ \A c \in ToSet(nodes[o].children) : nodes[c].parent = o
             /\ Len(PathsUp(nodes)[depthLimit][o]) < depthLimit
  BY TreesAssumption, Zenon
<1> PICK root \in {Trees[v].root}, nodes \in {Trees[v].nodes} :
        /\ IsFiniteSet(DOMAIN nodes) /\ Nothing \notin DOMAIN nodes
        /\ root \in DOMAIN nodes /\ nodes[root].parent = Nothing
        /\ \A o \in DOMAIN nodes :
             /\ nodes[o] \in Node(DOMAIN nodes)
             /\ \A c \in ToSet(nodes[o].children) : nodes[c].parent = o
             /\ Len(PathsUp(nodes)[depthLimit][o]) < depthLimit
  BY <1>1, Zenon
<1>2. root = Trees[v].root /\ nodes = NodesOf(v)
  BY DEF NodesOf
<1> QED BY <1>2, Zenon

LEMMA TreesRooted ==
  ASSUME NEW v \in DOMAIN Trees
  PROVE  Rooted(NodesOf(v)) /\ depthLimit \in Nat
<1>1. \A o \in DOMAIN NodesOf(v) : NodesOf(v)[o].parent \in DOMAIN NodesOf(v) \cup {Nothing}
  BY TreesAre DEF Node
<1>2. depthLimit \in Nat
  BY LengthAssumption
<1> QED BY <1>1, <1>2, TreesAre DEF Rooted, Spots

Facts(m, up, place, document, above) ==
  [up |-> up, place |-> place, document |-> document, above |-> above,
   said |-> SpokenContent(m),
   navigable |-> NavigableText(m), units |-> UnitsOf(NavigableText(m)),
   readable |-> ReadableText(m), readableUnits |-> UnitsOf(ReadableText(m))]

LEMMA AlsoIs ==
  ASSUME NEW m, NEW up, NEW place, NEW document, NEW above, NEW n,
         n = Also(m, Facts(m, up, place, document, above)),
         {"role", "table", "row", "column", "rowSpan", "columnSpan"} \subseteq DOMAIN m
  PROVE  /\ n.up = up /\ n.place = place /\ n.document = document /\ n.above = above
         /\ n.said = SpokenContent(m)
         /\ n.navigable = NavigableText(m) /\ n.units = UnitsOf(NavigableText(m))
         /\ n.readable = ReadableText(m) /\ n.readableUnits = UnitsOf(ReadableText(m))
         /\ n.role = m.role /\ n.table = m.table /\ SameCell(n, m)
<1>1. PICK said, navigable, units, readable, readableUnits :
        /\ said = SpokenContent(m) /\ navigable = NavigableText(m) /\ units = UnitsOf(NavigableText(m))
        /\ readable = ReadableText(m) /\ readableUnits = UnitsOf(ReadableText(m))
  OBVIOUS
<1>2. PICK facts : facts = [up |-> up, place |-> place, document |-> document, above |-> above,
                            said |-> said, navigable |-> navigable, units |-> units,
                            readable |-> readable, readableUnits |-> readableUnits]
  OBVIOUS
<1>3. facts = Facts(m, up, place, document, above)
  BY <1>1, <1>2 DEF Facts
<1>4. n = [field \in DOMAIN m \cup DOMAIN facts |->
             IF field \in DOMAIN facts THEN facts[field] ELSE m[field]]
  BY <1>3 DEF Also
<1>5. DOMAIN facts = {"up", "place", "document", "above", "said", "navigable", "units",
                      "readable", "readableUnits"}
  BY <1>2
<1>6. /\ n.up = up /\ n.place = place /\ n.document = document /\ n.above = above
      /\ n.said = said /\ n.navigable = navigable /\ n.units = units
      /\ n.readable = readable /\ n.readableUnits = readableUnits
  BY <1>2, <1>4, <1>5
<1>7. n.role = m.role /\ n.table = m.table /\ SameCell(n, m)
  BY <1>4, <1>5 DEF SameCell
<1> QED BY <1>1, <1>6, <1>7

\* What a graph tells of each object, from the definition of NewGraph.
LEMMA GraphIs ==
  ASSUME NEW v \in DOMAIN Trees
  PROVE  /\ DOMAIN Graphs[v].nodes = DOMAIN NodesOf(v)
         /\ Graphs[v].order = Walk(Trees[v].root, NodesOf(v))[Cardinality(DOMAIN NodesOf(v))].order
         /\ \A o \in DOMAIN NodesOf(v) : Tells(v, o, Graphs[v].nodes[o])
<1> DEFINE nodes == NodesOf(v)
           walked == Walk(Trees[v].root, nodes)[Cardinality(DOMAIN nodes)]
           up == PathsUp(nodes)[depthLimit]
           read == [o \in DOMAIN nodes |-> IF o \in walked.redacted THEN RedactedContentCopy(nodes[o])
                                                                    ELSE nodes[o]]
           described == [o \in DOMAIN nodes |-> Described(read, walked.order, up[o], o)]
<1>1. Graphs[v].nodes = described /\ Graphs[v].order = walked.order
  <2>1. Graphs[v] = NewGraph(Trees[v].root, nodes)
    BY DEF Graphs, NodesOf
  <2> QED BY <2>1 DEF NewGraph
<1>2. ASSUME NEW o \in DOMAIN nodes PROVE Tells(v, o, described[o])
  <2>1. Copies(read[o], nodes[o])
    <3>1. nodes[o] \in Node(DOMAIN nodes)
      BY TreesAre
    <3>2. read[o] = RedactedContentCopy(nodes[o]) \/ read[o] = nodes[o]
      OBVIOUS
    <3> HIDE DEF read, nodes
    <3> QED BY <3>1, <3>2, NodeIsCopy, RedactedIsCopy
  <2> DEFINE m == read[o]
             place == Max({0} \cup {i \in 1..Len(walked.order) : walked.order[i] = o})
             documents == {i \in DOMAIN up[o] : read[up[o][i]].role \in Documents}
             document == IF documents = {} THEN Nothing ELSE up[o][Max(documents)]
  <2>2. \E above : described[o] = Also(m, Facts(m, up[o], place, document, above))
    <3>1. described[o] = Described(read, walked.order, up[o], o)
      OBVIOUS
    <3> HIDE DEF read, walked, up, nodes, described
    <3> QED BY <3>1, Zenon DEF Described, Facts
  <2>3. PICK above : described[o] = Also(m, Facts(m, up[o], place, document, above))
    BY <2>2
  <2>11. document \in DOMAIN nodes \cup {Nothing} /\ document = Outermost(v, up[o])
    <3>0. \A x \in DOMAIN nodes : read[x].role = nodes[x].role
      <4> SUFFICES ASSUME NEW x \in DOMAIN nodes PROVE read[x].role = nodes[x].role
        OBVIOUS
      <4>1. nodes[x] \in Node(DOMAIN nodes)
        BY TreesAre
      <4>2. read[x] = RedactedContentCopy(nodes[x]) \/ read[x] = nodes[x]
        OBVIOUS
      <4> HIDE DEF read, nodes
      <4> QED BY <4>1, <4>2, NodeIsCopy, RedactedIsCopy DEF Copies
    <3>1. up[o] \in Seq(DOMAIN nodes)
      <4>1. Rooted(nodes) /\ depthLimit \in Nat /\ o \in Spots(nodes)
        BY TreesRooted DEF Spots
      <4> PICK path : path = PathsUp(nodes)
        OBVIOUS
      <4>2. path \in [Nat -> [Spots(nodes) -> Seq(DOMAIN nodes)]]
        BY <4>1, PathsUpDefined
      <4>3. path[depthLimit] \in [Spots(nodes) -> Seq(DOMAIN nodes)]
        BY <4>1, <4>2
      <4>4. path[depthLimit][o] \in Seq(DOMAIN nodes)
        BY <4>1, <4>3
      <4> QED BY <4>4
    <3> HIDE DEF up, read
    <3> PICK s : s = up[o]
      OBVIOUS
    <3>2. documents \subseteq Nat /\ \A i \in documents : i \in DOMAIN s /\ i <= Len(s) /\ s[i] \in DOMAIN nodes
      BY <3>1
    <3>3. Len(s) \in Nat
      BY <3>1
    <3>5. documents = {i \in DOMAIN s : NodesOf(v)[s[i]].role \in Documents}
      <4>1. \A i \in DOMAIN s : s[i] \in DOMAIN nodes
        BY <3>1
      <4> QED BY <3>0, <4>1
    <3>6. document = Outermost(v, s)
      <4> HIDE DEF documents
      <4> QED BY <3>5 DEF Outermost
    <3> HIDE DEF documents, nodes
    <3>4. documents # {} => Max(documents) \in documents
      BY <3>2, <3>3, MaxOfSome
    <3> QED BY <3>2, <3>4, <3>6
  <2>4. {"role", "table", "row", "column", "rowSpan", "columnSpan"} \subseteq DOMAIN m
    <3>1. nodes[o] \in Node(DOMAIN nodes)
      BY TreesAre
    <3>2. {"role", "table", "row", "column", "rowSpan", "columnSpan"} \subseteq DOMAIN nodes[o]
      <4> HIDE DEF nodes
      <4> QED BY <3>1 DEF Node
    <3> HIDE DEF nodes, read
    <3> QED BY <2>1, <3>2 DEF Copies
  <2>5. place = Max({0} \cup {i \in 1..Len(Graphs[v].order) : Graphs[v].order[i] = o})
    <3> HIDE DEF walked
    <3> QED BY <1>1
  <2>6. up[o] = Above(v, o)
    BY DEF Above
  <2> PICK n : n = described[o]
    OBVIOUS
  <2> HIDE DEF place, up, read, described, walked, document
  <2>7. /\ n.up = up[o] /\ n.place = place /\ n.document = document
        /\ n.said = SpokenContent(m)
        /\ n.navigable = NavigableText(m) /\ n.units = UnitsOf(NavigableText(m))
        /\ n.readable = ReadableText(m) /\ n.readableUnits = UnitsOf(ReadableText(m))
        /\ n.role = m.role /\ n.table = m.table /\ SameCell(n, m)
    <3> HIDE DEF nodes, m
    <3> QED BY <2>3, <2>4, AlsoIs
  <2>8. /\ IsText(SpokenContent(m)) /\ IsText(NavigableText(m)) /\ IsText(ReadableText(m))
        /\ NavigableText(m) # <<>> => ReadableText(m) = NavigableText(m)
        /\ m.role = NodesOf(v)[o].role /\ m.table = NodesOf(v)[o].table /\ SameCell(m, NodesOf(v)[o])
    BY <2>1, NodeTexts DEF Copies
  <2>12. /\ n.document \in DOMAIN NodesOf(v) \cup {Nothing}
         /\ n.document = Outermost(v, Above(v, o))
    BY <2>6, <2>7, <2>11
  <2>13. SameCell(n, NodesOf(v)[o])
    BY <2>7, <2>8 DEF SameCell
  <2> HIDE DEF m, nodes
  <2>9. Tells(v, o, n)
    BY <2>5, <2>6, <2>7, <2>8, <2>12, <2>13, Zenon DEF Tells
  <2> QED BY <2>9
<1>3. DOMAIN described = DOMAIN nodes
  OBVIOUS
<1>4. Graphs[v].order = Walk(Trees[v].root, NodesOf(v))[Cardinality(DOMAIN NodesOf(v))].order
  BY <1>1
<1> HIDE DEF described, walked
<1> QED BY <1>1, <1>2, <1>3, <1>4

-----------------------------------------------------------------------------
(* The review cursor *)

\* The graph is that of a tree the page had, and what counts characters is a number.
Types ==
  /\ version \in DOMAIN Trees /\ graph = Graphs[version]
  /\ workload \in Workloads
  /\ cursor.offset \in Nat /\ review.offset \in Nat /\ copyStart.offset \in Nat /\ brailleOffset \in Nat

\* What ReviewInText says of a step.
StaysInText ==
  last' \in {"review", "reviewNext", "reviewPrevious"} =>
    LET text == NodeOf(review'.object).readable
    IN /\ text # <<>> => InText(review'.offset, text)
       /\ selection' \notin {selection, NoSelection} =>
            /\ selection'.object = review'.object
            /\ 0 <= selection'.start /\ selection'.start <= selection'.end
            /\ selection'.end <= Len(text)

\* What CursorsAdvance says of the review cursor.
ReviewAdvances ==
  \A place \in Reviewed :
    /\ last' = "reviewNext" => review'.offset > place.offset
    /\ last' = "reviewPrevious" => review'.offset < place.offset

\* The same of the graph that the commands see.
LEMMA GraphTells ==
  ASSUME Types, NEW o \in DOMAIN graph.nodes
  PROVE  /\ o \in DOMAIN NodesOf(version) /\ version \in DOMAIN Trees
         /\ Tells(version, o, NodeOf(o))
BY GraphIs DEF Types, NodeOf

\* The review cursor is at one place, which stands in its text.
LEMMA ReviewedIs ==
  ASSUME Types, NEW place \in Reviewed
  PROVE  /\ place.object \in DOMAIN graph.nodes
         /\ Standing(place.offset, TextAt(place)) /\ IsText(TextAt(place))
         /\ \A p \in Reviewed : p = place
<1>1. PICK o \in ReviewObjects : place = At(o, ReviewOffset(o))
  BY DEF Reviewed
<1>2. o \in DOMAIN graph.nodes /\ \A x \in ReviewObjects : x = o
  BY DEF ReviewObjects, InGraph, Has
<1>3. place.object = o /\ place.offset = ReviewOffset(o) /\ TextAt(place) = NodeOf(o).readable
  BY <1>1 DEF At, TextAt
<1>4. IsText(NodeOf(o).readable)
  BY <1>2, GraphTells DEF Tells
<1> DEFINE text == NodeOf(o).readable
           offset == IF o = review.object THEN review.offset ELSE 0
<1>5. offset \in Nat
  BY DEF Types
<1>6. ReviewOffset(o) = IF text = <<>> \/ InText(offset, text) THEN offset ELSE Len(text) - 1
  BY DEF ReviewOffset
<1> HIDE DEF text, offset
<1>7. Len(text) \in Nat /\ (text = <<>> <=> Len(text) = 0)
  BY <1>4, TextIs DEF text
<1>8. Standing(ReviewOffset(o), text)
  <2>1. CASE text = <<>> \/ InText(offset, text)
    BY <2>1, <1>5, <1>6 DEF Standing
  <2>2. CASE ~(text = <<>> \/ InText(offset, text))
    <3>1. ReviewOffset(o) = Len(text) - 1 /\ Len(text) # 0
      BY <2>2, <1>6, <1>7
    <3> QED BY <3>1, <1>7 DEF Standing, InText
  <2> QED BY <2>1, <2>2
<1>9. \A p \in Reviewed : p = place
  BY <1>1, <1>2, Zenon DEF Reviewed
<1> QED BY <1>2, <1>3, <1>4, <1>8, <1>9 DEF text

\* The graph and the other cursors stay.
LEMMA ReviewIs ==
  ASSUME Types, NEW place \in Reviewed, NEW range, NEW how, Review(place, range, how),
         range # NoRange => Standing(range.start, TextAt(place)),
         /\ how = "reviewNext" => range # NoRange /\ range.start > place.offset
         /\ how = "reviewPrevious" => range # NoRange /\ range.start < place.offset
  PROVE  Types' /\ StaysInText /\ ReviewAdvances
<1> DEFINE to == IF range = NoRange THEN place.offset ELSE range.start
<1>1. Standing(to, TextAt(place)) /\ (range # NoRange => to = range.start)
  BY ReviewedIs
<1>2. /\ review' = [object |-> place.object, offset |-> to, mode |-> review.mode]
      /\ last' = how
  BY DEF Review, ReviewAt
<1>3. UNCHANGED <<graph, version, workload, cursor, copyStart, brailleOffset, selection>>
  BY DEF Review, graphVars, browseVars
<1> HIDE DEF to
<1>4. review'.object = place.object /\ review'.offset = to
  BY <1>2
<1>5. Types'
  BY <1>1, <1>3, <1>4 DEF Types, Standing
<1>6. StaysInText
  BY <1>1, <1>3, <1>4, Zenon DEF StaysInText, Standing, TextAt, NodeOf
<1>7. ReviewAdvances
  BY <1>1, <1>2, <1>4, ReviewedIs DEF ReviewAdvances
<1> QED BY <1>5, <1>6, <1>7

\* The units of the text that is reviewed.
LEMMA ReviewedUnits ==
  ASSUME Types, NEW place \in Reviewed, NEW unit \in {"word", "line"}
  PROVE  /\ Within(NodeOf(place.object).readableUnits[unit], Len(TextAt(place)))
         /\ \A r \in NodeOf(place.object).readableUnits[unit] : Standing(r.start, TextAt(place))
         /\ unit = "line" => NodeOf(place.object).readableUnits[unit] # {}
         /\ NodeOf(place.object).readableUnits.line = LineRanges(TextAt(place))
         /\ Len(TextAt(place)) \in Nat
<1>1. IsText(TextAt(place)) /\ NodeOf(place.object).readableUnits = UnitsOf(TextAt(place))
  BY ReviewedIs, GraphTells DEF TextAt, Tells
<1>2. unit \in TextUnits
  BY DEF TextUnits
<1>3. /\ Within(UnitsOf(TextAt(place))[unit], Len(TextAt(place))) /\ Len(TextAt(place)) \in Nat
      /\ UnitsOf(TextAt(place)).line = LineRanges(TextAt(place))
  BY <1>1, <1>2, UnitsAre, TextIs
<1>4. CASE unit = "line"
  <2>1. UnitsOf(TextAt(place))[unit] = LineRanges(TextAt(place))
    BY <1>1, <1>4, UnitsAre
  <2> QED BY <1>1, <1>3, <2>1, LinesAre, RangesStand
<1>5. CASE unit = "word"
  <2>1. UnitsOf(TextAt(place))[unit] = WordRanges(TextAt(place))
    BY <1>1, <1>5, UnitsAre
  <2> QED BY <1>1, <1>3, <1>5, <2>1, RangesStand
<1> QED BY <1>4, <1>5

\* The range that a review command finds lies in the text.
LEMMA RangeAtIs ==
  ASSUME Types, NEW place \in Reviewed, NEW unit \in {"word", "line"}
  PROVE  /\ RangeAt(place, unit) # NoRange => Standing(RangeAt(place, unit).start, TextAt(place))
         /\ RangeAt(place, unit) \in NodeOf(place.object).readableUnits[unit] \cup {NoRange}
<1> DEFINE ranges == NodeOf(place.object).readableUnits[unit]
<1>1. /\ Within(ranges, Len(TextAt(place))) /\ Len(TextAt(place)) \in Nat
      /\ \A r \in ranges : Standing(r.start, TextAt(place))
  BY ReviewedUnits
<1>2. RangeAt(place, unit) = TextRangeAt(ranges, place.offset, unit)
  BY DEF RangeAt
<1> HIDE DEF ranges
<1>3. RangeAt(place, unit) \in ranges \cup {NoRange}
  BY <1>1, <1>2, TextRangeAtIs
<1> QED BY <1>1, <1>3 DEF ranges

LEMMA CharacterIs ==
  ASSUME Types, NEW place \in Reviewed, NEW offset
  PROVE  CharacterRange(TextAt(place), offset) # NoRange =>
           /\ CharacterRange(TextAt(place), offset).start = offset
           /\ Standing(CharacterRange(TextAt(place), offset).start, TextAt(place))
<1>1. IsText(TextAt(place))
  BY ReviewedIs
<1> QED BY <1>1, RangesStand

-----------------------------------------------------------------------------
(* The review commands *)

LEMMA DirectionsAre == Directions = {-1, 1} BY DEF Directions

LEMMA ReviewEmptyStays ==
  ASSUME Types, ReviewEmpty
  PROVE  Types' /\ StaysInText /\ ReviewAdvances
<1>1. PICK place \in Reviewed : Review(place, NoRange, "boundary")
  BY DEF ReviewEmpty
<1> QED BY <1>1, ReviewIs

LEMMA ReviewEdgeStays ==
  ASSUME Types, NEW d \in Directions, ReviewEdge(d)
  PROVE  Types' /\ StaysInText /\ ReviewAdvances
<1>1. PICK place \in ReviewedText : \E lines \in {NodeOf(place.object).readableUnits.line} :
        Review(place, IF d < 0 THEN FirstRange(lines) ELSE LastRange(lines), "review")
  BY DEF ReviewEdge
<1>2. place \in Reviewed
  BY DEF ReviewedText
<1> DEFINE lines == LineRanges(TextAt(place))
           range == IF d < 0 THEN FirstRange(lines) ELSE LastRange(lines)
<1>3. NodeOf(place.object).readableUnits.line = lines
  BY <1>2, ReviewedUnits
<1>4. Review(place, range, "review")
  BY <1>1, <1>3
<1>5. IsText(TextAt(place))
  BY <1>2, ReviewedIs
<1>6. range \in lines
  <2>1. Within(lines, Len(TextAt(place))) /\ lines # {} /\ Len(TextAt(place)) \in Nat
    BY <1>5, LinesAre, TextIs
  <2> HIDE DEF lines
  <2> QED BY <2>1, EdgeRanges
<1>7. Standing(range.start, TextAt(place))
  BY <1>5, <1>6, RangesStand
<1> HIDE DEF range
<1> QED BY <1>2, <1>4, <1>7, ReviewIs

LEMMA ReviewCurrentStays ==
  ASSUME Types, NEW unit \in TextUnits, ReviewCurrent(unit)
  PROVE  Types' /\ StaysInText /\ ReviewAdvances
<1>1. PICK place \in ReviewedText :
        Review(place, IF unit = "character" THEN CharacterRange(TextAt(place), place.offset)
                      ELSE RangeAt(place, unit), "review")
  BY DEF ReviewCurrent
<1>2. place \in Reviewed
  BY DEF ReviewedText
<1>3. CASE unit = "character"
  <2>1. Review(place, CharacterRange(TextAt(place), place.offset), "review")
    BY <1>1, <1>3
  <2> QED BY <1>2, <2>1, CharacterIs, ReviewIs
<1>4. CASE unit \in {"word", "line"}
  <2>1. Review(place, RangeAt(place, unit), "review")
    BY <1>1, <1>4
  <2> QED BY <1>2, <1>4, <2>1, RangeAtIs, ReviewIs
<1> QED BY <1>3, <1>4 DEF TextUnits

LEMMA ReviewCharacterStays ==
  ASSUME Types, NEW d \in Directions, ReviewCharacter(d)
  PROVE  Types' /\ StaysInText /\ ReviewAdvances
<1>1. PICK place \in ReviewedText : \E line \in {RangeAt(place, "line")} :
        IF place.offset + d \in line.start..line.end - 1
          THEN Review(place, CharacterRange(TextAt(place), place.offset + d), AheadOrBack(d))
          ELSE Review(place, IF line.start = line.end THEN line
                             ELSE CharacterRange(TextAt(place), place.offset), "review")
  BY DEF ReviewCharacter
<1>2. place \in Reviewed
  BY DEF ReviewedText
<1>3. PICK line : line = RangeAt(place, "line")
  OBVIOUS
<1>4. IF place.offset + d \in line.start..line.end - 1
        THEN Review(place, CharacterRange(TextAt(place), place.offset + d), AheadOrBack(d))
        ELSE Review(place, IF line.start = line.end THEN line
                           ELSE CharacterRange(TextAt(place), place.offset), "review")
  BY <1>1, <1>3, Zenon
<1>5. CASE place.offset + d \in line.start..line.end - 1
  <2> DEFINE range == CharacterRange(TextAt(place), place.offset + d)
  <2>1. Review(place, range, AheadOrBack(d))
    BY <1>4, <1>5
  <2>2. line \in NodeOf(place.object).readableUnits["line"] \cup {NoRange}
    BY <1>2, <1>3, RangeAtIs
  <2>3. Within(NodeOf(place.object).readableUnits["line"], Len(TextAt(place))) /\ Len(TextAt(place)) \in Nat
    BY <1>2, ReviewedUnits
  <2>4. line # NoRange
    BY <1>5 DEF NoRange
  <2>5. line.start \in 0..Len(TextAt(place)) /\ line.end \in Int /\ line.end <= Len(TextAt(place))
    BY <2>2, <2>3, <2>4 DEF Within
  <2>6. place.offset + d \in 0..Len(TextAt(place)) - 1
    BY <1>5, <2>3, <2>5
  <2>7. range = [start |-> place.offset + d, end |-> (place.offset + d) + 1]
    BY <2>6 DEF CharacterRange
  <2>8. range.start = place.offset + d /\ range # NoRange
    BY <2>6, <2>7 DEF NoRange
  <2>9. Standing(range.start, TextAt(place))
    BY <1>2, <2>8, CharacterIs
  <2>10. place.offset \in Nat
    BY <1>2, ReviewedIs DEF Standing
  <2>11. CASE d = 1
    <3>1. AheadOrBack(d) = "reviewNext"
      BY <2>11 DEF AheadOrBack
    <3>2. range.start > place.offset
      BY <2>8, <2>10, <2>11
    <3> HIDE DEF range
    <3> QED BY <1>2, <2>1, <2>8, <2>9, <3>1, <3>2, ReviewIs
  <2>12. CASE d = -1
    <3>1. AheadOrBack(d) = "reviewPrevious"
      BY <2>12 DEF AheadOrBack
    <3>2. range.start < place.offset
      BY <2>8, <2>10, <2>12
    <3> HIDE DEF range
    <3> QED BY <1>2, <2>1, <2>8, <2>9, <3>1, <3>2, ReviewIs
  <2> QED BY <2>11, <2>12, DirectionsAre
<1>6. CASE ~(place.offset + d \in line.start..line.end - 1)
  <2>1. CASE line.start = line.end
    <3>1. Review(place, line, "review")
      BY <1>4, <1>6, <2>1
    <3> QED BY <1>2, <1>3, <3>1, RangeAtIs, ReviewIs
  <2>2. CASE line.start # line.end
    <3>1. Review(place, CharacterRange(TextAt(place), place.offset), "review")
      BY <1>4, <1>6, <2>2
    <3> QED BY <1>2, <3>1, CharacterIs, ReviewIs
  <2> QED BY <2>1, <2>2
<1> QED BY <1>5, <1>6

LEMMA ReviewMoveStays ==
  ASSUME Types, NEW d \in Directions, NEW unit \in {"word", "line"}, ReviewMove(unit, d)
  PROVE  Types' /\ StaysInText /\ ReviewAdvances
<1> DEFINE Found(place) == MoveTextUnit(NodeOf(place.object).readableUnits[unit], place.offset, d)
<1>1. PICK place \in ReviewedText : \E found \in {Found(place)} :
        IF found # NoRange THEN Review(place, found, AheadOrBack(d))
        ELSE Review(place, RangeAt(place, unit), "review")
  BY DEF ReviewMove
<1>2. place \in Reviewed
  BY DEF ReviewedText
<1>3. PICK found : found = Found(place)
  OBVIOUS
<1>4. IF found # NoRange THEN Review(place, found, AheadOrBack(d))
      ELSE Review(place, RangeAt(place, unit), "review")
  BY <1>1, <1>3, Zenon
<1>5. CASE found # NoRange
  <2>1. Review(place, found, AheadOrBack(d))
    BY <1>4, <1>5
  <2>2. /\ Within(NodeOf(place.object).readableUnits[unit], Len(TextAt(place)))
        /\ Len(TextAt(place)) \in Nat
        /\ \A r \in NodeOf(place.object).readableUnits[unit] : Standing(r.start, TextAt(place))
    BY <1>2, ReviewedUnits
  <2>3. d \in {-1, 1}
    BY DirectionsAre
  <2>4. /\ found \in NodeOf(place.object).readableUnits[unit]
        /\ d * (found.start - place.offset) > 0
    BY <1>3, <1>5, <2>2, <2>3, MoveTextUnitIs
  <2>5. Standing(found.start, TextAt(place)) /\ found.start \in Nat /\ place.offset \in Nat
    BY <1>2, <2>2, <2>4, ReviewedIs DEF Standing
  <2>6. CASE d = 1
    <3>1. AheadOrBack(d) = "reviewNext"
      BY <2>6 DEF AheadOrBack
    <3>2. found.start > place.offset
      BY <2>4, <2>5, <2>6
    <3> QED BY <1>2, <1>5, <2>1, <2>5, <3>1, <3>2, ReviewIs
  <2>7. CASE d = -1
    <3>1. AheadOrBack(d) = "reviewPrevious"
      BY <2>7 DEF AheadOrBack
    <3>2. found.start < place.offset
      BY <2>4, <2>5, <2>7
    <3> QED BY <1>2, <1>5, <2>1, <2>5, <3>1, <3>2, ReviewIs
  <2> QED BY <2>3, <2>6, <2>7
<1>6. CASE found = NoRange
  <2>1. Review(place, RangeAt(place, unit), "review")
    BY <1>4, <1>6
  <2> QED BY <1>2, <2>1, RangeAtIs, ReviewIs
<1> QED BY <1>5, <1>6

LEMMA ReviewLineEdgeStays ==
  ASSUME Types, NEW d \in Directions, ReviewLineEdge(d)
  PROVE  Types' /\ StaysInText /\ ReviewAdvances
<1>1. PICK place \in ReviewedText : \E line \in {RangeAt(place, "line")} : \E offset :
        Review(place, IF line.start = line.end THEN line ELSE CharacterRange(TextAt(place), offset),
               "review")
  BY Zenon DEF ReviewLineEdge
<1>2. place \in Reviewed
  BY DEF ReviewedText
<1>3. PICK line, offset :
        /\ line = RangeAt(place, "line")
        /\ Review(place, IF line.start = line.end THEN line ELSE CharacterRange(TextAt(place), offset),
                  "review")
  BY <1>1
<1>4. CASE line.start = line.end
  <2>1. Review(place, line, "review")
    BY <1>3, <1>4
  <2> QED BY <1>2, <1>3, <2>1, RangeAtIs, ReviewIs
<1>5. CASE line.start # line.end
  <2>1. Review(place, CharacterRange(TextAt(place), offset), "review")
    BY <1>3, <1>5
  <2> QED BY <1>2, <2>1, CharacterIs, ReviewIs
<1> QED BY <1>4, <1>5

LEMMA ReviewSelectionEdgeStays ==
  ASSUME Types, NEW d \in Directions, ReviewSelectionEdge(d)
  PROVE  Types' /\ StaysInText /\ ReviewAdvances
<1>1. PICK place \in ReviewedText : \E selected \in {NodeOf(place.object).selection} :
        Review(place, IF selected.end <= selected.start THEN NoRange
                      ELSE CharacterRange(TextAt(place), IF d < 0 THEN selected.start ELSE selected.end - 1),
               "review")
  BY DEF ReviewSelectionEdge
<1>2. place \in Reviewed
  BY DEF ReviewedText
<1>3. PICK selected :
        Review(place, IF selected.end <= selected.start THEN NoRange
                      ELSE CharacterRange(TextAt(place), IF d < 0 THEN selected.start ELSE selected.end - 1),
               "review")
  BY <1>1
<1>4. CASE selected.end <= selected.start
  <2>1. Review(place, NoRange, "review")
    BY <1>3, <1>4
  <2> QED BY <1>2, <2>1, ReviewIs
<1>5. CASE ~(selected.end <= selected.start)
  <2>1. PICK offset : Review(place, CharacterRange(TextAt(place), offset), "review")
    BY <1>3, <1>5
  <2> QED BY <1>2, <2>1, CharacterIs, ReviewIs
<1> QED BY <1>4, <1>5

LEMMA ReviewCommandStays ==
  ASSUME Types, ReviewCommand
  PROVE  Types' /\ StaysInText /\ ReviewAdvances
BY ReviewEmptyStays, ReviewEdgeStays, ReviewCurrentStays, ReviewCharacterStays, ReviewMoveStays,
   ReviewLineEdgeStays, ReviewSelectionEdgeStays, Zenon DEF ReviewCommand

-----------------------------------------------------------------------------
(* The other commands of the review cursor *)

LEMMA LeastOfTwo ==
  ASSUME NEW a \in Int, NEW b \in Int
  PROVE  Min({a, b}) \in {a, b} /\ Min({a, b}) <= a /\ Min({a, b}) <= b
<1>1. \E x \in {a, b} : \A y \in {a, b} : x <= y
  <2>1. CASE a <= b
    BY <2>1
  <2>2. CASE b <= a
    BY <2>2
  <2> QED BY <2>1, <2>2
<1> QED BY <1>1 DEF Min

LEMMA GreatestOfTwo ==
  ASSUME NEW a \in Int, NEW b \in Int
  PROVE  Max({a, b}) \in {a, b} /\ a <= Max({a, b}) /\ b <= Max({a, b})
<1>1. \E x \in {a, b} : \A y \in {a, b} : x >= y
  <2>1. CASE a <= b
    BY <2>1
  <2>2. CASE b <= a
    BY <2>2
  <2> QED BY <2>1, <2>2
<1> QED BY <1>1 DEF Max

\* The cursors stay where they are, and so does the graph.
LEMMA ReviewKept ==
  ASSUME Types, NEW place \in Reviewed, review' = ReviewAt(place, place.offset),
         UNCHANGED <<graph, version, workload, cursor, brailleOffset>>, copyStart'.offset \in Nat,
         last' = "review",
         selection' \notin {selection, NoSelection} =>
            /\ selection'.object = place.object
            /\ 0 <= selection'.start /\ selection'.start <= selection'.end
            /\ selection'.end <= Len(TextAt(place))
  PROVE  Types' /\ StaysInText /\ ReviewAdvances
<1>1. review'.object = place.object /\ review'.offset = place.offset
  BY DEF ReviewAt
<1>2. Standing(place.offset, TextAt(place))
  BY ReviewedIs
<1>3. Types'
  BY <1>1, <1>2 DEF Types, Standing
<1>4. StaysInText
  <2>1. NodeOf(review'.object).readable = TextAt(place)
    BY <1>1 DEF TextAt
  <2> QED BY <1>1, <1>2, <2>1, Zenon DEF StaysInText, Standing
<1>5. ReviewAdvances
  BY DEF ReviewAdvances
<1> QED BY <1>3, <1>4, <1>5

LEMMA CopyCommandStays ==
  ASSUME Types, CopyCommand
  PROVE  Types' /\ StaysInText /\ ReviewAdvances
<1>1. CASE SetReviewCopyStart
  <2>1. PICK place \in ReviewedText :
          /\ review' = ReviewAt(place, place.offset) /\ copyStart' = place
          /\ selection' = NoSelection /\ last' = "review"
          /\ UNCHANGED <<graph, version, workload, cursor, brailleOffset>>
    BY <1>1 DEF SetReviewCopyStart, graphVars, browseVars
  <2>2. place \in Reviewed
    BY DEF ReviewedText
  <2>3. copyStart'.offset \in Nat
    BY <2>1, <2>2, ReviewedIs DEF Standing
  <2> QED BY <2>1, <2>2, <2>3, ReviewKept
<1>2. CASE MoveToReviewCopyStart
  <2>1. PICK place \in ReviewedText : \E offset :
          Review(place, IF copyStart.object = place.object THEN CharacterRange(TextAt(place), offset)
                        ELSE NoRange, "review")
    BY <1>2 DEF MoveToReviewCopyStart
  <2>2. place \in Reviewed
    BY DEF ReviewedText
  <2>3. CASE copyStart.object = place.object
    <3>1. PICK offset : Review(place, CharacterRange(TextAt(place), offset), "review")
      BY <2>1, <2>3
    <3> QED BY <2>2, <3>1, CharacterIs, ReviewIs
  <2>4. CASE copyStart.object # place.object
    <3>1. Review(place, NoRange, "review")
      BY <2>1, <2>4
    <3> QED BY <2>2, <3>1, ReviewIs
  <2> QED BY <2>3, <2>4
<1>3. CASE CopyToReviewPosition
  <2> DEFINE start(place) == Min({copyStart.offset, place.offset})
             end(place) == Min({Max({copyStart.offset, place.offset}) + 1, Len(TextAt(place))})
  <2>1. PICK place \in ReviewedText :
          /\ copyStart.object = place.object
          /\ review' = ReviewAt(place, place.offset)
          /\ selection' \in {[object |-> place.object, start |-> start(place), end |-> end(place)], selection}
          /\ last' = "review"
          /\ UNCHANGED <<graph, version, workload, cursor, brailleOffset, copyStart>>
    BY <1>3 DEF CopyToReviewPosition, graphVars, browseVars
  <2>2. place \in Reviewed /\ TextAt(place) # <<>>
    BY DEF ReviewedText
  <2>3. /\ place.offset \in Nat /\ InText(place.offset, TextAt(place)) /\ Len(TextAt(place)) \in Nat
        /\ Len(TextAt(place)) # 0
    BY <2>2, ReviewedIs, TextIs DEF Standing
  <2>4. place.offset <= Len(TextAt(place)) /\ copyStart.offset \in Nat
    BY <2>3 DEF InText, Types
  <2> DEFINE most == Max({copyStart.offset, place.offset})
  <2>5. most \in Nat /\ place.offset <= most /\ copyStart.offset <= most
    <3>1. PICK a, b \in Int : a = copyStart.offset /\ b = place.offset
      BY <2>3, <2>4
    <3>2. Max({a, b}) \in {a, b} /\ a <= Max({a, b}) /\ b <= Max({a, b})
      BY GreatestOfTwo
    <3> QED BY <2>3, <2>4, <3>1, <3>2
  <2>6. start(place) \in Nat /\ start(place) <= place.offset /\ start(place) <= copyStart.offset
    <3>1. PICK a, b \in Int : a = copyStart.offset /\ b = place.offset
      BY <2>3, <2>4
    <3>2. Min({a, b}) \in {a, b} /\ Min({a, b}) <= a /\ Min({a, b}) <= b
      BY LeastOfTwo
    <3> QED BY <2>3, <2>4, <3>1, <3>2
  <2>7. end(place) \in {most + 1, Len(TextAt(place))} /\ end(place) <= Len(TextAt(place))
    <3> HIDE DEF most
    <3>1. PICK a, b \in Int : a = most + 1 /\ b = Len(TextAt(place))
      BY <2>3, <2>5
    <3>2. Min({a, b}) \in {a, b} /\ Min({a, b}) <= b
      BY LeastOfTwo
    <3>3. end(place) = Min({a, b})
      BY <3>1 DEF most
    <3> QED BY <3>1, <3>2, <3>3
  <2> HIDE DEF most
  <2>8. start(place) <= end(place)
    <3> HIDE DEF start, end
    <3> QED BY <2>3, <2>4, <2>5, <2>6, <2>7
  <2> HIDE DEF start, end
  <2>9. selection' \notin {selection, NoSelection} =>
            /\ selection'.object = place.object
            /\ 0 <= selection'.start /\ selection'.start <= selection'.end
            /\ selection'.end <= Len(TextAt(place))
    BY <2>1, <2>6, <2>7, <2>8
  <2>10. copyStart'.offset \in Nat
    BY <2>1, <2>4
  <2> QED BY <2>1, <2>2, <2>9, <2>10, ReviewKept
<1> QED BY <1>1, <1>2, <1>3 DEF CopyCommand

LEMMA ReviewModeStays ==
  ASSUME Types, NEW d, SwitchReviewMode(d)
  PROVE  Types' /\ StaysInText /\ ReviewAdvances
<1>1. PICK place \in ReviewedText : \E switched :
        /\ review' = [ReviewAt(place, place.offset) EXCEPT !.mode = switched]
        /\ last' = "review"
        /\ UNCHANGED <<graph, version, workload, cursor, brailleOffset, copyStart, selection>>
  BY Zenon DEF SwitchReviewMode, graphVars, browseVars
<1>2. place \in Reviewed
  BY DEF ReviewedText
<1>3. review'.object = place.object /\ review'.offset = place.offset
  <2>1. PICK switched : review' = [ReviewAt(place, place.offset) EXCEPT !.mode = switched]
    BY <1>1
  <2> QED BY <2>1 DEF ReviewAt
<1>4. Standing(place.offset, TextAt(place))
  BY <1>2, ReviewedIs
<1>5. Types'
  BY <1>1, <1>3, <1>4 DEF Types, Standing
<1>6. StaysInText
  <2>1. NodeOf(review'.object).readable = TextAt(place)
    BY <1>3 DEF TextAt
  <2> QED BY <1>1, <1>3, <1>4, <2>1, Zenon DEF StaysInText, Standing
<1>7. ReviewAdvances
  BY <1>1 DEF ReviewAdvances
<1> QED BY <1>5, <1>6, <1>7

\* A step that is none of the review cursor's.
LEMMA OtherSteps ==
  ASSUME Types, last' \notin {"review", "reviewNext", "reviewPrevious"}
  PROVE  StaysInText /\ ReviewAdvances
BY DEF StaysInText, ReviewAdvances

LEMMA ModeCommandStays ==
  ASSUME Types, NEW set, NEW letter, ModeCommand(set, letter)
  PROVE  Types' /\ StaysInText /\ ReviewAdvances
<1>1. last' = "other" /\ Types'
  BY DEF ModeCommand, Types, graphVars, reviewVars
<1> QED BY <1>1, OtherSteps

LEMMA ObjectCommandStays ==
  ASSUME Types, NEW to, NEW d, ObjectCommand(to, d)
  PROVE  Types' /\ StaysInText /\ ReviewAdvances
<1>1. last' = "object" /\ UNCHANGED <<graph, version, workload, cursor, copyStart, brailleOffset>>
  BY DEF ObjectCommand, graphVars, browseVars
<1>2. review' = review \/ \E o : review' = ReviewStart(o)
  BY Zenon DEF ObjectCommand
<1>3. review'.offset \in Nat
  BY <1>2 DEF ReviewStart, Types
<1> QED BY <1>1, <1>3, OtherSteps DEF Types

LEMMA MouseCommandStays ==
  ASSUME Types, MouseCommand
  PROVE  Types' /\ StaysInText /\ ReviewAdvances
<1>1. PICK point, to, locked : Mouse(point, to, locked)
  BY DEF MouseCommand, MoveMouseToNavigatorObject, MoveNavigatorToMouseObject, MouseClick, MouseLock
<1>2. last' = "object" /\ UNCHANGED <<graph, version, workload, cursor, copyStart, brailleOffset>>
  BY <1>1 DEF Mouse, graphVars, browseVars
<1>3. review' = review \/ review' = [object |-> to, offset |-> 0, mode |-> "object"]
  BY <1>1 DEF Mouse
<1>4. review'.offset \in Nat
  BY <1>3 DEF Types
<1> QED BY <1>2, <1>4, OtherSteps DEF Types

-----------------------------------------------------------------------------
(* The braille display *)

\* A line is around every offset.
LEMMA LineAround ==
  ASSUME NEW t, IsText(t), NEW offset \in Nat
  PROVE  TextRangeAt(LineRanges(t), offset, "line") \in LineRanges(t)
<1> DEFINE ranges == LineRanges(t)
           Holds(r) == /\ offset >= r.start
                       /\ \/ offset < r.end \/ r.start = r.end
                          \/ "line" = "line" /\ \A q \in ranges : q.start > r.start => offset < q.start
           around == {r \in ranges : Holds(r)}
           starts == {k \in 0..offset : \E r \in ranges : r.start = k}
<1>0. Len(t) \in Nat /\ Within(ranges, Len(t)) /\ \E r \in ranges : r.start = 0
  BY LinesAre, TextIs
<1> HIDE DEF ranges
<1>1. starts \subseteq Nat /\ 0 \in starts /\ \A k \in starts : k <= offset
  BY <1>0
<1>2. Max(starts) \in starts /\ \A k \in starts : k <= Max(starts)
  <2> HIDE DEF starts
  <2>1. starts # {}
    BY <1>1
  <2> QED BY <1>1, <2>1, MaxOfSome
<1>3. PICK r \in ranges : r.start = Max(starts)
  BY <1>2
<1>4. r.start \in 0..offset
  BY <1>2, <1>3
<1>5. ASSUME NEW q \in ranges, q.start > r.start PROVE offset < q.start
  <2>1. q.start \in Nat
    BY <1>0 DEF Within
  <2>2. q.start \notin starts
    <3> HIDE DEF starts
    <3> QED BY <1>2, <1>3, <1>4, <1>5, <2>1, <1>1
  <2>3. ~(q.start \in 0..offset)
    BY <2>2
  <2> QED BY <2>1, <2>3
<1>6. r \in around
  BY <1>3, <1>4, <1>5
<1>7. TextRangeAt(ranges, offset, "line") =
        IF around # {} THEN FirstRange(around)
        ELSE IF ranges # {} /\ offset >= LastRange(ranges).end THEN LastRange(ranges) ELSE NoRange
  BY Zenon DEF TextRangeAt
<1>8. Within(around, Len(t)) /\ around \subseteq ranges
  BY <1>0 DEF Within
<1> HIDE DEF around
<1>9. FirstRange(around) \in around
  BY <1>0, <1>6, <1>8, EdgeRanges
<1> QED BY <1>6, <1>7, <1>8, <1>9 DEF ranges

\* What a node is read from its own text is a place of the text that is reviewed.
LEMMA NavigableStands ==
  ASSUME Types, NEW o \in DOMAIN graph.nodes, NEW k, Standing(k, NodeOf(o).navigable),
         NodeOf(o).navigable = <<>> => k = 0
  PROVE  Standing(k, NodeOf(o).readable)
<1>1. /\ IsText(NodeOf(o).readable)
      /\ NodeOf(o).navigable # <<>> => NodeOf(o).readable = NodeOf(o).navigable
  BY GraphTells DEF Tells
<1>2. CASE NodeOf(o).navigable # <<>>
  BY <1>1, <1>2
<1>3. CASE NodeOf(o).navigable = <<>>
  BY <1>1, <1>3, TextIs DEF Standing, InText
<1> QED BY <1>2, <1>3

LEMMA BrailleLineIs ==
  ASSUME Types, NEW o \in DOMAIN graph.nodes, NEW d \in Directions
  PROVE  BrailleLine(o, d) \in Nat /\ Standing(BrailleLine(o, d), NodeOf(o).readable)
<1> DEFINE t == NodeOf(o).navigable
           lines == NodeOf(o).units.line
           found == MoveTextUnit(lines, review.offset, d)
<1>1. IsText(t) /\ lines = LineRanges(t) /\ review.offset \in Nat
  BY GraphTells, UnitsAre DEF Tells, Types
<1>2. Within(lines, Len(t)) /\ Len(t) \in Nat /\ d \in {-1, 1}
  BY <1>1, LinesAre, TextIs, DirectionsAre
<1>3. BrailleLine(o, d) = IF found # NoRange THEN found.start
                          ELSE TextRangeAt(lines, review.offset, "line").start
  BY DEF BrailleLine
<1> HIDE DEF t, lines
<1>4. PICK r \in LineRanges(t) : BrailleLine(o, d) = r.start
  <2>1. CASE found # NoRange
    <3>1. found \in lines
      BY <1>2, <2>1, MoveTextUnitIs
    <3> QED BY <1>1, <1>3, <2>1, <3>1
  <2>2. CASE found = NoRange
    BY <1>1, <1>3, <2>2, LineAround
  <2> QED BY <2>1, <2>2
<1>5. Standing(r.start, t) /\ r.start \in 0..Len(t)
  BY <1>1, LinesAre, RangesStand DEF Within
<1>6. t = <<>> => r.start = 0
  BY <1>1, <1>5, TextIs
<1> QED BY <1>4, <1>5, <1>6, NavigableStands DEF t, Standing

LEMMA BrailleIs ==
  ASSUME Types, NEW at, NEW pan, NEW browses \in BOOLEAN, NEW how, Braille(at, pan, browses, how),
         pan \in Nat, at.offset \in Nat,
         \/ how = "other"
         \/ how = "review" /\ Standing(at.offset, NodeOf(at.object).readable)
  PROVE  Types' /\ StaysInText /\ ReviewAdvances
<1>1. /\ review'.object = at.object /\ review'.offset = at.offset /\ last' = how
      /\ brailleOffset' = pan /\ cursor' \in {at, cursor}
      /\ UNCHANGED <<graph, version, workload, copyStart, selection>>
  BY DEF Braille, graphVars
<1>2. Types'
  BY <1>1 DEF Types
<1>3. ReviewAdvances
  BY <1>1 DEF ReviewAdvances
<1>4. StaysInText
  BY <1>1, Zenon DEF StaysInText, Standing
<1> QED BY <1>2, <1>3, <1>4

LEMMA BrailleCommandStays ==
  ASSUME Types, BrailleCommand
  PROVE  Types' /\ StaysInText /\ ReviewAdvances
<1>0. BrailleSources \subseteq DOMAIN graph.nodes
  BY DEF BrailleSources, InGraph, Has
<1>1. ASSUME NEW d \in Directions, BraillePan(d) PROVE Types' /\ StaysInText /\ ReviewAdvances
  <2>1. PICK o \in BrailleSources :
          IF "\n" \in ToSet(NodeOf(o).navigable)
            THEN \E line \in {BrailleLine(o, d)} : Braille(At(o, line), line, FALSE, "review")
            ELSE Braille(At(review.object, review.offset), Panned(d, Len(NodeOf(o).said)), FALSE, "other")
    BY <1>1 DEF BraillePan
  <2>2. CASE "\n" \in ToSet(NodeOf(o).navigable)
    <3>1. Braille(At(o, BrailleLine(o, d)), BrailleLine(o, d), FALSE, "review")
      BY <2>1, <2>2
    <3>2. At(o, BrailleLine(o, d)).object = o /\ At(o, BrailleLine(o, d)).offset = BrailleLine(o, d)
      BY DEF At
    <3> QED BY <1>0, <3>1, <3>2, BrailleLineIs, BrailleIs
  <2>3. CASE "\n" \notin ToSet(NodeOf(o).navigable)
    <3> DEFINE width == Len(NodeOf(o).said)
    <3>1. Braille(At(review.object, review.offset), Panned(d, width), FALSE, "other")
      BY <2>1, <2>3
    <3>2. width \in Nat
      BY <1>0, GraphTells, TextIs DEF Tells
    <3>3. brailleCells \in Nat /\ brailleOffset \in Nat
      BY BrailleAssumption DEF Types
    <3> HIDE DEF width
    <3>4. Panned(d, width) \in Nat
      <4>1. Max({0, brailleOffset - brailleCells}) \in Nat
        <5>1. PICK a, b \in Int : a = 0 /\ b = brailleOffset - brailleCells
          BY <3>3
        <5>2. Max({a, b}) \in {a, b} /\ a <= Max({a, b})
          BY GreatestOfTwo
        <5> QED BY <5>1, <5>2
      <4>2. width # 0 => Min({width - 1, brailleOffset + brailleCells}) \in Nat
        <5>1. PICK a, b \in Int : a = width - 1 /\ b = brailleOffset + brailleCells
          BY <3>2, <3>3
        <5>2. Min({a, b}) \in {a, b}
          BY LeastOfTwo
        <5> QED BY <3>2, <3>3, <5>1, <5>2
      <4> QED BY <3>3, <4>1, <4>2, Zenon DEF Panned
    <3>5. At(review.object, review.offset).offset \in Nat
      BY DEF At, Types
    <3> QED BY <3>1, <3>4, <3>5, BrailleIs
  <2> QED BY <2>2, <2>3
<1>2. ASSUME NEW d \in Directions, BrailleMoveLine(d) PROVE Types' /\ StaysInText /\ ReviewAdvances
  <2>1. PICK o \in BrailleSources : Braille(At(o, BrailleLine(o, d)), 0, FALSE, "review")
    BY <1>2 DEF BrailleMoveLine
  <2>2. At(o, BrailleLine(o, d)).object = o /\ At(o, BrailleLine(o, d)).offset = BrailleLine(o, d)
    BY DEF At
  <2> QED BY <1>0, <2>1, <2>2, BrailleLineIs, BrailleIs
<1>3. ASSUME NEW cell \in workload.cells, BrailleRoute(cell) PROVE Types' /\ StaysInText /\ ReviewAdvances
  <2> DEFINE most(o) == Max({0, Len(NodeOf(o).navigable) - 1})
             offset(o) == Min({brailleOffset + cell, most(o)})
  <2>1. PICK o \in BrailleSources : Braille(At(o, offset(o)), brailleOffset, TRUE, "review")
    BY <1>3 DEF BrailleRoute
  <2>2. brailleOffset \in Nat /\ cell \in Nat
    BY WorkloadAssumption DEF Types
  <2>3. IsText(NodeOf(o).navigable) /\ Len(NodeOf(o).navigable) \in Nat
        /\ (NodeOf(o).navigable = <<>> <=> Len(NodeOf(o).navigable) = 0)
    BY <1>0, GraphTells, TextIs DEF Tells
  <2>4. /\ most(o) \in Nat
        /\ NodeOf(o).navigable = <<>> => most(o) = 0
        /\ NodeOf(o).navigable # <<>> => most(o) < Len(NodeOf(o).navigable)
    <3>1. PICK a, b \in Int : a = 0 /\ b = Len(NodeOf(o).navigable) - 1
      BY <2>3
    <3>2. Max({a, b}) \in {a, b} /\ a <= Max({a, b}) /\ b <= Max({a, b})
      BY GreatestOfTwo
    <3> QED BY <2>3, <3>1, <3>2
  <2>5. offset(o) \in Nat /\ offset(o) <= most(o)
    <3> HIDE DEF most
    <3>1. PICK a, b \in Int : a = brailleOffset + cell /\ b = most(o)
      BY <2>2, <2>4
    <3>2. Min({a, b}) \in {a, b} /\ Min({a, b}) <= b
      BY LeastOfTwo
    <3>3. offset(o) = Min({a, b})
      BY <3>1
    <3> HIDE DEF offset
    <3> QED BY <2>2, <2>4, <3>1, <3>2, <3>3
  <2> HIDE DEF most, offset
  <2>6. Standing(offset(o), NodeOf(o).navigable) /\ (NodeOf(o).navigable = <<>> => offset(o) = 0)
    BY <2>3, <2>4, <2>5 DEF Standing, InText
  <2>7. Standing(offset(o), NodeOf(o).readable)
    BY <1>0, <2>6, NavigableStands
  <2>8. At(o, offset(o)).object = o /\ At(o, offset(o)).offset = offset(o)
    BY DEF At
  <2> QED BY <2>1, <2>2, <2>5, <2>7, <2>8, BrailleIs
<1>4. CASE BrailleToggleTether
  <2>1. last' = "other" /\ Types'
    BY <1>4 DEF BrailleToggleTether, Types, graphVars, browseVars
  <2> QED BY <2>1, OtherSteps
<1> QED BY <1>1, <1>2, <1>3, <1>4 DEF BrailleCommand

-----------------------------------------------------------------------------
(* What is above an object *)

Path(nodes, o) == PathsUp(nodes)[depthLimit][o]
Over(nodes, o) == ToSet(Path(nodes, o))

\* A path up is the object and the path up of its parent.
LEMMA PathsUpAt ==
  ASSUME NEW nodes, Rooted(nodes), NEW n \in Nat, NEW o \in Spots(nodes)
  PROVE  /\ PathsUp(nodes)[n][o] \in Seq(DOMAIN nodes)
         /\ o \in DOMAIN nodes => PathsUp(nodes)[n + 1][o] = <<o>> \o PathsUp(nodes)[n][nodes[o].parent]
         /\ o \notin DOMAIN nodes => PathsUp(nodes)[n + 1][o] = <<>>
<1> DEFINE path == PathsUp(nodes)
<1>0. /\ path \in [Nat -> [Spots(nodes) -> Seq(DOMAIN nodes)]]
      /\ \A m \in Nat, x \in Spots(nodes) :
           path[m + 1][x] = IF x \in DOMAIN nodes THEN <<x>> \o path[m][nodes[x].parent] ELSE <<>>
  BY PathsUpDefined
<1> HIDE DEF path
<1>1. path[n] \in [Spots(nodes) -> Seq(DOMAIN nodes)]
  BY <1>0
<1>2. path[n][o] \in Seq(DOMAIN nodes)
  BY <1>1
<1>3. path[n + 1][o] = IF o \in DOMAIN nodes THEN <<o>> \o path[n][nodes[o].parent] ELSE <<>>
  BY <1>0
<1> QED BY <1>2, <1>3 DEF path

\* A path that is shorter than it may be does not grow.
LEMMA PathsUpSettle ==
  ASSUME NEW nodes, Rooted(nodes), NEW n \in Nat, NEW o \in Spots(nodes), Len(PathsUp(nodes)[n][o]) < n
  PROVE  PathsUp(nodes)[n + 1][o] = PathsUp(nodes)[n][o]
<1> DEFINE path == PathsUp(nodes)
           P == {m \in Nat : \A x \in Spots(nodes) : Len(path[m][x]) < m => path[m + 1][x] = path[m][x]}
<1>0. /\ path \in [Nat -> [Spots(nodes) -> Seq(DOMAIN nodes)]]
      /\ \A x \in Spots(nodes) : path[0][x] = <<>>
      /\ \A m \in Nat, x \in Spots(nodes) :
           path[m + 1][x] = IF x \in DOMAIN nodes THEN <<x>> \o path[m][nodes[x].parent] ELSE <<>>
  BY PathsUpDefined
<1> HIDE DEF path
<1>1. 0 \in P
  BY <1>0
<1>2. ASSUME NEW m \in Nat, m \in P PROVE m + 1 \in P
  <2> SUFFICES ASSUME NEW x \in Spots(nodes), Len(path[m + 1][x]) < m + 1
               PROVE  path[(m + 1) + 1][x] = path[m + 1][x]
    BY <1>2
  <2>0. m + 1 \in Nat
    OBVIOUS
  <2>1. CASE x \notin DOMAIN nodes
    BY <2>0, <2>1, <1>0
  <2>2. CASE x \in DOMAIN nodes
    <3> DEFINE p == nodes[x].parent
    <3>1. p \in Spots(nodes)
      BY <2>2 DEF Rooted
    <3>2. path[m + 1][x] = <<x>> \o path[m][p] /\ path[(m + 1) + 1][x] = <<x>> \o path[m + 1][p]
      BY <2>0, <2>2, <1>0
    <3>3. path[m][p] \in Seq(DOMAIN nodes)
      BY <3>1, <1>0
    <3>4. Len(<<x>> \o path[m][p]) = Len(path[m][p]) + 1
      BY <2>2, <3>3, Prepended
    <3>5. Len(path[m][p]) \in Nat
      BY <3>3
    <3>6. Len(path[m][p]) < m
      <4> HIDE DEF p
      <4> QED BY <3>2, <3>4, <3>5
    <3>7. path[m + 1][p] = path[m][p]
      BY <1>2, <3>1, <3>6
    <3> QED BY <3>2, <3>7
  <2> QED BY <2>1, <2>2
<1>3. Nat \subseteq P
  <2> HIDE DEF P
  <2> QED BY <1>1, <1>2, InductionOver
<1> QED
  BY <1>3 DEF path

NotTooDeep(nodes) ==
  Rooted(nodes) /\ depthLimit \in Nat /\ \A o \in DOMAIN nodes : Len(Path(nodes, o)) < depthLimit

\* The path of an object up, which the limit does not cut.
LEMMA PathIs ==
  ASSUME NEW nodes, NotTooDeep(nodes), NEW o \in Spots(nodes)
  PROVE  /\ Path(nodes, o) \in Seq(DOMAIN nodes) /\ Over(nodes, o) \subseteq DOMAIN nodes
         /\ o \notin DOMAIN nodes => Path(nodes, o) = <<>> /\ Over(nodes, o) = {}
<1>1. Path(nodes, o) \in Seq(DOMAIN nodes)
  BY PathsUpDefined DEF NotTooDeep, Path
<1>2. Over(nodes, o) \subseteq DOMAIN nodes
  <2> PICK s : s = Path(nodes, o)
    OBVIOUS
  <2>1. \A i \in DOMAIN s : s[i] \in DOMAIN nodes
    BY <1>1
  <2> QED BY <2>1 DEF Over, ToSet
<1>3. ASSUME o \notin DOMAIN nodes PROVE Path(nodes, o) = <<>>
  <2>1. CASE depthLimit = 0
    BY <2>1, PathsUpDefined DEF NotTooDeep, Path
  <2>2. CASE depthLimit # 0
    <3>1. PICK m \in Nat : m + 1 = depthLimit
      <4>1. depthLimit - 1 \in Nat /\ (depthLimit - 1) + 1 = depthLimit
        BY <2>2 DEF NotTooDeep
      <4> QED BY <4>1
    <3>2. PathsUp(nodes)[m + 1][o] = <<>>
      BY <1>3, PathsUpAt DEF NotTooDeep
    <3> QED BY <3>1, <3>2 DEF Path
  <2> QED BY <2>1, <2>2
<1>4. ToSet(<<>>) = {}
  BY DEF ToSet
<1> QED BY <1>1, <1>2, <1>3, <1>4 DEF Over

\* An object that is not too deep is the first on its path, and its parent's follows.
LEMMA PathGoesOn ==
  ASSUME NEW nodes, NotTooDeep(nodes), NEW o \in DOMAIN nodes
  PROVE  /\ nodes[o].parent \in Spots(nodes)
         /\ Path(nodes, o) = <<o>> \o Path(nodes, nodes[o].parent)
         /\ Over(nodes, o) = {o} \cup Over(nodes, nodes[o].parent)
<1> DEFINE path == PathsUp(nodes)
           p == nodes[o].parent
           n == depthLimit - 1
<1>0. Rooted(nodes) /\ Len(path[depthLimit][o]) < depthLimit
  BY DEF NotTooDeep, Path
<1>2. o \in Spots(nodes) /\ p \in Spots(nodes)
  BY <1>0 DEF Rooted, Spots
<1>1. n \in Nat /\ n + 1 = depthLimit /\ depthLimit \in Nat
  <2>1. depthLimit \in Nat /\ Len(path[depthLimit][o]) \in Nat
    <3>1. path[depthLimit][o] \in Seq(DOMAIN nodes)
      BY <1>2, PathIs DEF Path
    <3> HIDE DEF path
    <3> QED BY <3>1 DEF NotTooDeep
  <2> HIDE DEF path
  <2> QED BY <1>0, <2>1
<1>3. path[n][p] \in Seq(DOMAIN nodes)
  BY <1>0, <1>1, <1>2, PathsUpAt
<1>4. path[n + 1][o] = <<o>> \o path[n][p]
  BY <1>0, <1>1, <1>2, PathsUpAt
<1>5. /\ Len(<<o>> \o path[n][p]) = Len(path[n][p]) + 1 /\ Len(path[n][p]) \in Nat
      /\ ToSet(<<o>> \o path[n][p]) = {o} \cup ToSet(path[n][p])
  BY <1>2, <1>3, Prepended
<1>6. Path(nodes, o) = <<o>> \o path[n][p]
  BY <1>1, <1>4 DEF Path
<1>7. Len(path[n][p]) < n
  <2> HIDE DEF path, p
  <2> QED BY <1>0, <1>1, <1>4, <1>5
<1>8. path[n + 1][p] = path[n][p]
  BY <1>0, <1>1, <1>2, <1>7, PathsUpSettle
<1>9. Path(nodes, p) = path[n][p]
  BY <1>1, <1>8 DEF Path
<1> QED
  BY <1>2, <1>5, <1>6, <1>9 DEF Over

\* What is above an ancestor of an object is above the object.
LEMMA OverOver ==
  ASSUME NEW nodes, NotTooDeep(nodes), NEW o \in Spots(nodes), NEW x \in Over(nodes, o)
  PROVE  Over(nodes, x) \subseteq Over(nodes, o)
<1> DEFINE path == PathsUp(nodes)
           P == {n \in Nat : \A y \in Spots(nodes) : \A z \in ToSet(path[n][y]) :
                   Over(nodes, z) \subseteq Over(nodes, y)}
<1>0. Rooted(nodes)
  BY DEF NotTooDeep
<1>1. 0 \in P
  <2>1. \A y \in Spots(nodes) : ToSet(path[0][y]) = {}
    BY <1>0, PathsUpDefined DEF ToSet
  <2> QED BY <2>1
<1>2. ASSUME NEW n \in Nat, n \in P PROVE n + 1 \in P
  <2> SUFFICES ASSUME NEW y \in Spots(nodes), NEW z \in ToSet(path[n + 1][y])
               PROVE  Over(nodes, z) \subseteq Over(nodes, y)
    BY <1>2
  <2>1. y \in DOMAIN nodes
    <3> SUFFICES ASSUME y \notin DOMAIN nodes PROVE FALSE
      OBVIOUS
    <3>1. path[n + 1][y] = <<>>
      BY <1>0, PathsUpAt
    <3> QED BY <3>1 DEF ToSet
  <2> DEFINE p == nodes[y].parent
  <2>2. p \in Spots(nodes) /\ Over(nodes, y) = {y} \cup Over(nodes, p)
    BY <2>1, PathGoesOn
  <2>3. path[n + 1][y] = <<y>> \o path[n][p] /\ path[n][p] \in Seq(DOMAIN nodes)
    BY <1>0, <2>1, <2>2, PathsUpAt
  <2>4. ToSet(path[n + 1][y]) = {y} \cup ToSet(path[n][p])
    BY <2>1, <2>3, Prepended
  <2>6. CASE z = y
    BY <2>6
  <2>7. CASE z \in ToSet(path[n][p])
    BY <1>2, <2>2, <2>7
  <2> QED BY <2>4, <2>6, <2>7
<1>3. Nat \subseteq P
  <2> HIDE DEF P
  <2> QED BY <1>1, <1>2, InductionOver
<1>4. depthLimit \in Nat
  BY DEF NotTooDeep
<1> QED
  BY <1>3, <1>4 DEF Path, Over

LEMMA TreesNotTooDeep ==
  ASSUME NEW v \in DOMAIN Trees
  PROVE  NotTooDeep(NodesOf(v))
BY TreesAre, TreesRooted DEF NotTooDeep, Path

-----------------------------------------------------------------------------
(* The walk of a tree *)

Tree(root, nodes) ==
  /\ NotTooDeep(nodes) /\ Nothing \notin DOMAIN nodes
  /\ root \in DOMAIN nodes /\ nodes[root].parent = Nothing
  /\ \A o \in DOMAIN nodes :
       /\ nodes[o] \in Node(DOMAIN nodes)
       /\ \A c \in ToSet(nodes[o].children) : nodes[c].parent = o

Walks(nodes) ==
  [stack : Seq([object : DOMAIN nodes, protected : BOOLEAN]), visited : SUBSET DOMAIN nodes,
   redacted : SUBSET DOMAIN nodes, order : Seq(DOMAIN nodes)]

\* What is above an object that was visited was visited, and its children come next.
ParentsFirst(nodes, w) ==
  /\ \A o \in w.visited : Over(nodes, o) \subseteq w.visited
  /\ \A a \in DOMAIN w.stack : nodes[w.stack[a].object].parent \in w.visited \cup {Nothing}

\* The reading order has each object once, after those above it.
EachOnce(nodes, w) ==
  /\ \A i \in DOMAIN w.order : w.order[i] \in w.visited
  /\ \A i, j \in DOMAIN w.order : w.order[j] \in Over(nodes, w.order[i]) => j <= i
  /\ \A i, j \in DOMAIN w.order : w.order[i] = w.order[j] => i = j

\* What is below an object is read in one run: while it lasts ...
Together(nodes, w) ==
  \A i, k, j \in DOMAIN w.order : i < k /\ k < j =>
    \A o \in Over(nodes, w.order[i]) \cap Over(nodes, w.order[j]) : o \in Over(nodes, w.order[k])

\* ... and when it is over, no more of it will be visited ...
Finished(nodes, w) ==
  \A i, j \in DOMAIN w.order : i < j =>
    \A o \in Over(nodes, w.order[i]) : o \notin Over(nodes, w.order[j]) =>
      \A a \in DOMAIN w.stack : w.stack[a].object \notin w.visited => o \notin Over(nodes, w.stack[a].object)

\* ... because what is below an object that was visited is visited before the others.
DepthFirst(nodes, w) ==
  \A o \in w.visited : \A a, b \in DOMAIN w.stack :
    /\ a < b /\ w.stack[a].object \notin w.visited /\ w.stack[b].object \notin w.visited
    /\ o \in Over(nodes, w.stack[b].object)
    => o \in Over(nodes, w.stack[a].object)

InOrder(nodes, w) ==
  /\ ParentsFirst(nodes, w)
  /\ EachOnce(nodes, w)
  /\ Together(nodes, w)
  /\ Finished(nodes, w)
  /\ DepthFirst(nodes, w)

\* The walk takes the entry m, whose object was not visited; x is what the walk becomes.
Takes(nodes, w, m, count, x) ==
  /\ m \in DOMAIN w.stack /\ w.stack[m].object \notin w.visited
  /\ \A a \in DOMAIN w.stack : a < m => w.stack[a].object \in w.visited
  /\ x.visited = w.visited \cup {w.stack[m].object}
  /\ x.order \in {w.order, Append(w.order, w.stack[m].object)}
  /\ count \in Nat
  /\ \A a \in DOMAIN x.stack : a <= count => nodes[x.stack[a].object].parent = w.stack[m].object
  /\ \A a \in DOMAIN x.stack : a > count =>
       /\ (a - count) + m \in DOMAIN w.stack
       /\ x.stack[a].object = w.stack[(a - count) + m].object

\* The members of a sequence by their places.
LEMMA Items ==
  ASSUME NEW T, NEW s \in Seq(T)
  PROVE  \A a \in DOMAIN s : a \in Nat /\ s[a] \in T
OBVIOUS

LEMMA StackIs ==
  ASSUME NEW nodes, NEW w \in Walks(nodes)
  PROVE  /\ \A a \in DOMAIN w.stack : a \in Nat /\ w.stack[a].object \in DOMAIN nodes
         /\ w.visited \subseteq DOMAIN nodes
         /\ Len(w.order) \in Nat /\ DOMAIN w.order = 1..Len(w.order)
         /\ \A i \in DOMAIN w.order : i \in Nat /\ w.order[i] \in DOMAIN nodes
<1>1. /\ w.stack \in Seq([object : DOMAIN nodes, protected : BOOLEAN])
      /\ w.visited \subseteq DOMAIN nodes /\ w.order \in Seq(DOMAIN nodes)
  BY DEF Walks
<1>2. \A a \in DOMAIN w.stack : a \in Nat /\ w.stack[a] \in [object : DOMAIN nodes, protected : BOOLEAN]
  <2> PICK T, s : T = [object : DOMAIN nodes, protected : BOOLEAN] /\ s = w.stack
    OBVIOUS
  <2>1. s \in Seq(T)
    BY <1>1
  <2> QED BY <2>1, Items
<1>3. \A i \in DOMAIN w.order : i \in Nat /\ w.order[i] \in DOMAIN nodes
  BY <1>1
<1> QED BY <1>1, <1>2, <1>3

\* The objects that are taken and left.
LEMMA Taken ==
  ASSUME NEW root, NEW nodes, Tree(root, nodes), NEW w \in Walks(nodes), NEW x \in Walks(nodes),
         NEW m, NEW count, Takes(nodes, w, m, count, x), InOrder(nodes, w),
         NEW e, e = w.stack[m].object
  PROVE  /\ e \in DOMAIN nodes /\ e \notin w.visited /\ x.visited = w.visited \cup {e}
         /\ Over(nodes, e) \subseteq x.visited /\ e \in Over(nodes, e)
         /\ \A o \in DOMAIN nodes : e \in Over(nodes, o) /\ o \in w.visited => FALSE
         /\ \A a \in DOMAIN x.stack : a <= count =>
              Over(nodes, x.stack[a].object) = {x.stack[a].object} \cup Over(nodes, e)
         /\ \A a \in DOMAIN x.stack : a > count /\ x.stack[a].object # e =>
              e \notin Over(nodes, x.stack[a].object)
<1>1. e \in DOMAIN nodes /\ e \notin w.visited /\ x.visited = w.visited \cup {e} /\ w.visited \subseteq DOMAIN nodes
      /\ m \in DOMAIN w.stack
  BY StackIs DEF Takes
<1>2. NotTooDeep(nodes) /\ Nothing \notin DOMAIN nodes
  BY DEF Tree
<1>3. \A o \in DOMAIN nodes : Over(nodes, o) = {o} \cup Over(nodes, nodes[o].parent)
  BY <1>2, PathGoesOn
<1>4. Over(nodes, Nothing) = {}
  BY <1>2, PathIs DEF Spots
<1>5. \A o \in w.visited : Over(nodes, o) \subseteq w.visited
  BY DEF InOrder, ParentsFirst
<1>6. \A a \in DOMAIN w.stack : Over(nodes, w.stack[a].object) \subseteq {w.stack[a].object} \cup w.visited
  <2> SUFFICES ASSUME NEW a \in DOMAIN w.stack
               PROVE  Over(nodes, w.stack[a].object) \subseteq {w.stack[a].object} \cup w.visited
    OBVIOUS
  <2>1. w.stack[a].object \in DOMAIN nodes /\ nodes[w.stack[a].object].parent \in w.visited \cup {Nothing}
    BY StackIs DEF InOrder, ParentsFirst
  <2> QED BY <2>1, <1>3, <1>4, <1>5
<1>7. Over(nodes, e) \subseteq x.visited /\ e \in Over(nodes, e)
  BY <1>1, <1>3, <1>6
<1>8. \A a \in DOMAIN x.stack : a <= count =>
        Over(nodes, x.stack[a].object) = {x.stack[a].object} \cup Over(nodes, e)
  BY <1>3, StackIs DEF Takes
<1>9. \A a \in DOMAIN x.stack : a > count /\ x.stack[a].object # e => e \notin Over(nodes, x.stack[a].object)
  BY <1>1, <1>6 DEF Takes
<1>10. \A o \in DOMAIN nodes : e \in Over(nodes, o) /\ o \in w.visited => FALSE
  BY <1>1, <1>5
<1> QED BY <1>1, <1>7, <1>8, <1>9, <1>10

\* A step of the walk keeps each part of its invariant.
LEMMA TakesParentsFirst ==
  ASSUME NEW root, NEW nodes, Tree(root, nodes), NEW w \in Walks(nodes), NEW x \in Walks(nodes),
         NEW m, NEW count, Takes(nodes, w, m, count, x), InOrder(nodes, w)
  PROVE  ParentsFirst(nodes, x)
<1> PICK e : e = w.stack[m].object
  OBVIOUS
<1>1. /\ e \in DOMAIN nodes /\ x.visited = w.visited \cup {e}
      /\ Over(nodes, e) \subseteq x.visited
  BY Taken
<1>2. \A o \in x.visited : Over(nodes, o) \subseteq x.visited
  BY <1>1 DEF InOrder, ParentsFirst
<1>3. ASSUME NEW a \in DOMAIN x.stack PROVE nodes[x.stack[a].object].parent \in x.visited \cup {Nothing}
  <2>0. a \in Nat /\ count \in Nat
    BY StackIs DEF Takes
  <2>1. CASE a <= count
    BY <1>1, <2>1 DEF Takes
  <2>2. CASE a > count
    <3>1. (a - count) + m \in DOMAIN w.stack /\ x.stack[a].object = w.stack[(a - count) + m].object
      BY <2>2 DEF Takes
    <3> QED BY <1>1, <3>1 DEF InOrder, ParentsFirst
  <2> QED BY <2>0, <2>1, <2>2
<1> QED BY <1>2, <1>3 DEF ParentsFirst

\* Where an object is in the reading order that grows.
LEMMA Grows ==
  ASSUME NEW nodes, NEW w \in Walks(nodes), NEW x \in Walks(nodes),
         NEW m, NEW count, Takes(nodes, w, m, count, x), NEW i \in DOMAIN x.order
  PROVE  /\ i \in Nat
         /\ \/ i \in DOMAIN w.order /\ x.order[i] = w.order[i]
            \/ i = Len(w.order) + 1 /\ x.order[i] = w.stack[m].object
         /\ Len(w.order) \in Nat
         /\ \A j \in DOMAIN w.order : j \in Nat /\ j <= Len(w.order)
<1> PICK n, s, e : n = Len(w.order) /\ s = w.order /\ e = w.stack[m].object
  OBVIOUS
<1>1. /\ n \in Nat /\ DOMAIN s = 1..n /\ s \in Seq(DOMAIN nodes) /\ n = Len(s)
      /\ e \in DOMAIN nodes
  BY StackIs DEF Walks, Takes
<1>2. x.order \in {s, Append(s, e)}
  BY DEF Takes
<1>3. CASE x.order = s
  BY <1>1, <1>3
<1>4. CASE x.order = Append(s, e)
  <2> PICK t : t = x.order
    OBVIOUS
  <2>1. DOMAIN t = 1..n + 1 /\ t[n + 1] = e /\ \A j \in 1..n : t[j] = s[j]
    BY <1>1, <1>4
  <2>2. i \in 1..n + 1
    BY <2>1
  <2>3. CASE i = n + 1
    BY <1>1, <2>1, <2>3
  <2>4. CASE i # n + 1
    <3>1. i \in 1..n
      BY <1>1, <2>2, <2>4
    <3> QED BY <1>1, <2>1, <3>1
  <2> QED BY <2>3, <2>4
<1> QED BY <1>2, <1>3, <1>4

LEMMA TakesEachOnce ==
  ASSUME NEW root, NEW nodes, Tree(root, nodes), NEW w \in Walks(nodes), NEW x \in Walks(nodes),
         NEW m, NEW count, Takes(nodes, w, m, count, x), InOrder(nodes, w)
  PROVE  EachOnce(nodes, x)
<1> PICK e, n : e = w.stack[m].object /\ n = Len(w.order)
  OBVIOUS
<1>1. /\ e \in DOMAIN nodes /\ x.visited = w.visited \cup {e} /\ e \notin w.visited
      /\ \A o \in DOMAIN nodes : e \in Over(nodes, o) /\ o \in w.visited => FALSE
  BY Taken
<1>2. /\ \A i \in DOMAIN w.order : w.order[i] \in w.visited /\ w.order[i] \in DOMAIN nodes
      /\ \A i, j \in DOMAIN w.order : w.order[j] \in Over(nodes, w.order[i]) => j <= i
      /\ \A i, j \in DOMAIN w.order : w.order[i] = w.order[j] => i = j
  BY StackIs DEF InOrder, EachOnce
<1>3. \A i \in DOMAIN x.order :
        /\ i \in Nat
        /\ \/ i \in DOMAIN w.order /\ x.order[i] = w.order[i]
           \/ i = n + 1 /\ x.order[i] = e
        /\ n \in Nat /\ \A j \in DOMAIN w.order : j \in Nat /\ j <= n
  BY Grows
<1>4. \A i \in DOMAIN x.order : x.order[i] \in x.visited
  BY <1>1, <1>2, <1>3
<1>5. ASSUME NEW i \in DOMAIN x.order, NEW j \in DOMAIN x.order, x.order[j] \in Over(nodes, x.order[i])
      PROVE  j <= i
  BY <1>1, <1>2, <1>3, <1>5
<1>6. ASSUME NEW i \in DOMAIN x.order, NEW j \in DOMAIN x.order, x.order[i] = x.order[j]
      PROVE  i = j
  BY <1>1, <1>2, <1>3, <1>6
<1> QED BY <1>4, <1>5, <1>6 DEF EachOnce

LEMMA TakesTogether ==
  ASSUME NEW root, NEW nodes, Tree(root, nodes), NEW w \in Walks(nodes), NEW x \in Walks(nodes),
         NEW m, NEW count, Takes(nodes, w, m, count, x), InOrder(nodes, w)
  PROVE  Together(nodes, x)
<1> PICK e, n : e = w.stack[m].object /\ n = Len(w.order)
  OBVIOUS
<1>1. m \in DOMAIN w.stack /\ e \notin w.visited
  BY DEF Takes
<1>2. \A i \in DOMAIN x.order :
        /\ i \in Nat
        /\ \/ i \in DOMAIN w.order /\ x.order[i] = w.order[i]
           \/ i = n + 1 /\ x.order[i] = e
        /\ n \in Nat /\ \A j \in DOMAIN w.order : j \in Nat /\ j <= n
  BY Grows
<1> SUFFICES ASSUME NEW i \in DOMAIN x.order, NEW k \in DOMAIN x.order, NEW j \in DOMAIN x.order,
                    i < k, k < j, NEW o \in Over(nodes, x.order[i]) \cap Over(nodes, x.order[j]),
                    o \notin Over(nodes, x.order[k])
             PROVE  FALSE
  BY DEF Together
<1>3. i \in DOMAIN w.order /\ k \in DOMAIN w.order /\ x.order[i] = w.order[i] /\ x.order[k] = w.order[k]
  BY <1>2
<1>4. CASE j \in DOMAIN w.order /\ x.order[j] = w.order[j]
  BY <1>3, <1>4 DEF InOrder, Together
<1>5. CASE x.order[j] = e
  BY <1>1, <1>3, <1>5 DEF InOrder, Finished
<1> QED BY <1>2, <1>4, <1>5

LEMMA TakesFinished ==
  ASSUME NEW root, NEW nodes, Tree(root, nodes), NEW w \in Walks(nodes), NEW x \in Walks(nodes),
         NEW m, NEW count, Takes(nodes, w, m, count, x), InOrder(nodes, w)
  PROVE  Finished(nodes, x)
<1> PICK e, n : e = w.stack[m].object /\ n = Len(w.order)
  OBVIOUS
<1>1. /\ e \in DOMAIN nodes /\ e \notin w.visited /\ x.visited = w.visited \cup {e}
      /\ m \in DOMAIN w.stack /\ m \in Nat /\ count \in Nat
  BY Taken, StackIs DEF Takes
<1>2. \A i \in DOMAIN x.order :
        /\ i \in Nat
        /\ \/ i \in DOMAIN w.order /\ x.order[i] = w.order[i]
           \/ i = n + 1 /\ x.order[i] = e
        /\ n \in Nat /\ \A j \in DOMAIN w.order : j \in Nat /\ j <= n
  BY Grows
<1> SUFFICES ASSUME NEW i \in DOMAIN x.order, NEW j \in DOMAIN x.order, i < j,
                    NEW o \in Over(nodes, x.order[i]), o \notin Over(nodes, x.order[j]),
                    NEW a \in DOMAIN x.stack, x.stack[a].object \notin x.visited,
                    o \in Over(nodes, x.stack[a].object)
             PROVE  FALSE
  BY DEF Finished
<1>3. i \in DOMAIN w.order /\ x.order[i] = w.order[i]
  BY <1>2
<1>4. w.order[i] \in w.visited /\ o \in w.visited
  BY <1>3 DEF InOrder, EachOnce, ParentsFirst
<1>5. a \in Nat /\ x.stack[a].object \notin w.visited /\ x.stack[a].object # o /\ x.stack[a].object # e
  BY <1>1, <1>4, StackIs
<1>6. CASE o \in Over(nodes, e)
  <2>1. x.order[j] # e
    BY <1>6
  <2>2. j \in DOMAIN w.order /\ x.order[j] = w.order[j]
    BY <1>2, <2>1
  <2> QED BY <1>1, <1>3, <1>6, <2>2 DEF InOrder, Finished
<1>7. CASE o \notin Over(nodes, e)
  <2>1. a > count
    <3> SUFFICES ASSUME ~(a > count) PROVE FALSE
      OBVIOUS
    <3>1. a <= count
      BY <1>1, <1>5
    <3>2. Over(nodes, x.stack[a].object) = {x.stack[a].object} \cup Over(nodes, e)
      BY <3>1, Taken, SMTT(40)
    <3> QED BY <1>5, <1>7, <3>2
  <2>2. PICK b \in DOMAIN w.stack : m < b /\ x.stack[a].object = w.stack[b].object
    <3>1. (a - count) + m \in DOMAIN w.stack /\ x.stack[a].object = w.stack[(a - count) + m].object
      BY <2>1 DEF Takes
    <3>2. m < (a - count) + m
      BY <1>1, <1>5, <2>1
    <3> QED BY <3>1, <3>2
  <2>3. o \in Over(nodes, e)
    BY <1>1, <1>4, <1>5, <2>2 DEF InOrder, DepthFirst
  <2> QED BY <1>7, <2>3
<1> QED BY <1>6, <1>7

LEMMA TakesDepthFirst ==
  ASSUME NEW root, NEW nodes, Tree(root, nodes), NEW w \in Walks(nodes), NEW x \in Walks(nodes),
         NEW m, NEW count, Takes(nodes, w, m, count, x), InOrder(nodes, w)
  PROVE  DepthFirst(nodes, x)
<1> PICK e : e = w.stack[m].object
  OBVIOUS
<1>1. /\ e \in DOMAIN nodes /\ e \notin w.visited /\ x.visited = w.visited \cup {e}
      /\ e \in Over(nodes, e)
      /\ m \in DOMAIN w.stack /\ m \in Nat /\ count \in Nat
      /\ \A a \in DOMAIN x.stack : a <= count =>
              Over(nodes, x.stack[a].object) = {x.stack[a].object} \cup Over(nodes, e)
      /\ \A a \in DOMAIN x.stack : a > count /\ x.stack[a].object # e =>
              e \notin Over(nodes, x.stack[a].object)
  <2>1. m \in DOMAIN w.stack /\ m \in Nat /\ count \in Nat
    BY StackIs DEF Takes
  <2> QED BY <2>1, Taken
<1> SUFFICES ASSUME NEW o \in x.visited, NEW a \in DOMAIN x.stack, NEW b \in DOMAIN x.stack, a < b,
                    x.stack[a].object \notin x.visited, x.stack[b].object \notin x.visited,
                    o \in Over(nodes, x.stack[b].object)
             PROVE  o \in Over(nodes, x.stack[a].object)
  BY DEF DepthFirst
<1>2. a \in Nat /\ b \in Nat /\ x.stack[b].object # o /\ x.stack[b].object # e /\ x.stack[a].object # e
      /\ x.stack[a].object \notin w.visited /\ x.stack[b].object \notin w.visited
  BY <1>1, StackIs
<1>3. CASE b <= count
  <2>1. o \in Over(nodes, e) /\ a <= count
    BY <1>1, <1>2, <1>3
  <2> QED BY <1>1, <2>1
<1>4. CASE b > count
  <2>1. o # e
    BY <1>1, <1>2, <1>4
  <2>2. o \in w.visited
    BY <1>1, <2>1
  <2>3. \A c \in DOMAIN x.stack : c > count =>
          /\ (c - count) + m \in DOMAIN w.stack
          /\ x.stack[c].object = w.stack[(c - count) + m].object
    BY DEF Takes
  <2>4. PICK y \in DOMAIN w.stack : y = (b - count) + m /\ x.stack[b].object = w.stack[y].object
    BY <1>4, <2>3
  <2>5. m < y
    BY <1>1, <1>2, <1>4, <2>4
  <2>6. CASE a <= count
    <3>1. o \in Over(nodes, e)
      BY <1>1, <1>2, <2>2, <2>4, <2>5 DEF InOrder, DepthFirst
    <3> QED BY <1>1, <2>6, <3>1
  <2>7. CASE a > count
    <3>1. PICK z \in DOMAIN w.stack : z = (a - count) + m /\ x.stack[a].object = w.stack[z].object
      BY <2>3, <2>7
    <3>2. z < y
      BY <1>1, <1>2, <2>4, <3>1
    <3> QED BY <1>2, <2>2, <2>4, <3>1, <3>2 DEF InOrder, DepthFirst
  <2> QED BY <1>1, <1>2, <2>6, <2>7
<1> QED BY <1>1, <1>2, <1>3, <1>4

LEMMA TakesInOrder ==
  ASSUME NEW root, NEW nodes, Tree(root, nodes), NEW w \in Walks(nodes), NEW x \in Walks(nodes),
         NEW m, NEW count, Takes(nodes, w, m, count, x), InOrder(nodes, w)
  PROVE  InOrder(nodes, x)
BY TakesParentsFirst, TakesEachOnce, TakesTogether, TakesFinished, TakesDepthFirst DEF InOrder

\* One sequence and then another.
Joins(T, c, r, s) ==
  /\ s \in Seq(T)
  /\ DOMAIN s = 1..Len(c) + Len(r)
  /\ \A a \in 1..Len(c) : s[a] = c[a]
  /\ \A a \in DOMAIN s : a > Len(c) => a - Len(c) \in 1..Len(r) /\ s[a] = r[a - Len(c)]

\* Two sequences one after the other.
LEMMA Joined == \A T, c, r : c \in Seq(T) /\ r \in Seq(T) => Joins(T, c, r, c \o r)
BY DEF Joins

LEMMA RestOf ==
  ASSUME NEW S, NEW s \in Seq(S), NEW m \in 1..Len(s)
  PROVE  /\ SubSeq(s, m + 1, Len(s)) \in Seq(S)
         /\ Len(SubSeq(s, m + 1, Len(s))) = Len(s) - m
         /\ \A a \in 1..Len(s) - m : SubSeq(s, m + 1, Len(s))[a] = s[a + m]
OBVIOUS

\* One step of the walk.
LEMMA WalkOnKeeps ==
  ASSUME NEW root, NEW nodes, Tree(root, nodes), NEW w \in Walks(nodes), InOrder(nodes, w)
  PROVE  WalkOn(nodes, w) \in Walks(nodes) /\ InOrder(nodes, WalkOn(nodes, w))
<1> DEFINE fresh == {i \in DOMAIN w.stack : w.stack[i].object \in DOMAIN nodes \ w.visited}
           m == Min(fresh)
           rest == SubSeq(w.stack, m + 1, Len(w.stack))
           x == Enter(nodes, w, w.stack[m], rest)
<1>1. WalkOn(nodes, w) = IF fresh = {} THEN w ELSE x
  BY DEF WalkOn
<1> SUFFICES ASSUME fresh # {} PROVE x \in Walks(nodes) /\ InOrder(nodes, x)
  BY <1>1
<1>2. /\ m \in DOMAIN w.stack /\ w.stack[m].object \in DOMAIN nodes \ w.visited
      /\ \A a \in DOMAIN w.stack : a < m => w.stack[a].object \in w.visited
  <2>1. fresh \subseteq Nat
    BY StackIs
  <2>2. m \in fresh /\ \A a \in fresh : m <= a
    <3> HIDE DEF fresh
    <3> QED BY <2>1, MinOfSome
  <2>3. \A a \in DOMAIN w.stack : a \in Nat /\ w.stack[a].object \in DOMAIN nodes
    BY StackIs
  <2>4. m \in Nat
    BY <2>1, <2>2
  <2> HIDE DEF m
  <2>5. ASSUME NEW a \in DOMAIN w.stack, a < m PROVE w.stack[a].object \in w.visited
    BY <2>2, <2>3, <2>4, <2>5
  <2> QED BY <2>2, <2>5
<1> HIDE DEF fresh
<1> PICK k : k = m
  OBVIOUS
<1> DEFINE entry == w.stack[k]
           e == entry.object
           n == IF entry.protected THEN RedactedContentCopy(nodes[e]) ELSE nodes[e]
           protects == entry.protected \/ ProtectsDescendantContent(n)
           children == [i \in DOMAIN n.children |-> [object |-> n.children[i], protected |-> protects]]
           Entry == [object : DOMAIN nodes, protected : BOOLEAN]
<1>3. /\ w.stack \in Seq(Entry) /\ w.visited \subseteq DOMAIN nodes /\ w.redacted \subseteq DOMAIN nodes
      /\ w.order \in Seq(DOMAIN nodes)
  BY DEF Walks
<1>4. k \in 1..Len(w.stack) /\ Len(w.stack) \in Nat /\ entry \in Entry
  <2> PICK T, s : T = Entry /\ s = w.stack
    OBVIOUS
  <2>1. s \in Seq(T) /\ k \in DOMAIN s
    BY <1>2, <1>3
  <2>2. k \in 1..Len(s) /\ Len(s) \in Nat /\ s[k] \in T
    <3> HIDE DEF Entry, m
    <3> QED BY <2>1, Items
  <2> QED BY <2>2
<1>5. e \in DOMAIN nodes /\ n.children = nodes[e].children
      /\ nodes[e].children \in Seq(DOMAIN nodes)
      /\ \A c \in ToSet(nodes[e].children) : nodes[c].parent = e
  <2>1. e \in DOMAIN nodes
    BY <1>2
  <2>2. nodes[e] \in Node(DOMAIN nodes) /\ \A c \in ToSet(nodes[e].children) : nodes[c].parent = e
    BY <2>1 DEF Tree
  <2>3. RedactedContentCopy(nodes[e]).children = nodes[e].children
    BY <2>2, RedactedIsCopy DEF Copies
  <2>4. nodes[e].children \in Seq(DOMAIN nodes)
    <3> PICK N, objects : N = nodes[e] /\ objects = DOMAIN nodes
      OBVIOUS
    <3>1. N \in Node(objects)
      BY <2>2
    <3>2. N.children \in Seq(objects)
      BY <3>1 DEF Node
    <3> QED BY <3>2
  <2> QED BY <2>1, <2>2, <2>3, <2>4
<1>6. x = [stack |-> children \o rest, visited |-> w.visited \cup {e},
           redacted |-> w.redacted \cup {o \in {e} : entry.protected},
           order |-> IF Semantic(n) THEN Append(w.order, e) ELSE w.order]
  BY Zenon DEF Enter
<1>7. protects \in BOOLEAN
  <2> HIDE DEF n, entry
  <2> QED OBVIOUS
<1> HIDE DEF n, protects
<1>8. children \in Seq(Entry) /\ Len(children) = Len(n.children) /\ Len(children) \in Nat
      /\ \A a \in 1..Len(children) : nodes[children[a].object].parent = e
  <2> PICK c, count, objects, p : /\ c = n.children /\ count = Len(n.children) /\ objects = DOMAIN nodes
                                  /\ p = protects
    OBVIOUS
  <2>1. c \in Seq(objects)
    BY <1>5
  <2>2. count \in Nat /\ DOMAIN c = 1..count /\ \A a \in 1..count : c[a] \in objects /\ c[a] \in ToSet(c)
    BY <2>1 DEF ToSet
  <2>3. children = [i \in 1..count |-> [object |-> c[i], protected |-> p]]
    BY <2>2
  <2>4. \A a \in 1..count : [object |-> c[a], protected |-> p] \in Entry
    BY <1>7, <2>2
  <2>5. children \in [1..count -> Entry]
    <3> HIDE DEF children
    <3> QED BY <2>3, <2>4
  <2>6. children \in Seq(Entry) /\ Len(children) = count
    <3> HIDE DEF children, Entry
    <3> QED BY <2>2, <2>5, Listed
  <2>7. \A a \in 1..count : children[a].object = c[a]
    <3> HIDE DEF children
    <3> QED BY <2>3
  <2>8. \A a \in 1..count : nodes[c[a]].parent = e
    BY <1>5, <2>2
  <2> HIDE DEF children, Entry, e
  <2> QED BY <2>2, <2>6, <2>7, <2>8
<1> HIDE DEF children
<1>9. rest \in Seq(Entry) /\ Len(rest) = Len(w.stack) - k /\ \A a \in 1..Len(rest) : rest[a] = w.stack[a + k]
  <2> PICK T, s : T = Entry /\ s = w.stack
    OBVIOUS
  <2>1. s \in Seq(T) /\ k \in 1..Len(s)
    BY <1>3, <1>4
  <2>2. /\ SubSeq(s, k + 1, Len(s)) \in Seq(T)
        /\ Len(SubSeq(s, k + 1, Len(s))) = Len(s) - k
        /\ \A a \in 1..Len(s) - k : SubSeq(s, k + 1, Len(s))[a] = s[a + k]
    <3> HIDE DEF Entry, m
    <3> QED BY <2>1, RestOf
  <2> HIDE DEF Entry
  <2> QED BY <2>2
<1> HIDE DEF rest
<1> PICK y : y = x
  OBVIOUS
<1>10. y = [stack |-> children \o rest, visited |-> w.visited \cup {e},
           redacted |-> w.redacted \cup {o \in {e} : entry.protected},
           order |-> IF Semantic(n) THEN Append(w.order, e) ELSE w.order]
  BY <1>6
<1> HIDE DEF x
<1>11. /\ children \o rest \in Seq(Entry)
       /\ DOMAIN (children \o rest) = 1..Len(children) + Len(rest)
       /\ \A a \in 1..Len(children) : (children \o rest)[a] = children[a]
       /\ \A a \in DOMAIN (children \o rest) : a > Len(children) =>
            a - Len(children) \in 1..Len(rest) /\ (children \o rest)[a] = rest[a - Len(children)]
  <2> HIDE DEF Entry
  <2>1. Joins(Entry, children, rest, children \o rest)
    BY <1>8, <1>9, Joined, Zenon
  <2> QED BY <2>1 DEF Joins
<1>12. Append(w.order, e) \in Seq(DOMAIN nodes)
  BY <1>3, <1>5, Appended DEF Longer
<1>13. y \in Walks(nodes)
  <2> PICK ch, T, s : ch = children \o rest /\ T = Seq(Entry) /\ s = IF Semantic(n) THEN Append(w.order, e) ELSE w.order
    OBVIOUS
  <2>1. ch \in T
    BY <1>11
  <2>2. s \in Seq(DOMAIN nodes)
    <3> HIDE DEF Entry, e, entry
    <3> QED BY <1>3, <1>12
  <2> DEFINE red == w.redacted \cup {o \in {e} : entry.protected}
  <2>3. red \subseteq DOMAIN nodes
    BY <1>3, <1>5
  <2>4. y = [stack |-> ch, visited |-> w.visited \cup {e}, redacted |-> red, order |-> s]
    BY <1>10
  <2> HIDE DEF red, Entry, entry, e
  <2>5. y \in [stack : T, visited : SUBSET DOMAIN nodes, redacted : SUBSET DOMAIN nodes, order : Seq(DOMAIN nodes)]
    BY <1>3, <1>5, <2>1, <2>2, <2>3, <2>4
  <2> QED BY <2>5 DEF Walks, Entry
<1>14. Takes(nodes, w, k, Len(children), y)
  <2>1. y.stack = children \o rest /\ y.visited = w.visited \cup {e}
        /\ y.order \in {w.order, Append(w.order, e)}
    BY <1>10
  <2>2. ASSUME NEW a \in DOMAIN y.stack, a <= Len(children)
        PROVE  nodes[y.stack[a].object].parent = e
    <3> HIDE DEF Entry, entry, e
    <3>1. a \in 1..Len(children)
      BY <1>8, <1>9, <1>11, <2>1, <2>2
    <3> QED BY <1>8, <1>11, <2>1, <3>1
  <2>3. ASSUME NEW a \in DOMAIN y.stack, a > Len(children)
        PROVE  /\ (a - Len(children)) + k \in DOMAIN w.stack
               /\ y.stack[a].object = w.stack[(a - Len(children)) + k].object
    <3> PICK s, S : s = w.stack /\ S = Entry
      OBVIOUS
    <3> HIDE DEF Entry, entry, e
    <3>1. a - Len(children) \in 1..Len(rest) /\ y.stack[a] = rest[a - Len(children)]
      BY <1>11, <2>1, <2>3
    <3>2. rest[a - Len(children)] = w.stack[(a - Len(children)) + k]
      BY <1>9, <3>1
    <3>3. DOMAIN s = 1..Len(s) /\ s = w.stack
      BY <1>3
    <3>4. (a - Len(children)) + k \in 1..Len(w.stack)
      BY <1>4, <1>8, <1>9, <3>1
    <3> QED BY <3>1, <3>2, <3>3, <3>4
  <2>4. k = m
    OBVIOUS
  <2> HIDE DEF Entry
  <2> QED BY <1>2, <1>8, <2>1, <2>2, <2>3, <2>4, Zenon DEF Takes
<1>15. InOrder(nodes, y)
  BY <1>13, <1>14, TakesInOrder
<1> QED BY <1>13, <1>15

WalkStart(root) ==
  [stack |-> <<[object |-> root, protected |-> FALSE]>>, visited |-> {}, redacted |-> {}, order |-> <<>>]

LEMMA WalkStarts ==
  ASSUME NEW root, NEW nodes, Tree(root, nodes)
  PROVE  WalkStart(root) \in Walks(nodes) /\ InOrder(nodes, WalkStart(root))
<1> PICK T, e : T = [object : DOMAIN nodes, protected : BOOLEAN] /\ e = [object |-> root, protected |-> FALSE]
  OBVIOUS
<1>1. e \in T /\ e.object = root /\ root \in DOMAIN nodes /\ nodes[root].parent = Nothing
  BY DEF Tree
<1>2. <<e>> \in Seq(T) /\ DOMAIN <<e>> = {1} /\ <<e>>[1] = e
  BY <1>1
<1> PICK s, empty : s = <<e>> /\ empty = <<>>
  OBVIOUS
<1>3. empty \in Seq(DOMAIN nodes) /\ DOMAIN empty = {}
  OBVIOUS
<1> PICK w : w = WalkStart(root)
  OBVIOUS
<1>4. w = [stack |-> s, visited |-> {}, redacted |-> {}, order |-> empty]
  BY DEF WalkStart
<1>5. w \in Walks(nodes)
  BY <1>2, <1>3, <1>4 DEF Walks
<1>6. /\ \A a \in DOMAIN w.stack : a = 1 /\ w.stack[a].object = root
      /\ DOMAIN w.order = {} /\ w.visited = {}
  BY <1>1, <1>2, <1>3, <1>4
<1>7. InOrder(nodes, w)
  BY <1>1, <1>6 DEF InOrder, ParentsFirst, EachOnce, Together, Finished, DepthFirst
<1> QED BY <1>5, <1>7

\* However far the walk has come.
LEMMA WalkIs ==
  ASSUME NEW root, NEW nodes, Tree(root, nodes), NEW n \in Nat
  PROVE  Walk(root, nodes)[n] \in Walks(nodes) /\ InOrder(nodes, Walk(root, nodes)[n])
<1> DEFINE S == {w \in Walks(nodes) : InOrder(nodes, w)}
           G(w) == WalkOn(nodes, w)
           c == WalkStart(root)
<1>1. c \in S
  BY WalkStarts
<1>2. \A w \in S : G(w) \in S
  BY WalkOnKeeps
<1> HIDE DEF S, G, c
<1>3. PICK D : D = [w \in S |-> G(w)]
  OBVIOUS
<1>4. D \in [S -> S]
  BY <1>2, <1>3
<1>5. PICK f : Repeats(f, S, c, D)
  BY <1>1, <1>4, Repetition
<1>6. f \in [Nat -> S] /\ f[0] = c /\ \A m \in Nat : f[m + 1] = G(f[m])
  BY <1>3, <1>5 DEF Repeats
<1> DEFINE E(h, m) == IF m = 0 THEN c ELSE G(h[m - 1])
           Defines(h) == h = [m \in Nat |-> E(h, m)]
<1>7. Defines(f)
  <2>1. ASSUME NEW m \in Nat PROVE f[m] = E(f, m)
    <3>1. CASE m = 0
      BY <3>1, <1>6
    <3>2. CASE m # 0
      <4>1. m - 1 \in Nat /\ (m - 1) + 1 = m
        BY <3>2
      <4>2. f[m] = G(f[m - 1])
        BY <4>1, <1>6
      <4> QED BY <3>2, <4>2
    <3> QED BY <3>1, <3>2
  <2>2. f = [m \in Nat |-> f[m]]
    BY <1>6
  <2> HIDE DEF E
  <2> QED BY <2>1, <2>2
<1>8. Walk(root, nodes) = CHOOSE h : Defines(h)
  BY DEF Walk, G, c, WalkStart
<1>9. Defines(Walk(root, nodes))
  <2> HIDE DEF Defines
  <2> QED BY <1>7, <1>8
<1>10. PICK walk : walk = Walk(root, nodes)
  OBVIOUS
<1>11. ASSUME NEW m \in Nat PROVE walk[m] = E(walk, m)
  <2> HIDE DEF E
  <2> QED BY <1>9, <1>10
<1> DEFINE P == {m \in Nat : walk[m] \in S}
<1>12. 0 \in P
  BY <1>1, <1>11
<1>13. ASSUME NEW m \in Nat, m \in P PROVE m + 1 \in P
  <2>1. m + 1 \in Nat /\ m + 1 # 0 /\ (m + 1) - 1 = m
    OBVIOUS
  <2>2. walk[m + 1] = G(walk[m])
    BY <2>1, <1>11
  <2> QED BY <1>2, <1>13, <2>1, <2>2
<1>14. Nat \subseteq P
  <2> HIDE DEF P
  <2> QED BY <1>12, <1>13, InductionOver
<1>15. walk[n] \in S
  BY <1>14
<1> QED BY <1>10, <1>15 DEF S

-----------------------------------------------------------------------------
(* The reading order of a graph *)

LEMMA TreesAreTrees ==
  ASSUME NEW v \in DOMAIN Trees
  PROVE  Tree(Trees[v].root, NodesOf(v))
BY TreesAre, TreesNotTooDeep DEF Tree

\* The order has each object once, an object before what is below it, and that in one run.
LEMMA OrderIs ==
  ASSUME NEW v \in DOMAIN Trees, NEW order, order = Graphs[v].order
  PROVE  /\ Len(order) \in Nat /\ DOMAIN order = 1..Len(order)
         /\ \A i \in 1..Len(order) : order[i] \in DOMAIN NodesOf(v)
         /\ \A i, j \in 1..Len(order) : order[i] = order[j] => i = j
         /\ \A i, j \in 1..Len(order) : order[j] \in Over(NodesOf(v), order[i]) => j <= i
         /\ \A i, k, j \in 1..Len(order) : i < k /\ k < j =>
              \A o \in Over(NodesOf(v), order[i]) \cap Over(NodesOf(v), order[j]) :
                o \in Over(NodesOf(v), order[k])
<1> PICK nodes, root : nodes = NodesOf(v) /\ root = Trees[v].root
  OBVIOUS
<1>1. Tree(root, nodes)
  BY TreesAreTrees
<1>2. Cardinality(DOMAIN nodes) \in Nat
  BY TreesAre, FS_CardinalityType
<1> PICK w : w = Walk(root, nodes)[Cardinality(DOMAIN nodes)]
  OBVIOUS
<1>3. w \in Walks(nodes) /\ InOrder(nodes, w)
  BY <1>1, <1>2, WalkIs
<1>4. order = w.order
  BY GraphIs
<1>5. /\ Len(order) \in Nat /\ DOMAIN order = 1..Len(order)
      /\ \A i \in DOMAIN order : order[i] \in DOMAIN nodes
  BY <1>3, <1>4, StackIs
<1>6. EachOnce(nodes, w) /\ Together(nodes, w)
  BY <1>3 DEF InOrder
<1>7. DOMAIN order = 1..Len(order) /\ nodes = NodesOf(v)
  BY <1>5
<1>8. /\ \A i, j \in 1..Len(order) : order[i] = order[j] => i = j
      /\ \A i, j \in 1..Len(order) : order[j] \in Over(NodesOf(v), order[i]) => j <= i
  BY <1>4, <1>6, <1>7 DEF EachOnce
<1>9. \A i, k, j \in 1..Len(order) : i < k /\ k < j =>
        \A o \in Over(NodesOf(v), order[i]) \cap Over(NodesOf(v), order[j]) :
          o \in Over(NodesOf(v), order[k])
  BY <1>4, <1>6, <1>7, ZenonT(40) DEF Together
<1> QED BY <1>5, <1>7, <1>8, <1>9

-----------------------------------------------------------------------------
(* Places in the reading order *)

Length == Len(graph.order)
Below(o, x) == o \in Over(NodesOf(version), x)

\* The reading order: what is above an object comes first, what is below it stands together.
LEMMA PlacesAre ==
  ASSUME Types
  PROVE  /\ Length \in Nat /\ Nothing \notin DOMAIN graph.nodes
         /\ DOMAIN graph.nodes = DOMAIN NodesOf(version) /\ version \in DOMAIN Trees
         /\ \A i \in 1..Length : graph.order[i] \in DOMAIN graph.nodes /\ graph.order[i] # Nothing
         /\ \A i, j \in 1..Length : Below(graph.order[j], graph.order[i]) => j <= i
         /\ \A i, k, j \in 1..Length : i < k /\ k < j =>
              \A o : Below(o, graph.order[i]) /\ Below(o, graph.order[j]) => Below(o, graph.order[k])
<1>1. version \in DOMAIN Trees /\ graph = Graphs[version]
  BY DEF Types
<1>2. DOMAIN graph.nodes = DOMAIN NodesOf(version) /\ Nothing \notin DOMAIN NodesOf(version)
  BY <1>1, GraphIs, TreesAre
<1>3. /\ Len(graph.order) \in Nat
      /\ \A i \in 1..Len(graph.order) : graph.order[i] \in DOMAIN NodesOf(version)
      /\ \A i, j \in 1..Len(graph.order) : graph.order[j] \in Over(NodesOf(version), graph.order[i]) => j <= i
      /\ \A i, k, j \in 1..Len(graph.order) : i < k /\ k < j =>
           \A o \in Over(NodesOf(version), graph.order[i]) \cap Over(NodesOf(version), graph.order[j]) :
             o \in Over(NodesOf(version), graph.order[k])
  BY <1>1, OrderIs
<1>4. \A i \in 1..Length : graph.order[i] \in DOMAIN graph.nodes /\ graph.order[i] # Nothing
  BY <1>2, <1>3 DEF Length
<1>5. \A i, k, j \in 1..Length : i < k /\ k < j =>
        \A o : Below(o, graph.order[i]) /\ Below(o, graph.order[j]) => Below(o, graph.order[k])
  BY <1>3, Zenon DEF Length, Below
<1>6. \A i, j \in 1..Length : Below(graph.order[j], graph.order[i]) => j <= i
  BY <1>3, Zenon DEF Length, Below
<1> QED BY <1>1, <1>2, <1>3, <1>4, <1>5, <1>6 DEF Length

\* An object has the place that it has in the order, and 0 if it is not in it.
LEMMA IndexIs ==
  ASSUME Types
  PROVE  /\ \A i \in 1..Length : Index(graph, graph.order[i]) = i
         /\ \A o : Index(graph, o) # 0 =>
              /\ Index(graph, o) \in 1..Length /\ graph.order[Index(graph, o)] = o
              /\ o \in DOMAIN graph.nodes
         /\ \A o : Index(graph, o) \in Nat
<1>0. Length \in Nat /\ \A i \in 1..Length : graph.order[i] \in DOMAIN graph.nodes
  BY PlacesAre
<1>1. \A i, j \in 1..Length : graph.order[i] = graph.order[j] => i = j
  BY OrderIs DEF Types, Length
<1> DEFINE At_(o) == {i \in 1..Length : graph.order[i] = o}
<1>2. ASSUME NEW o \in DOMAIN graph.nodes PROVE Index(graph, o) = Max({0} \cup At_(o))
  <2>1. NodeOf(o).place = Max({0} \cup {i \in 1..Len(Graphs[version].order) : Graphs[version].order[i] = o})
    BY GraphTells DEF Tells
  <2>2. graph = Graphs[version]
    BY DEF Types
  <2> QED BY <2>1, <2>2 DEF Index, Has, NodeOf, Length
<1>3. ASSUME NEW o \in DOMAIN graph.nodes
      PROVE  Index(graph, o) \in {0} \cup At_(o) /\ \A i \in At_(o) : i <= Index(graph, o)
  <2> DEFINE T == {0} \cup At_(o)
  <2>1. T \subseteq Nat /\ T # {} /\ \A i \in T : i <= Length
    BY <1>0
  <2>2. Max(T) \in T /\ \A i \in T : i <= Max(T)
    <3> HIDE DEF T
    <3> QED BY <1>0, <2>1, MaxOfSome
  <2> QED BY <1>2, <2>2
<1>4. \A o : o \notin DOMAIN graph.nodes => Index(graph, o) = 0
  BY DEF Index, Has
<1>5. ASSUME NEW i \in 1..Length PROVE Index(graph, graph.order[i]) = i
  <2>1. graph.order[i] \in DOMAIN graph.nodes /\ i \in At_(graph.order[i])
    BY <1>0
  <2>2. Index(graph, graph.order[i]) \in {0} \cup At_(graph.order[i]) /\ i <= Index(graph, graph.order[i])
    BY <1>3, <2>1
  <2>3. Index(graph, graph.order[i]) # 0
    BY <2>2
  <2> QED BY <1>1, <2>2, <2>3
<1>6. ASSUME NEW o, Index(graph, o) # 0
      PROVE  /\ Index(graph, o) \in 1..Length /\ graph.order[Index(graph, o)] = o
             /\ o \in DOMAIN graph.nodes
  <2>1. o \in DOMAIN graph.nodes
    BY <1>4, <1>6
  <2>2. Index(graph, o) \in At_(o)
    BY <1>3, <1>6, <2>1
  <2> QED BY <2>1, <2>2
<1>7. \A o : Index(graph, o) \in Nat
  BY <1>0, <1>6
<1> QED BY <1>5, <1>6, <1>7

\* What is found is in the order, in the direction.
LEMMA NearestIs ==
  ASSUME Types, NEW from \in Int, NEW d \in {-1, 1}, NEW places, places \subseteq 1..Length,
         Nearest(graph, from, d, places) # Nothing
  PROVE  \E i \in places : Nearest(graph, from, d, places) = graph.order[i] /\ d * (i - from) > 0
<1> DEFINE ahead == {i \in places : d * (i - from) > 0}
<1>1. Nearest(graph, from, d, places) =
        IF ahead = {} THEN Nothing ELSE graph.order[IF d > 0 THEN Min(ahead) ELSE Max(ahead)]
  BY DEF Nearest
<1>2. ahead # {} /\ ahead \subseteq 1..Length /\ Length \in Nat
  BY <1>1, PlacesAre
<1>3. Min(ahead) \in ahead /\ Max(ahead) \in ahead
  <2> HIDE DEF ahead
  <2>1. ahead \subseteq Nat /\ \A i \in ahead : i <= Length
    BY <1>2
  <2> QED BY <1>2, <2>1, MinOfSome, MaxOfSome
<1> QED BY <1>1, <1>2, <1>3

\* A move goes to a place ahead in its direction.
LEMMA MoveIs ==
  ASSUME Types, NEW o, NEW d \in {-1, 1}, NEW places, places \subseteq 1..Length,
         Move(graph, o, d, places) # Nothing
  PROVE  \E i \in places : /\ Move(graph, o, d, places) = graph.order[i]
                           /\ Index(graph, o) # 0 => d * (i - Index(graph, o)) > 0
<1> DEFINE from == IF Index(graph, o) = 0 /\ d < 0 THEN Len(graph.order) + 1 ELSE Index(graph, o)
<1>1. Move(graph, o, d, places) = Nearest(graph, from, d, places)
  BY DEF Move
<1>2. from \in Int /\ (Index(graph, o) # 0 => from = Index(graph, o))
  BY IndexIs, PlacesAre DEF Length
<1> HIDE DEF from
<1>3. PICK i \in places : Nearest(graph, from, d, places) = graph.order[i] /\ d * (i - from) > 0
  BY <1>1, <1>2, NearestIs
<1> QED BY <1>1, <1>2, <1>3

LEMMA PlacesInAre ==
  ASSUME Types, NEW document, NEW objects
  PROVE  /\ PlacesIn(graph, document, objects) \subseteq 1..Length
         /\ \A i \in PlacesIn(graph, document, objects) :
              graph.order[i] \in objects /\ InDocument(graph, graph.order[i], document)
BY DEF PlacesIn, Places, Length

LEMMA MoveInDocumentIs ==
  ASSUME Types, NEW o, NEW d \in {-1, 1}, NEW objects, MoveInDocument(graph, o, d, objects) # Nothing
  PROVE  /\ MoveInDocument(graph, o, d, objects) \in objects
         /\ MoveInDocument(graph, o, d, objects) \in DOMAIN graph.nodes
         /\ InDocument(graph, MoveInDocument(graph, o, d, objects), DocumentRoot(graph, o))
         /\ Index(graph, MoveInDocument(graph, o, d, objects)) # 0
         /\ Index(graph, o) # 0 =>
              d * (Index(graph, MoveInDocument(graph, o, d, objects)) - Index(graph, o)) > 0
<1> DEFINE places == PlacesIn(graph, DocumentRoot(graph, o), objects)
<1>1. MoveInDocument(graph, o, d, objects) = Move(graph, o, d, places)
  BY DEF MoveInDocument
<1>2. /\ places \subseteq 1..Length
      /\ \A i \in places : graph.order[i] \in objects /\ InDocument(graph, graph.order[i], DocumentRoot(graph, o))
  BY PlacesInAre
<1> HIDE DEF places
<1>3. PICK i \in places : /\ Move(graph, o, d, places) = graph.order[i]
                          /\ Index(graph, o) # 0 => d * (i - Index(graph, o)) > 0
  BY <1>1, <1>2, MoveIs
<1>4. i \in 1..Length /\ Index(graph, graph.order[i]) = i /\ graph.order[i] \in DOMAIN graph.nodes
  BY <1>2, <1>3, IndexIs, PlacesAre
<1>5. i # 0
  BY <1>4, PlacesAre
<1> QED BY <1>1, <1>2, <1>3, <1>4, <1>5

-----------------------------------------------------------------------------
(* The moves of the browse cursor *)

\* What CursorsAdvance says of a step of the browse cursor, and of its move to a place.
Advances(how, to) ==
  /\ how = "next" => Beyond(1, cursor, to)
  /\ how = "previous" => Beyond(-1, cursor, to)
  /\ how = "past" /\ Index(graph, Containing(graph, cursor.object, Containers)) # 0 =>
       Beyond(1, cursor, to)
  /\ ~InsideLine(cursor.object) =>
       /\ how = "nextLine" => Beyond(1, cursor, to)
       /\ how = "previousLine" => Beyond(-1, cursor, to)

BrowseAdvances == Place(cursor) # 0 => Advances(last', cursor')

\* What every step keeps.
Kept == Types' /\ StaysInText /\ ReviewAdvances /\ BrowseAdvances

\* A browse command whose target is ahead keeps everything.
LEMMA BrowseIs ==
  ASSUME Types, NEW found, NEW how, Browse(found, how),
         how \notin {"review", "reviewNext", "reviewPrevious"},
         found.object # Nothing =>
           found.offset \in Nat /\ (Place(cursor) # 0 => Advances(how, found))
  PROVE  Kept
<1>1. /\ cursor' = IF found.object = Nothing THEN cursor ELSE found
      /\ last' = IF found.object = Nothing THEN "boundary" ELSE how
      /\ UNCHANGED <<graph, version, workload, review, copyStart, brailleOffset>>
  BY DEF Browse, graphVars, reviewVars
<1>2. cursor'.offset \in Nat
  BY <1>1 DEF Types
<1>3. Types'
  BY <1>1, <1>2 DEF Types
<1>4. StaysInText /\ ReviewAdvances
  <2>1. last' \notin {"review", "reviewNext", "reviewPrevious"}
    BY <1>1
  <2> QED BY <2>1, OtherSteps
<1>5. BrowseAdvances
  <2>1. CASE found.object = Nothing
    <3>1. last' = "boundary"
      BY <1>1, <2>1
    <3> QED BY <3>1 DEF BrowseAdvances, Advances
  <2>2. CASE found.object # Nothing
    <3>1. last' = how /\ cursor' = found
      BY <1>1, <2>2
    <3> QED BY <2>2, <3>1 DEF BrowseAdvances
  <2> QED BY <2>1, <2>2
<1> QED BY <1>3, <1>4, <1>5 DEF Kept

\* A move to an object further on, at any offset.
LEMMA Further ==
  ASSUME NEW d \in {-1, 1}, NEW to,
         Place(cursor) # 0 => d * (Index(graph, to.object) - Place(cursor)) > 0
  PROVE  Place(cursor) # 0 => Advances(Direction(d), to)
<1>1. CASE d = 1
  BY <1>1 DEF Advances, Direction, Beyond, Place
<1>2. CASE d = -1
  BY <1>2 DEF Advances, Direction, Beyond, Place
<1> QED BY <1>1, <1>2

LEMMA DirectionIs ==
  ASSUME NEW d
  PROVE  Direction(d) \notin {"review", "reviewNext", "reviewPrevious"}
BY DEF Direction

LEMMA StartIs == \A o : Start(o).object = o /\ Start(o).offset = 0
BY DEF Start

LEMMA AtIs == \A o, k : At(o, k).object = o /\ At(o, k).offset = k
BY DEF At

\* An object between two of a document.
Between(document, o) ==
  \E i, k, j \in 1..Length : /\ i < k /\ k < j /\ o = graph.order[k]
                            /\ InDocument(graph, graph.order[i], document)
                            /\ InDocument(graph, graph.order[j], document)

\* Text between links.
LEMMA NotLinkBlockIs ==
  ASSUME Types, NEW d \in {-1, 1}, FindNotLinkBlock(cursor.object, d) # Nothing
  PROVE  /\ Index(graph, FindNotLinkBlock(cursor.object, d)) # 0
         /\ d * (Index(graph, FindNotLinkBlock(cursor.object, d)) - Place(cursor)) > 0
         /\ Between(DocumentRoot(graph, cursor.object), FindNotLinkBlock(cursor.object, d))
<1> PICK o : o = cursor.object
  OBVIOUS
<1> DEFINE all == {x \in DOMAIN graph.nodes : NodeOf(x).role = "link"}
           links == {i \in PlacesIn(graph, DocumentRoot(graph, o), all) : d * (i - Index(graph, o)) > 0}
           Text(i, j) == {k \in i + 1..j - 1 :
                       /\ {graph.order[i], graph.order[j]} \cap ToSet(Up(graph, graph.order[k])) = {}
                       /\ NodeOf(graph.order[k]).said # <<>>}
           Size(text) == MapThenSumSet(LAMBDA k : Len(NodeOf(graph.order[k]).said) + 1, text)
           Ends(i) == {j \in links : j > i /\ ~\E k \in links : i < k /\ k < j}
           Enough(i) == {text \in {Text(i, j) : j \in Ends(i)} : Size(text) >= notLinkBlockMinimumLength}
           Targets(i) == {k \in UNION Enough(i) : ~RedundantTextLeaf(graph, NodeOf(graph.order[k]))}
           blocks == {i \in links : Targets(i) # {}}
<1>1. FindNotLinkBlock(o, d) =
        IF blocks = {} THEN Nothing
        ELSE graph.order[Min(Targets(IF d > 0 THEN Min(blocks) ELSE Max(blocks)))]
  BY Zenon DEF FindNotLinkBlock
<1>2. /\ links \subseteq 1..Length /\ Length \in Nat
      /\ \A i \in links : /\ d * (i - Index(graph, o)) > 0
                          /\ InDocument(graph, graph.order[i], DocumentRoot(graph, o))
  BY PlacesInAre, PlacesAre
<1>3. \A i \in links : \A k \in Targets(i) : \E j \in links : k \in i + 1..j - 1
  <2>1. \A i \in links : \A k \in Targets(i) : \E j \in Ends(i) : k \in Text(i, j)
    OBVIOUS
  <2>2. \A i, j, k : k \in Text(i, j) => k \in i + 1..j - 1
    OBVIOUS
  <2>3. \A i, j : j \in Ends(i) => j \in links
    OBVIOUS
  <2> HIDE DEF Targets, Ends, Text, links
  <2> QED BY <2>1, <2>2, <2>3
<1>4. blocks # {} /\ blocks \subseteq links /\ \A i \in blocks : Targets(i) # {}
  BY <1>1
<1> HIDE DEF links, Targets, blocks
<1> PICK i : i = IF d > 0 THEN Min(blocks) ELSE Max(blocks)
  OBVIOUS
<1>5. i \in blocks
  <2>1. blocks \subseteq Nat /\ \A b \in blocks : b <= Length
    BY <1>2, <1>4
  <2> QED BY <1>2, <1>4, <2>1, MinOfSome, MaxOfSome
<1>6. i \in links /\ i \in 1..Length
  BY <1>2, <1>4, <1>5
<1> PICK k : k = Min(Targets(i))
  OBVIOUS
<1>7. k \in Targets(i)
  <2>1. Targets(i) \subseteq Nat /\ Targets(i) # {}
    BY <1>2, <1>3, <1>4, <1>5, <1>6
  <2> QED BY <2>1, MinOfSome
<1>8. PICK j \in links : k \in i + 1..j - 1
  BY <1>3, <1>6, <1>7
<1>9. j \in 1..Length /\ d * (j - Index(graph, o)) > 0 /\ d * (i - Index(graph, o)) > 0
      /\ Index(graph, o) \in Nat
  BY <1>2, <1>6, <1>8, IndexIs
<1>10. k \in 1..Length /\ d * (k - Index(graph, o)) > 0
  <2>1. CASE d = 1
    BY <1>2, <1>6, <1>8, <1>9, <2>1
  <2>2. CASE d = -1
    BY <1>2, <1>6, <1>8, <1>9, <2>2
  <2> QED BY <2>1, <2>2
<1>11. FindNotLinkBlock(o, d) = graph.order[k]
  BY <1>1, <1>4
<1>12. Index(graph, graph.order[k]) = k
  BY <1>10, IndexIs
<1>13. Between(DocumentRoot(graph, o), graph.order[k])
  <2>1. i < k /\ k < j
    BY <1>6, <1>8, <1>9
  <2>2. /\ InDocument(graph, graph.order[i], DocumentRoot(graph, o))
        /\ InDocument(graph, graph.order[j], DocumentRoot(graph, o))
    BY <1>2, <1>6, <1>8
  <2> QED BY <1>6, <1>9, <1>10, <2>1, <2>2 DEF Between
<1> QED BY <1>2, <1>10, <1>11, <1>12, <1>13 DEF Place

-----------------------------------------------------------------------------
(* Tables *)

\* The lines and the tables of a graph are those of its nodes in its order.
LEMMA GraphHas ==
  ASSUME Types
  PROVE  \E g : /\ g.order = graph.order /\ g.nodes = graph.nodes
                /\ \A o \in DOMAIN graph.nodes \cup {Nothing} : graph.tables[o] = Grid(g, o)
                /\ \A o \in DOMAIN graph.nodes : graph.lines[o] = DocumentLineGroups(g, o)
<1> DEFINE nodes == NodesOf(version)
           root == Trees[version].root
           walked == Walk(root, nodes)[Cardinality(DOMAIN nodes)]
           up == PathsUp(nodes)[depthLimit]
           read == [o \in DOMAIN nodes |-> IF o \in walked.redacted THEN RedactedContentCopy(nodes[o])
                                                                    ELSE nodes[o]]
           g == [root |-> root, order |-> walked.order,
                 nodes |-> [o \in DOMAIN nodes |-> Described(read, walked.order, up[o], o)]]
<1>1. graph = NewGraph(root, nodes)
  BY DEF Types, Graphs, NodesOf
<1>2. graph = [root |-> root, order |-> g.order, nodes |-> g.nodes,
               lines |-> [o \in DOMAIN nodes |-> DocumentLineGroups(g, o)],
               tables |-> [o \in DOMAIN nodes \cup {Nothing} |-> Grid(g, o)]]
  BY <1>1, Zenon DEF NewGraph
<1>3. DOMAIN graph.nodes = DOMAIN nodes
  BY PlacesAre
<1> PICK h : h = g
  OBVIOUS
<1> HIDE DEF g, nodes
<1>4. /\ graph.order = h.order /\ graph.nodes = h.nodes
      /\ graph.lines = [o \in DOMAIN nodes |-> DocumentLineGroups(h, o)]
      /\ graph.tables = [o \in DOMAIN nodes \cup {Nothing} |-> Grid(h, o)]
  BY <1>2
<1>5. /\ \A o \in DOMAIN nodes \cup {Nothing} : graph.tables[o] = Grid(h, o)
      /\ \A o \in DOMAIN nodes : graph.lines[o] = DocumentLineGroups(h, o)
  BY <1>4
<1> QED BY <1>3, <1>4, <1>5

\* The path of an object in the graph is the one in its tree.
LEMMA UpIs ==
  ASSUME Types, NEW o \in DOMAIN graph.nodes
  PROVE  /\ Up(graph, o) = Path(NodesOf(version), o) /\ ToSet(Up(graph, o)) = Over(NodesOf(version), o)
         /\ Up(graph, o) \in Seq(DOMAIN graph.nodes)
         /\ Len(Up(graph, o)) >= 1 /\ Up(graph, o)[1] = o
<1> PICK nodes : nodes = NodesOf(version)
  OBVIOUS
<1>1. Tells(version, o, NodeOf(o)) /\ o \in DOMAIN nodes /\ NotTooDeep(nodes) /\ DOMAIN graph.nodes = DOMAIN nodes
  BY GraphTells, PlacesAre, TreesNotTooDeep
<1>2. Up(graph, o) = Path(nodes, o)
  BY <1>1 DEF Up, Has, Tells, Above, Path, NodeOf
<1>3. o \in Spots(nodes) /\ nodes[o].parent \in Spots(nodes) /\ Path(nodes, o) = <<o>> \o Path(nodes, nodes[o].parent)
  BY <1>1, PathGoesOn DEF Spots
<1>4. Path(nodes, o) \in Seq(DOMAIN nodes) /\ Path(nodes, nodes[o].parent) \in Seq(DOMAIN nodes)
  BY <1>1, <1>3, PathIs
<1>5. Len(Path(nodes, o)) = Len(Path(nodes, nodes[o].parent)) + 1 /\ Path(nodes, o)[1] = o
  BY <1>1, <1>3, <1>4, Prepended
<1>6. Len(Path(nodes, nodes[o].parent)) \in Nat
  BY <1>4
<1>7. Len(Path(nodes, o)) >= 1
  BY <1>5, <1>6
<1> QED BY <1>1, <1>2, <1>4, <1>5, <1>7 DEF Over

\* What contains an object is above it, and has the role.
LEMMA ContainingIs ==
  ASSUME Types, NEW o \in DOMAIN graph.nodes, NEW roles, NEW g, g.nodes = graph.nodes
  PROVE  /\ Containing(g, o, roles) # Nothing =>
              /\ Containing(g, o, roles) \in DOMAIN graph.nodes
              /\ Below(Containing(g, o, roles), o)
              /\ NodeOf(Containing(g, o, roles)).role \in roles
         /\ NodeOf(o).role \in roles => Containing(g, o, roles) = o
<1> PICK s : s = Up(graph, o)
  OBVIOUS
<1>1. Up(g, o) = s
  BY DEF Up, Has
<1>2. s \in Seq(DOMAIN graph.nodes) /\ s[1] = o /\ Len(s) >= 1 /\ ToSet(s) = Over(NodesOf(version), o)
  BY UpIs
<1>3. DOMAIN s = 1..Len(s) /\ Len(s) \in Nat
  BY <1>2
<1> DEFINE found == {i \in DOMAIN s : graph.nodes[s[i]].role \in roles}
<1>4. Containing(g, o, roles) = IF found = {} THEN Nothing ELSE s[Min(found)]
  BY <1>1 DEF Containing
<1>5. found # {} => Min(found) \in found /\ \A i \in found : Min(found) <= i
  <2> SUFFICES ASSUME found # {} PROVE Min(found) \in found /\ \A i \in found : Min(found) <= i
    OBVIOUS
  <2>1. found \subseteq Nat
    BY <1>3
  <2> HIDE DEF found
  <2> QED BY <2>1, MinOfSome
<1>6. ASSUME Containing(g, o, roles) # Nothing
      PROVE  /\ Containing(g, o, roles) \in DOMAIN graph.nodes
             /\ Below(Containing(g, o, roles), o)
             /\ NodeOf(Containing(g, o, roles)).role \in roles
  <2> PICK m : m = Min(found)
    OBVIOUS
  <2>1. m \in DOMAIN s /\ graph.nodes[s[m]].role \in roles /\ Containing(g, o, roles) = s[m]
    BY <1>4, <1>5, <1>6
  <2>2. s[m] \in DOMAIN graph.nodes
    BY <1>2, <2>1, Items
  <2>3. s[m] \in ToSet(s)
    BY <2>1, Zenon DEF ToSet
  <2> QED BY <1>2, <2>1, <2>2, <2>3 DEF Below, NodeOf
<1>7. ASSUME NodeOf(o).role \in roles PROVE Containing(g, o, roles) = o
  <2>1. 1 \in found
    BY <1>2, <1>3, <1>7 DEF NodeOf
  <2>2. Min(found) = 1
    <3>1. Min(found) \in DOMAIN s /\ Min(found) <= 1
      BY <1>5, <2>1
    <3> QED BY <1>3, <3>1
  <2> QED BY <1>2, <1>4, <2>1, <2>2
<1> QED BY <1>6, <1>7

\* A cell that names its table is below it.
LEMMA TablesAre ==
  ASSUME NEW v \in DOMAIN Trees, NEW o \in DOMAIN NodesOf(v),
         NodesOf(v)[o].role \in TableCells, NodesOf(v)[o].table # Nothing
  PROVE  NodesOf(v)[o].table # o /\ NodesOf(v)[o].table \in Over(NodesOf(v), o)
<1>1. \E n \in {Trees[v].nodes[o]} :
        n.role \in TableCells /\ n.table # Nothing =>
          n.table # o /\ n.table \in ToSet(PathsUp(Trees[v].nodes)[depthLimit][o])
  BY TablesAssumption, Zenon DEF NodesOf
<1> QED BY <1>1, Zenon DEF NodesOf, Over, Path

\* A cell is below its table.
LEMMA CellsAreBelow ==
  ASSUME Types, NEW g, g.nodes = graph.nodes, g.order = graph.order,
         NEW table \in DOMAIN graph.nodes, NEW i \in CellsOf(g, table)
  PROVE  i \in 1..Length /\ graph.order[i] # table /\ Below(table, graph.order[i])
<1> PICK o : o = graph.order[i]
  OBVIOUS
<1>1. i \in 1..Length /\ NodeOf(o).role \in TableCells /\ ContainingTable(g, o) = table
  BY DEF CellsOf, Length, NodeOf
<1>2. o \in DOMAIN graph.nodes /\ Length \in Nat
  BY <1>1, PlacesAre
<1>3. Containing(g, o, TableCells) = o
  BY <1>1, <1>2, ContainingIs
<1>4. table # Nothing /\ o # Nothing
  BY <1>2, PlacesAre
<1>5. table # o /\ Below(table, o)
  <2>1. CASE NodeOf(o).table # Nothing
    <3>1. table = NodeOf(o).table
      BY <1>1, <1>3, <1>4, <2>1 DEF ContainingTable, NodeOf
    <3>2. /\ NodeOf(o).role = NodesOf(version)[o].role /\ NodeOf(o).table = NodesOf(version)[o].table
          /\ o \in DOMAIN NodesOf(version) /\ version \in DOMAIN Trees
      BY <1>2, GraphTells DEF Tells
    <3> QED BY <1>1, <2>1, <3>1, <3>2, TablesAre DEF Below
  <2>2. CASE NodeOf(o).table = Nothing
    <3>1. table = Containing(g, o, {"table"})
      BY <1>1, <1>3, <2>2 DEF ContainingTable, NodeOf
    <3>2. Below(table, o) /\ NodeOf(table).role = "table"
      BY <1>2, <1>4, <3>1, ContainingIs
    <3>3. "table" \notin TableCells
      BY DEF TableCells
    <3> QED BY <1>1, <3>2, <3>3
  <2> QED BY <2>1, <2>2
<1> QED BY <1>1, <1>5

\* Some pair of numbers is the first of any by rows, or the last of a bounded set.
LEMMA EdgePair ==
  ASSUME NEW T, T # {}, \A p \in T : p[1] \in Nat /\ p[2] \in Nat, NEW d \in {-1, 1},
         NEW b \in Nat, d = -1 => \A p \in T : p[1] <= b /\ p[2] <= b
  PROVE  \E p \in T : \A q \in T :
           d * (q[1] - p[1]) > 0 \/ (q[1] = p[1] /\ d * (q[2] - p[2]) >= 0)
<1> DEFINE rows == {p[1] : p \in T}
<1>1. rows \subseteq Nat /\ rows # {} /\ (d = -1 => \A y \in rows : y <= b)
  OBVIOUS
<1>0. \A S : S \subseteq Nat /\ S # {} /\ (d = -1 => \A y \in S : y <= b) =>
        \E r \in S : \A y \in S : d * (y - r) >= 0
  <2> SUFFICES ASSUME NEW S, S \subseteq Nat, S # {}, d = -1 => \A y \in S : y <= b
               PROVE  \E r \in S : \A y \in S : d * (y - r) >= 0
    OBVIOUS
  <2>1. CASE d = 1
    <3>1. PICK r \in S : \A y \in S : r <= y
      BY LeastNat
    <3>2. r \in Nat /\ \A y \in S : y \in Nat
      OBVIOUS
    <3> QED BY <2>1, <3>1, <3>2
  <2>2. CASE d = -1
    <3>1. Max(S) \in S /\ \A y \in S : y <= Max(S)
      BY <2>2, MaxOfSome
    <3> PICK m : m = Max(S)
      OBVIOUS
    <3>2. m \in S /\ \A y \in S : y <= m /\ y \in Nat
      BY <3>1
    <3>3. \A y \in S : d * (y - m) >= 0
      BY <2>2, <3>2
    <3> QED BY <3>2, <3>3
  <2> QED BY <2>1, <2>2
<1>2. PICK r \in rows : \A y \in rows : d * (y - r) >= 0
  <2> HIDE DEF rows
  <2> QED BY <1>0, <1>1
<1> DEFINE columns == {p[2] : p \in {x \in T : x[1] = r}}
<1>3. columns \subseteq Nat /\ columns # {} /\ (d = -1 => \A y \in columns : y <= b)
  OBVIOUS
<1>4. PICK c \in columns : \A y \in columns : d * (y - c) >= 0
  <2> HIDE DEF columns
  <2> QED BY <1>0, <1>3
<1>5. PICK p \in T : p[1] = r /\ p[2] = c
  BY <1>4
<1>6. ASSUME NEW q \in T PROVE d * (q[1] - p[1]) > 0 \/ (q[1] = p[1] /\ d * (q[2] - p[2]) >= 0)
  <2>1. q[1] \in Nat /\ q[2] \in Nat /\ p[1] \in Nat /\ p[2] \in Nat /\ d * (q[1] - p[1]) >= 0
    BY <1>2, <1>5
  <2>2. q[1] = p[1] => d * (q[2] - p[2]) >= 0
    BY <1>4, <1>5
  <2> QED BY <2>1, <2>2
<1> QED BY <1>6

\* The grid of a table has cells of the table.
LEMMA GridIs ==
  ASSUME Types, NEW table \in DOMAIN graph.nodes
  PROVE  \E g : /\ g.order = graph.order /\ g.nodes = graph.nodes
                /\ DOMAIN graph.tables[table].at =
                     (1..graph.tables[table].rows) \X (1..graph.tables[table].columns)
                /\ \A p \in DOMAIN graph.tables[table].at : graph.tables[table].at[p] # Nothing =>
                     \E i \in CellsOf(g, table) : /\ graph.tables[table].at[p] = graph.order[i]
                                                  /\ Covers(NodeOf(graph.order[i]), p[1], p[2])
<1>1. PICK g : /\ g.order = graph.order /\ g.nodes = graph.nodes
               /\ \A o \in DOMAIN graph.nodes : graph.tables[o] = Grid(g, o)
  BY GraphHas
<1> PICK t : t = Grid(g, table)
  OBVIOUS
<1>2. graph.tables[table] = t
  BY <1>1
<1> DEFINE here(row, column) ==
             {i \in CellsOf(g, table) : Covers(g.nodes[g.order[i]], row, column)}
           Cell(row, column) ==
             IF here(row, column) = {} THEN Nothing ELSE g.order[Min(here(row, column))]
<1>3. /\ DOMAIN t.at = (1..t.rows) \X (1..t.columns)
      /\ \A p \in DOMAIN t.at : t.at[p] = Cell(p[1], p[2])
  <2>1. \E rows, columns : t = [rows |-> rows, columns |-> columns,
          at |-> [position \in (1..rows) \X (1..columns) |-> Cell(position[1], position[2])]]
    BY Zenon DEF Grid
  <2>2. PICK rows, columns : t = [rows |-> rows, columns |-> columns,
          at |-> [position \in (1..rows) \X (1..columns) |-> Cell(position[1], position[2])]]
    BY <2>1
  <2> HIDE DEF Cell
  <2> PICK f : f = [position \in (1..rows) \X (1..columns) |-> Cell(position[1], position[2])]
    OBVIOUS
  <2>3. t = [rows |-> rows, columns |-> columns, at |-> f]
    BY <2>2
  <2>4. t.at = f /\ t.rows = rows /\ t.columns = columns
    BY <2>3
  <2> QED BY <2>4
<1>4. ASSUME NEW row, NEW column, Cell(row, column) # Nothing
      PROVE  \E i \in CellsOf(g, table) : /\ Cell(row, column) = graph.order[i]
                                          /\ Covers(NodeOf(graph.order[i]), row, column)
  <2> PICK H : H = here(row, column)
    OBVIOUS
  <2>1. H # {} /\ Cell(row, column) = graph.order[Min(H)]
    BY <1>1, <1>4
  <2>2. H \subseteq Nat
    <3>1. CellsOf(g, table) \subseteq 1..Length /\ Length \in Nat
      BY <1>1, CellsAreBelow, PlacesAre
    <3> QED BY <3>1
  <2>3. Min(H) \in H
    BY <2>1, <2>2, MinOfSome
  <2>4. \A i \in H : i \in CellsOf(g, table) /\ Covers(NodeOf(graph.order[i]), row, column)
    BY <1>1 DEF NodeOf
  <2> QED BY <2>1, <2>3, <2>4
<1> HIDE DEF Cell
<1>5. \A p \in DOMAIN t.at : t.at[p] # Nothing =>
        \E i \in CellsOf(g, table) : /\ t.at[p] = graph.order[i]
                                     /\ Covers(NodeOf(graph.order[i]), p[1], p[2])
  BY <1>3, <1>4
<1> QED BY <1>1, <1>2, <1>3, <1>5

\* The members of a finite sequence of integers have a bound.
LEMMA Bounded ==
  ASSUME NEW n \in Nat, NEW f, \A i \in 1..n : f[i] \in Int
  PROVE  \E b \in Nat : \A i \in 1..n : f[i] <= b
<1> DEFINE P == {m \in Nat : m <= n => \E b \in Nat : \A i \in 1..m : f[i] <= b}
<1>1. 0 \in P
  <2>1. \A i \in 1..0 : f[i] <= 0
    OBVIOUS
  <2> QED BY <2>1
<1>2. ASSUME NEW m \in Nat, m \in P PROVE m + 1 \in P
  <2> SUFFICES ASSUME m + 1 <= n PROVE \E b \in Nat : \A i \in 1..m + 1 : f[i] <= b
    OBVIOUS
  <2>1. PICK b \in Nat : \A i \in 1..m : f[i] <= b
    BY <1>2
  <2>2. PICK x \in Int : x = f[m + 1]
    OBVIOUS
  <2>3. PICK c \in Nat : b <= c /\ x <= c
    <3>1. CASE x <= b
      BY <3>1
    <3>2. CASE ~(x <= b)
      <4>1. x \in Nat /\ b <= x
        BY <3>2
      <4> QED BY <4>1
    <3> QED BY <3>1, <3>2
  <2>4. ASSUME NEW i \in 1..m + 1 PROVE f[i] <= c
    <3>1. CASE i = m + 1
      BY <2>2, <2>3, <3>1
    <3>2. CASE i # m + 1
      <4>1. i \in 1..m /\ f[i] \in Int
        BY <3>2
      <4> QED BY <2>1, <2>3, <4>1
    <3> QED BY <3>1, <3>2
  <2> QED BY <2>4
<1>3. n \in P
  <2> HIDE DEF P
  <2> QED BY <1>1, <1>2, InductionOver
<1>4. n <= n
  OBVIOUS
<1> QED BY <1>3, <1>4

\* The cells of a table lie in finitely many rows and columns.
LEMMA PositionsBounded ==
  ASSUME Types, NEW table \in DOMAIN graph.nodes
  PROVE  \E b \in Nat : \A p \in PositionedCells(graph, table) :
           p[1] \in 1..b /\ p[2] \in 1..b
<1>1. PICK g : /\ g.order = graph.order /\ g.nodes = graph.nodes
               /\ DOMAIN graph.tables[table].at =
                    (1..graph.tables[table].rows) \X (1..graph.tables[table].columns)
               /\ \A p \in DOMAIN graph.tables[table].at : graph.tables[table].at[p] # Nothing =>
                    \E i \in CellsOf(g, table) : /\ graph.tables[table].at[p] = graph.order[i]
                                                 /\ Covers(NodeOf(graph.order[i]), p[1], p[2])
  BY GridIs
<1> DEFINE n(i) == NodeOf(graph.order[i])
           bottom == [i \in 1..Length |-> n(i).row + n(i).rowSpan - 1]
           right == [i \in 1..Length |-> n(i).column + n(i).columnSpan - 1]
<1>2. \A i \in 1..Length : /\ n(i).row \in Int /\ n(i).rowSpan \in Int
                           /\ n(i).column \in Int /\ n(i).columnSpan \in Int
  <2> SUFFICES ASSUME NEW i \in 1..Length
               PROVE  /\ n(i).row \in Int /\ n(i).rowSpan \in Int
                      /\ n(i).column \in Int /\ n(i).columnSpan \in Int
    OBVIOUS
  <2> PICK o : o = graph.order[i]
    OBVIOUS
  <2>1. o \in DOMAIN graph.nodes
    BY PlacesAre
  <2>2. SameCell(NodeOf(o), NodesOf(version)[o]) /\ o \in DOMAIN NodesOf(version) /\ version \in DOMAIN Trees
    BY <2>1, GraphTells DEF Tells
  <2>3. NodesOf(version)[o] \in Node(DOMAIN NodesOf(version))
    BY <2>2, TreesAre
  <2> PICK m, objects : m = NodesOf(version)[o] /\ m \in Node(objects)
    BY <2>3
  <2>4. m.row \in Int /\ m.rowSpan \in Int /\ m.column \in Int /\ m.columnSpan \in Int
    BY DEF Node
  <2> QED BY <2>2, <2>4 DEF SameCell
<1>3. Length \in Nat
  BY PlacesAre
<1> HIDE DEF n
<1>4. PICK b \in Nat : \A i \in 1..Length : bottom[i] <= b
  <2>1. \A i \in 1..Length : bottom[i] \in Int
    BY <1>2
  <2> HIDE DEF bottom
  <2> QED BY <1>3, <2>1, Bounded
<1>5. PICK c \in Nat : \A i \in 1..Length : right[i] <= c
  <2>1. \A i \in 1..Length : right[i] \in Int
    BY <1>2
  <2> HIDE DEF right
  <2> QED BY <1>3, <2>1, Bounded
<1>6. ASSUME NEW p \in PositionedCells(graph, table) PROVE p[1] \in 1..b + c /\ p[2] \in 1..b + c
  <2>1. p \in DOMAIN graph.tables[table].at /\ graph.tables[table].at[p] # Nothing
    BY DEF PositionedCells
  <2>2. PICK i \in CellsOf(g, table) : Covers(n(i), p[1], p[2])
    BY <1>1, <2>1 DEF n
  <2>3. i \in 1..Length
    BY <1>1, CellsAreBelow
  <2>4. /\ p[1] \in n(i).row..bottom[i] /\ p[2] \in n(i).column..right[i]
    BY <2>2, <2>3 DEF Covers
  <2>5. bottom[i] \in Int /\ right[i] \in Int /\ bottom[i] <= b /\ right[i] <= c
    BY <1>2, <1>4, <1>5, <2>3
  <2>6. n(i).row \in Int /\ n(i).column \in Int
    BY <1>2, <2>3
  <2>7. p \in (1..graph.tables[table].rows) \X (1..graph.tables[table].columns)
    BY <1>1, <2>1
  <2>8. p[1] \in Int /\ p[1] >= 1 /\ p[2] \in Int /\ p[2] >= 1
    BY <2>7
  <2> HIDE DEF bottom, right
  <2> QED BY <2>4, <2>5, <2>6, <2>8
<1>7. b + c \in Nat
  OBVIOUS
<1> QED BY <1>6, <1>7

\* The first and the last cell of a table are cells of the table.
LEMMA EdgeCellIs ==
  ASSUME Types, NEW table \in DOMAIN graph.nodes, NEW d \in {-1, 1}, PositionedCells(graph, table) # {}
  PROVE  \E i \in 1..Length : /\ EdgeCell(graph, table, d) = graph.order[i]
                              /\ graph.order[i] # table /\ Below(table, graph.order[i])
<1>1. PICK g : /\ g.order = graph.order /\ g.nodes = graph.nodes
               /\ DOMAIN graph.tables[table].at =
                    (1..graph.tables[table].rows) \X (1..graph.tables[table].columns)
               /\ \A p \in DOMAIN graph.tables[table].at : graph.tables[table].at[p] # Nothing =>
                    \E i \in CellsOf(g, table) : /\ graph.tables[table].at[p] = graph.order[i]
                                                 /\ Covers(NodeOf(graph.order[i]), p[1], p[2])
  BY GridIs
<1> PICK T : T = PositionedCells(graph, table)
  OBVIOUS
<1>2. PICK b \in Nat : \A p \in T : p[1] \in 1..b /\ p[2] \in 1..b
  BY PositionsBounded
<1> DEFINE IsEdge(p) == \A q \in T :
             d * (q[1] - p[1]) > 0 \/ (q[1] = p[1] /\ d * (q[2] - p[2]) >= 0)
<1>3. \E p \in T : IsEdge(p)
  <2>1. \A p \in T : p[1] \in Nat /\ p[2] \in Nat /\ p[1] <= b /\ p[2] <= b
    BY <1>2
  <2> QED BY <2>1, EdgePair
<1> HIDE DEF IsEdge
<1> PICK p : p = CHOOSE q \in T : IsEdge(q)
  OBVIOUS
<1>4. p \in T
  BY <1>3
<1>5. EdgeCell(graph, table, d) = graph.tables[table].at[p]
  BY DEF EdgeCell, IsEdge
<1>6. PICK i \in CellsOf(g, table) : graph.tables[table].at[p] = graph.order[i]
  <2>1. p \in DOMAIN graph.tables[table].at /\ graph.tables[table].at[p] # Nothing
    BY <1>4 DEF PositionedCells
  <2> QED BY <1>1, <2>1
<1>7. i \in 1..Length /\ graph.order[i] # table /\ Below(table, graph.order[i])
  BY <1>1, CellsAreBelow
<1> QED BY <1>5, <1>6, <1>7

\* The first cell of a table comes after the table.
LEMMA EdgeCellComesAfter ==
  ASSUME Types, NEW table, Index(graph, table) # 0, PositionedCells(graph, table) # {}
  PROVE  Index(graph, EdgeCell(graph, table, 1)) > Index(graph, table)
<1>1. table \in DOMAIN graph.nodes /\ Length \in Nat /\ 1 \in {-1, 1}
  BY IndexIs, PlacesAre
<1>2. PICK i \in 1..Length : /\ EdgeCell(graph, table, 1) = graph.order[i]
                             /\ graph.order[i] # table /\ Below(table, graph.order[i])
  BY <1>1, EdgeCellIs
<1> PICK k : k = Index(graph, table)
  OBVIOUS
<1>3. k \in 1..Length /\ graph.order[k] = table
  BY IndexIs
<1>4. k <= i /\ k # i /\ Index(graph, graph.order[i]) = i
  BY <1>2, <1>3, PlacesAre, IndexIs
<1> QED BY <1>1, <1>2, <1>3, <1>4

-----------------------------------------------------------------------------
(* Navigation *)

\* A move of which nothing is said.
LEMMA WithinIs ==
  ASSUME Types, NEW found, NEW how \in {"within", "around"}, Browse(found, how), found.object # Nothing => found.offset \in Nat
  PROVE  Kept
<1>1. Advances(how, found)
  BY DEF Advances
<1> QED BY <1>1, BrowseIs

\* A move to an object further on.
LEMMA FurtherIs ==
  ASSUME Types, NEW d \in {-1, 1}, NEW o, Browse(Start(o), Direction(d)),
         o # Nothing /\ Place(cursor) # 0 => d * (Index(graph, o) - Place(cursor)) > 0
  PROVE  Kept
<1> PICK to : to = Start(o)
  OBVIOUS
<1>1. to.object = o /\ to.offset = 0
  BY StartIs
<1>2. o # Nothing => (Place(cursor) # 0 => Advances(Direction(d), to))
  BY <1>1, Further
<1>3. to.object # Nothing => to.offset \in Nat /\ (Place(cursor) # 0 => Advances(Direction(d), to))
  BY <1>1, <1>2
<1> QED BY <1>3, DirectionIs, BrowseIs

LEMMA NavigateKept ==
  ASSUME Types, NEW target, NEW d \in Directions, Navigate(target, d)
  PROVE  Kept
<1> DEFINE found == IF target = "notLinkBlock" THEN FindNotLinkBlock(cursor.object, d)
                    ELSE MoveInDocument(graph, cursor.object, d,
                           {x \in DOMAIN graph.nodes : Matches(target, NodeOf(x))})
           Entered(table) == IF PositionedCells(graph, table) = {} THEN table ELSE EdgeCell(graph, table, d)
<1>1. Browse(Start(IF target = "table" /\ found # Nothing THEN Entered(found) ELSE found),
             IF target = "table" /\ d < 0 THEN "within" ELSE Direction(d))
  BY DEF Navigate
<1>2. d \in {-1, 1} /\ Index(graph, cursor.object) \in Nat
  BY DirectionsAre, IndexIs
<1>3. found # Nothing => /\ Index(graph, found) # 0
                         /\ Place(cursor) # 0 => d * (Index(graph, found) - Place(cursor)) > 0
  <2>1. CASE target = "notLinkBlock"
    BY <1>2, <2>1, NotLinkBlockIs
  <2>2. CASE target # "notLinkBlock"
    <3> PICK objects : objects = {x \in DOMAIN graph.nodes : Matches(target, NodeOf(x))}
      OBVIOUS
    <3>1. found = MoveInDocument(graph, cursor.object, d, objects)
      BY <2>2
    <3> QED BY <1>2, <3>1, MoveInDocumentIs DEF Place
  <2> QED BY <2>1, <2>2
<1> PICK o : o = found
  OBVIOUS
<1>4. /\ Browse(Start(IF target = "table" /\ o # Nothing THEN Entered(o) ELSE o),
                IF target = "table" /\ d < 0 THEN "within" ELSE Direction(d))
      /\ o # Nothing => /\ Index(graph, o) # 0
                        /\ Place(cursor) # 0 => d * (Index(graph, o) - Place(cursor)) > 0
  BY <1>1, <1>3
<1> HIDE DEF found
<1>5. CASE target # "table" \/ o = Nothing
  <2>1. CASE target = "table" /\ d < 0
    <3>1. Browse(Start(o), "within")
      BY <1>4, <1>5, <2>1
    <3> QED BY <3>1, StartIs, WithinIs
  <2>2. CASE ~(target = "table" /\ d < 0)
    <3>1. Browse(Start(o), Direction(d))
      BY <1>4, <1>5, <2>2
    <3> QED BY <1>2, <1>4, <3>1, FurtherIs
  <2> QED BY <2>1, <2>2
<1>6. CASE target = "table" /\ o # Nothing
  <2> PICK x : x = Entered(o)
    OBVIOUS
  <2>1. CASE d < 0
    <3>1. Browse(Start(x), "within")
      BY <1>4, <1>6, <2>1
    <3> QED BY <3>1, StartIs, WithinIs
  <2>2. CASE ~(d < 0)
    <3>1. Browse(Start(x), Direction(d)) /\ d = 1
      BY <1>2, <1>4, <1>6, <2>2
    <3>2. Index(graph, o) \in Nat /\ Index(graph, x) \in Nat
      BY IndexIs
    <3>3. Index(graph, x) >= Index(graph, o)
      <4>1. CASE PositionedCells(graph, o) = {}
        BY <3>2, <4>1
      <4>2. CASE PositionedCells(graph, o) # {}
        <5>1. x = EdgeCell(graph, o, 1)
          BY <3>1, <4>2
        <5> QED BY <1>4, <1>6, <3>2, <4>2, <5>1, EdgeCellComesAfter
      <4> QED BY <4>1, <4>2
    <3>4. Place(cursor) # 0 => d * (Index(graph, x) - Place(cursor)) > 0
      BY <1>2, <1>4, <1>6, <3>1, <3>2, <3>3 DEF Place
    <3> QED BY <1>2, <3>1, <3>4, FurtherIs
  <2> QED BY <2>1, <2>2
<1> QED BY <1>5, <1>6

-----------------------------------------------------------------------------
(* Text *)

LEMMA MoveParagraphKept ==
  ASSUME Types, NEW d \in {-1, 1}, MoveParagraph(d)
  PROVE  Kept
<1> PICK blocks : blocks = {x \in DOMAIN graph.nodes : DocumentBlockNode(graph, NodeOf(x))}
  OBVIOUS
<1> PICK o : o = MoveInDocument(graph, cursor.object, d, blocks)
  OBVIOUS
<1>1. Browse(Start(o), Direction(d))
  BY DEF MoveParagraph
<1>2. o # Nothing /\ Place(cursor) # 0 => d * (Index(graph, o) - Place(cursor)) > 0
  BY MoveInDocumentIs DEF Place
<1> QED BY <1>1, <1>2, FurtherIs

\* The ranges of an object's own text.
LEMMA OwnUnits ==
  ASSUME Types, NEW o \in DOMAIN graph.nodes, NEW unit \in TextUnits
  PROVE  \E n \in Nat : Within(NodeOf(o).units[unit], n)
<1>1. IsText(NodeOf(o).navigable) /\ NodeOf(o).units = UnitsOf(NodeOf(o).navigable)
  BY GraphTells DEF Tells
<1> QED BY <1>1, UnitsAre, TextIs

LEMMA AdjacentTextUnitIs ==
  ASSUME Types, NEW d \in {-1, 1}, NEW unit \in TextUnits, AdjacentTextUnit(d, unit).object # Nothing
  PROVE  /\ AdjacentTextUnit(d, unit).offset \in Nat
         /\ Place(cursor) # 0 => Advances(Direction(d), AdjacentTextUnit(d, unit))
<1> PICK objects : objects = {x \in DOMAIN graph.nodes :
                                NodeOf(x).navigable # <<>> /\ NodeOf(x).units[unit] # {}}
  OBVIOUS
<1> PICK o : o = IF Index(graph, cursor.object) = 0 THEN Nothing
                 ELSE MoveInDocument(graph, cursor.object, d, objects)
  OBVIOUS
<1> DEFINE ranges == NodeOf(o).units[unit]
<1> PICK to : to = AdjacentTextUnit(d, unit)
  OBVIOUS
<1>1. to = IF o = Nothing THEN Start(Nothing) ELSE At(o, Foremost(ranges, d).start)
  BY DEF AdjacentTextUnit
<1>2. o # Nothing
  BY <1>1, StartIs
<1>3. /\ o \in objects /\ o \in DOMAIN graph.nodes
      /\ Index(graph, cursor.object) # 0 =>
           d * (Index(graph, o) - Index(graph, cursor.object)) > 0
  BY <1>2, MoveInDocumentIs
<1>4. PICK n \in Nat : Within(ranges, n)
  BY <1>3, OwnUnits
<1>5. ranges # {}
  BY <1>3
<1> HIDE DEF ranges
<1>6. Foremost(ranges, d) \in ranges
  BY <1>4, <1>5, ForemostIs
<1>7. Foremost(ranges, d).start \in Nat
  BY <1>4, <1>6 DEF Within
<1>8. to.object = o /\ to.offset = Foremost(ranges, d).start
  BY <1>1, <1>2, AtIs
<1>9. Place(cursor) # 0 => Advances(Direction(d), to)
  BY <1>3, <1>8, Further DEF Place
<1> QED BY <1>7, <1>8, <1>9

LEMMA MoveUnitKept ==
  ASSUME Types, NEW d \in {-1, 1}, NEW unit \in TextUnits, InGraph(cursor.object), MoveUnit(d, unit)
  PROVE  Kept
<1> PICK range : range = MoveTextUnit(NodeOf(cursor.object).units[unit], cursor.offset, d)
  OBVIOUS
<1>1. Browse(IF range # NoRange THEN At(cursor.object, range.start) ELSE AdjacentTextUnit(d, unit),
             Direction(d))
  BY DEF MoveUnit
<1>2. CASE range # NoRange
  <2> PICK to : to = At(cursor.object, range.start)
    OBVIOUS
  <2>1. to.object = cursor.object /\ to.offset = range.start
    BY AtIs
  <2>2. PICK n \in Nat : Within(NodeOf(cursor.object).units[unit], n)
    BY OwnUnits DEF InGraph, Has
  <2>3. range \in NodeOf(cursor.object).units[unit] /\ d * (range.start - cursor.offset) > 0
    BY <1>2, <2>2, MoveTextUnitIs
  <2>4. range.start \in Nat
    BY <2>2, <2>3 DEF Within
  <2>5. Advances(Direction(d), to)
    <3>1. CASE d = 1
      BY <2>1, <2>3, <3>1 DEF Advances, Direction, Beyond
    <3>2. CASE d = -1
      BY <2>1, <2>3, <3>2 DEF Advances, Direction, Beyond
    <3> QED BY <3>1, <3>2
  <2>6. Browse(to, Direction(d))
    BY <1>1, <1>2
  <2> QED BY <2>1, <2>4, <2>5, <2>6, DirectionIs, BrowseIs
<1>3. CASE range = NoRange
  <2> PICK to : to = AdjacentTextUnit(d, unit)
    OBVIOUS
  <2>1. Browse(to, Direction(d))
    BY <1>1, <1>3
  <2>2. to.object # Nothing => to.offset \in Nat /\ (Place(cursor) # 0 => Advances(Direction(d), to))
    BY AdjacentTextUnitIs
  <2> QED BY <2>1, <2>2, DirectionIs, BrowseIs
<1> QED BY <1>2, <1>3

LEMMA DocumentStartKept ==
  ASSUME Types, DocumentStart
  PROVE  Kept
<1>1. PICK o : Browse(Start(o), "within")
  <2>1. PICK document, first :
          Browse(IF document = Nothing \/ first # Nothing THEN Start(first) ELSE Start(document), "within")
    BY Zenon DEF DocumentStart
  <2>2. CASE document = Nothing \/ first # Nothing
    BY <2>1, <2>2
  <2>3. CASE ~(document = Nothing \/ first # Nothing)
    BY <2>1, <2>3
  <2> QED BY <2>2, <2>3
<1> QED BY <1>1, StartIs, WithinIs

LEMMA DocumentEndKept ==
  ASSUME Types, DocumentEnd
  PROVE  Kept
<1> PICK document, places, end :
      /\ document = DocumentRoot(graph, cursor.object)
      /\ places = PlacesIn(graph, document, DOMAIN graph.nodes) /\ end = graph.order[Max(places)]
  OBVIOUS
<1>1. /\ InGraph(cursor.object)
      /\ Browse(IF document = Nothing THEN Start(Nothing)
                ELSE IF places = {} THEN At(cursor.object, Len(NodeOf(cursor.object).navigable))
                ELSE At(end, Len(NodeOf(end).navigable)), "within")
  BY DEF DocumentEnd
<1>2. \A o \in DOMAIN graph.nodes : Len(NodeOf(o).navigable) \in Nat
  BY GraphTells, TextIs DEF Tells
<1>3. CASE document = Nothing
  BY <1>1, <1>3, StartIs, WithinIs
<1>4. CASE document # Nothing /\ places = {}
  <2> PICK to : to = At(cursor.object, Len(NodeOf(cursor.object).navigable))
    OBVIOUS
  <2>1. to.offset \in Nat
    BY <1>1, <1>2, AtIs DEF InGraph, Has
  <2>2. Browse(to, "within")
    BY <1>1, <1>4
  <2> QED BY <2>1, <2>2, WithinIs
<1>5. CASE document # Nothing /\ places # {}
  <2> PICK to : to = At(end, Len(NodeOf(end).navigable))
    OBVIOUS
  <2>1. places \subseteq 1..Length /\ Length \in Nat
    BY PlacesInAre, PlacesAre
  <2>2. places \subseteq Nat /\ \A i \in places : i <= Length
    BY <2>1
  <2>3. Max(places) \in places
    BY <1>5, <2>1, <2>2, MaxOfSome
  <2>4. end \in DOMAIN graph.nodes
    BY <2>1, <2>3, PlacesAre
  <2>5. to.offset \in Nat
    BY <1>2, <2>4, AtIs
  <2>6. Browse(to, "within")
    BY <1>1, <1>5
  <2> QED BY <2>5, <2>6, WithinIs
<1> QED BY <1>3, <1>4, <1>5

-----------------------------------------------------------------------------
(* Containers and tables *)

LEMMA ContainerStartKept ==
  ASSUME Types, MoveToContainerStart
  PROVE  Kept
<1>1. PICK o : Browse(Start(o), "around")
  BY DEF MoveToContainerStart
<1> QED BY <1>1, StartIs, WithinIs

\* What comes after a container is beyond all that is in it, which is together.
LEMMA PastContainerEndKept ==
  ASSUME Types, MovePastContainerEnd
  PROVE  Kept
<1> DEFINE document == DocumentRoot(graph, cursor.object)
           Outside(container) ==
             {i \in Index(graph, container) + 1..Len(graph.order) :
                /\ ~IsDescendantOf(graph, graph.order[i], container)
                /\ document # Nothing => InDocument(graph, graph.order[i], document)}
           After(container) == IF container = Nothing \/ Outside(container) = {} THEN Nothing
                               ELSE graph.order[Min(Outside(container))]
<1> PICK c : c = Containing(graph, cursor.object, Containers)
  OBVIOUS
<1>1. Browse(Start(After(c)), "past")
  BY DEF MovePastContainerEnd
<1> PICK x, outside : x = After(c) /\ outside = Outside(c)
  OBVIOUS
<1>2. /\ Length \in Nat /\ Index(graph, c) \in Nat /\ Index(graph, cursor.object) \in Nat
      /\ c # Nothing => c \in DOMAIN graph.nodes /\ Below(c, cursor.object)
  <2>1. cursor.object \in DOMAIN graph.nodes \/ c = Nothing
    <3> SUFFICES ASSUME cursor.object \notin DOMAIN graph.nodes PROVE c = Nothing
      OBVIOUS
    <3>1. Up(graph, cursor.object) = <<>>
      BY DEF Up, Has
    <3> QED BY <3>1 DEF Containing
  <2> QED BY <2>1, PlacesAre, IndexIs, ContainingIs
<1>3. outside \subseteq Index(graph, c) + 1..Length
  BY DEF Length
<1>4. \A i \in outside : ~IsDescendantOf(graph, graph.order[i], c)
  OBVIOUS
<1>5. x # Nothing => c # Nothing /\ outside # {} /\ x = graph.order[Min(outside)]
  OBVIOUS
<1> HIDE DEF After
<1> PICK to : to = Start(x)
  OBVIOUS
<1>6. to.object = x /\ to.offset = 0
  BY StartIs
<1>7. ASSUME x # Nothing, Place(cursor) # 0, Index(graph, c) # 0 PROVE Beyond(1, cursor, to)
  <2> PICK m, p, k : m = Min(outside) /\ p = Place(cursor) /\ k = Index(graph, c)
    OBVIOUS
  <2>1. m \in outside
    <3>1. outside \subseteq Nat
      BY <1>2, <1>3
    <3> QED BY <1>5, <1>7, <3>1, MinOfSome
  <2>2. m \in 1..Length /\ k < m /\ ~IsDescendantOf(graph, graph.order[m], c) /\ x = graph.order[m]
    <3>1. m \in k + 1..Length /\ k \in Nat /\ Length \in Nat
      BY <1>2, <1>3, <2>1
    <3>2. ~IsDescendantOf(graph, graph.order[m], c)
      BY <1>4, <2>1
    <3>3. x = graph.order[m]
      BY <1>5, <1>7
    <3> QED BY <3>1, <3>2, <3>3
  <2>3. /\ p \in 1..Length /\ graph.order[p] = cursor.object
        /\ k \in 1..Length /\ graph.order[k] = c
    BY <1>7, IndexIs DEF Place
  <2>4. graph.order[m] \in DOMAIN graph.nodes
    BY <2>2, PlacesAre
  <2>5. ~Below(c, graph.order[m])
    BY <2>2, <2>4, UpIs DEF IsDescendantOf, Below
  <2>6. Below(c, graph.order[p])
    BY <1>2, <1>5, <1>7, <2>3
  <2>7. Below(c, graph.order[k])
    <3> PICK s : s = Up(graph, c)
      OBVIOUS
    <3>1. s \in Seq(DOMAIN graph.nodes) /\ Len(s) >= 1 /\ s[1] = c /\ ToSet(s) = Over(NodesOf(version), c)
      BY <1>2, <1>5, <1>7, UpIs
    <3>2. 1 \in DOMAIN s
      BY <3>1
    <3>3. c \in ToSet(s)
      BY <3>1, <3>2, Zenon DEF ToSet
    <3> QED BY <2>3, <3>1, <3>3 DEF Below
  <2>8. p < m
    <3> SUFFICES ASSUME ~(p < m) PROVE FALSE
      OBVIOUS
    <3>1. k < m /\ m < p
      <4>1. m # p
        BY <2>5, <2>6
      <4> QED BY <2>2, <2>3, <4>1
    <3>2. \A a, b, e \in 1..Length : a < b /\ b < e =>
            \A o : Below(o, graph.order[a]) /\ Below(o, graph.order[e]) => Below(o, graph.order[b])
      BY PlacesAre
    <3>3. k \in 1..Length /\ m \in 1..Length /\ p \in 1..Length
      BY <2>2, <2>3
    <3>4. \A o : Below(o, graph.order[k]) /\ Below(o, graph.order[p]) => Below(o, graph.order[m])
      BY <3>1, <3>2, <3>3
    <3>5. Below(c, graph.order[m])
      BY <2>6, <2>7, <3>4
    <3> QED BY <2>5, <3>5
  <2>9. Place(to) = m
    BY <1>6, <2>2, IndexIs DEF Place
  <2> QED BY <2>2, <2>3, <2>8, <2>9, SMTT(40) DEF Beyond
<1>8. to.object # Nothing => to.offset \in Nat /\ (Place(cursor) # 0 => Advances("past", to))
  BY <1>6, <1>7 DEF Advances
<1> QED BY <1>1, <1>8, BrowseIs

LEMMA NavigateTableKept ==
  ASSUME Types, NEW axis, NEW d, NEW toEdge, NavigateTable(axis, d, toEdge)
  PROVE  Kept
<1>1. PICK to, x : Browse(Start(IF to = x THEN Nothing ELSE to), "around")
  <2> DEFINE around == Containing(graph, cursor.object, TableCells)
             Current(table) == IF around # Nothing THEN around ELSE EdgeCell(graph, table, 1)
  <2>1. \E table, to : Browse(Start(IF to = Current(table) THEN Nothing ELSE to), "around")
    BY ZenonT(60) DEF NavigateTable
  <2> HIDE DEF Current
  <2> QED BY <2>1
<1>2. PICK o : o = IF to = x THEN Nothing ELSE to
  OBVIOUS
<1>3. Browse(Start(o), "around")
  BY <1>1, <1>2
<1> QED BY <1>3, StartIs, WithinIs

LEMMA SayAllTableKept ==
  ASSUME Types, NEW axis, SayAllTable(axis)
  PROVE  Kept
<1>1. PICK o : Browse(Start(o), "around")
  BY Zenon DEF SayAllTable
<1> QED BY <1>1, StartIs, WithinIs

-----------------------------------------------------------------------------
(* Find *)

\* An occurrence is at an offset of the text it is found in.
LEMMA FindNodeOffsetsIs ==
  ASSUME NEW n, IsText(n.readable), NEW query, Len(query) \in Nat, NEW offset \in Int, NEW d \in {-1, 1},
         NEW include \in BOOLEAN
  PROVE  /\ FindNodeOffsets(n, query, offset, d, include) \subseteq Nat
         /\ \A k \in FindNodeOffsets(n, query, offset, d, include) :
              k <= Len(n.readable) /\ (~include => d * (k - offset) > 0)
<1> PICK occurrences : occurrences = Occurrences(n.readable, query)
  OBVIOUS
<1>1. Len(n.readable) \in Nat
  BY TextIs
<1>2. occurrences \subseteq 0..Len(n.readable) - Len(query)
  BY DEF Occurrences
<1>3. occurrences \subseteq 0..Len(n.readable)
  BY <1>1, <1>2
<1>4. \A k \in FindNodeOffsets(n, query, offset, d, include) :
        \/ k \in occurrences /\ (d * (k - offset) > 0 \/ (include /\ k = offset))
        \/ k = 0 /\ (d * offset < 0 \/ (include /\ offset = 0))
  BY Zenon DEF FindNodeOffsets
<1>5. ASSUME NEW k \in FindNodeOffsets(n, query, offset, d, include)
      PROVE  k \in Nat /\ k <= Len(n.readable) /\ (~include => d * (k - offset) > 0)
  <2>1. CASE k \in occurrences /\ (d * (k - offset) > 0 \/ (include /\ k = offset))
    BY <1>1, <1>3, <2>1
  <2>2. CASE k = 0 /\ (d * offset < 0 \/ (include /\ offset = 0))
    <3>1. d = 1 \/ d = -1
      OBVIOUS
    <3> QED BY <1>1, <2>2, <3>1
  <2> QED BY <1>4, <1>5, <2>1, <2>2
<1> QED BY <1>5

LEMMA FindFromIs ==
  ASSUME Types, NEW query, Len(query) \in Nat, NEW d \in {-1, 1}, NEW include \in BOOLEAN, NEW how,
         FindFrom(query, d, include, how)
  PROVE  /\ cursor'.offset \in Nat
         /\ \/ last' = "boundary" /\ cursor' = cursor
            \/ /\ last' = how
               /\ DocumentRoot(graph, cursor.object) # Nothing =>
                    InDocument(graph, cursor'.object, DocumentRoot(graph, cursor.object))
               /\ ~include /\ Place(cursor) # 0 => Beyond(d, cursor, cursor')
<1> DEFINE document == DocumentRoot(graph, cursor.object)
           Offsets(o) ==
             IF o = cursor.object THEN FindNodeOffsets(NodeOf(o), query, cursor.offset, d, include)
             ELSE IF SameFindOccurrence(cursor.object, o, query) THEN {}
             ELSE FindNodeOffsets(NodeOf(o), query,
                                  IF d > 0 THEN -1 ELSE Len(NodeOf(o).readable) + 1, d, FALSE)
           Found == {i \in 1..Len(graph.order) :
                       /\ Index(graph, cursor.object) # 0 => d * (i - Index(graph, cursor.object)) >= 0
                       /\ document # Nothing => InDocument(graph, graph.order[i], document)
                       /\ Offsets(graph.order[i]) # {}}
           First(places) == IF d > 0 THEN Min(places) ELSE Max(places)
<1> PICK found : found = Found
  OBVIOUS
<1>1. IF found = {} THEN cursor' = cursor /\ last' = "boundary"
      ELSE cursor' = At(graph.order[First(found)], First(Offsets(graph.order[First(found)]))) /\ last' = how
  BY Zenon DEF FindFrom
<1>2. cursor.offset \in Nat
  BY DEF Types
<1>3. found \subseteq 1..Length /\ Length \in Nat
  BY PlacesAre DEF Length
<1>4. \A i \in found : /\ Index(graph, cursor.object) # 0 => d * (i - Index(graph, cursor.object)) >= 0
                       /\ document # Nothing => InDocument(graph, graph.order[i], document)
                       /\ Offsets(graph.order[i]) # {}
  OBVIOUS
<1>5. \A T \in SUBSET Nat : \A b \in Nat : T # {} /\ (\A y \in T : y <= b) => First(T) \in T
  BY MinOfSome, MaxOfSome
<1>6. ASSUME NEW o \in DOMAIN graph.nodes
      PROVE  /\ Offsets(o) \subseteq Nat /\ \E b \in Nat : \A k \in Offsets(o) : k <= b
             /\ o = cursor.object /\ ~include => \A k \in Offsets(o) : d * (k - cursor.offset) > 0
  <2> PICK n : n = NodeOf(o)
    OBVIOUS
  <2>1. IsText(n.readable) /\ Len(n.readable) \in Nat
    BY GraphTells, TextIs DEF Tells
  <2>2. CASE o = cursor.object
    <3>1. Offsets(o) = FindNodeOffsets(n, query, cursor.offset, d, include)
      BY <2>2
    <3> HIDE DEF Offsets
    <3> QED BY <1>2, <2>1, <3>1, FindNodeOffsetsIs
  <2>3. CASE o # cursor.object
    <3> PICK from : from = IF d > 0 THEN -1 ELSE Len(n.readable) + 1
      OBVIOUS
    <3>1. Offsets(o) = {} \/ Offsets(o) = FindNodeOffsets(n, query, from, d, FALSE)
      BY <2>3
    <3>2. from \in Int /\ FALSE \in BOOLEAN
      BY <2>1
    <3> HIDE DEF Offsets
    <3> PICK F : F = FindNodeOffsets(n, query, from, d, FALSE)
      OBVIOUS
    <3>3. F \subseteq Nat /\ \A k \in F : k <= Len(n.readable)
      BY <2>1, <3>2, FindNodeOffsetsIs
    <3>4. Offsets(o) \subseteq Nat /\ \A k \in Offsets(o) : k <= Len(n.readable)
      BY <3>1, <3>3
    <3> QED BY <2>1, <2>3, <3>4
  <2> QED BY <2>2, <2>3
<1> HIDE DEF Offsets, First, Found
<1>7. CASE found = {}
  BY <1>1, <1>2, <1>7
<1>8. CASE found # {}
  <2> PICK i : i = First(found)
    OBVIOUS
  <2>1. i \in found
    <3>1. found \in SUBSET Nat /\ \A y \in found : y <= Length
      BY <1>3
    <3> QED BY <1>3, <1>5, <1>8, <3>1
  <2> PICK o : o = graph.order[i]
    OBVIOUS
  <2>2. o \in DOMAIN graph.nodes /\ Index(graph, o) = i /\ i \in 1..Length
    BY <1>3, <2>1, PlacesAre, IndexIs
  <2> PICK k : k = First(Offsets(o))
    OBVIOUS
  <2>3. k \in Offsets(o)
    <3>1. Offsets(o) # {}
      BY <1>4, <2>1
    <3>2. PICK b \in Nat : \A y \in Offsets(o) : y <= b
      BY <1>6, <2>2
    <3>3. Offsets(o) \in SUBSET Nat
      BY <1>6, <2>2
    <3> QED BY <1>5, <3>1, <3>2, <3>3
  <2>4. cursor' = At(o, k) /\ last' = how
    BY <1>1, <1>8
  <2>5. cursor'.object = o /\ cursor'.offset = k
    BY <2>4, AtIs
  <2>6. k \in Nat
    BY <1>6, <2>2, <2>3
  <2>8. document # Nothing => InDocument(graph, cursor'.object, document)
    BY <1>4, <2>1, <2>5
  <2>7. ASSUME ~include, Place(cursor) # 0 PROVE Beyond(d, cursor, cursor')
    <3>1. CASE o = cursor.object
      <4>1. d * (k - cursor.offset) > 0
        BY <1>6, <2>2, <2>3, <2>7, <3>1
      <4> QED BY <2>5, <3>1, <4>1 DEF Beyond
    <3>2. CASE o # cursor.object
      <4> PICK p : p = Place(cursor)
        OBVIOUS
      <4>1. p \in 1..Length /\ graph.order[p] = cursor.object /\ d * (i - p) >= 0
        BY <1>4, <2>1, <2>7, IndexIs DEF Place
      <4>2. i # p
        BY <3>2, <4>1
      <4>3. d * (i - p) > 0
        BY <2>2, <4>1, <4>2
      <4>4. Place(cursor') = i
        BY <2>2, <2>5 DEF Place
      <4> QED BY <4>3, <4>4 DEF Beyond
    <3> QED BY <3>1, <3>2
  <2> QED BY <2>4, <2>5, <2>6, <2>7, <2>8
<1> QED BY <1>7, <1>8

LEMMA FindKept ==
  ASSUME Types, NEW query \in Seq(STRING), Find(query)
  PROVE  Kept
<1>1. /\ FindFrom(query, 1, TRUE, "within")
      /\ UNCHANGED <<graph, version, workload, review, copyStart, brailleOffset>>
  BY DEF Find, graphVars, reviewVars
<1>2. 1 \in {-1, 1} /\ TRUE \in BOOLEAN /\ Len(query) \in Nat
  OBVIOUS
<1>3. cursor'.offset \in Nat /\ last' \in {"boundary", "within"}
  BY <1>1, <1>2, FindFromIs
<1>4. Types'
  BY <1>1, <1>3 DEF Types
<1>5. StaysInText /\ ReviewAdvances
  BY <1>3, OtherSteps
<1>6. BrowseAdvances
  BY <1>3 DEF BrowseAdvances, Advances
<1> QED BY <1>4, <1>5, <1>6 DEF Kept

LEMMA FindAgainKept ==
  ASSUME Types, findQuery \in Seq(STRING), NEW d \in {-1, 1}, FindAgain(d)
  PROVE  Kept
<1>1. /\ FindFrom(findQuery, d, FALSE, Direction(d))
      /\ UNCHANGED <<graph, version, workload, review, copyStart, brailleOffset>>
  BY DEF FindAgain, graphVars, reviewVars
<1>2. FALSE \in BOOLEAN /\ Len(findQuery) \in Nat
  OBVIOUS
<1>3. /\ cursor'.offset \in Nat
      /\ \/ last' = "boundary"
         \/ last' = Direction(d) /\ (Place(cursor) # 0 => Beyond(d, cursor, cursor'))
  BY <1>1, <1>2, FindFromIs
<1>4. Types'
  BY <1>1, <1>3 DEF Types
<1>5. StaysInText /\ ReviewAdvances
  <2>1. last' \notin {"review", "reviewNext", "reviewPrevious"}
    BY <1>3, DirectionIs
  <2> QED BY <2>1, OtherSteps
<1>6. BrowseAdvances
  <2>1. CASE d = 1
    BY <1>3, <2>1 DEF BrowseAdvances, Advances, Direction
  <2>2. CASE d = -1
    BY <1>3, <2>2 DEF BrowseAdvances, Advances, Direction
  <2> QED BY <2>1, <2>2
<1> QED BY <1>4, <1>5, <1>6 DEF Kept

-----------------------------------------------------------------------------
(* Steps that are no moves of the browse cursor in a direction *)

BrowseSteps == {"next", "previous", "past", "nextLine", "previousLine"}

\* Which steps are no moves in a direction.
LEMMA NotBrowsing ==
  ASSUME last' \notin BrowseSteps
  PROVE  BrowseAdvances
BY DEF BrowseAdvances, Advances, BrowseSteps

LEMMA ReviewCommandNames ==
  ASSUME ReviewCommand \/ CopyCommand \/ ReviewModeCommand
  PROVE  last' \notin BrowseSteps \cup {"refresh"} /\ findQuery' = findQuery /\ cursor' = cursor
<1>1. ASSUME NEW place, NEW range, NEW how, Review(place, range, how),
             how \in {"boundary", "review", "reviewNext", "reviewPrevious"}
      PROVE  last' \notin BrowseSteps \cup {"refresh"} /\ findQuery' = findQuery /\ cursor' = cursor
  BY <1>1 DEF Review, BrowseSteps, browseVars
<1>2. \A d : AheadOrBack(d) \in {"boundary", "review", "reviewNext", "reviewPrevious"}
  BY DEF AheadOrBack
<1>3. CASE ReviewCommand
  <2>1. \E place, range : \E how \in {"boundary", "review", "reviewNext", "reviewPrevious"} :
          Review(place, range, how)
    <3>1. CASE ReviewEmpty
      BY <3>1, Zenon DEF ReviewEmpty
    <3>2. ASSUME NEW d, ReviewEdge(d) PROVE \E place, range : Review(place, range, "review")
      BY <3>2, Zenon DEF ReviewEdge
    <3>3. ASSUME NEW d, ReviewLineEdge(d) PROVE \E place, range : Review(place, range, "review")
      BY <3>3, Zenon DEF ReviewLineEdge
    <3>4. ASSUME NEW d, ReviewSelectionEdge(d) PROVE \E place, range : Review(place, range, "review")
      BY <3>4, Zenon DEF ReviewSelectionEdge
    <3>5. ASSUME NEW unit, ReviewCurrent(unit) PROVE \E place, range : Review(place, range, "review")
      BY <3>5, Zenon DEF ReviewCurrent
    <3>6. ASSUME NEW d, ReviewCharacter(d)
          PROVE  \E place, range : \E how \in {"review", AheadOrBack(d)} : Review(place, range, how)
      BY <3>6, Zenon DEF ReviewCharacter
    <3>7. ASSUME NEW d, NEW unit, ReviewMove(unit, d)
          PROVE  \E place, range : \E how \in {"review", AheadOrBack(d)} : Review(place, range, how)
      BY <3>7, Zenon DEF ReviewMove
    <3> QED BY <1>2, <1>3, <3>1, <3>2, <3>3, <3>4, <3>5, <3>6, <3>7 DEF ReviewCommand
  <2> QED BY <1>1, <2>1
<1>4. CASE CopyCommand
  <2>1. CASE SetReviewCopyStart
    BY <2>1 DEF SetReviewCopyStart, BrowseSteps, browseVars
  <2>2. CASE MoveToReviewCopyStart
    <3>1. \E place, range : Review(place, range, "review")
      BY <2>2, Zenon DEF MoveToReviewCopyStart
    <3> QED BY <1>1, <3>1
  <2>3. CASE CopyToReviewPosition
    BY <2>3 DEF CopyToReviewPosition, BrowseSteps, browseVars
  <2> QED BY <1>4, <2>1, <2>2, <2>3 DEF CopyCommand
<1>5. CASE ReviewModeCommand
  BY <1>5 DEF ReviewModeCommand, SwitchReviewMode, BrowseSteps, browseVars
<1> QED BY <1>3, <1>4, <1>5

LEMMA OtherCommandNames ==
  ASSUME ModeCommands \/ ObjectCommands \/ MouseCommand \/ BrailleCommand
  PROVE  last' \notin BrowseSteps \cup BrowseMoves \cup {"refresh"} /\ findQuery' = findQuery
<1>1. CASE ModeCommands
  <2>1. \E set, letter : ModeCommand(set, letter)
    BY <1>1 DEF ModeCommands, Escape, ToggleFocusMode, ToggleSingleLetterNavigation
  <2> QED BY <2>1 DEF ModeCommand, BrowseSteps, BrowseMoves
<1>2. CASE ObjectCommands
  <2>1. \E to, d : ObjectCommand(to, d)
    BY <1>2 DEF ObjectCommands
  <2> QED BY <2>1 DEF ObjectCommand, BrowseSteps, BrowseMoves, browseVars
<1>3. CASE MouseCommand
  <2>1. \E point, to, locked : Mouse(point, to, locked)
    BY <1>3 DEF MouseCommand, MoveMouseToNavigatorObject, MoveNavigatorToMouseObject, MouseClick, MouseLock
  <2> QED BY <2>1 DEF Mouse, BrowseSteps, BrowseMoves, browseVars
<1>4. CASE BrailleCommand
  <2>1. ASSUME NEW at, NEW pan, NEW browses, NEW how \in {"review", "other"}, Braille(at, pan, browses, how)
        PROVE  last' \notin BrowseSteps \cup BrowseMoves \cup {"refresh"} /\ findQuery' = findQuery
    BY <2>1 DEF Braille, BrowseSteps, BrowseMoves
  <2>2. ASSUME NEW d, BraillePan(d) \/ BrailleMoveLine(d)
        PROVE  \E at, pan, browses : \E how \in {"review", "other"} : Braille(at, pan, browses, how)
    <3>1. CASE BraillePan(d)
      BY <3>1, Zenon DEF BraillePan
    <3>2. CASE BrailleMoveLine(d)
      BY <3>2, Zenon DEF BrailleMoveLine
    <3> QED BY <2>2, <3>1, <3>2
  <2>3. ASSUME NEW cell, BrailleRoute(cell)
        PROVE  \E at, pan, browses : \E how \in {"review", "other"} : Braille(at, pan, browses, how)
    BY <2>3, Zenon DEF BrailleRoute
  <2>4. CASE BrailleToggleTether
    BY <2>4 DEF BrailleToggleTether, BrowseSteps, BrowseMoves, browseVars
  <2> QED BY <1>4, <2>1, <2>2, <2>3, <2>4 DEF BrailleCommand
<1> QED BY <1>1, <1>2, <1>3, <1>4

LEMMA ExitEmbeddedObjectKept ==
  ASSUME Types, ExitEmbeddedObject
  PROVE  Kept /\ findQuery' = findQuery
<1>1. last' = "other" /\ Types' /\ findQuery' = findQuery
  BY DEF ExitEmbeddedObject, Types, graphVars, reviewVars
<1> QED BY <1>1, OtherSteps, NotBrowsing DEF Kept, BrowseSteps

LEMMA LeaveEmbeddedObjectKept ==
  ASSUME Types, LeaveEmbeddedObject
  PROVE  Kept /\ findQuery' = findQuery
<1>1. /\ last' = "leave" /\ cursor' \in {Start(leaving), cursor} /\ findQuery' = findQuery
      /\ UNCHANGED <<graph, version, workload, review, copyStart, brailleOffset>>
  BY DEF LeaveEmbeddedObject, graphVars, reviewVars
<1>2. cursor'.offset \in Nat
  BY <1>1, StartIs DEF Types
<1>3. Types'
  BY <1>1, <1>2 DEF Types
<1> QED BY <1>1, <1>3, OtherSteps, NotBrowsing DEF Kept, BrowseSteps

-----------------------------------------------------------------------------
(* The refresh and the focus *)

LEMMA WorkloadIs ==
  ASSUME Types
  PROVE  workload.trees \subseteq DOMAIN Trees /\ workload.queries \subseteq Seq(STRING)
BY WorkloadAssumption DEF Types

\* A refresh leaves cursors at natural offsets.
LEMMA RefreshedIs ==
  ASSUME Types, NEW new
  PROVE  Refreshed(new).cursor.offset \in Nat /\ Refreshed(new).review.offset \in Nat
<1> DEFINE Carried(o) == IF Has(new, o) THEN o ELSE RemapCursor(graph, new, o)
<1>1. PICK c, r : /\ c = (IF Has(new, cursor.object) THEN cursor ELSE Start(Carried(cursor.object)))
                  /\ r = (IF Has(new, navigator) /\ Has(new, review.object) THEN review
                          ELSE ReviewStart(Carried(navigator)))
  OBVIOUS
<1>2. Refreshed(new).cursor = c /\ Refreshed(new).review = r
  BY <1>1 DEF Refreshed
<1>3. c.offset \in Nat
  <2>1. \E o : c = cursor \/ c = Start(o)
    BY <1>1
  <2> QED BY <2>1, StartIs DEF Types
<1>4. r.offset \in Nat
  <2> HIDE DEF Carried
  <2>1. PICK o : r = review \/ r = ReviewStart(o)
    BY <1>1
  <2>2. ReviewStart(o).offset = 0
    BY DEF ReviewStart
  <2> QED BY <2>1, <2>2 DEF Types
<1> QED BY <1>2, <1>3, <1>4

LEMMA RefreshKept ==
  ASSUME Types, NEW v \in workload.trees, Refresh(v)
  PROVE  Kept /\ findQuery' = findQuery
<1>1. /\ version' = v /\ graph' = Graphs[v] /\ last' = "refresh"
      /\ UNCHANGED <<findQuery, workload, copyStart, brailleOffset>>
  BY DEF Refresh
<1>2. cursor' = Refreshed(graph').cursor /\ review' = Refreshed(graph').review
  BY DEF Refresh
<1>3. cursor'.offset \in Nat /\ review'.offset \in Nat
  BY <1>2, RefreshedIs
<1>4. v \in DOMAIN Trees
  BY WorkloadIs
<1>5. Types'
  BY <1>1, <1>3, <1>4 DEF Types
<1> QED BY <1>1, <1>5, OtherSteps, NotBrowsing DEF Kept, BrowseSteps

\* The caret of a focused object, in its text.
LEMMA CaretIs ==
  ASSUME NEW caret \in Int, NEW n \in Nat
  PROVE  Max({0, Min({caret, n - 1})}) \in Nat
<1> PICK a, b \in Int : a = caret /\ b = n - 1
  OBVIOUS
<1> PICK m : m = Min({a, b})
  OBVIOUS
<1>1. m \in Int
  BY LeastOfTwo
<1> PICK z \in Int : z = 0
  OBVIOUS
<1>2. Max({z, m}) \in {z, m} /\ z <= Max({z, m})
  BY <1>1, GreatestOfTwo
<1> QED BY <1>1, <1>2

LEMMA HandleFocusKept ==
  ASSUME Types, NEW o, NEW v \in workload.trees, NEW w \in workload.trees, HandleFocus(o, v, w)
  PROVE  Kept /\ findQuery' = findQuery
<1> DEFINE Read == IF w # version /\ Has(Trees[w], o) THEN Trees[w].nodes[o] ELSE Trees[v].nodes[o]
           Text(g, n) == NavigableText(IF Has(g, o) /\ "redacted" \in g.nodes[o].marks
                                         THEN RedactedContentCopy(n) ELSE n)
<1>1. /\ version' = w /\ graph' = IF w = version THEN graph ELSE Graphs[w]
      /\ last' = "focus" /\ brailleOffset' = 0 /\ UNCHANGED <<findQuery, workload>>
      /\ Has(Trees[v], o)
  BY DEF HandleFocus
<1>2. copyStart' = Start(Nothing) \/ copyStart' = copyStart
  BY DEF HandleFocus
<1>3. cursor' = Start(o) \/ cursor' = cursor \/ cursor' = Refreshed(graph').cursor
  BY SMTT(40) DEF HandleFocus
<1>4. review' = [object |-> o, offset |-> Max({0, Min({Read.caret, Len(Text(graph', Read)) - 1})}),
                 mode |-> "object"]
  BY ZenonT(40) DEF HandleFocus
<1>5. v \in DOMAIN Trees /\ w \in DOMAIN Trees
  BY WorkloadIs
<1>6. \E objects : Read \in Node(objects)
  <2>1. o \in DOMAIN NodesOf(v) /\ (Has(Trees[w], o) => o \in DOMAIN NodesOf(w))
    BY <1>1 DEF Has, NodesOf
  <2>2. NodesOf(v)[o] \in Node(DOMAIN NodesOf(v))
    BY <1>5, <2>1, TreesAre
  <2>3. Has(Trees[w], o) => NodesOf(w)[o] \in Node(DOMAIN NodesOf(w))
    BY <1>5, <2>1, TreesAre
  <2>4. Read = NodesOf(v)[o] \/ (Has(Trees[w], o) /\ Read = NodesOf(w)[o])
    BY DEF NodesOf
  <2> HIDE DEF Read
  <2> QED BY <2>2, <2>3, <2>4
<1> HIDE DEF Read
<1> PICK n, objects : n = Read /\ n \in Node(objects)
  BY <1>6
<1>7. Len(Text(graph', n)) \in Nat
  <2>1. \E m : Copies(m, n) /\ Text(graph', n) = NavigableText(m)
    <3>1. Copies(n, n) /\ Copies(RedactedContentCopy(n), n)
      BY NodeIsCopy, RedactedIsCopy
    <3> QED BY <3>1
  <2> HIDE DEF Text
  <2> QED BY <2>1, NodeTexts, TextIs DEF Copies
<1>8. n.caret \in Int
  BY DEF Node
<1> HIDE DEF Text
<1> PICK caret \in Int, length \in Nat : caret = n.caret /\ length = Len(Text(graph', n))
  BY <1>7, <1>8
<1>9. review'.offset \in Nat
  <2> PICK offset : offset = Max({0, Min({caret, length - 1})})
    OBVIOUS
  <2>1. offset \in Nat
    BY CaretIs
  <2>2. review' = [object |-> o, offset |-> offset, mode |-> "object"]
    BY <1>4
  <2> QED BY <2>1, <2>2
<1>10. cursor'.offset \in Nat
  BY <1>3, StartIs, RefreshedIs DEF Types
<1>11. copyStart'.offset \in Nat
  BY <1>2, StartIs DEF Types
<1>12. graph' = Graphs[w]
  BY <1>1 DEF Types
<1>13. Types'
  BY <1>1, <1>5, <1>9, <1>10, <1>11, <1>12 DEF Types
<1> QED BY <1>1, <1>13, OtherSteps, NotBrowsing DEF Kept, BrowseSteps

LEMMA HandleDocumentKept ==
  ASSUME Types, NEW o, HandleDocument(o)
  PROVE  Kept /\ findQuery' = findQuery
<1>1. last' = "focus" /\ Types' /\ findQuery' = findQuery
  BY DEF HandleDocument, Types, graphVars, browseVars, reviewVars
<1> QED BY <1>1, OtherSteps, NotBrowsing DEF Kept, BrowseSteps

-----------------------------------------------------------------------------
(* The lines of a document *)

\* How an object may be added to some groups: not at all, on a line of its own, or to the last.
Adds(document, groups, o, new) ==
  \/ new = groups
  \/ /\ InDocument(graph, o, document) /\ LineNode(graph, NodeOf(o))
     /\ new = Append(groups, <<o>>)
  \/ /\ InDocument(graph, o, document) /\ LineNode(graph, NodeOf(o)) /\ groups # <<>>
     /\ new = Append(Front(groups), Append(Last(groups), o))

\* The last member of a sequence replaced.
EndsIn(S, s, e, t) ==
  /\ t \in Seq(S) /\ DOMAIN t = DOMAIN s /\ t[Len(s)] = e
  /\ \A a \in DOMAIN s : a # Len(s) => a < Len(s) /\ t[a] = s[a]

LEMMA LastReplaced ==
  \A S, s, e : s \in Seq(S) /\ s # <<>> /\ e \in S => EndsIn(S, s, e, Append(Front(s), e))
<1> SUFFICES ASSUME NEW S, NEW s \in Seq(S), s # <<>>, NEW e \in S
             PROVE  EndsIn(S, s, e, Append(Front(s), e))
  OBVIOUS
<1>1. Len(s) \in Nat /\ Len(s) >= 1 /\ DOMAIN s = 1..Len(s)
  OBVIOUS
<1>2. Front(s) = SubSeq(s, 1, Len(s) - 1)
  BY DEF Front
<1> PICK f : f = Front(s)
  OBVIOUS
<1>3. f \in Seq(S) /\ Len(f) = Len(s) - 1 /\ \A a \in 1..Len(s) - 1 : f[a] = s[a]
  BY <1>1, <1>2
<1> PICK k \in Nat : k = Len(f)
  BY <1>3
<1> PICK t : t = Append(f, e)
  OBVIOUS
<1>4. k + 1 = Len(s) /\ 1..Len(s) - 1 = 1..k
  BY <1>1, <1>3
<1>8. t \in Seq(S) /\ DOMAIN t = 1..k + 1 /\ t[k + 1] = e /\ \A a \in 1..k : t[a] = f[a]
  BY <1>3
<1>5. t \in Seq(S) /\ DOMAIN t = DOMAIN s /\ t[Len(s)] = e /\ \A a \in 1..Len(s) - 1 : t[a] = s[a]
  BY <1>1, <1>3, <1>4, <1>8
<1>6. \A a \in DOMAIN s : a # Len(s) => a < Len(s) /\ a \in 1..Len(s) - 1
  BY <1>1
<1> QED BY <1>5, <1>6 DEF EndsIn

\* A line node of one graph is one of any with the same nodes.
LEMMA LineNodeIs ==
  ASSUME NEW g, g.nodes = graph.nodes, NEW n
  PROVE  LineNode(g, n) = LineNode(graph, n)
BY DEF LineNode, RedundantTextLeaf, Has

\* The groups are made by adding the objects of the order one by one.
LEMMA GroupsAre ==
  ASSUME Types, NEW g, g.order = graph.order, g.nodes = graph.nodes, NEW document
  PROVE  \E lines : /\ lines[0] = <<>> /\ DocumentLineGroups(g, document) = lines[Length]
                    /\ \A i \in Nat : Adds(document, lines[i], graph.order[i + 1], lines[i + 1])
<1> DEFINE Size(group) == MapThenSumSet(LAMBDA i : Len(g.nodes[group[i]].said) + 1, DOMAIN group) - 1
           Joins_(groups, o) ==
             /\ groups # <<>>
             /\ ~DocumentBlockNode(g, g.nodes[Head(Last(groups))]) /\ ~DocumentBlockNode(g, g.nodes[o])
             /\ Size(Append(Last(groups), o)) <= virtualLineWidth
           Add(groups, o) ==
             IF ~InDocument(g, o, document) \/ ~LineNode(g, g.nodes[o]) THEN groups
             ELSE IF Joins_(groups, o) THEN Append(Front(groups), Append(Last(groups), o))
             ELSE Append(groups, <<o>>)
           E(h, i) == IF i = 0 THEN <<>> ELSE Add(h[i - 1], g.order[i])
           Defines(h) == h = [i \in Nat |-> E(h, i)]
           U == {g.order[i] : i \in Nat}
           S == Seq(Seq(U))
<1>1. DocumentLineGroups(g, document) = (CHOOSE h : Defines(h))[Len(g.order)]
  BY DEF DocumentLineGroups
<1>2. ASSUME NEW groups, NEW o
      PROVE  \/ Add(groups, o) = groups
             \/ /\ InDocument(g, o, document) /\ LineNode(g, g.nodes[o])
                /\ Add(groups, o) = Append(groups, <<o>>)
             \/ /\ InDocument(g, o, document) /\ LineNode(g, g.nodes[o]) /\ groups # <<>>
                /\ Add(groups, o) = Append(Front(groups), Append(Last(groups), o))
  BY Zenon
<1> HIDE DEF Add
<1>3. ASSUME NEW groups, NEW o PROVE Adds(document, groups, o, Add(groups, o))
  <2>1. LineNode(g, g.nodes[o]) = LineNode(graph, NodeOf(o))
    BY LineNodeIs DEF NodeOf
  <2>2. InDocument(g, o, document) = InDocument(graph, o, document)
    BY DEF InDocument, DocumentRoot, Has
  <2> QED BY <1>2, <2>1, <2>2, Zenon DEF Adds
<1>4. ASSUME NEW groups \in S, NEW o \in U PROVE Add(groups, o) \in S
  <2>1. CASE Add(groups, o) = groups
    BY <2>1
  <2>2. CASE Add(groups, o) = Append(groups, <<o>>)
    <3>1. <<o>> \in Seq(U)
      BY Single
    <3> HIDE DEF U
    <3> QED BY <2>2, <3>1
  <2>3. CASE groups # <<>> /\ Add(groups, o) = Append(Front(groups), Append(Last(groups), o))
    <3> PICK V : V = Seq(U)
      OBVIOUS
    <3>1. groups \in Seq(V)
      OBVIOUS
    <3> HIDE DEF U
    <3>2. o \in U
      OBVIOUS
    <3>3. groups[Len(groups)] \in V /\ Last(groups) = groups[Len(groups)]
      BY <2>3, <3>1 DEF Last
    <3>4. Append(Last(groups), o) \in V
      BY <3>2, <3>3
    <3>5. Append(Front(groups), Append(Last(groups), o)) \in Seq(V)
      BY <2>3, <3>1, <3>4, LastReplaced DEF EndsIn
    <3> QED BY <2>3, <3>5
  <2> QED BY <1>2, <2>1, <2>2, <2>3
<1> HIDE DEF S
<1>5. PICK D : D = [i \in Nat |-> [groups \in S |-> Add(groups, g.order[i])]]
  OBVIOUS
<1>6. D \in [Nat -> [S -> S]]
  <2>1. \A i \in Nat : [groups \in S |-> Add(groups, g.order[i])] \in [S -> S]
    BY <1>4
  <2> QED BY <1>5, <2>1
<1>7. PICK c : c = <<>>
  OBVIOUS
<1>8. c \in S
  BY <1>7 DEF S
<1>9. PICK f \in [Nat -> S] : f[0] = c /\ \A n \in Nat : f[n + 1] = D[n + 1][f[n]]
  <2>1. \E f : Counts(f, S, c, D)
    BY <1>6, <1>8, CountedIteration
  <2> QED BY <2>1 DEF Counts
<1>10. \A n \in Nat : f[n + 1] = Add(f[n], g.order[n + 1])
  <2> SUFFICES ASSUME NEW n \in Nat PROVE f[n + 1] = Add(f[n], g.order[n + 1])
    OBVIOUS
  <2>1. n + 1 \in Nat /\ f[n] \in S
    BY <1>9
  <2>2. D[n + 1] = [groups \in S |-> Add(groups, g.order[n + 1])]
    BY <1>5, <2>1
  <2> QED BY <1>9, <2>1, <2>2
<1>11. Defines(f)
  <2>1. ASSUME NEW m \in Nat PROVE f[m] = E(f, m)
    <3>1. CASE m = 0
      BY <3>1, <1>7, <1>9
    <3>2. CASE m # 0
      <4>1. m - 1 \in Nat /\ (m - 1) + 1 = m
        BY <3>2
      <4>2. f[m] = Add(f[m - 1], g.order[m])
        BY <4>1, <1>10
      <4> QED BY <3>2, <4>2
    <3> QED BY <3>1, <3>2
  <2>2. f = [m \in Nat |-> f[m]]
    BY <1>9
  <2> HIDE DEF E
  <2> QED BY <2>1, <2>2
<1>12. Defines(CHOOSE h : Defines(h))
  <2> HIDE DEF Defines
  <2> QED BY <1>11
<1>13. PICK lines : lines = CHOOSE h : Defines(h)
  OBVIOUS
<1>14. \A m \in Nat : lines[m] = E(lines, m)
  <2> HIDE DEF E
  <2> QED BY <1>12, <1>13
<1>15. lines[0] = <<>>
  BY <1>14
<1>16. \A m \in Nat : lines[m + 1] = Add(lines[m], g.order[m + 1])
  <2> SUFFICES ASSUME NEW m \in Nat PROVE lines[m + 1] = Add(lines[m], g.order[m + 1])
    OBVIOUS
  <2>1. m + 1 \in Nat /\ m + 1 # 0 /\ (m + 1) - 1 = m
    OBVIOUS
  <2> QED BY <1>14, <2>1
<1> HIDE DEF Defines
<1>17. DocumentLineGroups(g, document) = lines[Length]
  BY <1>1, <1>13 DEF Length
<1> QED BY <1>3, <1>15, <1>16, <1>17

\* Groups of the first objects of the order: each of line nodes, one after another.
Grouped(document, n, groups) ==
  /\ groups \in Seq(Seq(DOMAIN graph.nodes))
  /\ \A a \in DOMAIN groups : /\ groups[a] # <<>>
                              /\ \A x \in ToSet(groups[a]) :
                                   /\ LineNode(graph, NodeOf(x)) /\ Index(graph, x) \in 1..n
                                   /\ InDocument(graph, x, document)
  /\ \A a, b \in DOMAIN groups : a < b =>
       \A x \in ToSet(groups[a]), y \in ToSet(groups[b]) : Index(graph, x) < Index(graph, y)

\* One object more keeps the lines of a document grouped.
LEMMA AddedGrouped ==
  ASSUME Types, NEW n \in Nat, n + 1 <= Length, NEW document, NEW groups, Grouped(document, n, groups), NEW new,
         Adds(document, groups, graph.order[n + 1], new)
  PROVE  Grouped(document, n + 1, new)
<1> PICK o, N, V : o = graph.order[n + 1] /\ N = DOMAIN graph.nodes /\ V = Seq(N)
  OBVIOUS
<1>1. o \in N /\ Index(graph, o) = n + 1
  <2>1. n + 1 \in 1..Length
    BY PlacesAre
  <2> QED BY <2>1, PlacesAre, IndexIs
<1>2. groups \in Seq(V) /\ DOMAIN groups = 1..Len(groups) /\ Len(groups) \in Nat
  BY DEF Grouped
<1>3. \A a \in DOMAIN groups : groups[a] \in V /\ groups[a] # <<>>
  BY <1>2 DEF Grouped
<1>4. \A a \in DOMAIN groups : \A x \in ToSet(groups[a]) :
        LineNode(graph, NodeOf(x)) /\ Index(graph, x) \in 1..n /\ InDocument(graph, x, document)
  BY DEF Grouped
<1>5. \A a, b \in DOMAIN groups : a < b =>
        \A x \in ToSet(groups[a]), y \in ToSet(groups[b]) : Index(graph, x) < Index(graph, y)
  BY DEF Grouped
<1>6. CASE new = groups
  <2>1. \A x : Index(graph, x) \in 1..n => Index(graph, x) \in 1..n + 1
    OBVIOUS
  <2> QED BY <1>4, <1>6, <2>1 DEF Grouped
<1>7. CASE InDocument(graph, o, document) /\ LineNode(graph, NodeOf(o)) /\ new = Append(groups, <<o>>)
  <2> PICK e, l : e = <<o>> /\ l = Len(groups) + 1
    OBVIOUS
  <2>1. e \in V /\ e # <<>> /\ ToSet(e) = {o}
    BY <1>1, Single
  <2>2. new \in Seq(V) /\ DOMAIN new = 1..l /\ new[l] = e /\ \A a \in 1..Len(groups) : new[a] = groups[a]
    BY <1>2, <1>7, <2>1
  <2>3. \A a \in DOMAIN new : \/ a \in DOMAIN groups /\ new[a] = groups[a] /\ a < l
                              \/ a = l /\ new[a] = e
    BY <1>2, <2>2
  <2>4. \A a \in DOMAIN new : new[a] # <<>>
    BY <1>3, <2>1, <2>3
  <2>5. ASSUME NEW a \in DOMAIN new, NEW x \in ToSet(new[a])
        PROVE  LineNode(graph, NodeOf(x)) /\ Index(graph, x) \in 1..n + 1 /\ InDocument(graph, x, document)
    <3>1. CASE a \in DOMAIN groups /\ new[a] = groups[a]
      BY <1>4, <2>5, <3>1
    <3>2. CASE new[a] = e
      BY <1>1, <1>7, <2>1, <2>5, <3>2
    <3> QED BY <2>3, <3>1, <3>2
  <2>6. ASSUME NEW a \in DOMAIN new, NEW b \in DOMAIN new, a < b,
               NEW x \in ToSet(new[a]), NEW y \in ToSet(new[b])
        PROVE  Index(graph, x) < Index(graph, y)
    <3>1. a \in DOMAIN groups /\ new[a] = groups[a]
      BY <1>2, <2>2, <2>3, <2>6
    <3>2. CASE b \in DOMAIN groups /\ new[b] = groups[b]
      BY <1>5, <2>6, <3>1, <3>2
    <3>3. CASE new[b] = e
      <4>1. Index(graph, x) \in 1..n /\ y = o
        BY <1>4, <2>1, <2>6, <3>1, <3>3
      <4> QED BY <1>1, <4>1
    <3> QED BY <2>3, <3>2, <3>3
  <2> QED BY <2>2, <2>4, <2>5, <2>6 DEF Grouped
<1>8. CASE /\ InDocument(graph, o, document) /\ LineNode(graph, NodeOf(o)) /\ groups # <<>>
           /\ new = Append(Front(groups), Append(Last(groups), o))
  <2> PICK e, l : e = Append(Last(groups), o) /\ l = Len(groups)
    OBVIOUS
  <2>1. l \in DOMAIN groups /\ Last(groups) = groups[l] /\ groups[l] \in V
    BY <1>2, <1>3, <1>8 DEF Last
  <2>2. e \in V /\ e # <<>> /\ ToSet(e) = ToSet(groups[l]) \cup {o}
    <3>1. e \in V /\ ToSet(e) = ToSet(groups[l]) \cup {o}
      <4> PICK s : s = groups[l]
        OBVIOUS
      <4>1. s \in Seq(N) /\ e = Append(s, o)
        BY <2>1
      <4>2. Longer(N, s, o, Append(s, o))
        BY <1>1, <4>1, Appended, Zenon
      <4> QED BY <4>1, <4>2 DEF Longer
    <3>2. e # <<>>
      <4>1. o \in ToSet(e)
        BY <3>1
      <4>2. ToSet(<<>>) = {}
        BY DEF ToSet
      <4> QED BY <4>1, <4>2
    <3> QED BY <3>1, <3>2
  <2>3. /\ new \in Seq(V) /\ DOMAIN new = DOMAIN groups /\ new[l] = e
        /\ \A a \in DOMAIN groups : a # l => a < l /\ new[a] = groups[a]
    <3>1. new = Append(Front(groups), e)
      BY <1>8
    <3>2. e \in V /\ groups \in Seq(V) /\ groups # <<>>
      BY <1>2, <1>8, <2>2
    <3>3. EndsIn(V, groups, e, Append(Front(groups), e))
      BY <3>2, LastReplaced
    <3> QED BY <3>1, <3>3 DEF EndsIn
  <2>4. \A a \in DOMAIN new : new[a] # <<>>
    BY <1>3, <2>2, <2>3
  <2>5. ASSUME NEW a \in DOMAIN new, NEW x \in ToSet(new[a])
        PROVE  LineNode(graph, NodeOf(x)) /\ Index(graph, x) \in 1..n + 1 /\ InDocument(graph, x, document)
    <3>1. CASE x \in ToSet(groups[a])
      BY <1>4, <2>3, <2>5, <3>1
    <3>2. CASE x = o
      BY <1>1, <1>8, <3>2
    <3> QED BY <2>2, <2>3, <2>5, <3>1, <3>2
  <2>6. ASSUME NEW a \in DOMAIN new, NEW b \in DOMAIN new, a < b,
               NEW x \in ToSet(new[a]), NEW y \in ToSet(new[b])
        PROVE  Index(graph, x) < Index(graph, y)
    <3>1. a # l
      BY <1>2, <2>1, <2>3, <2>6
    <3>2. x \in ToSet(groups[a]) /\ Index(graph, x) \in 1..n
      BY <1>4, <2>3, <2>6, <3>1
    <3>3. CASE y \in ToSet(groups[b])
      BY <1>5, <2>3, <2>6, <3>2, <3>3
    <3>4. CASE y = o
      BY <1>1, <3>2, <3>4
    <3> QED BY <2>2, <2>3, <2>6, <3>3, <3>4
  <2> QED BY <2>3, <2>4, <2>5, <2>6 DEF Grouped
<1> QED BY <1>6, <1>7, <1>8 DEF Adds

\* The lines of a document, once all of the reading order was added.
LEMMA LinesGrouped ==
  ASSUME Types, NEW o \in DOMAIN graph.nodes
  PROVE  Grouped(o, Length, graph.lines[o])
<1>1. PICK g : g.order = graph.order /\ g.nodes = graph.nodes /\ graph.lines[o] = DocumentLineGroups(g, o)
  BY GraphHas
<1>2. PICK lines : /\ lines[0] = <<>> /\ DocumentLineGroups(g, o) = lines[Length]
                   /\ \A i \in Nat : Adds(o, lines[i], graph.order[i + 1], lines[i + 1])
  BY <1>1, GroupsAre
<1> DEFINE P == {n \in Nat : n <= Length => Grouped(o, n, lines[n])}
<1>3. Length \in Nat
  BY PlacesAre
<1>4. 0 \in P
  <2>1. Grouped(o, 0, <<>>)
    BY DEF Grouped
  <2> QED BY <1>2, <2>1
<1>5. ASSUME NEW n \in Nat, n \in P PROVE n + 1 \in P
  <2> SUFFICES ASSUME n + 1 <= Length PROVE Grouped(o, n + 1, lines[n + 1])
    OBVIOUS
  <2>1. Grouped(o, n, lines[n])
    BY <1>3, <1>5
  <2> QED BY <1>2, <2>1, AddedGrouped
<1>6. Nat \subseteq P
  <2> HIDE DEF P
  <2> QED BY <1>4, <1>5, InductionOver
<1> QED BY <1>1, <1>2, <1>3, <1>6

\* Head of a line.
LEMMA HeadIs ==
  ASSUME NEW S, NEW s \in Seq(S), s # <<>>
  PROVE  Head(s) \in ToSet(s)
<1>1. 1 \in DOMAIN s /\ Head(s) = s[1]
  OBVIOUS
<1> PICK h : h = Head(s)
  OBVIOUS
<1> QED BY <1>1, Zenon DEF ToSet

\* The next line is beyond this one; the previous one is before an object that is not
\* below its own.
LEMMA MoveDocumentLineIs ==
  ASSUME Types, NEW o \in DOMAIN graph.nodes, Index(graph, o) # 0, NEW d \in {-1, 1},
         MoveDocumentLine(graph, o, d) # Nothing, ~InsideLine(o)
  PROVE  d * (Index(graph, MoveDocumentLine(graph, o, d)) - Index(graph, o)) > 0
<1> PICK document : document = DocumentRoot(graph, o)
  OBVIOUS
<1> PICK groups : groups = IF document = Nothing THEN <<>> ELSE graph.lines[document]
  OBVIOUS
<1> DEFINE Around(i) == \E x \in ToSet(groups[i]) : IsDescendantOf(graph, o, x) \/ IsDescendantOf(graph, x, o)
           here == {i \in 1..Len(groups) : Around(i)}
<1>1. MoveDocumentLine(graph, o, d) =
        IF here = {} \/ Min(here) + d \notin 1..Len(groups) THEN Nothing
        ELSE Head(groups[Min(here) + d])
  BY Zenon DEF MoveDocumentLine
<1>2. Length \in Nat /\ Grouped(document, Length, groups)
  <2>1. CASE document = Nothing
    BY <2>1, PlacesAre DEF Grouped
  <2>2. CASE document # Nothing
    <3>1. document = NodeOf(o).document /\ document \in DOMAIN graph.nodes
      BY <2>2, GraphTells, PlacesAre DEF Tells, DocumentRoot, Has, NodeOf
    <3> QED BY <2>2, <3>1, LinesGrouped, PlacesAre
  <2> QED BY <2>1, <2>2
<1> PICK N, V : N = DOMAIN graph.nodes /\ V = Seq(N)
  OBVIOUS
<1>3. /\ groups \in Seq(V) /\ DOMAIN groups = 1..Len(groups) /\ Len(groups) \in Nat
      /\ \A a \in DOMAIN groups : /\ groups[a] \in Seq(N) /\ groups[a] # <<>>
                                  /\ \A x \in ToSet(groups[a]) :
                                       LineNode(graph, NodeOf(x)) /\ Index(graph, x) \in 1..Length
      /\ \A a, b \in DOMAIN groups : a < b =>
           \A x \in ToSet(groups[a]), y \in ToSet(groups[b]) : Index(graph, x) < Index(graph, y)
  BY <1>2 DEF Grouped
<1>4. here # {} /\ here \subseteq Nat
  BY <1>1
<1>5. \A i \in here : i \in DOMAIN groups /\ Around(i)
  BY <1>3
<1>6. \A i \in DOMAIN groups : Around(i) => i \in here
  BY <1>3
<1> PICK h : h = Min(here)
  OBVIOUS
<1>7. h \in here /\ \A i \in here : h <= i
  <2> HIDE DEF here
  <2> QED BY <1>4, MinOfSome
<1> PICK t : t = MoveDocumentLine(graph, o, d)
  OBVIOUS
<1>8. h + d \in DOMAIN groups /\ t = Head(groups[h + d])
  BY <1>1, <1>3
<1>9. h \in DOMAIN groups /\ Around(h)
  BY <1>5, <1>7
<1> HIDE DEF here
<1> PICK b : b = h + d
  OBVIOUS
<1>10. b \in DOMAIN groups /\ t = Head(groups[b])
  BY <1>8
<1>11. t \in ToSet(groups[b])
  <2> PICK s : s = groups[b]
    OBVIOUS
  <2>1. s \in Seq(N) /\ s # <<>>
    BY <1>3, <1>10
  <2> QED BY <1>10, <2>1, HeadIs
<1>12. Index(graph, t) \in 1..Length
  BY <1>3, <1>10, <1>11
<1> PICK x \in ToSet(groups[h]) : IsDescendantOf(graph, o, x) \/ IsDescendantOf(graph, x, o)
  BY <1>9
<1>13. LineNode(graph, NodeOf(x)) /\ Index(graph, x) \in 1..Length
  BY <1>3, <1>9
<1>14. x = o \/ Below(o, x)
  <2>1. CASE IsDescendantOf(graph, o, x)
    <3>1. x = o \/ x \in ToSet(Up(graph, o))
      BY <2>1 DEF IsDescendantOf
    <3> QED BY <1>13, <3>1 DEF InsideLine
  <2>2. CASE IsDescendantOf(graph, x, o)
    <3>1. x \in DOMAIN graph.nodes
      BY <1>13, IndexIs
    <3> QED BY <2>2, <3>1, UpIs DEF IsDescendantOf, Below
  <2> QED BY <2>1, <2>2
<1> PICK p, q, r : p = Index(graph, o) /\ q = Index(graph, x) /\ r = Index(graph, t)
  OBVIOUS
<1>15. /\ p \in 1..Length /\ q \in 1..Length /\ r \in 1..Length
       /\ graph.order[p] = o /\ graph.order[q] = x /\ graph.order[r] = t
  BY <1>12, <1>13, IndexIs
<1>16. p <= q
  BY <1>14, <1>15, PlacesAre
<1>17. CASE d = 1
  <2>1. h < b
    BY <1>3, <1>9, <1>17
  <2>2. q < r
    BY <1>3, <1>9, <1>10, <1>11, <2>1
  <2> QED BY <1>15, <1>16, <1>17, <2>2
<1>18. CASE d = -1
  <2>1. b < h
    BY <1>3, <1>9, <1>18
  <2>2. r < q
    BY <1>3, <1>9, <1>10, <1>11, <2>1
  <2>3. b \notin here
    BY <1>3, <1>7, <1>9, <1>10, <2>1
  <2>4. t # o /\ ~IsDescendantOf(graph, t, o)
    BY <1>6, <1>10, <1>11, <2>3 DEF IsDescendantOf
  <2>5. t \in DOMAIN graph.nodes
    BY <1>15, PlacesAre
  <2>6. ~Below(o, t)
    BY <2>4, <2>5, UpIs DEF IsDescendantOf, Below
  <2>7. r < p
    <3> SUFFICES ASSUME ~(r < p) PROVE FALSE
      OBVIOUS
    <3>1. p < r /\ x # o
      BY <1>15, <2>2, <2>4
    <3>2. Below(o, x) /\ Below(o, o)
      <4> PICK s : s = Up(graph, o)
        OBVIOUS
      <4>1. s \in Seq(DOMAIN graph.nodes) /\ Len(s) >= 1 /\ s[1] = o /\ ToSet(s) = Over(NodesOf(version), o)
        BY UpIs
      <4>2. 1 \in DOMAIN s
        BY <4>1
      <4>3. o \in ToSet(s)
        BY <4>1, <4>2, Zenon DEF ToSet
      <4> QED BY <1>14, <3>1, <4>1, <4>3 DEF Below
    <3>3. \A i, k, j \in 1..Length : i < k /\ k < j =>
            \A y : Below(y, graph.order[i]) /\ Below(y, graph.order[j]) => Below(y, graph.order[k])
      BY PlacesAre
    <3>4. \A y : Below(y, graph.order[p]) /\ Below(y, graph.order[q]) => Below(y, graph.order[r])
      BY <1>15, <2>2, <3>1, <3>3
    <3>5. Below(o, t)
      BY <1>15, <3>2, <3>4
    <3> QED BY <2>6, <3>5
  <2> QED BY <1>15, <1>18, <2>7
<1> QED BY <1>17, <1>18

LEMMA MoveLineKept ==
  ASSUME Types, NEW d \in {-1, 1}, InGraph(cursor.object), MoveLine(d)
  PROVE  Kept
<1> PICK o, how : /\ o = MoveDocumentLine(graph, cursor.object, d)
                  /\ how = IF d > 0 THEN "nextLine" ELSE "previousLine"
  OBVIOUS
<1> PICK to : to = Start(o)
  OBVIOUS
<1>1. Browse(to, how)
  BY DEF MoveLine
<1>2. to.object = o /\ to.offset = 0
  BY StartIs
<1>3. ASSUME o # Nothing, Place(cursor) # 0 PROVE Advances(how, to)
  <2>1. ~InsideLine(cursor.object) => d * (Index(graph, o) - Index(graph, cursor.object)) > 0
    BY <1>3, MoveDocumentLineIs DEF InGraph, Has, Place
  <2>2. CASE d = 1
    BY <1>2, <2>1, <2>2 DEF Advances, Beyond, Place
  <2>3. CASE d = -1
    BY <1>2, <2>1, <2>3 DEF Advances, Beyond, Place
  <2> QED BY <2>2, <2>3
<1>4. how \notin {"review", "reviewNext", "reviewPrevious"}
  OBVIOUS
<1> QED BY <1>1, <1>2, <1>3, <1>4, BrowseIs

LEMMA MoveTextKept ==
  ASSUME Types, NEW unit \in {"character", "word", "line", "paragraph"}, NEW d \in {-1, 1}, MoveText(unit, d)
  PROVE  Kept
<1>1. InGraph(cursor.object)
  BY DEF MoveText
<1>2. CASE unit = "paragraph"
  BY <1>2, MoveParagraphKept DEF MoveText
<1>3. CASE unit = "line" /\ ~MovesWithinNode(NodeOf(cursor.object))
  <2>1. MoveLine(d)
    BY <1>3 DEF MoveText
  <2> QED BY <1>1, <2>1, MoveLineKept
<1>4. CASE unit # "paragraph" /\ ~(unit = "line" /\ ~MovesWithinNode(NodeOf(cursor.object)))
  <2>1. MoveUnit(d, unit)
    BY <1>4 DEF MoveText
  <2>2. unit \in TextUnits
    BY <1>4 DEF TextUnits
  <2> QED BY <1>1, <2>1, <2>2, MoveUnitKept
<1> QED BY <1>2, <1>3, <1>4

-----------------------------------------------------------------------------
(* The document of an object *)

LEMMA GreatestIs ==
  ASSUME NEW T, T \subseteq Nat, NEW x \in T, \A y \in T : y <= x
  PROVE  Max(T) = x
<1>1. x \in Nat /\ T # {}
  OBVIOUS
<1>2. Max(T) \in T /\ \A y \in T : y <= Max(T)
  BY <1>1, MaxOfSome
<1>3. Max(T) \in Nat /\ Max(T) <= x /\ x <= Max(T)
  BY <1>2
<1> QED BY <1>1, <1>3

\* The outermost document of a longer path is that of the rest, if that has one.
GoesOn(v, o, rest, up) ==
  /\ Outermost(v, up) = IF Outermost(v, rest) # Nothing THEN Outermost(v, rest)
                        ELSE IF NodesOf(v)[o].role \in Documents THEN o ELSE Nothing
  /\ Outermost(v, rest) # Nothing =>
       Outermost(v, rest) \in ToSet(rest) /\ NodesOf(v)[Outermost(v, rest)].role \in Documents

LEMMA OutermostGoesOn ==
  \A v \in DOMAIN Trees : \A o \in DOMAIN NodesOf(v), rest \in Seq(DOMAIN NodesOf(v)) : \A up :
    up = <<o>> \o rest => GoesOn(v, o, rest, up)
<1> SUFFICES ASSUME NEW v \in DOMAIN Trees, NEW o \in DOMAIN NodesOf(v), NEW rest \in Seq(DOMAIN NodesOf(v)),
                    NEW up, up = <<o>> \o rest
             PROVE  GoesOn(v, o, rest, up)
  OBVIOUS
<1> PICK nodes : nodes = NodesOf(v)
  OBVIOUS
<1> DEFINE Written(s) == {i \in DOMAIN s : nodes[s[i]].role \in Documents}
<1>1. /\ Len(rest) \in Nat /\ DOMAIN rest = 1..Len(rest) /\ DOMAIN up = 1..Len(rest) + 1 /\ up[1] = o
      /\ \A i \in 1..Len(rest) : up[i + 1] = rest[i] /\ rest[i] \in DOMAIN nodes
  <2>1. /\ up \in Seq(DOMAIN nodes) /\ Len(up) = Len(rest) + 1 /\ up[1] = o
        /\ \A i \in 1..Len(rest) : up[i + 1] = rest[i]
    BY Prepended
  <2> QED BY <2>1
<1>2. Nothing \notin DOMAIN nodes
  BY TreesAre
<1>3. \A s : Outermost(v, s) = IF Written(s) = {} THEN Nothing ELSE s[Max(Written(s))]
  BY DEF Outermost
<1>a. PICK W : W = Written(rest)
  OBVIOUS
<1>b. PICK U : U = Written(up)
  OBVIOUS
<1>4. W \subseteq Nat /\ U \subseteq Nat /\ W \subseteq 1..Len(rest)
  BY <1>1, <1>a, <1>b
<1>5. ASSUME NEW i \in 1..Len(rest) PROVE i + 1 \in U <=> i \in W
  <2>1. i + 1 \in DOMAIN up /\ up[i + 1] = rest[i] /\ i \in DOMAIN rest
    BY <1>1
  <2> QED BY <2>1, <1>a, <1>b
<1>6. 1 \in U <=> nodes[o].role \in Documents
  <2>1. 1 \in DOMAIN up /\ up[1] = o
    BY <1>1
  <2> QED BY <2>1, <1>b
<1>7. \A j \in U : j = 1 \/ \E i \in W : j = i + 1
  <2> SUFFICES ASSUME NEW j \in U, j # 1 PROVE \E i \in W : j = i + 1
    OBVIOUS
  <2>1. j \in 1..Len(rest) + 1
    BY <1>1, <1>b
  <2>2. PICK i \in 1..Len(rest) : j = i + 1
    <3>1. j - 1 \in 1..Len(rest) /\ j = (j - 1) + 1
      BY <1>1, <2>1
    <3> QED BY <3>1
  <2> QED BY <1>5, <2>2
<1>8. /\ Outermost(v, rest) = IF W = {} THEN Nothing ELSE rest[Max(W)]
      /\ Outermost(v, up) = IF U = {} THEN Nothing ELSE up[Max(U)]
  BY <1>3, <1>a, <1>b
<1>9. CASE W = {}
  <2>1. Outermost(v, rest) = Nothing
    BY <1>8, <1>9
  <2>2. CASE nodes[o].role \in Documents
    <3>1. U = {1}
      BY <1>6, <1>7, <1>9, <2>2
    <3>2. Max(U) = 1
      <4>1. 1 \in U /\ \A y \in U : y <= 1
        BY <3>1
      <4> QED BY <1>4, <4>1, GreatestIs
    <3>3. Outermost(v, up) = up[Max(U)]
      BY <1>8, <3>1
    <3>4. Outermost(v, up) = o
      BY <1>1, <3>2, <3>3
    <3> QED BY <2>1, <2>2, <3>4 DEF GoesOn
  <2>3. CASE nodes[o].role \notin Documents
    <3>1. U = {}
      BY <1>6, <1>7, <1>9, <2>3
    <3> QED BY <1>8, <2>1, <2>3, <3>1 DEF GoesOn
  <2> QED BY <2>2, <2>3
<1>10. CASE W # {}
  <2>1. \A i \in W : i <= Len(rest)
    BY <1>1, <1>4
  <2>2. PICK m : m = Max(W) /\ m \in W /\ \A i \in W : i <= m
    BY <1>1, <1>4, <1>10, <2>1, MaxOfSome
  <2>3. m \in 1..Len(rest) /\ m + 1 \in U
    BY <1>4, <1>5, <2>2
  <2>4. \A j \in U : j <= m + 1
    <3> SUFFICES ASSUME NEW j \in U PROVE j <= m + 1
      OBVIOUS
    <3>1. CASE j = 1
      BY <2>3, <3>1
    <3>2. CASE j # 1
      <4>1. PICK i \in W : j = i + 1
        BY <1>7, <3>2
      <4>2. i \in Nat /\ m \in Nat /\ i <= m
        BY <1>4, <2>2
      <4> QED BY <4>1, <4>2
    <3> QED BY <3>1, <3>2
  <2>5. Max(U) = m + 1
    BY <1>4, <2>3, <2>4, GreatestIs
  <2>6. up[m + 1] = rest[m] /\ rest[m] # Nothing
    BY <1>1, <1>2, <2>3
  <2>7. Outermost(v, rest) = rest[m] /\ Outermost(v, up) = rest[m]
    BY <1>8, <1>10, <2>2, <2>3, <2>5, <2>6
  <2>8. nodes[rest[m]].role \in Documents /\ m \in DOMAIN rest
    BY <2>2, <1>a
  <2>9. rest[m] \in ToSet(rest)
    BY <2>8, Zenon DEF ToSet
  <2> QED BY <2>6, <2>7, <2>8, <2>9 DEF GoesOn
<1> QED BY <1>9, <1>10

\* An object's document is that of its parent, or else the object itself.
LEMMA DocumentIs ==
  ASSUME Types, NEW o \in DOMAIN graph.nodes, NEW parent, parent = NodesOf(version)[o].parent
  PROVE  /\ parent \in Spots(NodesOf(version))
         /\ DocumentRoot(graph, o) = IF DocumentRoot(graph, parent) # Nothing THEN DocumentRoot(graph, parent)
                                     ELSE IF NodeOf(o).role \in Documents THEN o ELSE Nothing
<1> PICK nodes : nodes = NodesOf(version)
  OBVIOUS
<1>1. /\ version \in DOMAIN Trees /\ NotTooDeep(nodes) /\ DOMAIN graph.nodes = DOMAIN nodes
      /\ Nothing \notin DOMAIN nodes
  BY PlacesAre, TreesNotTooDeep
<1>2. /\ parent \in Spots(nodes) /\ Path(nodes, o) = <<o>> \o Path(nodes, parent)
  BY <1>1, PathGoesOn
<1>3. Path(nodes, parent) \in Seq(DOMAIN nodes)
  BY <1>1, <1>2, PathIs
<1>4. \A x \in DOMAIN nodes : DocumentRoot(graph, x) = Outermost(version, Path(nodes, x))
  <2> SUFFICES ASSUME NEW x \in DOMAIN nodes PROVE DocumentRoot(graph, x) = Outermost(version, Path(nodes, x))
    OBVIOUS
  <2>1. Tells(version, x, NodeOf(x)) /\ x \in DOMAIN graph.nodes
    BY <1>1, GraphTells
  <2> QED BY <2>1 DEF Tells, Above, Path, DocumentRoot, Has, NodeOf
<1>5. DocumentRoot(graph, parent) = Outermost(version, Path(nodes, parent))
  <2>1. CASE parent \in DOMAIN nodes
    BY <1>4, <2>1
  <2>2. CASE parent \notin DOMAIN nodes
    <3>1. Path(nodes, parent) = <<>> /\ DocumentRoot(graph, parent) = Nothing
      BY <1>1, <1>2, <2>2, PathIs DEF DocumentRoot, Has
    <3>2. Outermost(version, <<>>) = Nothing
      BY DEF Outermost
    <3> QED BY <3>1, <3>2
  <2> QED BY <2>1, <2>2
<1> PICK rest, up : rest = Path(nodes, parent) /\ up = Path(nodes, o)
  OBVIOUS
<1>6. o \in DOMAIN nodes /\ rest \in Seq(DOMAIN nodes) /\ up = <<o>> \o rest
  BY <1>1, <1>2, <1>3
<1>7. Outermost(version, up) = IF Outermost(version, rest) # Nothing THEN Outermost(version, rest)
                               ELSE IF NodesOf(version)[o].role \in Documents THEN o ELSE Nothing
  <2>1. GoesOn(version, o, rest, up)
    BY <1>1, <1>6, OutermostGoesOn
  <2> QED BY <2>1 DEF GoesOn
<1>8. NodeOf(o).role = NodesOf(version)[o].role
  BY GraphTells DEF Tells
<1>9. DocumentRoot(graph, o) = Outermost(version, up)
  BY <1>4, <1>6
<1> QED BY <1>2, <1>5, <1>7, <1>8, <1>9

\* What is below an object in a document is in that document.
LEMMA DocumentBelow ==
  ASSUME Types, NEW o \in DOMAIN graph.nodes, NEW x, Below(x, o), DocumentRoot(graph, x) # Nothing
  PROVE  DocumentRoot(graph, o) = DocumentRoot(graph, x)
<1> PICK nodes, path : nodes = NodesOf(version) /\ path = PathsUp(NodesOf(version))
  OBVIOUS
<1> DEFINE P == {n \in Nat : \A y \in Spots(nodes) : \A z \in ToSet(path[n][y]) :
                   DocumentRoot(graph, z) # Nothing => DocumentRoot(graph, y) = DocumentRoot(graph, z)}
<1>0. Rooted(nodes) /\ depthLimit \in Nat /\ DOMAIN graph.nodes = DOMAIN nodes
  BY PlacesAre, TreesNotTooDeep DEF NotTooDeep
<1>1. 0 \in P
  <2>1. \A y \in Spots(nodes) : ToSet(path[0][y]) = {}
    BY <1>0, PathsUpDefined DEF ToSet
  <2> QED BY <2>1
<1>2. ASSUME NEW n \in Nat, n \in P PROVE n + 1 \in P
  <2> SUFFICES ASSUME NEW y \in Spots(nodes), NEW z \in ToSet(path[n + 1][y]), DocumentRoot(graph, z) # Nothing
               PROVE  DocumentRoot(graph, y) = DocumentRoot(graph, z)
    BY <1>2
  <2>1. y \in DOMAIN nodes
    <3> SUFFICES ASSUME y \notin DOMAIN nodes PROVE FALSE
      OBVIOUS
    <3>1. path[n + 1][y] = <<>>
      BY <1>0, PathsUpAt, ZenonT(40)
    <3> QED BY <3>1 DEF ToSet
  <2> PICK p : p = nodes[y].parent
    OBVIOUS
  <2>2. /\ p \in Spots(nodes)
        /\ DocumentRoot(graph, p) # Nothing => DocumentRoot(graph, y) = DocumentRoot(graph, p)
    BY <1>0, <2>1, DocumentIs
  <2>3. path[n + 1][y] = <<y>> \o path[n][p] /\ path[n][p] \in Seq(DOMAIN nodes)
    BY <1>0, <2>1, <2>2, PathsUpAt
  <2>4. ToSet(path[n + 1][y]) = {y} \cup ToSet(path[n][p])
    BY <2>1, <2>3, Prepended
  <2>5. CASE z = y
    BY <2>5
  <2>6. CASE z \in ToSet(path[n][p])
    BY <1>2, <2>2, <2>6
  <2> QED BY <2>4, <2>5, <2>6
<1>3. Nat \subseteq P
  <2> HIDE DEF P
  <2> QED BY <1>1, <1>2, InductionOver
<1>4. o \in Spots(nodes) /\ x \in ToSet(path[depthLimit][o])
  BY <1>0 DEF Spots, Below, Over, Path
<1> QED BY <1>0, <1>3, <1>4

\* A document that objects are in is itself in it, and above them.
LEMMA RootOfDocument ==
  ASSUME Types, NEW o, NEW document, InDocument(graph, o, document)
  PROVE  /\ document \in DOMAIN graph.nodes /\ o \in DOMAIN graph.nodes
         /\ Below(document, o) /\ DocumentRoot(graph, document) = document
<1> PICK nodes : nodes = NodesOf(version)
  OBVIOUS
<1>1. document # Nothing /\ DocumentRoot(graph, o) = document
  BY DEF InDocument
<1>2. o \in DOMAIN graph.nodes /\ o \in DOMAIN nodes /\ version \in DOMAIN Trees /\ NotTooDeep(nodes)
      /\ DOMAIN graph.nodes = DOMAIN nodes
  BY <1>1, PlacesAre, TreesNotTooDeep DEF DocumentRoot, Has
<1> PICK up : up = Path(nodes, o)
  OBVIOUS
<1>3. up \in Seq(DOMAIN nodes) /\ Over(nodes, o) \subseteq DOMAIN nodes
  BY <1>2, PathIs DEF Spots
<1>4. document = Outermost(version, up)
  BY <1>1, <1>2, GraphTells DEF Tells, Above, Path, DocumentRoot, Has, NodeOf
<1>5. document \in ToSet(up) /\ nodes[document].role \in Documents
  <2> PICK rest : rest = Path(nodes, nodes[o].parent)
    OBVIOUS
  <2>1. up = <<o>> \o rest /\ rest \in Seq(DOMAIN nodes)
    BY <1>2, PathGoesOn, PathIs
  <2>2. ToSet(up) = {o} \cup ToSet(rest)
    BY <1>2, <2>1, Prepended
  <2>3. GoesOn(version, o, rest, up)
    BY <1>2, <2>1, OutermostGoesOn
  <2> QED BY <1>1, <1>4, <2>2, <2>3 DEF GoesOn
<1>6. Below(document, o) /\ document \in DOMAIN graph.nodes
  BY <1>2, <1>3, <1>5 DEF Below, Over
<1>7. NodeOf(document).role \in Documents
  BY <1>5, <1>6, GraphTells DEF Tells
<1>8. DocumentRoot(graph, document) # Nothing
  <2>1. document # Nothing
    BY <1>1
  <2> QED BY <1>6, <1>7, <2>1, DocumentIs
<1>9. DocumentRoot(graph, o) = DocumentRoot(graph, document)
  BY <1>2, <1>6, <1>8, DocumentBelow
<1> QED BY <1>1, <1>2, <1>6, <1>9

\* Between two objects of a document there are only objects of it.
LEMMA BetweenIs ==
  ASSUME Types, NEW document, NEW o, Between(document, o)
  PROVE  InDocument(graph, o, document)
<1> PICK i, k, j \in 1..Length : /\ i < k /\ k < j /\ o = graph.order[k]
                                 /\ InDocument(graph, graph.order[i], document)
                                 /\ InDocument(graph, graph.order[j], document)
  BY DEF Between
<1>1. /\ Below(document, graph.order[i]) /\ Below(document, graph.order[j])
      /\ DocumentRoot(graph, document) = document /\ document # Nothing
  BY RootOfDocument DEF InDocument
<1>2. Below(document, o) /\ o \in DOMAIN graph.nodes
  <2>1. \A a, b, c \in 1..Length : a < b /\ b < c =>
          \A x : Below(x, graph.order[a]) /\ Below(x, graph.order[c]) => Below(x, graph.order[b])
    BY PlacesAre
  <2>2. Below(document, graph.order[k])
    BY <1>1, <2>1
  <2> QED BY <2>2, PlacesAre
<1> QED BY <1>1, <1>2, DocumentBelow DEF InDocument

-----------------------------------------------------------------------------
(* The browse cursor stays in its document *)

\* What BrowseStaysInDocument says of a step.
StaysInDocument ==
  LET document == DocumentRoot(graph, cursor.object)
  IN last' \in BrowseMoves /\ document # Nothing /\ (last' = "around" => Enclosed(document)) =>
       InGraph(cursor'.object) /\ DocumentRoot(graph, cursor'.object) = document

\* What is in the document of the cursor, if that has one.
WithCursor(o) ==
  DocumentRoot(graph, cursor.object) # Nothing => InDocument(graph, o, DocumentRoot(graph, cursor.object))

LEMMA InDocumentIs ==
  ASSUME NEW o, NEW document, InDocument(graph, o, document)
  PROVE  InGraph(o) /\ DocumentRoot(graph, o) = document /\ document # Nothing
BY DEF InDocument, DocumentRoot, InGraph

LEMMA CursorStays ==
  ASSUME cursor' = cursor
  PROVE  StaysInDocument
BY DEF StaysInDocument, DocumentRoot, InGraph

LEMMA OtherStays ==
  ASSUME last' \notin BrowseMoves
  PROVE  StaysInDocument
BY DEF StaysInDocument

LEMMA BrowseStays ==
  ASSUME NEW found, NEW how, Browse(found, how),
         /\ found.object # Nothing
         /\ how = "around" => Enclosed(DocumentRoot(graph, cursor.object))
         => WithCursor(found.object)
  PROVE  StaysInDocument
<1>1. CASE found.object = Nothing
  <2>1. cursor' = cursor
    BY <1>1 DEF Browse
  <2> QED BY <2>1, CursorStays
<1>2. CASE found.object # Nothing
  <2>1. cursor' = found /\ last' = how
    BY <1>2 DEF Browse
  <2> PICK document : document = DocumentRoot(graph, cursor.object)
    OBVIOUS
  <2>2. document # Nothing /\ (how = "around" => Enclosed(document)) => InDocument(graph, found.object, document)
    BY <1>2 DEF WithCursor
  <2>3. document # Nothing /\ (how = "around" => Enclosed(document)) =>
          InGraph(found.object) /\ DocumentRoot(graph, found.object) = document
    BY <2>2, InDocumentIs
  <2> QED BY <2>1, <2>3, Zenon DEF StaysInDocument
<1> QED BY <1>1, <1>2

\* The same for a move to an object.
LEMMA StartStays ==
  ASSUME NEW o, NEW how, Browse(Start(o), how), how # "around", o # Nothing => WithCursor(o)
  PROVE  StaysInDocument
<1> PICK to : to = Start(o)
  OBVIOUS
<1>1. to.object = o
  BY StartIs
<1> QED BY <1>1, BrowseStays

\* An object found in the document is in it.
LEMMA FoundWithCursor ==
  ASSUME Types, NEW d \in {-1, 1}, NEW objects, MoveInDocument(graph, cursor.object, d, objects) # Nothing
  PROVE  WithCursor(MoveInDocument(graph, cursor.object, d, objects))
BY MoveInDocumentIs DEF WithCursor

\* So is what is below it.
LEMMA BelowWithCursor ==
  ASSUME Types, NEW o \in DOMAIN graph.nodes, NEW x, WithCursor(x), Below(x, o)
  PROVE  WithCursor(o)
BY DocumentBelow DEF WithCursor, InDocument

LEMMA NavigateStays ==
  ASSUME Types, NEW target, NEW d \in Directions, Navigate(target, d)
  PROVE  StaysInDocument
<1> DEFINE found == IF target = "notLinkBlock" THEN FindNotLinkBlock(cursor.object, d)
                    ELSE MoveInDocument(graph, cursor.object, d,
                           {x \in DOMAIN graph.nodes : Matches(target, NodeOf(x))})
           Entered(table) == IF PositionedCells(graph, table) = {} THEN table ELSE EdgeCell(graph, table, d)
<1>1. Browse(Start(IF target = "table" /\ found # Nothing THEN Entered(found) ELSE found),
             IF target = "table" /\ d < 0 THEN "within" ELSE Direction(d))
  BY DEF Navigate
<1>2. d \in {-1, 1}
  BY DirectionsAre
<1>3. found # Nothing => WithCursor(found) /\ found \in DOMAIN graph.nodes
  <2>1. CASE target = "notLinkBlock"
    <3>1. found # Nothing => /\ Index(graph, found) # 0
                             /\ Between(DocumentRoot(graph, cursor.object), found)
      BY <1>2, <2>1, NotLinkBlockIs
    <3> QED BY <3>1, BetweenIs, IndexIs DEF WithCursor
  <2>2. CASE target # "notLinkBlock"
    <3> PICK objects : objects = {x \in DOMAIN graph.nodes : Matches(target, NodeOf(x))}
      OBVIOUS
    <3>1. found = MoveInDocument(graph, cursor.object, d, objects)
      BY <2>2
    <3> PICK y : y = MoveInDocument(graph, cursor.object, d, objects)
      OBVIOUS
    <3>2. y # Nothing => y \in DOMAIN graph.nodes
      BY <1>2, MoveInDocumentIs
    <3>3. y # Nothing => WithCursor(y)
      BY <1>2, FoundWithCursor
    <3> QED BY <3>1, <3>2, <3>3
  <2> QED BY <2>1, <2>2
<1> PICK o, how, x : /\ o = found
                     /\ how = IF target = "table" /\ d < 0 THEN "within" ELSE Direction(d)
                     /\ x = IF target = "table" /\ found # Nothing THEN Entered(found) ELSE found
  OBVIOUS
<1>4. Browse(Start(x), how) /\ how # "around"
  BY <1>1 DEF Direction
<1>5. x # Nothing => WithCursor(x)
  <2>1. CASE x = o
    BY <1>3, <2>1
  <2>2. CASE x # o
    <3>1. o # Nothing /\ PositionedCells(graph, o) # {} /\ x = EdgeCell(graph, o, d)
      BY <2>2
    <3>2. WithCursor(o) /\ o \in DOMAIN graph.nodes
      BY <1>3, <3>1
    <3> HIDE DEF found, Entered
    <3>3. PICK i \in 1..Length : x = graph.order[i] /\ Below(o, graph.order[i])
      BY <1>2, <3>1, <3>2, EdgeCellIs
    <3>4. x \in DOMAIN graph.nodes /\ Below(o, x)
      BY <3>3, PlacesAre
    <3> QED BY <3>2, <3>4, BelowWithCursor
  <2> QED BY <2>1, <2>2
<1> QED BY <1>4, <1>5, StartStays

LEMMA MoveParagraphStays ==
  ASSUME Types, NEW d \in {-1, 1}, MoveParagraph(d)
  PROVE  StaysInDocument
<1> PICK blocks : blocks = {x \in DOMAIN graph.nodes : DocumentBlockNode(graph, NodeOf(x))}
  OBVIOUS
<1> PICK o : o = MoveInDocument(graph, cursor.object, d, blocks)
  OBVIOUS
<1>1. Browse(Start(o), Direction(d)) /\ Direction(d) # "around"
  BY DEF MoveParagraph, Direction
<1> QED BY <1>1, FoundWithCursor, StartStays

LEMMA MoveUnitStays ==
  ASSUME Types, NEW d \in {-1, 1}, NEW unit \in TextUnits, MoveUnit(d, unit)
  PROVE  StaysInDocument
<1> PICK range : range = MoveTextUnit(NodeOf(cursor.object).units[unit], cursor.offset, d)
  OBVIOUS
<1>1. Browse(IF range # NoRange THEN At(cursor.object, range.start) ELSE AdjacentTextUnit(d, unit),
             Direction(d))
  BY DEF MoveUnit
<1>2. CASE range # NoRange
  <2> PICK to : to = At(cursor.object, range.start)
    OBVIOUS
  <2>1. to.object = cursor.object /\ Browse(to, Direction(d))
    BY <1>1, <1>2, AtIs
  <2>2. WithCursor(cursor.object)
    BY DEF WithCursor, InDocument
  <2> QED BY <2>1, <2>2, BrowseStays
<1>3. CASE range = NoRange
  <2> PICK to : to = AdjacentTextUnit(d, unit)
    OBVIOUS
  <2>1. Browse(to, Direction(d))
    BY <1>1, <1>3
  <2>2. to.object # Nothing => WithCursor(to.object)
    <3> PICK objects : objects = {x \in DOMAIN graph.nodes :
                                    NodeOf(x).navigable # <<>> /\ NodeOf(x).units[unit] # {}}
      OBVIOUS
    <3> PICK o : o = IF Index(graph, cursor.object) = 0 THEN Nothing
                     ELSE MoveInDocument(graph, cursor.object, d, objects)
      OBVIOUS
    <3>1. to.object = o
      <4>1. PICK offset : to = IF o = Nothing THEN Start(Nothing) ELSE At(o, offset)
        BY DEF AdjacentTextUnit
      <4> QED BY <4>1, StartIs, AtIs
    <3> QED BY <3>1, FoundWithCursor
  <2> QED BY <2>1, <2>2, BrowseStays
<1> QED BY <1>2, <1>3

\* The next line of a document is a line of that document.
LEMMA LineWithCursor ==
  ASSUME Types, NEW d, InGraph(cursor.object), MoveDocumentLine(graph, cursor.object, d) # Nothing
  PROVE  WithCursor(MoveDocumentLine(graph, cursor.object, d))
<1> PICK o, document : o = cursor.object /\ document = DocumentRoot(graph, cursor.object)
  OBVIOUS
<1>0. o \in DOMAIN graph.nodes
  BY DEF InGraph, Has
<1> SUFFICES ASSUME document # Nothing PROVE InDocument(graph, MoveDocumentLine(graph, o, d), document)
  BY DEF WithCursor
<1> PICK groups : groups = graph.lines[document]
  OBVIOUS
<1> DEFINE Around(i) == \E x \in ToSet(groups[i]) : IsDescendantOf(graph, o, x) \/ IsDescendantOf(graph, x, o)
           here == {i \in 1..Len(groups) : Around(i)}
<1>1. MoveDocumentLine(graph, o, d) =
        IF here = {} \/ Min(here) + d \notin 1..Len(groups) THEN Nothing
        ELSE Head(groups[Min(here) + d])
  BY Zenon DEF MoveDocumentLine
<1> PICK b : b = Min(here) + d
  OBVIOUS
<1>2. b \in 1..Len(groups) /\ MoveDocumentLine(graph, o, d) = Head(groups[b])
  BY <1>1
<1>3. Grouped(document, Length, groups)
  <2>1. document = NodeOf(o).document /\ document \in DOMAIN graph.nodes
    BY <1>0, GraphTells, PlacesAre DEF Tells, DocumentRoot, Has, NodeOf
  <2> QED BY <2>1, LinesGrouped
<1> PICK N, V : N = DOMAIN graph.nodes /\ V = Seq(N)
  OBVIOUS
<1>4. /\ groups \in Seq(V)
      /\ \A a \in DOMAIN groups : groups[a] # <<>> /\ \A x \in ToSet(groups[a]) : InDocument(graph, x, document)
  BY <1>3 DEF Grouped
<1> PICK s : s = groups[b]
  OBVIOUS
<1>5. b \in DOMAIN groups /\ s \in Seq(N) /\ s # <<>>
  <2>1. DOMAIN groups = 1..Len(groups)
    BY <1>4
  <2>2. b \in DOMAIN groups
    BY <1>2, <2>1
  <2>3. groups[b] \in V
    BY <1>4, <2>2, Items
  <2> QED BY <1>4, <2>2, <2>3
<1>6. Head(s) \in ToSet(s)
  BY <1>5, HeadIs
<1> QED BY <1>2, <1>4, <1>5, <1>6

LEMMA MoveLineStays ==
  ASSUME Types, NEW d, InGraph(cursor.object), MoveLine(d)
  PROVE  StaysInDocument
<1> PICK o, how : /\ o = MoveDocumentLine(graph, cursor.object, d)
                  /\ how = IF d > 0 THEN "nextLine" ELSE "previousLine"
  OBVIOUS
<1>1. Browse(Start(o), how) /\ how # "around"
  BY DEF MoveLine
<1> QED BY <1>1, LineWithCursor, StartStays

LEMMA MoveTextStays ==
  ASSUME Types, NEW unit \in {"character", "word", "line", "paragraph"}, NEW d \in {-1, 1}, MoveText(unit, d)
  PROVE  StaysInDocument
<1>1. InGraph(cursor.object)
  BY DEF MoveText
<1>2. CASE unit = "paragraph"
  BY <1>2, MoveParagraphStays DEF MoveText
<1>3. CASE unit = "line" /\ ~MovesWithinNode(NodeOf(cursor.object))
  <2>1. MoveLine(d)
    BY <1>3 DEF MoveText
  <2> QED BY <1>1, <2>1, MoveLineStays
<1>4. CASE unit # "paragraph" /\ ~(unit = "line" /\ ~MovesWithinNode(NodeOf(cursor.object)))
  <2>1. MoveUnit(d, unit)
    BY <1>4 DEF MoveText
  <2>2. unit \in TextUnits
    BY <1>4 DEF TextUnits
  <2> QED BY <2>1, <2>2, MoveUnitStays
<1> QED BY <1>2, <1>3, <1>4

LEMMA DocumentStartStays ==
  ASSUME Types, DocumentStart
  PROVE  StaysInDocument
<1> PICK document, first : /\ document = DocumentRoot(graph, cursor.object)
                           /\ first = FirstDocumentBrowseNode(graph, document)
  OBVIOUS
<1>1. Browse(IF document = Nothing \/ first # Nothing THEN Start(first) ELSE Start(document), "within")
  BY DEF DocumentStart
<1>2. first # Nothing => WithCursor(first)
  <2> SUFFICES ASSUME first # Nothing PROVE WithCursor(first)
    OBVIOUS
  <2> PICK objects : objects = {x \in DOMAIN graph.nodes :
                                  /\ graph.nodes[x].said # <<>>
                                  /\ graph.nodes[x].role \notin Documents \cup {"landmark"}}
    OBVIOUS
  <2>1. first = Nearest(graph, Index(graph, document), 1, PlacesIn(graph, document, objects))
    BY DEF FirstDocumentBrowseNode
  <2> PICK places, from : places = PlacesIn(graph, document, objects) /\ from = Index(graph, document)
    OBVIOUS
  <2>2. /\ places \subseteq 1..Length
        /\ \A i \in places : InDocument(graph, graph.order[i], document)
    BY PlacesInAre
  <2>3. from \in Int /\ Nearest(graph, from, 1, places) # Nothing
    BY <2>1, IndexIs
  <2>4. PICK i \in places : Nearest(graph, from, 1, places) = graph.order[i]
    <3>1. PICK forward \in {-1, 1} : forward = 1
      OBVIOUS
    <3>2. places \subseteq 1..Length /\ Nearest(graph, from, forward, places) # Nothing
      BY <2>2, <2>3, <3>1
    <3>3. \E i \in places : /\ Nearest(graph, from, forward, places) = graph.order[i]
                            /\ forward * (i - from) > 0
      BY <2>3, <3>2, NearestIs
    <3> QED BY <3>1, <3>3
  <2> QED BY <2>1, <2>2, <2>4 DEF WithCursor
<1>3. CASE document = Nothing \/ first # Nothing
  <2>1. Browse(Start(first), "within")
    BY <1>1, <1>3
  <2> QED BY <1>2, <2>1, StartStays
<1>4. CASE ~(document = Nothing \/ first # Nothing)
  <2>1. Browse(Start(document), "within")
    BY <1>1, <1>4
  <2>2. WithCursor(document)
    <3>1. InDocument(graph, cursor.object, document)
      BY <1>4 DEF InDocument
    <3> QED BY <3>1, RootOfDocument DEF WithCursor, InDocument
  <2> QED BY <2>1, <2>2, StartStays
<1> QED BY <1>3, <1>4

LEMMA DocumentEndStays ==
  ASSUME Types, DocumentEnd
  PROVE  StaysInDocument
<1> PICK document, places, end :
      /\ document = DocumentRoot(graph, cursor.object)
      /\ places = PlacesIn(graph, document, DOMAIN graph.nodes) /\ end = graph.order[Max(places)]
  OBVIOUS
<1>1. Browse(IF document = Nothing THEN Start(Nothing)
             ELSE IF places = {} THEN At(cursor.object, Len(NodeOf(cursor.object).navigable))
             ELSE At(end, Len(NodeOf(end).navigable)), "within")
  BY DEF DocumentEnd
<1>2. CASE document = Nothing
  <2>1. Browse(Start(Nothing), "within")
    BY <1>1, <1>2
  <2> QED BY <2>1, StartStays
<1>3. CASE document # Nothing /\ places = {}
  <2> PICK to : to = At(cursor.object, Len(NodeOf(cursor.object).navigable))
    OBVIOUS
  <2>1. to.object = cursor.object /\ Browse(to, "within")
    BY <1>1, <1>3, AtIs
  <2>2. WithCursor(cursor.object)
    BY DEF WithCursor, InDocument
  <2> QED BY <2>1, <2>2, BrowseStays
<1>4. CASE document # Nothing /\ places # {}
  <2> PICK to : to = At(end, Len(NodeOf(end).navigable))
    OBVIOUS
  <2>1. places \subseteq 1..Length /\ Length \in Nat
    BY PlacesInAre, PlacesAre
  <2>2. places \subseteq Nat /\ \A i \in places : i <= Length
    BY <2>1
  <2>3. Max(places) \in places
    BY <1>4, <2>1, <2>2, MaxOfSome
  <2>4. WithCursor(end)
    BY <2>3, PlacesInAre DEF WithCursor
  <2>5. to.object = end /\ Browse(to, "within")
    BY <1>1, <1>4, AtIs
  <2> QED BY <2>4, <2>5, BrowseStays
<1> QED BY <1>2, <1>3, <1>4

\* The container around the cursor is in the document by assumption on it.
LEMMA ContainerStartStays ==
  ASSUME Types, MoveToContainerStart
  PROVE  StaysInDocument
<1> PICK o, to : o = Containing(graph, cursor.object, Containers) /\ to = Start(o)
  OBVIOUS
<1>1. Browse(to, "around") /\ to.object = o
  BY StartIs DEF MoveToContainerStart
<1>2. o # Nothing /\ Enclosed(DocumentRoot(graph, cursor.object)) => WithCursor(o)
  BY DEF Enclosed, WithCursor, InDocument
<1> QED BY <1>1, <1>2, BrowseStays

LEMMA PastContainerEndStays ==
  ASSUME Types, MovePastContainerEnd
  PROVE  StaysInDocument
<1> DEFINE document == DocumentRoot(graph, cursor.object)
           Outside(container) ==
             {i \in Index(graph, container) + 1..Len(graph.order) :
                /\ ~IsDescendantOf(graph, graph.order[i], container)
                /\ document # Nothing => InDocument(graph, graph.order[i], document)}
           After(container) == IF container = Nothing \/ Outside(container) = {} THEN Nothing
                               ELSE graph.order[Min(Outside(container))]
<1> PICK c : c = Containing(graph, cursor.object, Containers)
  OBVIOUS
<1>1. Browse(Start(After(c)), "past")
  BY DEF MovePastContainerEnd
<1> PICK x, outside : x = After(c) /\ outside = Outside(c)
  OBVIOUS
<1>2. Length \in Nat /\ Index(graph, c) \in Nat
  BY PlacesAre, IndexIs
<1>3. outside \subseteq Nat
  BY <1>2 DEF Length
<1>4. \A i \in outside : WithCursor(graph.order[i])
  BY DEF WithCursor
<1>5. x # Nothing => outside # {} /\ x = graph.order[Min(outside)]
  OBVIOUS
<1>6. Browse(Start(x), "past")
  BY <1>1
<1> HIDE DEF After, Outside
<1>7. x # Nothing => WithCursor(x)
  BY <1>3, <1>4, <1>5, MinOfSome
<1> QED BY <1>6, <1>7, StartStays

\* A cell of a table is below it.
LEMMA CellAtIs ==
  ASSUME Types, NEW table \in DOMAIN graph.nodes, NEW row, NEW column, CellAt(graph, table, row, column) # Nothing
  PROVE  /\ CellAt(graph, table, row, column) \in DOMAIN graph.nodes
         /\ Below(table, CellAt(graph, table, row, column))
<1>1. PICK g : /\ g.order = graph.order /\ g.nodes = graph.nodes
               /\ DOMAIN graph.tables[table].at =
                    (1..graph.tables[table].rows) \X (1..graph.tables[table].columns)
               /\ \A p \in DOMAIN graph.tables[table].at : graph.tables[table].at[p] # Nothing =>
                    \E i \in CellsOf(g, table) : /\ graph.tables[table].at[p] = graph.order[i]
                                                 /\ Covers(NodeOf(graph.order[i]), p[1], p[2])
  BY GridIs
<1> PICK p : p = <<row, column>>
  OBVIOUS
<1>2. /\ CellAt(graph, table, row, column) = graph.tables[table].at[p]
      /\ row \in 1..graph.tables[table].rows /\ column \in 1..graph.tables[table].columns
  BY DEF CellAt
<1>3. p \in DOMAIN graph.tables[table].at
  BY <1>1, <1>2
<1>4. PICK i \in CellsOf(g, table) : graph.tables[table].at[p] = graph.order[i]
  BY <1>1, <1>2, <1>3
<1>5. i \in 1..Length /\ Below(table, graph.order[i])
  BY <1>1, CellsAreBelow
<1> QED BY <1>2, <1>4, <1>5, PlacesAre

\* What is in a table of the document is in the document.
LEMMA CellWithCursor ==
  ASSUME Types, NEW table, DocumentRoot(graph, table) = DocumentRoot(graph, cursor.object),
         NEW row, NEW column, CellAt(graph, table, row, column) # Nothing
  PROVE  WithCursor(CellAt(graph, table, row, column))
<1> PICK o, document : o = CellAt(graph, table, row, column) /\ document = DocumentRoot(graph, cursor.object)
  OBVIOUS
<1>1. CASE document = Nothing
  BY <1>1 DEF WithCursor
<1>2. CASE document # Nothing
  <2>1. table \in DOMAIN graph.nodes
    BY <1>2 DEF DocumentRoot, Has
  <2>2. o \in DOMAIN graph.nodes /\ Below(table, o)
    BY <2>1, CellAtIs
  <2>3. WithCursor(table)
    BY <1>2 DEF WithCursor, InDocument
  <2> QED BY <2>2, <2>3, BelowWithCursor
<1> QED BY <1>1, <1>2

LEMMA NavigateTableStays ==
  ASSUME Types, NEW axis, NEW d, NEW toEdge, NavigateTable(axis, d, toEdge)
  PROVE  StaysInDocument
<1> PICK table : table = ContainingTable(graph, cursor.object)
  OBVIOUS
<1> DEFINE around == Containing(graph, cursor.object, TableCells)
           Current(t) == IF around # Nothing THEN around ELSE EdgeCell(graph, t, 1)
           CellIn(t, n, i) == IF axis = "row" THEN CellAt(graph, t, i, n.column)
                              ELSE CellAt(graph, t, n.row, i)
           Size(t) == IF axis = "row" THEN graph.tables[t].rows ELSE graph.tables[t].columns
           Near(n) == IF axis = "row" THEN n.row ELSE n.column
           Far(n) == IF axis = "row" THEN n.row + n.rowSpan ELSE n.column + n.columnSpan
           Ahead(t, n) ==
             {i \in 1..Size(t) : /\ CellIn(t, n, i) # Nothing
                                 /\ toEdge \/ IF d > 0 THEN i >= Far(n) ELSE i < Near(n)}
           First(found) == IF toEdge = (d < 0) THEN Min(found) ELSE Max(found)
<1>1. \E row, column, o : /\ Browse(Start(o), "around") /\ table # Nothing
                          /\ o = Nothing \/ o = CellAt(graph, table, row, column)
  <2>1. \E t \in {table} \ {Nothing} :
          /\ PositionedCells(graph, t) # {}
          /\ \E n \in {NodeOf(Current(t))} :
               \E found \in {Ahead(t, n)} :
                 \E to \in {IF found = {} THEN Nothing ELSE CellIn(t, n, First(found))} :
                   Browse(Start(IF to = Current(t) THEN Nothing ELSE to), "around")
    BY DEF NavigateTable
  <2> HIDE DEF Current, CellIn, Ahead, First
  <2>2. table # Nothing
    BY <2>1
  <2>3. PICK n, found, to : /\ to = IF found = {} THEN Nothing ELSE CellIn(table, n, First(found))
                            /\ Browse(Start(IF to = Current(table) THEN Nothing ELSE to), "around")
    BY <2>1
  <2>4. to = Nothing \/ \E row, column : to = CellAt(graph, table, row, column)
    BY <2>3 DEF CellIn
  <2>5. PICK o : o = IF to = Current(table) THEN Nothing ELSE to
    OBVIOUS
  <2>6. Browse(Start(o), "around") /\ (o = Nothing \/ o = to)
    BY <2>3, <2>5
  <2> QED BY <2>2, <2>4, <2>6
<1> HIDE DEF Current, CellIn, Ahead, First
<1>2. PICK row, column, o : /\ Browse(Start(o), "around") /\ table # Nothing
                            /\ o = Nothing \/ o = CellAt(graph, table, row, column)
  BY <1>1
<1> PICK to : to = Start(o)
  OBVIOUS
<1>3. to.object = o
  BY StartIs
<1>4. to.object # Nothing /\ Enclosed(DocumentRoot(graph, cursor.object)) => WithCursor(to.object)
  <2> SUFFICES ASSUME o # Nothing, Enclosed(DocumentRoot(graph, cursor.object)) PROVE WithCursor(o)
    BY <1>3
  <2>1. DocumentRoot(graph, table) = DocumentRoot(graph, cursor.object)
    BY <1>2 DEF Enclosed
  <2>2. CellAt(graph, table, row, column) # Nothing => WithCursor(CellAt(graph, table, row, column))
    BY <2>1, CellWithCursor
  <2> QED BY <1>2, <2>2
<1> QED BY <1>2, <1>4, BrowseStays

LEMMA SayAllTableStays ==
  ASSUME Types, NEW axis, SayAllTable(axis)
  PROVE  StaysInDocument
<1> PICK cell, table : /\ cell = Containing(graph, cursor.object, TableCells)
                       /\ table = ContainingTable(graph, cell)
  OBVIOUS
<1> DEFINE ToEnd(t, n) ==
             IF axis = "row"
               THEN {CellAt(graph, t, n.row, i) : i \in n.column..graph.tables[t].columns}
               ELSE {CellAt(graph, t, i, n.column) : i \in n.row..graph.tables[t].rows}
<1>1. \E current \in {cell} \ {Nothing} :
        \E read \in {ToEnd(ContainingTable(graph, current), NodeOf(current)) \ {Nothing}} :
          \E o \in read : Browse(Start(o), "around")
  BY Zenon DEF SayAllTable
<1>2. PICK row, column, o : /\ Browse(Start(o), "around") /\ cell # Nothing
                            /\ o = CellAt(graph, table, row, column) /\ o # Nothing
  <2>1. cell # Nothing
    BY <1>1
  <2> HIDE DEF ToEnd
  <2>2. PICK n, o : Browse(Start(o), "around") /\ o # Nothing /\ o \in ToEnd(table, n)
    BY <1>1
  <2>3. \E row, column : o = CellAt(graph, table, row, column)
    <3>1. CASE axis = "row"
      BY <2>2, <3>1 DEF ToEnd
    <3>2. CASE axis # "row"
      BY <2>2, <3>2 DEF ToEnd
    <3> QED BY <3>1, <3>2
  <2> QED BY <2>1, <2>2, <2>3
<1> PICK to : to = Start(o)
  OBVIOUS
<1>3. to.object = o
  BY StartIs
<1>4. Enclosed(DocumentRoot(graph, cursor.object)) => WithCursor(o)
  <2> SUFFICES ASSUME Enclosed(DocumentRoot(graph, cursor.object)) PROVE WithCursor(o)
    OBVIOUS
  <2>1. DocumentRoot(graph, table) = DocumentRoot(graph, cursor.object)
    BY <1>2 DEF Enclosed
  <2>2. WithCursor(CellAt(graph, table, row, column))
    BY <1>2, <2>1, CellWithCursor
  <2> QED BY <1>2, <2>2
<1> QED BY <1>2, <1>3, <1>4, BrowseStays

LEMMA FindStays ==
  ASSUME Types, NEW query, Len(query) \in Nat, NEW d \in {-1, 1}, NEW include \in BOOLEAN, NEW how,
         FindFrom(query, d, include, how)
  PROVE  StaysInDocument
<1>1. \/ last' = "boundary" /\ cursor' = cursor
      \/ DocumentRoot(graph, cursor.object) # Nothing =>
           InDocument(graph, cursor'.object, DocumentRoot(graph, cursor.object))
  BY FindFromIs
<1>2. CASE cursor' = cursor
  BY <1>2, CursorStays
<1>3. CASE DocumentRoot(graph, cursor.object) # Nothing =>
             InDocument(graph, cursor'.object, DocumentRoot(graph, cursor.object))
  <2> PICK document : document = DocumentRoot(graph, cursor.object)
    OBVIOUS
  <2>1. document # Nothing => InGraph(cursor'.object) /\ DocumentRoot(graph, cursor'.object) = document
    BY <1>3, InDocumentIs
  <2> QED BY <2>1, Zenon DEF StaysInDocument
<1> QED BY <1>1, <1>2, <1>3

-----------------------------------------------------------------------------
(* The cursors after a refresh *)

\* The root of a new graph is that of its tree.
LEMMA RootIs ==
  ASSUME NEW v \in DOMAIN Trees
  PROVE  Graphs[v].root = Trees[v].root /\ Graphs[v].root \in DOMAIN Graphs[v].nodes
<1>1. Graphs[v] = NewGraph(Trees[v].root, NodesOf(v))
  BY DEF Graphs, NodesOf
<1>2. Graphs[v].root = Trees[v].root
  BY <1>1 DEF NewGraph
<1> QED BY <1>2, GraphIs, TreesAre

LEMMA OrderIsSequence ==
  ASSUME NEW v \in DOMAIN Trees
  PROVE  Graphs[v].order \in Seq(DOMAIN NodesOf(v))
<1> PICK nodes, root : nodes = NodesOf(v) /\ root = Trees[v].root
  OBVIOUS
<1>1. Tree(root, nodes) /\ Cardinality(DOMAIN nodes) \in Nat
  BY TreesAreTrees, TreesAre, FS_CardinalityType
<1> PICK w : w = Walk(root, nodes)[Cardinality(DOMAIN nodes)]
  OBVIOUS
<1>2. w \in Walks(nodes)
  BY <1>1, WalkIs
<1>3. w.order \in Seq(DOMAIN nodes)
  BY <1>2 DEF Walks
<1> QED BY <1>3, GraphIs

\* The order of a new graph, as a set.
LEMMA OrderedIs ==
  ASSUME NEW v \in DOMAIN Trees, NEW new, new = Graphs[v]
  PROVE  /\ Len(new.order) \in Nat /\ DOMAIN new.order = 1..Len(new.order)
         /\ DOMAIN new.nodes = DOMAIN NodesOf(v) /\ Nothing \notin DOMAIN new.nodes
         /\ \A i \in 1..Len(new.order) : new.order[i] \in DOMAIN new.nodes /\ new.order[i] \in ToSet(new.order)
         /\ \A x \in ToSet(new.order) : \E i \in 1..Len(new.order) : new.order[i] = x
         /\ ToSet(new.order) \subseteq DOMAIN new.nodes
<1>1. /\ Len(new.order) \in Nat /\ DOMAIN new.order = 1..Len(new.order)
      /\ \A i \in 1..Len(new.order) : new.order[i] \in DOMAIN NodesOf(v)
  BY OrderIs
<1>2. DOMAIN new.nodes = DOMAIN NodesOf(v) /\ Nothing \notin DOMAIN NodesOf(v)
  BY GraphIs, TreesAre
<1>3. ToSet(new.order) = {new.order[i] : i \in 1..Len(new.order)}
  BY <1>1 DEF ToSet
<1> QED BY <1>1, <1>2, <1>3

\* The documents of a graph among some objects.
DocumentsAmong(g, objects) == {x \in ToSet(g.order) : x \in objects /\ g.nodes[x].role \in Documents}

\* The best document is a document among the objects, if the order has one.
LEMMA BestDocumentIs ==
  ASSUME NEW v \in DOMAIN Trees, NEW new, new = Graphs[v], NEW objects
  PROVE  /\ DocumentsAmong(new, objects) # {} => BestDocument(new, objects) \in DocumentsAmong(new, objects)
         /\ DocumentsAmong(new, objects) = {} => BestDocument(new, objects) = Nothing
<1> DEFINE places == Places(new, {x \in objects : new.nodes[x].role \in Documents})
           Priority(i) == DocumentPriority(new.nodes[new.order[i]])
           best == {i \in places : \A j \in places : Priority(j) <= Priority(i)}
<1> PICK documents : documents = DocumentsAmong(new, objects)
  OBVIOUS
<1>1. BestDocument(new, objects) = IF best = {} THEN Nothing ELSE new.order[Max(best)]
  BY DEF BestDocument
<1>2. places = {i \in 1..Len(new.order) : new.order[i] \in documents}
  BY OrderedIs DEF Places, DocumentsAmong
<1>3. documents # {} => places # {}
  <2> SUFFICES ASSUME NEW x \in documents PROVE places # {}
    OBVIOUS
  <2>1. x \in ToSet(new.order)
    BY DEF DocumentsAmong
  <2>2. PICK i \in 1..Len(new.order) : new.order[i] = x
    BY <2>1, OrderedIs, ZenonT(40)
  <2> QED BY <1>2, <2>2
<1>4. \A i : Priority(i) \in 0..3
  BY DEF DocumentPriority
<1> PICK P : P = places
  OBVIOUS
<1>5. P # {} => best # {}
  <2> SUFFICES ASSUME P # {} PROVE best # {}
    OBVIOUS
  <2> HIDE DEF places
  <2> DEFINE ranks == {Priority(i) : i \in P}
  <2>1. ranks \subseteq Nat /\ ranks # {} /\ \A r \in ranks : r <= 3
    <3> HIDE DEF Priority
    <3> QED BY <1>4
  <2>2. PICK m \in ranks : \A r \in ranks : r <= m
    <3> HIDE DEF ranks
    <3> QED BY <2>1, MaxOfSome
  <2>3. PICK i \in P : Priority(i) = m
    BY <2>2
  <2>4. \A j \in P : Priority(j) <= Priority(i)
    <3> HIDE DEF Priority
    <3> QED BY <2>2, <2>3
  <2>5. i \in best
    BY <2>4
  <2> QED BY <2>5
<1>6. best \subseteq P
  OBVIOUS
<1>7. best # {} => Max(best) \in best
  <2>1. best \subseteq 1..Len(new.order) /\ Len(new.order) \in Nat
    BY <1>2, OrderedIs
  <2> HIDE DEF best
  <2>2. best \subseteq Nat /\ \A i \in best : i <= Len(new.order)
    BY <2>1
  <2> QED BY <2>1, <2>2, MaxOfSome
<1> HIDE DEF best
<1>8. documents # {} => BestDocument(new, objects) \in documents
  BY <1>1, <1>2, <1>3, <1>5, <1>6, <1>7
<1>9. documents = {} => BestDocument(new, objects) = Nothing
  BY <1>1, <1>2, <1>6
<1> QED BY <1>8, <1>9

\* The start is an object of the page.
LEMMA InitialCursorIs ==
  ASSUME NEW v \in DOMAIN Trees, NEW new, new = Graphs[v]
  PROVE  InitialCursor(new) \in DOMAIN new.nodes
<1> PICK document : document = BestDocument(new, DOMAIN new.nodes)
  OBVIOUS
<1>1. InitialCursor(new) = IF document # Nothing THEN document
                           ELSE IF new.order # <<>> THEN Head(new.order) ELSE new.root
  BY DEF InitialCursor
<1>2. document # Nothing => document \in DOMAIN new.nodes
  <2> PICK objects : objects = DOMAIN new.nodes
    OBVIOUS
  <2>1. document = Nothing \/ document \in DocumentsAmong(new, objects)
    BY BestDocumentIs
  <2> QED BY <2>1, OrderedIs DEF DocumentsAmong
<1>3. new.order # <<>> => Head(new.order) \in DOMAIN new.nodes
  <2>1. new.order \in Seq(DOMAIN new.nodes)
    BY OrderIsSequence, OrderedIs
  <2> QED BY <2>1
<1>4. new.root \in DOMAIN new.nodes
  BY RootIs
<1> QED BY <1>1, <1>2, <1>3, <1>4

\* The documents of the new graph with the name of the document of an object ...
Namesakes(new, o) ==
  {x \in ToSet(new.order) : /\ DocumentRoot(graph, o) # Nothing /\ new.nodes[x].role \in Documents
                            /\ new.nodes[x].name = NodeOf(DocumentRoot(graph, o)).name}

\* ... and the objects in them that are the same.
Alike(new, o) ==
  {x \in ToSet(new.order) : /\ DocumentRoot(new, x) \in Namesakes(new, o)
                            /\ SameSemanticNode(NodeOf(o), new.nodes[x])}

LEMMA FiniteOrder ==
  ASSUME NEW v \in DOMAIN Trees
  PROVE  IsFiniteSet(ToSet(Graphs[v].order))
BY OrderedIs, TreesAre, FS_Subset

\* Where a cursor goes whose object is gone.
LEMMA RemapIs ==
  ASSUME Types, NEW v \in DOMAIN Trees, NEW new, new = Graphs[v], NEW o
  PROVE  /\ RemapCursor(graph, new, o) \in DOMAIN new.nodes
         /\ IF Namesakes(new, o) # {} THEN RemapCursor(graph, new, o) \in Namesakes(new, o) \cup Alike(new, o)
                                      ELSE RemapCursor(graph, new, o) = InitialCursor(new)
         /\ o # DocumentRoot(graph, o) /\ Cardinality(Namesakes(new, o)) = 1 /\ Cardinality(Alike(new, o)) = 1 =>
              RemapCursor(graph, new, o) \in Alike(new, o)
<1> PICK document : document = DocumentRoot(graph, o)
  OBVIOUS
<1> PICK found : found = IF document = Nothing THEN Nothing
                         ELSE MatchingDocument(new, graph.nodes[document])
  OBVIOUS
<1> PICK candidates : candidates = PlacesIn(new, found, Same(graph, new, o))
  OBVIOUS
<1> PICK namesakes, alike : namesakes = Namesakes(new, o) /\ alike = Alike(new, o)
  OBVIOUS
<1>1. RemapCursor(graph, new, o) =
        IF found = Nothing THEN InitialCursor(new)
        ELSE IF o # document /\ Cardinality(candidates) = 1
          THEN new.order[CHOOSE i \in candidates : TRUE]
          ELSE found
  BY DEF RemapCursor
<1>2. /\ namesakes # {} => found \in namesakes
      /\ namesakes = {} => found = Nothing
  <2>1. CASE document = Nothing
    BY <2>1 DEF Namesakes
  <2>2. CASE document # Nothing
    <3> PICK objects : objects = {x \in DOMAIN new.nodes : new.nodes[x].name = graph.nodes[document].name}
      OBVIOUS
    <3>1. found = BestDocument(new, objects)
      BY <2>2 DEF MatchingDocument
    <3>2. namesakes = DocumentsAmong(new, objects)
      BY <2>2, OrderedIs DEF Namesakes, NodeOf, DocumentsAmong
    <3> QED BY <3>1, <3>2, BestDocumentIs
  <2> QED BY <2>1, <2>2
<1>3. namesakes \subseteq ToSet(new.order) /\ alike \subseteq ToSet(new.order)
  BY DEF Namesakes, Alike
<1>4. candidates = {i \in 1..Len(new.order) :
        /\ new.order[i] \in DOMAIN new.nodes /\ SameSemanticNode(NodeOf(o), new.nodes[new.order[i]])
        /\ found # Nothing /\ DocumentRoot(new, new.order[i]) = found}
  BY DEF PlacesIn, Places, Same, InDocument, NodeOf
<1>5. ASSUME NEW i \in candidates PROVE new.order[i] \in alike
  <2>1. i \in 1..Len(new.order) /\ new.order[i] \in ToSet(new.order)
    BY <1>4, OrderedIs
  <2>2. DocumentRoot(new, new.order[i]) \in namesakes
    BY <1>2, <1>4
  <2> QED BY <1>4, <2>1, <2>2 DEF Alike
<1>6. Cardinality(candidates) = 1 => (CHOOSE i \in candidates : TRUE) \in candidates
  <2>1. Cardinality({}) = 0
    BY FS_EmptySet
  <2> QED BY <2>1
<1> PICK r : r = RemapCursor(graph, new, o)
  OBVIOUS
<1>7. CASE found = Nothing
  <2>1. namesakes = {} /\ r = InitialCursor(new)
    BY <1>1, <1>2, <1>3, <1>7, OrderedIs, ZenonT(40)
  <2>2. Cardinality({}) = 0
    BY FS_EmptySet
  <2> QED BY <2>1, <2>2, InitialCursorIs
<1>8. CASE found # Nothing
  <2>1. namesakes # {} /\ found \in namesakes
    BY <1>2, <1>8
  <2>2. r \in alike \/ r = found
    BY <1>1, <1>5, <1>6, <1>8
  <2>3. r \in DOMAIN new.nodes
    BY <1>3, <2>1, <2>2, OrderedIs
  <2>4. ASSUME o # document, Cardinality(namesakes) = 1, Cardinality(alike) = 1 PROVE r \in alike
    <3>1. PICK x : alike = {x}
      <4>1. IsFiniteSet(alike)
        BY <1>3, FiniteOrder, FS_Subset
      <4> QED BY <2>4, <4>1, FS_Singleton
    <3>2. namesakes = {found}
      <4>1. IsFiniteSet(namesakes)
        BY <1>3, FiniteOrder, FS_Subset
      <4> QED BY <2>1, <2>4, <4>1, FS_Singleton
    <3>3. x \in ToSet(new.order) /\ DocumentRoot(new, x) = found /\ SameSemanticNode(NodeOf(o), new.nodes[x])
      BY <3>1, <3>2 DEF Alike
    <3>4. PICK i \in 1..Len(new.order) : new.order[i] = x
      BY <3>3, OrderedIs
    <3>5. i \in candidates
      BY <1>4, <1>8, <3>3, <3>4, OrderedIs
    <3>6. candidates = {i}
      <4>1. \A j \in candidates : j \in 1..Len(new.order) /\ new.order[j] = x
        BY <1>4, <1>5, <3>1
      <4>2. \A j, k \in 1..Len(new.order) : new.order[j] = new.order[k] => j = k
        BY OrderIs
      <4> QED BY <3>4, <3>5, <4>1, <4>2, ZenonT(40)
    <3>7. Cardinality(candidates) = 1
      BY <3>6, FS_Singleton
    <3> QED BY <1>1, <1>5, <1>6, <1>8, <2>4, <3>7
  <2> QED BY <2>1, <2>2, <2>3, <2>4
<1> QED BY <1>7, <1>8

\* What RefreshKeepsPlace says of a step.
KeepsPlace ==
  last' = "refresh" =>
    LET new == graph'
        old == DocumentRoot(graph, cursor.object)
        namesakes == {x \in ToSet(new.order) :
                        /\ old # Nothing /\ new.nodes[x].role \in Documents
                        /\ new.nodes[x].name = NodeOf(old).name}
        same == {o \in ToSet(new.order) : /\ DocumentRoot(new, o) \in namesakes
                                          /\ SameSemanticNode(NodeOf(cursor.object), new.nodes[o])}
    IN /\ {cursor'.object, navigator', review'.object} \subseteq DOMAIN new.nodes
       /\ Has(new, cursor.object) => cursor' = cursor
       /\ ~Has(new, cursor.object) =>
            /\ cursor'.offset = 0
            /\ IF namesakes # {} THEN cursor'.object \in namesakes \cup same
                                 ELSE cursor'.object = InitialCursor(new)
            /\ cursor.object # old /\ Cardinality(namesakes) = 1 /\ Cardinality(same) = 1 =>
                 cursor'.object \in same

\* A refresh.
LEMMA RefreshKeepsIt ==
  ASSUME Types, NEW v \in workload.trees, Refresh(v)
  PROVE  KeepsPlace
<1> PICK new : new = Graphs[v]
  OBVIOUS
<1> DEFINE Carried(o) == IF Has(new, o) THEN o ELSE RemapCursor(graph, new, o)
<1>1. graph' = new /\ v \in DOMAIN Trees
  BY WorkloadIs DEF Refresh
<1>2. /\ cursor' = (IF Has(new, cursor.object) THEN cursor ELSE Start(Carried(cursor.object)))
      /\ navigator' = Carried(navigator)
      /\ review' = IF Has(new, navigator) /\ Has(new, review.object) THEN review
                   ELSE ReviewStart(Carried(navigator))
  BY <1>1 DEF Refresh, Refreshed
<1>3. \A o : Carried(o) \in DOMAIN new.nodes
  BY <1>1, RemapIs DEF Has
<1>4. ~Has(new, cursor.object) => Carried(cursor.object) = RemapCursor(graph, new, cursor.object)
  OBVIOUS
<1> HIDE DEF Carried
<1>5. \A o : ReviewStart(o).object = o
  BY DEF ReviewStart
<1>6. {cursor'.object, navigator', review'.object} \subseteq DOMAIN new.nodes
  BY <1>2, <1>3, <1>5, StartIs DEF Has
<1> PICK o, r : o = cursor.object /\ r = RemapCursor(graph, new, o)
  OBVIOUS
<1> PICK namesakes, same : namesakes = Namesakes(new, o) /\ same = Alike(new, o)
  OBVIOUS
<1>7. /\ IF namesakes # {} THEN r \in namesakes \cup same ELSE r = InitialCursor(new)
      /\ o # DocumentRoot(graph, o) /\ Cardinality(namesakes) = 1 /\ Cardinality(same) = 1 => r \in same
  BY <1>1, RemapIs
<1>8. ~Has(new, o) => cursor'.object = r /\ cursor'.offset = 0
  BY <1>2, <1>4, StartIs
<1>9. Has(new, o) => cursor' = cursor
  BY <1>2
<1>10. namesakes = {x \in ToSet(new.order) :
                      /\ DocumentRoot(graph, o) # Nothing /\ new.nodes[x].role \in Documents
                      /\ new.nodes[x].name = NodeOf(DocumentRoot(graph, o)).name}
  BY DEF Namesakes
<1>11. same = {x \in ToSet(new.order) : /\ DocumentRoot(new, x) \in namesakes
                                        /\ SameSemanticNode(NodeOf(o), new.nodes[x])}
  BY DEF Alike
<1>12. DocumentRoot(graph', o) = DocumentRoot(new, o) 
  BY <1>1
<1> QED BY <1>1, <1>6, <1>7, <1>8, <1>9, <1>10, <1>11, Zenon DEF KeepsPlace

-----------------------------------------------------------------------------
(* The theorems *)

\* What is searched for is a text.
Inv == Types /\ findQuery \in Seq(STRING)

\* Inv holds at the start and in every step, which also does what the properties ask of it.
LEMMA InvInit == Init => Inv
<1> SUFFICES ASSUME Init PROVE Inv
  OBVIOUS
<1>1. version \in DOMAIN Trees
  BY WorkloadAssumption DEF Init
<1>2. cursor.offset = 0 /\ copyStart.offset = 0
  BY StartIs DEF Init
<1>3. review.offset = 0 /\ brailleOffset = 0 /\ findQuery = <<>>
  BY DEF Init
<1> QED BY <1>1, <1>2, <1>3 DEF Init, Inv, Types

LEMMA BrowseQuery ==
  ASSUME NEW found, NEW how, Browse(found, how)
  PROVE  findQuery' = findQuery
BY DEF Browse

LEMMA TextCommandKept ==
  ASSUME Inv, TextCommand
  PROVE  Kept /\ findQuery' = findQuery
<1>1. Types
  BY DEF Inv
<1>2. ASSUME NEW unit \in {"character", "word", "line", "paragraph"}, NEW d \in Directions, MoveText(unit, d)
      PROVE  Kept /\ \E found, how : Browse(found, how)
  <2>1. d \in {-1, 1}
    BY DirectionsAre
  <2>2. \E found, how : Browse(found, how)
    <3>1. MoveParagraph(d) \/ MoveLine(d) \/ MoveUnit(d, unit)
      BY <1>2 DEF MoveText
    <3>2. MoveUnit(d, unit) => \E found, how : Browse(found, how)
      BY Zenon DEF MoveUnit
    <3> QED BY <3>1, <3>2 DEF MoveParagraph, MoveLine
  <2> QED BY <1>1, <1>2, <2>1, <2>2, MoveTextKept
<1>3. CASE DocumentStart
  <2>1. \E found, how : Browse(found, how)
    BY <1>3, Zenon DEF DocumentStart
  <2> QED BY <1>1, <1>3, <2>1, DocumentStartKept, BrowseQuery
<1>4. CASE DocumentEnd
  <2>1. \E found, how : Browse(found, how)
    BY <1>4, Zenon DEF DocumentEnd
  <2> QED BY <1>1, <1>4, <2>1, DocumentEndKept, BrowseQuery
<1> QED BY <1>2, <1>3, <1>4, BrowseQuery DEF TextCommand

LEMMA OtherBrowseCommandKept ==
  ASSUME Inv, QuickNavigation \/ ContainerCommand \/ TableCommand
  PROVE  Kept /\ findQuery' = findQuery
<1>1. Types
  BY DEF Inv
<1>2. ASSUME NEW target, NEW d \in Directions, Navigate(target, d) PROVE Kept /\ findQuery' = findQuery
  <2>1. \E found, how : Browse(found, how)
    BY <1>2, Zenon DEF Navigate
  <2> QED BY <1>1, <1>2, <2>1, NavigateKept, BrowseQuery
<1>3. CASE MoveToContainerStart
  <2>1. \E found, how : Browse(found, how)
    BY <1>3, Zenon DEF MoveToContainerStart
  <2> QED BY <1>1, <1>3, <2>1, ContainerStartKept, BrowseQuery
<1>4. CASE MovePastContainerEnd
  <2>1. \E found, how : Browse(found, how)
    BY <1>4, Zenon DEF MovePastContainerEnd
  <2> QED BY <1>1, <1>4, <2>1, PastContainerEndKept, BrowseQuery
<1>5. ASSUME NEW axis, NEW d, NEW toEdge, NavigateTable(axis, d, toEdge) PROVE Kept /\ findQuery' = findQuery
  <2>1. \E found, how : Browse(found, how)
    BY <1>5, SMTT(40) DEF NavigateTable
  <2> QED BY <1>1, <1>5, <2>1, NavigateTableKept, BrowseQuery
<1>6. ASSUME NEW axis, SayAllTable(axis) PROVE Kept /\ findQuery' = findQuery
  <2>1. \E found, how : Browse(found, how)
    BY <1>6, Zenon DEF SayAllTable
  <2> QED BY <1>1, <1>6, <2>1, SayAllTableKept, BrowseQuery
<1> QED BY <1>2, <1>3, <1>4, <1>5, <1>6 DEF QuickNavigation, ContainerCommand, TableCommand

LEMMA FindCommandKept ==
  ASSUME Inv, FindCommand
  PROVE  Kept /\ findQuery' \in Seq(STRING)
<1>1. Types /\ findQuery \in Seq(STRING)
  BY DEF Inv
<1>2. ASSUME NEW query \in workload.queries, Find(query) PROVE Kept /\ findQuery' \in Seq(STRING)
  <2>1. query \in Seq(STRING)
    BY <1>1, WorkloadIs
  <2>2. findQuery' = query
    BY <1>2 DEF Find
  <2>3. Kept
    BY <1>1, <1>2, <2>1, FindKept
  <2> QED BY <2>1, <2>2, <2>3
<1>3. ASSUME NEW d \in Directions, FindAgain(d) PROVE Kept /\ findQuery' \in Seq(STRING)
  <2>1. findQuery' = findQuery
    BY <1>3 DEF FindAgain
  <2>2. Kept
    BY <1>1, <1>3, DirectionsAre, FindAgainKept
  <2> QED BY <1>1, <2>1, <2>2
<1> QED BY <1>2, <1>3 DEF FindCommand

LEMMA OtherKept ==
  ASSUME Types' /\ StaysInText /\ ReviewAdvances, last' \notin BrowseSteps
  PROVE  Kept
BY NotBrowsing DEF Kept

LEMMA NextKept ==
  ASSUME Inv, Next
  PROVE  Kept /\ Inv'
<1>1. Types /\ findQuery \in Seq(STRING)
  BY DEF Inv
<1>2. SUFFICES Kept /\ findQuery' \in Seq(STRING)
  BY DEF Inv, Kept
<1>3. ASSUME NEW v \in workload.trees, Refresh(v) PROVE Kept /\ findQuery' \in Seq(STRING)
  BY <1>1, <1>3, RefreshKept
<1>4. CASE FocusEvent
  <2>1. PICK o \in workload.objects :
          \/ \E v, w \in workload.trees : HandleFocus(o, v, w)
          \/ HandleDocument(o)
    BY <1>4 DEF FocusEvent
  <2>2. ASSUME NEW v \in workload.trees, NEW w \in workload.trees, HandleFocus(o, v, w)
        PROVE  Kept /\ findQuery' = findQuery
    BY <1>1, <2>2, HandleFocusKept
  <2>3. CASE HandleDocument(o)
    BY <1>1, <2>3, HandleDocumentKept
  <2> QED BY <1>1, <2>1, <2>2, <2>3
<1>5. CASE QuickNavigation \/ ContainerCommand \/ TableCommand
  BY <1>1, <1>5, OtherBrowseCommandKept
<1>6. CASE TextCommand
  BY <1>1, <1>6, TextCommandKept
<1>7. CASE FindCommand
  BY <1>7, FindCommandKept
<1>8. CASE ExitEmbeddedObject
  BY <1>1, <1>8, ExitEmbeddedObjectKept
<1>9. CASE LeaveEmbeddedObject
  BY <1>1, <1>9, LeaveEmbeddedObjectKept
<1>10. CASE ReviewCommand
  BY <1>1, <1>10, ReviewCommandStays, ReviewCommandNames, OtherKept
<1>11. CASE CopyCommand
  BY <1>1, <1>11, CopyCommandStays, ReviewCommandNames, OtherKept
<1>12. CASE ReviewModeCommand
  <2>1. \E d : SwitchReviewMode(d)
    BY <1>12 DEF ReviewModeCommand
  <2> QED BY <1>1, <1>12, <2>1, ReviewModeStays, ReviewCommandNames, OtherKept
<1>13. CASE ModeCommands
  <2>1. \E set, letter : ModeCommand(set, letter)
    BY <1>13 DEF ModeCommands, Escape, ToggleFocusMode, ToggleSingleLetterNavigation
  <2> QED BY <1>1, <1>13, <2>1, ModeCommandStays, OtherCommandNames, OtherKept
<1>14. CASE ObjectCommands
  <2>1. \E to, d : ObjectCommand(to, d)
    BY <1>14 DEF ObjectCommands
  <2> QED BY <1>1, <1>14, <2>1, ObjectCommandStays, OtherCommandNames, OtherKept
<1>15. CASE MouseCommand
  BY <1>1, <1>15, MouseCommandStays, OtherCommandNames, OtherKept
<1>16. CASE BrailleCommand
  BY <1>1, <1>16, BrailleCommandStays, OtherCommandNames, OtherKept
<1> QED BY <1>3, <1>4, <1>5, <1>6, <1>7, <1>8, <1>9, <1>10, <1>11, <1>12, <1>13, <1>14,
           <1>15, <1>16 DEF Next

\* What the commands of the browse cursor leave in last.
LEMMA BrowseCommandNames ==
  ASSUME QuickNavigation \/ TextCommand \/ ContainerCommand \/ TableCommand \/ FindCommand
  PROVE  last' # "refresh"
<1>1. ASSUME NEW found, NEW how, Browse(found, how), how # "refresh" PROVE last' # "refresh"
  BY <1>1 DEF Browse
<1>2. \A d : Direction(d) # "refresh"
  BY DEF Direction
<1>3. CASE QuickNavigation
  <2>1. \E target, d, found, x : Browse(found, IF target = "table" /\ d < 0 THEN "within" ELSE Direction(d))
    BY <1>3, Zenon DEF QuickNavigation, Navigate
  <2> QED BY <1>1, <1>2, <2>1
<1>4. CASE TextCommand
  <2>1. ASSUME NEW unit, NEW d, MoveText(unit, d) PROVE last' # "refresh"
    <3>1. MoveParagraph(d) \/ MoveLine(d) \/ MoveUnit(d, unit)
      BY <2>1 DEF MoveText
    <3>2. MoveUnit(d, unit) => \E found : Browse(found, Direction(d))
      BY Zenon DEF MoveUnit
    <3>3. MoveParagraph(d) => \E found : Browse(found, Direction(d))
      BY Zenon DEF MoveParagraph
    <3>4. MoveLine(d) => \E found : Browse(found, IF d > 0 THEN "nextLine" ELSE "previousLine")
      BY Zenon DEF MoveLine
    <3> QED BY <1>1, <1>2, <3>1, <3>2, <3>3, <3>4
  <2>2. DocumentStart \/ DocumentEnd => \E found : Browse(found, "within")
    BY Zenon DEF DocumentStart, DocumentEnd
  <2> QED BY <1>1, <1>4, <2>1, <2>2 DEF TextCommand
<1>5. CASE ContainerCommand
  <2>1. \E found : Browse(found, "around") \/ Browse(found, "past")
    BY <1>5, Zenon DEF ContainerCommand, MoveToContainerStart, MovePastContainerEnd
  <2> QED BY <1>1, <2>1
<1>6. CASE TableCommand
  <2>1. ASSUME NEW axis, NEW d, NEW toEdge, NavigateTable(axis, d, toEdge)
        PROVE  \E found : Browse(found, "around")
    BY <2>1, SMTT(40) DEF NavigateTable
  <2>2. ASSUME NEW axis, SayAllTable(axis) PROVE \E found : Browse(found, "around")
    BY <2>2, Zenon DEF SayAllTable
  <2> QED BY <1>1, <1>6, <2>1, <2>2 DEF TableCommand
<1>7. CASE FindCommand
  <2>1. ASSUME NEW query, NEW d, NEW include, NEW how, FindFrom(query, d, include, how), how # "refresh"
        PROVE  last' # "refresh"
    <3>1. last' = "boundary" \/ last' = how
      BY <2>1, Zenon DEF FindFrom
    <3> QED BY <2>1, <3>1
  <2>2. ASSUME NEW query, Find(query) PROVE FindFrom(query, 1, TRUE, "within")
    BY <2>2 DEF Find
  <2>3. ASSUME NEW d, FindAgain(d) PROVE FindFrom(findQuery, d, FALSE, Direction(d))
    BY <2>3 DEF FindAgain
  <2>4. ASSUME NEW query, Find(query) PROVE last' # "refresh"
    <3>1. FindFrom(query, 1, TRUE, "within")
      BY <2>2, <2>4
    <3> QED BY <2>1, <3>1
  <2>5. ASSUME NEW d, FindAgain(d) PROVE last' # "refresh"
    <3> PICK how : how = Direction(d)
      OBVIOUS
    <3>1. FindFrom(findQuery, d, FALSE, how) /\ how # "refresh"
      BY <1>2, <2>3, <2>5
    <3> QED BY <2>1, <3>1
  <2> QED BY <1>7, <2>4, <2>5 DEF FindCommand
<1> QED BY <1>3, <1>4, <1>5, <1>6, <1>7

LEMMA BrowseCommandStays ==
  ASSUME Inv, QuickNavigation \/ TextCommand \/ ContainerCommand \/ TableCommand \/ FindCommand
  PROVE  StaysInDocument
<1>1. Types /\ findQuery \in Seq(STRING)
  BY DEF Inv
<1>2. CASE QuickNavigation
  BY <1>1, <1>2, NavigateStays DEF QuickNavigation
<1>3. CASE TextCommand
  <2>1. ASSUME NEW unit \in {"character", "word", "line", "paragraph"}, NEW d \in Directions, MoveText(unit, d)
        PROVE  StaysInDocument
    BY <1>1, <2>1, DirectionsAre, MoveTextStays
  <2> QED BY <1>1, <1>3, <2>1, DocumentStartStays, DocumentEndStays DEF TextCommand
<1>4. CASE ContainerCommand
  BY <1>1, <1>4, ContainerStartStays, PastContainerEndStays DEF ContainerCommand
<1>5. CASE TableCommand
  BY <1>1, <1>5, NavigateTableStays, SayAllTableStays DEF TableCommand
<1>6. CASE FindCommand
  <2>1. ASSUME NEW query \in workload.queries, Find(query) PROVE StaysInDocument
    <3>1. FindFrom(query, 1, TRUE, "within")
      BY <2>1 DEF Find
    <3>2. 1 \in {-1, 1} /\ TRUE \in BOOLEAN /\ Len(query) \in Nat
      BY <1>1, WorkloadIs
    <3> QED BY <1>1, <3>1, <3>2, FindStays
  <2>2. ASSUME NEW d \in Directions, FindAgain(d) PROVE StaysInDocument
    <3>1. FindFrom(findQuery, d, FALSE, Direction(d))
      BY <2>2 DEF FindAgain
    <3>2. d \in {-1, 1} /\ FALSE \in BOOLEAN /\ Len(findQuery) \in Nat
      BY <1>1, DirectionsAre
    <3> QED BY <1>1, <3>1, <3>2, FindStays
  <2> QED BY <1>6, <2>1, <2>2 DEF FindCommand
<1> QED BY <1>2, <1>3, <1>4, <1>5, <1>6

\* The other steps leave the browse cursor where it is, or are not commands of it.
LEMMA NextStays ==
  ASSUME Inv, Next
  PROVE  StaysInDocument /\ KeepsPlace
<1>1. Types
  BY DEF Inv
<1>2. last' # "refresh" => KeepsPlace
  BY DEF KeepsPlace
<1>3. ASSUME NEW v \in workload.trees, Refresh(v) PROVE StaysInDocument /\ KeepsPlace
  <2>1. last' \notin BrowseMoves
    BY <1>3 DEF Refresh, BrowseMoves
  <2> QED BY <1>1, <1>3, <2>1, OtherStays, RefreshKeepsIt
<1>4. CASE FocusEvent \/ ExitEmbeddedObject \/ LeaveEmbeddedObject
  <2>1. last' \in {"focus", "other", "leave"}
    <3>1. CASE FocusEvent
      BY <3>1, Zenon DEF FocusEvent, HandleFocus, HandleDocument
    <3>2. CASE ExitEmbeddedObject \/ LeaveEmbeddedObject
      BY <3>2 DEF ExitEmbeddedObject, LeaveEmbeddedObject
    <3> QED BY <1>4, <3>1, <3>2
  <2>2. last' # "refresh" /\ last' \notin BrowseMoves
    BY <2>1 DEF BrowseMoves
  <2> QED BY <1>2, <2>2, OtherStays
<1>5. CASE QuickNavigation \/ TextCommand \/ ContainerCommand \/ TableCommand \/ FindCommand
  BY <1>2, <1>5, BrowseCommandStays, BrowseCommandNames
<1>6. CASE ReviewCommand \/ CopyCommand \/ ReviewModeCommand
  <2>1. last' # "refresh" /\ cursor' = cursor
    BY <1>6, ReviewCommandNames
  <2> QED BY <1>2, <2>1, CursorStays
<1>7. CASE ModeCommands \/ ObjectCommands \/ MouseCommand \/ BrailleCommand
  <2>1. last' # "refresh" /\ last' \notin BrowseMoves
    BY <1>7, OtherCommandNames
  <2> QED BY <1>2, <2>1, OtherStays
<1> QED BY <1>3, <1>4, <1>5, <1>6, <1>7 DEF Next

LEMMA StutterInv ==
  ASSUME Inv, UNCHANGED vars
  PROVE  Inv'
BY DEF Inv, Types, vars, graphVars, browseVars, reviewVars

\* The graph is always that of a tree the page had, and every offset is a natural number.
THEOREM TypesCorrect == Spec => []Inv
<1>1. Inv /\ [Next]_vars => Inv'
  BY NextKept, StutterInv
<1> QED BY InvInit, <1>1, PTL DEF Spec

\* A review or braille command leaves the review cursor in the text it reads, and a copied
\* range lies in it.
THEOREM ReviewInTextCorrect == Spec => ReviewInText
<1>1. Inv /\ [Next]_vars => [StaysInText]_vars
  BY NextKept DEF Kept
<1>2. [StaysInText]_vars => [last' \in {"review", "reviewNext", "reviewPrevious"} =>
       LET text == NodeOf(review'.object).readable
       IN /\ text # <<>> => InText(review'.offset, text)
          /\ selection' \notin {selection, NoSelection} =>
               /\ selection'.object = review'.object
               /\ 0 <= selection'.start /\ selection'.start <= selection'.end
               /\ selection'.end <= Len(text)]_vars
  BY DEF StaysInText
<1> QED BY TypesCorrect, <1>1, <1>2, PTL DEF Spec, ReviewInText

\* Repeating a command that moves forward or backward neither stays nor comes back.
THEOREM CursorsAdvanceCorrect == Spec => CursorsAdvance
<1> DEFINE A ==
     /\ Place(cursor) # 0 =>
          /\ last' = "next" => Beyond(1, cursor, cursor')
          /\ last' = "previous" => Beyond(-1, cursor, cursor')
          /\ last' = "past" /\ Index(graph, Containing(graph, cursor.object, Containers)) # 0 =>
               Beyond(1, cursor, cursor')
          /\ ~InsideLine(cursor.object) =>
               /\ last' = "nextLine" => Beyond(1, cursor, cursor')
               /\ last' = "previousLine" => Beyond(-1, cursor, cursor')
     /\ \A place \in Reviewed :
          /\ last' = "reviewNext" => review'.offset > place.offset
          /\ last' = "reviewPrevious" => review'.offset < place.offset
<1>1. Inv /\ [Next]_vars => [A]_vars
  <2>1. BrowseAdvances /\ ReviewAdvances => A
    BY Zenon DEF BrowseAdvances, Advances, ReviewAdvances
  <2> HIDE DEF A
  <2> QED BY <2>1, NextKept DEF Kept
<1> QED BY TypesCorrect, <1>1, PTL DEF Spec, CursorsAdvance

\* A refresh leaves every cursor on the new page, and the browse cursor at the object it was
\* at, at the one that is the same, at its document or at the start.
THEOREM RefreshCorrect == Spec => RefreshKeepsPlace
<1>1. Inv /\ [Next]_vars => [KeepsPlace]_vars
  BY NextStays
<1> QED BY TypesCorrect, <1>1, PTL DEF Spec, RefreshKeepsPlace, KeepsPlace

\* A browse command leaves the cursor in the document it was in.
THEOREM StaysCorrect == Spec => BrowseStaysInDocument
<1>1. Inv /\ [Next]_vars => [StaysInDocument]_vars
  BY NextStays
<1> QED BY TypesCorrect, <1>1, PTL DEF Spec, BrowseStaysInDocument, StaysInDocument
=============================================================================
