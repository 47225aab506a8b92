--------------------------- MODULE LiveRegionsProofs ---------------------------
(***************************************************************************)
(* What holds of live regions for every page that is not too deep, every   *)
(* change of it, every order of its signals, and every traversal missing   *)
(* an insertion: the secrets of what the graph holds are never spoken,     *)
(* only regions speak, an atomic region that can be told is spoken whole,  *)
(* and where additions alone matter an edit of what the graph holds is     *)
(* quiet.                                                                  *)
(*                                                                         *)
(* Paths up and readings are functions that are defined by recursion; the  *)
(* first section gives the two facts about those that the rest needs.      *)
(***************************************************************************)
EXTENDS LiveRegions, WellFoundedInduction, TLAPS

-----------------------------------------------------------------------------
(* Natural numbers, and functions that are defined by recursion on them *)

\* The order of the natural numbers is well-founded, as a relation.
LEMMA LessThan ==
  \E R : IsWellFoundedOn(R, Nat) /\ \A x, y \in Nat : <<y, x>> \in R <=> y < x
<1>1. IsWellFoundedOn(OpToRel(<,Nat), Nat) BY NatLessThanWellFounded, Zenon
<1>2. \A x, y \in Nat : <<y, x>> \in OpToRel(<,Nat) <=> y < x
  BY DEF OpToRel
<1> HIDE DEF IsWellFoundedOn, OpToRel
<1> QED BY <1>1, <1>2, Zenon

\* Every set of natural numbers has a least one.
LEMMA LeastNat ==
  ASSUME NEW T, T \subseteq Nat, T # {}
  PROVE  \E x \in T : \A y \in T : x <= y
<1> HIDE DEF IsWellFoundedOn, OpToRel
<1>0. PICK R : IsWellFoundedOn(R, Nat) /\ \A x, y \in Nat : <<y, x>> \in R <=> y < x
  BY LessThan, Zenon
<1>1. \E x \in T : \A y \in T : ~ (<<y, x>> \in R)
  BY <1>0, WFMin
<1>2. PICK x \in T : \A y \in T : ~ (<<y, x>> \in R) BY <1>1
<1>3. ASSUME NEW y \in T PROVE x <= y
  <2>1. x \in Nat /\ y \in Nat OBVIOUS
  <2>2. ~(y < x) BY <2>1, <1>2, <1>0
  <2> QED BY <2>1, <2>2
<1> QED BY <1>3

\* Induction, over a set instead of a predicate.
LEMMA InductionOver ==
  ASSUME NEW P, 0 \in P, \A n \in Nat : n \in P => n + 1 \in P
  PROVE  Nat \subseteq P
<1> SUFFICES ASSUME ~(Nat \subseteq P) PROVE FALSE OBVIOUS
<1> DEFINE T == {n \in Nat : n \notin P}
<1>1. PICK x \in T : \A y \in T : x <= y BY LeastNat
<1>2. x # 0 BY <1>1
<1>3. x - 1 \in Nat /\ x - 1 \notin T BY <1>1, <1>2
<1>4. x - 1 \in P /\ (x-1)+1 = x BY <1>3, <1>1
<1>5. x \in P BY <1>3, <1>4
<1> QED BY <1>1, <1>5

LEMMA MinOfSome ==
  ASSUME NEW T, T \subseteq Nat, T # {}
  PROVE  Min(T) \in T /\ \A y \in T : Min(T) <= y
<1>1. PICK x \in T : \A y \in T : x <= y
  BY LeastNat
<1> QED
  BY <1>1 DEF Min

\* A set of natural numbers that has a bound has a greatest one.
LEMMA MaxOfSome ==
  ASSUME NEW n \in Nat, NEW T, T \subseteq 1..n, T # {}
  PROVE  Max(T) \in T
<1> DEFINE D == {n - y : y \in T}
<1>1. D \subseteq Nat /\ D # {}
  <2>1. \A y \in T : n - y \in Nat
    OBVIOUS
  <2> QED BY <2>1
<1>2. PICK d \in D : \A y \in D : d <= y
  <2> HIDE DEF D
  <2> QED BY <1>1, LeastNat
<1>3. PICK x \in T : d = n - x
  OBVIOUS
<1>4. \A y \in T : n - x <= n - y
  BY <1>2, <1>3
<1>5. \A y \in T : x >= y
  BY <1>3, <1>4
<1> QED BY <1>5 DEF Max

\* A function of a set into itself can be repeated any number of times.
LEMMA Iteration ==
  ASSUME NEW S, NEW c \in S, NEW D \in [S -> S]
  PROVE  \E f \in [Nat -> S] : f[0] = c /\ \A n \in Nat : f[n + 1] = D[f[n]]
<1> DEFINE Runs(n) == {h \in [0..n -> S] : h[0] = c /\ \A k \in 0..n : k # n => h[k + 1] = D[h[k]]}
           P == {n \in Nat : Runs(n) # {}}
<1>1. 0 \in P
  <2>1. [k \in 0..0 |-> c] \in Runs(0)
    OBVIOUS
  <2> QED
    BY <2>1
<1>2. ASSUME NEW n \in Nat, n \in P PROVE n + 1 \in P
  <2>1. PICK h \in Runs(n) : TRUE
    BY <1>2
  <2> DEFINE g == [k \in 0..n+1 |-> IF k = n + 1 THEN D[h[n]] ELSE h[k]]
  <2>2. h[n] \in S /\ D[h[n]] \in S
    BY <2>1
  <2>3. g \in [0..n+1 -> S]
    BY <2>1, <2>2
  <2>4. g[0] = c
    BY <2>1
  <2>5. ASSUME NEW k \in 0..n+1, k # n + 1 PROVE g[k + 1] = D[g[k]]
    BY <2>1, <2>5
  <2>6. g \in Runs(n + 1)
    BY <2>3, <2>4, <2>5
  <2> HIDE DEF g
  <2> QED
    BY <2>6
<1>3. Nat \subseteq P
  <2> HIDE DEF P
  <2> QED BY <1>1, <1>2, InductionOver
<1>4. ASSUME NEW m \in Nat, NEW n \in Nat, NEW g \in Runs(m), NEW h \in Runs(n)
      PROVE  \A k \in Nat : k <= m /\ k <= n => g[k] = h[k]
  <2> DEFINE Q == {k \in Nat : k <= m /\ k <= n => g[k] = h[k]}
  <2>1. 0 \in Q
    OBVIOUS
  <2>2. ASSUME NEW k \in Nat, k \in Q PROVE k + 1 \in Q
    BY <2>2
  <2>3. Nat \subseteq Q
    <3> HIDE DEF Q
    <3> QED BY <2>1, <2>2, InductionOver
  <2> QED
    BY <2>3
<1> DEFINE Run(n) == CHOOSE h \in Runs(n) : TRUE
<1>5. \A n \in Nat : Run(n) \in Runs(n)
  <2> SUFFICES ASSUME NEW n \in Nat PROVE Run(n) \in Runs(n)
    OBVIOUS
  <2>1. Runs(n) # {}
    BY <1>3
  <2> HIDE DEF Runs
  <2> QED BY <2>1
<1> HIDE DEF Run
<1>6. \A n \in Nat : /\ Run(n) \in [0..n -> S] /\ Run(n)[0] = c
                   /\ \A k \in 0..n : k # n => Run(n)[k + 1] = D[Run(n)[k]]
  BY <1>5
<1>7. \A n \in Nat : Run(n + 1)[n] = Run(n)[n]
  <2> SUFFICES ASSUME NEW n \in Nat PROVE Run(n + 1)[n] = Run(n)[n]
    OBVIOUS
  <2>1. Run(n) \in Runs(n) /\ Run(n + 1) \in Runs(n + 1) /\ n + 1 \in Nat
    BY <1>5
  <2> HIDE DEF Runs
  <2> QED BY <2>1, <1>4
<1> DEFINE f == [n \in Nat |-> Run(n)[n]]
<1>8. f \in [Nat -> S] /\ f[0] = c
  <2>1. \A n \in Nat : Run(n)[n] \in S
    BY <1>6
  <2> QED BY <2>1, <1>6
<1>9. ASSUME NEW n \in Nat PROVE f[n + 1] = D[f[n]]
  <2>1. n + 1 \in Nat /\ n \in 0..n+1 /\ n # n + 1
    OBVIOUS
  <2>2. Run(n + 1)[n + 1] = D[Run(n + 1)[n]]
    BY <2>1, <1>6
  <2> QED BY <2>1, <2>2, <1>7
<1> HIDE DEF f
<1> QED
  BY <1>8, <1>9

-----------------------------------------------------------------------------
(* Sequences, and what is in them *)

LEMMA Prepended ==
  ASSUME NEW S, NEW e \in S, NEW s \in Seq(S)
  PROVE  /\ <<e>> \o s \in Seq(S)
         /\ Len(<<e>> \o s) = Len(s) + 1
         /\ (<<e>> \o s)[1] = e
         /\ \A i \in 1..Len(s) : (<<e>> \o s)[i + 1] = s[i]
         /\ ToSet(<<e>> \o s) = {e} \cup ToSet(s)
<1> DEFINE t == <<e>> \o s
<1>1. /\ t \in Seq(S) /\ Len(t) = Len(s) + 1 /\ t[1] = e
      /\ \A i \in 1..Len(s) : t[i + 1] = s[i]
  <2>1. <<e>> \in Seq(S) /\ Len(<<e>>) = 1 /\ <<e>>[1] = e /\ Len(s) \in Nat
    OBVIOUS
  <2>2. t \in Seq(S) /\ Len(t) = Len(s) + 1
    BY <2>1
  <2>3. t[1] = e
    BY <2>1
  <2>4. ASSUME NEW i \in 1..Len(s) PROVE t[i + 1] = s[i]
    <3>1. i + 1 > 1 /\ i + 1 <= 1 + Len(s) /\ (i + 1) - 1 = i
      BY <2>1
    <3> QED BY <3>1, <2>1
  <2> QED BY <2>2, <2>3, <2>4
<1>2. DOMAIN (<<e>> \o s) = 1..Len(s) + 1 /\ DOMAIN s = 1..Len(s)
  BY <1>1
<1>3. ToSet(<<e>> \o s) = {e} \cup ToSet(s)
  <2>1. t[1] = e /\ (\A i \in 1..Len(s) : t[i + 1] = s[i]) /\ DOMAIN t = 1..Len(s) + 1 /\ Len(s) \in Nat
    BY <1>1, <1>2
  <2>2. \A i \in DOMAIN t : i = 1 \/ (i - 1 \in 1..Len(s) /\ t[i] = s[i - 1])
    <3> HIDE DEF t
    <3> SUFFICES ASSUME NEW i \in DOMAIN t, i # 1 PROVE i - 1 \in 1..Len(s) /\ t[i] = s[i - 1]
      OBVIOUS
    <3>1. i - 1 \in 1..Len(s) /\ i = (i - 1) + 1
      BY <2>1
    <3> QED BY <2>1, <3>1
  <2> HIDE DEF t
  <2>3. ToSet(t) = {e} \cup ToSet(s)
    <3>1. \A x : x \in ToSet(t) => x = e \/ x \in ToSet(s)
      BY <2>1, <2>2, <1>2 DEF ToSet
    <3>2. e \in ToSet(t)
      <4>1. 1 \in DOMAIN t BY <2>1
      <4> QED BY <2>1, <4>1 DEF ToSet
    <3>3. \A x : x \in ToSet(s) => x \in ToSet(t)
      <4> SUFFICES ASSUME NEW i \in DOMAIN s PROVE s[i] \in ToSet(t)
        BY DEF ToSet
      <4>1. i + 1 \in DOMAIN t /\ t[i + 1] = s[i]
        BY <2>1, <1>2
      <4> QED BY <4>1 DEF ToSet
    <3> QED BY <3>1, <3>2, <3>3
  <2> QED BY <2>3 DEF t
<1> QED
  BY <1>1, <1>3

LEMMA Joined ==
  ASSUME NEW S, NEW s \in Seq(S), NEW t \in Seq(S)
  PROVE  s \o t \in Seq(S) /\ ToSet(s \o t) = ToSet(s) \cup ToSet(t)
<1> DEFINE st == s \o t
<1>1. st \in Seq(S) /\ Len(st) = Len(s) + Len(t) /\ Len(s) \in Nat /\ Len(t) \in Nat
  OBVIOUS
<1>2. \A i \in 1..Len(s) : st[i] = s[i]
  OBVIOUS
<1>3. ASSUME NEW i \in 1..Len(t) PROVE st[i + Len(s)] = t[i]
  <2>1. i + Len(s) > Len(s) /\ i + Len(s) <= Len(s) + Len(t) /\ (i + Len(s)) - Len(s) = i /\ i + Len(s) \in 1..Len(s)+Len(t)
    BY <1>1
  <2> QED BY <2>1, <1>1
<1>4. DOMAIN s = 1..Len(s) /\ DOMAIN t = 1..Len(t) /\ DOMAIN st = 1..Len(s) + Len(t)
  BY <1>1
<1> HIDE DEF st
<1>5. ASSUME NEW i \in DOMAIN st PROVE st[i] \in ToSet(s) \cup ToSet(t)
  <2>1. CASE i <= Len(s)
    BY <1>1, <1>2, <1>4, <2>1 DEF ToSet
  <2>2. CASE i > Len(s)
    <3>1. i - Len(s) \in DOMAIN t /\ (i - Len(s)) + Len(s) = i
      BY <1>1, <1>4, <2>2
    <3>2. st[i] = t[i - Len(s)]
      BY <1>3, <1>4, <3>1
    <3> QED BY <3>1, <3>2 DEF ToSet
  <2> QED BY <1>1, <1>4, <2>1, <2>2
<1>6. ASSUME NEW i \in DOMAIN s PROVE s[i] \in ToSet(st)
  BY <1>1, <1>2, <1>4 DEF ToSet
<1>7. ASSUME NEW i \in DOMAIN t PROVE t[i] \in ToSet(st)
  <2>1. i + Len(s) \in DOMAIN st /\ st[i + Len(s)] = t[i]
    BY <1>1, <1>3, <1>4
  <2> QED BY <2>1 DEF ToSet
<1>8. ToSet(st) = ToSet(s) \cup ToSet(t)
  BY <1>5, <1>6, <1>7 DEF ToSet
<1> QED
  BY <1>1, <1>8 DEF st

LEMMA Part ==
  ASSUME NEW S, NEW s \in Seq(S), NEW m \in 1..Len(s)+1, NEW n \in 0..Len(s)
  PROVE  SubSeq(s, m, n) \in Seq(S) /\ ToSet(SubSeq(s, m, n)) \subseteq ToSet(s)
<1>1. Len(s) \in Nat /\ DOMAIN s = 1..Len(s)
  OBVIOUS
<1>2. SubSeq(s, m, n) \in Seq(S)
  BY <1>1
<1>3. DOMAIN SubSeq(s, m, n) = 1..Len(SubSeq(s, m, n)) /\ Len(SubSeq(s, m, n)) = IF m <= n THEN n - m + 1 ELSE 0
  BY <1>1
<1>4. ASSUME NEW i \in DOMAIN SubSeq(s, m, n) PROVE SubSeq(s, m, n)[i] = s[m + i - 1] /\ m + i - 1 \in DOMAIN s
  BY <1>1, <1>3
<1>5. \A i \in DOMAIN SubSeq(s, m, n) : SubSeq(s, m, n)[i] \in ToSet(s)
  BY <1>4 DEF ToSet
<1> QED
  BY <1>2, <1>5 DEF ToSet

LEMMA Listed ==
  ASSUME NEW S, NEW n \in Nat, NEW s \in [1..n -> S]
  PROVE  s \in Seq(S) /\ Len(s) = n
OBVIOUS

LEMMA RemovedAt ==
  ASSUME NEW S, NEW s \in Seq(S), NEW i \in 1..Len(s)
  PROVE  RemoveAt(s, i) \in Seq(S) /\ ToSet(RemoveAt(s, i)) \subseteq ToSet(s)
<1>1. Len(s) \in Nat /\ 1 \in 1..Len(s)+1 /\ i - 1 \in 0..Len(s) /\ i + 1 \in 1..Len(s)+1 /\ Len(s) \in 0..Len(s)
  OBVIOUS
<1>2. SubSeq(s, 1, i - 1) \in Seq(S) /\ ToSet(SubSeq(s, 1, i - 1)) \subseteq ToSet(s)
  BY <1>1, Part
<1>3. SubSeq(s, i + 1, Len(s)) \in Seq(S) /\ ToSet(SubSeq(s, i + 1, Len(s))) \subseteq ToSet(s)
  BY <1>1, Part
<1> DEFINE a == SubSeq(s, 1, i - 1)
           b == SubSeq(s, i + 1, Len(s))
<1>4. RemoveAt(s, i) = a \o b
  BY DEF RemoveAt
<1> HIDE DEF a, b
<1>5. a \in Seq(S) /\ b \in Seq(S) /\ ToSet(a) \subseteq ToSet(s) /\ ToSet(b) \subseteq ToSet(s)
  BY <1>2, <1>3 DEF a, b
<1>6. a \o b \in Seq(S) /\ ToSet(a \o b) = ToSet(a) \cup ToSet(b)
  BY <1>5, Joined
<1> QED
  BY <1>4, <1>5, <1>6

LEMMA RemovedFirst ==
  ASSUME NEW S, NEW s \in Seq(S), NEW e
  PROVE  RemoveFirst(s, e) \in Seq(S) /\ ToSet(RemoveFirst(s, e)) \subseteq ToSet(s)
<1> DEFINE I == {i \in 1..Len(s) : s[i] = e}
<1>1. CASE I = {}
  BY <1>1 DEF RemoveFirst
<1>2. CASE I # {}
  <2>1. Min(I) \in I
    <3>1. I \subseteq Nat
      OBVIOUS
    <3> HIDE DEF I
    <3> QED BY <1>2, <3>1, MinOfSome
  <2>2. RemoveFirst(s, e) = RemoveAt(s, Min(I))
    BY <1>2 DEF RemoveFirst, SelectInSeq
  <2> QED BY <2>1, <2>2, RemovedAt
<1> QED
  BY <1>1, <1>2

LEMMA Appended ==
  ASSUME NEW S, NEW s \in Seq(S), NEW e \in S
  PROVE  Append(s, e) \in Seq(S) /\ ToSet(Append(s, e)) = ToSet(s) \cup {e}
<1> DEFINE t == Append(s, e)
<1>1. t \in Seq(S) /\ DOMAIN t = 1..Len(s)+1 /\ t[Len(s)+1] = e /\ Len(s) \in Nat /\ DOMAIN s = 1..Len(s)
      /\ \A i \in 1..Len(s) : t[i] = s[i]
  OBVIOUS
<1> HIDE DEF t
<1>2. \A i \in DOMAIN t : i \in DOMAIN s \/ i = Len(s) + 1
  BY <1>1
<1>3. ToSet(t) = ToSet(s) \cup {e}
  BY <1>1, <1>2 DEF ToSet
<1> QED
  BY <1>1, <1>3 DEF t

LEMMA Single == ASSUME NEW S, NEW e \in S PROVE <<e>> \in Seq(S) /\ ToSet(<<e>>) = {e}
BY DEF ToSet

LEMMA Couple == ASSUME NEW S, NEW d \in S, NEW e \in S PROVE <<d, e>> \in Seq(S) /\ ToSet(<<d, e>>) = {d, e}
<1>1. <<d, e>> \in Seq(S) /\ DOMAIN <<d, e>> = {1, 2} /\ <<d, e>>[1] = d /\ <<d, e>>[2] = e
  OBVIOUS
<1> QED BY <1>1 DEF ToSet

-----------------------------------------------------------------------------
(* Ancestors *)

\* Where an object can be: below another, or at the top.
Places == Objects \cup {Nothing}
Rooted(tree) == DOMAIN tree \subseteq Objects /\ \A o \in DOMAIN tree : tree[o].parent \in Places

\* The paths are what their definition says, for a function that is defined by itself
\* is that function only if there is one.
LEMMA PathsUpDefined ==
  ASSUME NEW tree, Rooted(tree)
  PROVE  /\ PathsUp(tree) \in [Nat -> [Places -> Seq(Objects)]]
         /\ \A o \in Places : PathsUp(tree)[0][o] = <<>>
         /\ \A n \in Nat, o \in Places :
              PathsUp(tree)[n + 1][o] =
                IF Has(tree, o) THEN <<o>> \o PathsUp(tree)[n][tree[o].parent] ELSE <<>>
<1> DEFINE S == [Places -> Seq(Objects)]
           c == [o \in Places |-> <<>>]
           G(g) == [o \in Places |-> IF Has(tree, o) THEN <<o>> \o g[tree[o].parent] ELSE <<>>]
           D == [g \in S |-> G(g)]
           Defines(f) == f = [n \in Nat |-> [o \in Places |->
                                IF n = 0 \/ ~Has(tree, o) THEN <<>> ELSE <<o>> \o f[n - 1][tree[o].parent]]]
<1>1. c \in S
  OBVIOUS
<1>2. ASSUME NEW g \in S PROVE G(g) \in S
  <2> SUFFICES ASSUME NEW o \in Places, Has(tree, o) PROVE <<o>> \o g[tree[o].parent] \in Seq(Objects)
    OBVIOUS
  <2>1. o \in Objects /\ tree[o].parent \in Places
    BY DEF Rooted, Has
  <2> QED
    BY <2>1, Prepended
<1>3. D \in [S -> S]
  BY <1>2
<1>4. PICK f \in [Nat -> S] : f[0] = c /\ \A n \in Nat : f[n + 1] = D[f[n]]
  <2> HIDE DEF S, c, D
  <2> QED BY <1>1, <1>3, Iteration
<1>5. \A n \in Nat : f[n + 1] = G(f[n])
  BY <1>4
<1>6. Defines(f)
  <2> DEFINE E(n) == [o \in Places |->
                       IF n = 0 \/ ~Has(tree, o) THEN <<>> ELSE <<o>> \o f[n - 1][tree[o].parent]]
  <2>1. ASSUME NEW n \in Nat PROVE f[n] = E(n)
    <3>1. CASE n = 0
      BY <3>1, <1>4
    <3>2. CASE n # 0
      <4>1. n - 1 \in Nat /\ (n - 1) + 1 = n
        BY <3>2
      <4>2. f[n] = G(f[n - 1])
        BY <4>1, <1>5
      <4>3. G(f[n - 1]) = E(n)
        BY <3>2
      <4> QED BY <4>2, <4>3
    <3> QED BY <3>1, <3>2
  <2>2. f = [n \in Nat |-> f[n]]
    BY <1>4
  <2>3. f = [n \in Nat |-> E(n)]
    <3> HIDE DEF E
    <3> QED BY <2>1, <2>2
  <2> QED BY <2>3
<1>7. PathsUp(tree) = CHOOSE path : Defines(path)
  BY DEF PathsUp, Places
<1>8. Defines(PathsUp(tree))
  <2> HIDE DEF Defines
  <2> QED BY <1>6, <1>7
<1> DEFINE path == PathsUp(tree)
           E(n) == [o \in Places |->
                     IF n = 0 \/ ~Has(tree, o) THEN <<>> ELSE <<o>> \o path[n - 1][tree[o].parent]]
<1>a. path = [n \in Nat |-> E(n)]
  BY <1>8
<1> HIDE DEF path
<1>b. ASSUME NEW n \in Nat PROVE path[n] = E(n)
  <2> HIDE DEF E
  <2> QED BY <1>a
<1>c. path[0] = c
  BY <1>b
<1>d. ASSUME NEW n \in Nat PROVE path[n + 1] = G(path[n])
  <2>1. n + 1 \in Nat /\ n + 1 # 0 /\ (n + 1) - 1 = n
    OBVIOUS
  <2>2. path[n + 1] = E(n + 1)
    BY <2>1, <1>b
  <2> QED BY <2>1, <2>2
<1>9. \A o \in Places : path[0][o] = <<>>
  BY <1>c
<1>10. \A n \in Nat, o \in Places :
         path[n + 1][o] = IF Has(tree, o) THEN <<o>> \o path[n][tree[o].parent] ELSE <<>>
  <2> SUFFICES ASSUME NEW n \in Nat, NEW o \in Places
               PROVE  path[n + 1][o] = IF Has(tree, o) THEN <<o>> \o path[n][tree[o].parent] ELSE <<>>
    OBVIOUS
  <2>1. path[n + 1] = G(path[n])
    BY <1>d
  <2> QED BY <2>1
<1>11. path \in [Nat -> S]
  <2> DEFINE P == {n \in Nat : path[n] \in S}
  <2>1. 0 \in P
    BY <1>c, <1>1
  <2>2. ASSUME NEW n \in Nat, n \in P PROVE n + 1 \in P
    <3>0. n + 1 \in Nat /\ path[n] \in S
      BY <2>2
    <3>1. path[n] \in S /\ path[n + 1] = G(path[n])
      <4> HIDE DEF S, G
      <4> QED BY <3>0, <1>d
    <3>2. path[n + 1] \in S
      <4> HIDE DEF S, G
      <4> QED BY <3>1, <1>2
    <3> HIDE DEF S
    <3> QED BY <3>0, <3>2
  <2>3. Nat \subseteq P
    <3> HIDE DEF P
    <3> QED BY <2>1, <2>2, InductionOver
  <2>4. path = [n \in Nat |-> path[n]]
    BY <1>a
  <2> HIDE DEF path, S
  <2> QED BY <2>3, <2>4
<1> QED
  BY <1>9, <1>10, <1>11 DEF path

\* Ancestors are objects that are there.
LEMMA AncestorsType ==
  ASSUME NEW tree, Rooted(tree), NEW o \in Places
  PROVE  Ancestors(tree, o) \in Seq(Objects) /\ ToSet(Ancestors(tree, o)) \subseteq DOMAIN tree
<1> DEFINE path == PathsUp(tree)
           P == {n \in Nat : \A x \in Places : ToSet(path[n][x]) \subseteq DOMAIN tree}
<1>1. 0 \in P
  BY PathsUpDefined DEF ToSet
<1>2. ASSUME NEW n \in Nat, n \in P PROVE n + 1 \in P
  <2> SUFFICES ASSUME NEW x \in Places PROVE ToSet(path[n + 1][x]) \subseteq DOMAIN tree
    BY <1>2
  <2>1. CASE ~Has(tree, x)
    <3>1. path[n + 1][x] = <<>>
      BY <2>1, PathsUpDefined
    <3> QED BY <3>1 DEF ToSet
  <2>2. CASE Has(tree, x)
    <3>1. tree[x].parent \in Places /\ x \in Objects
      BY <2>2 DEF Rooted, Has
    <3>2. path[n][tree[x].parent] \in Seq(Objects)
      BY ZenonT(30), <3>1, PathsUpDefined
    <3>3. ToSet(<<x>> \o path[n][tree[x].parent]) = {x} \cup ToSet(path[n][tree[x].parent])
      BY <3>1, <3>2, Prepended
    <3>4. path[n + 1][x] = <<x>> \o path[n][tree[x].parent]
      BY <2>2, PathsUpDefined
    <3> QED BY <1>2, <2>2, <3>1, <3>3, <3>4 DEF Has
  <2> QED BY <2>1, <2>2
<1>3. Nat \subseteq P
  <2> HIDE DEF P
  <2> QED BY <1>1, <1>2, InductionOver
<1>4. depthLimit \in Nat
  BY ConstantsAssumption
<1> QED
  BY <1>3, <1>4, PathsUpDefined DEF Ancestors

\* A path that is shorter than it may be does not grow.
LEMMA PathsUpSettle ==
  ASSUME NEW tree, Rooted(tree), NEW n \in Nat, NEW o \in Places, Len(PathsUp(tree)[n][o]) < n
  PROVE  PathsUp(tree)[n + 1][o] = PathsUp(tree)[n][o]
<1> DEFINE path == PathsUp(tree)
           P == {m \in Nat : \A x \in Places : Len(path[m][x]) < m => path[m + 1][x] = path[m][x]}
<1>0. /\ path \in [Nat -> [Places -> Seq(Objects)]]
      /\ \A x \in Places : path[0][x] = <<>>
      /\ \A m \in Nat, x \in Places :
           path[m + 1][x] = IF Has(tree, x) THEN <<x>> \o path[m][tree[x].parent] ELSE <<>>
  BY PathsUpDefined
<1> HIDE DEF path
<1>1. 0 \in P
  BY <1>0
<1>2. ASSUME NEW m \in Nat, m \in P PROVE m + 1 \in P
  <2> SUFFICES ASSUME NEW x \in Places, Len(path[m + 1][x]) < m + 1
               PROVE  path[(m + 1) + 1][x] = path[m + 1][x]
    BY <1>2
  <2>0. m + 1 \in Nat
    OBVIOUS
  <2>1. CASE ~Has(tree, x)
    BY <2>0, <2>1, <1>0
  <2>2. CASE Has(tree, x)
    <3> DEFINE p == tree[x].parent
    <3>1. p \in Places /\ x \in Objects
      BY <2>2 DEF Rooted, Has
    <3>2. path[m + 1][x] = <<x>> \o path[m][p] /\ path[(m + 1) + 1][x] = <<x>> \o path[m + 1][p]
      BY <2>0, <2>2, <1>0
    <3>3. path[m][p] \in Seq(Objects)
      BY <3>1, <1>0
    <3>4. Len(<<x>> \o path[m][p]) = Len(path[m][p]) + 1
      BY <3>1, <3>3, Prepended
    <3>5. Len(path[m][p]) \in Nat
      BY <3>3
    <3>6. Len(path[m][p]) < m
      <4> HIDE DEF p
      <4> QED BY <3>2, <3>4, <3>5
    <3>7. path[m + 1][p] = path[m][p]
      BY <1>2, <3>1, <3>6
    <3> QED BY <3>2, <3>7
  <2> QED BY <2>1, <2>2
<1>3. Nat \subseteq P
  <2> HIDE DEF P
  <2> QED BY <1>1, <1>2, InductionOver
<1> QED
  BY <1>3 DEF path

\* An object that is not too deep is the first of its ancestors, and its parent's follow.
LEMMA AncestorsUp ==
  ASSUME NEW tree, Rooted(tree), NEW o \in DOMAIN tree, Len(Ancestors(tree, o)) < depthLimit
  PROVE  /\ Ancestors(tree, o) = <<o>> \o Ancestors(tree, tree[o].parent)
         /\ ToSet(Ancestors(tree, o)) = {o} \cup ToSet(Ancestors(tree, tree[o].parent))
<1> DEFINE path == PathsUp(tree)
           p == tree[o].parent
           n == depthLimit - 1
<1>1. n \in Nat /\ n + 1 = depthLimit /\ depthLimit \in Nat
  BY ConstantsAssumption
<1>2. o \in Objects /\ o \in Places /\ p \in Places /\ Has(tree, o)
  BY DEF Rooted, Has, Places
<1>3. path[n] \in [Places -> Seq(Objects)] /\ path[n][p] \in Seq(Objects)
  BY <1>1, <1>2, PathsUpDefined
<1>4. path[n + 1][o] = <<o>> \o path[n][p]
  BY <1>1, <1>2, PathsUpDefined
<1>5. /\ Len(<<o>> \o path[n][p]) = Len(path[n][p]) + 1 /\ Len(path[n][p]) \in Nat
      /\ ToSet(<<o>> \o path[n][p]) = {o} \cup ToSet(path[n][p])
  BY <1>2, <1>3, Prepended
<1>6. Ancestors(tree, o) = <<o>> \o path[n][p]
  BY <1>1, <1>4 DEF Ancestors
<1>7. Len(path[n][p]) < n
  <2> HIDE DEF path, p
  <2> QED BY <1>1, <1>5, <1>6
<1>8. path[n + 1][p] = path[n][p]
  BY <1>1, <1>2, <1>7, PathsUpSettle
<1>9. Ancestors(tree, p) = path[n][p]
  BY <1>1, <1>8 DEF Ancestors
<1> QED
  BY <1>5, <1>6, <1>9

\* Nothing is above an object that is not there.
LEMMA AncestorsOfNothing ==
  ASSUME NEW tree, Rooted(tree), NEW o \in Places, o \notin DOMAIN tree
  PROVE  Ancestors(tree, o) = <<>>
<1> DEFINE n == depthLimit - 1
<1>1. n \in Nat /\ n + 1 = depthLimit
  BY ConstantsAssumption
<1>2. PathsUp(tree)[n + 1][o] = <<>>
  <2>1. ~Has(tree, o)
    BY DEF Has
  <2> HIDE DEF n
  <2> QED BY <1>1, <2>1, PathsUpDefined
<1> QED
  BY <1>1, <1>2 DEF Ancestors

\* A tree that holds some of another's objects, each with its parent.
Upper(part, tree) ==
  /\ DOMAIN part \subseteq DOMAIN tree
  /\ \A o \in DOMAIN part : part[o].parent = tree[o].parent /\ tree[o].parent \in DOMAIN part \cup {Nothing}

\* Such a tree agrees with the other on what is above its objects.
LEMMA SameAncestors ==
  ASSUME NEW tree, Rooted(tree), NEW part, Upper(part, tree)
  PROVE  Rooted(part) /\ \A o \in DOMAIN part \cup {Nothing} : Ancestors(part, o) = Ancestors(tree, o)
<1>1. Rooted(part)
  BY DEF Rooted, Upper
<1> DEFINE path == PathsUp(tree)
           route == PathsUp(part)
           Some == DOMAIN part \cup {Nothing}
           P == {n \in Nat : \A o \in Some : route[n][o] = path[n][o]}
<1>2. Some \subseteq Places
  BY DEF Upper, Rooted, Places
<1>3. 0 \in P
  BY <1>1, <1>2, PathsUpDefined
<1>4. ASSUME NEW n \in Nat, n \in P PROVE n + 1 \in P
  <2> SUFFICES ASSUME NEW o \in Some PROVE route[n + 1][o] = path[n + 1][o]
    BY <1>4
  <2>1. CASE o \in DOMAIN part
    <3>1. Has(part, o) /\ Has(tree, o) /\ part[o].parent = tree[o].parent /\ tree[o].parent \in Some
      BY <2>1 DEF Upper, Has
    <3>2. route[n + 1][o] = <<o>> \o route[n][tree[o].parent]
      BY <3>1, <1>1, <1>2, PathsUpDefined
    <3>3. path[n + 1][o] = <<o>> \o path[n][tree[o].parent]
      BY <3>1, <1>2, PathsUpDefined
    <3> QED BY <1>4, <3>1, <3>2, <3>3
  <2>2. CASE o \notin DOMAIN part
    <3>1. ~Has(part, o) /\ ~Has(tree, o)
      BY <2>2, ConstantsAssumption DEF Has, Upper, Rooted
    <3> QED BY <3>1, <1>1, <1>2, PathsUpDefined
  <2> QED BY <2>1, <2>2
<1>5. Nat \subseteq P
  <2> HIDE DEF P
  <2> QED BY <1>3, <1>4, InductionOver
<1>6. depthLimit \in Nat
  BY ConstantsAssumption
<1> QED
  BY <1>1, <1>5, <1>6 DEF Ancestors

NotTooDeep(tree) == Rooted(tree) /\ \A o \in DOMAIN tree : Len(Ancestors(tree, o)) < depthLimit

\* What is above an ancestor of an object is above the object.
LEMMA AncestorsOfAncestor ==
  ASSUME NEW tree, NotTooDeep(tree), NEW o \in Places, NEW x \in ToSet(Ancestors(tree, o))
  PROVE  ToSet(Ancestors(tree, x)) \subseteq ToSet(Ancestors(tree, o))
<1> DEFINE path == PathsUp(tree)
           Over(y) == ToSet(Ancestors(tree, y))
           P == {n \in Nat : \A y \in Places : \A z \in ToSet(path[n][y]) : Over(z) \subseteq Over(y)}
<1>0. Rooted(tree)
  BY DEF NotTooDeep
<1>1. 0 \in P
  <2>1. \A y \in Places : ToSet(path[0][y]) = {}
    BY <1>0, PathsUpDefined DEF ToSet
  <2> QED BY <2>1
<1>2. ASSUME NEW n \in Nat, n \in P PROVE n + 1 \in P
  <2> SUFFICES ASSUME NEW y \in Places, NEW z \in ToSet(path[n + 1][y]) PROVE Over(z) \subseteq Over(y)
    BY <1>2
  <2>1. Has(tree, y)
    <3> SUFFICES ASSUME ~Has(tree, y) PROVE FALSE
      OBVIOUS
    <3>1. path[n + 1][y] = <<>>
      BY <1>0, PathsUpDefined
    <3> QED BY <3>1 DEF ToSet
  <2> DEFINE p == tree[y].parent
  <2>2. y \in Objects /\ p \in Places /\ y \in DOMAIN tree
    BY <1>0, <2>1 DEF Rooted, Has
  <2>3. path[n + 1][y] = <<y>> \o path[n][p] /\ path[n][p] \in Seq(Objects)
    BY <1>0, <2>1, <2>2, PathsUpDefined
  <2>4. ToSet(path[n + 1][y]) = {y} \cup ToSet(path[n][p])
    BY <2>2, <2>3, Prepended
  <2>5. Over(y) = {y} \cup Over(p)
    BY <1>0, <2>2, AncestorsUp DEF NotTooDeep
  <2>6. CASE z = y
    BY <2>6
  <2>7. CASE z \in ToSet(path[n][p])
    BY <1>2, <2>2, <2>5, <2>7
  <2> QED BY <2>4, <2>6, <2>7
<1>3. Nat \subseteq P
  <2> HIDE DEF P
  <2> QED BY <1>1, <1>2, InductionOver
<1>4. depthLimit \in Nat
  BY ConstantsAssumption
<1> QED
  BY <1>3, <1>4 DEF Ancestors

-----------------------------------------------------------------------------
(* Reading a region *)

Entry == [object : Objects, above : SUBSET Seq(Words)]
Readings == [stack : Seq(Entry), seen : SUBSET Objects, said : Seq(Words)]

\* A reading that keeps to some objects and some words.
KeepsTo(tree, Good, Say) ==
  {r \in Readings :
     /\ \A e \in ToSet(r.stack) : e.object \in DOMAIN tree => e.object \in Good
     /\ r.seen \subseteq Good \cap DOMAIN tree
     /\ ToSet(r.said) \subseteq Say}

\* Reading one of them leads only to others of them, and says only such words.
Leads(tree, Good, Say) ==
  \A o \in Good \cap DOMAIN tree :
    /\ ToSet(IF Protects(tree[o]) THEN Redacted ELSE tree[o].text) \subseteq Say
    /\ ~Protects(tree[o]) => ToSet(tree[o].children) \cap DOMAIN tree \subseteq Good

WellTyped(tree) == DOMAIN tree \subseteq Objects /\ \A o \in DOMAIN tree : tree[o] \in Node

LEMMA RedactedType == Redacted \in Seq(Words)
<1> DEFINE r == "redacted"
<1>1. Redacted = <<r>>
  BY DEF Redacted
<1> HIDE DEF r
<1>2. 1 \in DOMAIN <<r>> /\ <<r>>[1] = r
  OBVIOUS
<1>3. r \in Words
  BY <1>1, <1>2, ConstantsAssumption DEF ToSet
<1> QED BY <1>1, <1>3

LEMMA ReadNextKeepsTo ==
  ASSUME NEW tree, WellTyped(tree), NEW Good, NEW Say, Leads(tree, Good, Say),
         NEW r \in KeepsTo(tree, Good, Say)
  PROVE  ReadNext(tree, r) \in KeepsTo(tree, Good, Say)
<1> DEFINE fresh == {i \in DOMAIN r.stack : Has(tree, r.stack[i].object) /\ r.stack[i].object \notin r.seen}
           i == Min(fresh)
           e == r.stack[i]
           rest == SubSeq(r.stack, i + 1, Len(r.stack))
           n == tree[e.object]
           value == IF Protects(n) THEN Redacted ELSE n.text
           above == e.above \cup ({value} \ {<<>>})
           inside == [j \in DOMAIN n.children |-> [object |-> n.children[j], above |-> above]]
           repeated == value = <<>> \/ \E a \in e.above : Within(value, a)
           next == ReadNext(tree, r)
<1>1. /\ r.stack \in Seq(Entry) /\ r.seen \subseteq Objects /\ r.said \in Seq(Words)
      /\ \A x \in ToSet(r.stack) : x.object \in DOMAIN tree => x.object \in Good
      /\ r.seen \subseteq Good \cap DOMAIN tree /\ ToSet(r.said) \subseteq Say
  BY DEF KeepsTo, Readings
<1>2. CASE fresh = {}
  BY <1>2 DEF ReadNext
<1>3. CASE fresh # {}
  <2>1. i \in fresh
    <3>1. fresh \subseteq Nat
      BY <1>1
    <3> HIDE DEF fresh
    <3> QED BY <1>3, <3>1, MinOfSome
  <2>2. next = Visit(tree, r, e, rest)
    BY <1>3 DEF ReadNext
  <2>3. i \in DOMAIN r.stack /\ i \in 1..Len(r.stack) /\ Len(r.stack) \in Nat /\ e.object \in DOMAIN tree
    BY SMTT(30), <1>1, <2>1 DEF Has
  <2> HIDE DEF i
  <2>4. e \in Entry /\ e \in ToSet(r.stack)
    BY <1>1, <2>3 DEF ToSet
  <2>5. rest \in Seq(Entry) /\ ToSet(rest) \subseteq ToSet(r.stack)
    <3>1. i + 1 \in 1..Len(r.stack) + 1 /\ Len(r.stack) \in 0..Len(r.stack)
      BY <2>3
    <3> QED BY <1>1, <3>1, Part
  <2>6. e.object \in Good /\ e.object \in Objects /\ n \in Node
    BY <1>1, <2>3, <2>4 DEF Entry, WellTyped
  <2>7. n.children \in Seq(Objects) /\ value \in Seq(Words)
    <3>1. n.children \in Seq(Objects) /\ n.text \in Seq(Words)
      <4> HIDE DEF n
      <4> QED BY <2>6 DEF Node
    <3>2. Redacted \in Seq(Words)
      BY ConstantsAssumption, RedactedType
    <3> QED BY <3>1, <3>2
  <2>8. above \subseteq Seq(Words)
    <3> HIDE DEF value
    <3> QED BY <2>4, <2>7 DEF Entry
  <2>9. ToSet(value) \subseteq Say /\ (~Protects(n) => ToSet(n.children) \cap DOMAIN tree \subseteq Good)
    BY <2>3, <2>6 DEF Leads
  <2> HIDE DEF e, rest, n, value, above
  <2>10. inside \in Seq(Entry)
    <3>1. DOMAIN n.children = 1..Len(n.children) /\ Len(n.children) \in Nat
      BY <2>7
    <3>2. \A j \in DOMAIN n.children : [object |-> n.children[j], above |-> above] \in Entry
      BY <2>7, <2>8 DEF Entry
    <3>3. inside \in [1..Len(n.children) -> Entry]
      BY <3>1, <3>2
    <3> HIDE DEF inside
    <3> QED BY <3>1, <3>3, Listed
  <2>11. \A x \in ToSet(inside) : x.object \in ToSet(n.children)
    <3> SUFFICES ASSUME NEW j \in DOMAIN inside PROVE inside[j].object \in ToSet(n.children)
      BY DEF ToSet
    <3>1. j \in DOMAIN n.children /\ inside[j].object = n.children[j]
      OBVIOUS
    <3> QED BY <3>1 DEF ToSet
  <2> HIDE DEF inside
  <2>12. next = [stack |-> IF Protects(n) THEN rest ELSE inside \o rest,
                 seen |-> r.seen \cup {e.object},
                 said |-> IF repeated THEN r.said ELSE r.said \o value]
    BY <2>2 DEF Visit, n, value, above, inside
  <2>13. /\ next.stack \in Seq(Entry)
         /\ \A x \in ToSet(next.stack) : x.object \in DOMAIN tree => x.object \in Good
    <3>1. CASE Protects(n)
      BY <1>1, <2>5, <2>12, <3>1
    <3>2. CASE ~Protects(n)
      <4>1. next.stack \in Seq(Entry) /\ ToSet(next.stack) = ToSet(inside) \cup ToSet(rest)
        BY <2>5, <2>10, <2>12, <3>2, Joined
      <4> QED BY <1>1, <2>5, <2>9, <2>11, <3>2, <4>1
    <3> QED BY <3>1, <3>2
  <2>14. next.seen \subseteq Objects /\ next.seen \subseteq Good \cap DOMAIN tree
    BY <1>1, <2>3, <2>6, <2>12
  <2>15. next.said \in Seq(Words) /\ ToSet(next.said) \subseteq Say
    <3>1. r.said \o value \in Seq(Words) /\ ToSet(r.said \o value) = ToSet(r.said) \cup ToSet(value)
      BY <1>1, <2>7, Joined
    <3>2. next.said = r.said \/ next.said = r.said \o value
      BY <2>12
    <3> QED BY <1>1, <2>9, <3>1, <3>2
  <2>16. next \in Readings
    <3> HIDE DEF repeated
    <3>1. next = [stack |-> next.stack, seen |-> next.seen, said |-> next.said]
      BY <2>12
    <3> HIDE DEF next
    <3> QED BY <2>13, <2>14, <2>15, <3>1 DEF Readings
  <2> QED
    BY <2>13, <2>14, <2>15, <2>16 DEF KeepsTo
<1> QED
  BY <1>2, <1>3

\* A reading from one of them ends among them.
LEMMA ReadingKeepsTo ==
  ASSUME NEW tree, WellTyped(tree), NEW Good, NEW Say, Leads(tree, Good, Say), NEW o \in Objects, o \in Good
  PROVE  Reading(tree, o)[nodeLimit] \in KeepsTo(tree, Good, Say)
<1> DEFINE S == KeepsTo(tree, Good, Say)
           c == [stack |-> <<[object |-> o, above |-> {}]>>, seen |-> {}, said |-> <<>>]
           D == [r \in S |-> ReadNext(tree, r)]
           Defines(f) == f = [n \in Nat |-> IF n = 0 THEN c ELSE ReadNext(tree, f[n - 1])]
<1>1. c \in S
  <2>1. [object |-> o, above |-> {}] \in Entry
    BY DEF Entry
  <2>2. <<[object |-> o, above |-> {}]>> \in Seq(Entry)
    BY <2>1
  <2>3. c \in Readings
    BY <2>2 DEF Readings
  <2>4. \A e \in ToSet(c.stack) : e.object = o
    BY DEF ToSet
  <2>5. ToSet(c.said) = {}
    BY DEF ToSet
  <2> QED BY <2>3, <2>4, <2>5 DEF KeepsTo
<1>2. D \in [S -> S]
  BY ReadNextKeepsTo
<1>3. PICK f \in [Nat -> S] : f[0] = c /\ \A n \in Nat : f[n + 1] = D[f[n]]
  <2> HIDE DEF S, c, D
  <2>1. \A T : \A a \in T : \A E \in [T -> T] :
          \E f \in [Nat -> T] : f[0] = a /\ \A n \in Nat : f[n + 1] = E[f[n]]
    BY Iteration
  <2>2. c \in S /\ D \in [S -> S]
    BY <1>1, <1>2
  <2>3. \A a \in S : \A E \in [S -> S] :
          \E f \in [Nat -> S] : f[0] = a /\ \A n \in Nat : f[n + 1] = E[f[n]]
    BY <2>1
  <2>4. \A E \in [S -> S] :
          \E f \in [Nat -> S] : f[0] = c /\ \A n \in Nat : f[n + 1] = E[f[n]]
    BY <2>2, <2>3
  <2> QED BY <2>2, <2>4
<1>4. Defines(f)
  <2> DEFINE E(n) == IF n = 0 THEN c ELSE ReadNext(tree, f[n - 1])
  <2>1. ASSUME NEW n \in Nat PROVE f[n] = E(n)
    <3>1. CASE n = 0
      BY <1>3, <3>1
    <3>2. CASE n # 0
      <4>1. n - 1 \in Nat /\ (n - 1) + 1 = n
        BY <3>2
      <4>2. f[n] = D[f[n - 1]] /\ f[n - 1] \in S
        <5> HIDE DEF D, S
        <5> QED BY <1>3, <4>1
      <4> QED BY <3>2, <4>2
    <3> QED BY <3>1, <3>2
  <2>2. f = [n \in Nat |-> f[n]]
    BY <1>3
  <2>3. f = [n \in Nat |-> E(n)]
    <3> HIDE DEF E
    <3> QED BY <2>1, <2>2
  <2> QED BY <2>3
<1>5. Reading(tree, o) = CHOOSE read : Defines(read)
  BY DEF Reading
<1> DEFINE read == Reading(tree, o)
           E(n) == IF n = 0 THEN c ELSE ReadNext(tree, read[n - 1])
<1>6. Defines(read)
  <2> HIDE DEF Defines
  <2> QED BY <1>4, <1>5
<1>7. ASSUME NEW n \in Nat PROVE read[n] = E(n)
  <2>1. read = [m \in Nat |-> E(m)]
    BY <1>6
  <2> HIDE DEF E, read
  <2> QED BY <2>1
<1> HIDE DEF read, c
<1> DEFINE P == {n \in Nat : read[n] \in S}
<1>8. 0 \in P
  BY <1>1, <1>7
<1>9. ASSUME NEW n \in Nat, n \in P PROVE n + 1 \in P
  <2>1. n + 1 \in Nat /\ n + 1 # 0 /\ (n + 1) - 1 = n
    OBVIOUS
  <2>2. read[n + 1] = ReadNext(tree, read[n])
    BY <2>1, <1>7
  <2> QED BY <1>9, <2>1, <2>2, ReadNextKeepsTo
<1>10. Nat \subseteq P
  <2> HIDE DEF P
  <2> QED BY <1>8, <1>9, InductionOver
<1> QED
  BY <1>10, ConstantsAssumption DEF read

-----------------------------------------------------------------------------
(* The trees that the program can hold *)

\* Some of all objects, each with its place and its role.
Kin(w, tree) ==
  /\ DOMAIN tree \subseteq DOMAIN Everything(w)
  /\ \A o \in DOMAIN tree :
       /\ tree[o] \in Node
       /\ tree[o].parent = Everything(w)[o].parent /\ tree[o].role = Everything(w)[o].role
       /\ tree[o].parent \in DOMAIN tree \cup {Nothing}
       /\ \A c \in ToSet(tree[o].children) \cap DOMAIN Everything(w) : Everything(w)[c].parent = o
       /\ Discreet(w, o, tree[o].text)

\* Inside a protected object.
Shielded(w, o) ==
  \E p \in ToSet(Ancestors(Everything(w), Everything(w)[o].parent)) : Protects(Everything(w)[p])

\* What a workload is made of is a tree that is not too deep.
LEMMA EverythingIsTree ==
  ASSUME NEW w \in Workloads
  PROVE  /\ Rooted(Everything(w)) /\ NotTooDeep(Everything(w)) /\ WellTyped(Everything(w))
         /\ DOMAIN Everything(w) = DOMAIN w.page \cup DOMAIN w.inserts
         /\ \A o \in DOMAIN w.page : o \notin DOMAIN w.inserts /\ Everything(w)[o] = w.page[o]
         /\ \A o \in DOMAIN w.inserts : Everything(w)[o] = w.inserts[o]
         /\ \A o \in DOMAIN Everything(w) :
              \A c \in ToSet(Everything(w)[o].children) \cap DOMAIN Everything(w) :
                Everything(w)[c].parent = o
<1> DEFINE all == Everything(w)
<1>1. /\ DOMAIN all \subseteq Objects /\ DOMAIN w.page \cap DOMAIN w.inserts = {}
      /\ \A o \in DOMAIN all :
           /\ all[o] \in Node /\ all[o].parent \in DOMAIN all \cup {Nothing}
           /\ \A c \in ToSet(all[o].children) \cap DOMAIN all : all[c].parent = o
           /\ Len(Ancestors(all, o)) < depthLimit
  BY TreesAssumption
<1>2. DOMAIN all = DOMAIN w.page \cup DOMAIN w.inserts
  BY DEF Everything
<1>3. \A o \in DOMAIN w.page : o \notin DOMAIN w.inserts /\ all[o] = w.page[o]
  BY <1>1 DEF Everything, Has
<1>4. \A o \in DOMAIN w.inserts : all[o] = w.inserts[o]
  BY DEF Everything, Has
<1> HIDE DEF all
<1>5. Rooted(all) /\ WellTyped(all)
  BY <1>1 DEF Rooted, WellTyped, Places
<1>6. NotTooDeep(all)
  BY <1>1, <1>5 DEF NotTooDeep
<1> QED
  BY <1>1, <1>2, <1>3, <1>4, <1>5, <1>6 DEF all

\* A behavior starts from such a tree.
LEMMA PageIsKin ==
  ASSUME NEW w \in Workloads
  PROVE  Kin(w, w.page)
<1> DEFINE all == Everything(w)
<1>1. /\ DOMAIN all = DOMAIN w.page \cup DOMAIN w.inserts
      /\ \A o \in DOMAIN w.page : all[o] = w.page[o]
      /\ WellTyped(all)
      /\ \A o \in DOMAIN all : \A c \in ToSet(all[o].children) \cap DOMAIN all : all[c].parent = o
  BY EverythingIsTree
<1>2. \A o \in DOMAIN w.page : /\ w.page[o].parent \notin DOMAIN w.inserts
                               /\ all[o].parent \in DOMAIN all \cup {Nothing}
  BY <1>1, TreesAssumption
<1>3. \A o \in DOMAIN all : Discreet(w, o, all[o].text)
  BY SecretsAssumption
<1> HIDE DEF all
<1> QED
  BY <1>1, <1>2, <1>3 DEF Kin, WellTyped, all

\* All such trees agree on what is above an object, so none can lead another astray.
LEMMA KinAncestors ==
  ASSUME NEW w \in Workloads, NEW tree, Kin(w, tree)
  PROVE  /\ Rooted(tree) /\ WellTyped(tree) /\ NotTooDeep(tree)
         /\ \A o \in DOMAIN tree \cup {Nothing} : Ancestors(tree, o) = Ancestors(Everything(w), o)
<1> DEFINE all == Everything(w)
<1>1. Rooted(all) /\ NotTooDeep(all) /\ WellTyped(all)
  BY EverythingIsTree
<1>2. Upper(tree, all)
  BY DEF Kin, Upper
<1>3. Rooted(tree) /\ \A o \in DOMAIN tree \cup {Nothing} : Ancestors(tree, o) = Ancestors(all, o)
  BY <1>1, <1>2, SameAncestors
<1>4. WellTyped(tree)
  BY <1>1 DEF Kin, WellTyped
<1>5. NotTooDeep(tree)
  BY <1>1, <1>2, <1>3 DEF NotTooDeep, Upper
<1> QED
  BY <1>3, <1>4, <1>5

\* Every tree that holds an object knows what protects it.
LEMMA KinProtects ==
  ASSUME NEW w \in Workloads, NEW tree, Kin(w, tree), NEW o \in DOMAIN tree
  PROVE  /\ ProtectsNodeContent(tree, o) <=> Shielded(w, o)
         /\ Protects(tree[o]) <=> Protects(Everything(w)[o])
<1> DEFINE all == Everything(w)
           up == tree[o].parent
<1>1. \A x \in DOMAIN tree : Protects(tree[x]) <=> Protects(all[x])
  BY DEF Kin, Protects
<1>2. up = all[o].parent /\ up \in DOMAIN tree \cup {Nothing} /\ up \in Places
  BY KinAncestors DEF Kin, Rooted
<1>3. Ancestors(tree, up) = Ancestors(all, up) /\ ToSet(Ancestors(tree, up)) \subseteq DOMAIN tree
  BY <1>2, KinAncestors, AncestorsType
<1>4. Holders(tree, o) = {up}
  BY DEF Holders, Has
<1>5. ProtectsNodeContent(tree, o) <=> \E p \in ToSet(Ancestors(tree, up)) : Protects(tree[p])
  BY <1>4 DEF ProtectsNodeContent
<1> QED
  BY <1>1, <1>2, <1>3, <1>5 DEF Shielded

\* The protected objects, told from any tree.
LEMMA ConcealedAre ==
  ASSUME NEW w \in Workloads, NEW o
  PROVE  o \in Concealed(w) <=>
           o \in DOMAIN Everything(w) /\ (Protects(Everything(w)[o]) \/ Shielded(w, o))
<1> SUFFICES ASSUME o \in DOMAIN Everything(w)
             PROVE  ProtectsNodeContent(Everything(w), o) <=> Shielded(w, o)
  BY DEF Concealed
<1>1. Holders(Everything(w), o) = {Everything(w)[o].parent}
  BY DEF Holders, Has
<1> QED
  BY <1>1 DEF ProtectsNodeContent, Shielded

\* A step from an object down to its child.
LEMMA ChildInTree ==
  ASSUME NEW w \in Workloads, NEW tree, Kin(w, tree), NEW o \in DOMAIN tree,
         NEW c \in DOMAIN tree, c \in ToSet(tree[o].children)
  PROVE  /\ Everything(w)[c].parent = o
         /\ ToSet(Ancestors(Everything(w), c)) = {c} \cup ToSet(Ancestors(Everything(w), o))
         /\ Shielded(w, c) <=> Protects(Everything(w)[o]) \/ Shielded(w, o)
<1> DEFINE all == Everything(w)
<1>1. all[c].parent = o /\ c \in DOMAIN all /\ o \in DOMAIN all
  BY DEF Kin
<1>2. /\ ToSet(Ancestors(all, c)) = {c} \cup ToSet(Ancestors(all, o))
      /\ ToSet(Ancestors(all, o)) = {o} \cup ToSet(Ancestors(all, all[o].parent))
  BY <1>1, EverythingIsTree, AncestorsUp DEF NotTooDeep
<1>3. Shielded(w, c) <=> Protects(all[o]) \/ Shielded(w, o)
  BY <1>1, <1>2 DEF Shielded
<1> QED
  BY <1>1, <1>2, <1>3

\* A region that is not inside a protected object, or not around the secret's, is read
\* without the secret.
LEMMA ContentKeepsSecrets ==
  ASSUME NEW w \in Workloads, NEW tree, Kin(w, tree), NEW o \in DOMAIN tree, NEW x \in DOMAIN w.secrets,
         o \in ToSet(Ancestors(Everything(w), x)) => ~Shielded(w, o)
  PROVE  ~Tells(w, x, Content(tree, o))
<1> DEFINE all == Everything(w)
           Good == {y \in Objects : y \in ToSet(Ancestors(all, x)) => ~Shielded(w, y)}
           Say == Words \ w.secrets[x]
<1>1. WellTyped(tree)
  BY KinAncestors
<1>2. x \in DOMAIN all /\ x \in Places /\ x \in Concealed(w) /\ ~Tells(w, x, Redacted)
      /\ (Protects(all[x]) \/ Shielded(w, x)) /\ x \in ToSet(Ancestors(all, x))
  <2>1. x \in Concealed(w) /\ ~Tells(w, x, Redacted)
    BY SecretsAssumption
  <2>2. x \in DOMAIN all /\ (Protects(all[x]) \/ Shielded(w, x))
    BY <2>1, ConcealedAre
  <2>3. Rooted(all) /\ NotTooDeep(all)
    BY EverythingIsTree
  <2>4. ToSet(Ancestors(all, x)) = {x} \cup ToSet(Ancestors(all, all[x].parent))
    BY <2>2, <2>3, AncestorsUp DEF NotTooDeep
  <2> QED BY <2>1, <2>2, <2>3, <2>4 DEF Rooted, Places
<1>3. ASSUME NEW y \in Good \cap DOMAIN tree
      PROVE  ToSet(IF Protects(tree[y]) THEN Redacted ELSE tree[y].text) \subseteq Say
  <2>1. ToSet(Redacted) \subseteq Say
    BY <1>2, ConstantsAssumption DEF Tells
  <2>2. ToSet(tree[y].text) \subseteq Words
    <3>1. tree[y].text \in Seq(Words)
      BY <1>1 DEF WellTyped, Node
    <3> QED BY <3>1 DEF ToSet
  <2>3. ASSUME ~Protects(tree[y]) PROVE ~Tells(w, x, tree[y].text)
    <3>1. ~Protects(all[y])
      BY <2>3, KinProtects
    <3>2. y # x
      BY <1>2, <3>1
    <3> QED BY <3>2 DEF Kin, Discreet
  <2> QED BY <2>1, <2>2, <2>3 DEF Tells
<1>4. ASSUME NEW y \in Good \cap DOMAIN tree, ~Protects(tree[y])
      PROVE  ToSet(tree[y].children) \cap DOMAIN tree \subseteq Good
  <2> SUFFICES ASSUME NEW c \in ToSet(tree[y].children) \cap DOMAIN tree, c \in ToSet(Ancestors(all, x))
               PROVE  c \in Objects /\ ~Shielded(w, c)
    BY <1>1 DEF WellTyped
  <2>1. c \in Objects
    BY <1>1 DEF WellTyped
  <2>2. ~Protects(all[y]) /\ y \in Objects
    BY <1>4, KinProtects
  <2>3. /\ Shielded(w, c) <=> Protects(all[y]) \/ Shielded(w, y)
        /\ ToSet(Ancestors(all, c)) = {c} \cup ToSet(Ancestors(all, y))
    BY ChildInTree
  <2>4. y \in ToSet(Ancestors(all, x))
    <3>1. Rooted(all) /\ NotTooDeep(all)
      BY EverythingIsTree
    <3>2. ToSet(Ancestors(all, c)) \subseteq ToSet(Ancestors(all, x))
      BY <1>2, <3>1, AncestorsOfAncestor
    <3>3. y \in ToSet(Ancestors(all, y))
      <4>1. y \in DOMAIN all /\ Len(Ancestors(all, y)) < depthLimit
        BY <3>1 DEF Kin, NotTooDeep
      <4>2. ToSet(Ancestors(all, y)) = {y} \cup ToSet(Ancestors(all, all[y].parent))
        BY <3>1, <4>1, AncestorsUp
      <4> QED BY <4>2
    <3> QED BY <2>3, <3>2, <3>3
  <2> QED BY <2>1, <2>2, <2>3, <2>4
<1>5. Leads(tree, Good, Say)
  BY <1>3, <1>4 DEF Leads
<1>6. o \in Objects /\ o \in Good
  BY <1>1 DEF WellTyped
<1> HIDE DEF Good, Say
<1>7. Reading(tree, o)[nodeLimit] \in KeepsTo(tree, Good, Say)
  BY <1>1, <1>5, <1>6, ReadingKeepsTo
<1> QED
  BY <1>7 DEF KeepsTo, Content, Tells, Say

\* What is read of a region is below it.
LEMMA VisitedAreBelow ==
  ASSUME NEW w \in Workloads, NEW tree, Kin(w, tree), NEW o \in DOMAIN tree,
         NEW x \in Reading(tree, o)[nodeLimit].seen
  PROVE  o \in ToSet(Ancestors(Everything(w), x))
<1> DEFINE all == Everything(w)
           Good == {y \in Objects : o \in ToSet(Ancestors(all, y))}
<1>1. WellTyped(tree)
  BY KinAncestors
<1>2. ASSUME NEW y \in Good \cap DOMAIN tree
      PROVE  ToSet(IF Protects(tree[y]) THEN Redacted ELSE tree[y].text) \subseteq Words
  <2>1. tree[y].text \in Seq(Words)
    BY <1>1 DEF WellTyped, Node
  <2> QED BY <2>1, ConstantsAssumption DEF ToSet
<1>3. ASSUME NEW y \in Good \cap DOMAIN tree
      PROVE  ToSet(tree[y].children) \cap DOMAIN tree \subseteq Good
  <2> SUFFICES ASSUME NEW c \in ToSet(tree[y].children) \cap DOMAIN tree PROVE c \in Good
    OBVIOUS
  <2>1. c \in Objects
    BY <1>1 DEF WellTyped
  <2>2. ToSet(Ancestors(all, c)) = {c} \cup ToSet(Ancestors(all, y))
    BY ChildInTree
  <2> QED BY <2>1, <2>2
<1>4. Leads(tree, Good, Words)
  BY <1>2, <1>3 DEF Leads
<1>5. o \in Objects /\ o \in Good
  <2>1. o \in DOMAIN all
    BY DEF Kin
  <2>2. ToSet(Ancestors(all, o)) = {o} \cup ToSet(Ancestors(all, all[o].parent))
    BY <2>1, EverythingIsTree, AncestorsUp DEF NotTooDeep
  <2> QED BY <1>1, <2>2 DEF WellTyped
<1> HIDE DEF Good
<1>6. Reading(tree, o)[nodeLimit] \in KeepsTo(tree, Good, Words)
  BY <1>1, <1>4, <1>5, ReadingKeepsTo
<1> QED
  BY <1>6 DEF KeepsTo, Good

\* A change of an attribute leaves the rest of the node alone.
LEMMA AttributeSet ==
  ASSUME NEW n \in Node, NEW field \in DOMAIN AttributeValues, NEW value \in AttributeValues[field]
  PROVE  /\ [n EXCEPT ![field] = value] \in Node
         /\ [n EXCEPT ![field] = value].parent = n.parent
         /\ [n EXCEPT ![field] = value].role = n.role
         /\ [n EXCEPT ![field] = value].text = n.text
         /\ [n EXCEPT ![field] = value].children = n.children
<1>1. field \in {"live", "atomic", "busy", "relevant"}
  BY DEF AttributeValues
<1>2. CASE field = "live"
  BY <1>2 DEF AttributeValues, Node
<1>3. CASE field = "atomic"
  BY <1>3 DEF AttributeValues, Node
<1>4. CASE field = "busy"
  BY <1>4 DEF AttributeValues, Node
<1>5. CASE field = "relevant"
  BY <1>5 DEF AttributeValues, Node
<1> QED
  BY <1>1, <1>2, <1>3, <1>4, <1>5

\* What is left of a tree that the program can hold.
LEMMA RestIsKin ==
  ASSUME NEW w \in Workloads, NEW tree, Kin(w, tree), NEW rest, DOMAIN rest \subseteq DOMAIN tree,
         \A o \in DOMAIN rest : tree[o].parent \in DOMAIN rest \cup {Nothing},
         \A o \in DOMAIN rest :
           /\ rest[o] \in Node /\ rest[o].parent = tree[o].parent /\ rest[o].role = tree[o].role
           /\ ToSet(rest[o].children) \subseteq ToSet(tree[o].children)
           /\ Discreet(w, o, rest[o].text)
  PROVE  Kin(w, rest)
BY DEF Kin

\* A tree without one of its subtrees.
LEMMA WithoutSubtree ==
  ASSUME NEW w \in Workloads, NEW tree, Kin(w, tree), NEW o \in Objects,
         NEW x \in DOMAIN tree \ Subtree(tree, o)
  PROVE  tree[x].parent \in (DOMAIN tree \ Subtree(tree, o)) \cup {Nothing}
<1> DEFINE p == tree[x].parent
<1>1. p \in DOMAIN tree \cup {Nothing} /\ x \in DOMAIN tree /\ o \notin ToSet(Ancestors(tree, x))
  BY DEF Kin, Subtree
<1>2. ToSet(Ancestors(tree, x)) = {x} \cup ToSet(Ancestors(tree, p))
  BY <1>1, KinAncestors, AncestorsUp DEF NotTooDeep
<1> QED
  BY <1>1, <1>2 DEF Subtree

-----------------------------------------------------------------------------
(* The trees of a behavior *)

\* The page and the graph agree on the place and the role of every object.
Trees ==
  /\ workload \in Workloads
  /\ Kin(workload, page) /\ Kin(workload, graph)
  /\ unsettled \subseteq DOMAIN page

\* What is left of the page without an object is as it was, but for the parent's children.
LEMMA PrunedIsKin ==
  ASSUME workload \in Workloads, Kin(workload, page), NEW o \in DOMAIN page
  PROVE  Kin(workload, Pruned(o)) /\ DOMAIN Pruned(o) = DOMAIN page \ Subtree(page, o)
<1> PICK g : g = Pruned(o)
  OBVIOUS
<1>1. o \in Objects
  BY KinAncestors DEF Rooted
<1>2. DOMAIN g = DOMAIN page \ Subtree(page, o)
  BY DEF Pruned
<1>3. \A x \in DOMAIN g : page[x].parent \in DOMAIN g \cup {Nothing}
  BY <1>1, <1>2, WithoutSubtree
<1>4. ASSUME NEW x \in DOMAIN g
      PROVE  /\ g[x] \in Node /\ g[x].parent = page[x].parent /\ g[x].role = page[x].role
             /\ ToSet(g[x].children) \subseteq ToSet(page[x].children)
             /\ Discreet(workload, x, g[x].text)
  <2>1. /\ page[x] \in Node /\ page[x].children \in Seq(Objects)
        /\ Discreet(workload, x, page[x].text)
    BY <1>2 DEF Kin, Node
  <2>2. RemoveFirst(page[x].children, o) \in Seq(Objects)
        /\ ToSet(RemoveFirst(page[x].children, o)) \subseteq ToSet(page[x].children)
    BY <2>1, RemovedFirst
  <2>3. g[x] = page[x] \/ g[x] = [page[x] EXCEPT !.children = RemoveFirst(@, o)]
    BY <1>2 DEF Pruned
  <2>4. g[x].text = page[x].text
    BY <2>1, <2>3 DEF Node
  <2> QED BY <2>1, <2>2, <2>3, <2>4 DEF Node
<1>5. DOMAIN g \subseteq DOMAIN page
  BY <1>2
<1>6. Kin(workload, g)
  BY <1>3, <1>4, <1>5, RestIsKin
<1> QED
  BY <1>2, <1>6

\* A traversal misses at most an insertion with what is below it.
LEMMA TraversalsAreTrees ==
  ASSUME Trees, NEW g \in Traversals
  PROVE  Kin(workload, g)
BY PrunedIsKin DEF Trees, Traversals

LEMMA InitTrees == Init => Trees
BY PageIsKin DEF Init, Trees

LEMMA InsertTrees ==
  ASSUME Trees, NEW o \in DOMAIN workload.inserts, Insert(o, workload.inserts[o])
  PROVE  Trees'
<1> DEFINE w == workload
           all == Everything(w)
           n == w.inserts[o]
<1>1. /\ w \in Workloads /\ Kin(w, page) /\ workload' = w /\ graph' = graph
      /\ n.parent \in DOMAIN page /\ o \notin DOMAIN page /\ unsettled' = unsettled \cup {o}
      /\ page' = [x \in DOMAIN page \cup {o} |->
                   IF x = o THEN n
                   ELSE IF x = n.parent THEN [page[x] EXCEPT !.children = Append(@, o)] ELSE page[x]]
  BY DEF Trees, Insert, Signal, Has, known
<1>2. o \in DOMAIN all /\ n = all[o] /\ n \in Node /\ o \in Objects /\ o \notin DOMAIN w.page
  BY <1>1, EverythingIsTree DEF WellTyped
<1>3. DOMAIN page' = DOMAIN page \cup {o}
  BY <1>1
<1>4. ASSUME NEW x \in DOMAIN page'
      PROVE  /\ page'[x] \in Node
             /\ page'[x].parent = all[x].parent /\ page'[x].role = all[x].role
             /\ page'[x].parent \in DOMAIN page' \cup {Nothing}
             /\ \A c \in ToSet(page'[x].children) \cap DOMAIN all : all[c].parent = x
             /\ Discreet(w, x, page'[x].text)
  <2>1. CASE x = o
    <3>1. page'[x] = n
      BY <1>1, <1>3, <2>1
    <3>2. Discreet(w, o, n.text)
      BY <1>1, <1>2, SecretsAssumption
    <3>3. \A c \in ToSet(n.children) \cap DOMAIN all : all[c].parent = o
      <4>1. w \in Workloads
        BY <1>1
      <4> HIDE DEF w
      <4>2. \A z \in DOMAIN all :
              \A c \in ToSet(all[z].children) \cap DOMAIN all : all[c].parent = z
        BY <4>1, EverythingIsTree
      <4> HIDE DEF n, all
      <4> QED BY <1>2, <4>2
    <3> HIDE DEF n, all
    <3> QED BY <1>1, <1>2, <1>3, <2>1, <3>1, <3>2, <3>3
  <2>2. CASE x # o
    <3>1. x \in DOMAIN page
      BY <1>3, <2>2
    <3>2. /\ page[x] \in Node /\ page[x].children \in Seq(Objects)
          /\ page[x].parent = all[x].parent /\ page[x].role = all[x].role
          /\ page[x].parent \in DOMAIN page \cup {Nothing}
          /\ \A c \in ToSet(page[x].children) \cap DOMAIN all : all[c].parent = x
          /\ Discreet(w, x, page[x].text)
      BY <1>1, <3>1 DEF Kin, Node
    <3>3. CASE x # n.parent
      <4>1. page'[x] = page[x]
        BY <1>1, <2>2, <3>1, <3>3
      <4> QED BY <1>3, <3>2, <4>1
    <3>4. CASE x = n.parent
      <4>1. page'[x] = [page[x] EXCEPT !.children = Append(page[x].children, o)]
        BY <1>1, <2>2, <3>1, <3>4
      <4>2. /\ Append(page[x].children, o) \in Seq(Objects)
            /\ ToSet(Append(page[x].children, o)) = ToSet(page[x].children) \cup {o}
        BY <1>2, <3>2, Appended
      <4>3. /\ page'[x] \in Node /\ page'[x].parent = page[x].parent /\ page'[x].role = page[x].role
            /\ page'[x].text = page[x].text
            /\ ToSet(page'[x].children) = ToSet(page[x].children) \cup {o}
        BY <3>2, <4>1, <4>2 DEF Node
      <4>4. \A c \in ToSet(page'[x].children) \cap DOMAIN all : all[c].parent = x
        BY <1>2, <3>2, <3>4, <4>3
      <4> QED BY <1>3, <3>2, <4>3, <4>4
    <3> QED BY <3>3, <3>4
  <2> QED BY <2>1, <2>2
<1>5. Kin(w, page')
  <2>1. DOMAIN page' \subseteq DOMAIN all
    BY <1>1, <1>2, <1>3 DEF Kin
  <2> QED BY <1>4, <2>1 DEF Kin
<1> HIDE DEF all, n
<1> QED
  BY <1>1, <1>2, <1>3, <1>5 DEF Trees

LEMMA EditTrees ==
  ASSUME Trees, NEW e \in workload.edits, Edit(e[1], e[2])
  PROVE  Trees'
<1> DEFINE w == workload
           o == e[1]
<1>1. /\ w \in Workloads /\ Kin(w, page) /\ workload' = w /\ graph' = graph
      /\ o \in DOMAIN page /\ unsettled' = unsettled
      /\ page' = [page EXCEPT ![o].text = e[2]]
  BY DEF Trees, Edit, Signal, Has, known
<1>2. e[2] \in Seq(Words) /\ Discreet(w, o, e[2])
  BY <1>1, ChangesAssumption, SecretsAssumption
<1> HIDE DEF o
<1>3. DOMAIN page' = DOMAIN page
  BY <1>1
<1>4. ASSUME NEW x \in DOMAIN page'
      PROVE  /\ page'[x] \in Node /\ page'[x].parent = page[x].parent /\ page'[x].role = page[x].role
             /\ ToSet(page'[x].children) \subseteq ToSet(page[x].children)
             /\ Discreet(w, x, page'[x].text)
  <2>1. page[x] \in Node /\ Discreet(w, x, page[x].text)
    BY <1>1, <1>3 DEF Kin
  <2>2. CASE x # o
    BY <1>1, <1>3, <2>1, <2>2
  <2>3. CASE x = o
    <3>1. page'[x] = [page[x] EXCEPT !.text = e[2]]
      BY <1>1, <1>3, <2>3
    <3>2. /\ page'[x] \in Node /\ page'[x].parent = page[x].parent /\ page'[x].role = page[x].role
          /\ page'[x].children = page[x].children /\ page'[x].text = e[2]
      BY <1>2, <2>1, <3>1 DEF Node
    <3> QED BY <1>2, <2>3, <3>2
  <2> QED BY <2>2, <2>3
<1>5. Kin(w, page')
  <2>1. \A x \in DOMAIN page' : page[x].parent \in DOMAIN page' \cup {Nothing}
    BY <1>1, <1>3 DEF Kin
  <2> QED BY <1>1, <1>3, <1>4, <2>1, RestIsKin
<1> QED
  BY <1>1, <1>3, <1>5 DEF Trees

LEMMA AttributeTrees ==
  ASSUME Trees, NEW a \in workload.attributes, SetAttribute(a.object, a.field, a.value)
  PROVE  Trees'
<1> DEFINE w == workload
           o == a.object
           f == a.field
           v == a.value
<1>1. /\ w \in Workloads /\ Kin(w, page) /\ workload' = w /\ graph' = graph
      /\ o \in DOMAIN page /\ unsettled' = unsettled
      /\ page' = [page EXCEPT ![o][f] = v]
  BY DEF Trees, SetAttribute, Has, known
<1>2. f \in DOMAIN AttributeValues /\ v \in AttributeValues[f]
  BY <1>1, ChangesAssumption
<1> HIDE DEF o, f, v
<1>3. DOMAIN page' = DOMAIN page
  BY <1>1
<1>4. ASSUME NEW x \in DOMAIN page'
      PROVE  /\ page'[x] \in Node /\ page'[x].parent = page[x].parent /\ page'[x].role = page[x].role
             /\ ToSet(page'[x].children) \subseteq ToSet(page[x].children)
             /\ Discreet(w, x, page'[x].text)
  <2>1. page[x] \in Node /\ Discreet(w, x, page[x].text)
    BY <1>1, <1>3 DEF Kin
  <2>2. CASE x # o
    BY <1>1, <1>3, <2>1, <2>2
  <2>3. CASE x = o
    <3>1. page'[x] = [page[x] EXCEPT ![f] = v]
      BY <1>1, <1>3, <2>3
    <3>2. /\ page'[x] \in Node /\ page'[x].parent = page[x].parent /\ page'[x].role = page[x].role
          /\ page'[x].children = page[x].children /\ page'[x].text = page[x].text
      BY <1>2, <2>1, <3>1, AttributeSet
    <3> QED BY <2>1, <3>2
  <2> QED BY <2>2, <2>3
<1>5. Kin(w, page')
  <2>1. \A x \in DOMAIN page' : page[x].parent \in DOMAIN page' \cup {Nothing}
    BY <1>1, <1>3 DEF Kin
  <2> QED BY <1>1, <1>3, <1>4, <2>1, RestIsKin
<1> QED
  BY <1>1, <1>3, <1>5 DEF Trees

LEMMA DeleteTrees ==
  ASSUME Trees, NEW o, Delete(o)
  PROVE  Trees'
<1>1. /\ workload \in Workloads /\ Kin(workload, page) /\ o \in DOMAIN page
      /\ workload' = workload /\ graph' = graph
      /\ unsettled' = unsettled \ Subtree(page, o) /\ page' = Pruned(o)
  BY DEF Trees, Delete, Signal, Has, known
<1>2. Kin(workload, page') /\ DOMAIN page' = DOMAIN page \ Subtree(page, o)
  BY <1>1, PrunedIsKin
<1> QED
  BY <1>1, <1>2 DEF Trees

-----------------------------------------------------------------------------
(* What a signal may say *)

NativeSignal ==
  [name : {"TextChanged", "ChildrenChanged", "PropertyChange", "Announcement"},
   source : Places, object : Objects, value : Seq(Words), detail : {"insert", "add", "remove"},
   relevance : {"text", "additions", "removals", "any"}, priority : {"", "polite", "assertive"}, of : Nat]

\* What a signal brings is no secret of another object.
SignalsKeepSecrets ==
  /\ signals \in Seq(NativeSignal) /\ changes \in Seq({"owed", "heard", "excused"})
  /\ \A s \in ToSet(signals) : Discreet(workload, s.source, s.value)

\* A remembered region is above the object.
OwnersAreAbove ==
  \A o \in DOMAIN atomicLiveRegionOwners :
    atomicLiveRegionOwners[o] \in ToSet(Ancestors(Everything(workload), o))

NothingTold(x) == announced' = Nothing \/ ~Tells(workload, x, announced'.text)

\* The graph that a handler goes on with is the one before or a traversal.
LEMMA OutcomeGraph ==
  ASSUME NEW o, NEW outcome \in Asked(o)
  PROVE  outcome.graph = Nothing \/ outcome.graph \in Traversals
<1>1. PICK memberOf : outcome \in ResolvedLiveRegionMetadata(o, memberOf)
  BY DEF Asked
<1>2. CASE outcome \in LiveRegionMetadata(o, memberOf)
  <2>1. PICK m : outcome \in RefreshForLiveRegionOwner(o, m) \/ outcome \in {[graph |-> Nothing, metadata |-> m]}
    BY <1>2 DEF LiveRegionMetadata
  <2>2. \/ outcome \in {[graph |-> Nothing, metadata |-> m]}
        \/ \E g \in Traversals : outcome = [graph |-> g, metadata |-> OwnedBy(m, LiveRegionOwnerInGraph(g, o))]
    BY <2>1 DEF RefreshForLiveRegionOwner
  <2> QED BY <2>2
<1>3. CASE CachedAtomicLiveRegionOwner(o) = Nothing
  BY <1>1, <1>2, <1>3 DEF ResolvedLiveRegionMetadata
<1>4. CASE CachedAtomicLiveRegionOwner(o) # Nothing
  BY <1>1, <1>4 DEF ResolvedLiveRegionMetadata
<1> QED
  BY <1>3, <1>4

LEMMA KnownGraph ==
  ASSUME Trees, NEW g, g = graph \/ g \in Traversals
  PROVE  Kin(workload, g)
BY TraversalsAreTrees DEF Trees

\* A tree that holds a secret's object holds all that is above it: it protects the object,
\* and every region around it that is inside a protected object.
LEMMA ConcealedIsProtected ==
  ASSUME Trees, NEW g, g = graph \/ g \in Traversals, NEW x \in DOMAIN workload.secrets, Has(g, x)
  PROVE  /\ IsProtected(g, x)
         /\ \A c \in ToSet(Ancestors(Everything(workload), x)) : Shielded(workload, c) => IsProtected(g, c)
<1> DEFINE all == Everything(workload)
<1>1. workload \in Workloads /\ Kin(workload, page) /\ Kin(workload, g) /\ x \in DOMAIN g
  BY KnownGraph DEF Trees, Has
<1>2. Protects(all[x]) \/ Shielded(workload, x)
  BY <1>1, ConcealedAre, SecretsAssumption
<1>3. ASSUME NEW c \in DOMAIN g, Shielded(workload, c) PROVE IsProtected(g, c)
  BY <1>1, <1>3, KinProtects DEF IsProtected
<1>4. ASSUME Protects(all[x]) PROVE IsProtected(g, x)
  <2>1. Protects(g[x]) /\ (x \in DOMAIN page => Protects(page[x]))
    BY <1>1, <1>4, KinProtects
  <2> QED BY <1>1, <2>1 DEF IsProtected, Has
<1>5. ToSet(Ancestors(all, x)) \subseteq DOMAIN g
  <2>1. Rooted(g) /\ Ancestors(g, x) = Ancestors(all, x)
    BY <1>1, KinAncestors
  <2>2. x \in Places
    BY <1>1, <2>1 DEF Rooted, Places
  <2>3. ToSet(Ancestors(g, x)) \subseteq DOMAIN g
    BY <2>1, <2>2, AncestorsType
  <2> QED BY <2>1, <2>3
<1> QED
  BY <1>1, <1>2, <1>3, <1>4, <1>5

\* An announcement tells what its text tells, unless its object is protected.
LEMMA EmitKeepsSecrets ==
  ASSUME workload \in Workloads, NEW g, NEW text, NEW o, NEW source, NEW priority,
         EmitLiveRegion(g, text, o, source, priority),
         NEW x \in DOMAIN workload.secrets, Tells(workload, x, text) => IsProtected(g, o)
  PROVE  NothingTold(x)
<1> DEFINE said == IF IsProtected(g, o) THEN Redacted ELSE text
<1>1. announced' = Nothing \/ announced' = [source |-> source, priority |-> priority, text |-> said]
  BY DEF EmitLiveRegion, SaysNothing
<1>2. ~Tells(workload, x, said)
  BY SecretsAssumption
<1> HIDE DEF said
<1> QED
  BY <1>1, <1>2 DEF NothingTold

\* Neither the text of an object nor that of the region around it tells a secret that the
\* graph knows to protect.
LEMMA SpeakKeepsSecrets ==
  ASSUME Trees, NEW g, g = graph \/ g \in Traversals, NEW m, NEW own, NEW o, NEW source, NEW reads,
         Speak(g, m, own, o, source, reads), Discreet(workload, o, own),
         NEW x \in DOMAIN workload.secrets, Has(g, x)
  PROVE  NothingTold(x)
<1>1. workload \in Workloads /\ Kin(workload, page) /\ Kin(workload, g)
  BY KnownGraph DEF Trees
<1>2. CASE ~(reads /\ Has(page, m.container))
  <2>1. EmitLiveRegion(g, own, o, source, m.priority)
    BY <1>2 DEF Speak
  <2>2. Tells(workload, x, own) => IsProtected(g, o)
    BY ConcealedIsProtected DEF Discreet
  <2> QED BY <1>1, <2>1, <2>2, EmitKeepsSecrets
<1>3. CASE reads /\ Has(page, m.container)
  <2> DEFINE c == m.container
  <2>1. EmitLiveRegion(g, Content(page, c), c, source, m.priority)
    BY <1>3 DEF Speak
  <2>2. ASSUME ~IsProtected(g, c) PROVE ~Tells(workload, x, Content(page, c))
    <3>1. c \in DOMAIN page
      BY <1>3 DEF Has
    <3>2. c \in ToSet(Ancestors(Everything(workload), x)) => ~Shielded(workload, c)
      BY <2>2, ConcealedIsProtected
    <3> QED BY <1>1, <3>1, <3>2, ContentKeepsSecrets
  <2> HIDE DEF c
  <2> QED BY <1>1, <2>1, <2>2, EmitKeepsSecrets
<1> QED
  BY <1>2, <1>3

\* What a reading remembers is below the region that was read.
LEMMA RememberKeepsOwners ==
  ASSUME Trees, OwnersAreAbove, NEW container, NEW reads, Remember(container, reads), workload' = workload
  PROVE  OwnersAreAbove'
<1>1. CASE atomicLiveRegionOwners' = atomicLiveRegionOwners
  BY <1>1 DEF OwnersAreAbove
<1>2. CASE /\ Has(page, container)
           /\ atomicLiveRegionOwners' =
                [x \in DOMAIN atomicLiveRegionOwners \cup Visited(container) |->
                   IF x \in Visited(container) THEN container ELSE atomicLiveRegionOwners[x]]
  <2>1. \A x \in Visited(container) : container \in ToSet(Ancestors(Everything(workload), x))
    BY <1>2, VisitedAreBelow DEF Trees, Visited, Has
  <2> QED BY <1>2, <2>1 DEF OwnersAreAbove
<1> QED
  BY <1>1, <1>2 DEF Remember

-----------------------------------------------------------------------------
(* The inductive invariant *)

IInv == Trees /\ SignalsKeepSecrets /\ OwnersAreAbove /\ KnownSecretsStayUnspoken

LEMMA InitIInv == Init => IInv
<1> SUFFICES ASSUME Init PROVE IInv
  OBVIOUS
<1>1. Trees
  BY InitTrees
<1>2. SignalsKeepSecrets
  BY DEF Init, SignalsKeepSecrets, ToSet
<1>3. OwnersAreAbove
  BY DEF Init, OwnersAreAbove
<1>4. KnownSecretsStayUnspoken
  BY DEF Init, KnownSecretsStayUnspoken
<1> QED
  BY <1>1, <1>2, <1>3, <1>4 DEF IInv

\* A change signals no more secrets than it makes.
LEMMA SignalKeepsSecrets ==
  ASSUME SignalsKeepSecrets, NEW list \in Seq(NativeSignal), Signal(list),
         \A s \in ToSet(list) : Discreet(workload, s.source, s.value)
  PROVE  SignalsKeepSecrets'
<1> DEFINE sent == [i \in DOMAIN list |-> [list[i] EXCEPT !.of = Len(changes) + 1]]
<1>1. /\ signals' = signals \o sent /\ changes' = Append(changes, "owed") /\ workload' = workload
      /\ signals \in Seq(NativeSignal) /\ changes \in Seq({"owed", "heard", "excused"})
  BY DEF Signal, SignalsKeepSecrets
<1>2. Len(changes) + 1 \in Nat
  BY <1>1
<1>3. ASSUME NEW i \in DOMAIN list
      PROVE  /\ sent[i] \in NativeSignal /\ sent[i].value = list[i].value /\ sent[i].source = list[i].source
             /\ list[i] \in ToSet(list)
  <2>1. list[i] \in NativeSignal
    OBVIOUS
  <2>2. sent[i] = [list[i] EXCEPT !.of = Len(changes) + 1]
    OBVIOUS
  <2> HIDE DEF sent
  <2> QED BY <1>2, <2>1, <2>2 DEF NativeSignal, ToSet
<1>4. DOMAIN list = 1..Len(list) /\ Len(list) \in Nat
  OBVIOUS
<1>5. sent \in Seq(NativeSignal)
  <2>1. sent \in [1..Len(list) -> NativeSignal]
    BY <1>3, <1>4
  <2> HIDE DEF sent
  <2> QED BY <1>4, <2>1, Listed
<1>6. \A s \in ToSet(sent) : Discreet(workload, s.source, s.value)
  BY <1>3 DEF ToSet
<1> HIDE DEF sent
<1>7. signals \o sent \in Seq(NativeSignal) /\ ToSet(signals \o sent) = ToSet(signals) \cup ToSet(sent)
  BY <1>1, <1>5, Joined
<1>8. changes' \in Seq({"owed", "heard", "excused"})
  BY <1>1
<1> QED
  BY <1>1, <1>6, <1>7, <1>8 DEF SignalsKeepSecrets

LEMMA SignalTypes ==
  ASSUME NEW source \in Places, NEW o \in Objects, NEW value \in Seq(Words),
         NEW relevance \in {"text", "additions", "removals", "any"}, NEW detail \in {"add", "remove"}
  PROVE  /\ TextChanged(source, o, value, relevance) \in NativeSignal
         /\ ChildrenChanged(source, o, detail) \in NativeSignal
BY DEF TextChanged, ChildrenChanged, NativeSignal

LEMMA EmbeddedType == EmbeddedText \in Seq(Words)
<1> DEFINE r == "embedded"
<1>1. EmbeddedText = <<r>>
  BY DEF EmbeddedText
<1> HIDE DEF r
<1>2. 1 \in DOMAIN <<r>> /\ <<r>>[1] = r
  OBVIOUS
<1>3. r \in Words
  BY <1>1, <1>2, ConstantsAssumption DEF ToSet
<1> QED BY <1>1, <1>3

LEMMA ChangesKeepSecrets ==
  ASSUME IInv, NEW list \in Seq(NativeSignal), Signal(list), Trees',
         \A s \in ToSet(list) : Discreet(workload, s.source, s.value)
  PROVE  IInv'
<1>1. SignalsKeepSecrets'
  BY SignalKeepsSecrets DEF IInv
<1>2. OwnersAreAbove' /\ KnownSecretsStayUnspoken'
  BY DEF IInv, Signal, OwnersAreAbove, KnownSecretsStayUnspoken, known
<1> QED
  BY <1>1, <1>2 DEF IInv

LEMMA InsertIInv ==
  ASSUME IInv, NEW o \in DOMAIN workload.inserts, Insert(o, workload.inserts[o])
  PROVE  IInv'
<1> DEFINE w == workload
           n == w.inserts[o]
<1>1. w \in Workloads /\ o \in Objects /\ n = Everything(w)[o] /\ n \in Node /\ o \in DOMAIN Everything(w)
  BY EverythingIsTree DEF IInv, Trees, WellTyped
<1>2. n.parent \in Places /\ n.text \in Seq(Words)
  BY <1>1 DEF Node, Places
<1>3. Discreet(w, o, n.text) /\ \A x \in DOMAIN w.secrets : ~Tells(w, x, EmbeddedText)
  BY <1>1, SecretsAssumption
<1> HIDE DEF n
<1>4. PICK text \in {TextChanged(o, o, n.text, "additions"), TextChanged(n.parent, o, EmbeddedText, "additions")} :
        Signal(<<text, ChildrenChanged(n.parent, o, "add")>>)
  BY DEF Insert, n
<1> DEFINE children == ChildrenChanged(n.parent, o, "add")
<1>5. text \in NativeSignal /\ children \in NativeSignal
  BY <1>1, <1>2, <1>4, SignalTypes, EmbeddedType DEF Places
<1>6. Discreet(w, text.source, text.value)
  <2>1. CASE text = TextChanged(o, o, n.text, "additions")
    <3>1. text.value = n.text /\ text.source = o
      BY <2>1 DEF TextChanged
    <3> QED BY <1>3, <3>1
  <2>2. CASE text = TextChanged(n.parent, o, EmbeddedText, "additions")
    <3>1. text.value = EmbeddedText
      BY <2>2 DEF TextChanged
    <3> QED BY <1>3, <3>1 DEF Discreet
  <2> QED BY <1>4, <2>1, <2>2
<1>7. Discreet(w, children.source, children.value)
  BY DEF ChildrenChanged, Discreet, Tells, ToSet
<1>8. Trees'
  BY InsertTrees DEF IInv
<1> HIDE DEF children
<1>9. <<text, children>> \in Seq(NativeSignal) /\ ToSet(<<text, children>>) = {text, children}
  BY <1>5, Couple
<1> QED
  BY <1>4, <1>6, <1>7, <1>8, <1>9, ChangesKeepSecrets DEF children

LEMMA EditIInv ==
  ASSUME IInv, NEW e \in workload.edits, Edit(e[1], e[2])
  PROVE  IInv'
<1> DEFINE w == workload
           o == e[1]
<1>1. w \in Workloads /\ o \in Objects /\ e[2] \in Seq(Words) /\ Discreet(w, o, e[2])
  BY ChangesAssumption, SecretsAssumption DEF IInv, Trees
<1>2. PICK s \in {TextChanged(o, o, e[2], "text"), PropertyChange(o, e[2])} : Signal(<<s>>)
  BY DEF Edit
<1>3. s \in NativeSignal /\ s.value = e[2] /\ s.source = o
  <2>1. TextChanged(o, o, e[2], "text") \in NativeSignal
    BY <1>1, SignalTypes DEF Places
  <2> HIDE DEF o
  <2>2. TextChanged(o, o, e[2], "text").value = e[2] /\ TextChanged(o, o, e[2], "text").source = o
    BY DEF TextChanged
  <2> QED BY <1>2, <2>1, <2>2 DEF PropertyChange, NativeSignal
<1>4. Trees'
  BY EditTrees DEF IInv
<1>5. <<s>> \in Seq(NativeSignal) /\ ToSet(<<s>>) = {s}
  BY <1>3, Single
<1> QED
  BY <1>1, <1>2, <1>3, <1>4, <1>5, ChangesKeepSecrets

LEMMA DeleteIInv ==
  ASSUME IInv, NEW o, Delete(o)
  PROVE  IInv'
<1> DEFINE s == ChildrenChanged(page[o].parent, o, "remove")
<1>1. page[o].parent \in Places /\ o \in Objects /\ Signal(<<s>>)
  BY KinAncestors DEF IInv, Trees, Delete, Rooted, Has
<1>2. s \in NativeSignal
  BY <1>1, SignalTypes, EmbeddedType
<1>3. Discreet(workload, s.source, s.value)
  BY DEF ChildrenChanged, Discreet, Tells, ToSet
<1>4. Trees'
  BY DeleteTrees DEF IInv
<1> HIDE DEF s
<1>5. <<s>> \in Seq(NativeSignal) /\ ToSet(<<s>>) = {s}
  BY <1>2, Single
<1> QED
  BY <1>1, <1>3, <1>4, <1>5, ChangesKeepSecrets

LEMMA AnnounceIInv ==
  ASSUME IInv, NEW a \in workload.announcements, Announce(a.source, a.text, a.priority)
  PROVE  IInv'
<1> DEFINE t == TextChanged(a.source, a.source, a.text, "any")
           s == [t EXCEPT !.name = "Announcement", !.priority = a.priority]
<1>1. /\ workload \in Workloads /\ a.source \in Objects /\ a.text \in Seq(Words)
      /\ a.priority \in {"polite", "assertive"}
      /\ Discreet(workload, a.source, a.text)
  BY ChangesAssumption, SecretsAssumption DEF IInv, Trees
<1>2. Signal(<<s>>) /\ UNCHANGED <<page, unsettled, graph, workload>>
  BY DEF Announce, Signal, pageVars, known
<1>3. t \in NativeSignal /\ t.value = a.text /\ t.source = a.source
  <2>1. t \in NativeSignal
    BY <1>1, SignalTypes DEF Places
  <2> QED BY <2>1 DEF TextChanged
<1> HIDE DEF t
<1>4. s \in NativeSignal /\ s.value = a.text /\ s.source = a.source
  BY <1>1, <1>3 DEF NativeSignal
<1>5. Trees'
  BY <1>2 DEF IInv, Trees
<1> HIDE DEF s
<1>6. <<s>> \in Seq(NativeSignal) /\ ToSet(<<s>>) = {s}
  BY <1>4, Single
<1> QED
  BY <1>1, <1>2, <1>4, <1>5, <1>6, ChangesKeepSecrets

-----------------------------------------------------------------------------
(* The handlers *)

\* What a handler of a signal does to the invariant.
Kept ==
  /\ graph' = graph \/ graph' \in Traversals
  /\ OwnersAreAbove'
  /\ \A x \in DOMAIN workload.secrets : Has(graph', x) => NothingTold(x)

LEMMA QuietKeeps ==
  ASSUME IInv, Quiet, graph' = graph \/ graph' \in Traversals, workload' = workload
  PROVE  Kept
BY DEF Kept, Quiet, SaysNothing, NothingTold, IInv, OwnersAreAbove

LEMMA SpeakKeeps ==
  ASSUME IInv, workload' = workload, NEW g, g = graph \/ g \in Traversals, graph' = g,
         NEW m, NEW own, NEW o, NEW source, NEW reads,
         Speak(g, m, own, o, source, reads), Discreet(workload, o, own)
  PROVE  Kept
<1>1. Remember(m.container, reads)
  BY DEF Speak
<1>2. OwnersAreAbove'
  BY <1>1, RememberKeepsOwners DEF IInv
<1>3. ASSUME NEW x \in DOMAIN workload.secrets, Has(graph', x) PROVE NothingTold(x)
  BY <1>3, SpeakKeepsSecrets DEF IInv
<1> QED
  BY <1>2, <1>3 DEF Kept

LEMMA GraphOfOutcome ==
  ASSUME NEW o, NEW outcome \in Asked(o)
  PROVE  GraphOf(outcome) = graph \/ GraphOf(outcome) \in Traversals
BY OutcomeGraph DEF GraphOf

LEMMA TextChangeKeeps ==
  ASSUME IInv, workload' = workload, NEW s, Has(page, s.source),
         Discreet(workload, s.source, s.value), HandleLiveTextChange(s)
  PROVE  Kept
<1>1. PICK outcome \in Asked(s.source) :
        LET m == outcome.metadata
            insertion == m.containerOwned /\ s.source = m.container
        IN /\ graph' = GraphOf(outcome)
           /\ \/ Quiet
              \/ Speak(GraphOf(outcome), m, s.value, s.source, s.source, insertion \/ m.atomic)
  BY DEF HandleLiveTextChange, Learn
<1> DEFINE g == GraphOf(outcome)
           m == outcome.metadata
           reads == (m.containerOwned /\ s.source = m.container) \/ m.atomic
<1>2. graph' = g /\ (g = graph \/ g \in Traversals)
  BY <1>1, GraphOfOutcome
<1>4. CASE Quiet
  BY <1>2, <1>4, QuietKeeps
<1>5. CASE Speak(g, m, s.value, s.source, s.source, reads)
  <2> HIDE DEF g, m, reads
  <2> QED BY <1>2, <1>5, SpeakKeeps
<1> QED
  BY <1>1, <1>4, <1>5

LEMMA ChildrenChangeKeeps ==
  ASSUME IInv, workload' = workload, NEW s, Has(page, s.source), HandleLiveChildrenChange(s)
  PROVE  Kept
<1> DEFINE changed == IF Has(page, s.object) THEN s.object ELSE s.source
           Text(g) == IF ProtectsNodeContent(g, changed) THEN Redacted ELSE page[changed].text
<1>1. PICK outcome \in Asked(s.source) :
        /\ graph' = GraphOf(outcome)
        /\ \/ Quiet
           \/ Speak(GraphOf(outcome), outcome.metadata, Text(GraphOf(outcome)), changed, s.source,
                    outcome.metadata.atomic)
  BY DEF HandleLiveChildrenChange, Learn
<1> DEFINE g == GraphOf(outcome)
           m == outcome.metadata
<1>2. graph' = g /\ (g = graph \/ g \in Traversals)
  BY <1>1, GraphOfOutcome
<1>3. Discreet(workload, changed, Text(g))
  <2>1. changed \in DOMAIN page /\ workload \in Workloads /\ Kin(workload, page)
    BY DEF IInv, Trees, Has
  <2>2. Discreet(workload, changed, Redacted)
    BY <2>1, SecretsAssumption DEF Discreet
  <2>3. Discreet(workload, changed, page[changed].text)
    BY <2>1 DEF Kin
  <2> QED BY <2>2, <2>3
<1>4. CASE Quiet
  BY <1>2, <1>4, QuietKeeps
<1>5. CASE Speak(g, m, Text(g), changed, s.source, m.atomic)
  <2> HIDE DEF g, m, Text, changed
  <2> QED BY <1>2, <1>3, <1>5, SpeakKeeps
<1> QED
  BY <1>1, <1>4, <1>5

LEMMA PropertyChangeKeeps ==
  ASSUME IInv, workload' = workload, NEW s, Has(page, s.source),
         Discreet(workload, s.source, s.value), HandleLivePropertyChange(s)
  PROVE  Kept
<1>1. PICK outcome \in Asked(s.source) :
        /\ graph' = GraphOf(outcome)
        /\ \/ Quiet
           \/ Speak(GraphOf(outcome), outcome.metadata, s.value, s.source, s.source, outcome.metadata.atomic)
  BY DEF HandleLivePropertyChange, Learn
<1> DEFINE g == GraphOf(outcome)
           m == outcome.metadata
<1>2. graph' = g /\ (g = graph \/ g \in Traversals)
  BY <1>1, GraphOfOutcome
<1>4. CASE Quiet
  BY <1>2, <1>4, QuietKeeps
<1>5. CASE Speak(g, m, s.value, s.source, s.source, m.atomic)
  <2> HIDE DEF g, m
  <2> QED BY <1>2, <1>5, SpeakKeeps
<1> QED
  BY <1>1, <1>4, <1>5

LEMMA AnnouncementKeeps ==
  ASSUME IInv, workload' = workload, NEW s,
         Discreet(workload, s.source, s.value), HandleAnnouncement(s)
  PROVE  Kept
<1>1. graph' = graph /\ OwnersAreAbove'
  BY DEF HandleAnnouncement, known, IInv, OwnersAreAbove
<1>2. CASE SaysNothing
  BY <1>1, <1>2 DEF Kept, SaysNothing, NothingTold
<1>3. CASE /\ Has(page, s.source) \/ Has(graph, s.source) \/ ProtectsNodeContent(graph, s.source)
           /\ EmitLiveRegion(graph, s.value, s.source, s.source, s.priority)
  <2>1. ASSUME NEW x \in DOMAIN workload.secrets, Has(graph', x) PROVE NothingTold(x)
    <3>1. Tells(workload, x, s.value) => IsProtected(graph, s.source)
      BY <1>1, <2>1, ConcealedIsProtected DEF IInv, Discreet
    <3> QED BY <1>3, <3>1, EmitKeepsSecrets DEF IInv, Trees
  <2> QED BY <1>1, <2>1 DEF Kept
<1> QED
  BY <1>2, <1>3 DEF HandleAnnouncement

LEMMA JudgeType ==
  ASSUME NEW s, changes \in Seq({"owed", "heard", "excused"}), Judge(s)
  PROVE  changes' \in Seq({"owed", "heard", "excused"})
<1> DEFINE Fates == {"owed", "heard", "excused"}
           fate == IF changes[s.of] = "heard" \/ HeardBy(s) THEN "heard"
                   ELSE IF Excused(s) THEN "excused" ELSE changes[s.of]
<1>1. changes' = [changes EXCEPT ![s.of] = fate]
  BY DEF Judge
<1>2. s.of \in DOMAIN changes => fate \in Fates
  OBVIOUS
<1>3. changes \in [1..Len(changes) -> Fates] /\ Len(changes) \in Nat
  OBVIOUS
<1> HIDE DEF fate, Fates
<1>4. changes' \in [1..Len(changes) -> Fates]
  BY <1>1, <1>2, <1>3
<1>5. changes' \in Seq(Fates)
  BY <1>3, <1>4, Listed
<1> QED
  BY <1>5 DEF Fates

LEMMA HandleIInv ==
  ASSUME IInv, NEW i \in DOMAIN signals, HandleNativeEvent(i)
  PROVE  IInv'
<1> DEFINE s == signals[i]
<1>1. /\ signals \in Seq(NativeSignal) /\ i \in 1..Len(signals) /\ s \in ToSet(signals) /\ s \in NativeSignal
      /\ changes \in Seq({"owed", "heard", "excused"})
  BY DEF IInv, SignalsKeepSecrets, ToSet
<1>2. Discreet(workload, s.source, s.value)
  BY <1>1 DEF IInv, SignalsKeepSecrets
<1>3. /\ signals' = RemoveAt(signals, i) /\ workload' = workload /\ page' = page /\ unsettled' = unsettled
      /\ Judge(s)
      /\ \/ Has(page, s.source) /\ HandleLiveTextChange(s)
         \/ Has(page, s.source) /\ HandleLiveChildrenChange(s)
         \/ Has(page, s.source) /\ HandleLivePropertyChange(s)
         \/ HandleAnnouncement(s)
         \/ SaysNothing /\ UNCHANGED known
  BY DEF HandleNativeEvent, pageVars
<1>4. Kept
  <2>1. ASSUME SaysNothing, UNCHANGED known PROVE Kept
    BY <1>3, <2>1 DEF Kept, SaysNothing, known, NothingTold, IInv, OwnersAreAbove
  <2> HIDE DEF s
  <2> QED BY <1>2, <1>3, <2>1, TextChangeKeeps, ChildrenChangeKeeps, PropertyChangeKeeps, AnnouncementKeeps
<1>5. Trees'
  BY <1>3, <1>4, KnownGraph DEF Kept, IInv, Trees
<1>6. SignalsKeepSecrets'
  <2>1. signals' \in Seq(NativeSignal) /\ ToSet(signals') \subseteq ToSet(signals)
    BY <1>1, <1>3, RemovedAt
  <2>2. changes' \in Seq({"owed", "heard", "excused"})
    BY <1>1, <1>3, JudgeType
  <2> QED BY <1>3, <2>1, <2>2 DEF IInv, SignalsKeepSecrets
<1>7. KnownSecretsStayUnspoken'
  BY <1>3, <1>4 DEF Kept, NothingTold, KnownSecretsStayUnspoken, Tells, Has
<1> QED
  BY <1>4, <1>5, <1>6, <1>7 DEF IInv, Kept

LEMMA StepIInv == IInv /\ [Next]_vars => IInv'
<1> SUFFICES ASSUME IInv, [Next]_vars PROVE IInv'
  OBVIOUS
<1>1. ASSUME NEW o \in DOMAIN workload.inserts, Insert(o, workload.inserts[o]) PROVE IInv'
  BY <1>1, InsertIInv
<1>2. ASSUME NEW e \in workload.edits, Edit(e[1], e[2]) PROVE IInv'
  BY <1>2, EditIInv
<1>3. ASSUME NEW o \in workload.removed, Delete(o) PROVE IInv'
  BY <1>3, DeleteIInv
<1>4. ASSUME NEW a \in workload.announcements, Announce(a.source, a.text, a.priority) PROVE IInv'
  BY <1>4, AnnounceIInv
<1>5. ASSUME NEW a \in workload.attributes, SetAttribute(a.object, a.field, a.value) PROVE IInv'
  <2>1. Trees'
    BY <1>5, AttributeTrees DEF IInv
  <2> QED BY <1>5, <2>1 DEF SetAttribute, known, IInv, SignalsKeepSecrets, OwnersAreAbove, KnownSecretsStayUnspoken
<1>6. CASE Settle
  BY <1>6 DEF Settle, known, IInv, Trees, SignalsKeepSecrets, OwnersAreAbove, KnownSecretsStayUnspoken
<1>7. CASE Elapse
  BY <1>7 DEF Elapse, known, pageVars, IInv, Trees, SignalsKeepSecrets, OwnersAreAbove, KnownSecretsStayUnspoken
<1>8. CASE Refresh
  <2>1. Kin(workload, graph')
    BY <1>8, TraversalsAreTrees DEF Refresh, IInv
  <2> QED BY <1>8, <2>1
       DEF Refresh, pageVars, IInv, Trees, SignalsKeepSecrets, OwnersAreAbove, KnownSecretsStayUnspoken
<1>9. CASE SetPresentationSettings
  BY <1>9
  DEF SetPresentationSettings, known, pageVars, IInv, Trees, SignalsKeepSecrets, OwnersAreAbove, KnownSecretsStayUnspoken
<1>10. CASE SealOutputs
  BY <1>10 DEF SealOutputs, known, pageVars, IInv, Trees, SignalsKeepSecrets, OwnersAreAbove, KnownSecretsStayUnspoken
<1>11. CASE BeginSession
  BY <1>11 DEF BeginSession, pageVars, IInv, Trees, SignalsKeepSecrets, OwnersAreAbove, KnownSecretsStayUnspoken
<1>12. ASSUME NEW i \in DOMAIN signals, HandleNativeEvent(i) PROVE IInv'
  BY <1>12, HandleIInv
<1>13. CASE UNCHANGED vars
  BY <1>13 DEF vars, IInv, Trees, SignalsKeepSecrets, OwnersAreAbove, KnownSecretsStayUnspoken
<1> QED
  BY <1>1, <1>2, <1>3, <1>4, <1>5, <1>6, <1>7, <1>8, <1>9, <1>10, <1>11, <1>12, <1>13 DEF Next

LEMMA Invariant == Spec => []IInv
BY InitIInv, StepIInv, PTL DEF Spec

\* No announcement has a secret of an object that the graph holds by then, whatever tree
\* was read, whichever region was spoken, and whether the object is still there
\* (engine.go:3409-3435).
THEOREM SecretsCorrect == Spec => []KnownSecretsStayUnspoken
<1>1. IInv => KnownSecretsStayUnspoken
  BY DEF IInv
<1> QED
  BY <1>1, Invariant, PTL

-----------------------------------------------------------------------------
(* The signal that a step handled *)

LEMMA RemoveAtElements ==
  ASSUME NEW S, NEW s \in Seq(S), NEW i \in 1..Len(s), NEW k \in 1..Len(s) - 1
  PROVE  RemoveAt(s, i)[k] = IF k < i THEN s[k] ELSE s[k + 1]
<1> DEFINE a == SubSeq(s, 1, i - 1)
           b == SubSeq(s, i + 1, Len(s))
<1>1. Len(s) \in Nat /\ i \in Nat /\ k \in Nat /\ 1 <= i /\ i <= Len(s) /\ 1 <= k /\ k <= Len(s) - 1
  OBVIOUS
<1>2. a \in Seq(S) /\ b \in Seq(S) /\ Len(a) = i - 1 /\ Len(b) = Len(s) - i
  BY <1>1
<1>3. \A m \in 1..i - 1 : a[m] = s[m]
  BY <1>1
<1>4. \A m \in 1..Len(s) - i : b[m] = s[m + i]
  BY <1>1
<1>5. RemoveAt(s, i) = a \o b
  BY DEF RemoveAt
<1> HIDE DEF a, b
<1>6. CASE k < i
  <2>1. (a \o b)[k] = a[k]
    BY <1>1, <1>2, <1>6
  <2>2. a[k] = s[k]
    BY <1>1, <1>3, <1>6
  <2> QED BY <1>5, <1>6, <2>1, <2>2
<1>7. CASE k >= i
  <2>1. (a \o b)[k] = b[k - (i - 1)]
    BY <1>1, <1>2, <1>7
  <2>2. k - (i - 1) \in 1..Len(s) - i /\ (k - (i - 1)) + i = k + 1
    BY <1>1, <1>7
  <2>3. b[k - (i - 1)] = s[k + 1]
    BY <1>4, <2>2
  <2> QED BY <1>1, <1>5, <1>7, <2>1, <2>3
<1> QED
  BY <1>1, <1>6, <1>7

\* Only equal elements can be removed with the same result.
LEMMA SameRemoved ==
  ASSUME NEW S, NEW s \in Seq(S), NEW i \in 1..Len(s), NEW j \in 1..Len(s), i < j,
         RemoveAt(s, i) = RemoveAt(s, j)
  PROVE  s[i] = s[j]
<1> DEFINE P == {n \in Nat : i + n <= j => s[i + n] = s[i]}
<1>1. Len(s) \in Nat
  OBVIOUS
<1>2. 0 \in P
  OBVIOUS
<1>3. ASSUME NEW n \in Nat, n \in P PROVE n + 1 \in P
  <2> SUFFICES ASSUME i + (n + 1) <= j PROVE s[i + (n + 1)] = s[i]
    OBVIOUS
  <2> DEFINE k == i + n
  <2>1. k \in 1..Len(s) - 1 /\ k < j /\ ~(k < i) /\ k + 1 = i + (n + 1)
    BY <1>1
  <2>2. RemoveAt(s, i)[k] = s[k + 1]
    <3> HIDE DEF k
    <3>1. RemoveAt(s, i)[k] = IF k < i THEN s[k] ELSE s[k + 1]
      BY <2>1, RemoveAtElements
    <3> QED BY <2>1, <3>1
  <2>3. RemoveAt(s, j)[k] = s[k]
    <3> HIDE DEF k
    <3>1. RemoveAt(s, j)[k] = IF k < j THEN s[k] ELSE s[k + 1]
      BY <2>1, RemoveAtElements
    <3> QED BY <2>1, <3>1
  <2>4. s[k] = s[i]
    BY <1>3, <2>1
  <2> QED BY <2>1, <2>2, <2>3, <2>4
<1>4. Nat \subseteq P
  <2> HIDE DEF P
  <2> QED BY <1>2, <1>3, InductionOver
<1>5. j - i \in Nat /\ i + (j - i) = j
  OBVIOUS
<1>6. j - i \in P
  BY <1>4, <1>5
<1> QED
  BY <1>5, <1>6

\* So the signal that a step handled is the one that it took from the queue.
LEMMA HandledSignal ==
  ASSUME signals \in Seq(NativeSignal), NEW i \in DOMAIN signals, signals' = RemoveAt(signals, i),
         NEW s \in HandledSignals
  PROVE  s = signals[i]
<1>1. PICK j \in DOMAIN signals : s = signals[j] /\ signals' = RemoveAt(signals, j)
  BY DEF HandledSignals
<1>2. i \in 1..Len(signals) /\ j \in 1..Len(signals) /\ RemoveAt(signals, i) = RemoveAt(signals, j)
  BY <1>1
<1>3. CASE i < j
  BY <1>1, <1>2, <1>3, SameRemoved
<1>4. CASE j < i
  BY <1>1, <1>2, <1>4, SameRemoved
<1> QED
  BY <1>1, <1>2, <1>3, <1>4

-----------------------------------------------------------------------------
(* The region of an object *)

LEMMA FirstOfIsIn ==
  ASSUME NEW path \in Seq(Objects), NEW objects, FirstOf(path, objects) # Nothing
  PROVE  FirstOf(path, objects) \in ToSet(path) \cap objects
<1> DEFINE found == {i \in DOMAIN path : path[i] \in objects}
<1>1. found # {} /\ FirstOf(path, objects) = path[Min(found)]
  BY DEF FirstOf
<1>2. found \subseteq Nat
  OBVIOUS
<1>3. Min(found) \in found
  <2> HIDE DEF found
  <2> QED BY <1>1, <1>2, MinOfSome
<1> QED
  BY <1>1, <1>3 DEF ToSet

\* A region is an ancestor that has the attribute, or the role for it.
LEMMA RegionIsAbove ==
  ASSUME NEW tree, WellTyped(tree), Rooted(tree), NEW o \in DOMAIN tree, Region(tree, o) # Nothing
  PROVE  /\ Region(tree, o) \in ToSet(Ancestors(tree, o)) /\ Region(tree, o) \in DOMAIN tree
         /\ tree[Region(tree, o)].live # "off" => LiveOf(tree[Region(tree, o)]) # ""
<1> DEFINE r == Region(tree, o)
           regions == {x \in DOMAIN tree : tree[x].live # "" \/ LiveOf(tree[x]) # ""}
<1>1. o \in Places
  BY DEF Rooted, Places
<1>2. Ancestors(tree, o) \in Seq(Objects)
  BY <1>1, AncestorsType
<1>3. r \in ToSet(Ancestors(tree, o)) \cap regions
  BY <1>2, FirstOfIsIn DEF Region
<1> HIDE DEF r
<1>4. r \in DOMAIN tree /\ (tree[r].live # "" \/ LiveOf(tree[r]) # "")
  BY <1>3
<1>5. tree[r].live \in {"", "off", "polite", "assertive"}
  BY <1>4 DEF WellTyped, Node, AttributeValues
<1>6. tree[r].live \in {"assertive", "polite"} => LiveOf(tree[r]) = tree[r].live
  BY DEF LiveOf
<1> QED
  BY <1>3, <1>4, <1>5, <1>6 DEF r

\* What a node says of the region it is in.
LEMMA ContainerLive ==
  ASSUME NEW tree, WellTyped(tree), Rooted(tree), NEW o \in DOMAIN tree,
         Attributes(tree, o).containerLive # {}, "off" \notin Attributes(tree, o).containerLive
  PROVE  \E r \in ToSet(Ancestors(tree, o)) : r \in DOMAIN tree /\ LiveOf(tree[r]) # ""
<1> DEFINE r == Region(tree, o)
<1>1. r # Nothing /\ (tree[r].live = "off" => "off" \in Attributes(tree, o).containerLive)
  BY DEF Attributes
<1> QED
  BY <1>1, RegionIsAbove

LEMMA AttributesOf ==
  ASSUME NEW tree, NEW o
  PROVE  /\ Attributes(tree, o).own = LiveOf(tree[o]) /\ Attributes(tree, o).live = tree[o].live
BY DEF Attributes

\* What ends the way from an object up.
Stopping(a) == a.busy \/ a.live = "off" \/ a.own # "" \/ "off" \in a.containerLive

\* A path that makes an object live has a region on it, or only the object's word for one.
LEMMA LiveAlong ==
  ASSUME NEW S, NEW path \in Seq(S), MetadataAlong(path).live
  PROVE  \/ MetadataAlong(path).containerOwned /\ \E i \in 1..Len(path) : path[i].own # ""
         \/ /\ \A i \in 1..Len(path) : ~Stopping(path[i])
            /\ \E i \in 1..Len(path) : path[i].containerLive # {}
<1> DEFINE n == Len(path)
           stops == {i \in 1..n : Stopping(path[i])}
           last == IF stops = {} THEN n ELSE Min(stops)
           atomic == \E i \in 1..last : path[i].atomic
           told == {i \in 1..last : path[i].relevant # {}}
           relevant == IF told = {} THEN {"additions", "text"} ELSE path[Max(told)].relevant
           a == path[last]
           inherited == {i \in 1..n : path[i].containerLive # {}}
           word == path[Min(inherited)]
           m == MetadataAlong(path)
<1>1. m = IF stops # {}
            THEN IF a.busy \/ a.live = "off" \/ a.own = "" THEN Silent
                 ELSE Live(a.own, atomic, relevant, a.object, TRUE)
            ELSE IF inherited = {} THEN Silent
                 ELSE Live(CHOOSE p \in word.containerLive : TRUE, atomic, relevant, word.object, FALSE)
  BY DEF MetadataAlong, Stopping
<1>2. ~Silent.live
  BY DEF Silent
<1>3. CASE stops = {}
  <2>1. inherited # {}
    <3> HIDE DEF stops, inherited
    <3> QED BY <1>1, <1>2, <1>3
  <2> QED BY <1>3, <2>1
<1>4. CASE stops # {}
  <2>1. last \in 1..n
    <3>1. stops \subseteq Nat
      OBVIOUS
    <3>2. Min(stops) \in stops
      <4> HIDE DEF stops
      <4> QED BY <1>4, <3>1, MinOfSome
    <3> QED BY <1>4, <3>2
  <2> HIDE DEF stops, last, atomic, relevant
  <2>2. a.own # "" /\ m = Live(a.own, atomic, relevant, a.object, TRUE)
    <3> HIDE DEF m
    <3>1. m.live
      BY DEF m
    <3> QED BY <1>1, <1>2, <1>4, <3>1
  <2>3. m.containerOwned
    <3> HIDE DEF m
    <3>1. m.containerOwned = TRUE
      BY <2>2 DEF Live
    <3> QED BY <3>1
  <2> QED BY <2>1, <2>2, <2>3
<1> QED
  BY <1>3, <1>4

\* A part of the graph that is looked at together with all that is above it.
Above(objects, path) ==
  /\ path \in Seq(Objects) /\ ToSet(path) \subseteq DOMAIN graph \cap objects
  /\ \A y \in ToSet(path) : ToSet(Ancestors(graph, y)) \subseteq ToSet(path)

\* The page and the graph are parts of one tree.
LEMMA OneTree ==
  ASSUME Trees, NEW o \in DOMAIN page
  PROVE  /\ Rooted(Everything(workload)) /\ NotTooDeep(Everything(workload)) /\ WellTyped(page) /\ Rooted(page)
         /\ o \in DOMAIN Everything(workload) /\ o \in Places
         /\ Ancestors(page, o) = Ancestors(Everything(workload), o) /\ o \in ToSet(Ancestors(page, o))
         /\ \A x \in DOMAIN graph \cup {Nothing} : Ancestors(graph, x) = Ancestors(Everything(workload), x)
         /\ ToSet(Ancestors(Everything(workload), Everything(workload)[o].parent)) \subseteq ToSet(Ancestors(page, o))
<1> DEFINE all == Everything(workload)
<1>1. workload \in Workloads /\ Kin(workload, page) /\ Kin(workload, graph)
  BY DEF Trees
<1>2. Rooted(all) /\ NotTooDeep(all)
  BY <1>1, EverythingIsTree
<1>3. o \in DOMAIN all
  BY <1>1 DEF Kin
<1>4. /\ Rooted(page) /\ WellTyped(page)
      /\ \A x \in DOMAIN page \cup {Nothing} : Ancestors(page, x) = Ancestors(all, x)
  BY <1>1, KinAncestors
<1>5. \A x \in DOMAIN graph \cup {Nothing} : Ancestors(graph, x) = Ancestors(all, x)
  BY <1>1, KinAncestors
<1>6. o \in Places
  BY <1>2, <1>3 DEF Rooted, Places
<1>7. Len(Ancestors(all, o)) < depthLimit
  BY <1>2, <1>3 DEF NotTooDeep
<1>8. ToSet(Ancestors(all, o)) = {o} \cup ToSet(Ancestors(all, all[o].parent))
  BY <1>2, <1>3, <1>7, AncestorsUp
<1>9. Ancestors(page, o) = Ancestors(all, o)
  BY <1>4
<1> HIDE DEF all
<1>10. ToSet(Ancestors(page, o)) = {o} \cup ToSet(Ancestors(all, all[o].parent))
  BY <1>8, <1>9
<1> QED
  BY <1>2, <1>3, <1>4, <1>5, <1>6, <1>9, <1>10 DEF all

LEMMA AncestorsAreAbove ==
  ASSUME Trees, NEW o \in DOMAIN page, NEW z \in DOMAIN graph \cup {Nothing},
         ToSet(Ancestors(graph, z)) \subseteq ToSet(Ancestors(page, o))
  PROVE  Above(ToSet(Ancestors(page, o)), Ancestors(graph, z))
<1>1. Rooted(graph) /\ NotTooDeep(graph) /\ z \in Places
  BY KinAncestors DEF Trees, Rooted, Places
<1> QED
  BY <1>1, AncestorsType, AncestorsOfAncestor DEF Above

\* The parents that the metadata are taken from are above the object on the page, too.
LEMMA ParentsAreAbove ==
  ASSUME Trees, NEW o \in DOMAIN page, NEW memberOf, memberOf \subseteq ToSet(Ancestors(page, o))
  PROVE  Above(ToSet(Ancestors(page, o)), Parents(o, memberOf))
<1> DEFINE all == Everything(workload)
           owners == {r \in memberOf : Has(graph, r) /\ o \in ToSet(graph[r].children)
                                       /\ DefinesLiveRegion(graph[r])}
           r == CHOOSE x \in owners : TRUE
<1>1. /\ Rooted(all) /\ NotTooDeep(all) /\ o \in DOMAIN all
      /\ Ancestors(page, o) = Ancestors(all, o)
      /\ \A x \in DOMAIN graph \cup {Nothing} : Ancestors(graph, x) = Ancestors(all, x)
      /\ ToSet(Ancestors(all, all[o].parent)) \subseteq ToSet(Ancestors(page, o))
  BY OneTree
<1>2. CASE Has(graph, o)
  <2>1. graph[o].parent \in DOMAIN graph \cup {Nothing} /\ graph[o].parent = all[o].parent
    BY <1>2 DEF Trees, Kin, Has
  <2> QED BY <1>1, <1>2, <2>1, AncestorsAreAbove DEF Parents
<1>3. CASE ~Has(graph, o) /\ owners # {}
  <2>1. r \in memberOf /\ r \in DOMAIN graph
    BY <1>3 DEF Has
  <2> HIDE DEF r
  <2>2. ToSet(Ancestors(graph, r)) \subseteq ToSet(Ancestors(page, o))
    BY <1>1, <2>1, AncestorsOfAncestor DEF Rooted, Places
  <2>3. Above(ToSet(Ancestors(page, o)), Ancestors(graph, r))
    BY <2>1, <2>2, AncestorsAreAbove
  <2> QED BY <1>3, <2>3 DEF Parents, r
<1>4. CASE ~Has(graph, o) /\ owners = {}
  BY <1>4 DEF Parents, Above, ToSet
<1> QED
  BY <1>2, <1>3, <1>4

\* Without a region on a part of the graph, nothing there names one.
LEMMA NoRegionNoWord ==
  ASSUME Trees, NEW objects, NEW path, Above(objects, path),
         \A i \in DOMAIN path : ~Stopping(Attributes(graph, path[i])),
         NEW i \in DOMAIN path
  PROVE  Attributes(graph, path[i]).containerLive = {}
<1> SUFFICES ASSUME Attributes(graph, path[i]).containerLive # {} PROVE FALSE
  OBVIOUS
<1>1. /\ Rooted(graph) /\ WellTyped(graph) /\ path[i] \in DOMAIN graph /\ path[i] \in ToSet(path)
  BY KinAncestors DEF Trees, Above, ToSet
<1>2. PICK r \in ToSet(Ancestors(graph, path[i])) : LiveOf(graph[r]) # ""
  BY <1>1, ContainerLive DEF Stopping
<1>3. PICK j \in DOMAIN path : path[j] = r
  BY <1>1, <1>2 DEF Above, ToSet
<1> QED
  BY <1>2, <1>3, AttributesOf DEF Stopping

\* There is a region around an object, on the page or as the graph has its ancestors.
Listening(g, o) ==
  \E x \in ToSet(Ancestors(page, o)) : LiveOf(page[x]) # "" \/ (Has(g, x) /\ LiveOf(g[x]) # "")

LEMMA GraphAttributes ==
  ASSUME NEW path \in Seq(Objects)
  PROVE  LET told == [i \in DOMAIN path |-> Attributes(graph, path[i])]
         IN told \in Seq({Attributes(graph, x) : x \in ToSet(path)}) /\ Len(told) = Len(path)
<1> DEFINE told == [i \in DOMAIN path |-> Attributes(graph, path[i])]
           S == {Attributes(graph, x) : x \in ToSet(path)}
<1>1. DOMAIN path = 1..Len(path) /\ Len(path) \in Nat
  OBVIOUS
<1>2. told \in [1..Len(path) -> S]
  BY <1>1 DEF ToSet
<1> HIDE DEF told, S
<1>3. told \in Seq(S) /\ Len(told) = Len(path)
  BY <1>1, <1>2, Listed
<1> QED
  BY <1>3 DEF told, S

\* A remembered region is one that the graph still has.
LEMMA RememberedIsLive ==
  ASSUME Trees, OwnersAreAbove, NEW o \in DOMAIN page, CachedAtomicLiveRegionOwner(o) # Nothing,
         MetadataAlong([i \in DOMAIN Ancestors(graph, CachedAtomicLiveRegionOwner(o)) |->
                          Attributes(graph, Ancestors(graph, CachedAtomicLiveRegionOwner(o))[i])]).live
  PROVE  Listening(graph, o)
<1> DEFINE owner == CachedAtomicLiveRegionOwner(o)
           path == Ancestors(graph, owner)
           told == [i \in DOMAIN path |-> Attributes(graph, path[i])]
           all == Everything(workload)
<1>1. o \in DOMAIN atomicLiveRegionOwners /\ owner = atomicLiveRegionOwners[o] /\ owner \in DOMAIN graph
  BY DEF CachedAtomicLiveRegionOwner, Has
<1> HIDE DEF owner
<1>2. /\ NotTooDeep(all) /\ o \in DOMAIN all /\ o \in Places
      /\ Ancestors(page, o) = Ancestors(all, o) /\ path = Ancestors(all, owner)
  BY <1>1, OneTree
<1>3. ToSet(path) \subseteq ToSet(Ancestors(page, o))
  BY <1>1, <1>2, AncestorsOfAncestor DEF OwnersAreAbove
<1>4. Above(ToSet(Ancestors(page, o)), path)
  BY <1>1, <1>3, AncestorsAreAbove
<1> HIDE DEF path
<1>5. path \in Seq(Objects) /\ DOMAIN path = 1..Len(path)
  BY <1>4 DEF Above
<1>6. told \in Seq({Attributes(graph, x) : x \in ToSet(path)}) /\ Len(told) = Len(path)
  BY <1>5, GraphAttributes
<1>7. \A i \in DOMAIN path : told[i] = Attributes(graph, path[i])
  OBVIOUS
<1>8. MetadataAlong(told).live
  BY DEF owner, path
<1> HIDE DEF told
<1>9. CASE \E i \in 1..Len(told) : told[i].own # ""
  <2>1. PICK i \in DOMAIN path : Attributes(graph, path[i]).own # ""
    <3>1. PICK i \in 1..Len(told) : told[i].own # ""
      BY <1>9
    <3>2. i \in DOMAIN path /\ told[i] = Attributes(graph, path[i])
      BY <1>5, <1>6, <1>7
    <3> QED BY <3>1, <3>2
  <2>2. LiveOf(graph[path[i]]) # "" /\ path[i] \in ToSet(path)
    BY <2>1, AttributesOf DEF ToSet
  <2> QED BY <1>4, <2>2 DEF Listening, Above, Has
<1>10. CASE /\ \A i \in 1..Len(told) : ~Stopping(told[i])
            /\ \E i \in 1..Len(told) : told[i].containerLive # {}
  <2>1. \A i \in DOMAIN path : ~Stopping(Attributes(graph, path[i]))
    BY <1>5, <1>6, <1>7, <1>10
  <2>2. \A i \in DOMAIN path : told[i].containerLive = {}
    BY <1>4, <1>7, <2>1, NoRegionNoWord
  <2> QED BY <1>5, <1>6, <1>10, <2>2
<1> QED
  BY <1>6, <1>8, <1>9, <1>10, LiveAlong

\* What an object's own attributes and those above it in the graph make of it.
LEMMA MetadataIsLive ==
  ASSUME Trees, NEW o \in DOMAIN page, NEW memberOf, memberOf \subseteq ToSet(Ancestors(page, o)),
         NEW outcome \in LiveRegionMetadata(o, memberOf), outcome.metadata.live
  PROVE  Listening(GraphOf(outcome), o)
<1> DEFINE above == Parents(o, memberOf)
           told == [i \in DOMAIN above |-> Attributes(graph, above[i])]
           path == <<Attributes(page, o)>> \o told
           m == MetadataAlong(path)
           S == {Attributes(page, o)} \cup {Attributes(graph, x) : x \in ToSet(above)}
<1>1. Above(ToSet(Ancestors(page, o)), above)
  BY ParentsAreAbove
<1>2. m.live /\ (m.containerOwned => GraphOf(outcome) = graph)
  <2> DEFINE asks == m.live /\ ~m.containerOwned /\ m.atomic
  <2>1. outcome \in IF asks THEN RefreshForLiveRegionOwner(o, m) ELSE {[graph |-> Nothing, metadata |-> m]}
    BY DEF LiveRegionMetadata
  <2> HIDE DEF m
  <2>2. CASE asks
    BY <2>2
  <2>3. CASE ~asks
    BY <2>1, <2>3 DEF GraphOf
  <2> QED BY <2>2, <2>3
<1>3. Rooted(page) /\ WellTyped(page)
  BY OneTree
<1>4. o \in ToSet(Ancestors(page, o))
  BY OneTree
<1> HIDE DEF above
<1>5. above \in Seq(Objects) /\ DOMAIN above = 1..Len(above) /\ Len(above) \in Nat
  BY <1>1 DEF Above
<1>6. told \in Seq(S) /\ Len(told) = Len(above) /\ \A i \in DOMAIN above : told[i] = Attributes(graph, above[i])
  <2>1. told \in Seq({Attributes(graph, x) : x \in ToSet(above)}) /\ Len(told) = Len(above)
    BY <1>5, GraphAttributes
  <2> DEFINE T == {Attributes(graph, x) : x \in ToSet(above)}
  <2>2. T \subseteq S
    OBVIOUS
  <2>3. \A i \in DOMAIN above : told[i] = Attributes(graph, above[i])
    OBVIOUS
  <2> HIDE DEF told, S, T
  <2> QED BY <2>1, <2>2, <2>3 DEF T
<1>7. Attributes(page, o) \in S
  OBVIOUS
<1> DEFINE own == Attributes(page, o)
<1> HIDE DEF S, told, own
<1>8. /\ path \in Seq(S) /\ Len(path) = Len(above) + 1 /\ path[1] = own
      /\ \A i \in 1..Len(above) : path[i + 1] = told[i]
  <2>1. own \in S /\ path = <<own>> \o told
    BY <1>7 DEF own
  <2> HIDE DEF path
  <2> QED BY <1>5, <1>6, <2>1
<1>9. LiveOf(page[o]) = own.own
  BY AttributesOf DEF own
<1> HIDE DEF path
<1>10. CASE m.containerOwned /\ \E i \in 1..Len(path) : path[i].own # ""
  <2>1. PICK i \in 1..Len(path) : path[i].own # ""
    BY <1>10
  <2>2. CASE i = 1
    BY <1>4, <1>8, <1>9, <2>1, <2>2 DEF Listening
  <2>3. CASE i # 1
    <3> DEFINE x == above[i - 1]
    <3>1. i - 1 \in 1..Len(above) /\ (i - 1) + 1 = i
      BY <1>5, <1>8, <2>3
    <3>2. Attributes(graph, x).own # "" /\ x \in ToSet(above)
      BY <1>5, <1>6, <1>8, <2>1, <3>1 DEF ToSet
    <3>3. LiveOf(graph[x]) # ""
      BY <3>2, AttributesOf
    <3> QED BY <1>1, <1>2, <1>10, <3>2, <3>3 DEF Listening, Above, Has
  <2> QED BY <2>2, <2>3
<1>11. CASE /\ \A i \in 1..Len(path) : ~Stopping(path[i])
            /\ \E i \in 1..Len(path) : path[i].containerLive # {}
  <2>1. PICK i \in 1..Len(path) : path[i].containerLive # {}
    BY <1>11
  <2>2. \A k \in DOMAIN above : Attributes(graph, above[k]) = path[k + 1] /\ k + 1 \in 1..Len(path)
    BY <1>5, <1>6, <1>8
  <2>3. \A k \in DOMAIN above : ~Stopping(Attributes(graph, above[k]))
    BY <1>11, <2>2
  <2>4. CASE i = 1
    <3>1. own.containerLive # {} /\ "off" \notin own.containerLive
      BY <1>8, <1>11, <2>1, <2>4 DEF Stopping
    <3> QED BY <1>3, <3>1, ContainerLive DEF own, Listening
  <2>5. CASE i # 1
    <3>1. i - 1 \in DOMAIN above /\ (i - 1) + 1 = i
      BY <1>5, <1>8, <2>5
    <3>2. Attributes(graph, above[i - 1]).containerLive # {}
      BY <2>1, <2>2, <3>1
    <3> QED BY <1>1, <2>3, <3>1, <3>2, NoRegionNoWord
  <2> QED BY <2>4, <2>5
<1> QED
  BY <1>2, <1>8, <1>10, <1>11, LiveAlong

\* Whatever the answer comes from, only an object in a region is live.
LEMMA AskedIsLive ==
  ASSUME Trees, OwnersAreAbove, NEW o \in DOMAIN page, NEW outcome \in Asked(o), outcome.metadata.live
  PROVE  Listening(GraphOf(outcome), o)
<1>1. PICK memberOf \in {{}, {Region(page, o)} \ {Nothing}} : outcome \in ResolvedLiveRegionMetadata(o, memberOf)
  BY DEF Asked
<1>2. memberOf \subseteq ToSet(Ancestors(page, o))
  <2>1. Rooted(page) /\ WellTyped(page)
    BY OneTree
  <2>2. Region(page, o) # Nothing => Region(page, o) \in ToSet(Ancestors(page, o))
    BY <2>1, RegionIsAbove
  <2> QED BY <1>1, <2>2
<1> DEFINE owner == CachedAtomicLiveRegionOwner(o)
           path == Ancestors(graph, owner)
           m == MetadataAlong([i \in DOMAIN path |-> Attributes(graph, path[i])])
<1>3. CASE owner = Nothing
  <2>1. outcome \in LiveRegionMetadata(o, memberOf)
    BY <1>1, <1>3 DEF ResolvedLiveRegionMetadata
  <2> QED BY <1>2, <2>1, MetadataIsLive
<1>4. CASE owner # Nothing
  <2>1. outcome = [graph |-> Nothing,
                   metadata |-> IF m.live THEN Live(m.priority, TRUE, m.relevant, owner, TRUE) ELSE Silent]
    BY <1>1, <1>4 DEF ResolvedLiveRegionMetadata
  <2> HIDE DEF m
  <2>2. m.live
    BY <2>1 DEF Silent
  <2>3. GraphOf(outcome) = graph
    BY <2>1 DEF GraphOf
  <2> HIDE DEF owner
  <2> QED BY <1>4, <2>2, <2>3, RememberedIsLive DEF m, owner
<1> QED
  BY <1>3, <1>4

-----------------------------------------------------------------------------
(* The announcements *)

HeardIn(s) == announced' # Nothing => Listening(graph', s.source)

LEMMA HandledIsLive ==
  ASSUME IInv, NEW s, Has(page, s.source),
         HandleLiveTextChange(s) \/ HandleLiveChildrenChange(s) \/ HandleLivePropertyChange(s)
  PROVE  HeardIn(s)
<1> SUFFICES ASSUME announced' # Nothing PROVE Listening(graph', s.source)
  BY DEF HeardIn
<1>1. ~Quiet
  BY DEF Quiet, SaysNothing
<1>2. \E outcome \in Asked(s.source) : outcome.metadata.live /\ graph' = GraphOf(outcome)
  <2>1. CASE HandleLiveTextChange(s)
    BY <1>1, <2>1 DEF HandleLiveTextChange, Learn
  <2>2. CASE HandleLiveChildrenChange(s)
    BY <1>1, <2>2 DEF HandleLiveChildrenChange, Learn
  <2>3. CASE HandleLivePropertyChange(s)
    BY <1>1, <2>3 DEF HandleLivePropertyChange, Learn
  <2> QED BY <2>1, <2>2, <2>3
<1> QED
  BY <1>2, AskedIsLive DEF IInv, Has

\* What the step that handles a signal was for.
LEMMA HandledBy ==
  ASSUME IInv, NEW i \in DOMAIN signals, HandleNativeEvent(i), NEW s \in HandledSignals,
         s.name # "Announcement", Has(page, s.source)
  PROVE  \/ s.name = "TextChanged" /\ HandleLiveTextChange(s)
         \/ s.name = "ChildrenChanged" /\ HandleLiveChildrenChange(s)
         \/ s.name = "PropertyChange" /\ HandleLivePropertyChange(s)
<1>1. signals \in Seq(NativeSignal) /\ signals' = RemoveAt(signals, i)
  BY DEF HandleNativeEvent, IInv, SignalsKeepSecrets
<1>2. s = signals[i]
  BY <1>1, HandledSignal
<1> QED BY <1>2 DEF HandleNativeEvent

\* A step that handles no signal announces nothing.
LEMMA OthersAreQuiet ==
  ASSUME Next, announced' # Nothing
  PROVE  \E i \in DOMAIN signals : HandleNativeEvent(i)
<1>1. CASE \/ \E o \in DOMAIN workload.inserts : Insert(o, workload.inserts[o])
           \/ \E e \in workload.edits : Edit(e[1], e[2])
           \/ \E o \in workload.removed : Delete(o)
           \/ \E a \in workload.announcements : Announce(a.source, a.text, a.priority)
  BY <1>1 DEF Insert, Edit, Delete, Announce, Signal
<1>2. CASE \/ \E a \in workload.attributes : SetAttribute(a.object, a.field, a.value)
           \/ Settle \/ Elapse \/ Refresh \/ SetPresentationSettings \/ SealOutputs \/ BeginSession
  BY <1>2 DEF SetAttribute, Settle, Elapse, Refresh, SetPresentationSettings, SealOutputs, BeginSession
<1> QED
  BY <1>1, <1>2 DEF Next

\* OnlyLiveIsSpoken, of one step.
OnlyLive ==
  \A s \in HandledSignals :
    announced' # Nothing /\ s.name # "Announcement" /\ Has(page, s.source) => Listening(graph', s.source)

LEMMA StepOnlyLive == IInv /\ [Next]_vars => [OnlyLive]_vars
<1> SUFFICES ASSUME IInv, Next PROVE OnlyLive
  BY DEF OnlyLive
<1> SUFFICES ASSUME NEW s \in HandledSignals,
                    announced' # Nothing, s.name # "Announcement", Has(page, s.source)
             PROVE  Listening(graph', s.source)
  BY DEF OnlyLive
<1>1. PICK i \in DOMAIN signals : HandleNativeEvent(i)
  BY OthersAreQuiet
<1>2. HandleLiveTextChange(s) \/ HandleLiveChildrenChange(s) \/ HandleLivePropertyChange(s)
  BY <1>1, HandledBy
<1> QED BY <1>2, HandledIsLive DEF HeardIn

\* Nothing is announced of an object that is in no live region, neither on the page nor as
\* the graph has its ancestors, whether its region was found, refreshed or remembered
\* (engine.go:2951-3156).
THEOREM OnlyLiveCorrect == Spec => OnlyLiveIsSpoken
<1>1. IInv /\ [Next]_vars => [OnlyLive]_vars
  BY StepOnlyLive
<1>2. OnlyLiveIsSpoken <=> [][OnlyLive]_vars
  BY DEF OnlyLiveIsSpoken, OnlyLive, Listening
<1> QED
  BY <1>1, <1>2, Invariant, PTL DEF Spec

-----------------------------------------------------------------------------
(* The way up from an object *)

\* A way up to a region: what its first object says of being atomic is kept, and the region
\* is where the way ends.
LEMMA RegionAlong ==
  ASSUME NEW S, NEW path \in Seq(S), path # <<>>, MetadataAlong(path).live
  PROVE  /\ path[1].atomic => MetadataAlong(path).atomic
         /\ MetadataAlong(path).containerOwned =>
              \E l \in 1..Len(path) : /\ path[l].own # "" /\ path[l].object = MetadataAlong(path).container
                                      /\ \A i \in 1..l - 1 : ~Stopping(path[i])
         /\ ~MetadataAlong(path).containerOwned => \A i \in 1..Len(path) : ~Stopping(path[i])
<1> DEFINE n == Len(path)
           stops == {i \in 1..n : Stopping(path[i])}
           last == IF stops = {} THEN n ELSE Min(stops)
           atomic == \E i \in 1..last : path[i].atomic
           told == {i \in 1..last : path[i].relevant # {}}
           relevant == IF told = {} THEN {"additions", "text"} ELSE path[Max(told)].relevant
           a == path[last]
           inherited == {i \in 1..n : path[i].containerLive # {}}
           word == path[Min(inherited)]
           m == MetadataAlong(path)
<1>1. m = IF stops # {}
            THEN IF a.busy \/ a.live = "off" \/ a.own = "" THEN Silent
                 ELSE Live(a.own, atomic, relevant, a.object, TRUE)
            ELSE IF inherited = {} THEN Silent
                 ELSE Live(CHOOSE p \in word.containerLive : TRUE, atomic, relevant, word.object, FALSE)
  BY DEF MetadataAlong, Stopping
<1>2. ~Silent.live
  BY DEF Silent
<1>3. n \in Nat \ {0}
  OBVIOUS
<1>4. stops # {} => Min(stops) \in stops /\ \A i \in stops : Min(stops) <= i
  <2>1. stops \subseteq Nat
    OBVIOUS
  <2> HIDE DEF stops
  <2> QED BY <2>1, MinOfSome
<1>5. last \in 1..n /\ (stops # {} => \A i \in 1..last - 1 : ~Stopping(path[i]))
  <2>1. CASE stops = {}
    BY <1>3, <2>1
  <2>2. CASE stops # {}
    <3>1. last \in stops /\ \A i \in stops : last <= i
      BY <1>4, <2>2
    <3> HIDE DEF last
    <3>2. last \in 1..n
      BY <3>1
    <3>3. ASSUME NEW i \in 1..last - 1 PROVE ~Stopping(path[i])
      <4>1. i \notin stops /\ i \in 1..n
        BY <1>3, <3>1, <3>2
      <4> QED BY <4>1
    <3> QED BY <3>2, <3>3
  <2> QED BY <2>1, <2>2
<1>6. path[1].atomic => atomic
  <2> HIDE DEF last
  <2> QED BY <1>3, <1>5
<1>7. CASE stops = {}
  <2> HIDE DEF inherited, word, relevant, atomic
  <2>1. m = Live(CHOOSE p \in word.containerLive : TRUE, atomic, relevant, word.object, FALSE)
    <3> HIDE DEF stops, m
    <3>1. m.live
      BY DEF m
    <3> QED BY <1>1, <1>2, <1>7, <3>1
  <2>2. m.atomic = atomic /\ m.containerOwned = FALSE
    <3> HIDE DEF m
    <3> QED BY <2>1 DEF Live
  <2>3. \A i \in 1..n : ~Stopping(path[i])
    BY <1>7
  <2> HIDE DEF m
  <2>4. (path[1].atomic => m.atomic) /\ ~m.containerOwned
    BY <1>6, <2>2
  <2> QED BY <2>3, <2>4 DEF m
<1>8. CASE stops # {}
  <2> HIDE DEF relevant, atomic, last
  <2>1. a.own # "" /\ m = Live(a.own, atomic, relevant, a.object, TRUE)
    <3> HIDE DEF stops, m
    <3>1. m.live
      BY DEF m
    <3> QED BY <1>1, <1>2, <1>8, <3>1
  <2>2. m.atomic = atomic /\ m.containerOwned = TRUE /\ m.container = a.object
    <3> HIDE DEF m
    <3> QED BY <2>1 DEF Live
  <2>3. \A i \in 1..last - 1 : ~Stopping(path[i])
    BY <1>5, <1>8
  <2> HIDE DEF m
  <2>4. (path[1].atomic => m.atomic) /\ m.containerOwned
    BY <1>6, <2>2
  <2> QED BY <1>5, <2>1, <2>2, <2>3, <2>4 DEF m
<1> QED BY <1>7, <1>8

\* Every region on the way says the same of what is relevant ...
SaySame(path, same) ==
  \A i \in 1..Len(path) :
    /\ path[i].relevant \in {{}, same}
    /\ path[i].own # "" \/ path[i].containerLive # {} => path[i].relevant = same

\* ... and so that is what is relevant.
LEMMA RelevantAlong ==
  ASSUME NEW S, NEW path \in Seq(S), MetadataAlong(path).live, NEW same, same # {}, SaySame(path, same)
  PROVE  MetadataAlong(path).relevant = same
<1> DEFINE n == Len(path)
           stops == {i \in 1..n : Stopping(path[i])}
           last == IF stops = {} THEN n ELSE Min(stops)
           atomic == \E i \in 1..last : path[i].atomic
           told == {i \in 1..last : path[i].relevant # {}}
           relevant == IF told = {} THEN {"additions", "text"} ELSE path[Max(told)].relevant
           a == path[last]
           inherited == {i \in 1..n : path[i].containerLive # {}}
           word == path[Min(inherited)]
           m == MetadataAlong(path)
<1>1. m = IF stops # {}
            THEN IF a.busy \/ a.live = "off" \/ a.own = "" THEN Silent
                 ELSE Live(a.own, atomic, relevant, a.object, TRUE)
            ELSE IF inherited = {} THEN Silent
                 ELSE Live(CHOOSE p \in word.containerLive : TRUE, atomic, relevant, word.object, FALSE)
  BY DEF MetadataAlong, Stopping
<1>2. ~Silent.live
  BY DEF Silent
<1>3. n \in Nat
  OBVIOUS
<1>4. stops # {} => last \in 1..n
  <2>1. stops \subseteq Nat
    OBVIOUS
  <2>2. stops # {} => Min(stops) \in stops
    <3> HIDE DEF stops
    <3> QED BY <2>1, MinOfSome
  <2> QED BY <2>2
<1>5. m.live
  OBVIOUS
<1>6. /\ stops = {} => inherited # {}
      /\ stops # {} => a.own # ""
      /\ m.relevant = relevant
  <2> HIDE DEF stops, inherited, atomic, relevant, a, word, m
  <2>1. CASE stops = {}
    <3>1. inherited # {} /\ m = Live(CHOOSE p \in word.containerLive : TRUE, atomic, relevant, word.object, FALSE)
      BY <1>1, <1>2, <1>5, <2>1
    <3> QED BY <2>1, <3>1 DEF Live
  <2>2. CASE stops # {}
    <3>1. a.own # "" /\ m = Live(a.own, atomic, relevant, a.object, TRUE)
      BY <1>1, <1>2, <1>5, <2>2
    <3> QED BY <2>2, <3>1 DEF Live
  <2> QED BY <2>1, <2>2
<1>7. told # {}
  <2>1. CASE stops = {}
    <3>1. PICK i \in 1..n : path[i].containerLive # {}
      BY <1>6, <2>1
    <3>2. i \in told
      BY <2>1, <3>1 DEF SaySame
    <3> QED BY <3>2
  <2>2. CASE stops # {}
    <3>1. last \in 1..n
      BY <1>4, <2>2
    <3>2. path[last].own # ""
      BY <1>6, <2>2
    <3> HIDE DEF last
    <3>3. path[last].relevant = same
      BY <3>1, <3>2 DEF SaySame
    <3>4. last \in 1..last
      <4> HIDE DEF n, told, atomic, relevant
      <4> QED BY <1>3, <3>1
    <3>5. last \in told
      BY <3>3, <3>4
    <3> QED BY <3>5
  <2> QED BY <2>1, <2>2
<1>8. last \in Nat /\ (last = 0 \/ last \in 1..n)
  BY <1>3, <1>4
<1>9. Max(told) \in told
  <2> HIDE DEF last
  <2>1. told \subseteq 1..last
    OBVIOUS
  <2> HIDE DEF told
  <2> QED BY <1>7, <1>8, <2>1, MaxOfSome
<1>10. path[Max(told)].relevant = same
  <2> HIDE DEF last
  <2>1. PICK i \in told : i = Max(told)
    BY <1>9
  <2>2. i \in 1..n /\ path[i].relevant # {}
    BY <1>3, <1>8
  <2> HIDE DEF told
  <2> QED BY <2>1, <2>2 DEF SaySame
<1> HIDE DEF m, told
<1> QED BY <1>6, <1>7, <1>10 DEF m

\* The attributes that the region of an object is taken from: its own, and those above it in
\* the graph.
Way(o, memberOf) ==
  <<Attributes(page, o)>> \o [i \in DOMAIN Parents(o, memberOf) |-> Attributes(graph, Parents(o, memberOf)[i])]

LEMMA WayIs ==
  ASSUME Trees, NEW o \in DOMAIN page, NEW memberOf, memberOf \subseteq ToSet(Ancestors(page, o)),
         NEW above, above = Parents(o, memberOf)
  PROVE  /\ Above(ToSet(Ancestors(page, o)), above)
         /\ above \in Seq(Objects) /\ Len(above) \in Nat
         /\ \E S : Way(o, memberOf) \in Seq(S)
         /\ Way(o, memberOf) # <<>> /\ Len(Way(o, memberOf)) = Len(above) + 1
         /\ Way(o, memberOf)[1] = Attributes(page, o)
         /\ \A i \in 1..Len(above) : Way(o, memberOf)[i + 1] = Attributes(graph, above[i])
<1> DEFINE told == [i \in DOMAIN above |-> Attributes(graph, above[i])]
           S == {Attributes(page, o)} \cup {Attributes(graph, x) : x \in ToSet(above)}
<1>1. Above(ToSet(Ancestors(page, o)), above)
  BY ParentsAreAbove
<1>2. above \in Seq(Objects) /\ DOMAIN above = 1..Len(above) /\ Len(above) \in Nat
  BY <1>1 DEF Above
<1>3. told \in Seq(S) /\ Len(told) = Len(above) /\ \A i \in DOMAIN above : told[i] = Attributes(graph, above[i])
  <2>1. told \in Seq({Attributes(graph, x) : x \in ToSet(above)}) /\ Len(told) = Len(above)
    BY <1>2, GraphAttributes
  <2> DEFINE T == {Attributes(graph, x) : x \in ToSet(above)}
  <2>2. T \subseteq S
    OBVIOUS
  <2>3. \A i \in DOMAIN above : told[i] = Attributes(graph, above[i])
    OBVIOUS
  <2> HIDE DEF told, S, T
  <2> QED BY <2>1, <2>2, <2>3 DEF T
<1> DEFINE own == Attributes(page, o)
<1>4. own \in S /\ Way(o, memberOf) = <<own>> \o told
  BY DEF Way
<1> HIDE DEF S, told, own
<1>5. /\ Way(o, memberOf) \in Seq(S) /\ Len(Way(o, memberOf)) = Len(above) + 1
      /\ Way(o, memberOf)[1] = own /\ Way(o, memberOf) # <<>>
      /\ \A i \in 1..Len(above) : Way(o, memberOf)[i + 1] = told[i]
  BY <1>2, <1>3, <1>4
<1>6. \A i \in 1..Len(above) : Way(o, memberOf)[i + 1] = Attributes(graph, above[i])
  BY <1>2, <1>3, <1>5
<1> QED BY <1>1, <1>2, <1>5, <1>6 DEF own

\* The first of a sequence that is in a set stands before all others.
LEMMA FirstOfIsFirst ==
  ASSUME NEW path \in Seq(Objects), NEW objects, FirstOf(path, objects) # Nothing
  PROVE  \E k \in 1..Len(path) : /\ path[k] = FirstOf(path, objects) /\ path[k] \in objects
                                 /\ \A i \in 1..k - 1 : path[i] \notin objects
<1> DEFINE found == {i \in DOMAIN path : path[i] \in objects}
<1>1. found # {} /\ FirstOf(path, objects) = path[Min(found)]
  BY DEF FirstOf
<1>2. found \subseteq Nat /\ DOMAIN path = 1..Len(path) /\ Len(path) \in Nat
  OBVIOUS
<1>3. Min(found) \in found /\ \A i \in found : Min(found) <= i
  <2> HIDE DEF found
  <2> QED BY <1>1, <1>2, MinOfSome
<1> DEFINE k == Min(found)
<1>4. k \in 1..Len(path) /\ path[k] \in objects
  BY <1>2, <1>3
<1>5. ASSUME NEW i \in 1..k - 1 PROVE path[i] \notin objects
  <2> HIDE DEF k
  <2>1. i \in DOMAIN path /\ ~(k <= i)
    BY <1>2, <1>4
  <2>2. i \notin found
    BY <1>3, <2>1 DEF k
  <2> QED BY <2>1, <2>2
<1> QED BY <1>1, <1>4, <1>5

InRegion(n) == n.live # "" \/ LiveOf(n) # ""

LEMMA DefiningIs ==
  ASSUME NEW n \in Node
  PROVE  /\ LiveOf(n) # "" => DefinesLiveRegion(n)
         /\ DefinesLiveRegion(n) => InRegion(n) /\ (n.live = "off" \/ LiveOf(n) # "")
<1>1. n.live \in {"", "off", "polite", "assertive"}
  BY DEF Node, AttributeValues
<1> QED BY <1>1 DEF LiveOf, DefinesLiveRegion, InRegion, Statuses

\* An object that is a region is its own.
LEMMA OwnRegion ==
  ASSUME NEW tree, NotTooDeep(tree), NEW o \in DOMAIN tree, InRegion(tree[o])
  PROVE  Region(tree, o) = o
<1> DEFINE up == Ancestors(tree, o)
           regions == {x \in DOMAIN tree : tree[x].live # "" \/ LiveOf(tree[x]) # ""}
           found == {i \in DOMAIN up : up[i] \in regions}
<1>1. o \in Places /\ Rooted(tree) /\ o \in Objects /\ tree[o].parent \in Places
  BY DEF NotTooDeep, Rooted, Places
<1>2. up = <<o>> \o Ancestors(tree, tree[o].parent)
  BY <1>1, AncestorsUp DEF NotTooDeep
<1>3. Ancestors(tree, tree[o].parent) \in Seq(Objects)
  BY <1>1, AncestorsType
<1> HIDE DEF up
<1>4. up[1] = o /\ 1 \in DOMAIN up /\ DOMAIN up \subseteq Nat \ {0}
  BY <1>1, <1>2, <1>3
<1>5. 1 \in found /\ found \subseteq Nat
  BY <1>4 DEF InRegion
<1>6. Region(tree, o) = up[Min(found)]
  BY <1>5 DEF Region, FirstOf, up
<1>7. Min(found) = 1
  <2>1. Min(found) \in found /\ \A i \in found : Min(found) <= i
    <3> HIDE DEF found
    <3> QED BY <1>5, MinOfSome
  <2>2. Min(found) \in Nat \ {0} /\ Min(found) <= 1
    BY <1>4, <1>5, <2>1
  <2> HIDE DEF found
  <2> QED BY <2>2
<1> QED BY <1>4, <1>6, <1>7

\* A region ends the way up, if only because it is off.
LEMMA DefiningStops ==
  ASSUME NEW tree, WellTyped(tree), NEW x \in DOMAIN tree, DefinesLiveRegion(tree[x])
  PROVE  Stopping(Attributes(tree, x))
<1>1. tree[x].live = "off" \/ LiveOf(tree[x]) # ""
  BY DefiningIs DEF WellTyped
<1> QED BY <1>1, AttributesOf DEF Stopping

\* The nearest region r of an object, which is atomic, and the only one that may be
\* remembered: by the object itself or by the graph.
WholeRegion(g, o, r) ==
  /\ r = Region(page, o) /\ r # Nothing /\ page[r].atomic /\ LiveOf(page[r]) # ""
  /\ LiveRegionOwnerInGraph(g, o) = r \/ o = r
  /\ \A x \in ToSet(Ancestors(page, o)) \cap DOMAIN graph : IsAtomicLiveRegionOwner(graph[x]) => x = r

\* An object on the way up from another one is an end of it, and no region is before it.
EndsAt(o, memberOf, r) ==
  \E k \in 1..Len(Parents(o, memberOf)) :
     /\ Parents(o, memberOf)[k] = r
     /\ Stopping(Way(o, memberOf)[k + 1])
     /\ \A i \in 1..k - 1 : LiveOf(graph[Parents(o, memberOf)[i]]) = ""

\* On the way up by the graph, the region that the graph has is the first end.
LEMMA OwnerAlong ==
  ASSUME Trees, NEW o \in DOMAIN page, NEW memberOf, memberOf \subseteq ToSet(Ancestors(page, o)),
         Has(graph, o), NEW r, r # Nothing, LiveRegionOwnerInGraph(graph, o) = r
  PROVE  EndsAt(o, memberOf, r)
<1> PICK above : above = Parents(o, memberOf)
  OBVIOUS
<1>1. /\ Above(ToSet(Ancestors(page, o)), above)
      /\ above \in Seq(Objects) /\ Len(above) \in Nat
      /\ \A i \in 1..Len(above) : Way(o, memberOf)[i + 1] = Attributes(graph, above[i])
  BY WayIs
<1> DEFINE defining == {x \in DOMAIN graph : DefinesLiveRegion(graph[x])}
<1>2. above = Ancestors(graph, graph[o].parent) /\ r = FirstOf(above, defining)
  BY DEF Parents, LiveRegionOwnerInGraph
<1>3. WellTyped(graph)
  BY KinAncestors DEF Trees
<1>4. PICK k \in 1..Len(above) : /\ above[k] = r /\ above[k] \in defining
                                 /\ \A i \in 1..k - 1 : above[i] \notin defining
  <2> HIDE DEF defining
  <2> QED BY <1>1, <1>2, FirstOfIsFirst
<1>5. Stopping(Attributes(graph, above[k]))
  BY <1>3, <1>4, DefiningStops
<1>6. ASSUME NEW i \in 1..k - 1 PROVE LiveOf(graph[above[i]]) = ""
  <2>1. i \in 1..Len(above) /\ above[i] \notin defining
    BY <1>1, <1>4
  <2>2. above[i] \in DOMAIN graph
    BY <1>1, <2>1 DEF Above, ToSet
  <2> QED BY <1>3, <2>1, <2>2, DefiningIs DEF WellTyped
<1> QED BY <1>1, <1>4, <1>5, <1>6 DEF EndsAt

LEMMA MetadataIsWhole ==
  ASSUME Trees, NEW o \in DOMAIN page, NEW memberOf, memberOf \subseteq ToSet(Ancestors(page, o)),
         NEW outcome \in LiveRegionMetadata(o, memberOf), outcome.metadata.live,
         NEW r, WholeRegion(GraphOf(outcome), o, r)
  PROVE  outcome.metadata.atomic /\ outcome.metadata.container = r
<1>0. GraphOf(outcome) = graph /\ o # r => EndsAt(o, memberOf, r)
  <2> SUFFICES ASSUME GraphOf(outcome) = graph, o # r PROVE EndsAt(o, memberOf, r)
    OBVIOUS
  <2>1. r # Nothing /\ LiveRegionOwnerInGraph(graph, o) = r
    BY DEF WholeRegion
  <2>2. Has(graph, o)
    BY <2>1 DEF LiveRegionOwnerInGraph
  <2> QED BY <2>1, <2>2, OwnerAlong
<1> PICK way, m : way = Way(o, memberOf) /\ m = MetadataAlong(way)
  OBVIOUS
<1> PICK above : above = Parents(o, memberOf)
  OBVIOUS
<1>1. /\ \E S : way \in Seq(S)
      /\ above \in Seq(Objects) /\ Len(above) \in Nat
      /\ way # <<>> /\ Len(way) = Len(above) + 1 /\ way[1] = Attributes(page, o)
      /\ \A i \in 1..Len(above) : way[i + 1] = Attributes(graph, above[i])
  BY WayIs
<1>2. IF m.live /\ ~m.containerOwned /\ m.atomic
        THEN outcome \in RefreshForLiveRegionOwner(o, m)
        ELSE outcome = [graph |-> Nothing, metadata |-> m]
  <2>1. m = MetadataAlong(<<Attributes(page, o)>> \o [i \in DOMAIN above |-> Attributes(graph, above[i])])
    BY DEF Way
  <2>2. outcome \in IF m.live /\ ~m.containerOwned /\ m.atomic THEN RefreshForLiveRegionOwner(o, m)
                    ELSE {[graph |-> Nothing, metadata |-> m]}
    BY <2>1 DEF LiveRegionMetadata
  <2> QED BY <2>2
<1>3. m.live
  BY <1>2
<1>4. /\ way[1].atomic => m.atomic
      /\ m.containerOwned =>
           \E l \in 1..Len(way) : /\ way[l].own # "" /\ way[l].object = m.container
                                  /\ \A i \in 1..l - 1 : ~Stopping(way[i])
      /\ ~m.containerOwned => \A i \in 1..Len(way) : ~Stopping(way[i])
  <2> PICK S : way \in Seq(S)
    BY <1>1
  <2> QED BY <1>1, <1>3, RegionAlong
<1>5. r = Region(page, o) /\ r # Nothing /\ page[r].atomic /\ LiveOf(page[r]) # ""
  BY DEF WholeRegion
<1>6. NotTooDeep(page) /\ WellTyped(page) /\ o \in Objects
  BY KinAncestors DEF Trees, WellTyped
<1>7. m.atomic
  <2>1. Attributes(page, o).atomic
    BY <1>5 DEF Attributes
  <2> QED BY <1>1, <1>4, <2>1
<1>8. way[1].own = LiveOf(page[o]) /\ way[1].object = o
  BY <1>1 DEF Attributes
<1>9. 1 \in 1..Len(way)
  BY <1>1
<1>10. CASE o = r
  <2>1. way[1].own # ""
    BY <1>5, <1>8, <1>10
  <2>2. Stopping(way[1])
    BY <2>1 DEF Stopping
  <2>3. m.containerOwned
    BY <1>4, <1>9, <2>2
  <2>4. PICK l \in 1..Len(way) : /\ way[l].object = m.container
                                 /\ \A i \in 1..l - 1 : ~Stopping(way[i])
    BY <1>4, <2>3
  <2>5. l = 1
    <3> SUFFICES ASSUME l # 1 PROVE FALSE
      OBVIOUS
    <3>1. 1 \in 1..l - 1
      OBVIOUS
    <3> QED BY <2>2, <2>4, <3>1
  <2>6. m.container = r
    BY <1>8, <1>10, <2>4, <2>5
  <2> QED BY <1>2, <1>7, <2>3, <2>6
<1>11. CASE o # r
  <2>1. way[1].own = ""
    <3> SUFFICES ASSUME LiveOf(page[o]) # "" PROVE FALSE
      BY <1>8
    <3> QED BY <1>5, <1>6, <1>11, OwnRegion DEF InRegion
  <2>2. LiveRegionOwnerInGraph(GraphOf(outcome), o) = r
    BY <1>11 DEF WholeRegion
  <2>3. ASSUME GraphOf(outcome) = graph
        PROVE  \E k \in 1..Len(above) : /\ above[k] = r /\ Stopping(way[k + 1])
                                        /\ \A i \in 1..k - 1 : LiveOf(graph[above[i]]) = ""
    BY <1>0, <1>11, <2>3 DEF EndsAt
  <2>4. CASE m.containerOwned
    <3>1. outcome.metadata = m /\ GraphOf(outcome) = graph
      BY <1>2, <2>4 DEF GraphOf
    <3>2. PICK k \in 1..Len(above) : /\ above[k] = r /\ Stopping(way[k + 1])
                                     /\ \A i \in 1..k - 1 : LiveOf(graph[above[i]]) = ""
      BY <2>3, <3>1
    <3>3. PICK l \in 1..Len(way) : /\ way[l].own # "" /\ way[l].object = m.container
                                   /\ \A i \in 1..l - 1 : ~Stopping(way[i])
      BY <1>4, <2>4
    <3>4. l - 1 \in 1..Len(above) /\ (l - 1) + 1 = l
      <4>1. l # 1
        BY <2>1, <3>3
      <4> QED BY <1>1, <4>1
    <3>5. way[l] = Attributes(graph, above[l - 1])
      BY <1>1, <3>4
    <3>6. ~(l - 1 < k)
      <4> SUFFICES ASSUME l - 1 < k PROVE FALSE
        OBVIOUS
      <4>1. l - 1 \in 1..k - 1
        BY <1>1, <3>4
      <4>2. LiveOf(graph[above[l - 1]]) = ""
        BY <3>2, <4>1
      <4>3. way[l].own = LiveOf(graph[above[l - 1]])
        BY <3>5, AttributesOf
      <4> QED BY <3>3, <4>2, <4>3
    <3>7. ~(k < l - 1)
      <4> SUFFICES ASSUME k < l - 1 PROVE FALSE
        OBVIOUS
      <4>1. k + 1 \in 1..l - 1
        BY <1>1, <3>4
      <4> QED BY <3>2, <3>3, <4>1
    <3>8. l - 1 = k
      BY <1>1, <3>4, <3>6, <3>7
    <3>9. way[l].object = r
      <4>1. Attributes(graph, above[l - 1]).object = above[l - 1]
        BY DEF Attributes
      <4> QED BY <3>2, <3>5, <3>8, <4>1
    <3> QED BY <1>7, <3>1, <3>3, <3>9
  <2>5. CASE ~m.containerOwned
    <3>1. outcome \in RefreshForLiveRegionOwner(o, m)
      BY <1>2, <1>3, <1>7, <2>5
    <3>2. outcome.graph # Nothing
      <4> SUFFICES ASSUME outcome.graph = Nothing PROVE FALSE
        OBVIOUS
      <4>1. PICK k \in 1..Len(above) : Stopping(way[k + 1])
        BY <2>3 DEF GraphOf
      <4>2. k + 1 \in 1..Len(way)
        BY <1>1
      <4> QED BY <1>4, <2>5, <4>1, <4>2
    <3>3. PICK g : outcome = [graph |-> g, metadata |-> OwnedBy(m, LiveRegionOwnerInGraph(g, o))]
      BY <3>1, <3>2 DEF RefreshForLiveRegionOwner
    <3>4. LiveRegionOwnerInGraph(g, o) = r
      BY <2>2, <3>2, <3>3 DEF GraphOf
    <3>5. outcome.metadata = [m EXCEPT !.container = r, !.containerOwned = TRUE]
      BY <1>5, <3>3, <3>4 DEF OwnedBy
    <3>6. DOMAIN m = {"live", "priority", "atomic", "relevant", "container", "containerOwned"}
      BY <1>3 DEF MetadataAlong, Live, Silent
    <3> QED BY <1>7, <3>5, <3>6
  <2> QED BY <2>4, <2>5
<1> QED BY <1>10, <1>11

-----------------------------------------------------------------------------
(* Atomic regions are spoken whole *)

\* Whatever the answer comes from, it is the whole region.
LEMMA AskedIsWhole ==
  ASSUME Trees, OwnersAreAbove, NEW o \in DOMAIN page, NEW outcome \in Asked(o), outcome.metadata.live,
         NEW r, WholeRegion(GraphOf(outcome), o, r)
  PROVE  outcome.metadata.atomic /\ outcome.metadata.container = r
<1>1. PICK memberOf \in {{}, {Region(page, o)} \ {Nothing}} : outcome \in ResolvedLiveRegionMetadata(o, memberOf)
  BY DEF Asked
<1>2. memberOf \subseteq ToSet(Ancestors(page, o))
  <2>1. Rooted(page) /\ WellTyped(page)
    BY OneTree
  <2>2. Region(page, o) # Nothing => Region(page, o) \in ToSet(Ancestors(page, o))
    BY <2>1, RegionIsAbove
  <2> QED BY <1>1, <2>2
<1> DEFINE owner == CachedAtomicLiveRegionOwner(o)
           path == Ancestors(graph, owner)
           m == MetadataAlong([i \in DOMAIN path |-> Attributes(graph, path[i])])
<1>3. CASE owner = Nothing
  <2>1. outcome \in LiveRegionMetadata(o, memberOf)
    BY <1>1, <1>3 DEF ResolvedLiveRegionMetadata
  <2> QED BY <1>2, <2>1, MetadataIsWhole
<1>4. CASE owner # Nothing
  <2>1. outcome = [graph |-> Nothing,
                   metadata |-> IF m.live THEN Live(m.priority, TRUE, m.relevant, owner, TRUE) ELSE Silent]
    BY <1>1, <1>4 DEF ResolvedLiveRegionMetadata
  <2> HIDE DEF m
  <2>2. m.live
    BY <2>1 DEF Silent
  <2>3. outcome.metadata = Live(m.priority, TRUE, m.relevant, owner, TRUE)
    BY <2>1, <2>2
  <2>4. /\ owner = atomicLiveRegionOwners[o] /\ o \in DOMAIN atomicLiveRegionOwners
        /\ owner \in DOMAIN graph /\ IsAtomicLiveRegionOwner(graph[owner])
    BY <1>4 DEF CachedAtomicLiveRegionOwner, Has
  <2> HIDE DEF owner
  <2>5. owner \in ToSet(Ancestors(page, o))
    BY <2>4, OneTree DEF OwnersAreAbove
  <2>6. owner = r
    BY <2>4, <2>5 DEF WholeRegion
  <2> QED BY <2>3, <2>6 DEF Live
<1> QED
  BY <1>3, <1>4

\* What AtomicIsSpokenWhole says of a step and an object.
SpokenWhole(o) ==
  \A r \in {Region(page, o)} \ {Nothing} :
     /\ page[r].atomic /\ LiveOf(page[r]) # ""
     /\ LiveRegionOwnerInGraph(graph', o) = r \/ o = r
     /\ \A x \in ToSet(Ancestors(page, o)) \cap DOMAIN graph :
          IsAtomicLiveRegionOwner(graph[x]) => x = r
     => announced'.text = IF IsProtected(graph', r) THEN Redacted ELSE Content(page, r)

\* A whole region is read, if it can be.
LEMMA SpeakIsWhole ==
  ASSUME NEW g, NEW m, NEW own, NEW o, NEW source, NEW reads, Speak(g, m, own, o, source, reads),
         reads, Has(page, m.container), announced' # Nothing
  PROVE  announced'.text = IF IsProtected(g, m.container) THEN Redacted ELSE Content(page, m.container)
<1>1. EmitLiveRegion(g, Content(page, m.container), m.container, source, m.priority)
  BY DEF Speak
<1> PICK text : text = IF IsProtected(g, m.container) THEN Redacted ELSE Content(page, m.container)
  OBVIOUS
<1>2. announced' = [source |-> source, priority |-> m.priority, text |-> text]
  BY <1>1 DEF EmitLiveRegion, SaysNothing
<1> QED BY <1>2

LEMMA HandledIsWhole ==
  ASSUME IInv, NEW s, Has(page, s.source), announced' # Nothing,
         HandleLiveTextChange(s) \/ HandleLiveChildrenChange(s) \/ HandleLivePropertyChange(s)
  PROVE  SpokenWhole(s.source)
<1>1. ~Quiet
  BY DEF Quiet, SaysNothing
<1>2. PICK outcome \in Asked(s.source) :
        /\ outcome.metadata.live /\ graph' = GraphOf(outcome)
        /\ \E own, o, reads : /\ outcome.metadata.atomic => reads
                              /\ Speak(GraphOf(outcome), outcome.metadata, own, o, s.source, reads)
  <2>1. CASE HandleLiveTextChange(s)
    BY <1>1, <2>1 DEF HandleLiveTextChange, Learn
  <2>2. CASE HandleLiveChildrenChange(s)
    BY <1>1, <2>2 DEF HandleLiveChildrenChange, Learn
  <2>3. CASE HandleLivePropertyChange(s)
    BY <1>1, <2>3 DEF HandleLivePropertyChange, Learn
  <2> QED BY <2>1, <2>2, <2>3
<1> SUFFICES ASSUME NEW r, WholeRegion(graph', s.source, r)
             PROVE  announced'.text = IF IsProtected(graph', r) THEN Redacted ELSE Content(page, r)
  BY DEF SpokenWhole, WholeRegion
<1>3. outcome.metadata.atomic /\ outcome.metadata.container = r
  BY <1>2, AskedIsWhole DEF IInv, Has
<1>4. Has(page, r)
  <2>1. Rooted(page) /\ WellTyped(page)
    BY OneTree DEF IInv, Has
  <2> QED BY <2>1, RegionIsAbove DEF WholeRegion, Has
<1> QED BY <1>2, <1>3, <1>4, SpeakIsWhole

\* AtomicIsSpokenWhole, of one step.
SpeaksWhole ==
  \A s \in HandledSignals :
    announced' # Nothing /\ s.name # "Announcement" /\ Has(page, s.source) => SpokenWhole(s.source)

LEMMA StepSpeaksWhole == IInv /\ [Next]_vars => [SpeaksWhole]_vars
<1> SUFFICES ASSUME IInv, Next PROVE SpeaksWhole
  BY DEF SpeaksWhole
<1> SUFFICES ASSUME NEW s \in HandledSignals,
                    announced' # Nothing, s.name # "Announcement", Has(page, s.source)
             PROVE  SpokenWhole(s.source)
  BY DEF SpeaksWhole
<1>1. PICK i \in DOMAIN signals : HandleNativeEvent(i)
  BY OthersAreQuiet
<1>2. HandleLiveTextChange(s) \/ HandleLiveChildrenChange(s) \/ HandleLivePropertyChange(s)
  BY <1>1, HandledBy
<1> QED BY <1>2, HandledIsWhole

\* What is announced of an atomic region is all of it, provided that it is the one region
\* that the graph can tell (engine.go:2951-3083, 3140-3169).
THEOREM AtomicCorrect == Spec => AtomicIsSpokenWhole
<1>1. IInv /\ [Next]_vars => [SpeaksWhole]_vars
  BY StepSpeaksWhole
<1>2. AtomicIsSpokenWhole <=> [][SpeaksWhole]_vars
  BY DEF AtomicIsSpokenWhole, SpeaksWhole, SpokenWhole
<1> QED
  BY <1>1, <1>2, Invariant, PTL DEF Spec

-----------------------------------------------------------------------------
(* Where only additions matter *)

\* The attributes of an object that only additions matter around.
SaysAdditions(o, a) ==
  /\ a.relevant \in {{}, {"additions"}}
  /\ a.own # "" \/ a.containerLive # {} => a.relevant = {"additions"}
  /\ a.own # "" => a.object # o

LEMMA AdditionsSaySame ==
  ASSUME Trees, NEW o \in DOMAIN page, AdditionsOnly(o), NEW tree \in {page, graph},
         NEW x \in DOMAIN tree, x \in ToSet(Ancestors(page, o))
  PROVE  SaysAdditions(o, Attributes(tree, x))
<1> PICK a : a = Attributes(tree, x)
  OBVIOUS
<1>1. WellTyped(tree) /\ Rooted(tree) /\ NotTooDeep(tree)
  BY KinAncestors DEF Trees
<1>2. ToSet(Ancestors(tree, x)) \subseteq ToSet(Ancestors(page, o))
  <2>1. /\ NotTooDeep(Everything(workload)) /\ o \in Places
        /\ Ancestors(page, o) = Ancestors(Everything(workload), o)
    BY OneTree
  <2>2. Ancestors(tree, x) = Ancestors(Everything(workload), x)
    BY KinAncestors DEF Trees
  <2> QED BY <2>1, <2>2, AncestorsOfAncestor
<1> PICK r : r = Region(tree, x)
  OBVIOUS
<1>3. r # Nothing => /\ r \in DOMAIN tree /\ r \in ToSet(Ancestors(page, o))
                     /\ InRegion(tree[r])
  <2> SUFFICES ASSUME r # Nothing
               PROVE  r \in DOMAIN tree /\ r \in ToSet(Ancestors(page, o)) /\ InRegion(tree[r])
    OBVIOUS
  <2>1. /\ r \in ToSet(Ancestors(tree, x)) /\ r \in DOMAIN tree
        /\ tree[r].live # "off" => LiveOf(tree[r]) # ""
    BY <1>1, RegionIsAbove
  <2> QED BY <1>2, <2>1 DEF InRegion
<1>4. r # Nothing => tree[r].relevant = {"additions"}
  BY <1>3 DEF AdditionsOnly, InRegion
<1>5. a.relevant = IF r = Nothing THEN {} ELSE tree[r].relevant
  BY DEF Attributes
<1>6. a.containerLive # {} => r # Nothing
  BY DEF Attributes
<1>7. a.own # "" => r # Nothing /\ x # o
  <2> SUFFICES ASSUME LiveOf(tree[x]) # "" PROVE r # Nothing /\ x # o
    BY AttributesOf
  <2>1. r = x
    BY <1>1, OwnRegion DEF InRegion
  <2>2. x # o
    BY DEF AdditionsOnly
  <2>3. x # Nothing
    BY <1>1, ConstantsAssumption DEF WellTyped
  <2> QED BY <2>1, <2>2, <2>3
<1>8. a.object = x
  BY DEF Attributes
<1> QED BY <1>4, <1>5, <1>6, <1>7, <1>8 DEF SaysAdditions

\* A traversal has an object as it is on the page, but for its children.
LEMMA TraversalsShow ==
  ASSUME NEW g \in Traversals, NEW o \in DOMAIN g
  PROVE  o \in DOMAIN page /\ g[o].live = page[o].live /\ g[o].role = page[o].role
<1>1. CASE g = page
  BY <1>1
<1>2. ASSUME NEW x \in unsettled, g = Pruned(x)
      PROVE  o \in DOMAIN page /\ g[o].live = page[o].live /\ g[o].role = page[o].role
  <2>1. o \in DOMAIN page
    BY <1>2 DEF Pruned
  <2>2. g[o] = page[o] \/ g[o] = [page[o] EXCEPT !.children = RemoveFirst(@, x)]
    BY <1>2, <2>1 DEF Pruned
  <2> PICK n : n = page[o]
    OBVIOUS
  <2>3. \A children : [n EXCEPT !.children = children].live = n.live /\ [n EXCEPT !.children = children].role = n.role
    OBVIOUS
  <2> QED BY <2>1, <2>2, <2>3
<1> QED BY <1>1, <1>2 DEF Traversals

\* Only additions are relevant, and the object is not a region that was inserted.
Additional(o, m) ==
  /\ m.relevant = {"additions"}
  /\ ~(m.containerOwned /\ m.container = o)

LEMMA MetadataIsAdditional ==
  ASSUME Trees, NEW o \in DOMAIN page, NEW memberOf, memberOf \subseteq ToSet(Ancestors(page, o)),
         NEW outcome \in LiveRegionMetadata(o, memberOf), outcome.metadata.live, AdditionsOnly(o)
  PROVE  Additional(o, outcome.metadata)
<1>0. \A tree \in {page, graph} : \A x \in DOMAIN tree : x \in ToSet(Ancestors(page, o)) =>
        SaysAdditions(o, Attributes(tree, x))
  BY AdditionsSaySame
<1> PICK way, m : way = Way(o, memberOf) /\ m = MetadataAlong(way)
  OBVIOUS
<1> PICK above : above = Parents(o, memberOf)
  OBVIOUS
<1>1. /\ \E S : way \in Seq(S)
      /\ above \in Seq(Objects) /\ Len(above) \in Nat
      /\ way # <<>> /\ Len(way) = Len(above) + 1 /\ way[1] = Attributes(page, o)
      /\ \A i \in 1..Len(above) : way[i + 1] = Attributes(graph, above[i])
  BY WayIs
<1>2. Above(ToSet(Ancestors(page, o)), above)
  BY WayIs
<1>3. IF m.live /\ ~m.containerOwned /\ m.atomic
        THEN outcome \in RefreshForLiveRegionOwner(o, m)
        ELSE outcome = [graph |-> Nothing, metadata |-> m]
  <2>1. m = MetadataAlong(<<Attributes(page, o)>> \o [i \in DOMAIN above |-> Attributes(graph, above[i])])
    BY DEF Way
  <2>2. outcome \in IF m.live /\ ~m.containerOwned /\ m.atomic THEN RefreshForLiveRegionOwner(o, m)
                    ELSE {[graph |-> Nothing, metadata |-> m]}
    BY <2>1 DEF LiveRegionMetadata
  <2> QED BY <2>2
<1>4. m.live
  BY <1>3
<1>5. ASSUME NEW i \in 1..Len(way) PROVE SaysAdditions(o, way[i])
  <2>1. CASE i = 1
    <3>1. o \in ToSet(Ancestors(page, o))
      BY OneTree
    <3> QED BY <1>0, <1>1, <2>1, <3>1
  <2>2. CASE i # 1
    <3>1. i - 1 \in 1..Len(above) /\ (i - 1) + 1 = i
      BY <1>1, <2>2
    <3>2. way[i] = Attributes(graph, above[i - 1])
      BY <1>1, <3>1
    <3>3. above[i - 1] \in ToSet(above)
      BY <1>1, <3>1 DEF ToSet
    <3>4. above[i - 1] \in DOMAIN graph \cap ToSet(Ancestors(page, o))
      BY <1>2, <3>3 DEF Above
    <3> QED BY <1>0, <3>2, <3>4
  <2> QED BY <2>1, <2>2
<1>6. m.relevant = {"additions"}
  <2>1. PICK S : way \in Seq(S)
    BY <1>1
  <2>2. SaySame(way, {"additions"})
    BY <1>5 DEF SaySame, SaysAdditions
  <2> QED BY <1>4, <2>1, <2>2, RelevantAlong
<1>7. ~(m.containerOwned /\ m.container = o)
  <2> SUFFICES ASSUME m.containerOwned PROVE m.container # o
    OBVIOUS
  <2>1. \E l \in 1..Len(way) : way[l].own # "" /\ way[l].object = m.container
    <3>1. PICK S : way \in Seq(S)
      BY <1>1
    <3> QED BY <1>1, <1>4, <3>1, RegionAlong
  <2> QED BY <1>5, <2>1 DEF SaysAdditions
<1>8. CASE outcome.metadata = m
  BY <1>6, <1>7, <1>8 DEF Additional
<1>9. CASE outcome.metadata # m
  <2>1. outcome \in RefreshForLiveRegionOwner(o, m)
    BY <1>3, <1>9
  <2>2. PICK g \in Traversals : outcome.metadata = OwnedBy(m, LiveRegionOwnerInGraph(g, o))
    BY <1>9, <2>1 DEF RefreshForLiveRegionOwner
  <2> PICK r : r = LiveRegionOwnerInGraph(g, o)
    OBVIOUS
  <2>3. r # Nothing /\ outcome.metadata = [m EXCEPT !.container = r, !.containerOwned = TRUE]
    BY <1>9, <2>2 DEF OwnedBy
  <2>4. DOMAIN m = {"live", "priority", "atomic", "relevant", "container", "containerOwned"}
    BY <1>4 DEF MetadataAlong, Live, Silent
  <2>5. r # o
    <3> SUFFICES ASSUME r = o PROVE FALSE
      OBVIOUS
    <3> DEFINE defining == {x \in DOMAIN g : DefinesLiveRegion(g[x])}
    <3>1. o \in DOMAIN g /\ o = FirstOf(Ancestors(g, g[o].parent), defining)
      BY <2>3 DEF LiveRegionOwnerInGraph, Has
    <3>2. Rooted(g) /\ WellTyped(g)
      BY KnownGraph, KinAncestors DEF Trees
    <3>3. Ancestors(g, g[o].parent) \in Seq(Objects)
      BY <3>1, <3>2, AncestorsType DEF Rooted
    <3>4. o \in defining
      <4> HIDE DEF defining
      <4> QED BY <2>3, <3>1, <3>3, FirstOfIsIn
    <3>5. InRegion(g[o])
      BY <3>2, <3>4, DefiningIs DEF WellTyped
    <3>6. InRegion(page[o])
      BY <3>1, <3>5, TraversalsShow DEF InRegion, LiveOf
    <3>7. o \in ToSet(Ancestors(page, o))
      BY OneTree
    <3> QED BY <3>6, <3>7 DEF AdditionsOnly, InRegion
  <2> QED BY <1>6, <2>3, <2>4, <2>5 DEF Additional
<1> QED BY <1>8, <1>9

\* A remembered region is asked in the object's stead, and is another one.
LEMMA RememberedIsAdditional ==
  ASSUME Trees, OwnersAreAbove, NEW o \in DOMAIN page, AdditionsOnly(o),
         NEW owner, owner = CachedAtomicLiveRegionOwner(o), owner # Nothing,
         NEW m, m = MetadataAlong([i \in DOMAIN Ancestors(graph, owner) |-> Attributes(graph, Ancestors(graph, owner)[i])]),
         m.live
  PROVE  m.relevant = {"additions"} /\ owner # o
<1> PICK path : path = Ancestors(graph, owner)
  OBVIOUS
<1> PICK told : told = [i \in DOMAIN path |-> Attributes(graph, path[i])]
  OBVIOUS
<1>1. /\ o \in DOMAIN atomicLiveRegionOwners /\ owner = atomicLiveRegionOwners[o]
      /\ owner \in DOMAIN graph /\ IsAtomicLiveRegionOwner(graph[owner])
  BY DEF CachedAtomicLiveRegionOwner, Has
<1>2. ToSet(path) \subseteq ToSet(Ancestors(page, o)) /\ owner \in ToSet(Ancestors(page, o))
  <2>1. /\ NotTooDeep(Everything(workload)) /\ o \in DOMAIN Everything(workload) /\ o \in Places
        /\ Ancestors(page, o) = Ancestors(Everything(workload), o)
        /\ path = Ancestors(Everything(workload), owner)
    BY <1>1, OneTree
  <2> QED BY <1>1, <2>1, AncestorsOfAncestor DEF OwnersAreAbove
<1>3. Above(ToSet(Ancestors(page, o)), path)
  BY <1>1, <1>2, AncestorsAreAbove
<1>4. path \in Seq(Objects) /\ DOMAIN path = 1..Len(path)
  BY <1>3 DEF Above
<1>5. told \in Seq({Attributes(graph, x) : x \in ToSet(path)}) /\ Len(told) = Len(path)
  BY <1>4, GraphAttributes
<1>6. SaySame(told, {"additions"})
  <2> SUFFICES ASSUME NEW i \in 1..Len(told)
               PROVE  /\ told[i].relevant \in {{}, {"additions"}}
                      /\ told[i].own # "" \/ told[i].containerLive # {} => told[i].relevant = {"additions"}
    BY DEF SaySame
  <2>1. path[i] \in ToSet(path) /\ told[i] = Attributes(graph, path[i])
    BY <1>4, <1>5 DEF ToSet
  <2>2. path[i] \in DOMAIN graph /\ path[i] \in ToSet(Ancestors(page, o))
    BY <1>3, <2>1 DEF Above
  <2>3. SaysAdditions(o, Attributes(graph, path[i]))
    BY <2>2, AdditionsSaySame
  <2> QED BY <2>1, <2>3 DEF SaysAdditions
<1>7. m.relevant = {"additions"}
  <2>1. MetadataAlong(told).live /\ m = MetadataAlong(told)
    OBVIOUS
  <2>2. MetadataAlong(told).relevant = {"additions"}
    BY <1>5, <1>6, <2>1, RelevantAlong
  <2> QED BY <2>1, <2>2
<1>8. owner # o
  <2>1. graph[owner] \in Node
    BY <1>1, KinAncestors DEF Trees, WellTyped
  <2>2. InRegion(graph[owner])
    BY <1>1, <2>1, DefiningIs DEF IsAtomicLiveRegionOwner
  <2> QED BY <1>1, <1>2, <2>2 DEF AdditionsOnly, InRegion
<1> QED BY <1>7, <1>8

LEMMA AskedIsAdditional ==
  ASSUME Trees, OwnersAreAbove, NEW o \in DOMAIN page, AdditionsOnly(o),
         NEW outcome \in Asked(o), outcome.metadata.live
  PROVE  Additional(o, outcome.metadata)
<1>1. PICK memberOf \in {{}, {Region(page, o)} \ {Nothing}} : outcome \in ResolvedLiveRegionMetadata(o, memberOf)
  BY DEF Asked
<1>2. memberOf \subseteq ToSet(Ancestors(page, o))
  <2>1. Rooted(page) /\ WellTyped(page)
    BY OneTree
  <2>2. Region(page, o) # Nothing => Region(page, o) \in ToSet(Ancestors(page, o))
    BY <2>1, RegionIsAbove
  <2> QED BY <1>1, <2>2
<1> PICK owner : owner = CachedAtomicLiveRegionOwner(o)
  OBVIOUS
<1>3. CASE owner = Nothing
  <2>1. outcome \in LiveRegionMetadata(o, memberOf)
    BY <1>1, <1>3 DEF ResolvedLiveRegionMetadata
  <2> QED BY <1>2, <2>1, MetadataIsAdditional
<1>4. CASE owner # Nothing
  <2>1. PICK m : /\ m = MetadataAlong([i \in DOMAIN Ancestors(graph, owner) |->
                                         Attributes(graph, Ancestors(graph, owner)[i])])
                 /\ outcome = [graph |-> Nothing,
                               metadata |-> IF m.live THEN Live(m.priority, TRUE, m.relevant, owner, TRUE) ELSE Silent]
    BY <1>1, <1>4 DEF ResolvedLiveRegionMetadata
  <2>2. m.live
    BY <2>1 DEF Silent
  <2>3. m.relevant = {"additions"} /\ owner # o
    BY <1>4, <2>1, <2>2, RememberedIsAdditional
  <2>4. outcome.metadata = Live(m.priority, TRUE, m.relevant, owner, TRUE)
    BY <2>1, <2>2
  <2> QED BY <2>3, <2>4 DEF Live, Additional
<1> QED
  BY <1>3, <1>4

-----------------------------------------------------------------------------
(* The graph's objects are known *)

\* What the graph holds is known.
GraphIsKnown == DOMAIN graph \subseteq liveRegionKnown

LEMMA LearnKnows ==
  ASSUME GraphIsKnown, NEW outcome, NEW objects, Learn(outcome, objects)
  PROVE  DOMAIN graph' \subseteq KnownOf(outcome) /\ GraphIsKnown'
BY DEF GraphIsKnown, Learn, GraphOf, KnownOf, KnownBy

LEMMA StepKnows == GraphIsKnown /\ [Next]_vars => GraphIsKnown'
<1> SUFFICES ASSUME GraphIsKnown, [Next]_vars PROVE GraphIsKnown'
  OBVIOUS
<1>1. CASE UNCHANGED <<graph, liveRegionKnown>>
  BY <1>1 DEF GraphIsKnown
<1>2. CASE \/ \E o \in DOMAIN workload.inserts : Insert(o, workload.inserts[o])
           \/ \E e \in workload.edits : Edit(e[1], e[2])
           \/ \E o \in workload.removed : Delete(o)
           \/ \E a \in workload.announcements : Announce(a.source, a.text, a.priority)
           \/ UNCHANGED vars
  BY <1>1, <1>2 DEF Insert, Edit, Delete, Announce, Signal, known, vars
<1>3. CASE \/ \E a \in workload.attributes : SetAttribute(a.object, a.field, a.value)
           \/ Settle \/ Elapse \/ SetPresentationSettings \/ SealOutputs \/ BeginSession
  BY <1>1, <1>3 DEF SetAttribute, Settle, Elapse, SetPresentationSettings, SealOutputs, BeginSession, known
<1>4. CASE Refresh
  BY <1>4 DEF Refresh, GraphIsKnown, KnownBy
<1>5. ASSUME NEW i \in DOMAIN signals, HandleNativeEvent(i) PROVE GraphIsKnown'
  <2> PICK s : s = signals[i]
    OBVIOUS
  <2>1. CASE HandleLiveTextChange(s)
    BY <2>1, LearnKnows DEF HandleLiveTextChange
  <2>2. CASE HandleLiveChildrenChange(s)
    BY <2>2, LearnKnows DEF HandleLiveChildrenChange
  <2>3. CASE HandleLivePropertyChange(s)
    BY <2>3, LearnKnows DEF HandleLivePropertyChange
  <2>4. CASE UNCHANGED known
    BY <1>1, <2>4 DEF known
  <2> QED BY <1>5, <2>1, <2>2, <2>3, <2>4 DEF HandleNativeEvent, HandleAnnouncement
<1> QED BY <1>2, <1>3, <1>4, <1>5 DEF Next

LEMMA KnownInvariant == Spec => []GraphIsKnown
<1>1. Init => GraphIsKnown
  BY DEF Init, GraphIsKnown, KnownBy
<1> QED
  BY <1>1, StepKnows, PTL DEF Spec

-----------------------------------------------------------------------------
(* Known edits are quiet *)

\* KnownEditsAreQuiet, of one step.
EditsAreQuiet ==
  \A s \in HandledSignals :
    /\ s.name \in {"TextChanged", "PropertyChange"}
    /\ Has(page, s.source) /\ Has(graph', s.source) /\ AdditionsOnly(s.source)
    => announced' = Nothing

LEMMA HandledIsQuiet ==
  ASSUME IInv, GraphIsKnown, NEW s, Has(page, s.source), Has(graph', s.source), AdditionsOnly(s.source),
         HandleLiveTextChange(s) \/ HandleLivePropertyChange(s)
  PROVE  announced' = Nothing
<1>1. Quiet => announced' = Nothing
  BY DEF Quiet, SaysNothing
<1>2. ASSUME NEW outcome \in Asked(s.source), outcome.metadata.live
      PROVE  Additional(s.source, outcome.metadata) /\ "text" \notin outcome.metadata.relevant
  BY <1>2, AskedIsAdditional DEF IInv, Has, Additional
<1>3. CASE HandleLiveTextChange(s)
  <2> DEFINE insertion(m) == m.containerOwned /\ s.source = m.container
             addition(outcome, m) == /\ s.detail = "insert" /\ "additions" \in m.relevant
                                     /\ (s.source \notin KnownOf(outcome) \/ insertion(m))
  <2>1. PICK outcome \in Asked(s.source) : \E m \in {outcome.metadata} :
          IF ~m.live THEN Quiet /\ Learn(outcome, {})
          ELSE /\ Learn(outcome, Subtree(page, s.source))
               /\ ~("text" \in m.relevant \/ addition(outcome, m)) => Quiet
    BY <1>3 DEF HandleLiveTextChange
  <2>2. CASE outcome.metadata.live
    <3>1. s.source \in KnownOf(outcome)
      BY <2>1, <2>2, LearnKnows DEF Has
    <3>2. ~insertion(outcome.metadata)
      BY <1>2, <2>2 DEF Additional
    <3> QED BY <1>1, <1>2, <2>1, <2>2, <3>1, <3>2
  <2>3. CASE ~outcome.metadata.live
    BY <1>1, <2>1, <2>3
  <2> QED BY <2>2, <2>3
<1>4. CASE HandleLivePropertyChange(s)
  BY <1>1, <1>2, <1>4 DEF HandleLivePropertyChange
<1> QED BY <1>3, <1>4

LEMMA StepEditsAreQuiet == IInv /\ GraphIsKnown /\ [Next]_vars => [EditsAreQuiet]_vars
<1> SUFFICES ASSUME IInv, GraphIsKnown, Next PROVE EditsAreQuiet
  BY DEF EditsAreQuiet
<1> SUFFICES ASSUME NEW s \in HandledSignals, s.name \in {"TextChanged", "PropertyChange"},
                    Has(page, s.source), Has(graph', s.source), AdditionsOnly(s.source),
                    announced' # Nothing
             PROVE  FALSE
  BY DEF EditsAreQuiet
<1>1. PICK i \in DOMAIN signals : HandleNativeEvent(i)
  BY OthersAreQuiet
<1>2. HandleLiveTextChange(s) \/ HandleLivePropertyChange(s)
  BY <1>1, HandledBy
<1> QED BY <1>2, HandledIsQuiet

\* In regions where only additions matter, no text of an object that the graph holds is
\* announced, neither as a change nor as an addition (engine.go:3209-3218).
THEOREM KnownEditsCorrect == Spec => KnownEditsAreQuiet
<1>1. IInv /\ GraphIsKnown /\ [Next]_vars => [EditsAreQuiet]_vars
  BY StepEditsAreQuiet
<1>2. KnownEditsAreQuiet <=> [][EditsAreQuiet]_vars
  BY DEF KnownEditsAreQuiet, EditsAreQuiet
<1> QED
  BY <1>1, <1>2, Invariant, KnownInvariant, PTL DEF Spec
=============================================================================
