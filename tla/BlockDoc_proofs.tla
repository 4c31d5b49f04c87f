---------------------------- MODULE BlockDoc_proofs ----------------------------
(***************************************************************************)
(* Theorems about the block editor and the importer, for any sources, any  *)
(* text that is typed, pasted or inserted, and any number of edits.  Of    *)
(* the editor: the source comes back, prose is prose, a card's layer is    *)
(* that of its head, and whoever opens the source again is shown the same  *)
(* cards.  Of the importer on what is edited: no word is lost or told      *)
(* twice, its blocks are the cards, and each is in the layer that the      *)
(* editor shows.                                                           *)
(***************************************************************************)
EXTENDS Library_proofs, ContentImport

-----------------------------------------------------------------------------
(***************************************************************************)
(* Recursion in course of values: parseDoc of a place is made of what it   *)
(* makes of later places, so its values exist for every source.  And the   *)
(* places that a source is cut at.                                         *)
(***************************************************************************)

\* There is a function on 0 .. n whose every value is made of those before it.
SameBefore(g, h, k) == \A j \in 0 .. k - 1 : g[j] = h[j]

OfEarlier(made, n, X) ==
    \A k \in 0 .. n : \A g, h \in [0 .. n -> X] :
       SameBefore(g, h, k) => made[k][g] = made[k][h]

InCourse(made, n, g) == \A k \in 0 .. n : g[k] = made[k][g]

LEMMA CourseOfValues ==
  ASSUME NEW n \in Nat, NEW X, NEW made \in [0 .. n -> [[0 .. n -> X] -> X]],
         NEW x \in X, OfEarlier(made, n, X)
  PROVE  \E g \in [0 .. n -> X] : InCourse(made, n, g)
<1>. DEFINE F == [0 .. n -> X]
            P == {m \in 0 .. n : \E g \in F : \A k \in 0 .. m : g[k] = made[k][g]}
<1>2. ASSUME NEW g \in F, NEW m \in 0 .. n, \A k \in 0 .. m - 1 : g[k] = made[k][g]
      PROVE  \E h \in F : \A k \in 0 .. m : h[k] = made[k][h]
  <2>. DEFINE h == [k \in 0 .. n |-> IF k = m THEN made[m][g] ELSE g[k]]
  <2>1. h \in F
    OBVIOUS
  <2>2. h[m] = made[m][g] /\ \A k \in 0 .. m - 1 : h[k] = g[k]
    OBVIOUS
  <2>. HIDE DEF h, F
  <2>3. ASSUME NEW k \in 0 .. m PROVE h[k] = made[k][h]
    <3>1. k \in 0 .. n /\ \A j \in 0 .. k - 1 : j \in 0 .. m - 1
      OBVIOUS
    <3>2. SameBefore(g, h, k)
      BY <2>2, <3>1 DEF SameBefore
    <3>3. made[k][g] = made[k][h]
      BY <2>1, <3>1, <3>2 DEF F, OfEarlier
    <3>4. CASE k = m
      BY <2>2, <3>3, <3>4
    <3>5. CASE k # m
      <4>1. k \in 0 .. m - 1
        BY <3>5
      <4>. QED
        BY <1>2, <2>2, <3>3, <4>1
    <3>. QED
      BY <3>4, <3>5
  <2>. QED
    BY <2>1, <2>3
<1>3. 0 \in P
  <2>1. [k \in 0 .. n |-> x] \in F /\ 0 \in 0 .. n /\ \A k \in 0 .. 0 - 1 : FALSE
    OBVIOUS
  <2>2. PICK g \in F : g = [k \in 0 .. n |-> x]
    BY <2>1
  <2>. HIDE DEF F
  <2>3. \E h \in F : \A k \in 0 .. 0 : h[k] = made[k][h]
    BY <1>2, <2>1
  <2>. QED
    BY <2>1, <2>3
<1>4. ASSUME NEW m \in 1 .. n, m - 1 \in P PROVE m \in P
  <2>. HIDE DEF F
  <2>1. PICK g \in F : \A k \in 0 .. m - 1 : g[k] = made[k][g]
    BY <1>4
  <2>2. m \in 0 .. n
    OBVIOUS
  <2>3. \E h \in F : \A k \in 0 .. m : h[k] = made[k][h]
    BY <1>2, <2>1, <2>2
  <2>. QED
    BY <2>2, <2>3
<1>5. n \in P
  <2>. HIDE DEF P
  <2>1. \A k \in 0 .. n : k \in P
    BY <1>3, <1>4, UpTo
  <2>. QED
    BY <2>1
<1>. QED
  BY <1>5 DEF InCourse

-----------------------------------------------------------------------------
Source == Seq(Token)
Segment == [kind : {"prose", "directive"}, type : Heads \cup {"", "mark"},
            layer : Layers, raw : Source]

LEMMA TokensOf ==
  /\ \A t \in Token : /\ t.k \in Heads \cup {"close", "tick", "lang", "gap", "rule", "mark", "text"}
                      /\ t.k \in Heads \cup {"mark"} => t.v \in Layers
                      /\ t = Tok(t.k, t.v)
  /\ \A h \in Heads, l \in Layers : Tok(h, l) \in Token
  /\ Close \in Token /\ Gap \in Token /\ Mark \in Token
<1>1. ASSUME NEW t \in Token
      PROVE  /\ t.k \in Heads \cup {"close", "tick", "lang", "gap", "rule", "mark", "text"}
             /\ t.k \in Heads \cup {"mark"} => t.v \in Layers
             /\ t = Tok(t.k, t.v)
  <2>1. CASE t \in {Close, Fence, Lang, Gap, Rule, Mark}
    <3>1. PICK kind \in {"close", "tick", "lang", "gap", "rule", "mark"} :
             t = Tok(kind, "") \/ t = Tok(kind, "formal")
      BY <2>1, Zenon DEF Close, Fence, Lang, Gap, Rule, Mark
    <3>2. t.k = kind /\ (t.v = "" \/ t.v = "formal") /\ t = Tok(t.k, t.v)
      <4>1. \A x, y : Tok(x, y).k = x /\ Tok(x, y).v = y
        BY DEF Tok
      <4>. QED
        BY <3>1, <4>1
    <3>3. t.v \in Layers
      BY <3>2 DEF Layers
    <3>. QED
      BY <3>2, <3>3
  <2>2. CASE t \in {Tok(h, l) : h \in Heads, l \in Layers}
    <3>1. PICK h \in Heads, l \in Layers : t = Tok(h, l)
      BY <2>2
    <3>. QED
      BY <3>1 DEF Tok
  <2>3. CASE t \in {Tok("text", v) : v \in {"a", "b"}}
    <3>1. PICK v \in {"a", "b"} : t = Tok("text", v)
      BY <2>3
    <3>. QED
      BY <3>1 DEF Tok, Heads
  <2>. QED
    BY <2>1, <2>2, <2>3 DEF Token
<1>2. \A h \in Heads, l \in Layers : Tok(h, l) \in Token
  BY DEF Token
<1>3. Close \in Token /\ Gap \in Token /\ Mark \in Token
  BY DEF Token
<1>. QED
  BY <1>1, <1>2, <1>3

\* The least of the places found.
LEMMA FirstLemma ==
  ASSUME NEW S \in SUBSET Nat, 0 \notin S
  PROVE  /\ First(S) \in Nat
         /\ First(S) = 0 <=> S = {}
         /\ S # {} => First(S) \in S /\ \A j \in S : First(S) <= j
<1>1. CASE S = {}
  BY <1>1 DEF First
<1>2. CASE S # {}
  <2>1. \E x \in S : \A y \in S : x <= y
    BY <1>2, LeastOfSet
  <2>2. Min(S) \in S /\ \A y \in S : Min(S) <= y
    BY <2>1 DEF Min
  <2>. QED
    BY <1>2, <2>2 DEF First
<1>. QED
  BY <1>1, <1>2

\* The places of a code's fence and of its last tick, and of a tail.
Fences(d, i) == {j \in i + 1 .. Len(d) : d[j] = Fence /\ j < Len(d) /\ d[j + 1] = Lang}
Ticks(d, i) == {j \in i .. Len(d) : d[j] = Fence}
Tails(d, i) == {j \in i + 1 .. Len(d) : d[j] = Close}

LEMMA EndsAfter ==
  ASSUME NEW d \in Source, NEW i \in 1 .. Len(d)
  PROVE  EndOf(d, i) = 0 \/ EndOf(d, i) \in i + 1 .. Len(d) + 1
<1>1. CASE d[i].k = "single"
  BY <1>1 DEF EndOf
<1>2. CASE d[i].k = "code"
  <2>. DEFINE fence == First(Fences(d, i))
              tick == First(Ticks(d, fence + 2))
  <2>1. EndOf(d, i) = IF fence = 0 \/ tick = 0 THEN 0 ELSE tick + 1
    BY <1>2 DEF EndOf, CodeEnd, Fences, Ticks
  <2>2. fence \in Nat /\ (fence # 0 => fence \in i + 1 .. Len(d))
    <3>1. Fences(d, i) \in SUBSET Nat /\ 0 \notin Fences(d, i)
      BY DEF Fences
    <3>2. Fences(d, i) \subseteq i + 1 .. Len(d)
      BY DEF Fences
    <3>. QED
      BY <3>1, <3>2, FirstLemma
  <2>. HIDE DEF fence
  <2>3. ASSUME fence # 0, tick # 0 PROVE tick \in i + 1 .. Len(d)
    <3>1. Ticks(d, fence + 2) \in SUBSET Nat /\ 0 \notin Ticks(d, fence + 2)
      BY <2>2 DEF Ticks
    <3>2. Ticks(d, fence + 2) \subseteq i + 1 .. Len(d)
      BY <2>2, <2>3 DEF Ticks
    <3>. QED
      BY <2>3, <3>1, <3>2, FirstLemma
  <2>. HIDE DEF tick
  <2>. QED
    BY <2>1, <2>3
<1>3. CASE d[i].k = "multi"
  <2>. DEFINE c == First(Tails(d, i))
  <2>1. EndOf(d, i) = IF c = 0 THEN 0 ELSE c + 1
    BY <1>3 DEF EndOf, Tails
  <2>2. c # 0 => c \in i + 1 .. Len(d)
    <3>1. Tails(d, i) \in SUBSET Nat /\ 0 \notin Tails(d, i)
      BY DEF Tails
    <3>2. Tails(d, i) \subseteq i + 1 .. Len(d)
      BY DEF Tails
    <3>. QED
      BY <3>1, <3>2, FirstLemma
  <2>. HIDE DEF c
  <2>. QED
    BY <2>1, <2>2
<1>4. CASE d[i].k \notin {"single", "code", "multi"}
  BY <1>4 DEF EndOf
<1>. QED
  BY <1>1, <1>2, <1>3, <1>4

\* Only a head begins a directive, and it names its type and layer.
LEMMA EndsOfHeads ==
  ASSUME NEW d \in Source, NEW i \in 1 .. Len(d), EndOf(d, i) # 0
  PROVE  d[i].k \in Heads /\ d[i].v \in Layers
<1>1. d[i] \in Token
  BY DEF Source
<1>2. d[i].k \in {"single", "code", "multi"}
  BY DEF EndOf
<1>3. d[i].k \in Heads
  BY <1>2 DEF Heads
<1>. QED
  BY <1>1, <1>3, TokensOf

\* A directive that is whole in a part of a source is one of the source.
PartAt(d, e, x) == /\ Len(e) + x <= Len(d)
                    /\ \A j \in 1 .. Len(e) : e[j] = d[x + j]

LEMMA EndsInPart ==
  ASSUME NEW d \in Source, NEW e \in Source, NEW x \in Nat, PartAt(d, e, x),
         NEW i \in 1 .. Len(e), EndOf(e, i) # 0
  PROVE  EndOf(d, x + i) = x + EndOf(e, i)
<1>. DEFINE m == Len(e)
            n == Len(d)
<1>1. /\ m \in Nat /\ n \in Nat /\ m + x <= n /\ x + i \in 1 .. n
      /\ \A j \in 1 .. m : e[j] = d[x + j] /\ x + j \in 1 .. n
  BY DEF PartAt
<1>2. e[i] = d[x + i]
  BY <1>1
<1>3. CASE e[i].k = "single"
  BY <1>1, <1>2, <1>3 DEF EndOf
<1>4. CASE e[i].k = "code"
  <2>. DEFINE f == First(Fences(e, i))
              t == First(Ticks(e, f + 2))
              g == First(Fences(d, x + i))
              u == First(Ticks(d, g + 2))
  <2>1. /\ EndOf(e, i) = IF f = 0 \/ t = 0 THEN 0 ELSE t + 1
        /\ EndOf(d, x + i) = IF g = 0 \/ u = 0 THEN 0 ELSE u + 1
    BY <1>2, <1>4 DEF EndOf, CodeEnd, Fences, Ticks
  <2>2. f # 0 /\ t # 0
    BY <2>1
  <2>3. Fences(e, i) \in SUBSET Nat /\ 0 \notin Fences(e, i)
        /\ Fences(d, x + i) \in SUBSET Nat /\ 0 \notin Fences(d, x + i)
    BY <1>1 DEF Fences
  <2>4. f \in Fences(e, i) /\ \A j \in Fences(e, i) : f <= j
    BY <2>2, <2>3, FirstLemma
  <2>5. f \in i + 1 .. m /\ f < m /\ e[f] = Fence /\ e[f + 1] = Lang
    BY <2>4 DEF Fences
  <2>6. x + f \in Fences(d, x + i)
    <3>. HIDE DEF f, m, n
    <3>1. f \in 1 .. m /\ f + 1 \in 1 .. m /\ x + (f + 1) = x + f + 1
      BY <1>1, <2>5
    <3>2. d[x + f] = Fence /\ d[x + f + 1] = Lang
      BY <1>1, <2>5, <3>1
    <3>3. x + f \in x + i + 1 .. n /\ x + f < n
      BY <1>1, <2>5
    <3>. QED
      BY <3>2, <3>3 DEF Fences, n
  <2>7. g \in Fences(d, x + i) /\ \A j \in Fences(d, x + i) : g <= j
    BY <2>3, <2>6, FirstLemma
  <2>. HIDE DEF f, g, m, n
  <2>8. g = x + f
    <3>1. g \in x + i + 1 .. n /\ g < n /\ d[g] = Fence /\ d[g + 1] = Lang /\ g <= x + f
      BY <2>6, <2>7 DEF Fences, n
    <3>2. g - x \in i + 1 .. m /\ g - x < m /\ x + (g - x) = g /\ g - x + 1 \in 1 .. m
          /\ x + (g - x + 1) = g + 1
      BY <1>1, <2>5, <3>1
    <3>3. e[g - x] = Fence /\ e[g - x + 1] = Lang
      BY <1>1, <3>1, <3>2
    <3>4. g - x \in Fences(e, i)
      BY <3>2, <3>3 DEF Fences, m
    <3>5. f <= g - x
      BY <2>4, <3>4
    <3>. QED
      BY <1>1, <2>5, <3>1, <3>5
  <2>9. f \in Nat /\ f > 0
    BY <1>1, <2>5
  <2>10. Ticks(e, f + 2) \in SUBSET Nat /\ 0 \notin Ticks(e, f + 2)
         /\ Ticks(d, g + 2) \in SUBSET Nat /\ 0 \notin Ticks(d, g + 2)
    BY <2>8, <2>9 DEF Ticks
  <2>11. t \in Ticks(e, f + 2) /\ \A j \in Ticks(e, f + 2) : t <= j
    BY <2>2, <2>10, FirstLemma
  <2>12. t \in f + 2 .. m /\ e[t] = Fence
    BY <2>11 DEF Ticks, m
  <2>13. x + t \in Ticks(d, g + 2)
    BY <1>1, <2>8, <2>9, <2>12 DEF Ticks, n
  <2>14. u \in Ticks(d, g + 2) /\ \A j \in Ticks(d, g + 2) : u <= j
    BY <2>10, <2>13, FirstLemma
  <2>. HIDE DEF t, u
  <2>15. u = x + t
    <3>1. u \in g + 2 .. n /\ d[u] = Fence /\ u <= x + t
      BY <2>13, <2>14 DEF Ticks, n
    <3>2. u - x \in f + 2 .. m /\ x + (u - x) = u /\ u - x \in 1 .. m
      BY <1>1, <2>8, <2>9, <2>12, <3>1
    <3>3. e[u - x] = Fence
      BY <1>1, <3>1, <3>2
    <3>4. u - x \in Ticks(e, f + 2)
      BY <3>2, <3>3 DEF Ticks, m
    <3>5. t <= u - x
      BY <2>11, <3>4
    <3>. QED
      BY <1>1, <2>9, <2>12, <3>1, <3>2, <3>5
  <2>. QED
    BY <2>1, <2>2, <2>8, <2>9, <2>12, <2>15
<1>5. CASE e[i].k = "multi"
  <2>. DEFINE c == First(Tails(e, i))
              h == First(Tails(d, x + i))
  <2>1. /\ EndOf(e, i) = IF c = 0 THEN 0 ELSE c + 1
        /\ EndOf(d, x + i) = IF h = 0 THEN 0 ELSE h + 1
    BY <1>2, <1>5 DEF EndOf, Tails
  <2>2. c # 0
    BY <2>1
  <2>3. Tails(e, i) \in SUBSET Nat /\ 0 \notin Tails(e, i)
        /\ Tails(d, x + i) \in SUBSET Nat /\ 0 \notin Tails(d, x + i)
    BY <1>1 DEF Tails
  <2>4. c \in Tails(e, i) /\ \A j \in Tails(e, i) : c <= j
    BY <2>2, <2>3, FirstLemma
  <2>5. c \in i + 1 .. m /\ e[c] = Close
    BY <2>4 DEF Tails
  <2>6. x + c \in Tails(d, x + i)
    BY <1>1, <2>5 DEF Tails
  <2>7. h \in Tails(d, x + i) /\ \A j \in Tails(d, x + i) : h <= j
    BY <2>3, <2>6, FirstLemma
  <2>. HIDE DEF c, h, m, n
  <2>8. h = x + c
    <3>1. h \in x + i + 1 .. n /\ d[h] = Close /\ h <= x + c
      BY <2>6, <2>7 DEF Tails, n
    <3>2. h - x \in i + 1 .. m /\ x + (h - x) = h /\ h - x \in 1 .. m
      BY <1>1, <2>5, <3>1
    <3>3. e[h - x] = Close
      BY <1>1, <3>1, <3>2
    <3>4. h - x \in Tails(e, i)
      BY <3>2, <3>3 DEF Tails, m
    <3>5. c <= h - x
      BY <2>4, <3>4
    <3>. QED
      BY <1>1, <2>5, <3>1, <3>2, <3>5
  <2>. QED
    BY <1>1, <2>1, <2>2, <2>5, <2>8
<1>6. CASE e[i].k \notin {"single", "code", "multi"}
  BY <1>6 DEF EndOf
<1>. QED
  BY <1>3, <1>4, <1>5, <1>6

-----------------------------------------------------------------------------
(***************************************************************************)
(* Sequences of segments, their source, and what the cutting of prose at   *)
(* its markers makes.                                                      *)
(***************************************************************************)

LEMMA FlattenConcat ==
  ASSUME NEW T, NEW p \in Seq(Seq(T)), NEW q \in Seq(Seq(T))
  PROVE  FlattenSeq(p \o q) = FlattenSeq(p) \o FlattenSeq(q)
<1>. DEFINE n == Len(q)
            P == {k \in Nat : k \in 0 .. n => FlattenSeq(p \o SubSeq(q, 1, k))
                                              = FlattenSeq(p) \o FlattenSeq(SubSeq(q, 1, k))}
<1>1. n \in Nat /\ FlattenSeq(p) \in Seq(T)
  <2>1. << >> \in Seq(T)
    OBVIOUS
  <2>. QED
    BY <2>1, FlattenAppend
<1>2. 0 \in P
  <2>1. SubSeq(q, 1, 0) = << >> /\ p \o << >> = p
    OBVIOUS
  <2>2. FlattenSeq(p) \o << >> = FlattenSeq(p)
    BY <1>1
  <2>. QED
    BY <2>1, <2>2, FlattenEmpty
<1>3. ASSUME NEW k \in 1 .. n, k - 1 \in P PROVE k \in P
  <2>. DEFINE r == SubSeq(q, 1, k - 1)
              x == q[k]
  <2>1. r \in Seq(Seq(T)) /\ x \in Seq(T) /\ SubSeq(q, 1, k) = Append(r, x)
        /\ p \o Append(r, x) = Append(p \o r, x) /\ p \o r \in Seq(Seq(T))
    BY SMTT(30)
  <2>2. FlattenSeq(p \o r) = FlattenSeq(p) \o FlattenSeq(r)
    BY <1>1, <1>3
  <2>. HIDE DEF r, x
  <2>3. /\ FlattenSeq(Append(p \o r, x)) = FlattenSeq(p \o r) \o x
        /\ FlattenSeq(Append(r, x)) = FlattenSeq(r) \o x
        /\ FlattenSeq(r) \in Seq(T)
    BY <2>1, FlattenAppend
  <2>4. (FlattenSeq(p) \o FlattenSeq(r)) \o x = FlattenSeq(p) \o (FlattenSeq(r) \o x)
    <3>1. PICK u \in Seq(T), v \in Seq(T), y \in Seq(T) :
             u = FlattenSeq(p) /\ v = FlattenSeq(r) /\ y = x
      BY <1>1, <2>1, <2>3
    <3>2. (u \o v) \o y = u \o (v \o y)
      BY SMTT(30)
    <3>. QED
      BY <3>1, <3>2
  <2>5. FlattenSeq(p \o SubSeq(q, 1, k)) = FlattenSeq(p) \o FlattenSeq(SubSeq(q, 1, k))
    BY <2>1, <2>2, <2>3, <2>4
  <2>. QED
    BY <2>5
<1>. HIDE DEF P
<1>4. \A k \in 0 .. n : k \in P
  BY <1>1, <1>2, <1>3, UpTo
<1>5. SubSeq(q, 1, n) = q /\ n \in 0 .. n
  OBVIOUS
<1>6. n \in P
  BY <1>4, <1>5
<1>7. FlattenSeq(p \o SubSeq(q, 1, n)) = FlattenSeq(p) \o FlattenSeq(SubSeq(q, 1, n))
  BY <1>5, <1>6 DEF P
<1>. QED
  BY <1>5, <1>7

\* A sequence that is not empty is its front and its last.
LEMMA FrontLast ==
  ASSUME NEW T, NEW q \in Seq(T), q # << >>
  PROVE  /\ Front(q) \in Seq(T) /\ Last(q) \in T /\ q = Append(Front(q), Last(q))
         /\ Len(q) = Len(Front(q)) + 1 /\ Len(q) \in 1 .. Len(q)
         /\ \A j \in 1 .. Len(Front(q)) : j \in 1 .. Len(q) /\ Front(q)[j] = q[j]
<1>1. Len(q) \in Nat /\ Len(q) # 0
  OBVIOUS
<1>2. Len(q) \in 1 .. Len(q) /\ Len(q) - 1 \in Nat
  BY <1>1
<1>3. Front(q) \in Seq(T) /\ Len(Front(q)) = Len(q) - 1
      /\ \A j \in 1 .. Len(q) - 1 : Front(q)[j] = q[j] /\ j \in 1 .. Len(q)
  <2>1. PICK n \in Nat : n = Len(q) - 1
    BY <1>2
  <2>2. n <= Len(q) /\ \A j \in 1 .. n : j \in 1 .. Len(q)
    BY <1>1, <2>1
  <2>3. /\ SubSeq(q, 1, n) \in Seq(T) /\ Len(SubSeq(q, 1, n)) = n
        /\ \A j \in 1 .. n : SubSeq(q, 1, n)[j] = q[j]
    BY <2>2
  <2>4. Front(q) = SubSeq(q, 1, n)
    BY <2>1 DEF Front
  <2>. QED
    BY <2>1, <2>2, <2>3, <2>4
<1>4. Last(q) = q[Len(q)] /\ Last(q) \in T
  BY <1>2 DEF Last
<1>5. q = Append(Front(q), Last(q))
  <2>1. /\ Append(Front(q), Last(q)) \in Seq(T) /\ Len(Append(Front(q), Last(q))) = Len(q)
        /\ \A j \in 1 .. Len(q) : Append(Front(q), Last(q))[j] = q[j]
    BY <1>2, <1>3, <1>4
  <2>. QED
    BY <2>1
<1>. QED
  BY <1>2, <1>3, <1>4, <1>5

LEMMA RawsAreSources ==
  ASSUME NEW s \in Seq(Segment)
  PROVE  Raws(s) \in Seq(Source)
<1>1. Len(s) \in Nat /\ DOMAIN s = 1 .. Len(s)
  OBVIOUS
<1>2. \A g \in Segment : g.raw \in Source
  BY DEF Segment
<1>3. \A i \in DOMAIN s : s[i].raw \in Source
  BY <1>2
<1>. QED
  BY <1>1, <1>3 DEF Raws

LEMMA SerializeEmpty == serializeDoc(<< >>) = << >>
<1>1. [i \in DOMAIN << >> |-> << >>[i].raw] = << >>
  OBVIOUS
<1>. QED
  BY <1>1, FlattenEmpty DEF serializeDoc

LEMMA SerializeAppend ==
  ASSUME NEW s \in Seq(Segment), NEW g \in Segment
  PROVE  serializeDoc(s) \in Source /\ serializeDoc(Append(s, g)) = serializeDoc(s) \o g.raw
<1>1. Raws(s) \in Seq(Seq(Token)) /\ g.raw \in Seq(Token)
  BY RawsAreSources DEF Segment, Source
<1>2. Raws(Append(s, g)) = Append(Raws(s), g.raw)
  BY DEF Raws
<1>. QED
  BY <1>1, <1>2, FlattenAppend DEF serializeDoc, Raws, Source

LEMMA SerializeConcat ==
  ASSUME NEW s \in Seq(Segment), NEW r \in Seq(Segment)
  PROVE  serializeDoc(s \o r) = serializeDoc(s) \o serializeDoc(r)
<1>1. Raws(s) \in Seq(Seq(Token)) /\ Raws(r) \in Seq(Seq(Token))
  BY RawsAreSources DEF Source
<1>2. Raws(s \o r) = Raws(s) \o Raws(r)
  <2>. DEFINE m == Len(s)
              n == Len(r)
  <2>1. /\ m \in Nat /\ n \in Nat /\ DOMAIN s = 1 .. m /\ DOMAIN r = 1 .. n
        /\ DOMAIN (s \o r) = 1 .. m + n
        /\ \A i \in 1 .. m + n : (s \o r)[i] = IF i <= m THEN s[i] ELSE r[i - m]
    OBVIOUS
  <2>2. /\ Raws(s \o r) = [i \in 1 .. m + n |-> (s \o r)[i].raw]
        /\ Raws(s) = [i \in 1 .. m |-> s[i].raw] /\ Raws(r) = [i \in 1 .. n |-> r[i].raw]
    BY <2>1 DEF Raws
  <2>3. Len(Raws(s)) = m /\ Len(Raws(r)) = n
    BY <2>1, <2>2
  <2>4. Raws(s) \o Raws(r)
        = [i \in 1 .. m + n |-> IF i <= m THEN Raws(s)[i] ELSE Raws(r)[i - m]]
    <3>1. PICK a \in Seq(Seq(Token)), b \in Seq(Seq(Token)) : a = Raws(s) /\ b = Raws(r)
      BY <1>1
    <3>2. a \o b = [i \in 1 .. Len(a) + Len(b) |-> IF i <= Len(a) THEN a[i] ELSE b[i - Len(a)]]
      <4>1. /\ a \o b \in Seq(Seq(Token)) /\ Len(a \o b) = Len(a) + Len(b)
            /\ \A i \in 1 .. Len(a) + Len(b) :
                 (a \o b)[i] = IF i <= Len(a) THEN a[i] ELSE b[i - Len(a)]
        OBVIOUS
      <4>2. a \o b = [i \in 1 .. Len(a \o b) |-> (a \o b)[i]]
        <5>1. PICK c \in Seq(Seq(Token)) : c = a \o b
          BY <4>1
        <5>2. c = [i \in 1 .. Len(c) |-> c[i]]
          OBVIOUS
        <5>. QED
          BY <5>1, <5>2
      <4>. QED
        BY <4>1, <4>2
    <3>. HIDE DEF m, n
    <3>. QED
      BY <2>3, <3>1, <3>2
  <2>. HIDE DEF m, n
  <2>5. \A i \in 1 .. m + n :
           (s \o r)[i].raw = IF i <= m THEN Raws(s)[i] ELSE Raws(r)[i - m]
    <3>1. \A i \in 1 .. m + n : (i <= m => i \in 1 .. m) /\ (~(i <= m) => i - m \in 1 .. n)
      BY <2>1
    <3>. QED
      BY <2>1, <2>2, <3>1
  <2>. QED
    BY <2>2, <2>4, <2>5
<1>3. FlattenSeq(Raws(s) \o Raws(r)) = FlattenSeq(Raws(s)) \o FlattenSeq(Raws(r))
  BY <1>1, FlattenConcat
<1>. QED
  BY <1>2, <1>3 DEF serializeDoc, Raws

-----------------------------------------------------------------------------
\* Prose of a source: a part of it without a marker.
Chunk(s, raw, x) ==
    /\ raw \in Source /\ raw # << >>
    /\ PartAt(s, raw, x)
    /\ \A i \in 1 .. Len(raw) : raw[i] # Mark

Piece(s, g) ==
    \/ g = Directive(<<Mark>>)
    \/ \E raw \in Source, x \in Nat : g = Prose(raw) /\ Chunk(s, raw, x)

\* What is cut of the first k tokens of s.
Cut(s, k, out) ==
    /\ out \in Seq(Segment)
    /\ serializeDoc(out) = SubSeq(s, 1, k)
    /\ \A j \in 1 .. Len(out) : Piece(s, out[j])
    /\ (out # << >> /\ Last(out).kind = "prose") =>
          \E raw \in Source, x \in Nat :
             Last(out) = Prose(raw) /\ Chunk(s, raw, x) /\ x + Len(raw) = k
    /\ k # 0 /\ (\A i \in 1 .. k : s[i] # Mark) => out = <<Prose(SubSeq(s, 1, k))>>

LEMMA MarkIsSegment ==
  /\ Directive(<<Mark>>) \in Segment
  /\ \A raw \in Source : Prose(raw) \in Segment /\ Prose(raw).kind = "prose" /\ Prose(raw).raw = raw
  /\ Directive(<<Mark>>).kind = "directive" /\ Directive(<<Mark>>).raw = <<Mark>>
  /\ Directive(<<Mark>>).type = "mark" /\ Directive(<<Mark>>).layer = "formal"
<1>1. <<Mark>> \in Source /\ Mark \in Token
  <2>1. Mark \in Token
    BY TokensOf
  <2>. QED
    BY <2>1 DEF Source
<1>2. Mark.k = "mark" /\ Mark.v = "formal"
  BY DEF Mark, Tok
<1>3. <<Mark>>[1] = Mark
  OBVIOUS
<1>4. /\ Directive(<<Mark>>).kind = "directive" /\ Directive(<<Mark>>).raw = <<Mark>>
      /\ Directive(<<Mark>>).type = "mark" /\ Directive(<<Mark>>).layer = "formal"
  BY <1>2, <1>3 DEF Directive
<1>5. Directive(<<Mark>>) \in Segment
  BY <1>1, <1>2, <1>3 DEF Directive, Segment, Layers
<1>6. \A raw \in Source : Prose(raw) \in Segment /\ Prose(raw).kind = "prose" /\ Prose(raw).raw = raw
  BY DEF Prose, Segment, Layers
<1>. QED
  BY <1>4, <1>5, <1>6

LEMMA CutStep ==
  ASSUME NEW s \in Source, NEW k \in 1 .. Len(s), NEW out, Cut(s, k - 1, out)
  PROVE  Cut(s, k, SplitOneMore(out, s[k]))
<1>. DEFINE t == s[k]
            more == SplitOneMore(out, t)
<1>1. /\ s \in Seq(Token) /\ t \in Token /\ k \in Nat /\ k - 1 \in Nat /\ k \in 1 .. Len(s)
      /\ k - 1 + 1 = k /\ Len(s) \in Nat
  BY DEF Source
<1>2. SubSeq(s, 1, k - 1) \in Seq(Token) /\ SubSeq(s, 1, k) = Append(SubSeq(s, 1, k - 1), t)
  BY <1>1
<1>3. out \in Seq(Segment) /\ serializeDoc(out) = SubSeq(s, 1, k - 1)
      /\ \A j \in 1 .. Len(out) : Piece(s, out[j])
  BY DEF Cut
<1>4. \A q \in Seq(Token) : q \o <<t>> = Append(q, t)
  BY <1>1
<1>. HIDE DEF t
<1>5. CASE t = Mark
  <2>. DEFINE g == Directive(<<Mark>>)
  <2>1. more = Append(out, g)
    BY <1>5 DEF SplitOneMore
  <2>2. g \in Segment /\ g.raw = <<Mark>> /\ g.kind = "directive"
    BY MarkIsSegment
  <2>. HIDE DEF g, more
  <2>3. more \in Seq(Segment) /\ Len(more) = Len(out) + 1 /\ more[Len(more)] = g
        /\ \A j \in 1 .. Len(more) : j = Len(more) \/ (j \in 1 .. Len(out) /\ more[j] = out[j])
    BY <1>3, <2>1, <2>2
  <2>4. serializeDoc(more) = SubSeq(s, 1, k)
    <3>1. serializeDoc(more) = serializeDoc(out) \o <<t>>
      BY <1>3, <1>5, <2>1, <2>2, SerializeAppend
    <3>. QED
      BY <1>2, <1>3, <1>4, <3>1
  <2>5. \A j \in 1 .. Len(more) : Piece(s, more[j])
    BY <1>3, <2>3 DEF Piece, g
  <2>6. Last(more).kind # "prose"
    BY <2>2, <2>3 DEF Last
  <2>7. ~ \A i \in 1 .. k : s[i] # Mark
    BY <1>1, <1>5 DEF t
  <2>. QED
    BY <2>3, <2>4, <2>5, <2>6, <2>7 DEF Cut, more, t
<1>6. CASE t # Mark /\ out # << >> /\ Last(out).kind = "prose"
  <2>1. PICK raw \in Source, x \in Nat :
           Last(out) = Prose(raw) /\ Chunk(s, raw, x) /\ x + Len(raw) = k - 1
    BY <1>6 DEF Cut
  <2>. DEFINE front == Front(out)
              long == Append(raw, t)
  <2>2. /\ raw \in Seq(Token) /\ Len(raw) \in Nat /\ raw # << >>
        /\ Len(raw) + x <= Len(s) /\ \A j \in 1 .. Len(raw) : raw[j] = s[x + j] /\ raw[j] # Mark
    BY <2>1 DEF Chunk, PartAt, Source
  <2>3. long \in Source /\ long # << >> /\ Len(long) = Len(raw) + 1 /\ x + Len(long) = k
    BY <1>1, <2>1, <2>2 DEF Source
  <2>4. Chunk(s, long, x)
    <3>1. ASSUME NEW j \in 1 .. Len(long) PROVE long[j] = s[x + j] /\ long[j] # Mark
      <4>1. CASE j \in 1 .. Len(raw)
        BY <2>2, <4>1
      <4>2. CASE j = Len(raw) + 1
        <5>1. x + j = k /\ long[j] = t
          BY <1>1, <2>1, <2>2, <4>2
        <5>. QED
          BY <1>6, <5>1 DEF t
      <4>. QED
        BY <2>2, <2>3, <4>1, <4>2
    <3>2. Len(long) + x <= Len(s)
      BY <1>1, <2>2, <2>3
    <3>. HIDE DEF long
    <3>. QED
      BY <2>3, <3>1, <3>2 DEF Chunk, PartAt
  <2>5. Last(out).raw = raw /\ Last(out) \in Segment
    BY <2>1, MarkIsSegment
  <2>6. more = Append(front, Prose(long))
    BY <1>6, <2>5 DEF SplitOneMore
  <2>7. front \in Seq(Segment) /\ out = Append(front, Last(out)) /\ Len(out) = Len(front) + 1
        /\ \A j \in 1 .. Len(front) : j \in 1 .. Len(out) /\ front[j] = out[j]
    BY <1>3, <1>6, FrontLast
  <2>8. Prose(long) \in Segment /\ Prose(long).raw = long
    BY <2>3, MarkIsSegment
  <2>. HIDE DEF front, more
  <2>9. more \in Seq(Segment) /\ Len(more) = Len(front) + 1 /\ more[Len(more)] = Prose(long)
        /\ \A j \in 1 .. Len(more) : j = Len(more) \/ (j \in 1 .. Len(front) /\ more[j] = front[j])
    BY <2>6, <2>7, <2>8
  <2>10. serializeDoc(more) = SubSeq(s, 1, k)
    <3>1. serializeDoc(more) = serializeDoc(front) \o long /\ serializeDoc(front) \in Seq(Token)
      BY <2>6, <2>7, <2>8, SerializeAppend DEF Source
    <3>2. serializeDoc(out) = serializeDoc(front) \o raw
      <4>1. serializeDoc(Append(front, Last(out))) = serializeDoc(front) \o Last(out).raw
        BY <2>5, <2>7, SerializeAppend
      <4>. QED
        BY <2>5, <2>7, <4>1
    <3>3. serializeDoc(front) \o long = Append(serializeDoc(front) \o raw, t)
      <4>1. \A u, v \in Seq(Token) : u \o Append(v, t) = Append(u \o v, t)
        BY <1>1 DEF t
      <4>. QED
        BY <2>2, <3>1, <4>1
    <3>. QED
      BY <1>2, <1>3, <3>1, <3>2, <3>3
  <2>11. \A j \in 1 .. Len(more) : Piece(s, more[j])
    <3>1. Piece(s, Prose(long))
      BY <2>3, <2>4 DEF Piece
    <3>. QED
      BY <1>3, <2>7, <2>9, <3>1
  <2>12. Last(more) = Prose(long)
    BY <2>9 DEF Last
  <2>13. ASSUME \A i \in 1 .. k : s[i] # Mark PROVE more = <<Prose(SubSeq(s, 1, k))>>
    <3>1. k - 1 # 0
      BY <2>1, <2>2
    <3>2. out = <<Prose(SubSeq(s, 1, k - 1))>>
      BY <1>1, <2>13, <3>1 DEF Cut
    <3>3. front = << >> /\ Last(out) = Prose(SubSeq(s, 1, k - 1))
      BY <3>2 DEF front, Front, Last
    <3>4. raw = SubSeq(s, 1, k - 1)
      BY <1>2, <2>5, <3>3, MarkIsSegment DEF Source
    <3>5. long = SubSeq(s, 1, k)
      BY <1>2, <3>4 DEF t
    <3>6. Append(<< >>, Prose(long)) = <<Prose(long)>>
      OBVIOUS
    <3>. HIDE DEF long
    <3>. QED
      BY <2>6, <3>3, <3>5, <3>6
  <2>. HIDE DEF long
  <2>. QED
    BY <2>3, <2>4, <2>9, <2>10, <2>11, <2>12, <2>13 DEF Cut, more, t
<1>7. CASE t # Mark /\ ~(out # << >> /\ Last(out).kind = "prose")
  <2>. DEFINE g == Prose(<<t>>)
  <2>1. more = Append(out, g)
    BY <1>7 DEF SplitOneMore
  <2>2. <<t>> \in Source /\ <<t>> # << >> /\ Len(<<t>>) = 1 /\ <<t>>[1] = t
    BY <1>1 DEF Source
  <2>3. g \in Segment /\ g.raw = <<t>>
    BY <2>2, MarkIsSegment
  <2>. HIDE DEF more
  <2>4. more \in Seq(Segment) /\ Len(more) = Len(out) + 1 /\ more[Len(more)] = g
        /\ \A j \in 1 .. Len(more) : j = Len(more) \/ (j \in 1 .. Len(out) /\ more[j] = out[j])
    <3>. HIDE DEF g
    <3>. QED
      BY <1>3, <2>1, <2>3
  <2>5. serializeDoc(more) = SubSeq(s, 1, k)
    <3>1. serializeDoc(more) = serializeDoc(out) \o <<t>>
      <4>. HIDE DEF g
      <4>. QED
        BY <1>3, <2>1, <2>3, SerializeAppend
    <3>. QED
      BY <1>2, <1>3, <1>4, <3>1
  <2>6. Chunk(s, <<t>>, k - 1) /\ k - 1 + Len(<<t>>) = k
    <3>1. \A j \in 1 .. 1 : <<t>>[j] = s[k - 1 + j] /\ <<t>>[j] # Mark
      BY <1>1, <1>7, <2>2 DEF t
    <3>. QED
      BY <1>1, <2>2, <3>1 DEF Chunk, PartAt
  <2>7. Piece(s, g)
    BY <1>1, <2>2, <2>6 DEF Piece
  <2>8. \A j \in 1 .. Len(more) : Piece(s, more[j])
    BY <1>3, <2>4, <2>7
  <2>9. Last(more) = g
    BY <2>4 DEF Last
  <2>10. ASSUME \A i \in 1 .. k : s[i] # Mark PROVE more = <<Prose(SubSeq(s, 1, k))>>
    <3>1. CASE k = 1
      <4>1. SubSeq(s, 1, 0) = << >>
        BY <1>1
      <4>2. serializeDoc(out) = << >> /\ SubSeq(s, 1, k) = <<t>>
        <5>1. k - 1 = 0 /\ Append(<< >>, t) = <<t>>
          BY <3>1
        <5>. QED
          BY <1>2, <1>3, <4>1, <5>1
      <4>3. out = << >>
        <5>1. SUFFICES ASSUME out # << >> PROVE FALSE
          OBVIOUS
        <5>2. Len(out) \in 1 .. Len(out) /\ Last(out) = out[Len(out)] /\ Last(out).kind # "prose"
          BY <1>3, <1>7, <5>1 DEF Last
        <5>3. out[Len(out)] = Directive(<<Mark>>)
          BY <1>3, <5>2, MarkIsSegment DEF Piece
        <5>4. out = Append(Front(out), Last(out)) /\ Front(out) \in Seq(Segment) /\ Last(out) \in Segment
          BY <1>3, <5>1, FrontLast
        <5>5. serializeDoc(Append(Front(out), Last(out))) = serializeDoc(Front(out)) \o Last(out).raw
              /\ serializeDoc(Front(out)) \in Source
          BY <5>4, SerializeAppend
        <5>6. Last(out).raw = <<Mark>>
          BY <5>2, <5>3, MarkIsSegment
        <5>7. << >> = serializeDoc(Front(out)) \o <<Mark>>
          BY <4>2, <5>4, <5>5, <5>6
        <5>. QED
          BY <5>5, <5>7, SMTT(30) DEF Source
      <4>4. Append(<< >>, g) = <<g>>
        OBVIOUS
      <4>. QED
        BY <2>1, <4>2, <4>3, <4>4
    <3>2. CASE k # 1
      <4>1. out = <<Prose(SubSeq(s, 1, k - 1))>>
        BY <1>1, <2>10, <3>2 DEF Cut
      <4>2. Last(out).kind = "prose" /\ out # << >>
        BY <1>2, <4>1, MarkIsSegment DEF Last, Source
      <4>. QED
        BY <1>7, <4>2
    <3>. QED
      BY <3>1, <3>2
  <2>. QED
    BY <1>1, <2>2, <2>4, <2>5, <2>6, <2>8, <2>9, <2>10 DEF Cut, more, t
<1>. QED
  BY <1>5, <1>6, <1>7 DEF more, t

-----------------------------------------------------------------------------
(***************************************************************************)
(* The cutting of prose, and the step of parseDoc: the prose up to a       *)
(* directive, the directive, and what follows.                             *)
(***************************************************************************)

LEMMA SplitTyped ==
  ASSUME NEW out \in Seq(Segment), NEW t \in Token
  PROVE  SplitOneMore(out, t) \in Seq(Segment)
<1>1. <<t>> \in Source
  BY DEF Source
<1>2. CASE t = Mark
  <2>1. Directive(<<t>>) \in Segment
    BY <1>2, MarkIsSegment
  <2>. QED
    BY <1>2, <2>1 DEF SplitOneMore
<1>3. CASE t # Mark /\ out # << >> /\ Last(out).kind = "prose"
  <2>1. Front(out) \in Seq(Segment) /\ Last(out) \in Segment
    BY <1>3, FrontLast
  <2>2. Last(out).raw \in Source
    BY <2>1 DEF Segment
  <2>3. Append(Last(out).raw, t) \in Source
    BY <2>2 DEF Source
  <2>4. Prose(Append(Last(out).raw, t)) \in Segment
    BY <2>3, MarkIsSegment
  <2>. QED
    BY <1>3, <2>1, <2>4 DEF SplitOneMore
<1>4. CASE t # Mark /\ ~(out # << >> /\ Last(out).kind = "prose")
  <2>1. Prose(<<t>>) \in Segment
    BY <1>1, MarkIsSegment
  <2>. QED
    BY <1>4, <2>1 DEF SplitOneMore
<1>. QED
  BY <1>2, <1>3, <1>4

SplitAt(s, g) ==
    g = [k \in 0 .. Len(s) |-> IF k = 0 THEN << >> ELSE SplitOneMore(g[k - 1], s[k])]

LEMMA SplitExists ==
  ASSUME NEW s \in Source
  PROVE  \E g : SplitAt(s, g)
<1>. DEFINE n == Len(s)
            X == Seq(Segment)
            step == [k \in 1 .. n |-> [x \in X |-> SplitOneMore(x, s[k])]]
<1>1. n \in Nat /\ << >> \in X /\ \A k \in 1 .. n : s[k] \in Token
  BY DEF Source
<1>2. \A k \in 1 .. n : \A x \in X : SplitOneMore(x, s[k]) \in X
  BY <1>1, SplitTyped
<1>. HIDE DEF X, n
<1>3. step \in [1 .. n -> [X -> X]]
  BY <1>2
<1>4. \A k \in 1 .. n : \A x \in X : step[k][x] = SplitOneMore(x, s[k])
  OBVIOUS
<1>. HIDE DEF step
<1>5. PICK g \in [0 .. n -> X] : Recurs(g, n, << >>, step)
  BY <1>1, <1>3, Recursion
<1>6. ASSUME NEW k \in 0 .. n
      PROVE  g[k] = IF k = 0 THEN << >> ELSE SplitOneMore(g[k - 1], s[k])
  <2>1. CASE k = 0
    BY <1>5, <2>1 DEF Recurs
  <2>2. CASE k # 0
    <3>1. k \in 1 .. n /\ k - 1 \in 0 .. n
      BY <1>1, <2>2
    <3>2. g[k] = step[k][g[k - 1]] /\ g[k - 1] \in X
      BY <1>5, <3>1 DEF Recurs
    <3>. QED
      BY <1>4, <2>2, <3>1, <3>2
  <2>. QED
    BY <2>1, <2>2
<1>7. SplitAt(s, g)
  BY <1>5, <1>6 DEF SplitAt, n
<1>. QED
  BY <1>7

LEMMA SplitLemma ==
  ASSUME NEW s \in Source
  PROVE  Cut(s, Len(s), SplitProse(s))
<1>. DEFINE g == CHOOSE h : SplitAt(s, h)
            n == Len(s)
            P == {k \in Nat : k \in 0 .. n => Cut(s, k, g[k])}
<1>1. SplitAt(s, g) /\ n \in Nat
  BY SplitExists DEF Source
<1>2. SplitProse(s) = g[n]
  BY DEF SplitProse, SplitAt
<1>. HIDE DEF g, n
<1>3. 0 \in P
  <2>1. g[0] = << >>
    BY <1>1 DEF SplitAt, n
  <2>2. SubSeq(s, 1, 0) = << >> /\ Len(<< >>) = 0 /\ << >> \in Seq(Segment)
    BY DEF Source
  <2>3. Cut(s, 0, << >>)
    <3>1. \A j \in 1 .. Len(<< >>) : FALSE
      OBVIOUS
    <3>. QED
      BY <2>2, <3>1, SerializeEmpty DEF Cut
  <2>. QED
    BY <2>1, <2>3
<1>4. ASSUME NEW k \in 1 .. n, k - 1 \in P PROVE k \in P
  <2>1. k \in 0 .. n /\ k - 1 \in 0 .. n /\ k # 0 /\ k \in 1 .. Len(s)
    BY <1>1 DEF n
  <2>2. Cut(s, k - 1, g[k - 1])
    BY <1>4, <2>1
  <2>3. g[k] = SplitOneMore(g[k - 1], s[k])
    BY <1>1, <2>1 DEF SplitAt, n
  <2>4. Cut(s, k, g[k])
    BY <2>1, <2>2, <2>3, CutStep
  <2>. QED
    BY <1>1, <2>4
<1>. HIDE DEF P
<1>5. \A k \in 0 .. n : k \in P
  BY <1>1, <1>3, <1>4, UpTo
<1>6. n \in P
  BY <1>1, <1>5
<1>. QED
  BY <1>1, <1>2, <1>6 DEF P, n

-----------------------------------------------------------------------------
\* The first directive at p or after it.
NextHead(d, p) == First({j \in p .. Len(d) : EndOf(d, j) # 0})

ParseFrom(d, g, p) ==
    LET i == NextHead(d, p)
    IN IF i = 0 THEN SplitProse(SubSeq(d, p, Len(d)))
       ELSE SplitProse(SubSeq(d, p, i - 1))
            \o <<Directive(SubSeq(d, i, EndOf(d, i) - 1))>>
            \o g[EndOf(d, i)]

ParseAt(d, g) == g = [p \in 1 .. Len(d) + 1 |-> ParseFrom(d, g, p)]

LEMMA NextHeadLemma ==
  ASSUME NEW d \in Source, NEW p \in 1 .. Len(d) + 1
  PROVE  /\ NextHead(d, p) = 0 => \A j \in p .. Len(d) : EndOf(d, j) = 0
         /\ NextHead(d, p) # 0 =>
               /\ NextHead(d, p) \in p .. Len(d)
               /\ EndOf(d, NextHead(d, p)) \in NextHead(d, p) + 1 .. Len(d) + 1
               /\ \A j \in p .. NextHead(d, p) - 1 : EndOf(d, j) = 0
<1>. DEFINE S == {j \in p .. Len(d) : EndOf(d, j) # 0}
            i == NextHead(d, p)
<1>1. S \in SUBSET Nat /\ 0 \notin S /\ Len(d) \in Nat
  BY DEF Source
<1>2. i = First(S)
  BY DEF NextHead
<1>3. /\ i = 0 <=> S = {}
      /\ S # {} => i \in S /\ \A j \in S : i <= j
  <2>. HIDE DEF S, i
  <2>. QED
    BY <1>1, <1>2, FirstLemma
<1>. HIDE DEF i
<1>4. ASSUME i # 0
      PROVE  /\ i \in p .. Len(d) /\ EndOf(d, i) \in i + 1 .. Len(d) + 1
             /\ \A j \in p .. i - 1 : EndOf(d, j) = 0
  <2>1. i \in p .. Len(d) /\ EndOf(d, i) # 0
    BY <1>3, <1>4
  <2>2. i \in 1 .. Len(d)
    BY <2>1
  <2>3. EndOf(d, i) \in i + 1 .. Len(d) + 1
    BY <2>1, <2>2, EndsAfter
  <2>4. \A j \in p .. i - 1 : j \in p .. Len(d) /\ ~(i <= j)
    BY <2>1
  <2>5. \A j \in p .. i - 1 : EndOf(d, j) = 0
    BY <1>3, <1>4, <2>4
  <2>. QED
    BY <2>1, <2>3, <2>5
<1>. QED
  BY <1>3, <1>4 DEF i

\* A part of a source is one.
LEMMA PartOfSource ==
  ASSUME NEW d \in Source, NEW p \in 1 .. Len(d) + 1, NEW q \in p .. Len(d) + 1
  PROVE  /\ SubSeq(d, p, q - 1) \in Source /\ Len(SubSeq(d, p, q - 1)) = q - p
         /\ p - 1 \in Nat /\ PartAt(d, SubSeq(d, p, q - 1), p - 1)
         /\ \A j \in 1 .. q - p : SubSeq(d, p, q - 1)[j] = d[p - 1 + j]
<1>. DEFINE e == SubSeq(d, p, q - 1)
<1>1. d \in Seq(Token) /\ Len(d) \in Nat /\ p \in Nat \ {0} /\ q \in Nat \ {0} /\ p <= q /\ q <= Len(d) + 1
  BY DEF Source
<1>2. e \in Seq(Token) /\ Len(e) = q - p /\ \A j \in 1 .. q - p : e[j] = d[p - 1 + j]
  <2>1. q - 1 - p + 1 = q - p /\ q - p \in Nat
    BY <1>1
  <2>2. \A j \in 1 .. q - p : p + j - 1 \in 1 .. Len(d) /\ p + j - 1 = p - 1 + j
    BY <1>1
  <2>3. \A j \in 1 .. q - p : d[p + j - 1] \in Token
    BY <1>1, <2>2
  <2>4. e = [j \in 1 .. q - p |-> d[p + j - 1]]
    BY <1>1, <2>1
  <2>. HIDE DEF e
  <2>5. e \in [1 .. q - p -> Token]
    BY <2>3, <2>4
  <2>6. PICK m \in Nat : m = q - p
    BY <2>1
  <2>7. e \in Seq(Token) /\ Len(e) = m
    BY <2>5, <2>6
  <2>. QED
    BY <2>2, <2>4, <2>6, <2>7
<1>3. PartAt(d, e, p - 1)
  BY <1>1, <1>2 DEF PartAt
<1>. QED
  BY <1>1, <1>2, <1>3 DEF Source

LEMMA DirectiveIsSegment ==
  ASSUME NEW d \in Source, NEW i \in 1 .. Len(d), EndOf(d, i) # 0
  PROVE  LET raw == SubSeq(d, i, EndOf(d, i) - 1)
         IN /\ raw \in Source /\ raw # << >> /\ Directive(raw) \in Segment
            /\ Directive(raw).kind = "directive" /\ Directive(raw).raw = raw
            /\ Directive(raw).layer = raw[1].v /\ Directive(raw).type \in Heads
<1>. DEFINE raw == SubSeq(d, i, EndOf(d, i) - 1)
<1>1. EndOf(d, i) \in i + 1 .. Len(d) + 1
  BY EndsAfter
<1>2. i \in 1 .. Len(d) + 1 /\ EndOf(d, i) \in i .. Len(d) + 1 /\ 1 \in 1 .. EndOf(d, i) - i
      /\ i - 1 + 1 = i
  BY <1>1 DEF Source
<1>3. raw \in Source /\ Len(raw) = EndOf(d, i) - i /\ raw[1] = d[i]
  BY <1>2, PartOfSource
<1>4. raw # << >>
  BY <1>2, <1>3
<1>5. d[i].k \in Heads /\ d[i].v \in Layers
  BY EndsOfHeads
<1>. HIDE DEF raw
<1>6. /\ Directive(raw).kind = "directive" /\ Directive(raw).raw = raw
      /\ Directive(raw).layer = raw[1].v /\ Directive(raw).type = raw[1].k
  BY DEF Directive
<1>7. Directive(raw) \in Segment
  BY <1>3, <1>5 DEF Directive, Segment
<1>. QED
  BY <1>3, <1>4, <1>5, <1>6, <1>7 DEF raw

LEMMA ParseExists ==
  ASSUME NEW d \in Source
  PROVE  \E g : ParseAt(d, g)
<1>. DEFINE n == Len(d)
            X == Seq(Segment)
            F == [0 .. n -> X]
            made == [k \in 0 .. n |-> [h \in F |->
                       LET p == n + 1 - k  i == NextHead(d, p)
                       IN IF i = 0 THEN SplitProse(SubSeq(d, p, n))
                          ELSE SplitProse(SubSeq(d, p, i - 1))
                               \o <<Directive(SubSeq(d, i, EndOf(d, i) - 1))>>
                               \o h[n + 1 - EndOf(d, i)]]]
            early(p) == SplitProse(SubSeq(d, p, NextHead(d, p) - 1))
            head(p) == Directive(SubSeq(d, NextHead(d, p), EndOf(d, NextHead(d, p)) - 1))
<1>1. n \in Nat /\ << >> \in X
  BY DEF Source
<1>2. ASSUME NEW p \in 1 .. n + 1
      PROVE  /\ NextHead(d, p) = 0 => SplitProse(SubSeq(d, p, n)) \in X
             /\ NextHead(d, p) # 0 =>
                   /\ early(p) \in X /\ head(p) \in Segment
                   /\ EndOf(d, NextHead(d, p)) \in p + 1 .. n + 1
  <2>1. n + 1 \in p .. n + 1 /\ n + 1 - 1 = n
    BY <1>1
  <2>2. SubSeq(d, p, n) \in Source
    BY <2>1, PartOfSource
  <2>3. SplitProse(SubSeq(d, p, n)) \in X
    BY <2>2, SplitLemma DEF Cut
  <2>4. ASSUME NextHead(d, p) # 0
        PROVE  early(p) \in X /\ head(p) \in Segment /\ EndOf(d, NextHead(d, p)) \in p + 1 .. n + 1
    <3>. DEFINE i == NextHead(d, p)
    <3>1. i \in p .. Len(d) /\ EndOf(d, i) \in i + 1 .. Len(d) + 1
      BY <2>4, NextHeadLemma
    <3>. HIDE DEF i
    <3>2. i \in p .. Len(d) + 1 /\ i \in 1 .. Len(d) /\ EndOf(d, i) # 0 /\ EndOf(d, i) \in p + 1 .. n + 1
      BY <1>1, <3>1
    <3>3. SubSeq(d, p, i - 1) \in Source
      BY <3>2, PartOfSource
    <3>4. early(p) \in X
      BY <3>3, SplitLemma DEF Cut, i
    <3>5. Directive(SubSeq(d, i, EndOf(d, i) - 1)) \in Segment
      BY <3>2, DirectiveIsSegment
    <3>. QED
      BY <3>2, <3>4, <3>5 DEF i
  <2>. QED
    BY <2>3, <2>4
<1>3. ASSUME NEW k \in 0 .. n, NEW h \in F
      PROVE  made[k][h] = LET p == n + 1 - k
                          IN IF NextHead(d, p) = 0 THEN SplitProse(SubSeq(d, p, n))
                             ELSE early(p) \o <<head(p)>> \o h[n + 1 - EndOf(d, NextHead(d, p))]
  OBVIOUS
<1>4. ASSUME NEW k \in 0 .. n, NEW h \in F PROVE made[k][h] \in X
  <2>. DEFINE p == n + 1 - k
  <2>1. p \in 1 .. n + 1
    BY <1>1
  <2>. HIDE DEF made, p
  <2>2. CASE NextHead(d, p) = 0
    BY <1>2, <1>3, <2>1, <2>2 DEF p
  <2>3. CASE NextHead(d, p) # 0
    <3>1. /\ early(p) \in X /\ head(p) \in Segment
          /\ n + 1 - EndOf(d, NextHead(d, p)) \in 0 .. n
      <4>1. early(p) \in X /\ head(p) \in Segment /\ EndOf(d, NextHead(d, p)) \in p + 1 .. n + 1
        BY <1>2, <2>1, <2>3
      <4>. QED
        BY <1>1, <2>1, <4>1
    <3>2. made[k][h] = early(p) \o <<head(p)>> \o h[n + 1 - EndOf(d, NextHead(d, p))]
      BY <1>3, <2>3 DEF p
    <3>3. h[n + 1 - EndOf(d, NextHead(d, p))] \in X
      BY <3>1
    <3>4. \A u, v \in X, x \in Segment : u \o <<x>> \o v \in X
      OBVIOUS
    <3>. HIDE DEF X, F, early, head
    <3>. QED
      BY <3>1, <3>2, <3>3, <3>4
  <2>. QED
    BY <2>2, <2>3
<1>. HIDE DEF X
<1>5. made \in [0 .. n -> [F -> X]]
  <2>1. made = [k \in 0 .. n |-> [h \in F |-> made[k][h]]]
    OBVIOUS
  <2>. HIDE DEF made, F, n
  <2>. QED
    BY <1>4, <2>1
<1>6. ASSUME NEW k \in 0 .. n, NEW u \in F, NEW v \in F, SameBefore(u, v, k)
      PROVE  made[k][u] = made[k][v]
  <2>. DEFINE p == n + 1 - k
  <2>1. p \in 1 .. n + 1
    BY <1>1
  <2>2. /\ made[k][u] = IF NextHead(d, p) = 0 THEN SplitProse(SubSeq(d, p, n))
                        ELSE early(p) \o <<head(p)>> \o u[n + 1 - EndOf(d, NextHead(d, p))]
        /\ made[k][v] = IF NextHead(d, p) = 0 THEN SplitProse(SubSeq(d, p, n))
                        ELSE early(p) \o <<head(p)>> \o v[n + 1 - EndOf(d, NextHead(d, p))]
    <3>. HIDE DEF made, F, early, head
    <3>. QED
      BY <1>3
  <2>. HIDE DEF made, F, early, head
  <2>3. CASE NextHead(d, p) = 0
    BY <2>2, <2>3
  <2>4. CASE NextHead(d, p) # 0
    <3>1. EndOf(d, NextHead(d, p)) \in p + 1 .. n + 1
      BY <1>2, <2>1, <2>4
    <3>2. n + 1 - EndOf(d, NextHead(d, p)) \in 0 .. k - 1
      BY <1>1, <3>1
    <3>3. u[n + 1 - EndOf(d, NextHead(d, p))] = v[n + 1 - EndOf(d, NextHead(d, p))]
      BY <1>6, <3>2 DEF SameBefore
    <3>. QED
      BY <2>2, <2>4, <3>3
  <2>. QED
    BY <2>3, <2>4
<1>7. PICK h \in F : \A k \in 0 .. n : h[k] = made[k][h]
  <2>. HIDE DEF made, n
  <2>1. OfEarlier(made, n, X)
    BY <1>6 DEF OfEarlier
  <2>2. made \in [0 .. n -> [[0 .. n -> X] -> X]]
    BY <1>5
  <2>. HIDE DEF F
  <2>3. \E h \in [0 .. n -> X] : InCourse(made, n, h)
    BY <1>1, <2>1, <2>2, CourseOfValues
  <2>. QED
    BY <2>3 DEF F, InCourse
<1>. DEFINE g == [p \in 1 .. n + 1 |-> h[n + 1 - p]]
<1>8. ASSUME NEW p \in 1 .. n + 1 PROVE g[p] = ParseFrom(d, g, p)
  <2>. DEFINE k == n + 1 - p
  <2>1. k \in 0 .. n /\ n + 1 - k = p
    BY <1>1
  <2>2. g[p] = made[k][h]
    <3>. HIDE DEF made
    <3>. QED
      BY <1>7, <2>1
  <2>3. made[k][h] = IF NextHead(d, p) = 0 THEN SplitProse(SubSeq(d, p, n))
                     ELSE early(p) \o <<head(p)>> \o h[n + 1 - EndOf(d, NextHead(d, p))]
    <3>. HIDE DEF made, F, early, head, k
    <3>. QED
      BY <1>3, <2>1
  <2>4. CASE NextHead(d, p) = 0
    <3>. HIDE DEF made, g, k
    <3>. QED
      BY <2>2, <2>3, <2>4 DEF ParseFrom
  <2>5. CASE NextHead(d, p) # 0
    <3>1. EndOf(d, NextHead(d, p)) \in p + 1 .. n + 1
      BY <1>2, <2>5
    <3>2. EndOf(d, NextHead(d, p)) \in 1 .. n + 1
      BY <1>1, <3>1
    <3>3. g[EndOf(d, NextHead(d, p))] = h[n + 1 - EndOf(d, NextHead(d, p))]
      BY <3>2
    <3>. HIDE DEF made, g, k
    <3>. QED
      BY <2>2, <2>3, <2>5, <3>3 DEF ParseFrom
  <2>. QED
    BY <2>4, <2>5
<1>9. g = [p \in 1 .. n + 1 |-> ParseFrom(d, g, p)]
  <2>1. g = [p \in 1 .. n + 1 |-> g[p]]
    OBVIOUS
  <2>. HIDE DEF g, n
  <2>. QED
    BY <1>8, <2>1
<1>10. ParseAt(d, g)
  BY <1>9 DEF ParseAt
<1>. QED
  BY <1>10

-----------------------------------------------------------------------------
(***************************************************************************)
(* What parseDoc makes of a source is a partition of it into plain prose,  *)
(* markers and whole directives; and a directive is one wherever it        *)
(* stands.                                                                 *)
(***************************************************************************)

\* Text without a marker and without a directive.
Plain(raw) == /\ raw \in Source /\ raw # << >>
              /\ \A i \in 1 .. Len(raw) : raw[i] # Mark /\ EndOf(raw, i) = 0

\* A directive of its own, blank lines after it aside.
ClosedAt(raw, n) == (n = 1 /\ raw[1] = Mark) \/ EndOf(raw, 1) = n + 1
OnlyGaps(raw, n) == \A j \in n + 1 .. Len(raw) : raw[j] = Gap
Whole(raw) == /\ raw \in Source /\ raw # << >>
              /\ \E n \in 1 .. Len(raw) : ClosedAt(raw, n) /\ OnlyGaps(raw, n)

\* What the cutting of a source makes of a part of it.
Sound(g) ==
    /\ g \in Segment
    /\ g.kind = "prose" => g = Prose(g.raw) /\ Plain(g.raw)
    /\ g.kind = "directive" => Whole(g.raw) /\ g.layer = g.raw[1].v

Parsed(d, p, out) ==
    /\ out \in Seq(Segment)
    /\ serializeDoc(out) = SubSeq(d, p, Len(d))
    /\ \A j \in 1 .. Len(out) : Sound(out[j])

NoHead(d, p, q) == \A j \in p .. q - 1 : EndOf(d, j) = 0
ParsedAfter(d, g, p) == \A q \in p + 1 .. Len(d) + 1 : Parsed(d, q, g[q])

CutOf(e, out) == /\ out \in Seq(Segment) /\ serializeDoc(out) = e
                 /\ \A j \in 1 .. Len(out) : Sound(out[j])

LEMMA MarkIsSound == Sound(Directive(<<Mark>>))
<1>1. <<Mark>> # << >> /\ <<Mark>>[1].v = "formal"
  BY DEF Mark, Tok
<1>2. <<Mark>> \in Source /\ Len(<<Mark>>) = 1 /\ <<Mark>>[1] = Mark /\ 1 \in 1 .. 1
  BY TokensOf DEF Source
<1>3. Whole(<<Mark>>)
  BY <1>1, <1>2 DEF Whole, ClosedAt, OnlyGaps
<1>. QED
  BY <1>1, <1>3, MarkIsSegment DEF Sound

\* A directive is one wherever it stands.
LEMMA DirectiveIsWhole ==
  ASSUME NEW d \in Source, NEW i \in 1 .. Len(d), EndOf(d, i) # 0
  PROVE  Whole(SubSeq(d, i, EndOf(d, i) - 1))
<1>. DEFINE q == EndOf(d, i)
            e == SubSeq(d, i, q - 1)
            m == Len(e)
            x == i - 1
<1>1. q \in i + 1 .. Len(d) + 1 /\ Len(d) \in Nat /\ i \in Nat
  BY EndsAfter DEF Source
<1>. HIDE DEF q
<1>2. i \in 1 .. Len(d) + 1 /\ q \in i .. Len(d) + 1
  BY <1>1
<1>3. e \in Source /\ m = q - i /\ x \in Nat /\ PartAt(d, e, x)
      /\ \A j \in 1 .. q - i : e[j] = d[x + j]
  BY <1>2, PartOfSource
<1>. HIDE DEF e, m, x
<1>4. x + 1 = i /\ q = x + m + 1 /\ m >= 1 /\ 1 \in 1 .. m /\ m \in Nat /\ x + m <= Len(d)
  BY <1>1, <1>3 DEF x
<1>5. \A j \in 1 .. m : e[j] = d[x + j]
  BY <1>3
<1>6. e[1] = d[i]
  BY <1>4, <1>5
<1>7. EndOf(e, 1) # 0
  <2>1. CASE d[i].k = "single"
    BY <1>6, <2>1 DEF EndOf
  <2>2. CASE d[i].k = "code"
    <3>. DEFINE f == First(Fences(d, i))
                t == First(Ticks(d, f + 2))
    <3>1. q = IF f = 0 \/ t = 0 THEN 0 ELSE t + 1
      BY <2>2 DEF EndOf, CodeEnd, Fences, Ticks, q
    <3>2. Fences(d, i) \in SUBSET Nat /\ 0 \notin Fences(d, i)
      BY <1>1 DEF Fences
    <3>3. f # 0 /\ t # 0 /\ q = t + 1
      BY <1>1, <3>1
    <3>4. f \in Fences(d, i) /\ f \in Nat
      <4>. HIDE DEF t
      <4>. QED
        BY <3>2, <3>3, FirstLemma
    <3>5. Ticks(d, f + 2) \in SUBSET Nat /\ 0 \notin Ticks(d, f + 2)
      BY <3>4 DEF Ticks
    <3>6. t \in Ticks(d, f + 2)
      <4>. HIDE DEF f
      <4>. QED
        BY <3>3, <3>5, FirstLemma
    <3>. HIDE DEF f, t
    <3>7. /\ f \in i + 1 .. Len(d) /\ d[f] = Fence /\ d[f + 1] = Lang
          /\ t \in f + 2 .. Len(d) /\ d[t] = Fence
      BY <3>4, <3>6 DEF Fences, Ticks
    <3>. DEFINE ff == f - x
                tt == t - x
    <3>8. /\ ff \in 2 .. m /\ ff < m /\ ff + 1 \in 1 .. m /\ ff \in 1 .. m /\ tt \in ff + 2 .. m
          /\ tt \in 1 .. m /\ x + ff = f /\ x + (ff + 1) = f + 1 /\ x + tt = t /\ tt \in Nat
      BY <1>1, <1>3, <1>4, <3>3, <3>7
    <3>. HIDE DEF ff, tt
    <3>9. e[ff] = Fence /\ e[ff + 1] = Lang /\ e[tt] = Fence
      BY <1>5, <3>7, <3>8
    <3>. DEFINE g == First(Fences(e, 1))
                u == First(Ticks(e, g + 2))
    <3>10. ff \in Fences(e, 1) /\ Fences(e, 1) \in SUBSET Nat /\ 0 \notin Fences(e, 1)
      BY <1>4, <3>8, <3>9 DEF Fences, m
    <3>11. g \in Nat /\ g # 0 /\ g <= ff
      BY <3>10, FirstLemma
    <3>. HIDE DEF g
    <3>12. tt \in Ticks(e, g + 2) /\ Ticks(e, g + 2) \in SUBSET Nat /\ 0 \notin Ticks(e, g + 2)
      <4>1. tt \in g + 2 .. m
        BY <3>8, <3>11
      <4>. QED
        BY <3>9, <3>11, <4>1 DEF Ticks, m
    <3>13. u \in Nat /\ u # 0
      BY <3>12, FirstLemma
    <3>14. EndOf(e, 1) = IF g = 0 \/ u = 0 THEN 0 ELSE u + 1
      <4>1. e[1].k = "code"
        BY <1>6, <2>2
      <4>. QED
        BY <4>1 DEF EndOf, CodeEnd, Fences, Ticks, g
    <3>. HIDE DEF u
    <3>. QED
      BY <3>11, <3>13, <3>14
  <2>3. CASE d[i].k = "multi"
    <3>. DEFINE h == First(Tails(d, i))
    <3>1. q = IF h = 0 THEN 0 ELSE h + 1
      BY <2>3 DEF EndOf, Tails, q
    <3>2. Tails(d, i) \in SUBSET Nat /\ 0 \notin Tails(d, i)
      BY <1>1 DEF Tails
    <3>3. h # 0 /\ q = h + 1
      BY <1>1, <3>1
    <3>4. h \in Tails(d, i)
      BY <3>2, <3>3, FirstLemma
    <3>. HIDE DEF h
    <3>5. h \in i + 1 .. Len(d) /\ d[h] = Close
      BY <3>4 DEF Tails
    <3>6. m \in 2 .. m /\ x + m = h /\ e[m] = Close
      <4>1. m \in 2 .. m /\ x + m = h /\ m \in 1 .. m
        <5>1. PICK k \in Nat, y \in Nat : k = m /\ y = x
          BY <1>3, <1>4
        <5>2. h \in Nat /\ h >= i + 1 /\ h + 1 = y + k + 1 /\ y + 1 = i
          BY <1>1, <1>4, <3>3, <3>5, <5>1
        <5>3. k >= 2 /\ y + k = h
          BY <1>1, <5>2
        <5>. QED
          BY <5>1, <5>3
      <4>. QED
        BY <1>5, <3>5, <4>1
    <3>7. m \in Tails(e, 1) /\ Tails(e, 1) \in SUBSET Nat /\ 0 \notin Tails(e, 1)
      BY <1>4, <3>6 DEF Tails, m
    <3>. DEFINE c == First(Tails(e, 1))
    <3>8. c \in Nat /\ c # 0
      BY <3>7, FirstLemma
    <3>9. EndOf(e, 1) = IF c = 0 THEN 0 ELSE c + 1
      <4>1. e[1].k = "multi"
        BY <1>6, <2>3
      <4>. QED
        BY <4>1 DEF EndOf, Tails
    <3>. HIDE DEF c
    <3>. QED
      BY <3>8, <3>9
  <2>4. CASE d[i].k \notin {"single", "code", "multi"}
    <3>1. q = 0
      BY <2>4 DEF EndOf, q
    <3>. QED
      BY <1>1, <3>1
  <2>. QED
    BY <2>1, <2>2, <2>3, <2>4
<1>8. EndOf(d, x + 1) = x + EndOf(e, 1)
  BY <1>3, <1>4, <1>7, EndsInPart DEF m
<1>9. EndOf(e, 1) \in 1 + 1 .. Len(e) + 1
  BY <1>3, <1>4, <1>7, EndsAfter DEF m
<1>10. EndOf(e, 1) = m + 1
  <2>1. q = x + EndOf(e, 1)
    BY <1>4, <1>8 DEF q
  <2>2. PICK k \in Nat, y \in Nat, c \in Nat : k = m /\ y = x /\ c = EndOf(e, 1)
    <3>1. EndOf(e, 1) \in Nat
      BY <1>9
    <3>. QED
      BY <1>3, <1>4, <3>1
  <2>3. y + k + 1 = y + c
    BY <1>4, <2>1, <2>2
  <2>. QED
    BY <2>2, <2>3
<1>11. e # << >>
  BY <1>4 DEF m
<1>12. \A j \in m + 1 .. m : FALSE
  BY <1>4
<1>13. Whole(e)
  BY <1>3, <1>4, <1>10, <1>11, <1>12 DEF Whole, ClosedAt, OnlyGaps, m
<1>. QED
  BY <1>13 DEF e, q

LEMMA SplitSound ==
  ASSUME NEW d \in Source, NEW p \in 1 .. Len(d) + 1, NEW q \in p .. Len(d) + 1,
         NoHead(d, p, q)
  PROVE  CutOf(SubSeq(d, p, q - 1), SplitProse(SubSeq(d, p, q - 1)))
<1>. DEFINE e == SubSeq(d, p, q - 1)
            out == SplitProse(e)
<1>1. e \in Source /\ Len(e) = q - p /\ p - 1 \in Nat /\ PartAt(d, e, p - 1)
  BY PartOfSource
<1>. HIDE DEF e
<1>2. Cut(e, Len(e), out)
  BY <1>1, SplitLemma
<1>. HIDE DEF out
<1>3. SubSeq(e, 1, Len(e)) = e
  BY <1>1 DEF Source
<1>4. out \in Seq(Segment) /\ serializeDoc(out) = e /\ \A j \in 1 .. Len(out) : Piece(e, out[j])
  BY <1>2, <1>3 DEF Cut
<1>5. ASSUME NEW raw \in Source, NEW x \in Nat, Chunk(e, raw, x) PROVE Plain(raw)
  <2>1. raw # << >> /\ PartAt(e, raw, x) /\ \A i \in 1 .. Len(raw) : raw[i] # Mark
    BY <1>5 DEF Chunk
  <2>2. ASSUME NEW i \in 1 .. Len(raw), EndOf(raw, i) # 0 PROVE FALSE
    <3>1. EndOf(e, x + i) = x + EndOf(raw, i)
      BY <1>1, <2>1, <2>2, EndsInPart
    <3>2. EndOf(raw, i) \in i + 1 .. Len(raw) + 1 /\ Len(raw) \in Nat
      BY <2>2, EndsAfter DEF Source
    <3>3. Len(raw) + x <= Len(e) /\ Len(e) \in Nat
      BY <1>1, <2>1 DEF PartAt, Source
    <3>4. x + i \in 1 .. Len(e) /\ EndOf(e, x + i) # 0 /\ EndOf(e, x + i) \in Nat
      BY <3>1, <3>2, <3>3
    <3>5. EndOf(d, p - 1 + (x + i)) = p - 1 + EndOf(e, x + i)
      BY <1>1, <3>4, EndsInPart
    <3>6. p - 1 + (x + i) \in p .. q - 1 /\ p - 1 + EndOf(e, x + i) # 0
      BY <1>1, <3>4
    <3>. QED
      BY <3>5, <3>6 DEF NoHead
  <2>. QED
    BY <2>1, <2>2 DEF Plain
<1>6. ASSUME NEW j \in 1 .. Len(out) PROVE Sound(out[j])
  <2>1. CASE out[j] = Directive(<<Mark>>)
    BY <2>1, MarkIsSound
  <2>2. CASE \E raw \in Source, x \in Nat : out[j] = Prose(raw) /\ Chunk(e, raw, x)
    <3>1. PICK raw \in Source, x \in Nat : out[j] = Prose(raw) /\ Chunk(e, raw, x)
      BY <2>2
    <3>2. Plain(raw)
      BY <1>5, <3>1
    <3>3. Prose(raw) \in Segment /\ Prose(raw).kind = "prose" /\ Prose(raw).raw = raw
      BY MarkIsSegment
    <3>. QED
      BY <3>1, <3>2, <3>3 DEF Sound
  <2>. QED
    BY <1>4, <2>1, <2>2 DEF Piece
<1>. QED
  BY <1>4, <1>6 DEF CutOf, e, out

LEMMA TwoParts ==
  ASSUME NEW d \in Source, NEW p \in 1 .. Len(d) + 1, NEW q \in p .. Len(d) + 1,
         NEW r \in q .. Len(d) + 1
  PROVE  SubSeq(d, p, r - 1) = SubSeq(d, p, q - 1) \o SubSeq(d, q, r - 1)
<1>1. /\ Len(d) \in Nat /\ p \in Nat /\ q \in Nat /\ r \in Nat /\ p <= q /\ q <= r /\ r <= Len(d) + 1
      /\ q \in 1 .. Len(d) + 1 /\ r \in p .. Len(d) + 1
  BY DEF Source
<1>2. PICK a \in Seq(Token), b \in Seq(Token), c \in Seq(Token) :
         a = SubSeq(d, p, q - 1) /\ b = SubSeq(d, q, r - 1) /\ c = SubSeq(d, p, r - 1)
  BY <1>1, PartOfSource DEF Source
<1>3. /\ Len(a) = q - p /\ Len(b) = r - q /\ Len(c) = r - p
      /\ \A j \in 1 .. q - p : a[j] = d[p - 1 + j]
      /\ \A j \in 1 .. r - q : b[j] = d[q - 1 + j]
      /\ \A j \in 1 .. r - p : c[j] = d[p - 1 + j]
  BY <1>1, <1>2, PartOfSource
<1>4. a \o b \in Seq(Token) /\ Len(a \o b) = r - p
      /\ \A j \in 1 .. r - p : (a \o b)[j] = IF j <= q - p THEN a[j] ELSE b[j - (q - p)]
  <2>1. /\ a \o b \in Seq(Token) /\ Len(a \o b) = Len(a) + Len(b)
        /\ \A j \in 1 .. Len(a) + Len(b) :
             (a \o b)[j] = IF j <= Len(a) THEN a[j] ELSE b[j - Len(a)]
    OBVIOUS
  <2>2. Len(a) + Len(b) = r - p
    BY <1>1, <1>3
  <2>. QED
    BY <1>3, <2>1, <2>2
<1>5. ASSUME NEW j \in 1 .. r - p PROVE (a \o b)[j] = c[j]
  <2>1. CASE j <= q - p
    BY <1>1, <1>3, <1>4, <2>1
  <2>2. CASE ~(j <= q - p)
    <3>1. j - (q - p) \in 1 .. r - q /\ q - 1 + (j - (q - p)) = p - 1 + j
      BY <1>1, <2>2
    <3>. QED
      BY <1>3, <1>4, <2>2, <3>1
  <2>. QED
    BY <2>1, <2>2
<1>6. PICK e \in Seq(Token) : e = a \o b
  BY <1>4
<1>7. e = [j \in 1 .. Len(e) |-> e[j]] /\ c = [j \in 1 .. Len(c) |-> c[j]]
  OBVIOUS
<1>8. Len(e) = Len(c) /\ \A j \in 1 .. Len(c) : e[j] = c[j]
  BY <1>3, <1>4, <1>5, <1>6
<1>9. e = c
  BY <1>7, <1>8
<1>. QED
  BY <1>2, <1>6, <1>9

LEMMA ParseStep ==
  ASSUME NEW d \in Source, NEW g, ParseAt(d, g), NEW p \in 1 .. Len(d) + 1, ParsedAfter(d, g, p)
  PROVE  Parsed(d, p, g[p])
<1>. DEFINE i == NextHead(d, p)
            n == Len(d)
<1>1. g[p] = ParseFrom(d, g, p) /\ n \in Nat
  BY DEF ParseAt, Source
<1>. HIDE DEF i
<1>2. CASE i = 0
  <2>1. n + 1 \in p .. Len(d) + 1 /\ n + 1 - 1 = n
    BY <1>1
  <2>2. NoHead(d, p, n + 1)
    BY <1>2, <2>1, NextHeadLemma DEF NoHead, i
  <2>3. CutOf(SubSeq(d, p, n), SplitProse(SubSeq(d, p, n)))
    BY <2>1, <2>2, SplitSound
  <2>4. g[p] = SplitProse(SubSeq(d, p, n))
    BY <1>1, <1>2 DEF ParseFrom, i
  <2>. QED
    BY <2>3, <2>4 DEF CutOf, Parsed
<1>3. CASE i # 0
  <2>1. /\ i \in p .. n /\ EndOf(d, i) \in i + 1 .. n + 1 /\ NoHead(d, p, i)
    BY <1>3, NextHeadLemma DEF NoHead, i
  <2>. DEFINE q == EndOf(d, i)
              before == SplitProse(SubSeq(d, p, i - 1))
              raw == SubSeq(d, i, q - 1)
              head == Directive(raw)
              after == g[q]
  <2>. HIDE DEF q
  <2>2. i \in p .. Len(d) + 1 /\ i \in 1 .. Len(d) + 1 /\ i \in 1 .. Len(d) /\ q \in i + 1 .. Len(d) + 1
        /\ q \in p + 1 .. Len(d) + 1 /\ EndOf(d, i) # 0
    BY <1>1, <2>1 DEF q
  <2>3. CutOf(SubSeq(d, p, i - 1), before)
    BY <2>1, <2>2, SplitSound
  <2>4. raw \in Source /\ raw # << >> /\ head \in Segment /\ head.kind = "directive"
        /\ head.raw = raw /\ head.layer = raw[1].v
    BY <2>2, DirectiveIsSegment DEF q
  <2>5. Parsed(d, q, after)
    BY <2>2 DEF ParsedAfter
  <2>6. g[p] = before \o <<head>> \o after
    BY <1>1, <1>3 DEF ParseFrom, i, q
  <2>7. Sound(head)
    <3>1. Whole(raw)
      BY <2>2, DirectiveIsWhole DEF q
    <3>. QED
      BY <2>4, <3>1 DEF Sound
  <2>8. SubSeq(d, p, n) = SubSeq(d, p, i - 1) \o raw \o SubSeq(d, q, n)
    <3>1. n + 1 \in q .. Len(d) + 1 /\ q \in i .. Len(d) + 1 /\ n + 1 - 1 = n
          /\ n + 1 \in i .. Len(d) + 1 /\ n + 1 \in p .. Len(d) + 1
      BY <1>1, <2>2
    <3>2. /\ SubSeq(d, p, n) = SubSeq(d, p, i - 1) \o SubSeq(d, i, n)
          /\ SubSeq(d, i, n) = SubSeq(d, i, q - 1) \o SubSeq(d, q, n)
      <4>1. SubSeq(d, p, n + 1 - 1) = SubSeq(d, p, i - 1) \o SubSeq(d, i, n + 1 - 1)
        BY <2>2, <3>1, TwoParts, SMTT(30)
      <4>2. SubSeq(d, i, n + 1 - 1) = SubSeq(d, i, q - 1) \o SubSeq(d, q, n + 1 - 1)
        BY <2>2, <3>1, TwoParts
      <4>. QED
        BY <3>1, <4>1, <4>2
    <3>3. PICK a \in Seq(Token), b \in Seq(Token), c \in Seq(Token) :
             a = SubSeq(d, p, i - 1) /\ b = raw /\ c = SubSeq(d, q, n)
      <4>1. SubSeq(d, p, i - 1) \in Source
        BY <2>2, PartOfSource
      <4>2. SubSeq(d, q, n + 1 - 1) \in Source
        BY <2>2, <3>1, PartOfSource
      <4>. QED
        BY <2>4, <3>1, <4>1, <4>2 DEF Source
    <3>4. a \o (b \o c) = a \o b \o c
      OBVIOUS
    <3>. QED
      BY <3>2, <3>3, <3>4
  <2>. HIDE DEF before, raw, head, after
  <2>9. before \in Seq(Segment) /\ after \in Seq(Segment) /\ serializeDoc(before) = SubSeq(d, p, i - 1)
        /\ serializeDoc(after) = SubSeq(d, q, n)
        /\ (\A j \in 1 .. Len(before) : Sound(before[j])) /\ (\A j \in 1 .. Len(after) : Sound(after[j]))
    BY <2>3, <2>5 DEF CutOf, Parsed
  <2>10. g[p] = Append(before, head) \o after /\ Append(before, head) \in Seq(Segment)
    BY <2>4, <2>6, <2>9, SMTT(30)
  <2>11. serializeDoc(g[p]) = SubSeq(d, p, n)
    <3>1. serializeDoc(Append(before, head)) = serializeDoc(before) \o raw
      BY <2>4, <2>9, SerializeAppend
    <3>2. serializeDoc(Append(before, head) \o after) = serializeDoc(Append(before, head)) \o serializeDoc(after)
      BY <2>9, <2>10, SerializeConcat
    <3>. QED
      BY <2>8, <2>9, <2>10, <3>1, <3>2
  <2>12. \A j \in 1 .. Len(g[p]) : Sound(g[p][j])
    <3>1. \A j \in 1 .. Len(g[p]) :
             \/ j \in 1 .. Len(before) /\ g[p][j] = before[j]
             \/ g[p][j] = head
             \/ j - Len(before) - 1 \in 1 .. Len(after) /\ g[p][j] = after[j - Len(before) - 1]
      BY <2>4, <2>9, <2>10
    <3>. QED
      BY <2>7, <2>9, <3>1
  <2>13. g[p] \in Seq(Segment)
    BY <2>9, <2>10
  <2>. QED
    BY <2>11, <2>12, <2>13 DEF Parsed
<1>. QED
  BY <1>2, <1>3

\* From any place on, what parseDoc makes of a source.
LEMMA ParsedFrom ==
  ASSUME NEW d \in Source, NEW g, ParseAt(d, g)
  PROVE  \A p \in 1 .. Len(d) + 1 : Parsed(d, p, g[p])
<1>. DEFINE n == Len(d)
            P == {k \in Nat : k \in 0 .. n + 1 => \A q \in n + 2 - k .. n + 1 : Parsed(d, q, g[q])}
<1>1. ParseAt(d, g) /\ n \in Nat
  BY DEF Source
<1>3. 0 \in P
  BY <1>1
<1>4. ASSUME NEW k \in 1 .. n + 1, k - 1 \in P PROVE k \in P
  <2>. DEFINE p == n + 2 - k
  <2>1. p \in 1 .. Len(d) + 1 /\ k - 1 \in 0 .. n + 1 /\ n + 2 - (k - 1) = p + 1
    BY <1>1
  <2>2. \A q \in n + 2 - (k - 1) .. n + 1 : Parsed(d, q, g[q])
    BY <1>4, <2>1
  <2>. HIDE DEF p
  <2>3. ParsedAfter(d, g, p)
    BY <2>1, <2>2 DEF ParsedAfter
  <2>4. Parsed(d, p, g[p])
    BY <1>1, <2>1, <2>3, ParseStep
  <2>5. \A q \in p .. n + 1 : q = p \/ q \in p + 1 .. n + 1
    BY <1>1, <2>1
  <2>6. \A q \in p .. n + 1 : Parsed(d, q, g[q])
    BY <2>1, <2>2, <2>4, <2>5
  <2>. QED
    BY <1>1, <2>6 DEF p
<1>. HIDE DEF P
<1>5. \A k \in 0 .. n + 1 : k \in P
  <2>1. PICK m \in Nat : m = n + 1
    BY <1>1
  <2>. HIDE DEF n
  <2>2. \A k \in 1 .. m : k - 1 \in P => k \in P
    BY <1>4, <2>1
  <2>3. \A k \in 0 .. m : k \in P
    BY <1>3, <2>2, UpTo
  <2>. QED
    BY <2>1, <2>3
<1>6. n + 1 \in P /\ n + 1 \in 0 .. n + 1 /\ n + 2 - (n + 1) = 1
  BY <1>1, <1>5
<1>. QED
  BY <1>6 DEF P

\* What parseDoc makes of a source: its segments are a partition of it.
LEMMA ParseLemma ==
  ASSUME NEW d \in Source
  PROVE  CutOf(d, parseDoc(d))
<1>1. PICK g : g = CHOOSE h : ParseAt(d, h)
  OBVIOUS
<1>2. ParseAt(d, g)
  BY <1>1, ParseExists
<1>3. parseDoc(d) = g[1]
  BY <1>1 DEF parseDoc, ParseAt, ParseFrom, NextHead
<1>4. 1 \in 1 .. Len(d) + 1 /\ SubSeq(d, 1, Len(d)) = d
  BY DEF Source
<1>5. Parsed(d, 1, g[1])
  BY <1>2, <1>4, ParsedFrom
<1>. QED
  BY <1>3, <1>4, <1>5 DEF Parsed, CutOf

\* Plain text is one segment.
LEMMA PlainLemma ==
  ASSUME NEW raw, Plain(raw)
  PROVE  parseDoc(raw) = <<Prose(raw)>>
<1>. DEFINE g == CHOOSE h : ParseAt(raw, h)
            n == Len(raw)
<1>1. raw \in Source /\ raw # << >> /\ n \in Nat /\ n # 0
      /\ \A i \in 1 .. n : raw[i] # Mark /\ EndOf(raw, i) = 0
  BY DEF Plain, Source
<1>2. ParseAt(raw, g)
  BY <1>1, ParseExists
<1>3. parseDoc(raw) = g[1]
  BY DEF parseDoc, ParseAt, ParseFrom, NextHead
<1>. HIDE DEF g
<1>4. 1 \in 1 .. Len(raw) + 1
  BY <1>1
<1>5. g[1] = ParseFrom(raw, g, 1)
  BY <1>2, <1>4 DEF ParseAt
<1>6. NextHead(raw, 1) = 0
  <2>1. SUFFICES ASSUME NextHead(raw, 1) # 0 PROVE FALSE
    OBVIOUS
  <2>2. /\ NextHead(raw, 1) \in 1 .. Len(raw)
        /\ EndOf(raw, NextHead(raw, 1)) \in NextHead(raw, 1) + 1 .. Len(raw) + 1
    BY <1>1, <1>4, <2>1, NextHeadLemma
  <2>3. EndOf(raw, NextHead(raw, 1)) = 0
    BY <1>1, <2>2
  <2>. QED
    BY <1>1, <2>2, <2>3
<1>7. SubSeq(raw, 1, n) = raw
  BY <1>1 DEF Source
<1>8. g[1] = SplitProse(raw)
  BY <1>5, <1>6, <1>7 DEF ParseFrom
<1>9. Cut(raw, n, SplitProse(raw))
  BY <1>1, SplitLemma
<1>. QED
  BY <1>1, <1>3, <1>7, <1>8, <1>9 DEF Cut

-----------------------------------------------------------------------------
(***************************************************************************)
(* The segments of the editor and what its operations on the list keep.    *)
(***************************************************************************)

\* A segment whose field may have the focus, and one whose has not.
WellShown(g) ==
    /\ g.kind = "prose" => g = Prose(g.raw)
    /\ g.kind = "directive" => /\ g.raw # << >>
                               /\ LayerShown(g.layer) = LayerShown(g.raw[1].v)
Kept(g) == /\ g \in Segment /\ WellShown(g)
           /\ g.kind = "prose" => Plain(g.raw)
           /\ g.kind = "directive" => Whole(g.raw)

KeptList(s) == s \in Seq(Segment) /\ \A i \in 1 .. Len(s) : Kept(s[i])
KeptBut(s, x) == s \in Seq(Segment) /\ \A i \in 1 .. Len(s) : i # x => Kept(s[i])

LEMMA KeptProse == \A g : Kept(g) /\ g.kind = "prose" => g = Prose(g.raw) /\ Plain(g.raw)
<1>. TAKE g
<1>. HAVE Kept(g) /\ g.kind = "prose"
<1>1. WellShown(g) /\ (g.kind = "prose" => Plain(g.raw))
  BY Zenon DEF Kept
<1>2. g.kind = "prose" => g = Prose(g.raw)
  BY <1>1, Zenon DEF WellShown
<1>. QED
  BY <1>1, <1>2, Zenon

LEMMA SoundIsKept ==
  ASSUME NEW g, Sound(g)
  PROVE  Kept(g)
  BY DEF Sound, Kept, WellShown, Whole

LEMMA ParseKept ==
  ASSUME NEW d \in Source
  PROVE  KeptList(parseDoc(d)) /\ serializeDoc(parseDoc(d)) = d
<1>1. CutOf(d, parseDoc(d))
  BY ParseLemma
<1>. QED
  BY <1>1, SoundIsKept DEF CutOf, KeptList

LEMMA SerializeTyped ==
  ASSUME NEW s \in Seq(Segment)
  PROVE  serializeDoc(s) \in Source
<1>1. Raws(s) \in Seq(Seq(Token)) /\ << >> \in Seq(Token)
  BY RawsAreSources DEF Source
<1>. QED
  BY <1>1, FlattenAppend DEF serializeDoc, Raws, Source

LEMMA KeptConcat ==
  ASSUME NEW s, NEW r, KeptList(s), KeptList(r)
  PROVE  KeptList(s \o r)
<1>1. s \in Seq(Segment) /\ r \in Seq(Segment)
  BY DEF KeptList
<1>2. s \o r \in Seq(Segment) /\ Len(s \o r) = Len(s) + Len(r)
      /\ \A i \in 1 .. Len(s) + Len(r) : (s \o r)[i] = IF i <= Len(s) THEN s[i] ELSE r[i - Len(s)]
  BY <1>1
<1>3. \A i \in 1 .. Len(s) + Len(r) :
         i \in 1 .. Len(s) \/ (~(i <= Len(s)) /\ i - Len(s) \in 1 .. Len(r))
  <2>1. PICK m \in Nat, n \in Nat : m = Len(s) /\ n = Len(r)
    BY <1>1
  <2>2. \A i \in 1 .. m + n : i \in 1 .. m \/ (~(i <= m) /\ i - m \in 1 .. n)
    OBVIOUS
  <2>. QED
    BY <2>1, <2>2
<1>. QED
  BY <1>2, <1>3 DEF KeptList

LEMMA KeptPart ==
  ASSUME NEW s \in Seq(Segment), NEW m \in Nat \ {0}, NEW n \in Nat, n <= Len(s),
         \A i \in m .. n : Kept(s[i])
  PROVE  KeptList(SubSeq(s, m, n))
<1>1. PICK r : r = SubSeq(s, m, n)
  OBVIOUS
<1>2. \A i \in m .. n : i \in 1 .. Len(s)
  OBVIOUS
<1>3. r \in Seq(Segment) /\ Len(r) = (IF m <= n THEN n - m + 1 ELSE 0)
      /\ \A i \in 1 .. n - m + 1 : r[i] = s[m + i - 1]
  <2>1. \A i \in m .. n : s[i] \in Segment
    BY <1>2
  <2>. QED
    BY <1>1, <2>1, SubSeqProperties
<1>4. \A i \in 1 .. Len(r) : i \in 1 .. n - m + 1 /\ m + i - 1 \in m .. n
  BY <1>3
<1>. QED
  BY <1>1, <1>3, <1>4 DEF KeptList

LEMMA KeptOne ==
  ASSUME NEW g, Kept(g)
  PROVE  KeptList(<<g>>)
<1>1. <<g>> \in Seq(Segment) /\ Len(<<g>>) = 1 /\ <<g>>[1] = g
  BY DEF Kept
<1>. QED
  BY <1>1 DEF KeptList

LEMMA ReplaceKept ==
  ASSUME NEW s, NEW i \in 1 .. Len(s), KeptBut(s, i), NEW raw \in Source
  PROVE  KeptList(replaceSegmentRaw(s, i, raw))
<1>1. s \in Seq(Segment) /\ Len(s) \in Nat /\ i - 1 \in Nat /\ i + 1 \in Nat \ {0} /\ 1 \in Nat \ {0}
      /\ i - 1 <= Len(s)
  BY DEF KeptBut
<1>2. \A j \in 1 .. i - 1 : j \in 1 .. Len(s) /\ j # i
  BY <1>1
<1>3. \A j \in i + 1 .. Len(s) : j \in 1 .. Len(s) /\ j # i
  BY <1>1
<1>4. KeptList(SubSeq(s, 1, i - 1))
  BY <1>1, <1>2, KeptPart DEF KeptBut
<1>5. KeptList(SubSeq(s, i + 1, Len(s)))
  BY <1>1, <1>3, KeptPart DEF KeptBut
<1>6. KeptList(SubSeq(s, 1, i - 1) \o parseDoc(raw))
  BY <1>4, ParseKept, KeptConcat
<1>. QED
  BY <1>5, <1>6, KeptConcat DEF replaceSegmentRaw

LEMMA InsertKept ==
  ASSUME NEW s, NEW i \in 1 .. Len(s) + 1, KeptList(s), NEW raw \in Source
  PROVE  KeptList(insertSegmentAt(s, i, raw))
<1>1. s \in Seq(Segment) /\ Len(s) \in Nat /\ i - 1 \in Nat /\ i \in Nat \ {0} /\ 1 \in Nat \ {0}
      /\ i - 1 <= Len(s)
  BY DEF KeptList
<1>2. \A j \in 1 .. i - 1 : j \in 1 .. Len(s)
  BY <1>1
<1>3. \A j \in i .. Len(s) : j \in 1 .. Len(s)
  BY <1>1
<1>4. KeptList(SubSeq(s, 1, i - 1))
  BY <1>1, <1>2, KeptPart DEF KeptList
<1>5. KeptList(SubSeq(s, i, Len(s)))
  BY <1>1, <1>3, KeptPart DEF KeptList
<1>6. KeptList(SubSeq(s, 1, i - 1) \o parseDoc(raw))
  BY <1>4, ParseKept, KeptConcat
<1>. QED
  BY <1>5, <1>6, KeptConcat DEF insertSegmentAt

LEMMA RemoveKept ==
  ASSUME NEW s, NEW i \in 1 .. Len(s), KeptList(s)
  PROVE  KeptList(RemoveAt(s, i)) /\ Len(RemoveAt(s, i)) = Len(s) - 1
<1>1. s \in Seq(Segment) /\ Len(s) \in Nat /\ i - 1 \in Nat /\ i + 1 \in Nat \ {0} /\ 1 \in Nat \ {0}
      /\ i - 1 <= Len(s) /\ i \in Nat
  BY DEF KeptList
<1>2. \A j \in 1 .. i - 1 : j \in 1 .. Len(s)
  BY <1>1
<1>3. \A j \in i + 1 .. Len(s) : j \in 1 .. Len(s)
  BY <1>1
<1>4. KeptList(SubSeq(s, 1, i - 1))
  BY <1>1, <1>2, KeptPart DEF KeptList
<1>5. KeptList(SubSeq(s, i + 1, Len(s)))
  BY <1>1, <1>3, KeptPart DEF KeptList
<1>6. RemoveAt(s, i) = SubSeq(s, 1, i - 1) \o SubSeq(s, i + 1, Len(s))
  BY DEF RemoveAt
<1>7. Len(SubSeq(s, 1, i - 1)) = i - 1 /\ Len(SubSeq(s, i + 1, Len(s))) = Len(s) - i
  BY <1>1
<1>8. Len(RemoveAt(s, i)) = Len(s) - 1
  <2>1. PICK a \in Seq(Segment), b \in Seq(Segment) :
           a = SubSeq(s, 1, i - 1) /\ b = SubSeq(s, i + 1, Len(s))
    BY <1>4, <1>5 DEF KeptList
  <2>2. Len(a \o b) = Len(a) + Len(b)
    OBVIOUS
  <2>3. Len(a \o b) = i - 1 + (Len(s) - i)
    BY <1>7, <2>1, <2>2
  <2>4. i - 1 + (Len(s) - i) = Len(s) - 1
    BY <1>1
  <2>. QED
    BY <1>6, <2>1, <2>3, <2>4
<1>. QED
  BY <1>4, <1>5, <1>6, <1>8, KeptConcat

LEMMA MoveKept ==
  ASSUME NEW s, NEW i \in 1 .. Len(s), NEW j \in 1 .. Len(s), KeptList(s)
  PROVE  KeptList(moveSegment(s, i, j))
<1>. DEFINE r == RemoveAt(s, i)
<1>1. KeptList(r) /\ Len(r) = Len(s) - 1 /\ Len(s) \in Nat /\ Kept(s[i])
  BY RemoveKept DEF KeptList
<1>. HIDE DEF r
<1>2. /\ r \in Seq(Segment) /\ j - 1 \in Nat /\ j \in Nat \ {0} /\ 1 \in Nat \ {0} /\ j - 1 <= Len(r)
      /\ Len(r) \in Nat /\ Len(r) <= Len(r)
  BY <1>1 DEF KeptList
<1>3. (\A k \in 1 .. j - 1 : k \in 1 .. Len(r)) /\ (\A k \in j .. Len(r) : k \in 1 .. Len(r))
  BY <1>2
<1>4. KeptList(SubSeq(r, 1, j - 1)) /\ KeptList(SubSeq(r, j, Len(r)))
  BY <1>1, <1>2, <1>3, KeptPart DEF KeptList
<1>5. KeptList(SubSeq(r, 1, j - 1) \o <<s[i]>>)
  BY <1>1, <1>4, KeptOne, KeptConcat
<1>6. KeptList(SubSeq(r, 1, j - 1) \o <<s[i]>> \o SubSeq(r, j, Len(r)))
  BY <1>4, <1>5, KeptConcat
<1>. QED
  BY <1>6 DEF moveSegment, InsertAt, r

-----------------------------------------------------------------------------
(***************************************************************************)
(* A blank line put after a segment closes nothing that was open; the      *)
(* layer and the body of a form.                                           *)
(***************************************************************************)

\* A blank line after text closes nothing that was open.
LEMMA EndsBeforeGap ==
  ASSUME NEW d \in Source, NEW i \in 1 .. Len(d)
  PROVE  EndOf(Append(d, Gap), i) = EndOf(d, i)
<1>. DEFINE e == Append(d, Gap)
<1>1. /\ d \in Seq(Token) /\ Len(d) \in Nat /\ Len(e) = Len(d) + 1 /\ e[Len(d) + 1] = Gap
      /\ (\A j \in 1 .. Len(d) : e[j] = d[j]) /\ e \in Seq(Token)
  BY TokensOf DEF Source
<1>2. Gap # Fence /\ Gap # Lang /\ Gap # Close
  <2>1. Gap.k = "gap" /\ Fence.k = "tick" /\ Lang.k = "lang" /\ Close.k = "close"
    BY DEF Gap, Fence, Lang, Close, Tok
  <2>. QED
    BY <2>1
<1>3. e[i] = d[i]
  BY <1>1
<1>. HIDE DEF e
<1>4. Fences(e, i) = Fences(d, i)
  <2>1. ASSUME NEW j \in i + 1 .. Len(d) + 1
        PROVE  (e[j] = Fence /\ j < Len(e) /\ e[j + 1] = Lang)
               <=> (j \in i + 1 .. Len(d) /\ d[j] = Fence /\ j < Len(d) /\ d[j + 1] = Lang)
    <3>1. CASE j = Len(d) + 1
      BY <1>1, <3>1
    <3>2. CASE j = Len(d)
      <4>1. e[j + 1] # Lang /\ ~(j < Len(d))
        BY <1>1, <1>2, <3>2
      <4>. QED
        BY <4>1
    <3>3. CASE j < Len(d)
      <4>1. e[j] = d[j] /\ e[j + 1] = d[j + 1] /\ j < Len(e) /\ j \in i + 1 .. Len(d)
        BY <1>1, <3>3
      <4>. QED
        BY <3>3, <4>1
    <3>. QED
      BY <1>1, <3>1, <3>2, <3>3
  <2>2. \A j : j \in i + 1 .. Len(d) => j \in i + 1 .. Len(d) + 1
    BY <1>1
  <2>. QED
    BY <1>1, <2>1, <2>2 DEF Fences
<1>5. ASSUME NEW x \in Nat, 1 <= x PROVE Ticks(e, x) = Ticks(d, x)
  <2>1. ASSUME NEW j \in x .. Len(d) + 1
        PROVE  e[j] = Fence <=> (j \in x .. Len(d) /\ d[j] = Fence)
    BY <1>1, <1>2, <1>5
  <2>2. \A j : j \in x .. Len(d) => j \in x .. Len(d) + 1
    BY <1>1
  <2>. QED
    BY <1>1, <2>1, <2>2 DEF Ticks
<1>6. Tails(e, i) = Tails(d, i)
  <2>1. ASSUME NEW j \in i + 1 .. Len(d) + 1
        PROVE  e[j] = Close <=> (j \in i + 1 .. Len(d) /\ d[j] = Close)
    BY <1>1, <1>2
  <2>2. \A j : j \in i + 1 .. Len(d) => j \in i + 1 .. Len(d) + 1
    BY <1>1
  <2>. QED
    BY <1>1, <2>1, <2>2 DEF Tails
<1>7. CASE d[i].k = "single"
  BY <1>3, <1>7 DEF EndOf
<1>8. CASE d[i].k = "code"
  <2>. DEFINE f == First(Fences(d, i))
  <2>1. f \in Nat
    <3>1. Fences(d, i) \in SUBSET Nat /\ 0 \notin Fences(d, i)
      BY <1>1 DEF Fences
    <3>. QED
      BY <3>1, FirstLemma
  <2>2. /\ EndOf(d, i) = LET t == IF f = 0 THEN 0 ELSE First(Ticks(d, f + 2))
                         IN IF t = 0 THEN 0 ELSE t + 1
        /\ EndOf(e, i) = LET g == First(Fences(e, i))
                             t == IF g = 0 THEN 0 ELSE First(Ticks(e, g + 2))
                         IN IF t = 0 THEN 0 ELSE t + 1
    BY <1>3, <1>8 DEF EndOf, CodeEnd, Fences, Ticks
  <2>. HIDE DEF f
  <2>3. Ticks(e, f + 2) = Ticks(d, f + 2)
    BY <1>5, <2>1
  <2>. QED
    BY <1>4, <2>2, <2>3 DEF f, e
<1>9. CASE d[i].k = "multi"
  <2>1. /\ EndOf(d, i) = IF First(Tails(d, i)) = 0 THEN 0 ELSE First(Tails(d, i)) + 1
        /\ EndOf(e, i) = IF First(Tails(e, i)) = 0 THEN 0 ELSE First(Tails(e, i)) + 1
    BY <1>3, <1>9 DEF EndOf, Tails
  <2>. QED
    BY <1>6, <2>1 DEF e
<1>10. CASE d[i].k \notin {"single", "code", "multi"}
  BY <1>3, <1>10 DEF EndOf, e
<1>. QED
  BY <1>7, <1>8, <1>9, <1>10

LEMMA PlainBeforeGap ==
  ASSUME NEW raw, Plain(raw)
  PROVE  Plain(Append(raw, Gap))
<1>. DEFINE e == Append(raw, Gap)
<1>1. /\ raw \in Seq(Token) /\ Len(raw) \in Nat /\ Len(e) = Len(raw) + 1 /\ e[Len(raw) + 1] = Gap
      /\ (\A j \in 1 .. Len(raw) : e[j] = raw[j]) /\ e \in Seq(Token) /\ e # << >>
      /\ raw \in Source
  BY TokensOf DEF Source, Plain
<1>2. Gap # Mark /\ Gap.k = "gap"
  <2>1. Gap.k = "gap" /\ Mark.k = "mark"
    BY DEF Gap, Mark, Tok
  <2>. QED
    BY <2>1
<1>3. ASSUME NEW i \in 1 .. Len(raw) PROVE e[i] # Mark /\ EndOf(e, i) = 0
  BY <1>1, EndsBeforeGap DEF Plain
<1>4. EndOf(e, Len(raw) + 1) = 0
  BY <1>1, <1>2 DEF EndOf
<1>. HIDE DEF e
<1>5. \A i \in 1 .. Len(e) : i \in 1 .. Len(raw) \/ i = Len(raw) + 1
  BY <1>1
<1>6. Plain(e)
  BY <1>1, <1>2, <1>3, <1>4, <1>5 DEF Plain, Source
<1>. QED
  BY <1>6 DEF e

LEMMA WholeBeforeGap ==
  ASSUME NEW raw, Whole(raw)
  PROVE  Whole(Append(raw, Gap))
<1>. DEFINE e == Append(raw, Gap)
<1>1. raw \in Source /\ raw \in Seq(Token) /\ Len(raw) \in Nat
  BY DEF Whole, Source
<1>2. PICK n \in 1 .. Len(raw) : ClosedAt(raw, n) /\ OnlyGaps(raw, n)
  BY DEF Whole
<1>3. /\ Len(e) = Len(raw) + 1 /\ e[Len(raw) + 1] = Gap
      /\ (\A j \in 1 .. Len(raw) : e[j] = raw[j]) /\ e \in Seq(Token) /\ e # << >>
  BY <1>1, TokensOf
<1>4. 1 \in 1 .. Len(raw) /\ n \in 1 .. Len(e)
  BY <1>1, <1>3
<1>5. EndOf(e, 1) = EndOf(raw, 1)
  BY <1>1, <1>4, EndsBeforeGap
<1>. HIDE DEF e
<1>6. ClosedAt(e, n)
  BY <1>2, <1>3, <1>4, <1>5 DEF ClosedAt
<1>7. ASSUME NEW j \in n + 1 .. Len(e) PROVE e[j] = Gap
  <2>1. j = Len(raw) + 1 \/ (j \in n + 1 .. Len(raw) /\ j \in 1 .. Len(raw))
    BY <1>1, <1>3
  <2>. QED
    BY <1>2, <1>3, <2>1 DEF OnlyGaps
<1>8. Whole(e)
  BY <1>3, <1>4, <1>6, <1>7 DEF Whole, OnlyGaps, Source
<1>. QED
  BY <1>8 DEF e

LEMMA KeptBeforeGap ==
  ASSUME NEW s, KeptList(s), NEW i \in 1 .. Len(s)
  PROVE  KeptList([s EXCEPT ![i].raw = Append(@, Gap)])
<1>. DEFINE g == [s[i] EXCEPT !.raw = Append(@, Gap)]
            r == [s EXCEPT ![i] = g]
<1>1. s \in Seq(Segment) /\ s[i] \in Segment /\ Kept(s[i]) /\ s[i].raw \in Source
  BY DEF KeptList, Kept, Segment
<1>2. Append(s[i].raw, Gap) \in Source /\ (s[i].raw # << >> => Append(s[i].raw, Gap)[1] = s[i].raw[1])
      /\ Append(s[i].raw, Gap) # << >>
  <2>1. PICK q \in Seq(Token) : q = s[i].raw
    BY <1>1 DEF Source
  <2>2. Gap \in Token
    BY TokensOf
  <2>3. /\ Append(q, Gap) \in Seq(Token) /\ Len(Append(q, Gap)) = Len(q) + 1 /\ Len(q) \in Nat
        /\ \A j \in 1 .. Len(q) : Append(q, Gap)[j] = q[j]
    BY <2>2
  <2>4. q # << >> => 1 \in 1 .. Len(q)
    OBVIOUS
  <2>5. Append(q, Gap) # << >>
    BY <2>3
  <2>. QED
    BY <2>1, <2>3, <2>4, <2>5 DEF Source
<1>3. /\ g \in Segment /\ g.kind = s[i].kind /\ g.layer = s[i].layer /\ g.raw = Append(s[i].raw, Gap)
      /\ g.type = s[i].type
  BY <1>1, <1>2 DEF Segment
<1>4. Kept(g)
  <2>1. CASE s[i].kind = "prose"
    <3>1. s[i] = Prose(s[i].raw) /\ Plain(s[i].raw)
      BY <1>1, <2>1, KeptProse, Zenon
    <3>2. Plain(g.raw)
      BY <1>3, <3>1, PlainBeforeGap
    <3>3. g = Prose(g.raw)
      <4>1. s[i].kind = "prose" /\ s[i].type = "" /\ s[i].layer = ""
        <5>. HIDE DEF g
        <5>1. \A q : Prose(q).kind = "prose" /\ Prose(q).type = "" /\ Prose(q).layer = ""
          BY DEF Prose
        <5>2. PICK q : s[i] = Prose(q)
          BY <3>1
        <5>. QED
          BY <5>1, <5>2
      <4>. HIDE DEF g
      <4>. QED
        BY <1>3, <4>1 DEF Prose, Segment
    <3>4. g.kind = "prose"
      BY <1>3, <2>1
    <3>. HIDE DEF g
    <3>. QED
      BY <1>3, <3>2, <3>3, <3>4 DEF Kept, WellShown
  <2>2. CASE s[i].kind # "prose"
    <3>1. s[i].kind = "directive" /\ Whole(s[i].raw) /\ s[i].raw # << >>
      BY <1>1, <2>2 DEF Kept, Segment, Whole
    <3>2. Whole(g.raw)
      BY <1>3, <3>1, WholeBeforeGap
    <3>. HIDE DEF g
    <3>. QED
      BY <1>1, <1>2, <1>3, <2>2, <3>1, <3>2 DEF Kept, WellShown
  <2>. QED
    BY <2>1, <2>2
<1>. HIDE DEF g
<1>5. r \in Seq(Segment) /\ Len(r) = Len(s) /\ \A j \in 1 .. Len(s) : r[j] = IF j = i THEN g ELSE s[j]
  BY <1>1, <1>3
<1>6. KeptList(r)
  BY <1>4, <1>5 DEF KeptList
<1>7. [s EXCEPT ![i].raw = Append(@, Gap)] = r
  BY <1>1 DEF g
<1>. QED
  BY <1>6, <1>7

-----------------------------------------------------------------------------
LEMMA LayerTyped ==
  ASSUME NEW raw \in Source, NEW l \in Layers
  PROVE  setLayerAttr(raw, l) \in Source
<1>. DEFINE S == {j \in 1 .. Len(raw) : raw[j].k \in Heads}
            h == First(S)
            v == IF l = "both" THEN "" ELSE l
<1>1. setLayerAttr(raw, l) = IF h = 0 THEN raw ELSE [raw EXCEPT ![h] = [raw[h] EXCEPT !.v = v]]
  BY DEF setLayerAttr
<1>2. S \in SUBSET Nat /\ 0 \notin S /\ v \in Layers
  <2>1. v \in Layers
    BY DEF Layers
  <2>2. Len(raw) \in Nat
    BY DEF Source
  <2>3. S \in SUBSET Nat /\ 0 \notin S
    <3>1. \A j \in 1 .. Len(raw) : j \in Nat /\ j # 0
      BY <2>2
    <3>. HIDE DEF v, h
    <3>. QED
      BY <3>1
  <2>. QED
    BY <2>1, <2>3
<1>3. h = 0 \/ h \in S
  <2>. HIDE DEF S
  <2>. QED
    BY <1>2, FirstLemma
<1>4. ASSUME h \in S PROVE [raw[h] EXCEPT !.v = v] \in Token
  <2>. HIDE DEF h, v
  <2>1. raw[h] \in Token /\ raw[h].k \in Heads
    BY <1>4 DEF Source
  <2>2. raw[h] = Tok(raw[h].k, raw[h].v)
    BY <2>1, TokensOf
  <2>3. [raw[h] EXCEPT !.v = v] = Tok(raw[h].k, v)
    BY <2>2 DEF Tok
  <2>. QED
    BY <1>2, <2>1, <2>3, TokensOf
<1>5. CASE h = 0
  BY <1>1, <1>5
<1>6. CASE h # 0
  <2>. HIDE DEF h, v
  <2>. QED
    BY <1>1, <1>3, <1>4, <1>6 DEF Source
<1>. QED
  BY <1>5, <1>6

LEMMA EmittedLemma ==
  ASSUME NEW body \in Source, NEW l \in Layers
  PROVE  /\ Emitted(body, l) \in Source /\ Emitted(body, l) # << >>
         /\ LayerShown(Emitted(body, l)[1].v) = LayerShown(l)
<1>. DEFINE raw == <<Tok("multi", "")>> \o body \o <<Close>>
            S == {j \in 1 .. Len(raw) : raw[j].k \in Heads}
            h == First(S)
            shown == LayerShown(l)
            v == IF shown = "both" THEN "" ELSE shown
<1>1. Tok("multi", "") \in Token /\ Close \in Token
  BY TokensOf DEF Heads, Layers
<1>2. raw \in Source /\ raw[1] = Tok("multi", "") /\ Len(raw) \in Nat /\ Len(raw) >= 1
  <2>1. PICK t \in Token : t = Tok("multi", "")
    BY <1>1
  <2>. HIDE DEF raw
  <2>2. PICK u \in Seq(Token) : u = <<t>> \o body
    <3>1. <<t>> \o body \in Seq(Token)
      BY DEF Source
    <3>. QED
      BY <3>1
  <2>3. u[1] = t /\ Len(u) >= 1 /\ Len(u) \in Nat
    <3>1. PICK b \in Seq(Token) : b = body
      BY DEF Source
    <3>2. Len(<<t>> \o b) = Len(b) + 1 /\ Len(b) \in Nat /\ (<<t>> \o b)[1] = t
      OBVIOUS
    <3>. QED
      BY <2>2, <3>1, <3>2
  <2>4. /\ u \o <<Close>> \in Seq(Token) /\ Len(u \o <<Close>>) = Len(u) + 1
        /\ \A j \in 1 .. Len(u) : (u \o <<Close>>)[j] = u[j]
    <3>1. PICK c \in Token : c = Close
      BY <1>1
    <3>2. /\ u \o <<c>> \in Seq(Token) /\ Len(u \o <<c>>) = Len(u) + 1
          /\ \A j \in 1 .. Len(u) : (u \o <<c>>)[j] = u[j]
      OBVIOUS
    <3>. QED
      BY <3>1, <3>2
  <2>5. 1 \in 1 .. Len(u)
    BY <2>3
  <2>6. raw = u \o <<Close>>
    BY <2>1, <2>2 DEF raw
  <2>7. Len(raw) \in Nat /\ Len(raw) >= 1
    BY <2>3, <2>4, <2>6
  <2>8. raw[1] = t
    BY <2>3, <2>4, <2>5, <2>6
  <2>9. raw \in Source
    BY <2>4, <2>6 DEF Source
  <2>. QED
    BY <2>1, <2>7, <2>8, <2>9
<1>3. Tok("multi", "").k = "multi" /\ "multi" \in Heads
  BY DEF Tok, Heads
<1>4. shown \in Layers
  BY DEF LayerShown, Layers
<1>. HIDE DEF raw
<1>5. 1 \in S /\ S \in SUBSET Nat /\ 0 \notin S
  <2>1. raw[1].k \in Heads
    BY <1>2, <1>3
  <2>2. 1 \in 1 .. Len(raw) /\ \A j \in 1 .. Len(raw) : j \in Nat /\ j # 0
    <3>1. PICK n \in Nat : n = Len(raw) /\ n >= 1
      BY <1>2
    <3>2. 1 \in 1 .. n /\ \A j \in 1 .. n : j \in Nat /\ j # 0
      BY <3>1
    <3>. QED
      BY <3>1, <3>2
  <2>. HIDE DEF v, h, shown
  <2>. QED
    BY <2>1, <2>2
<1>6. h = 1
  <2>. HIDE DEF S
  <2>1. h \in S /\ h <= 1 /\ h \in Nat /\ h # 0
    BY <1>5, FirstLemma
  <2>. HIDE DEF h
  <2>. QED
    BY <2>1
<1>7. Emitted(body, l) = setLayerAttr(raw, shown)
  BY DEF Emitted, raw
<1>8. setLayerAttr(raw, shown) = [raw EXCEPT ![1] = [raw[1] EXCEPT !.v = v]]
  <2>1. setLayerAttr(raw, shown)
        = IF h = 0 THEN raw ELSE [raw EXCEPT ![h] = [raw[h] EXCEPT !.v = v]]
    BY DEF setLayerAttr
  <2>. HIDE DEF h, v, shown
  <2>. QED
    BY <1>6, <2>1
<1>9. setLayerAttr(raw, shown) \in Source
  BY <1>2, <1>4, LayerTyped
<1>10. [raw[1] EXCEPT !.v = v].v = v
  BY <1>2 DEF Tok
<1>11. 1 \in DOMAIN raw
  <2>1. PICK q \in Seq(Token) : q = raw
    BY <1>2 DEF Source
  <2>2. Len(q) >= 1
    BY <1>2, <2>1
  <2>3. 1 \in DOMAIN q
    BY <2>2
  <2>. QED
    BY <2>1, <2>3
<1>12. [raw EXCEPT ![1] = [raw[1] EXCEPT !.v = v]][1].v = v
  BY <1>10, <1>11
<1>13. LayerShown(v) = LayerShown(l)
  BY DEF LayerShown, Layers
<1>. QED
  <2>. HIDE DEF v, shown
  <2>1. Emitted(body, l) # << >>
    BY <1>7, <1>8, <1>11
  <2>. QED
    BY <1>7, <1>8, <1>9, <1>12, <1>13, <2>1

LEMMA BodyTyped ==
  ASSUME NEW raw \in Source
  PROVE  BodyOf(raw) \in Source
<1>. DEFINE S == {j \in 2 .. Len(raw) : raw[j] = Close}
            c == First(S)
<1>1. BodyOf(raw) = IF c = 0 THEN << >> ELSE SubSeq(raw, 2, c - 1)
  BY DEF BodyOf
<1>2. S \in SUBSET Nat /\ 0 \notin S /\ << >> \in Source
  BY DEF Source
<1>3. c = 0 \/ c \in S
  <2>. HIDE DEF S
  <2>. QED
    BY <1>2, FirstLemma
<1>4. ASSUME c # 0 PROVE SubSeq(raw, 2, c - 1) \in Source
  <2>. HIDE DEF c
  <2>1. 2 \in 1 .. Len(raw) + 1 /\ c \in 2 .. Len(raw) + 1
    BY <1>3, <1>4 DEF Source
  <2>. QED
    BY <2>1, PartOfSource
<1>. QED
  BY <1>1, <1>2, <1>4

\* A form is that of a card.
FormTyped(f) == f \in [at : Nat, type : Heads \cup {""}, body : Source]
FormOf(f, s) == FormTyped(f) /\ (f = NoForm \/ (f.at \in 1 .. Len(s) /\ s[f.at].kind = "directive"))

LEMMA NoFormTyped == FormTyped(NoForm) /\ \A s : FormOf(NoForm, s)
<1>1. << >> \in Source
  BY DEF Source
<1>. QED
  BY <1>1 DEF NoForm, FormTyped, FormOf

LEMMA FormAfterLemma ==
  ASSUME NEW f, FormTyped(f), NEW s, KeptList(s)
  PROVE  FormOf(FormAfter(f, s), s)
<1>1. s \in Seq(Segment) /\ f.at \in Nat /\ Len(s) \in Nat
  <2>1. f.at \in Nat
    BY DEF FormTyped
  <2>2. s \in Seq(Segment)
    BY DEF KeptList
  <2>. QED
    BY <2>1, <2>2
<1>2. CASE f.at = 0 \/ f.at > Len(s) \/ s[f.at].kind = "prose"
  BY <1>2, NoFormTyped DEF FormAfter
<1>3. CASE ~(f.at = 0 \/ f.at > Len(s) \/ s[f.at].kind = "prose")
  <2>. DEFINE g == s[f.at]
              new == [at |-> f.at, type |-> g.type, body |-> BodyOf(g.raw)]
  <2>1. f.at \in 1 .. Len(s) /\ g \in Segment /\ g.kind = "directive" /\ g.raw \in Source
        /\ g.type \in Heads \cup {"", "mark"}
    <3>1. f.at \in 1 .. Len(s)
      BY <1>1, <1>3
    <3>2. g \in Segment
      BY <1>1, <3>1
    <3>. HIDE DEF g
    <3>3. g.kind \in {"prose", "directive"} /\ g.raw \in Source /\ g.type \in Heads \cup {"", "mark"}
      BY <3>2 DEF Segment
    <3>. QED
      BY <1>3, <3>1, <3>2, <3>3 DEF g
  <2>2. CASE g.type = f.type
    BY <1>3, <2>1, <2>2 DEF FormAfter, FormOf
  <2>3. CASE g.type # f.type /\ g.type = "mark"
    BY <1>3, <2>3, NoFormTyped DEF FormAfter
  <2>4. CASE g.type # f.type /\ g.type # "mark"
    <3>1. FormAfter(f, s) = new
      BY <1>3, <2>4 DEF FormAfter
    <3>2. BodyOf(g.raw) \in Source
      BY <2>1, BodyTyped
    <3>3. FormTyped(new) /\ new.at = f.at
      BY <1>1, <2>1, <2>4, <3>2 DEF FormTyped
    <3>. QED
      BY <2>1, <3>1, <3>3 DEF FormOf
  <2>. QED
    BY <2>2, <2>3, <2>4
<1>. QED
  BY <1>2, <1>3

-----------------------------------------------------------------------------
(***************************************************************************)
(* The invariant of the editor, one lemma for each of its steps.           *)
(***************************************************************************)

ShownList(s) == \A i \in 1 .. Len(s) : WellShown(s[i])

\* What every step of the editor keeps.
DocInv ==
    /\ KeptBut(segs, typing)
    /\ ShownList(segs)
    /\ typing \in 0 .. Len(segs)
    /\ FormOf(form, segs)
    /\ value \in Source /\ value = serializeDoc(segs)
    /\ cursor \in Nat /\ edits \in 0 .. MaxEdits

LEMMA Inputs ==
  /\ \A d \in Texts \cup Typed \cup Snippets \cup Bodies : d \in Source
  /\ MaxEdits \in Nat
  BY DocAssumption DEF Source

LEMMA KeptShown ==
  ASSUME NEW s, KeptList(s)
  PROVE  KeptBut(s, 0) /\ ShownList(s) /\ 0 \in 0 .. Len(s) /\ s \in Seq(Segment)
  BY DEF KeptList, KeptBut, ShownList, Kept

LEMMA NoFocus ==
  ASSUME NEW s, KeptBut(s, 0)
  PROVE  KeptList(s)
  BY DEF KeptList, KeptBut

LEMMA CountsOn ==
  ASSUME edits \in 0 .. MaxEdits, edits < MaxEdits, edits' = edits + 1
  PROVE  edits' \in 0 .. MaxEdits
  BY Inputs

\* A list that is cut anew, and the form that remains on it.
LEMMA Renewed ==
  ASSUME DocInv, KeptList(segs'), typing' = 0, form' = FormAfter(form, segs'),
         value' \in Source, value' = serializeDoc(segs'), cursor' \in Nat, edits' \in 0 .. MaxEdits
  PROVE  DocInv'
<1>1. FormTyped(form)
  BY DEF DocInv, FormOf
<1>2. FormOf(FormAfter(form, segs'), segs')
  BY <1>1, FormAfterLemma
<1>3. KeptBut(segs', 0) /\ ShownList(segs') /\ 0 \in 0 .. Len(segs')
  BY KeptShown
<1>. QED
  BY <1>2, <1>3 DEF DocInv

LEMMA DocBegins == DocInit => DocInv
<1>. SUFFICES ASSUME DocInit PROVE DocInv
  OBVIOUS
<1>1. value \in Source /\ MaxEdits \in Nat
  BY Inputs DEF DocInit
<1>2. KeptList(segs) /\ value = serializeDoc(segs)
  BY <1>1, ParseKept DEF DocInit
<1>3. KeptBut(segs, 0) /\ ShownList(segs) /\ 0 \in 0 .. Len(segs)
  BY <1>2, KeptShown
<1>. QED
  BY <1>1, <1>2, <1>3, NoFormTyped DEF DocInit, DocInv

LEMMA DocStays == DocInv /\ UNCHANGED docVars => DocInv'
  BY DEF DocInv, docVars

LEMMA FocusKeeps == DocInv /\ FocusProse => DocInv'
<1>. SUFFICES ASSUME DocInv, FocusProse PROVE DocInv'
  OBVIOUS
<1>1. /\ typing = 0 /\ segs' = segs /\ value' = value /\ form' = form /\ edits' = edits
      /\ typing' \in DOMAIN segs /\ cursor' = typing'
  BY DEF FocusProse
<1>2. segs \in Seq(Segment) /\ KeptBut(segs, typing')
  BY <1>1 DEF DocInv, KeptBut
<1>3. typing' \in 0 .. Len(segs) /\ cursor' \in Nat
  BY <1>1, <1>2
<1>. QED
  BY <1>1, <1>2, <1>3 DEF DocInv

LEMMA TypeKeeps == DocInv /\ TypeProse => DocInv'
<1>. SUFFICES ASSUME DocInv, TypeProse PROVE DocInv'
  OBVIOUS
<1>1. PICK raw \in Typed : Emit([segs EXCEPT ![typing] = Prose(raw)])
  BY DEF TypeProse
<1>. DEFINE r == [segs EXCEPT ![typing] = Prose(raw)]
<1>2. /\ typing # 0 /\ segs[typing].kind = "prose" /\ typing' = typing /\ cursor' = cursor /\ form' = form
      /\ segs' = r /\ value' = serializeDoc(r) /\ edits < MaxEdits /\ edits' = edits + 1
  BY <1>1 DEF TypeProse, Emit
<1>3. raw \in Source
  BY Inputs
<1>4. Prose(raw) \in Segment /\ Prose(raw).kind = "prose" /\ Prose(raw).raw = raw
  BY <1>3, MarkIsSegment
<1>5. segs \in Seq(Segment) /\ typing \in 1 .. Len(segs)
  BY <1>2 DEF DocInv, KeptBut
<1>6. r \in Seq(Segment) /\ Len(r) = Len(segs)
      /\ \A i \in 1 .. Len(segs) : r[i] = IF i = typing THEN Prose(raw) ELSE segs[i]
  BY <1>4, <1>5
<1>. HIDE DEF r
<1>7. KeptBut(r, typing)
  BY <1>6 DEF DocInv, KeptBut
<1>8. WellShown(Prose(raw))
  BY <1>4 DEF WellShown
<1>9. ShownList(r)
  BY <1>6, <1>8 DEF DocInv, ShownList
<1>10. FormOf(form, r)
  BY <1>2, <1>6 DEF DocInv, FormOf
<1>11. serializeDoc(r) \in Source
  BY <1>6, SerializeTyped
<1>12. edits' \in 0 .. MaxEdits
  BY <1>2, CountsOn DEF DocInv
<1>. QED
  BY <1>2, <1>6, <1>7, <1>9, <1>10, <1>11, <1>12 DEF DocInv

LEMMA BlurKeeps == DocInv /\ Blur => DocInv'
<1>. SUFFICES ASSUME DocInv, Blur PROVE DocInv'
  OBVIOUS
<1>1. /\ typing # 0 /\ segs' = replaceSegmentRaw(segs, typing, segs[typing].raw)
      /\ value' = serializeDoc(segs') /\ typing' = 0 /\ form' = FormAfter(form, segs')
      /\ cursor' = cursor /\ edits' = edits
  BY DEF Blur
<1>2. segs \in Seq(Segment) /\ typing \in 1 .. Len(segs) /\ KeptBut(segs, typing)
  BY <1>1 DEF DocInv, KeptBut
<1>3. segs[typing] \in Segment
  BY <1>2
<1>4. segs[typing].raw \in Source
  BY <1>3 DEF Segment
<1>5. KeptList(segs')
  BY <1>1, <1>2, <1>4, ReplaceKept
<1>6. value' \in Source
  BY <1>1, <1>5, SerializeTyped DEF KeptList
<1>7. cursor' \in Nat /\ edits' \in 0 .. MaxEdits
  BY <1>1 DEF DocInv
<1>. QED
  BY <1>1, <1>5, <1>6, <1>7, Renewed

LEMMA ExpandKeeps == DocInv /\ ExpandCard => DocInv'
<1>. SUFFICES ASSUME DocInv, ExpandCard PROVE DocInv'
  OBVIOUS
<1>1. PICK i \in DOMAIN segs :
          /\ segs[i].kind = "directive" /\ segs[i].type \in {"multi", "single"}
          /\ form' = [at |-> i, type |-> segs[i].type, body |-> BodyOf(segs[i].raw)]
  BY DEF ExpandCard
<1>2. segs' = segs /\ value' = value /\ cursor' = cursor /\ typing' = typing /\ edits' = edits
  BY DEF ExpandCard
<1>3. segs \in Seq(Segment)
  BY DEF DocInv, KeptBut
<1>4. i \in 1 .. Len(segs) /\ i \in Nat /\ segs[i] \in Segment
  BY <1>3
<1>5. BodyOf(segs[i].raw) \in Source
  <2>1. segs[i].raw \in Source
    BY <1>4 DEF Segment
  <2>. QED
    BY <2>1, BodyTyped
<1>6. FormTyped(form') /\ form'.at = i
  BY <1>1, <1>4, <1>5 DEF FormTyped, Heads
<1>7. FormOf(form', segs)
  BY <1>1, <1>4, <1>6 DEF FormOf
<1>. QED
  BY <1>2, <1>7 DEF DocInv

LEMMA CollapseKeeps == DocInv /\ CollapseCard => DocInv'
  BY NoFormTyped DEF DocInv, CollapseCard

LEMMA EditFormKeeps == DocInv /\ EditForm => DocInv'
<1>. SUFFICES ASSUME DocInv, EditForm PROVE DocInv'
  OBVIOUS
<1>. DEFINE n == form.at
<1>1. PICK body \in Bodies :
          /\ Emit([segs EXCEPT ![n].raw = Emitted(body, segs[n].layer)])
          /\ form' = [form EXCEPT !.body = body]
  BY DEF EditForm
<1>2. form.type = "multi" /\ typing \in {0, n} /\ typing' = n /\ cursor' = cursor
  BY DEF EditForm
<1>3. segs \in Seq(Segment)
  BY DEF DocInv, KeptBut
<1>4. n \in 1 .. Len(segs) /\ segs[n].kind = "directive" /\ FormTyped(form)
  <2>1. NoForm.type = ""
    BY DEF NoForm
  <2>2. form # NoForm
    BY <1>2, <2>1
  <2>. QED
    BY <2>2 DEF DocInv, FormOf
<1>5. body \in Source
  BY Inputs
<1>6. segs[n] \in Segment /\ n \in Nat
  BY <1>3, <1>4
<1>7. segs[n].layer \in Layers
  BY <1>6 DEF Segment
<1>. HIDE DEF n
<1>. DEFINE raw == Emitted(body, segs[n].layer)
            g == [segs[n] EXCEPT !.raw = raw]
            r == [segs EXCEPT ![n] = g]
<1>8. raw \in Source /\ raw # << >> /\ LayerShown(raw[1].v) = LayerShown(segs[n].layer)
  BY <1>5, <1>7, EmittedLemma
<1>9. segs' = r /\ value' = serializeDoc(r) /\ edits < MaxEdits /\ edits' = edits + 1
  BY <1>1, <1>4 DEF Emit
<1>. HIDE DEF raw
<1>10. g \in Segment /\ g.kind = "directive" /\ g.raw = raw /\ g.layer = segs[n].layer
  BY <1>4, <1>6, <1>8 DEF Segment
<1>. HIDE DEF g
<1>11. r \in Seq(Segment) /\ Len(r) = Len(segs)
       /\ \A i \in 1 .. Len(segs) : r[i] = IF i = n THEN g ELSE segs[i]
  BY <1>3, <1>4, <1>10
<1>. HIDE DEF r
<1>12. KeptBut(r, n)
  BY <1>2, <1>11 DEF DocInv, KeptBut
<1>13. WellShown(g)
  BY <1>8, <1>10 DEF WellShown
<1>14. ShownList(r)
  BY <1>11, <1>13 DEF DocInv, ShownList
<1>15. FormTyped(form') /\ form'.at = n
  <2>1. form' = [form EXCEPT !.body = body]
    BY <1>1
  <2>. QED
    BY <1>4, <1>5, <2>1 DEF FormTyped, n
<1>16. FormOf(form', r)
  BY <1>4, <1>10, <1>11, <1>15 DEF FormOf
<1>17. serializeDoc(r) \in Source
  BY <1>11, SerializeTyped
<1>18. edits' \in 0 .. MaxEdits
  BY <1>9, CountsOn DEF DocInv
<1>19. n \in 0 .. Len(r)
  BY <1>4, <1>11
<1>. QED
  BY <1>2, <1>9, <1>12, <1>14, <1>16, <1>17, <1>18, <1>19 DEF DocInv

LEMMA LayerKeeps == DocInv /\ SetBlockLayer => DocInv'
<1>. SUFFICES ASSUME DocInv, SetBlockLayer PROVE DocInv'
  OBVIOUS
<1>1. PICK l \in {"both", "formal"} :
          /\ Emit(replaceSegmentRaw(segs, form.at, setLayerAttr(segs[form.at].raw, l)))
          /\ form' = FormAfter(form, segs')
  BY DEF SetBlockLayer
<1>2. typing = 0 /\ form # NoForm /\ cursor' = cursor /\ typing' = 0
  BY DEF SetBlockLayer
<1>3. form.at \in 1 .. Len(segs) /\ segs \in Seq(Segment) /\ KeptBut(segs, form.at)
  BY <1>2 DEF DocInv, FormOf, KeptBut
<1>4. segs[form.at] \in Segment
  BY <1>3
<1>5. segs[form.at].raw \in Source /\ l \in Layers
  BY <1>4 DEF Segment, Layers
<1>6. setLayerAttr(segs[form.at].raw, l) \in Source
  BY <1>5, LayerTyped
<1>7. KeptList(segs')
  BY <1>1, <1>3, <1>6, ReplaceKept DEF Emit
<1>8. value' \in Source /\ value' = serializeDoc(segs')
  BY <1>1, <1>7, SerializeTyped DEF KeptList, Emit
<1>9. cursor' \in Nat /\ edits' \in 0 .. MaxEdits
  BY <1>1, <1>2, CountsOn DEF DocInv, Emit
<1>. QED
  BY <1>1, <1>2, <1>7, <1>8, <1>9, Renewed

\* A step that emits a list of whole segments and keeps the place of the form.
LEMMA EmitKeeps ==
  ASSUME DocInv, NEW s, KeptList(s), Emit(s), typing' = 0, cursor' \in Nat,
         form' = FormAfter(form, segs')
  PROVE  DocInv'
<1>1. segs' = s /\ value' = serializeDoc(s) /\ edits < MaxEdits /\ edits' = edits + 1
  BY DEF Emit
<1>2. value' \in Source
  BY <1>1, SerializeTyped DEF KeptList
<1>3. edits' \in 0 .. MaxEdits
  BY <1>1, CountsOn DEF DocInv
<1>. QED
  BY <1>1, <1>2, <1>3, Renewed

LEMMA MoveKeeps == DocInv /\ MoveCard => DocInv'
<1>. SUFFICES ASSUME DocInv, MoveCard PROVE DocInv'
  OBVIOUS
<1>1. PICK i \in DOMAIN segs, j \in DOMAIN segs : Emit(moveSegment(segs, i, j))
  BY DEF MoveCard
<1>2. typing = 0 /\ typing' = 0 /\ cursor' = cursor /\ form' = FormAfter(form, segs')
  BY DEF MoveCard
<1>3. KeptList(segs) /\ DOMAIN segs = 1 .. Len(segs) /\ cursor' \in Nat
  BY <1>2, NoFocus DEF DocInv, KeptBut
<1>4. KeptList(moveSegment(segs, i, j))
  BY <1>3, MoveKept
<1>. QED
  BY <1>1, <1>2, <1>3, <1>4, EmitKeeps

LEMMA DragKeeps == DocInv /\ DragRow => DocInv'
<1>. SUFFICES ASSUME DocInv, DragRow PROVE DocInv'
  OBVIOUS
<1>1. PICK i \in DOMAIN segs, j \in DOMAIN segs :
         i # j /\ Emit(moveSegment(segs, i, IF i < j THEN j - 1 ELSE j))
  BY DEF DragRow
<1>2. typing = 0 /\ typing' = 0 /\ cursor' = cursor /\ form' = FormAfter(form, segs')
  BY DEF DragRow
<1>3. KeptList(segs) /\ DOMAIN segs = 1 .. Len(segs) /\ cursor' \in Nat
  BY <1>2, NoFocus DEF DocInv, KeptBut
<1>4. PICK k \in 1 .. Len(segs) : k = IF i < j THEN j - 1 ELSE j
  BY <1>3
<1>5. KeptList(moveSegment(segs, i, k))
  BY <1>3, MoveKept
<1>. QED
  BY <1>1, <1>2, <1>3, <1>4, <1>5, EmitKeeps

LEMMA RemoveKeeps == DocInv /\ RemoveCard => DocInv'
<1>. SUFFICES ASSUME DocInv, RemoveCard PROVE DocInv'
  OBVIOUS
<1>1. PICK i \in DOMAIN segs : Emit(RemoveAt(segs, i))
  BY DEF RemoveCard
<1>2. typing = 0 /\ typing' = 0 /\ cursor' = cursor /\ form' = FormAfter(form, segs')
  BY DEF RemoveCard
<1>3. KeptList(segs) /\ DOMAIN segs = 1 .. Len(segs) /\ cursor' \in Nat
  BY <1>2, NoFocus DEF DocInv, KeptBut
<1>4. KeptList(RemoveAt(segs, i))
  BY <1>3, RemoveKept
<1>. QED
  BY <1>1, <1>2, <1>3, <1>4, EmitKeeps

LEMMA InsertKeeps == DocInv /\ InsertSnippet => DocInv'
<1>. SUFFICES ASSUME DocInv, InsertSnippet PROVE DocInv'
  OBVIOUS
<1>. DEFINE n == Len(segs)
            at == IF cursor = 0 \/ cursor >= n THEN n + 1 ELSE cursor + 1
            apart == IF at = 1 \/ Last(segs[at - 1].raw) = Gap THEN segs
                     ELSE [segs EXCEPT ![at - 1].raw = Append(@, Gap)]
<1>1. PICK raw \in Snippets :
         Emit(insertSegmentAt(apart, at, Append(raw, Gap))) /\ cursor' = at
  BY DEF InsertSnippet
<1>2. typing = 0 /\ typing' = 0 /\ form' = FormAfter(form, segs')
  BY DEF InsertSnippet
<1>3. KeptList(segs) /\ segs \in Seq(Segment) /\ n \in Nat /\ cursor \in Nat
  BY <1>2, NoFocus DEF DocInv, KeptBut
<1>4. at \in 1 .. n + 1 /\ at \in Nat
  BY <1>3
<1>. HIDE DEF at
<1>5. KeptList(apart) /\ Len(apart) = n
  <2>1. CASE at = 1 \/ Last(segs[at - 1].raw) = Gap
    BY <1>3, <2>1
  <2>2. CASE ~(at = 1 \/ Last(segs[at - 1].raw) = Gap)
    <3>1. at - 1 \in 1 .. Len(segs)
      BY <1>3, <1>4, <2>2
    <3>2. KeptList([segs EXCEPT ![at - 1].raw = Append(@, Gap)])
      BY <1>3, <3>1, KeptBeforeGap
    <3>3. Len([segs EXCEPT ![at - 1].raw = Append(@, Gap)]) = Len(segs)
      BY <1>3
    <3>. QED
      BY <2>2, <3>2, <3>3
  <2>. QED
    BY <2>1, <2>2
<1>. HIDE DEF apart
<1>6. Append(raw, Gap) \in Source
  <2>1. raw \in Seq(Token) /\ Gap \in Token
    BY Inputs, TokensOf DEF Source
  <2>. QED
    BY <2>1 DEF Source
<1>7. KeptList(insertSegmentAt(apart, at, Append(raw, Gap)))
  BY <1>4, <1>5, <1>6, InsertKept
<1>8. cursor' \in Nat
  BY <1>1, <1>4
<1>. QED
  BY <1>1, <1>2, <1>7, <1>8, EmitKeeps

LEMMA ReloadKeeps == DocInv /\ Reload => DocInv'
<1>. SUFFICES ASSUME DocInv, Reload PROVE DocInv'
  OBVIOUS
<1>1. PICK d \in Texts : value' = d /\ segs' = parseDoc(d)
  BY DEF Reload
<1>2. /\ typing' = 0 /\ cursor' = cursor /\ form' = FormAfter(form, segs')
      /\ edits < MaxEdits /\ edits' = edits + 1
  BY DEF Reload
<1>3. d \in Source
  BY Inputs
<1>4. KeptList(segs') /\ value' \in Source /\ value' = serializeDoc(segs')
  BY <1>1, <1>3, ParseKept
<1>5. cursor' \in Nat /\ edits' \in 0 .. MaxEdits
  BY <1>2, CountsOn DEF DocInv
<1>. QED
  BY <1>2, <1>4, <1>5, Renewed

LEMMA SourceKeeps == DocInv /\ SourceMode => DocInv'
<1>. SUFFICES ASSUME DocInv, SourceMode PROVE DocInv'
  OBVIOUS
<1>1. /\ value' \in Texts \cup {value} /\ segs' = parseDoc(value') /\ typing' = 0 /\ cursor' = 0
      /\ form' = NoForm /\ edits < MaxEdits /\ edits' = edits + 1
  BY DEF SourceMode
<1>2. value' \in Source
  BY <1>1, Inputs DEF DocInv
<1>3. KeptList(segs') /\ value' = serializeDoc(segs')
  BY <1>1, <1>2, ParseKept
<1>4. KeptBut(segs', 0) /\ ShownList(segs') /\ 0 \in 0 .. Len(segs')
  BY <1>3, KeptShown
<1>5. edits' \in 0 .. MaxEdits
  BY <1>1, CountsOn DEF DocInv
<1>. QED
  BY <1>1, <1>2, <1>3, <1>4, <1>5, NoFormTyped DEF DocInv

LEMMA DocInvIsInductive == DocInv /\ [DocNext]_docVars => DocInv'
  BY DocStays, FocusKeeps, TypeKeeps, BlurKeeps, ExpandKeeps, CollapseKeeps, EditFormKeeps,
     LayerKeeps, MoveKeeps, DragKeeps, RemoveKeeps, InsertKeeps, ReloadKeeps, SourceKeeps
     DEF DocNext

LEMMA DocInvHolds == DocInv => DocTypeOK /\ RoundTrip /\ ProseIsProse /\ LayerIsOfRaw
<1>. SUFFICES ASSUME DocInv PROVE DocTypeOK /\ RoundTrip /\ ProseIsProse /\ LayerIsOfRaw
  OBVIOUS
<1>1. segs \in Seq(Segment) /\ DOMAIN segs = 1 .. Len(segs)
  BY DEF DocInv, KeptBut
<1>2. DocTypeOK
  <2>1. form \in [at : Nat, type : Heads \cup {""}, body : Source]
    BY DEF DocInv, FormOf, FormTyped
  <2>2. typing \in Nat
    BY <1>1 DEF DocInv
  <2>. QED
    BY <1>1, <2>1, <2>2 DEF DocInv, DocTypeOK, Segment, Source
<1>3. RoundTrip
  BY ParseKept DEF DocInv, RoundTrip
<1>4. ProseIsProse
  <2>1. ASSUME NEW i \in DOMAIN segs \ {typing}, segs[i].kind = "prose"
        PROVE  parseDoc(segs[i].raw) = <<segs[i]>>
    <3>1. Kept(segs[i])
      BY <1>1 DEF DocInv, KeptBut
    <3>2. segs[i] = Prose(segs[i].raw) /\ Plain(segs[i].raw)
      BY <2>1, <3>1, KeptProse, Zenon
    <3>3. parseDoc(segs[i].raw) = <<Prose(segs[i].raw)>>
      BY <3>2, PlainLemma
    <3>. QED
      BY <3>2, <3>3
  <2>. QED
    BY <2>1 DEF ProseIsProse
<1>5. LayerIsOfRaw
  BY <1>1 DEF DocInv, ShownList, WellShown, LayerIsOfRaw
<1>. QED
  BY <1>2, <1>3, <1>4, <1>5

-----------------------------------------------------------------------------
(***************************************************************************)
(* The directives of a list of segments, blank lines after them aside, and *)
(* the markers of a source without directives.                             *)
(***************************************************************************)

LEMMA GreatestOfSet ==
  ASSUME NEW S \in SUBSET Nat, S # {}, NEW n \in Nat, \A x \in S : x <= n
  PROVE  Max(S) \in S /\ \A y \in S : y <= Max(S)
<1>. DEFINE T == {n - x : x \in S}
<1>1. T \in SUBSET Nat /\ T # {}
  <2>1. \A x \in S : n - x \in Nat
    OBVIOUS
  <2>2. PICK x \in S : TRUE
    OBVIOUS
  <2>3. n - x \in T
    BY <2>2
  <2>. QED
    BY <2>1, <2>3
<1>2. PICK t \in T : \A y \in T : t <= y
  <2>. HIDE DEF T
  <2>. QED
    BY <1>1, LeastOfSet
<1>3. PICK m \in S : t = n - m
  BY <1>2
<1>4. \A y \in S : n - y \in T /\ y \in Nat
  OBVIOUS
<1>5. \A y \in S : m >= y
  <2>. HIDE DEF T
  <2>. QED
    BY <1>2, <1>3, <1>4
<1>6. Max(S) \in S /\ \A y \in S : Max(S) >= y
  BY <1>5 DEF Max
<1>. QED
  BY <1>6

\* The places of a source that are not blank lines.
NotGaps(raw) == {i \in DOMAIN raw : raw[i] # Gap}

LEMMA WithoutGapsLemma ==
  ASSUME NEW raw \in Source
  PROVE  /\ WithoutGaps(raw) \in Source
         /\ \E n \in 0 .. Len(raw) : /\ WithoutGaps(raw) = SubSeq(raw, 1, n)
                                     /\ n = Max({0} \cup NotGaps(raw))
<1>. DEFINE S == {0} \cup NotGaps(raw)
<1>1. raw \in Seq(Token) /\ Len(raw) \in Nat /\ DOMAIN raw = 1 .. Len(raw)
  BY DEF Source
<1>2. S \in SUBSET Nat /\ S # {} /\ \A x \in S : x <= Len(raw) /\ x \in 0 .. Len(raw)
  BY <1>1 DEF NotGaps
<1>3. Max(S) \in S
  <2>. HIDE DEF S
  <2>. QED
    BY <1>1, <1>2, GreatestOfSet
<1>4. WithoutGaps(raw) = SubSeq(raw, 1, Max(S))
  BY DEF WithoutGaps, NotGaps
<1>. HIDE DEF S
<1>5. PICK n \in 0 .. Len(raw) : n = Max(S)
  BY <1>2, <1>3
<1>6. SubSeq(raw, 1, n) \in Source
  <2>1. 1 \in 1 .. Len(raw) + 1 /\ n + 1 \in 1 .. Len(raw) + 1 /\ n + 1 - 1 = n
    BY <1>1
  <2>. QED
    BY <2>1, PartOfSource
<1>. QED
  BY <1>4, <1>5, <1>6 DEF S

\* A blank line at the end is left out.
LEMMA WithoutOneMore ==
  ASSUME NEW raw \in Source
  PROVE  WithoutGaps(Append(raw, Gap)) = WithoutGaps(raw)
<1>. DEFINE e == Append(raw, Gap)
<1>1. /\ raw \in Seq(Token) /\ Len(raw) \in Nat /\ Len(e) = Len(raw) + 1 /\ e[Len(raw) + 1] = Gap
      /\ (\A j \in 1 .. Len(raw) : e[j] = raw[j]) /\ e \in Seq(Token)
      /\ DOMAIN raw = 1 .. Len(raw) /\ DOMAIN e = 1 .. Len(raw) + 1
  BY TokensOf DEF Source
<1>. HIDE DEF e
<1>2. NotGaps(e) = NotGaps(raw)
  <2>1. \A j \in 1 .. Len(raw) + 1 : j \in 1 .. Len(raw) \/ j = Len(raw) + 1
    BY <1>1
  <2>2. \A j : j \in 1 .. Len(raw) => j \in 1 .. Len(raw) + 1
    BY <1>1
  <2>. QED
    BY <1>1, <2>1, <2>2 DEF NotGaps
<1>3. e \in Source
  BY <1>1 DEF Source
<1>4. PICK n \in 0 .. Len(raw) : WithoutGaps(raw) = SubSeq(raw, 1, n) /\ n = Max({0} \cup NotGaps(raw))
  BY WithoutGapsLemma
<1>5. WithoutGaps(e) = SubSeq(e, 1, n)
  BY <1>2, <1>3, <1>4, WithoutGapsLemma
<1>6. SubSeq(e, 1, n) = SubSeq(raw, 1, n)
  <2>1. n \in Nat /\ n <= Len(raw)
    BY <1>1
  <2>2. \A j \in 1 .. n : e[j] = raw[j]
    BY <1>1, <2>1
  <2>. QED
    BY <1>1, <2>1, <2>2
<1>. QED
  BY <1>4, <1>5, <1>6 DEF e

-----------------------------------------------------------------------------
(***************************************************************************)
(* What is gathered of the elements of a sequence, one after the other: f  *)
(* says what of each.                                                      *)
(***************************************************************************)
Reads(S, T) == [S -> Seq(T)]
Each(f, s) == [i \in DOMAIN s |-> f[s[i]]]
Gather(f, s) == FlattenSeq(Each(f, s))

\* What holds of the empty sequence, and of one with an element more, holds.
LEMMA ByAppend ==
  ASSUME NEW S, NEW P, << >> \in P,
         \A s \in Seq(S), x \in S : s \in P => Append(s, x) \in P
  PROVE  Seq(S) \subseteq P
<1>. SUFFICES ASSUME NEW s \in Seq(S) PROVE s \in P
  OBVIOUS
<1>. DEFINE n == Len(s)
            Q == {k \in Nat : k \in 0 .. n => SubSeq(s, 1, k) \in P}
<1>1. n \in Nat
  OBVIOUS
<1>2. 0 \in Q
  <2>1. SubSeq(s, 1, 0) = << >>
    OBVIOUS
  <2>. QED
    BY <2>1
<1>3. ASSUME NEW k \in 1 .. n, k - 1 \in Q PROVE k \in Q
  <2>1. k \in Nat /\ k - 1 \in 0 .. n
    BY <1>1
  <2>2. SubSeq(s, 1, k - 1) \in Seq(S) /\ s[k] \in S
        /\ SubSeq(s, 1, k) = Append(SubSeq(s, 1, k - 1), s[k])
    BY <1>1, <2>1
  <2>3. SubSeq(s, 1, k) \in P
    BY <1>3, <2>1, <2>2
  <2>. QED
    BY <2>1, <2>3
<1>. HIDE DEF Q
<1>4. \A k \in 0 .. n : k \in Q
  BY <1>1, <1>2, <1>3, UpTo
<1>5. SubSeq(s, 1, n) = s /\ n \in 0 .. n
  OBVIOUS
<1>. QED
  BY <1>4, <1>5 DEF Q

LEMMA EachTyped ==
  ASSUME NEW S, NEW T, NEW f \in Reads(S, T), NEW s \in Seq(S)
  PROVE  /\ Each(f, s) \in Seq(Seq(T)) /\ Len(Each(f, s)) = Len(s)
         /\ DOMAIN Each(f, s) = 1 .. Len(s)
         /\ \A i \in 1 .. Len(s) : Each(f, s)[i] = f[s[i]]
<1>1. Len(s) \in Nat /\ DOMAIN s = 1 .. Len(s) /\ \A i \in DOMAIN s : f[s[i]] \in Seq(T)
  BY DEF Reads
<1>. QED
  BY <1>1 DEF Each

LEMMA GatherTyped ==
  ASSUME NEW S, NEW T, NEW f \in Reads(S, T), NEW s \in Seq(S)
  PROVE  Gather(f, s) \in Seq(T)
<1>1. Each(f, s) \in Seq(Seq(T)) /\ << >> \in Seq(T)
  BY EachTyped
<1>. QED
  BY <1>1, FlattenAppend DEF Gather

LEMMA GatherEmpty ==
  ASSUME NEW f
  PROVE  Gather(f, << >>) = << >>
<1>1. Each(f, << >>) = << >>
  BY DEF Each
<1>. QED
  BY <1>1, FlattenEmpty DEF Gather

LEMMA GatherAppend ==
  ASSUME NEW S, NEW T, NEW f \in Reads(S, T), NEW s \in Seq(S), NEW x \in S
  PROVE  Gather(f, Append(s, x)) = Gather(f, s) \o f[x]
<1>1. Each(f, s) \in Seq(Seq(T)) /\ f[x] \in Seq(T)
  BY EachTyped DEF Reads
<1>2. Each(f, Append(s, x)) = Append(Each(f, s), f[x])
  BY DEF Each
<1>. QED
  BY <1>1, <1>2, FlattenAppend DEF Gather

LEMMA GatherOne ==
  ASSUME NEW S, NEW T, NEW f \in Reads(S, T), NEW x \in S
  PROVE  Gather(f, <<x>>) = f[x]
<1>1. << >> \in Seq(S) /\ Append(<< >>, x) = <<x>> /\ << >> \o f[x] = f[x]
  OBVIOUS
<1>. QED
  BY <1>1, GatherAppend, GatherEmpty

LEMMA GatherConcat ==
  ASSUME NEW S, NEW T, NEW f \in Reads(S, T), NEW s \in Seq(S), NEW r \in Seq(S)
  PROVE  Gather(f, s \o r) = Gather(f, s) \o Gather(f, r)
<1>. DEFINE P == {q \in Seq(S) : Gather(f, s \o q) = Gather(f, s) \o Gather(f, q)}
<1>1. << >> \in P
  <2>1. s \o << >> = s /\ << >> \in Seq(S)
    OBVIOUS
  <2>2. Gather(f, s) \o << >> = Gather(f, s)
    BY GatherTyped
  <2>. QED
    BY <2>1, <2>2, GatherEmpty
<1>2. ASSUME NEW q \in Seq(S), NEW x \in S, q \in P PROVE Append(q, x) \in P
  <2>1. s \o Append(q, x) = Append(s \o q, x) /\ s \o q \in Seq(S) /\ Append(q, x) \in Seq(S)
    OBVIOUS
  <2>2. /\ Gather(f, Append(s \o q, x)) = Gather(f, s \o q) \o f[x]
        /\ Gather(f, Append(q, x)) = Gather(f, q) \o f[x]
    BY <2>1, GatherAppend
  <2>3. (Gather(f, s) \o Gather(f, q)) \o f[x] = Gather(f, s) \o (Gather(f, q) \o f[x])
    <3>1. PICK u \in Seq(T), v \in Seq(T), y \in Seq(T) :
             u = Gather(f, s) /\ v = Gather(f, q) /\ y = f[x]
      BY GatherTyped DEF Reads
    <3>2. (u \o v) \o y = u \o (v \o y)
      BY SMTT(30)
    <3>. QED
      BY <3>1, <3>2
  <2>. QED
    BY <1>2, <2>1, <2>2, <2>3
<1>. HIDE DEF P
<1>3. r \in P
  BY <1>1, <1>2, ByAppend
<1>. QED
  BY <1>3 DEF P

\* An element first, and then the others.
LEMMA GatherFirst ==
  ASSUME NEW S, NEW T, NEW f \in Reads(S, T), NEW x \in S, NEW s \in Seq(S), NEW y, y = <<x>>
  PROVE  Gather(f, y \o s) = f[x] \o Gather(f, s)
<1>0. <<x>> \in Seq(S)
  OBVIOUS
<1>1. PICK r \in Seq(S) : r = <<x>>
  BY <1>0
<1>2. Gather(f, r \o s) = Gather(f, r) \o Gather(f, s)
  BY GatherConcat
<1>. QED
  BY <1>1, <1>2, GatherOne

LEMMA GatherSame ==
  ASSUME NEW S, NEW s \in Seq(S), NEW f, NEW g, \A i \in 1 .. Len(s) : f[s[i]] = g[s[i]]
  PROVE  Gather(f, s) = Gather(g, s)
<1>1. DOMAIN s = 1 .. Len(s)
  OBVIOUS
<1>2. Each(f, s) = Each(g, s)
  BY <1>1 DEF Each
<1>. QED
  BY <1>2 DEF Gather

LEMMA GatherNone ==
  ASSUME NEW S, NEW T, NEW f \in Reads(S, T), NEW s \in Seq(S),
         \A i \in 1 .. Len(s) : f[s[i]] = << >>
  PROVE  Gather(f, s) = << >>
<1>. DEFINE none == [x \in S |-> << >>]
            P == {q \in Seq(S) : Gather(none, q) = << >>}
<1>1. << >> \in Seq(T) /\ none \in Reads(S, T) /\ \A x \in S : none[x] = << >>
  BY DEF Reads
<1>. HIDE DEF none
<1>2. << >> \in P
  BY GatherEmpty
<1>3. ASSUME NEW q \in Seq(S), NEW x \in S, q \in P PROVE Append(q, x) \in P
  <2>1. Gather(none, Append(q, x)) = << >> \o none[x] /\ Append(q, x) \in Seq(S)
    BY <1>1, <1>3, GatherAppend
  <2>2. << >> \o << >> = << >>
    OBVIOUS
  <2>. QED
    BY <1>1, <2>1, <2>2
<1>. HIDE DEF P
<1>4. s \in P
  BY <1>2, <1>3, ByAppend
<1>5. \A i \in 1 .. Len(s) : f[s[i]] = none[s[i]]
  <2>1. \A i \in 1 .. Len(s) : s[i] \in S
    OBVIOUS
  <2>. QED
    BY <1>1, <2>1
<1>6. Gather(f, s) = Gather(none, s)
  BY <1>5, GatherSame
<1>. QED
  BY <1>4, <1>6 DEF P

\* To gather from what was gathered.
Composed(A, a, b, c) == \A x \in A : c[x] = Gather(b, a[x])

LEMMA GatherTwice ==
  ASSUME NEW A, NEW B, NEW C, NEW a \in Reads(A, B), NEW b \in Reads(B, C), NEW s \in Seq(A),
         NEW c \in Reads(A, C), Composed(A, a, b, c)
  PROVE  Gather(b, Gather(a, s)) = Gather(c, s)
<1>. DEFINE P == {q \in Seq(A) : Gather(b, Gather(a, q)) = Gather(c, q)}
<1>0. \A u, v \in Seq(B) : Gather(b, u \o v) = Gather(b, u) \o Gather(b, v)
  BY GatherConcat
<1>1. << >> \in P
  <2>1. << >> \in Seq(A)
    OBVIOUS
  <2>. QED
    BY <2>1, GatherEmpty
<1>2. ASSUME NEW q \in Seq(A), NEW x \in A, q \in P PROVE Append(q, x) \in P
  <2>1. a[x] \in Seq(B) /\ Append(q, x) \in Seq(A)
    BY DEF Reads
  <2>2. Gather(a, q) \in Seq(B)
    BY GatherTyped
  <2>3. PICK u \in Seq(B), v \in Seq(B) : u = Gather(a, q) /\ v = a[x]
    BY <2>1, <2>2
  <2>4. Gather(a, Append(q, x)) = u \o v
    BY <2>3, GatherAppend
  <2>. HIDE DEF P
  <2>5. Gather(b, u \o v) = Gather(b, u) \o Gather(b, v)
    BY <1>0
  <2>6. Gather(c, Append(q, x)) = Gather(c, q) \o c[x]
    BY GatherAppend
  <2>7. Gather(b, u) = Gather(c, q) /\ Gather(b, v) = c[x]
    BY <1>2, <2>3 DEF P, Composed
  <2>. QED
    BY <2>1, <2>3, <2>4, <2>5, <2>6, <2>7 DEF P
<1>. HIDE DEF P
<1>3. s \in P
  BY <1>1, <1>2, ByAppend
<1>. QED
  BY <1>3 DEF P

LEMMA InSequence ==
  ASSUME NEW T, NEW u \in Seq(T), NEW v \in Seq(T), NEW w \in Seq(T)
  PROVE  (u \o v) \o w = u \o (v \o w) /\ << >> \o u = u /\ u \o << >> = u /\ u \o v \in Seq(T)
  BY SMTT(30)

-----------------------------------------------------------------------------
LEMMA PartFirst ==
  ASSUME NEW d \in Source, NEW p \in 1 .. Len(d), NEW q \in p + 1 .. Len(d) + 1
  PROVE  LET e == SubSeq(d, p, q - 1)
         IN /\ e \in Source /\ e # << >> /\ e[1] = d[p]
            /\ SubSeq(e, 2, Len(e)) = SubSeq(d, p + 1, q - 1)
<1>. DEFINE e == SubSeq(d, p, q - 1)
            r == SubSeq(d, p + 1, q - 1)
<1>1. /\ Len(d) \in Nat /\ p \in Nat /\ q \in Nat /\ p \in 1 .. Len(d) + 1 /\ q \in p .. Len(d) + 1
      /\ p + 1 \in 1 .. Len(d) + 1 /\ q - p \in Nat /\ 1 \in 1 .. q - p
  BY DEF Source
<1>2. e \in Source /\ Len(e) = q - p /\ \A j \in 1 .. q - p : e[j] = d[p - 1 + j]
  BY <1>1, PartOfSource
<1>3. r \in Source /\ Len(r) = q - (p + 1) /\ \A j \in 1 .. q - (p + 1) : r[j] = d[p + 1 - 1 + j]
  BY <1>1, PartOfSource
<1>. HIDE DEF e, r
<1>4. e # << >> /\ e[1] = d[p]
  <2>1. p - 1 + 1 = p /\ Len(e) # 0
    BY <1>1, <1>2
  <2>. QED
    BY <1>1, <1>2, <2>1
<1>5. SubSeq(e, 2, Len(e)) = r
  <2>1. PICK m \in Nat : m = q - p /\ m >= 1
    BY <1>1
  <2>2. 2 \in 1 .. Len(e) + 1 /\ m + 1 \in 2 .. Len(e) + 1 /\ m + 1 - 1 = m /\ m + 1 - 2 = m - 1
        /\ 2 - 1 = 1
    BY <1>2, <2>1
  <2>3. /\ SubSeq(e, 2, m) \in Source /\ Len(SubSeq(e, 2, m)) = m - 1
        /\ \A j \in 1 .. m - 1 : SubSeq(e, 2, m)[j] = e[1 + j]
    <3>1. PICK a \in 1 .. Len(e) + 1, k \in 2 .. Len(e) + 1 : a = 2 /\ k = m + 1
      BY <2>2
    <3>2. k \in a .. Len(e) + 1
      BY <3>1
    <3>3. /\ SubSeq(e, a, k - 1) \in Source /\ Len(SubSeq(e, a, k - 1)) = k - a
          /\ \A j \in 1 .. k - a : SubSeq(e, a, k - 1)[j] = e[a - 1 + j]
      BY <1>2, <3>2, PartOfSource
    <3>4. k - 1 = m /\ k - a = m - 1 /\ a - 1 = 1 /\ a = 2
      BY <2>1, <3>1
    <3>. QED
      BY <3>3, <3>4
  <2>4. PICK c \in Seq(Token), b \in Seq(Token) : c = SubSeq(e, 2, m) /\ b = r
    BY <1>3, <2>3 DEF Source
  <2>5. Len(c) = Len(b) /\ Len(b) = m - 1
    BY <1>1, <1>3, <2>1, <2>3, <2>4
  <2>6. ASSUME NEW j \in 1 .. m - 1 PROVE c[j] = b[j]
    <3>1. j \in 1 .. q - (p + 1) /\ p + 1 - 1 + j = p - 1 + (1 + j) /\ 1 + j \in 1 .. q - p
      BY <1>1, <2>1
    <3>2. c[j] = e[1 + j] /\ b[j] = d[p + 1 - 1 + j] /\ e[1 + j] = d[p - 1 + (1 + j)]
      BY <1>2, <1>3, <2>3, <2>4, <3>1
    <3>. QED
      BY <3>1, <3>2
  <2>7. c = [j \in 1 .. Len(c) |-> c[j]] /\ b = [j \in 1 .. Len(b) |-> b[j]]
    OBVIOUS
  <2>8. c = b
    BY <2>5, <2>6, <2>7
  <2>. QED
    BY <1>2, <2>1, <2>4, <2>8
<1>. QED
  BY <1>2, <1>4, <1>5 DEF e, r

-----------------------------------------------------------------------------
(***************************************************************************)
(* What is told of the segments that a source is cut into, when nothing is *)
(* told of prose: first what is told of the token or of the directive that *)
(* stands at a place, and then what is told from the place after it on.    *)
(***************************************************************************)
Telling(V, f) ==
    /\ f \in Reads(Segment, V)
    /\ \A g \in Segment : g.kind = "prose" => f[g] = << >>

\* What is told of a token of no directive.
ToldOfToken(f) == [t \in Token |-> IF t = Mark THEN f[Directive(<<Mark>>)] ELSE << >>]

LEMMA TellingIs ==
  ASSUME NEW V, NEW f, Telling(V, f)
  PROVE  /\ f \in Reads(Segment, V) /\ ToldOfToken(f) \in Reads(Token, V)
         /\ \A g \in Segment : f[g] \in Seq(V)
         /\ \A t \in Token : ToldOfToken(f)[t] \in Seq(V)
         /\ \A s \in Seq(Segment), g \in Segment : Gather(f, Append(s, g)) = Gather(f, s) \o f[g]
         /\ \A u, v \in Seq(Segment) : Gather(f, u \o v) = Gather(f, u) \o Gather(f, v)
         /\ \A s \in Seq(Segment) : Gather(f, s) \in Seq(V)
<1>1. f \in Reads(Segment, V) /\ \A g \in Segment : f[g] \in Seq(V)
  BY DEF Telling, Reads
<1>2. \A t \in Token : ToldOfToken(f)[t] \in Seq(V)
  <2>1. Directive(<<Mark>>) \in Segment /\ << >> \in Seq(V)
    BY MarkIsSegment
  <2>. QED
    BY <1>1, <2>1 DEF ToldOfToken
<1>3. ToldOfToken(f) \in Reads(Token, V)
  BY <1>2 DEF Reads, ToldOfToken
<1>4. \A s \in Seq(Segment), g \in Segment : Gather(f, Append(s, g)) = Gather(f, s) \o f[g]
  BY <1>1, GatherAppend
<1>5. \A u, v \in Seq(Segment) : Gather(f, u \o v) = Gather(f, u) \o Gather(f, v)
  BY <1>1, GatherConcat
<1>6. \A s \in Seq(Segment) : Gather(f, s) \in Seq(V)
  BY <1>1, GatherTyped
<1>. QED
  BY <1>1, <1>2, <1>3, <1>4, <1>5, <1>6

LEMMA OneMoreTold ==
  ASSUME NEW V, NEW f, Telling(V, f), NEW out \in Seq(Segment), NEW t \in Token
  PROVE  Gather(f, SplitOneMore(out, t)) = Gather(f, out) \o ToldOfToken(f)[t]
<1>1. PICK u \in Seq(V) : u = Gather(f, out)
  BY TellingIs
<1>2. u \o << >> = u
  OBVIOUS
<1>3. \A raw \in Source : Prose(raw) \in Segment /\ Prose(raw).kind = "prose" /\ f[Prose(raw)] = << >>
  <2>1. \A raw \in Source : Prose(raw) \in Segment /\ Prose(raw).kind = "prose"
    BY MarkIsSegment DEF Prose
  <2>. QED
    BY <2>1 DEF Telling
<1>4. CASE t = Mark
  <2>1. Directive(<<Mark>>) \in Segment
    BY MarkIsSegment
  <2>2. SplitOneMore(out, t) = Append(out, Directive(<<Mark>>))
    BY <1>4 DEF SplitOneMore
  <2>3. Gather(f, Append(out, Directive(<<Mark>>))) = Gather(f, out) \o f[Directive(<<Mark>>)]
    BY <2>1, TellingIs
  <2>. QED
    BY <1>4, <2>2, <2>3 DEF ToldOfToken
<1>5. CASE t # Mark /\ out # << >> /\ Last(out).kind = "prose"
  <2>1. PICK front \in Seq(Segment), last \in Segment :
           front = Front(out) /\ last = Last(out) /\ out = Append(front, last)
    BY <1>5, FrontLast
  <2>8. last.raw \in Source
    BY DEF Segment
  <2>2. Append(last.raw, t) \in Source
    BY <2>8 DEF Source
  <2>3. PICK more \in Segment : more = Prose(Append(last.raw, t)) /\ f[more] = << >>
    BY <1>3, <2>2
  <2>4. f[last] = << >>
    BY <1>5, <2>1 DEF Telling
  <2>5. SplitOneMore(out, t) = Append(front, more)
    BY <1>5, <2>1, <2>3 DEF SplitOneMore
  <2>6. /\ Gather(f, Append(front, more)) = Gather(f, front) \o f[more]
        /\ Gather(f, Append(front, last)) = Gather(f, front) \o f[last]
    BY TellingIs
  <2>7. ToldOfToken(f)[t] = << >>
    BY <1>5 DEF ToldOfToken
  <2>. QED
    BY <1>1, <1>2, <2>1, <2>3, <2>4, <2>5, <2>6, <2>7
<1>6. CASE t # Mark /\ ~(out # << >> /\ Last(out).kind = "prose")
  <2>1. SplitOneMore(out, t) = Append(out, Prose(<<t>>))
    BY <1>6 DEF SplitOneMore
  <2>2. <<t>> \in Source
    BY DEF Source
  <2>3. Gather(f, Append(out, Prose(<<t>>))) = Gather(f, out) \o f[Prose(<<t>>)]
    BY <1>3, <2>2, TellingIs
  <2>. QED
    BY <1>3, <1>6, <2>1, <2>2, <2>3 DEF ToldOfToken
<1>. QED
  BY <1>4, <1>5, <1>6

\* Of a source without directives the markers are told.
LEMMA SplitTold ==
  ASSUME NEW V, NEW f, Telling(V, f), NEW s \in Source
  PROVE  Gather(f, SplitProse(s)) = Gather(ToldOfToken(f), s)
<1>. DEFINE g == CHOOSE h : SplitAt(s, h)
            m == ToldOfToken(f)
            n == Len(s)
            P == {k \in Nat : k \in 0 .. n => /\ g[k] \in Seq(Segment)
                                              /\ Gather(f, g[k]) = Gather(m, SubSeq(s, 1, k))}
<1>1. SplitAt(s, g) /\ n \in Nat
  BY SplitExists DEF Source
<1>2. SplitProse(s) = g[n]
  BY DEF SplitProse, SplitAt
<1>3. m \in Reads(Token, V)
  BY TellingIs
<1>. HIDE DEF g, m
<1>4. 0 \in P
  <2>1. g[0] = << >>
    BY <1>1 DEF SplitAt
  <2>2. SubSeq(s, 1, 0) = << >> /\ << >> \in Seq(Segment)
    BY DEF Source
  <2>. QED
    BY <2>1, <2>2, GatherEmpty
<1>5. ASSUME NEW k \in 1 .. n, k - 1 \in P PROVE k \in P
  <2>1. k \in 0 .. n /\ k - 1 \in 0 .. n /\ k # 0 /\ k \in Nat /\ s \in Seq(Token)
    BY <1>1 DEF Source
  <2>2. g[k - 1] \in Seq(Segment) /\ Gather(f, g[k - 1]) = Gather(m, SubSeq(s, 1, k - 1))
    BY <1>5, <2>1
  <2>3. g[k] = SplitOneMore(g[k - 1], s[k]) /\ s[k] \in Token
    BY <1>1, <2>1 DEF SplitAt
  <2>8. SubSeq(s, 1, k - 1) \in Seq(Token) /\ SubSeq(s, 1, k) = Append(SubSeq(s, 1, k - 1), s[k])
    BY <1>1, <2>1
  <2>4. PICK before \in Seq(Token), t \in Token :
           before = SubSeq(s, 1, k - 1) /\ t = s[k] /\ SubSeq(s, 1, k) = Append(before, t)
    BY <2>3, <2>8
  <2>5. g[k] \in Seq(Segment)
    BY <2>2, <2>3, SplitTyped
  <2>6. Gather(f, g[k]) = Gather(f, g[k - 1]) \o m[t]
    BY <2>2, <2>3, <2>4, OneMoreTold DEF m
  <2>7. Gather(m, Append(before, t)) = Gather(m, before) \o m[t]
    BY <1>3, GatherAppend
  <2>. QED
    BY <2>1, <2>2, <2>4, <2>5, <2>6, <2>7
<1>. HIDE DEF P
<1>6. \A k \in 0 .. n : k \in P
  <2>1. PICK m1 \in Nat : m1 = n
    BY <1>1
  <2>. HIDE DEF n
  <2>2. \A k \in 0 .. m1 : k \in P
    BY <1>4, <1>5, <2>1, UpTo
  <2>. QED
    BY <2>1, <2>2
<1>7. n \in P /\ n \in 0 .. n
  BY <1>1, <1>6
<1>8. SubSeq(s, 1, n) = s
  BY DEF Source
<1>. QED
  BY <1>2, <1>7, <1>8 DEF P, m

LEMMA SplitNone == SplitProse(<< >>) = << >>
<1>1. << >> \in Source /\ Len(<< >>) = 0
  BY DEF Source
<1>2. PICK h : SplitAt(<< >>, h) /\ h = CHOOSE g : SplitAt(<< >>, g)
  BY <1>1, SplitExists
<1>3. SplitProse(<< >>) = h[0]
  BY <1>1, <1>2 DEF SplitProse, SplitAt
<1>. QED
  BY <1>1, <1>2, <1>3 DEF SplitAt

TextFrom(f, d, p, r) ==
    /\ SplitProse(SubSeq(d, p, r)) \in Seq(Segment)
    /\ SplitProse(SubSeq(d, p + 1, r)) \in Seq(Segment)
    /\ Gather(f, SplitProse(SubSeq(d, p, r)))
       = ToldOfToken(f)[d[p]] \o Gather(f, SplitProse(SubSeq(d, p + 1, r)))

\* The text from p to r, which no directive begins in.
LEMMA PartTold ==
  ASSUME NEW V, NEW f, Telling(V, f), NEW d \in Source, NEW p \in 1 .. Len(d)
  PROVE  \A r \in p .. Len(d) : TextFrom(f, d, p, r)
<1>. SUFFICES ASSUME NEW r \in p .. Len(d) PROVE TextFrom(f, d, p, r)
  OBVIOUS
<1>. DEFINE m == ToldOfToken(f)
<1>1. /\ Len(d) \in Nat /\ p \in Nat /\ p \in 1 .. Len(d) + 1 /\ p + 1 \in 1 .. Len(d) + 1
      /\ p + 1 - 1 = p /\ d[p] \in Token /\ r \in Nat
  BY DEF Source
<1>0. PICK q \in p + 1 .. Len(d) + 1 : q = r + 1 /\ q - 1 = r /\ q \in p .. Len(d) + 1
  BY <1>1
<1>2. PICK a \in Source, b \in Source : a = SubSeq(d, p, q - 1) /\ b = SubSeq(d, p + 1, q - 1)
  BY <1>0, <1>1, PartOfSource
<1>3. a = <<d[p]>> \o b
  <2>1. a # << >> /\ a[1] = d[p] /\ SubSeq(a, 2, Len(a)) = b
    BY <1>2, PartFirst
  <2>2. a \in Seq(Token)
    BY DEF Source
  <2>3. PICK t \in Token : t = d[p]
    BY <1>1
  <2>4. \A j \in 1 .. Len(a) : a[j] = (<<a[1]>> \o SubSeq(a, 2, Len(a)))[j]
    BY <2>1, <2>2
  <2>5. PICK c \in Seq(Token) : c = <<t>> \o b
    <3>1. <<t>> \o b \in Seq(Token)
      BY DEF Source
    <3>. QED
      BY <3>1
  <2>6. Len(c) = Len(a)
    <3>1. Len(c) = 1 + Len(b) /\ Len(b) = Len(a) - 1 /\ Len(a) \in Nat
      BY <1>2, <2>1, <2>2, <2>5 DEF Source
    <3>. QED
      BY <3>1
  <2>7. c = [j \in 1 .. Len(c) |-> c[j]] /\ a = [j \in 1 .. Len(a) |-> a[j]]
    BY <2>2
  <2>8. \A j \in 1 .. Len(a) : a[j] = c[j]
    BY <2>1, <2>3, <2>4, <2>5
  <2>9. a = c
    BY <2>6, <2>7, <2>8
  <2>. QED
    BY <2>3, <2>5, <2>9
<1>4. m \in Reads(Token, V)
  BY TellingIs
<1>. HIDE DEF m
<1>5. Gather(m, a) = m[d[p]] \o Gather(m, b)
  <2>1. PICK t \in Token, c \in Seq(Token) : t = d[p] /\ c = b
    BY <1>1 DEF Source
  <2>2. \A y : y = <<t>> => Gather(m, y \o c) = m[t] \o Gather(m, c)
    BY <1>4, GatherFirst
  <2>. QED
    BY <1>3, <2>1, <2>2
<1>6. Gather(f, SplitProse(a)) = Gather(m, a) /\ Gather(f, SplitProse(b)) = Gather(m, b)
  BY SplitTold DEF m
<1>7. SplitProse(a) \in Seq(Segment) /\ SplitProse(b) \in Seq(Segment)
  BY SplitLemma DEF Cut
<1>. QED
  BY <1>0, <1>2, <1>5, <1>6, <1>7 DEF m, TextFrom

\* From p on, when no directive begins at p.
LEMMA TokenTold ==
  ASSUME NEW V, NEW f, Telling(V, f), NEW d \in Source, NEW g, ParseAt(d, g),
         NEW p \in 1 .. Len(d), EndOf(d, p) = 0
  PROVE  Gather(f, g[p]) = ToldOfToken(f)[d[p]] \o Gather(f, g[p + 1])
<1>0. \A q \in p .. Len(d) : TextFrom(f, d, p, q)
  BY PartTold
<1>8. \A x, y, z \in Seq(V) : (x \o y) \o z = x \o (y \o z)
  BY InSequence
<1>. DEFINE n == Len(d)
            i == NextHead(d, p)
<1>1. n \in Nat /\ p \in 1 .. n + 1 /\ p + 1 \in 1 .. n + 1 /\ p \in Nat /\ d[p] \in Token
  BY DEF Source
<1>2. NextHead(d, p + 1) = i
  <2>1. {j \in p .. n : EndOf(d, j) # 0} = {j \in p + 1 .. n : EndOf(d, j) # 0}
    <3>1. \A j : j \in p .. n <=> j = p \/ j \in p + 1 .. n
      BY <1>1
    <3>. QED
      BY <3>1
  <2>. QED
    BY <2>1 DEF NextHead
<1>3. g[p] = ParseFrom(d, g, p) /\ g[p + 1] = ParseFrom(d, g, p + 1)
  BY <1>1 DEF ParseAt
<1>4. PICK w \in Seq(V) : w = ToldOfToken(f)[d[p]]
  BY <1>1, TellingIs
<1>7. /\ \A x, y, z \in Seq(V) : (x \o y) \o z = x \o (y \o z)
      /\ \A q \in p .. Len(d) :
            /\ SplitProse(SubSeq(d, p, q)) \in Seq(Segment)
            /\ SplitProse(SubSeq(d, p + 1, q)) \in Seq(Segment)
            /\ Gather(f, SplitProse(SubSeq(d, p, q)))
               = w \o Gather(f, SplitProse(SubSeq(d, p + 1, q)))
  BY <1>0, <1>4, <1>8 DEF TextFrom
<1>. HIDE DEF i
<1>5. CASE i = 0
  <2>1. n \in p .. Len(d)
    BY <1>1
  <2>2. g[p] = SplitProse(SubSeq(d, p, n)) /\ g[p + 1] = SplitProse(SubSeq(d, p + 1, n))
    BY <1>2, <1>3, <1>5 DEF ParseFrom, i
  <2>3. Gather(f, SplitProse(SubSeq(d, p, n))) = w \o Gather(f, SplitProse(SubSeq(d, p + 1, n)))
    BY <1>7, <2>1
  <2>. QED
    BY <1>4, <2>2, <2>3
<1>6. CASE i # 0
  <2>1. i \in p + 1 .. n /\ EndOf(d, i) \in i + 1 .. n + 1
    BY <1>1, <1>2, <1>6, NextHeadLemma
  <2>2. i - 1 \in p .. Len(d) /\ i \in 1 .. Len(d) /\ EndOf(d, i) # 0 /\ EndOf(d, i) \in 1 .. Len(d) + 1
    BY <1>1, <2>1
  <2>3. PICK a \in Seq(Segment), b \in Seq(Segment) :
           /\ a = SplitProse(SubSeq(d, p, i - 1)) /\ b = SplitProse(SubSeq(d, p + 1, i - 1))
           /\ Gather(f, a) = w \o Gather(f, b)
    BY <1>7, <2>2
  <2>4. PICK x \in Segment : x = Directive(SubSeq(d, i, EndOf(d, i) - 1))
    BY <2>2, DirectiveIsSegment
  <2>5. PICK y \in Seq(Segment) : y = g[EndOf(d, i)]
    BY <2>2, ParsedFrom DEF Parsed
  <2>6. g[p] = a \o <<x>> \o y /\ g[p + 1] = b \o <<x>> \o y
    BY <1>2, <1>3, <1>6, <2>3, <2>4, <2>5 DEF ParseFrom, i
  <2>7. PICK z \in Seq(Segment) : z = <<x>> \o y
    <3>1. <<x>> \o y \in Seq(Segment)
      OBVIOUS
    <3>. QED
      BY <3>1
  <2>8. g[p] = a \o z /\ g[p + 1] = b \o z
    <3>1. ASSUME NEW u \in Seq(Segment) PROVE u \o <<x>> \o y = u \o (<<x>> \o y)
      BY SMTT(30)
    <3>. QED
      BY <2>6, <2>7, <3>1
  <2>9. /\ Gather(f, a \o z) = Gather(f, a) \o Gather(f, z)
        /\ Gather(f, b \o z) = Gather(f, b) \o Gather(f, z)
    BY TellingIs
  <2>10. PICK v \in Seq(V), r \in Seq(V) : v = Gather(f, b) /\ r = Gather(f, z)
    BY TellingIs
  <2>11. (w \o v) \o r = w \o (v \o r)
    BY <1>7
  <2>. QED
    BY <1>4, <2>3, <2>8, <2>9, <2>10, <2>11
<1>. QED
  BY <1>5, <1>6

\* From p on, when a directive begins at p.
LEMMA DirectiveTold ==
  ASSUME NEW V, NEW f, Telling(V, f), NEW d \in Source, NEW g, ParseAt(d, g),
         NEW p \in 1 .. Len(d), EndOf(d, p) # 0
  PROVE  Gather(f, g[p]) = f[Directive(SubSeq(d, p, EndOf(d, p) - 1))] \o Gather(f, g[EndOf(d, p)])
<1>. DEFINE n == Len(d)
            S == {j \in p .. n : EndOf(d, j) # 0}
<1>1. n \in Nat /\ p \in 1 .. n + 1 /\ p \in Nat /\ EndOf(d, p) \in p + 1 .. n + 1
  BY EndsAfter DEF Source
<1>2. NextHead(d, p) = p
  <2>1. S \in SUBSET Nat /\ 0 \notin S /\ p \in S /\ \A j \in S : p <= j /\ j \in Nat
    BY <1>1
  <2>2. NextHead(d, p) = First(S)
    BY DEF NextHead
  <2>. HIDE DEF S
  <2>3. First(S) \in S /\ First(S) <= p
    BY <2>1, FirstLemma
  <2>4. PICK h \in S : h = First(S)
    BY <2>3
  <2>5. h \in Nat /\ h <= p /\ p <= h
    BY <2>1, <2>3, <2>4
  <2>6. h = p
    BY <1>1, <2>5
  <2>. QED
    BY <2>2, <2>4, <2>6
<1>3. PICK x \in Segment : x = Directive(SubSeq(d, p, EndOf(d, p) - 1))
  BY DirectiveIsSegment
<1>4. PICK y \in Seq(Segment) : y = g[EndOf(d, p)]
  <2>1. EndOf(d, p) \in 1 .. Len(d) + 1
    BY <1>1
  <2>. QED
    BY <2>1, ParsedFrom DEF Parsed
<1>5. g[p] = << >> \o <<x>> \o y
  <2>1. g[p] = ParseFrom(d, g, p) /\ p # 0
    BY <1>1 DEF ParseAt
  <2>2. g[p] = SplitProse(SubSeq(d, p, p - 1)) \o <<x>> \o y
    BY <1>2, <1>3, <1>4, <2>1 DEF ParseFrom
  <2>3. SubSeq(d, p, p - 1) = << >>
    BY <1>1, SubSeqEmpty
  <2>. QED
    BY <2>2, <2>3, SplitNone
<1>6. PICK z \in Seq(Segment) : z = <<x>>
  <2>1. <<x>> \in Seq(Segment)
    OBVIOUS
  <2>. QED
    BY <2>1
<1>7. g[p] = z \o y
  <2>1. << >> \o z = z
    OBVIOUS
  <2>. QED
    BY <1>5, <1>6, <2>1
<1>8. Gather(f, z \o y) = Gather(f, z) \o Gather(f, y)
  BY TellingIs
<1>9. Gather(f, z) = f[x]
  BY <1>6, TellingIs, GatherOne
<1>. QED
  BY <1>3, <1>4, <1>7, <1>8, <1>9

-----------------------------------------------------------------------------
(***************************************************************************)
(* The directives of a list of segments, blank lines after them aside: a   *)
(* telling, of which a token of no directive is told when it is a marker.  *)
(***************************************************************************)
Own(g) == IF g.kind = "directive" THEN <<WithoutGaps(g.raw)>> ELSE << >>
OwnOf == [g \in Segment |-> Own(g)]
MarkOf(t) == IF t = Mark THEN << <<Mark>> >> ELSE << >>

LEMMA MarkAlone == WithoutGaps(<<Mark>>) = <<Mark>> /\ <<Mark>> \in Source
<1>1. <<Mark>> \in Seq(Token) /\ Mark \in Token
  BY TokensOf
<1>2. Mark # Gap
  <2>1. Gap.k = "gap" /\ Mark.k = "mark"
    BY DEF Gap, Mark, Tok
  <2>. QED
    BY <2>1
<1>3. NotGaps(<<Mark>>) = {1}
  <2>1. DOMAIN <<Mark>> = {1} /\ <<Mark>>[1] = Mark
    OBVIOUS
  <2>. QED
    BY <1>2, <2>1 DEF NotGaps
<1>4. Max({0} \cup {1}) = 1
  BY DEF Max
<1>5. SubSeq(<<Mark>>, 1, 1) = <<Mark>>
  <2>1. PICK q \in Seq(Token) : q = <<Mark>>
    BY <1>1
  <2>2. Len(q) = 1
    BY <2>1
  <2>3. SubSeq(q, 1, Len(q)) = q
    OBVIOUS
  <2>. QED
    BY <2>1, <2>2, <2>3
<1>. QED
  BY <1>1, <1>3, <1>4, <1>5, WithoutGapsLemma DEF Source

LEMMA OwnTyped ==
  ASSUME NEW g \in Segment
  PROVE  Own(g) \in Seq(Source)
<1>1. WithoutGaps(g.raw) \in Source
  BY WithoutGapsLemma DEF Segment
<1>. QED
  BY <1>1 DEF Own

LEMMA OwnIsTold ==
  /\ Telling(Source, OwnOf) /\ \A g \in Segment : OwnOf[g] = Own(g)
  /\ \A t \in Token : ToldOfToken(OwnOf)[t] = MarkOf(t)
<1>1. OwnOf \in Reads(Segment, Source) /\ \A g \in Segment : OwnOf[g] = Own(g)
  BY OwnTyped DEF OwnOf, Reads
<1>2. \A g \in Segment : g.kind = "prose" => OwnOf[g] = << >>
  BY <1>1 DEF Own
<1>3. OwnOf[Directive(<<Mark>>)] = << <<Mark>> >>
  <2>1. Directive(<<Mark>>) \in Segment
    BY MarkIsSegment
  <2>2. Own(Directive(<<Mark>>)) = <<WithoutGaps(<<Mark>>)>>
    BY DEF Own, Directive
  <2>. QED
    BY <1>1, <2>1, <2>2, MarkAlone
<1>. QED
  BY <1>1, <1>2, <1>3 DEF Telling, ToldOfToken, MarkOf

LEMMA DirectivesTold ==
  ASSUME NEW s \in Seq(Segment)
  PROVE  Directives(s) = Gather(OwnOf, s)
<1>1. \A i \in DOMAIN s : OwnOf[s[i]] = Own(s[i])
  BY OwnIsTold
<1>2. [i \in DOMAIN s |-> IF s[i].kind = "directive" THEN <<WithoutGaps(s[i].raw)>> ELSE << >>]
      = Each(OwnOf, s)
  BY <1>1 DEF Each, Own
<1>. QED
  BY <1>2 DEF Directives, Gather

LEMMA DirectivesTyped ==
  ASSUME NEW s \in Seq(Segment)
  PROVE  Directives(s) \in Seq(Source)
  BY DirectivesTold, OwnIsTold, TellingIs

LEMMA DirectivesEmpty == Directives(<< >>) = << >>
<1>1. << >> \in Seq(Segment)
  OBVIOUS
<1>. QED
  BY <1>1, DirectivesTold, GatherEmpty

LEMMA DirectivesAppend ==
  ASSUME NEW s \in Seq(Segment), NEW g \in Segment
  PROVE  Directives(s) \in Seq(Source) /\ Directives(Append(s, g)) = Directives(s) \o Own(g)
<1>1. Append(s, g) \in Seq(Segment)
  OBVIOUS
<1>2. Gather(OwnOf, Append(s, g)) = Gather(OwnOf, s) \o OwnOf[g]
  BY OwnIsTold, TellingIs
<1>. QED
  BY <1>1, <1>2, DirectivesTold, DirectivesTyped, OwnIsTold

LEMMA DirectivesConcat ==
  ASSUME NEW s \in Seq(Segment), NEW r \in Seq(Segment)
  PROVE  Directives(s \o r) = Directives(s) \o Directives(r)
<1>1. s \o r \in Seq(Segment)
  OBVIOUS
<1>2. Gather(OwnOf, s \o r) = Gather(OwnOf, s) \o Gather(OwnOf, r)
  BY OwnIsTold, TellingIs
<1>. QED
  BY <1>1, <1>2, DirectivesTold

TellsTokens(f, d, g) ==
    \A p \in 1 .. Len(d) :
       EndOf(d, p) = 0 => Gather(f, g[p]) = ToldOfToken(f)[d[p]] \o Gather(f, g[p + 1])

LEMMA TokensTold ==
  ASSUME NEW V, NEW f, Telling(V, f), NEW d \in Source, NEW g, ParseAt(d, g)
  PROVE  TellsTokens(f, d, g)
<1>1. \A p \in 1 .. Len(d) :
         EndOf(d, p) = 0 => Gather(f, g[p]) = ToldOfToken(f)[d[p]] \o Gather(f, g[p + 1])
  BY TokenTold, ZenonT(60)
<1>. QED
  BY <1>1 DEF TellsTokens

\* What is read from p on, when no directive begins at p.
LEMMA SkipOne ==
  ASSUME NEW d \in Source, NEW g, ParseAt(d, g), NEW p \in 1 .. Len(d), EndOf(d, p) = 0
  PROVE  Directives(g[p]) = MarkOf(d[p]) \o Directives(g[p + 1])
<1>1. p \in 1 .. Len(d) + 1 /\ p + 1 \in 1 .. Len(d) + 1 /\ d[p] \in Token
  BY DEF Source
<1>2. g[p] \in Seq(Segment) /\ g[p + 1] \in Seq(Segment)
  BY <1>1, ParsedFrom DEF Parsed
<1>3. TellsTokens(OwnOf, d, g)
  BY OwnIsTold, TokensTold
<1>4. Gather(OwnOf, g[p]) = ToldOfToken(OwnOf)[d[p]] \o Gather(OwnOf, g[p + 1])
  BY <1>3 DEF TellsTokens
<1>. QED
  BY <1>1, <1>2, <1>4, OwnIsTold, DirectivesTold

LEMMA SplitNothing == SplitProse(<< >>) \in Seq(Segment) /\ Directives(SplitProse(<< >>)) = << >>
<1>1. << >> \in Seq(Segment)
  OBVIOUS
<1>. QED
  BY <1>1, SplitNone, DirectivesEmpty

\* A directive at p is read, and then what follows it.
LEMMA ReadOne ==
  ASSUME NEW d \in Source, NEW g, ParseAt(d, g), NEW p \in 1 .. Len(d), EndOf(d, p) # 0
  PROVE  Directives(g[p]) = <<WithoutGaps(SubSeq(d, p, EndOf(d, p) - 1))>> \o Directives(g[EndOf(d, p)])
<1>1. p \in 1 .. Len(d) + 1 /\ EndOf(d, p) \in 1 .. Len(d) + 1
  BY EndsAfter DEF Source
<1>2. g[p] \in Seq(Segment) /\ g[EndOf(d, p)] \in Seq(Segment)
  BY <1>1, ParsedFrom DEF Parsed
<1>3. PICK x \in Segment : /\ x = Directive(SubSeq(d, p, EndOf(d, p) - 1))
                           /\ x.kind = "directive" /\ x.raw = SubSeq(d, p, EndOf(d, p) - 1)
  BY DirectiveIsSegment
<1>4. Gather(OwnOf, g[p]) = OwnOf[x] \o Gather(OwnOf, g[EndOf(d, p)])
  BY <1>3, OwnIsTold, DirectiveTold, ZenonT(60)
<1>5. OwnOf[x] = <<WithoutGaps(SubSeq(d, p, EndOf(d, p) - 1))>>
  BY <1>3, OwnIsTold DEF Own
<1>. QED
  BY <1>2, <1>4, <1>5, DirectivesTold

-----------------------------------------------------------------------------
(***************************************************************************)
(* A segment is read again as it is shown.                                 *)
(***************************************************************************)

\* A segment that is read as it is shown.
Readable(g) ==
    /\ g \in Segment
    /\ g.kind = "prose" => \A i \in 1 .. Len(g.raw) : g.raw[i] # Mark /\ g.raw[i].k \notin Heads
    /\ g.kind = "directive" => Whole(g.raw)

\* Nothing is read of the tokens from p to before q.
Silent(d, p, q) == \A j \in p .. q - 1 : EndOf(d, j) = 0 /\ d[j] # Mark

LEMMA SkipMany ==
  ASSUME NEW d \in Source, NEW g, ParseAt(d, g), NEW p \in 1 .. Len(d) + 1,
         NEW q \in p .. Len(d) + 1, Silent(d, p, q)
  PROVE  Directives(g[p]) = Directives(g[q])
<1>. DEFINE P == {k \in Nat : k \in 0 .. q - p => Directives(g[p]) = Directives(g[p + k])}
<1>1. Len(d) \in Nat /\ p \in Nat /\ q \in Nat /\ p <= q /\ q <= Len(d) + 1 /\ 1 <= p
  BY DEF Source
<1>2. 0 \in P
  BY <1>1
<1>3. ASSUME NEW k \in 1 .. q - p, k - 1 \in P PROVE k \in P
  <2>. DEFINE j == p + (k - 1)
  <2>1. j \in p .. q - 1 /\ j \in 1 .. Len(d) /\ j + 1 = p + k /\ k - 1 \in 0 .. q - p
        /\ j + 1 \in 1 .. Len(d) + 1
    BY <1>1
  <2>2. Directives(g[p]) = Directives(g[j])
    BY <1>3, <2>1
  <2>. HIDE DEF j
  <2>3. EndOf(d, j) = 0 /\ d[j] # Mark
    BY <2>1 DEF Silent
  <2>4. Directives(g[j]) = MarkOf(d[j]) \o Directives(g[j + 1])
    BY <2>1, <2>3, SkipOne
  <2>5. g[j + 1] \in Seq(Segment)
    BY <2>1, ParsedFrom DEF Parsed
  <2>6. PICK s \in Seq(Segment) : s = g[j + 1]
    BY <2>5
  <2>7. Directives(s) \in Seq(Source)
    BY DirectivesTyped
  <2>8. << >> \o Directives(s) = Directives(s)
    BY <2>7
  <2>9. Directives(g[j]) = Directives(g[j + 1])
    BY <2>3, <2>4, <2>6, <2>8 DEF MarkOf
  <2>. QED
    BY <1>1, <2>1, <2>2, <2>9
<1>. HIDE DEF P
<1>4. PICK m \in Nat : m = q - p
  BY <1>1
<1>5. \A k \in 0 .. m : k \in P
  BY <1>2, <1>3, <1>4, UpTo
<1>6. m \in P /\ p + m = q
  BY <1>1, <1>4, <1>5
<1>. QED
  BY <1>4, <1>6 DEF P

LEMMA GapsAside ==
  ASSUME NEW raw \in Source, NEW n \in 1 .. Len(raw), OnlyGaps(raw, n)
  PROVE  WithoutGaps(raw) = WithoutGaps(SubSeq(raw, 1, n)) /\ SubSeq(raw, 1, n) \in Source
<1>. DEFINE e == SubSeq(raw, 1, n)
<1>1. raw \in Seq(Token) /\ Len(raw) \in Nat /\ DOMAIN raw = 1 .. Len(raw) /\ n \in Nat /\ n <= Len(raw)
  BY DEF Source
<1>2. e \in Seq(Token) /\ Len(e) = n /\ (\A j \in 1 .. n : e[j] = raw[j]) /\ DOMAIN e = 1 .. n
  BY <1>1
<1>. HIDE DEF e
<1>3. NotGaps(e) = NotGaps(raw)
  <2>1. \A j \in 1 .. Len(raw) : j \in 1 .. n \/ j \in n + 1 .. Len(raw)
    BY <1>1
  <2>2. \A j : j \in 1 .. n => j \in 1 .. Len(raw)
    BY <1>1
  <2>. QED
    BY <1>1, <1>2, <2>1, <2>2 DEF NotGaps, OnlyGaps
<1>4. e \in Source
  BY <1>2 DEF Source
<1>5. PICK m \in 0 .. n : WithoutGaps(e) = SubSeq(e, 1, m) /\ m = Max({0} \cup NotGaps(e))
  BY <1>2, <1>4, WithoutGapsLemma
<1>6. WithoutGaps(raw) = SubSeq(raw, 1, m)
  BY <1>3, <1>5, WithoutGapsLemma
<1>7. SubSeq(raw, 1, m) = SubSeq(e, 1, m)
  <2>1. m \in Nat /\ m <= n /\ \A j \in 1 .. m : e[j] = raw[j]
    BY <1>1, <1>2
  <2>. QED
    BY <1>1, <1>2, <2>1
<1>. QED
  BY <1>4, <1>5, <1>6, <1>7 DEF e

LEMMA SegmentRead ==
  ASSUME NEW d \in Source, NEW g, ParseAt(d, g), NEW s, Readable(s), NEW x \in Nat,
         PartAt(d, s.raw, x)
  PROVE  Directives(g[x + 1]) = Own(s) \o Directives(g[x + Len(s.raw) + 1])
<1>1. s \in Segment /\ s.raw \in Source /\ s.kind \in {"prose", "directive"}
  BY DEF Readable, Segment
<1>. DEFINE raw == s.raw
            m == Len(raw)
            n == Len(d)
            q == x + m + 1
<1>2. raw \in Source /\ m \in Nat /\ n \in Nat /\ m + x <= n /\ \A j \in 1 .. m : raw[j] = d[x + j]
  BY <1>1 DEF PartAt, Source
<1>3. x + 1 \in 1 .. n + 1 /\ q \in x + 1 .. n + 1 /\ q \in 1 .. n + 1
  BY <1>2
<1>4. PartAt(d, raw, x)
  OBVIOUS
<1>5. PICK rest \in Seq(Source) : rest = Directives(g[q])
  <2>1. g[q] \in Seq(Segment)
    BY <1>3, ParsedFrom DEF Parsed
  <2>. QED
    BY <2>1, DirectivesTyped
<1>. HIDE DEF raw, m, q
<1>6. CASE s.kind = "prose"
  <2>1. \A i \in 1 .. m : raw[i] # Mark /\ raw[i].k \notin Heads
    BY <1>6 DEF Readable, raw, m
  <2>2. ASSUME NEW j \in x + 1 .. q - 1 PROVE EndOf(d, j) = 0 /\ d[j] # Mark
    <3>1. j - x \in 1 .. m /\ x + (j - x) = j /\ j \in 1 .. n
      BY <1>2, <2>2 DEF q
    <3>2. d[j] # Mark /\ d[j].k \notin Heads
      BY <1>2, <2>1, <3>1
    <3>. QED
      BY <3>1, <3>2, EndsOfHeads
  <2>3. Silent(d, x + 1, q)
    BY <2>2 DEF Silent
  <2>4. Directives(g[x + 1]) = Directives(g[q])
    BY <1>3, <2>3, SkipMany
  <2>5. << >> \o rest = rest
    OBVIOUS
  <2>. QED
    BY <1>5, <1>6, <2>4, <2>5 DEF Own, q, m, raw
<1>7. CASE s.kind = "directive"
  <2>1. PICK k \in 1 .. m : ClosedAt(raw, k) /\ OnlyGaps(raw, k)
    BY <1>7 DEF Readable, Whole, raw, m
  <2>2. Own(s) = <<WithoutGaps(SubSeq(raw, 1, k))>> /\ SubSeq(raw, 1, k) \in Source
    BY <1>2, <1>7, <2>1, GapsAside DEF Own, raw, m
  <2>3. x + k + 1 \in 1 .. n + 1 /\ q \in x + k + 1 .. n + 1 /\ x + 1 \in 1 .. n /\ k \in Nat
    BY <1>2, <1>3 DEF q
  <2>4. Directives(g[x + k + 1]) = rest
    <3>1. Gap.k = "gap" /\ Mark.k = "mark"
      BY DEF Gap, Mark, Tok
    <3>2. ASSUME NEW j \in x + k + 1 .. q - 1 PROVE EndOf(d, j) = 0 /\ d[j] # Mark
      <4>1. j - x \in k + 1 .. m /\ j - x \in 1 .. m /\ x + (j - x) = j
        BY <1>2, <2>3, <3>2 DEF q
      <4>2. d[j] = Gap
        BY <1>2, <2>1, <4>1 DEF OnlyGaps, m
      <4>3. EndOf(d, j) = 0
        BY <3>1, <4>2 DEF EndOf
      <4>. QED
        BY <3>1, <4>2, <4>3
    <3>3. Silent(d, x + k + 1, q)
      BY <3>2 DEF Silent
    <3>. QED
      BY <1>5, <2>3, <3>3, SkipMany
  <2>5. raw[1] = d[x + 1] /\ 1 \in 1 .. m
    BY <1>2, <2>3
  <2>6. CASE k = 1 /\ raw[1] = Mark
    <3>1. EndOf(d, x + 1) = 0
      <4>1. Mark.k = "mark"
        BY DEF Mark, Tok
      <4>. QED
        BY <2>5, <2>6, <4>1 DEF EndOf
    <3>2. Directives(g[x + 1]) = MarkOf(d[x + 1]) \o Directives(g[x + 1 + 1])
      BY <2>3, <3>1, SkipOne
    <3>3. MarkOf(d[x + 1]) = << <<Mark>> >>
      BY <2>5, <2>6 DEF MarkOf
    <3>4. SubSeq(raw, 1, 1) = <<Mark>>
      <4>1. PICK e \in Seq(Token) : e = raw
        BY <1>2 DEF Source
      <4>2. Len(e) >= 1 /\ e[1] = Mark
        BY <2>5, <2>6, <4>1 DEF m
      <4>3. SubSeq(e, 1, 1) = <<e[1]>>
        <5>1. 1 \in 1 .. Len(e) /\ 1 \in 1 .. 1 /\ 1 + 1 = 2 /\ 1 < 2
          BY <4>2
        <5>2. SubSeq(e, 1, 1) = <<e[1]>> \o SubSeq(e, 2, 1)
          <6>1. PICK a \in 1 .. Len(e), b \in Nat : a = 1 /\ b = 2
            BY <5>1
          <6>2. a \in a .. Len(e) /\ a + 1 = b
            BY <6>1
          <6>3. SubSeq(e, a, a) = <<e[a]>> \o SubSeq(e, a + 1, a)
            BY <6>2, SubSeqRecursiveFirst
          <6>. QED
            BY <6>1, <6>2, <6>3
        <5>3. SubSeq(e, 2, 1) = << >> /\ <<e[1]>> \in Seq(Token)
          BY <5>1, SubSeqEmpty
        <5>4. <<e[1]>> \o << >> = <<e[1]>>
          BY <5>3
        <5>. QED
          BY <5>2, <5>3, <5>4
      <4>. QED
        BY <4>1, <4>2, <4>3
    <3>5. x + 1 + 1 = x + k + 1
      BY <2>6
    <3>. QED
      BY <1>5, <2>2, <2>4, <2>6, <3>2, <3>3, <3>4, <3>5, MarkAlone DEF q, m, raw
  <2>7. CASE EndOf(raw, 1) = k + 1
    <3>1. EndOf(d, x + 1) = x + (k + 1)
      <4>1. EndOf(raw, 1) # 0 /\ 1 \in 1 .. Len(raw)
        BY <2>3, <2>5, <2>7 DEF m
      <4>2. EndOf(d, x + 1) = x + EndOf(raw, 1)
        BY <1>2, <1>4, <4>1, EndsInPart
      <4>. QED
        BY <2>7, <4>2
    <3>2. EndOf(d, x + 1) = x + k + 1 /\ EndOf(d, x + 1) # 0 /\ EndOf(d, x + 1) - 1 = x + k
      BY <2>3, <3>1
    <3>3. Directives(g[x + 1]) = <<WithoutGaps(SubSeq(d, x + 1, x + k))>> \o Directives(g[x + k + 1])
      BY <2>3, <3>2, ReadOne
    <3>4. SubSeq(d, x + 1, x + k) = SubSeq(raw, 1, k)
      <4>1. PICK a \in Nat \ {0}, b \in Nat : a = x + 1 /\ b = x + k
        BY <2>3
      <4>2. b - a + 1 = k /\ a <= b /\ b <= n /\ \A j \in 1 .. k : a + j - 1 = x + j /\ j \in 1 .. m
        BY <1>2, <2>3, <4>1
      <4>3. PICK e \in Seq(Token), f \in Seq(Token) : e = raw /\ f = d
        BY <1>2 DEF Source
      <4>4. SubSeq(f, a, b) = [j \in 1 .. k |-> f[a + j - 1]]
        BY <4>2
      <4>5. SubSeq(e, 1, k) = [j \in 1 .. k |-> e[j]]
        <5>1. k - 1 + 1 = k /\ \A j \in 1 .. k : 1 + j - 1 = j
          BY <2>3
        <5>. QED
          BY <5>1
      <4>6. \A j \in 1 .. k : f[a + j - 1] = e[j]
        BY <1>2, <4>2, <4>3
      <4>. QED
        BY <4>1, <4>3, <4>4, <4>5, <4>6
    <3>. QED
      BY <1>5, <2>2, <2>4, <3>3, <3>4 DEF q, m, raw
  <2>. QED
    BY <2>1, <2>6, <2>7 DEF ClosedAt
<1>. QED
  BY <1>1, <1>6, <1>7

-----------------------------------------------------------------------------
(***************************************************************************)
(* Whoever opens the source again is shown the cards of the editor.        *)
(***************************************************************************)

\* The source of the first k segments.
Before(s, k) == serializeDoc(SubSeq(s, 1, k))

LEMMA BeforeLemma ==
  ASSUME NEW s \in Seq(Segment), NEW k \in 1 .. Len(s)
  PROVE  /\ Before(s, k - 1) \in Source /\ Before(s, k) \in Source
         /\ Len(Before(s, k)) = Len(Before(s, k - 1)) + Len(s[k].raw)
         /\ PartAt(serializeDoc(s), s[k].raw, Len(Before(s, k - 1)))
<1>. DEFINE n == Len(s)
            a == SubSeq(s, 1, k - 1)
            b == SubSeq(s, 1, k)
            c == SubSeq(s, k + 1, n)
<1>1. n \in Nat /\ k \in Nat /\ s[k] \in Segment /\ s[k].raw \in Source
  <2>1. s[k] \in Segment /\ k \in Nat /\ n \in Nat
    OBVIOUS
  <2>2. PICK e \in Segment : e = s[k]
    BY <2>1
  <2>3. e.raw \in Source
    BY <2>2 DEF Segment
  <2>. QED
    BY <2>1, <2>2, <2>3
<1>2. /\ a \in Seq(Segment) /\ b \in Seq(Segment) /\ c \in Seq(Segment)
      /\ b = Append(a, s[k])
  <2>1. a \in Seq(Segment) /\ b = Append(a, s[k])
    BY <1>1
  <2>2. b \in Seq(Segment)
    BY <2>1
  <2>3. \A i \in k + 1 .. n : s[i] \in Segment
    BY <1>1
  <2>4. c \in Seq(Segment)
    BY <1>1, <2>3, SubSeqProperties
  <2>. QED
    BY <2>1, <2>2, <2>4
<1>3. s = b \o c
  <2>1. Len(b) = k /\ Len(c) = n - k /\ (\A i \in 1 .. k : b[i] = s[i])
        /\ \A i \in 1 .. n - k : c[i] = s[k + i]
    <3>1. Len(b) = k /\ \A i \in 1 .. k : b[i] = s[i]
      BY <1>1
    <3>2. PICK m \in Int, x \in Int : m = k + 1 /\ x = n
      BY <1>1
    <3>3. \A i \in m .. x : s[i] \in Segment
      BY <1>1, <3>2
    <3>4. /\ Len(SubSeq(s, m, x)) = IF m <= x THEN x - m + 1 ELSE 0
          /\ \A i \in 1 .. x - m + 1 : SubSeq(s, m, x)[i] = s[m + i - 1]
      BY <3>3, SubSeqProperties
    <3>5. x - m + 1 = n - k /\ (m <= x \/ n - k = 0) /\ \A i \in 1 .. n - k : m + i - 1 = k + i
      BY <1>1, <3>2
    <3>. QED
      BY <3>1, <3>2, <3>4, <3>5
  <2>. HIDE DEF b, c
  <2>2. /\ b \o c \in Seq(Segment) /\ Len(b \o c) = Len(b) + Len(c)
        /\ \A i \in 1 .. Len(b) + Len(c) : (b \o c)[i] = IF i <= Len(b) THEN b[i] ELSE c[i - Len(b)]
    BY <1>2
  <2>3. Len(b \o c) = n
    BY <1>1, <2>1, <2>2
  <2>4. ASSUME NEW i \in 1 .. n PROVE (b \o c)[i] = s[i]
    <3>1. CASE i <= k
      BY <1>1, <2>1, <2>2, <3>1
    <3>2. CASE ~(i <= k)
      <4>1. i - k \in 1 .. n - k /\ k + (i - k) = i
        BY <1>1, <3>2
      <4>2. (b \o c)[i] = c[i - k]
        BY <1>1, <2>1, <2>2, <2>3, <3>2
      <4>. QED
        BY <2>1, <4>1, <4>2
    <3>. QED
      BY <3>1, <3>2
  <2>5. PICK e \in Seq(Segment) : e = b \o c
    BY <2>2
  <2>6. e = [i \in 1 .. Len(e) |-> e[i]] /\ s = [i \in 1 .. Len(s) |-> s[i]]
    OBVIOUS
  <2>. QED
    BY <2>3, <2>4, <2>5, <2>6
<1>. HIDE DEF a, b, c
<1>4. serializeDoc(b) = serializeDoc(a) \o s[k].raw /\ serializeDoc(a) \in Source
  BY <1>1, <1>2, SerializeAppend
<1>5. serializeDoc(s) = serializeDoc(b) \o serializeDoc(c)
  BY <1>2, <1>3, SerializeConcat
<1>6. PICK u \in Seq(Token), v \in Seq(Token), w \in Seq(Token) :
         u = serializeDoc(a) /\ v = s[k].raw /\ w = serializeDoc(c)
  BY <1>1, <1>2, SerializeTyped DEF Source
<1>7. /\ Len(u \o v) = Len(u) + Len(v) /\ Len(u \o v \o w) = Len(u) + Len(v) + Len(w)
      /\ Len(u) \in Nat /\ Len(v) \in Nat /\ Len(w) \in Nat
      /\ \A j \in 1 .. Len(v) : (u \o v \o w)[Len(u) + j] = v[j]
  <2>1. Len(u \o v) = Len(u) + Len(v) /\ Len(u) \in Nat /\ Len(v) \in Nat /\ Len(w) \in Nat
    OBVIOUS
  <2>2. PICK z \in Seq(Token) : z = u \o v
    <3>1. u \o v \in Seq(Token)
      OBVIOUS
    <3>. QED
      BY <3>1
  <2>3. Len(z \o w) = Len(z) + Len(w) /\ \A j \in 1 .. Len(z) : (z \o w)[j] = z[j]
    OBVIOUS
  <2>4. ASSUME NEW j \in 1 .. Len(v) PROVE z[Len(u) + j] = v[j] /\ Len(u) + j \in 1 .. Len(z)
    <3>1. Len(u) + j \in 1 .. Len(u) + Len(v) /\ ~(Len(u) + j <= Len(u)) /\ Len(u) + j - Len(u) = j
      BY <2>1
    <3>2. (u \o v)[Len(u) + j] = v[Len(u) + j - Len(u)]
      BY <3>1
    <3>. QED
      BY <2>1, <2>2, <3>1, <3>2
  <2>. QED
    BY <2>1, <2>2, <2>3, <2>4
<1>8. PartAt(serializeDoc(s), s[k].raw, Len(serializeDoc(a)))
  <2>1. serializeDoc(s) = u \o v \o w
    BY <1>4, <1>5, <1>6
  <2>2. PICK d \in Seq(Token) : d = u \o v \o w
    <3>1. u \o v \o w \in Seq(Token)
      OBVIOUS
    <3>. QED
      BY <3>1
  <2>3. Len(v) + Len(u) <= Len(d)
    BY <1>7, <2>2
  <2>4. \A j \in 1 .. Len(v) : d[Len(u) + j] = v[j]
    BY <1>7, <2>2
  <2>5. PartAt(d, v, Len(u))
    BY <2>3, <2>4 DEF PartAt
  <2>. QED
    BY <1>6, <2>1, <2>2, <2>5
<1>9. Before(s, k - 1) = serializeDoc(a) /\ Before(s, k) = serializeDoc(b)
  BY DEF Before, a, b
<1>. QED
  BY <1>2, <1>4, <1>6, <1>7, <1>8, <1>9, SerializeTyped

\* A segment at x of a source is read as the directives of its own.
ReadThere(d, g, s, x) ==
    Directives(g[x + 1]) = Own(s) \o Directives(g[x + Len(s.raw) + 1])

LEMMA ReadThereLemma ==
  \A d \in Source : \A g, s : \A x \in Nat :
    ParseAt(d, g) /\ Readable(s) /\ PartAt(d, s.raw, x) => ReadThere(d, g, s, x)
<1>. TAKE d \in Source
<1>. TAKE g, s
<1>. TAKE x \in Nat
<1>. HAVE ParseAt(d, g) /\ Readable(s) /\ PartAt(d, s.raw, x)
<1>. QED
  BY SegmentRead DEF ReadThere

\* Whoever opens a source again is shown the directives it was made of.
LEMMA ReadAgain ==
  ASSUME NEW s \in Seq(Segment), \A i \in 1 .. Len(s) : Readable(s[i])
  PROVE  Directives(parseDoc(serializeDoc(s))) = Directives(s)
<1>. DEFINE d == serializeDoc(s)
            n == Len(s)
<1>1. PICK g : g = CHOOSE h : ParseAt(d, h)
  OBVIOUS
<1>2. d \in Source /\ n \in Nat
  BY SerializeTyped
<1>3. ParseAt(d, g)
  BY <1>1, <1>2, ParseExists
<1>4. parseDoc(d) = g[1]
  BY <1>1 DEF parseDoc, ParseAt, ParseFrom, NextHead
<1>. HIDE DEF d
<1>. DEFINE P == {k \in Nat : k \in 0 .. n =>
                    /\ Before(s, k) \in Source
                    /\ g[Len(Before(s, k)) + 1] \in Seq(Segment)
                    /\ Directives(g[1]) = Directives(SubSeq(s, 1, k))
                                          \o Directives(g[Len(Before(s, k)) + 1])}
<1>5. ASSUME NEW x \in 0 .. Len(d) PROVE g[x + 1] \in Seq(Segment)
  <2>1. x + 1 \in 1 .. Len(d) + 1
    BY <1>2 DEF Source
  <2>. QED
    BY <1>2, <1>3, <2>1, ParsedFrom DEF Parsed
<1>6. 0 \in P
  <2>1. SubSeq(s, 1, 0) = << >>
    OBVIOUS
  <2>2. Before(s, 0) = << >> /\ Len(<< >>) = 0 /\ << >> \in Source
    <3>1. Before(s, 0) = << >>
      BY <2>1, SerializeEmpty DEF Before
    <3>2. << >> \in Source /\ Len(<< >>) = 0
      BY DEF Source
    <3>. QED
      BY <3>1, <3>2
  <2>3. 0 \in 0 .. Len(d) /\ 0 + 1 = 1
    BY <1>2 DEF Source
  <2>4. PICK r \in Seq(Segment) : r = g[1]
    BY <1>5, <2>3
  <2>5. << >> \o Directives(r) = Directives(r)
    <3>1. Directives(r) \in Seq(Source)
      BY DirectivesTyped
    <3>. QED
      BY <3>1
  <2>. QED
    BY <2>1, <2>2, <2>3, <2>4, <2>5, DirectivesEmpty
<1>7. ASSUME NEW k \in 1 .. n, k - 1 \in P PROVE k \in P
  <2>1. k \in 1 .. Len(s) /\ k - 1 \in 0 .. n /\ k \in Nat /\ s[k] \in Segment
    BY <1>2
  <2>1a. PICK t \in Source : t = s[k].raw
    <3>1. PICK e \in Segment : e = s[k]
      BY <2>1
    <3>2. e.raw \in Source
      BY <3>1 DEF Segment
    <3>. QED
      BY <3>1, <3>2
  <2>1b. /\ Before(s, k - 1) \in Source /\ Before(s, k) \in Source
        /\ Len(Before(s, k)) = Len(Before(s, k - 1)) + Len(s[k].raw)
        /\ PartAt(d, s[k].raw, Len(Before(s, k - 1)))
    BY <2>1, BeforeLemma DEF d
  <2>1c. PICK x \in Nat, y \in Nat, m \in Nat :
          x = Len(Before(s, k - 1)) /\ y = Len(Before(s, k)) /\ m = Len(t)
    <3>1. \A z \in Source : Len(z) \in Nat
      BY DEF Source
    <3>. QED
      BY <2>1a, <2>1b, <3>1
  <2>2. y = x + m /\ PartAt(d, t, x)
    BY <2>1a, <2>1b, <2>1c
  <2>3. PICK l \in Nat : l = Len(d)
    BY <1>2 DEF Source
  <2>4. y \in 0 .. Len(d) /\ x \in 0 .. Len(d)
    <3>1. m + x <= l
      BY <2>1c, <2>2, <2>3 DEF PartAt
    <3>. QED
      BY <2>2, <2>3, <3>1
  <2>5. Directives(g[1]) = Directives(SubSeq(s, 1, k - 1)) \o Directives(g[x + 1])
    BY <1>7, <2>1, <2>1c
  <2>6. Directives(g[x + 1]) = Own(s[k]) \o Directives(g[x + Len(s[k].raw) + 1])
    <3>1. PICK e : e = s[k]
      OBVIOUS
    <3>2. Readable(e) /\ PartAt(d, e.raw, x)
      BY <2>1, <2>2, <2>1a, <3>1
    <3>3. Directives(g[x + 1]) = Own(e) \o Directives(g[x + Len(e.raw) + 1])
      <4>1. ReadThere(d, g, e, x)
        BY <1>2, <1>3, <2>1c, <3>2, ReadThereLemma
      <4>. QED
        BY <4>1 DEF ReadThere
    <3>. QED
      BY <3>1, <3>3
  <2>7. Directives(g[x + 1]) = Own(s[k]) \o Directives(g[y + 1])
    BY <2>2, <2>6, <2>1a, <2>1c
  <2>8. g[y + 1] \in Seq(Segment)
    BY <1>5, <2>4
  <2>9. SubSeq(s, 1, k - 1) \in Seq(Segment) /\ SubSeq(s, 1, k) = Append(SubSeq(s, 1, k - 1), s[k])
    BY <2>1
  <2>10. Directives(SubSeq(s, 1, k)) = Directives(SubSeq(s, 1, k - 1)) \o Own(s[k])
    BY <2>1, <2>9, DirectivesAppend
  <2>11. PICK u \in Seq(Source), v \in Seq(Source), w \in Seq(Source) :
            u = Directives(SubSeq(s, 1, k - 1)) /\ v = Own(s[k]) /\ w = Directives(g[y + 1])
    BY <2>1, <2>8, <2>9, DirectivesTyped, OwnTyped
  <2>12. u \o (v \o w) = (u \o v) \o w
    BY SMTT(30)
  <2>13. Directives(g[1]) = Directives(SubSeq(s, 1, k)) \o Directives(g[y + 1])
    BY <2>5, <2>7, <2>10, <2>11, <2>12
  <2>. QED
    BY <2>1, <2>1b, <2>1c, <2>8, <2>13
<1>. HIDE DEF P
<1>8. n \in P
  <2>1. PICK m \in Nat : m = n
    BY <1>2
  <2>. HIDE DEF n
  <2>2. \A k \in 0 .. m : k \in P
    BY <1>6, <1>7, <2>1, UpTo
  <2>. QED
    BY <2>1, <2>2
<1>9. SubSeq(s, 1, n) = s /\ n \in 0 .. n
  BY <1>2
<1>10. Before(s, n) = d
  BY <1>9 DEF Before, d
<1>11. Directives(g[1]) = Directives(s) \o Directives(g[Len(d) + 1])
  BY <1>8, <1>9, <1>10 DEF P
<1>12. Directives(g[Len(d) + 1]) = << >>
  <2>. DEFINE p == Len(d) + 1
  <2>1. Len(d) \in Nat /\ p \in 1 .. Len(d) + 1 /\ Len(d) < p /\ p \in Int /\ Len(d) \in Int
    BY <1>2 DEF Source
  <2>2. g[p] = ParseFrom(d, g, p)
    BY <1>3, <2>1 DEF ParseAt
  <2>3. NextHead(d, p) = 0
    <3>1. {j \in p .. Len(d) : EndOf(d, j) # 0} = {}
      BY <2>1
    <3>. QED
      BY <3>1 DEF NextHead, First
  <2>. HIDE DEF p
  <2>4. SubSeq(d, p, Len(d)) = << >>
    BY <2>1, SubSeqEmpty
  <2>5. g[p] = SplitProse(<< >>)
    BY <2>2, <2>3, <2>4 DEF ParseFrom
  <2>. QED
    BY <2>5, SplitNothing DEF p
<1>13. Directives(s) \o << >> = Directives(s)
  <2>1. Directives(s) \in Seq(Source)
    BY DirectivesTyped
  <2>. QED
    BY <2>1
<1>. QED
  BY <1>4, <1>11, <1>12, <1>13 DEF d

LEMMA KeptIsReadable ==
  ASSUME NEW g, Kept(g), g.kind = "prose" => \A t \in ToSet(g.raw) : t.k \notin Heads
  PROVE  Readable(g)
<1>1. CASE g.kind = "prose"
  <2>1. g.raw \in Source
    BY DEF Kept, Segment
  <2>2. \A i \in 1 .. Len(g.raw) : g.raw[i] \in ToSet(g.raw)
    BY <2>1 DEF ToSet, Source
  <2>. QED
    BY <1>1, <2>2 DEF Kept, Readable, Plain
<1>2. CASE g.kind # "prose"
  BY <1>2 DEF Kept, Readable
<1>. QED
  BY <1>1, <1>2

LEMMA DocInvReparses == DocInv => ReparseAgrees
<1>. SUFFICES ASSUME DocInv, typing = 0,
                     \A i \in DOMAIN segs : segs[i].kind = "prose" =>
                        \A t \in ToSet(segs[i].raw) : t.k \notin Heads
              PROVE  Directives(parseDoc(value)) = Directives(segs)
  BY DEF ReparseAgrees
<1>1. segs \in Seq(Segment) /\ DOMAIN segs = 1 .. Len(segs) /\ value = serializeDoc(segs)
      /\ \A i \in 1 .. Len(segs) : Kept(segs[i])
  BY DEF DocInv, KeptBut
<1>2. \A i \in 1 .. Len(segs) : Readable(segs[i])
  BY <1>1, KeptIsReadable
<1>. QED
  BY <1>1, <1>2, ReadAgain

-----------------------------------------------------------------------------
(***************************************************************************)
(* Items, blocks, and what is told of them.                                *)
(***************************************************************************)
LayerName == {t.v : t \in Token}
ItemSet == {Item(t) : t \in Token} \cup {Taken(raw) : raw \in Source \ {<< >>}}
BlockSet == [type : {"markdown", "quiz", "block"}, layer : LayerName, raw : Source]
ItemRaw == [x \in ItemSet |-> x.raw]
BlockRaw == [b \in BlockSet |-> b.raw]

LEMMA ItemIs ==
  ASSUME NEW t \in Token
  PROVE  /\ Item(t) \in ItemSet /\ Item(t).k = t.k /\ Item(t).k # "block"
         /\ Item(t).layer = t.v /\ Item(t).raw = <<t>>
<1>1. t.k \in Heads \cup {"close", "tick", "lang", "gap", "rule", "mark", "text"}
  BY TokensOf
<1>2. t.k # "block"
  BY <1>1 DEF Heads
<1>. QED
  BY <1>2 DEF Item, ItemSet

LEMMA TakenIs ==
  ASSUME NEW raw \in Source, raw # << >>
  PROVE  /\ Taken(raw) \in ItemSet /\ Taken(raw).k = "block"
         /\ Taken(raw).layer = raw[1].v /\ Taken(raw).raw = raw
  BY DEF Taken, ItemSet

LEMMA ItemsAre ==
  ASSUME NEW x \in ItemSet
  PROVE  /\ x.raw \in Source /\ x.raw # << >> /\ x.layer \in LayerName
         /\ x.k = "block" => x = Taken(x.raw)
         /\ x.k # "block" => \E t \in Token : x = Item(t)
<1>1. CASE x \in {Item(t) : t \in Token}
  <2>1. PICK t \in Token : x = Item(t)
    BY <1>1
  <2>2. <<t>> \in Seq(Token) /\ <<t>> # << >>
    OBVIOUS
  <2>. QED
    BY <2>1, <2>2, ItemIs DEF Source, LayerName
<1>2. CASE x \in {Taken(raw) : raw \in Source \ {<< >>}}
  <2>1. PICK raw \in Source : raw # << >> /\ x = Taken(raw)
    BY <1>2
  <2>2. raw[1] \in Token
    <3>1. raw \in Seq(Token) /\ Len(raw) # 0
      BY <2>1 DEF Source
    <3>. QED
      BY <3>1
  <2>3. raw[1].v \in LayerName
    BY <2>2 DEF LayerName
  <2>. QED
    BY <2>1, <2>3, TakenIs
<1>. QED
  BY <1>1, <1>2 DEF ItemSet

LEMMA RawsGathered ==
  ASSUME NEW s \in Seq(ItemSet)
  PROVE  /\ FlattenSeq(Raws(s)) = Gather(ItemRaw, s) /\ ItemRaw \in [ItemSet -> Source]
         /\ Gather(ItemRaw, s) \in Source
<1>1. ItemRaw \in [ItemSet -> Source]
  BY ItemsAre DEF ItemRaw
<1>2. \A i \in DOMAIN s : ItemRaw[s[i]] = s[i].raw
  BY DEF ItemRaw
<1>3. Raws(s) = Each(ItemRaw, s)
  BY <1>2 DEF Raws, Each
<1>4. Gather(ItemRaw, s) \in Source
  <2>1. ItemRaw \in Reads(ItemSet, Token)
    BY <1>1 DEF Reads, Source
  <2>. QED
    BY <2>1, GatherTyped DEF Source
<1>. QED
  BY <1>1, <1>3, <1>4 DEF Gather

LEMMA BlockIs ==
  ASSUME NEW kind \in {"markdown", "quiz", "block"}, NEW l \in LayerName, NEW s \in Seq(ItemSet)
  PROVE  /\ Block(kind, l, s) \in BlockSet /\ Block(kind, l, s).type = kind
         /\ Block(kind, l, s).layer = l /\ Block(kind, l, s).raw = Gather(ItemRaw, s)
<1>1. FlattenSeq([i \in DOMAIN s |-> s[i].raw]) = Gather(ItemRaw, s)
  BY RawsGathered DEF Raws
<1>. QED
  BY <1>1, RawsGathered DEF Block, BlockSet

-----------------------------------------------------------------------------
(***************************************************************************)
(* What the importer leaves out: comments, rules and blank lines.  What a  *)
(* reading says of an item it says of the block that the item is put into, *)
(* and it says nothing of what is left out.                                *)
(***************************************************************************)
NoBlocks(s) == \A i \in 1 .. Len(s) : s[i].k # "block"

Aside == Heads \cup {"gap", "rule", "close", "mark"}

Reading(V, f, g) ==
    /\ f \in Reads(ItemSet, V) /\ g \in Reads(BlockSet, V)
    /\ \A x \in ItemSet : x.k \in Aside => f[x] = << >>
    /\ \A l \in LayerName : \A s \in Seq(ItemSet) :
          NoBlocks(s) => /\ g[Block("markdown", l, s)] = Gather(f, s)
                         /\ g[Block("quiz", l, s)] = Gather(f, s)
    /\ \A l \in LayerName : \A x \in ItemSet :
          x.k = "block" => g[Block("block", l, <<x>>)] = f[x]

LEMMA CutInTwo ==
  ASSUME NEW S, NEW s \in Seq(S), NEW k \in 0 .. Len(s)
  PROVE  /\ SubSeq(s, 1, k) \in Seq(S) /\ SubSeq(s, k + 1, Len(s)) \in Seq(S)
         /\ s = SubSeq(s, 1, k) \o SubSeq(s, k + 1, Len(s))
         /\ Len(SubSeq(s, 1, k)) = k /\ \A i \in 1 .. k : SubSeq(s, 1, k)[i] = s[i]
         /\ Len(SubSeq(s, k + 1, Len(s))) = Len(s) - k
         /\ \A i \in 1 .. Len(s) - k : SubSeq(s, k + 1, Len(s))[i] = s[k + i]
<1>1. Len(s) \in Nat /\ k \in Nat /\ k <= Len(s)
  OBVIOUS
<1>2. PICK a \in Seq(S) : a = SubSeq(s, 1, k) /\ Len(a) = k /\ \A i \in 1 .. k : a[i] = s[i]
  <2>1. PICK m \in Nat : m = k /\ m <= Len(s)
    BY <1>1
  <2>2. /\ SubSeq(s, 1, m) \in Seq(S) /\ Len(SubSeq(s, 1, m)) = m
        /\ \A i \in 1 .. m : SubSeq(s, 1, m)[i] = s[i]
    BY <2>1
  <2>. QED
    BY <2>1, <2>2
<1>3. PICK b \in Seq(S) : b = SubSeq(s, k + 1, Len(s)) /\ Len(b) = Len(s) - k
                          /\ \A i \in 1 .. Len(s) - k : b[i] = s[k + i]
  <2>. DEFINE b == SubSeq(s, k + 1, Len(s))
  <2>1. Len(s) - (k + 1) + 1 = Len(s) - k /\ Len(s) - k \in Nat
    BY <1>1
  <2>2. \A j \in 1 .. Len(s) - k : k + 1 + j - 1 \in 1 .. Len(s) /\ k + 1 + j - 1 = k + j
    BY <1>1
  <2>3. b = [j \in 1 .. Len(s) - k |-> s[k + 1 + j - 1]]
    BY <1>1, <2>1
  <2>. HIDE DEF b
  <2>4. b \in [1 .. Len(s) - k -> S]
    BY <2>2, <2>3
  <2>5. PICK m \in Nat : m = Len(s) - k
    BY <2>1
  <2>6. b \in Seq(S) /\ Len(b) = m
    BY <2>4, <2>5
  <2>7. \A i \in 1 .. Len(s) - k : b[i] = s[k + i]
    BY <2>2, <2>3
  <2>. QED
    BY <2>5, <2>6, <2>7 DEF b
<1>4. s = a \o b
  <2>1. /\ a \o b \in Seq(S) /\ Len(a \o b) = Len(a) + Len(b)
        /\ \A i \in 1 .. Len(a) + Len(b) : (a \o b)[i] = IF i <= Len(a) THEN a[i] ELSE b[i - Len(a)]
    OBVIOUS
  <2>2. PICK c \in Seq(S) : c = a \o b
    BY <2>1
  <2>0. Len(a) + Len(b) = Len(s)
    <3>1. PICK m \in Nat, n \in Nat : m = Len(s) /\ n = k /\ Len(a) = n /\ Len(b) = m - n
      BY <1>1, <1>2, <1>3
    <3>. QED
      BY <3>1
  <2>3. Len(c) = Len(s)
    BY <2>0, <2>1, <2>2
  <2>4. \A i \in 1 .. Len(s) : c[i] = s[i]
    <3>1. ASSUME NEW i \in 1 .. Len(s), ~(i <= k) PROVE i - k \in 1 .. Len(s) - k /\ k + (i - k) = i
      BY <1>1, <3>1
    <3>2. \A i \in 1 .. Len(s) : i <= k => i \in 1 .. k
      BY <1>1
    <3>. QED
      BY <1>2, <1>3, <2>0, <2>1, <2>2, <3>1, <3>2, ZenonT(60)
  <2>5. c = [i \in 1 .. Len(c) |-> c[i]] /\ s = [i \in 1 .. Len(s) |-> s[i]]
    OBVIOUS
  <2>6. c = s
    BY <2>3, <2>4, <2>5
  <2>. QED
    BY <2>2, <2>6
<1>. QED
  BY <1>2, <1>3, <1>4

LEMMA NothingAside ==
  ASSUME NEW V, NEW f, NEW g, Reading(V, f, g), NEW s \in Seq(ItemSet),
         \A i \in 1 .. Len(s) : s[i].k \in Aside
  PROVE  Gather(f, s) = << >>
<1>1. f \in Reads(ItemSet, V)
  BY DEF Reading
<1>2. \A i \in 1 .. Len(s) : f[s[i]] = << >>
  <2>1. \A i \in 1 .. Len(s) : s[i] \in ItemSet
    OBVIOUS
  <2>. QED
    BY <2>1 DEF Reading
<1>. QED
  BY <1>1, <1>2, GatherNone

\* The elements of a part are elements of the whole.
TakenFrom(r, s) == \A i \in 1 .. Len(r) : \E j \in 1 .. Len(s) : r[i] = s[j]

LEMMA StrippedIs ==
  ASSUME NEW s \in Seq(ItemSet)
  PROVE  \/ /\ Stripped(s) = << >> /\ \A i \in 1 .. Len(s) : s[i].k = "gap"
         \/ \E a, b, e \in Seq(ItemSet) :
               /\ s = (a \o Stripped(s)) \o b /\ e = a \o Stripped(s) /\ Stripped(s) \in Seq(ItemSet)
               /\ \A i \in 1 .. Len(a) : a[i].k = "gap"
               /\ \A i \in 1 .. Len(b) : b[i].k = "gap"
               /\ TakenFrom(Stripped(s), s)
<1>. DEFINE K == {i \in DOMAIN s : s[i].k # "gap"}
            n == Len(s)
<1>1. n \in Nat /\ DOMAIN s = 1 .. n /\ K \in SUBSET Nat /\ (\A i \in K : i \in 1 .. n /\ i <= n)
  OBVIOUS
<1>2. CASE K = {}
  <2>1. Stripped(s) = << >>
    BY <1>2 DEF Stripped
  <2>2. \A i \in 1 .. n : s[i].k = "gap"
    BY <1>1, <1>2
  <2>. QED
    BY <2>1, <2>2
<1>3. CASE K # {}
  <2>. DEFINE p == Min(K)
              q == Max(K)
  <2>1. Stripped(s) = SubSeq(s, p, q)
    BY <1>3 DEF Stripped
  <2>2. p \in K /\ \A i \in K : p <= i
    <3>. HIDE DEF K
    <3>1. \E i \in K : \A j \in K : i <= j
      BY <1>1, <1>3, LeastOfSet
    <3>. QED
      BY <3>1 DEF Min
  <2>3. q \in K /\ \A i \in K : i <= q
    <3>. HIDE DEF K
    <3>. QED
      BY <1>1, <1>3, GreatestOfSet
  <2>. HIDE DEF p, q
  <2>4. p \in 1 .. n /\ q \in 1 .. n /\ p <= q
    BY <1>1, <2>2, <2>3
  <2>5. /\ \A i \in 1 .. p - 1 : s[i].k = "gap"
        /\ \A i \in q + 1 .. n : s[i].k = "gap"
    <3>1. \A i \in 1 .. p - 1 : i \in 1 .. n /\ ~(p <= i)
      BY <1>1, <2>4
    <3>2. \A i \in q + 1 .. n : i \in 1 .. n /\ ~(i <= q)
      BY <1>1, <2>4
    <3>. QED
      BY <1>1, <2>2, <2>3, <3>1, <3>2
  <2>. HIDE DEF K
  <2>6. q \in 0 .. Len(s) /\ p \in Nat /\ q \in Nat
    BY <1>1, <2>4
  <2>7. PICK e \in Seq(ItemSet), b \in Seq(ItemSet) :
           /\ s = e \o b /\ Len(e) = q /\ (\A i \in 1 .. q : e[i] = s[i])
           /\ Len(b) = Len(s) - q /\ \A i \in 1 .. Len(s) - q : b[i] = s[q + i]
           /\ e = SubSeq(s, 1, q)
    BY <2>6, CutInTwo
  <2>8. PICK m \in 0 .. Len(e) : p = m + 1 /\ m = p - 1
    <3>1. p - 1 \in 0 .. Len(e) /\ p - 1 + 1 = p
      BY <2>4, <2>6, <2>7
    <3>. QED
      BY <3>1
  <2>9. PICK a \in Seq(ItemSet), c \in Seq(ItemSet) :
           /\ e = a \o c /\ Len(a) = m /\ (\A i \in 1 .. m : a[i] = e[i])
           /\ Len(c) = Len(e) - m /\ \A i \in 1 .. Len(e) - m : c[i] = e[m + i]
    <3>. HIDE DEF n
    <3>1. /\ SubSeq(e, 1, m) \in Seq(ItemSet) /\ SubSeq(e, m + 1, Len(e)) \in Seq(ItemSet)
          /\ e = SubSeq(e, 1, m) \o SubSeq(e, m + 1, Len(e))
          /\ Len(SubSeq(e, 1, m)) = m /\ \A i \in 1 .. m : SubSeq(e, 1, m)[i] = e[i]
          /\ Len(SubSeq(e, m + 1, Len(e))) = Len(e) - m
          /\ \A i \in 1 .. Len(e) - m : SubSeq(e, m + 1, Len(e))[i] = e[m + i]
      BY CutInTwo
    <3>. QED
      BY <3>1, Zenon
  <2>10. c = SubSeq(s, p, q)
    <3>1. PICK k \in Nat : k = q - m /\ q - p + 1 = k /\ Len(c) = k /\ Len(e) - m = k
      <4>1. m \in Nat /\ q - m \in Nat /\ q - p + 1 = q - m
        BY <2>4, <2>6, <2>7, <2>8
      <4>2. Len(c) = q - m /\ Len(e) - m = q - m
        BY <2>7, <2>9
      <4>. QED
        BY <4>1, <4>2
    <3>2. ASSUME NEW i \in 1 .. k PROVE c[i] = s[p + i - 1]
      <4>1. m + i \in 1 .. q /\ m + i = p + i - 1 /\ i \in 1 .. Len(e) - m
        BY <2>4, <2>6, <2>8, <3>1
      <4>2. c[i] = e[m + i] /\ e[m + i] = s[m + i]
        BY <2>7, <2>9, <4>1
      <4>. QED
        BY <4>1, <4>2
    <3>3. SubSeq(s, p, q) = [i \in 1 .. k |-> s[p + i - 1]]
      BY <2>4, <2>6, <3>1
    <3>4. c = [i \in 1 .. Len(c) |-> c[i]]
      OBVIOUS
    <3>. QED
      BY <3>1, <3>2, <3>3, <3>4
  <2>11. \A i \in 1 .. Len(a) : a[i].k = "gap"
    <3>1. \A i \in 1 .. m : i \in 1 .. q /\ i \in 1 .. p - 1
      BY <2>4, <2>6, <2>8
    <3>. QED
      BY <2>5, <2>7, <2>9, <3>1
  <2>12. \A i \in 1 .. Len(b) : b[i].k = "gap"
    <3>1. \A i \in 1 .. Len(s) - q : q + i \in q + 1 .. n
      BY <1>1, <2>4, <2>6
    <3>2. \A i \in 1 .. Len(b) : i \in 1 .. Len(s) - q
      BY <2>7
    <3>3. \A i \in 1 .. Len(b) : b[i] = s[q + i] /\ q + i \in q + 1 .. n
      BY <2>7, <3>1, <3>2
    <3>. QED
      BY <2>5, <3>3
  <2>13. TakenFrom(c, s)
    <3>1. ASSUME NEW i \in 1 .. Len(c) PROVE \E j \in 1 .. Len(s) : c[i] = s[j]
      <4>1. m + i \in 1 .. q /\ i \in 1 .. Len(e) - m /\ m + i \in 1 .. Len(s)
        BY <1>1, <2>4, <2>6, <2>7, <2>8, <2>9
      <4>2. c[i] = s[m + i]
        BY <2>7, <2>9, <4>1
      <4>. QED
        BY <4>1, <4>2
    <3>. QED
      BY <3>1 DEF TakenFrom
  <2>14. Stripped(s) = c
    BY <2>1, <2>10
  <2>. QED
    BY <2>7, <2>9, <2>11, <2>12, <2>13, <2>14, ZenonT(60)
<1>. QED
  BY <1>2, <1>3

LEMMA StrippedSame ==
  ASSUME NEW V, NEW f, NEW g, Reading(V, f, g), NEW s \in Seq(ItemSet)
  PROVE  /\ Stripped(s) \in Seq(ItemSet) /\ TakenFrom(Stripped(s), s)
         /\ Gather(f, Stripped(s)) = Gather(f, s)
<1>1. f \in Reads(ItemSet, V) /\ "gap" \in Aside
  BY DEF Reading, Aside
<1>5. \A u, v \in Seq(ItemSet) : Gather(f, u \o v) = Gather(f, u) \o Gather(f, v)
  BY <1>1, GatherConcat
<1>2. CASE Stripped(s) = << >> /\ \A i \in 1 .. Len(s) : s[i].k = "gap"
  <2>1. Gather(f, s) = << >>
    BY <1>1, <1>2, NothingAside
  <2>2. << >> \in Seq(ItemSet) /\ TakenFrom(<< >>, s)
    BY DEF TakenFrom
  <2>. QED
    BY <1>2, <2>1, <2>2, GatherEmpty
<1>3. CASE \E a, b, e \in Seq(ItemSet) :
               /\ s = (a \o Stripped(s)) \o b /\ e = a \o Stripped(s) /\ Stripped(s) \in Seq(ItemSet)
               /\ \A i \in 1 .. Len(a) : a[i].k = "gap"
               /\ \A i \in 1 .. Len(b) : b[i].k = "gap"
               /\ TakenFrom(Stripped(s), s)
  <2>1. PICK a \in Seq(ItemSet), b \in Seq(ItemSet), e \in Seq(ItemSet), c \in Seq(ItemSet) :
               /\ s = e \o b /\ e = a \o c /\ c = Stripped(s)
               /\ \A i \in 1 .. Len(a) : a[i].k = "gap"
               /\ \A i \in 1 .. Len(b) : b[i].k = "gap"
               /\ TakenFrom(c, s)
    BY <1>3
  <2>2. Gather(f, a) = << >>
    BY <1>1, <2>1, NothingAside
  <2>3. Gather(f, b) = << >>
    BY <1>1, <2>1, NothingAside
  <2>4. Gather(f, e) = Gather(f, a) \o Gather(f, c)
    BY <1>5, <2>1
  <2>5. Gather(f, s) = Gather(f, e) \o Gather(f, b)
    BY <1>5, <2>1
  <2>6. Gather(f, c) \in Seq(V)
    BY <1>1, GatherTyped
  <2>7. \A r \in Seq(V) : << >> \o r = r /\ r \o << >> = r
    OBVIOUS
  <2>. QED
    BY <2>1, <2>2, <2>3, <2>4, <2>5, <2>6, <2>7
<1>. QED
  BY <1>2, <1>3, StrippedIs

LEMMA NoBlocksAmong ==
  ASSUME NEW r, NEW s, TakenFrom(r, s), NoBlocks(s)
  PROVE  NoBlocks(r)
  BY DEF TakenFrom, NoBlocks

-----------------------------------------------------------------------------
\* The items that are left when the comments are taken out.
Left == [x \in ItemSet |-> IF x.k \in Heads \cup {"close", "mark"} THEN << >> ELSE <<x>>]

LEMMA UncommentedIs ==
  ASSUME NEW s \in Seq(ItemSet)
  PROVE  /\ Left \in Reads(ItemSet, ItemSet) /\ Uncommented(s) = Gather(Left, s)
         /\ Uncommented(s) \in Seq(ItemSet)
<1>1. Left \in Reads(ItemSet, ItemSet)
  BY DEF Left, Reads
<1>2. \A i \in DOMAIN s : s[i] \in ItemSet
  OBVIOUS
<1>3. [i \in DOMAIN s |-> IF s[i].k \in Heads \cup {"close", "mark"} THEN << >> ELSE <<s[i]>>] = Each(Left, s)
  BY <1>2 DEF Each, Left
<1>4. Uncommented(s) = Gather(Left, s)
  BY <1>3 DEF Uncommented, Gather
<1>. QED
  BY <1>1, <1>4, GatherTyped

LEMMA UncommentedSame ==
  ASSUME NEW V, NEW f, NEW g, Reading(V, f, g), NEW s \in Seq(ItemSet)
  PROVE  Gather(f, Uncommented(s)) = Gather(f, s)
<1>1. f \in Reads(ItemSet, V) /\ Left \in Reads(ItemSet, ItemSet)
  BY UncommentedIs DEF Reading
<1>2. ASSUME NEW x \in ItemSet PROVE f[x] = Gather(f, Left[x])
  <2>1. CASE x.k \in Heads \cup {"close", "mark"}
    <3>1. x.k \in Aside
      BY <2>1 DEF Aside
    <3>2. f[x] = << >> /\ Left[x] = << >>
      BY <2>1, <3>1 DEF Left, Reading
    <3>. QED
      BY <3>2, GatherEmpty
  <2>2. CASE x.k \notin Heads \cup {"close", "mark"}
    <3>1. Left[x] = <<x>>
      BY <2>2 DEF Left
    <3>. QED
      BY <1>1, <3>1, GatherOne
  <2>. QED
    BY <2>1, <2>2
<1>3. Gather(f, Gather(Left, s)) = Gather(f, s)
  <2>1. Composed(ItemSet, Left, f, f)
    BY <1>2 DEF Composed
  <2>. QED
    BY <1>1, <2>1, GatherTwice
<1>. QED
  BY <1>3, UncommentedIs

LEMMA UncommentedAmong ==
  ASSUME NEW s \in Seq(ItemSet)
  PROVE  NoBlocks(s) => NoBlocks(Uncommented(s))
<1>. DEFINE P == {q \in Seq(ItemSet) : NoBlocks(q) => NoBlocks(Gather(Left, q))}
<1>1. << >> \in P
  <2>1. << >> \in Seq(ItemSet) /\ NoBlocks(<< >>)
    BY DEF NoBlocks
  <2>. QED
    BY <2>1, GatherEmpty
<1>2. ASSUME NEW q \in Seq(ItemSet), NEW x \in ItemSet, q \in P PROVE Append(q, x) \in P
  <2>1. Append(q, x) \in Seq(ItemSet)
    OBVIOUS
  <2>. SUFFICES ASSUME NoBlocks(Append(q, x)) PROVE NoBlocks(Gather(Left, Append(q, x)))
    BY <2>1
  <2>2. NoBlocks(q) /\ x.k # "block"
    <3>1. \A i \in 1 .. Len(q) : Append(q, x)[i] = q[i] /\ i \in 1 .. Len(Append(q, x))
      OBVIOUS
    <3>2. Append(q, x)[Len(q) + 1] = x /\ Len(q) + 1 \in 1 .. Len(Append(q, x))
      OBVIOUS
    <3>. QED
      BY <3>1, <3>2 DEF NoBlocks
  <2>3. NoBlocks(Gather(Left, q))
    BY <1>2, <2>2
  <2>4. Left \in Reads(ItemSet, ItemSet)
    BY UncommentedIs
  <2>. HIDE DEF P
  <2>5. Gather(Left, Append(q, x)) = Gather(Left, q) \o Left[x]
    BY <2>4, GatherAppend
  <2>6. PICK u \in Seq(ItemSet) : u = Gather(Left, q)
    BY <2>4, GatherTyped
  <2>7. CASE Left[x] = << >>
    <3>1. u \o << >> = u
      OBVIOUS
    <3>. QED
      BY <2>3, <2>5, <2>6, <2>7, <3>1
  <2>8. CASE Left[x] = <<x>>
    <3>1. u \o <<x>> = Append(u, x)
      OBVIOUS
    <3>2. Len(Append(u, x)) = Len(u) + 1 /\ Append(u, x)[Len(u) + 1] = x
          /\ \A i \in 1 .. Len(u) + 1 : i # Len(u) + 1 => i \in 1 .. Len(u) /\ Append(u, x)[i] = u[i]
      OBVIOUS
    <3>3. NoBlocks(Append(u, x))
      BY <2>2, <2>3, <2>6, <3>2 DEF NoBlocks
    <3>. QED
      BY <2>5, <2>6, <2>8, <3>1, <3>3
  <2>. QED
    BY <2>7, <2>8 DEF Left
<1>. HIDE DEF P
<1>3. s \in P
  BY <1>1, <1>2, ByAppend
<1>. QED
  BY <1>3, UncommentedIs DEF P

-----------------------------------------------------------------------------
(***************************************************************************)
(* What is made of a sequence, one element after the other.                *)
(***************************************************************************)
Folder(S, X, base, next) == base \in X /\ next \in [X -> [S -> X]]

Steps(X, base, next, s, h) ==
    /\ h[0] = base
    /\ \A k \in 1 .. Len(s) : h[k - 1] \in X => h[k] = next[h[k - 1]][s[k]]

FoldOver(X, base, next, s) == (CHOOSE h : Steps(X, base, next, s, h))[Len(s)]

LEMMA StepsExist ==
  ASSUME NEW S, NEW X, NEW base, NEW next, Folder(S, X, base, next), NEW s \in Seq(S)
  PROVE  \E h \in [0 .. Len(s) -> X] :
            h[0] = base /\ \A k \in 1 .. Len(s) : h[k] = next[h[k - 1]][s[k]]
<1>. DEFINE n == Len(s)
            step == [k \in 1 .. n |-> [x \in X |-> next[x][s[k]]]]
<1>1. n \in Nat /\ \A k \in 1 .. n : s[k] \in S
  OBVIOUS
<1>2. base \in X /\ \A x \in X, e \in S : next[x][e] \in X
  BY DEF Folder
<1>. HIDE DEF n
<1>3. step \in [1 .. n -> [X -> X]] /\ \A k \in 1 .. n, x \in X : step[k][x] = next[x][s[k]]
  BY <1>1, <1>2
<1>. HIDE DEF step
<1>4. PICK g \in [0 .. n -> X] : Recurs(g, n, base, step)
  BY <1>1, <1>2, <1>3, Recursion
<1>5. ASSUME NEW k \in 1 .. n PROVE g[k] = next[g[k - 1]][s[k]]
  <2>1. k - 1 \in 0 .. n
    BY <1>1
  <2>. QED
    BY <1>3, <1>4, <2>1 DEF Recurs
<1>6. g[0] = base
  BY <1>4 DEF Recurs
<1>. QED
  BY <1>4, <1>5, <1>6 DEF n

LEMMA StepsAgree ==
  ASSUME NEW S, NEW X, NEW base, NEW next, Folder(S, X, base, next),
         NEW s \in Seq(S), NEW r \in Seq(S), NEW n \in Nat, n <= Len(s), n <= Len(r),
         \A i \in 1 .. n : s[i] = r[i],
         NEW g, NEW h, Steps(X, base, next, s, g), Steps(X, base, next, r, h)
  PROVE  \A k \in 0 .. n : g[k] = h[k] /\ g[k] \in X
<1>. DEFINE P == {k \in Nat : k \in 0 .. n => g[k] = h[k] /\ g[k] \in X}
<1>1. 0 \in P
  BY DEF Steps, Folder
<1>2. ASSUME NEW k \in 1 .. n, k - 1 \in P PROVE k \in P
  <2>1. k \in Nat /\ k - 1 \in 0 .. n /\ k \in 1 .. Len(s) /\ k \in 1 .. Len(r)
    OBVIOUS
  <2>2. g[k - 1] = h[k - 1] /\ g[k - 1] \in X
    BY <1>2, <2>1
  <2>3. g[k] = next[g[k - 1]][s[k]] /\ h[k] = next[h[k - 1]][r[k]]
    BY <2>1, <2>2 DEF Steps
  <2>4. next[g[k - 1]][s[k]] \in X
    <3>1. s[k] \in S
      BY <2>1
    <3>. QED
      BY <2>2, <3>1 DEF Folder
  <2>. QED
    BY <2>1, <2>2, <2>3, <2>4
<1>. HIDE DEF P
<1>3. \A k \in 0 .. n : k \in P
  BY <1>1, <1>2, UpTo
<1>. QED
  BY <1>3 DEF P

LEMMA FoldedIs ==
  ASSUME NEW S, NEW X, NEW base, NEW next, Folder(S, X, base, next), NEW s \in Seq(S)
  PROVE  \E g : /\ Steps(X, base, next, s, g) /\ FoldOver(X, base, next, s) = g[Len(s)]
                /\ g[Len(s)] \in X
<1>1. \E h : Steps(X, base, next, s, h)
  BY StepsExist DEF Steps
<1>2. PICK g : Steps(X, base, next, s, g) /\ FoldOver(X, base, next, s) = g[Len(s)]
  BY <1>1 DEF FoldOver
<1>3. \A k \in 0 .. Len(s) : g[k] = g[k] /\ g[k] \in X
  <2>1. PICK n \in Nat : n = Len(s)
    OBVIOUS
  <2>2. n <= Len(s)
    BY <2>1
  <2>3. \A k \in 0 .. n : g[k] = g[k] /\ g[k] \in X
    BY <1>2, <2>2, StepsAgree
  <2>. QED
    BY <2>1, <2>3
<1>. QED
  BY <1>2, <1>3

LEMMA FoldedTyped ==
  ASSUME NEW S, NEW X, NEW base, NEW next, Folder(S, X, base, next), NEW s \in Seq(S)
  PROVE  FoldOver(X, base, next, s) \in X
  BY FoldedIs

\* The last of any steps is what is made.
LEMMA StepsEnd ==
  ASSUME NEW S, NEW X, NEW base, NEW next, Folder(S, X, base, next), NEW s \in Seq(S),
         NEW h, Steps(X, base, next, s, h)
  PROVE  h[Len(s)] = FoldOver(X, base, next, s)
<1>1. PICK g : Steps(X, base, next, s, g) /\ FoldOver(X, base, next, s) = g[Len(s)]
  BY FoldedIs
<1>2. PICK n \in Nat : n = Len(s) /\ n <= Len(s)
  OBVIOUS
<1>3. \A k \in 0 .. n : g[k] = h[k] /\ g[k] \in X
  BY <1>1, <1>2, StepsAgree
<1>. QED
  BY <1>1, <1>2, <1>3

LEMMA FoldedEmpty ==
  ASSUME NEW S, NEW X, NEW base, NEW next, Folder(S, X, base, next)
  PROVE  FoldOver(X, base, next, << >>) = base
<1>1. PICK s \in Seq(S) : s = << >>
  <2>1. << >> \in Seq(S)
    OBVIOUS
  <2>. QED
    BY <2>1
<1>2. PICK g : Steps(X, base, next, s, g) /\ FoldOver(X, base, next, s) = g[Len(s)]
  BY FoldedIs
<1>3. Len(s) = 0
  BY <1>1
<1>. QED
  BY <1>1, <1>2, <1>3 DEF Steps

LEMMA FoldedAppend ==
  ASSUME NEW S, NEW X, NEW base, NEW next, Folder(S, X, base, next), NEW s \in Seq(S), NEW e \in S
  PROVE  FoldOver(X, base, next, Append(s, e)) = next[FoldOver(X, base, next, s)][e]
<1>1. PICK r \in Seq(S) : r = Append(s, e)
  <2>1. Append(s, e) \in Seq(S)
    OBVIOUS
  <2>. QED
    BY <2>1
<1>2. PICK n \in Nat : /\ n = Len(s) /\ n + 1 = Len(r) /\ n <= Len(s) /\ n <= Len(r)
                       /\ (\A i \in 1 .. n : s[i] = r[i]) /\ r[n + 1] = e
  <2>1. /\ Len(s) \in Nat /\ Len(s) + 1 = Len(r) /\ (\A i \in 1 .. Len(s) : s[i] = r[i])
        /\ r[Len(s) + 1] = e /\ Len(s) <= Len(s) /\ Len(s) <= Len(r)
    BY <1>1
  <2>. QED
    BY <2>1
<1>3. PICK g : Steps(X, base, next, s, g) /\ FoldOver(X, base, next, s) = g[Len(s)]
  BY FoldedIs
<1>4. PICK h : Steps(X, base, next, r, h) /\ FoldOver(X, base, next, r) = h[Len(r)]
  BY FoldedIs
<1>5. \A k \in 0 .. n : g[k] = h[k] /\ g[k] \in X
  BY <1>2, <1>3, <1>4, StepsAgree
<1>6. g[n] = h[n] /\ h[n] \in X
  BY <1>5
<1>7. n + 1 \in 1 .. Len(r) /\ n + 1 - 1 = n
  BY <1>2
<1>8. h[n + 1] = next[h[n]][r[n + 1]]
  BY <1>4, <1>6, <1>7 DEF Steps
<1>. QED
  BY <1>1, <1>2, <1>3, <1>4, <1>6, <1>8

LEMMA NoBlocksAppend ==
  ASSUME NEW s \in Seq(ItemSet), NEW x \in ItemSet
  PROVE  NoBlocks(Append(s, x)) <=> NoBlocks(s) /\ x.k # "block"
<1>1. /\ Len(Append(s, x)) = Len(s) + 1 /\ Len(s) \in Nat
      /\ \A i \in 1 .. Len(s) + 1 : Append(s, x)[i] = IF i = Len(s) + 1 THEN x ELSE s[i]
  OBVIOUS
<1>2. /\ \A i \in 1 .. Len(s) : i \in 1 .. Len(s) + 1 /\ i # Len(s) + 1
      /\ \A i \in 1 .. Len(s) + 1 : i # Len(s) + 1 => i \in 1 .. Len(s)
      /\ Len(s) + 1 \in 1 .. Len(s) + 1
  BY <1>1
<1>. QED
  BY <1>1, <1>2 DEF NoBlocks

LEMMA StrippedTyped ==
  ASSUME NEW s \in Seq(ItemSet)
  PROVE  Stripped(s) \in Seq(ItemSet)
<1>1. << >> \in Seq(ItemSet)
  OBVIOUS
<1>. QED
  BY <1>1, StrippedIs

-----------------------------------------------------------------------------
LEMMA MarkdownTyped ==
  ASSUME NEW s \in Seq(ItemSet), NEW l \in LayerName
  PROVE  Markdown(s, l) \in Seq(BlockSet)
<1>1. PICK c \in Seq(ItemSet) : c = Stripped(Uncommented(s))
  BY UncommentedIs, StrippedTyped
<1>2. Markdown(s, l) = IF c = << >> THEN << >> ELSE <<Block("markdown", l, c)>>
  BY <1>1 DEF Markdown
<1>3. Block("markdown", l, c) \in BlockSet
  BY BlockIs
<1>. QED
  BY <1>2, <1>3

LEMMA MarkdownSame ==
  ASSUME NEW V, NEW f, NEW g, Reading(V, f, g), NEW s \in Seq(ItemSet), NoBlocks(s),
         NEW l \in LayerName
  PROVE  Gather(g, Markdown(s, l)) = Gather(f, s)
<1>. DEFINE r == Uncommented(s)
            c == Stripped(r)
<1>1. r \in Seq(ItemSet) /\ NoBlocks(r)
  BY UncommentedIs, UncommentedAmong
<1>2. Gather(f, r) = Gather(f, s)
  BY UncommentedSame
<1>3. Markdown(s, l) = IF c = << >> THEN << >> ELSE <<Block("markdown", l, c)>>
  BY DEF Markdown
<1>. HIDE DEF r
<1>4. c \in Seq(ItemSet) /\ NoBlocks(c) /\ Gather(f, c) = Gather(f, r)
  BY <1>1, StrippedSame, NoBlocksAmong
<1>. HIDE DEF c
<1>5. CASE c = << >>
  BY <1>2, <1>3, <1>4, <1>5, GatherEmpty
<1>6. CASE c # << >>
  <2>1. PICK b \in BlockSet : b = Block("markdown", l, c)
    BY <1>4, BlockIs
  <2>2. g \in Reads(BlockSet, V) /\ g[b] = Gather(f, c)
    BY <1>4, <2>1 DEF Reading
  <2>3. Gather(g, <<b>>) = g[b]
    BY <2>2, GatherOne
  <2>. QED
    BY <1>2, <1>3, <1>4, <1>6, <2>1, <2>2, <2>3
<1>. QED
  BY <1>5, <1>6

-----------------------------------------------------------------------------
(***************************************************************************)
(* A section with blocks: the layer in force, the prose since the last     *)
(* block, and the blocks.                                                  *)
(***************************************************************************)
Acc == {a \in [layer : LayerName, prose : Seq(ItemSet), out : Seq(BlockSet)] : NoBlocks(a.prose)}

AccOf(l, p, o) == [layer |-> l, prose |-> p, out |-> o]

LEMMA AccIs ==
  ASSUME NEW l \in LayerName, NEW p \in Seq(ItemSet), NEW o \in Seq(BlockSet), NoBlocks(p)
  PROVE  /\ AccOf(l, p, o) \in Acc
         /\ AccOf(l, p, o).layer = l /\ AccOf(l, p, o).prose = p /\ AccOf(l, p, o).out = o
  BY DEF Acc, AccOf

LEMMA AccFields ==
  ASSUME NEW acc \in Acc
  PROVE  /\ acc.layer \in LayerName /\ acc.prose \in Seq(ItemSet) /\ acc.out \in Seq(BlockSet)
         /\ acc = AccOf(acc.layer, acc.prose, acc.out) /\ NoBlocks(acc.prose)
  BY DEF Acc, AccOf

LEMMA BlockLayerTyped ==
  ASSUME NEW x \in ItemSet, NEW l \in LayerName
  PROVE  BlockLayer(x, l) \in LayerName
  BY ItemsAre DEF BlockLayer

\* The item's own block, after those of the prose before it.
BlocksOf(x, l, p, o) == o \o Markdown(p, l) \o <<Block("block", BlockLayer(x, l), <<x>>)>>

LEMMA ReadItemIs ==
  ASSUME NEW l, NEW p, NEW o, NEW x
  PROVE  /\ x.k = "mark" => ReadItem(AccOf(l, p, o), x) = AccOf(x.layer, p, o)
         /\ x.k = "block" => ReadItem(AccOf(l, p, o), x) = AccOf(l, << >>, BlocksOf(x, l, p, o))
         /\ x.k \notin {"mark", "block"} => ReadItem(AccOf(l, p, o), x) = AccOf(l, Append(p, x), o)
<1>. DEFINE acc == [layer |-> l, prose |-> p, out |-> o]
<1>1. AccOf(l, p, o) = acc
  BY DEF AccOf
<1>2. CASE x.k = "mark"
  <2>1. ReadItem(acc, x) = [acc EXCEPT !.layer = x.layer]
    BY <1>2 DEF ReadItem
  <2>2. [acc EXCEPT !.layer = x.layer] = [layer |-> x.layer, prose |-> p, out |-> o]
    OBVIOUS
  <2>. QED
    BY <1>1, <1>2, <2>1, <2>2 DEF AccOf
<1>3. CASE x.k = "block"
  <2>. DEFINE y == BlocksOf(x, l, p, o)
  <2>1. ReadItem(acc, x) = [acc EXCEPT !.prose = << >>, !.out = y]
    BY <1>3 DEF ReadItem, BlocksOf
  <2>. HIDE DEF y
  <2>2. [acc EXCEPT !.prose = << >>, !.out = y] = [layer |-> l, prose |-> << >>, out |-> y]
    <3>. DEFINE b == [acc EXCEPT !.prose = << >>]
    <3>1. [acc EXCEPT !.prose = << >>, !.out = y] = [b EXCEPT !.out = y]
      BY Zenon
    <3>2. b = [layer |-> l, prose |-> << >>, out |-> o]
      OBVIOUS
    <3>3. [[layer |-> l, prose |-> << >>, out |-> o] EXCEPT !.out = y]
          = [layer |-> l, prose |-> << >>, out |-> y]
      OBVIOUS
    <3>. HIDE DEF b, acc
    <3>. QED
      BY <3>1, <3>2, <3>3
  <2>. QED
    BY <1>1, <1>3, <2>1, <2>2 DEF AccOf, y
<1>4. CASE x.k \notin {"mark", "block"}
  <2>. DEFINE y == Append(p, x)
  <2>1. ReadItem(acc, x) = [acc EXCEPT !.prose = y]
    BY <1>4 DEF ReadItem
  <2>. HIDE DEF y
  <2>2. [acc EXCEPT !.prose = y] = [layer |-> l, prose |-> y, out |-> o]
    OBVIOUS
  <2>. QED
    BY <1>1, <1>4, <2>1, <2>2 DEF AccOf, y
<1>. QED
  BY <1>2, <1>3, <1>4

LEMMA BlocksOfTyped ==
  ASSUME NEW x \in ItemSet, NEW l \in LayerName, NEW p \in Seq(ItemSet), NEW o \in Seq(BlockSet)
  PROVE  BlocksOf(x, l, p, o) \in Seq(BlockSet)
<1>1. PICK b \in BlockSet : b = Block("block", BlockLayer(x, l), <<x>>)
  <2>1. <<x>> \in Seq(ItemSet) /\ BlockLayer(x, l) \in LayerName
    BY BlockLayerTyped
  <2>. QED
    BY <2>1, BlockIs
<1>2. PICK m \in Seq(BlockSet) : m = Markdown(p, l)
  BY MarkdownTyped
<1>3. o \o m \o <<b>> \in Seq(BlockSet)
  OBVIOUS
<1>. QED
  BY <1>1, <1>2, <1>3 DEF BlocksOf

LEMMA ReadItemTyped ==
  ASSUME NEW acc \in Acc, NEW x \in ItemSet
  PROVE  ReadItem(acc, x) \in Acc
<1>1. PICK l \in LayerName, p \in Seq(ItemSet), o \in Seq(BlockSet) :
         acc = AccOf(l, p, o) /\ NoBlocks(p)
  BY AccFields
<1>2. x.k = "mark" => AccOf(x.layer, p, o) \in Acc
  BY <1>1, AccIs, ItemsAre
<1>3. x.k = "block" => AccOf(l, << >>, BlocksOf(x, l, p, o)) \in Acc
  <2>1. << >> \in Seq(ItemSet) /\ NoBlocks(<< >>)
    BY DEF NoBlocks
  <2>. QED
    BY <2>1, AccIs, BlocksOfTyped
<1>4. x.k \notin {"mark", "block"} => AccOf(l, Append(p, x), o) \in Acc
  <2>1. Append(p, x) \in Seq(ItemSet)
    OBVIOUS
  <2>. QED
    BY <1>1, <2>1, AccIs, NoBlocksAppend
<1>. QED
  BY <1>1, <1>2, <1>3, <1>4, ReadItemIs

NextItem == [acc \in Acc |-> [x \in ItemSet |-> ReadItem(acc, x)]]
AtFirst(before) == AccOf(before, << >>, << >>)
AllRead(s, before) == FoldOver(Acc, AtFirst(before), NextItem, s)

LEMMA ItemsFold ==
  ASSUME NEW before \in LayerName
  PROVE  /\ Folder(ItemSet, Acc, AtFirst(before), NextItem)
         /\ \A acc \in Acc, x \in ItemSet : NextItem[acc][x] = ReadItem(acc, x)
<1>1. << >> \in Seq(ItemSet) /\ << >> \in Seq(BlockSet) /\ NoBlocks(<< >>)
  BY DEF NoBlocks
<1>2. AtFirst(before) \in Acc
  BY <1>1, AccIs DEF AtFirst
<1>3. NextItem \in [Acc -> [ItemSet -> Acc]] /\ \A acc \in Acc, x \in ItemSet : NextItem[acc][x] = ReadItem(acc, x)
  BY ReadItemTyped DEF NextItem
<1>. QED
  BY <1>2, <1>3 DEF Folder

ReadAt(s, before, h) ==
    h = [k \in 0 .. Len(s) |-> IF k = 0 THEN [layer |-> before, prose |-> << >>, out |-> << >>]
                               ELSE ReadItem(h[k - 1], s[k])]

LEMMA WithBlocksIs ==
  ASSUME NEW s \in Seq(ItemSet), NEW before \in LayerName
  PROVE  /\ AllRead(s, before) \in Acc
         /\ WithBlocks(s, before) =
              [layer |-> AllRead(s, before).layer,
               out |-> AllRead(s, before).out
                       \o Markdown(AllRead(s, before).prose, AllRead(s, before).layer)]
<1>. DEFINE n == Len(s)
            base == AtFirst(before)
<1>1. n \in Nat /\ Folder(ItemSet, Acc, base, NextItem)
      /\ \A acc \in Acc, x \in ItemSet : NextItem[acc][x] = ReadItem(acc, x)
  BY ItemsFold
<1>2. base = [layer |-> before, prose |-> << >>, out |-> << >>]
  BY DEF AtFirst, AccOf
<1>3. \A k \in 1 .. n : s[k] \in ItemSet /\ k - 1 \in 0 .. n /\ k \in 0 .. n /\ k # 0
  BY <1>1
<1>. HIDE DEF n, base
<1>4. \E h : ReadAt(s, before, h)
  <2>1. PICK h \in [0 .. n -> Acc] :
           h[0] = base /\ \A k \in 1 .. n : h[k] = NextItem[h[k - 1]][s[k]]
    BY <1>1, StepsExist DEF n
  <2>2. \A k \in 1 .. n : h[k] = ReadItem(h[k - 1], s[k])
    BY <1>1, <1>3, <2>1
  <2>3. \A k \in 0 .. n : k = 0 \/ k \in 1 .. n
    BY <1>1
  <2>4. h = [k \in 0 .. n |-> IF k = 0 THEN base ELSE ReadItem(h[k - 1], s[k])]
    BY <1>3, <2>1, <2>2, <2>3
  <2>. QED
    BY <1>2, <2>4 DEF ReadAt, n
<1>5. PICK h : ReadAt(s, before, h) /\ h = CHOOSE g : ReadAt(s, before, g)
  BY <1>4
<1>6. Steps(Acc, base, NextItem, s, h)
  <2>1. h[0] = base /\ \A k \in 1 .. n : h[k] = ReadItem(h[k - 1], s[k])
    <3>1. h = [k \in 0 .. n |-> IF k = 0 THEN base ELSE ReadItem(h[k - 1], s[k])]
      BY <1>2, <1>5 DEF ReadAt, n
    <3>2. 0 \in 0 .. n
      BY <1>1
    <3>. QED
      BY <1>3, <3>1, <3>2
  <2>. QED
    BY <1>1, <1>3, <2>1 DEF Steps, n
<1>7. h[n] = AllRead(s, before)
  BY <1>1, <1>6, StepsEnd DEF AllRead, base, n
<1>8. AllRead(s, before) \in Acc
  BY <1>1, FoldedTyped DEF AllRead, base
<1>9. WithBlocks(s, before) = [layer |-> h[n].layer, out |-> h[n].out \o Markdown(h[n].prose, h[n].layer)]
  BY <1>5 DEF WithBlocks, ReadAt, n
<1>. QED
  BY <1>7, <1>8, <1>9

LEMMA AllReadOn ==
  ASSUME NEW before \in LayerName
  PROVE  /\ AllRead(<< >>, before) = AtFirst(before)
         /\ \A s \in Seq(ItemSet), x \in ItemSet :
               AllRead(Append(s, x), before) = ReadItem(AllRead(s, before), x)
<1>1. Folder(ItemSet, Acc, AtFirst(before), NextItem)
      /\ \A acc \in Acc, x \in ItemSet : NextItem[acc][x] = ReadItem(acc, x)
  BY ItemsFold
<1>2. AllRead(<< >>, before) = AtFirst(before)
  BY <1>1, FoldedEmpty DEF AllRead
<1>3. ASSUME NEW s \in Seq(ItemSet), NEW x \in ItemSet
      PROVE  AllRead(Append(s, x), before) = ReadItem(AllRead(s, before), x)
  <2>1. AllRead(s, before) \in Acc
    BY WithBlocksIs
  <2>2. AllRead(Append(s, x), before) = NextItem[AllRead(s, before)][x]
    BY <1>1, FoldedAppend DEF AllRead
  <2>. QED
    BY <1>1, <2>1, <2>2
<1>. QED
  BY <1>2, <1>3

LEMMA ReadingGathers ==
  ASSUME NEW V, NEW f, NEW g, Reading(V, f, g)
  PROVE  /\ \A u, v \in Seq(ItemSet) : Gather(f, u \o v) = Gather(f, u) \o Gather(f, v)
         /\ \A u, v \in Seq(BlockSet) : Gather(g, u \o v) = Gather(g, u) \o Gather(g, v)
         /\ \A s \in Seq(ItemSet), x \in ItemSet : Gather(f, Append(s, x)) = Gather(f, s) \o f[x]
         /\ \A x \in ItemSet : Gather(f, <<x>>) = f[x] /\ f[x] \in Seq(V)
         /\ \A b \in BlockSet : Gather(g, <<b>>) = g[b]
         /\ \A s \in Seq(ItemSet) : Gather(f, s) \in Seq(V)
         /\ \A s \in Seq(BlockSet) : Gather(g, s) \in Seq(V)
<1>1. f \in Reads(ItemSet, V) /\ g \in Reads(BlockSet, V)
  BY DEF Reading
<1>2. \A u, v \in Seq(ItemSet) : Gather(f, u \o v) = Gather(f, u) \o Gather(f, v)
  BY <1>1, GatherConcat
<1>3. \A u, v \in Seq(BlockSet) : Gather(g, u \o v) = Gather(g, u) \o Gather(g, v)
  BY <1>1, GatherConcat
<1>4. \A s \in Seq(ItemSet), x \in ItemSet : Gather(f, Append(s, x)) = Gather(f, s) \o f[x]
  BY <1>1, GatherAppend
<1>5. \A x \in ItemSet : Gather(f, <<x>>) = f[x] /\ f[x] \in Seq(V)
  <2>1. \A x \in ItemSet : f[x] \in Seq(V)
    BY <1>1 DEF Reads
  <2>. QED
    BY <1>1, <2>1, GatherOne
<1>6. \A b \in BlockSet : Gather(g, <<b>>) = g[b]
  BY <1>1, GatherOne
<1>7. \A s \in Seq(ItemSet) : Gather(f, s) \in Seq(V)
  BY <1>1, GatherTyped
<1>8. \A s \in Seq(BlockSet) : Gather(g, s) \in Seq(V)
  BY <1>1, GatherTyped
<1>. QED
  BY <1>2, <1>3, <1>4, <1>5, <1>6, <1>7, <1>8

-----------------------------------------------------------------------------
\* What is told of the blocks so far and of the prose after them.
Told(f, g, acc) == Gather(g, acc.out) \o Gather(f, acc.prose)

LEMMA ToldOf ==
  ASSUME NEW f, NEW g, NEW l \in LayerName, NEW p \in Seq(ItemSet), NEW o \in Seq(BlockSet),
         NoBlocks(p)
  PROVE  Told(f, g, AccOf(l, p, o)) = Gather(g, o) \o Gather(f, p)
  BY DEF Told, AccOf

LEMMA ToldOneMore ==
  ASSUME NEW V, NEW f, NEW g, Reading(V, f, g), NEW acc \in Acc, NEW x \in ItemSet
  PROVE  Told(f, g, ReadItem(acc, x)) = Told(f, g, acc) \o f[x]
<1>1. PICK l \in LayerName, p \in Seq(ItemSet), o \in Seq(BlockSet) :
         acc = AccOf(l, p, o) /\ NoBlocks(p)
  BY AccFields
<1>2. Told(f, g, acc) = Gather(g, o) \o Gather(f, p)
  BY <1>1, ToldOf
<1>0. /\ \A a, b \in Seq(BlockSet) : Gather(g, a \o b) = Gather(g, a) \o Gather(g, b)
      /\ \A b \in BlockSet : Gather(g, <<b>>) = g[b]
  BY ReadingGathers, SMTT(30)
<1>3. PICK u \in Seq(V), v \in Seq(V), w \in Seq(V) :
         u = Gather(g, o) /\ v = Gather(f, p) /\ w = f[x]
  BY ReadingGathers
<1>4. CASE x.k = "mark"
  <2>1. w = << >>
    BY <1>3, <1>4 DEF Reading, Aside
  <2>2. Told(f, g, ReadItem(acc, x)) = Gather(g, o) \o Gather(f, p)
    <3>1. ReadItem(acc, x) = AccOf(x.layer, p, o) /\ x.layer \in LayerName
      BY <1>1, <1>4, ReadItemIs, ItemsAre
    <3>. QED
      BY <1>1, <3>1, ToldOf
  <2>3. (u \o v) \o << >> = u \o v
    <3>1. PICK r \in Seq(V) : r = u \o v
      BY InSequence
    <3>. QED
      BY <3>1, InSequence
  <2>. QED
    BY <1>2, <1>3, <2>1, <2>2, <2>3
<1>5. CASE x.k = "block"
  <2>1. PICK b \in BlockSet, m \in Seq(BlockSet) :
           b = Block("block", BlockLayer(x, l), <<x>>) /\ m = Markdown(p, l)
    <3>1. <<x>> \in Seq(ItemSet) /\ BlockLayer(x, l) \in LayerName
      BY BlockLayerTyped
    <3>. QED
      BY <3>1, BlockIs, MarkdownTyped
  <2>2. g[b] = w
    BY <1>3, <1>5, <2>1, BlockLayerTyped DEF Reading
  <2>3. Gather(g, m) = v
    BY <1>1, <1>3, <2>1, MarkdownSame
  <2>4. ReadItem(acc, x) = AccOf(l, << >>, o \o m \o <<b>>)
    <3>1. ReadItem(AccOf(l, p, o), x) = AccOf(l, << >>, BlocksOf(x, l, p, o))
      BY <1>5, ReadItemIs
    <3>2. BlocksOf(x, l, p, o) = o \o m \o <<b>>
      BY <2>1 DEF BlocksOf
    <3>. QED
      BY <1>1, <3>1, <3>2
  <2>5. PICK om \in Seq(BlockSet), bb \in Seq(BlockSet), all \in Seq(BlockSet) :
           om = o \o m /\ bb = <<b>> /\ all = om \o bb
    <3>1. o \o m \in Seq(BlockSet) /\ <<b>> \in Seq(BlockSet) /\ (o \o m) \o <<b>> \in Seq(BlockSet)
      OBVIOUS
    <3>. QED
      BY <3>1
  <2>6. Gather(g, om) = u \o v
    BY <1>0, <1>3, <2>3, <2>5, ZenonT(60)
  <2>7. Gather(g, all) = (u \o v) \o w
    <3>1. Gather(g, all) = Gather(g, om) \o Gather(g, bb)
      BY <1>0, <2>5
    <3>2. Gather(g, bb) = w
      BY <1>0, <2>2, <2>5
    <3>. QED
      BY <2>6, <3>1, <3>2
  <2>8. Told(f, g, ReadItem(acc, x)) = Gather(g, all) \o << >>
    <3>1. ReadItem(acc, x) = AccOf(l, << >>, all) /\ << >> \in Seq(ItemSet) /\ NoBlocks(<< >>)
      BY <2>4, <2>5 DEF NoBlocks
    <3>2. Told(f, g, AccOf(l, << >>, all)) = Gather(g, all) \o Gather(f, << >>)
      BY <3>1, ToldOf
    <3>. QED
      BY <3>1, <3>2, GatherEmpty
  <2>9. Gather(g, all) \o << >> = Gather(g, all)
    <3>1. PICK r \in Seq(V) : r = Gather(g, all)
      BY ReadingGathers
    <3>. QED
      BY <3>1, InSequence
  <2>. QED
    BY <1>2, <1>3, <2>7, <2>8, <2>9
<1>6. CASE x.k \notin {"mark", "block"}
  <2>1. Append(p, x) \in Seq(ItemSet) /\ NoBlocks(Append(p, x))
    BY <1>1, <1>6, NoBlocksAppend
  <2>2. ReadItem(acc, x) = AccOf(l, Append(p, x), o)
    BY <1>1, <1>6, ReadItemIs
  <2>3. Told(f, g, ReadItem(acc, x)) = Gather(g, o) \o Gather(f, Append(p, x))
    BY <2>1, <2>2, ToldOf
  <2>4. Gather(f, Append(p, x)) = v \o w
    BY <1>3, ReadingGathers
  <2>5. (u \o v) \o w = u \o (v \o w)
    BY InSequence, SMTT(30)
  <2>. QED
    BY <1>2, <1>3, <2>3, <2>4, <2>5
<1>. QED
  BY <1>4, <1>5, <1>6

LEMMA WithBlocksSame ==
  ASSUME NEW V, NEW f, NEW g, Reading(V, f, g), NEW s \in Seq(ItemSet), NEW before \in LayerName
  PROVE  Gather(g, WithBlocks(s, before).out) = Gather(f, s)
<1>. DEFINE P == {q \in Seq(ItemSet) : Told(f, g, AllRead(q, before)) = Gather(f, q)}
<1>1. << >> \in P
  <2>1. << >> \in Seq(ItemSet) /\ << >> \in Seq(BlockSet) /\ NoBlocks(<< >>)
    BY DEF NoBlocks
  <2>2. AllRead(<< >>, before) = AccOf(before, << >>, << >>)
    BY AllReadOn DEF AtFirst
  <2>3. Told(f, g, AllRead(<< >>, before)) = << >> \o << >>
    <3>1. Told(f, g, AccOf(before, << >>, << >>)) = Gather(g, << >>) \o Gather(f, << >>)
      BY <2>1, ToldOf
    <3>. QED
      BY <2>2, <3>1, GatherEmpty
  <2>4. << >> \o << >> = << >>
    OBVIOUS
  <2>. QED
    BY <2>1, <2>3, <2>4, GatherEmpty
<1>2. ASSUME NEW q \in Seq(ItemSet), NEW x \in ItemSet, q \in P PROVE Append(q, x) \in P
  <2>1. Append(q, x) \in Seq(ItemSet)
    OBVIOUS
  <2>2. AllRead(q, before) \in Acc /\ AllRead(Append(q, x), before) = ReadItem(AllRead(q, before), x)
    BY WithBlocksIs, AllReadOn
  <2>3. Told(f, g, ReadItem(AllRead(q, before), x)) = Told(f, g, AllRead(q, before)) \o f[x]
    BY <2>2, ToldOneMore
  <2>4. Gather(f, Append(q, x)) = Gather(f, q) \o f[x]
    BY ReadingGathers
  <2>. QED
    BY <1>2, <2>1, <2>2, <2>3, <2>4
<1>. HIDE DEF P
<1>3. s \in P
  BY <1>1, <1>2, ByAppend
<1>4. PICK acc \in Acc : acc = AllRead(s, before)
  BY WithBlocksIs
<1>5. WithBlocks(s, before).out = acc.out \o Markdown(acc.prose, acc.layer)
  <2>1. PICK y : y = acc.out \o Markdown(acc.prose, acc.layer)
    OBVIOUS
  <2>2. WithBlocks(s, before) = [layer |-> acc.layer, out |-> y]
    BY <1>4, <2>1, WithBlocksIs, Zenon
  <2>3. WithBlocks(s, before).out = y
    BY <2>2
  <2>. QED
    BY <2>1, <2>3
<1>6. PICK m \in Seq(BlockSet), o \in Seq(BlockSet) : m = Markdown(acc.prose, acc.layer) /\ o = acc.out
  BY AccFields, MarkdownTyped
<1>7. Gather(g, m) = Gather(f, acc.prose)
  BY <1>6, AccFields, MarkdownSame
<1>8. Gather(g, o \o m) = Gather(g, o) \o Gather(g, m)
  BY ReadingGathers
<1>. QED
  BY <1>3, <1>4, <1>5, <1>6, <1>7, <1>8 DEF P, Told

LEMMA WithBlocksTyped ==
  ASSUME NEW s \in Seq(ItemSet), NEW before \in LayerName
  PROVE  WithBlocks(s, before).layer \in LayerName /\ WithBlocks(s, before).out \in Seq(BlockSet)
<1>1. PICK acc \in Acc : acc = AllRead(s, before)
  BY WithBlocksIs
<1>2. PICK m \in Seq(BlockSet), o \in Seq(BlockSet) : m = Markdown(acc.prose, acc.layer) /\ o = acc.out
  BY AccFields, MarkdownTyped
<1>3. o \o m \in Seq(BlockSet) /\ acc.layer \in LayerName
  BY AccFields
<1>4. WithBlocks(s, before) = [layer |-> acc.layer, out |-> acc.out \o Markdown(acc.prose, acc.layer)]
  BY <1>1, WithBlocksIs
<1>. QED
  BY <1>2, <1>3, <1>4

-----------------------------------------------------------------------------
(***************************************************************************)
(* A section without blocks.                                               *)
(***************************************************************************)
LEMMA AfterFirst ==
  ASSUME NEW S, NEW s \in Seq(S), s # << >>
  PROVE  /\ s[1] \in S /\ Tail(s) \in Seq(S) /\ s = <<s[1]>> \o Tail(s)
         /\ Len(Tail(s)) = Len(s) - 1
         /\ \A i \in 1 .. Len(Tail(s)) : i + 1 \in 1 .. Len(s) /\ Tail(s)[i] = s[i + 1]
<1>1. Len(s) \in Nat \ {0}
  OBVIOUS
<1>2. s[1] \in S /\ Tail(s) \in Seq(S) /\ Len(Tail(s)) = Len(s) - 1
      /\ \A i \in 1 .. Len(s) - 1 : i + 1 \in 1 .. Len(s) /\ Tail(s)[i] = s[i + 1]
  BY <1>1
<1>3. PICK t \in Seq(S), x \in S : t = Tail(s) /\ x = s[1]
  BY <1>2
<1>4. /\ <<x>> \o t \in Seq(S) /\ Len(<<x>> \o t) = Len(t) + 1
      /\ \A i \in 1 .. Len(t) + 1 : (<<x>> \o t)[i] = IF i = 1 THEN x ELSE t[i - 1]
  OBVIOUS
<1>5. Len(t) + 1 = Len(s) /\ \A i \in 1 .. Len(s) : (<<x>> \o t)[i] = s[i]
  <2>1. \A i \in 1 .. Len(s) : i # 1 => i - 1 \in 1 .. Len(s) - 1 /\ (i - 1) + 1 = i
    BY <1>1
  <2>2. Len(t) + 1 = Len(s)
    BY <1>1, <1>2, <1>3
  <2>. QED
    BY <1>2, <1>3, <1>4, <2>1, <2>2
<1>6. <<x>> \o t = s
  <2>1. PICK c \in Seq(S) : c = <<x>> \o t
    BY <1>4
  <2>2. c = [i \in 1 .. Len(c) |-> c[i]] /\ s = [i \in 1 .. Len(s) |-> s[i]] /\ Len(c) = Len(s)
    BY <1>4, <1>5, <2>1
  <2>. QED
    BY <1>5, <2>1, <2>2
<1>. QED
  BY <1>2, <1>3, <1>6

LEMMA WithoutBlocksIs ==
  ASSUME NEW s \in Seq(ItemSet), NEW before \in LayerName
  PROVE  \E l \in LayerName : \E r \in Seq(ItemSet) :
            /\ WithoutBlocks(s, before) =
                 [layer |-> l, out |-> IF \E x \in ToSet(r) : x.k = "quiz" THEN <<Block("quiz", l, r)>>
                                       ELSE Markdown(r, l)]
            /\ NoBlocks(s) => NoBlocks(r)
            /\ \A V, f, g : Reading(V, f, g) => Gather(f, r) = Gather(f, s)
<1>. DEFINE w == Stripped(s)
            led == w # << >> /\ w[1].k = "mark"
            l == IF led THEN w[1].layer ELSE before
            r == IF led THEN Tail(w) ELSE w
<1>1. w \in Seq(ItemSet) /\ (NoBlocks(s) => NoBlocks(w))
      /\ \A V, f, g : Reading(V, f, g) => Gather(f, w) = Gather(f, s)
  <2>1. TakenFrom(w, s)
    <3>1. TakenFrom(<< >>, s)
      BY DEF TakenFrom
    <3>. QED
      BY <3>1, StrippedIs
  <2>2. NoBlocks(s) => NoBlocks(w)
    BY <2>1, NoBlocksAmong
  <2>3. \A V, f, g : Reading(V, f, g) => Gather(f, w) = Gather(f, s)
    BY StrippedSame
  <2>. QED
    BY <2>2, <2>3, StrippedTyped
<1>2. WithoutBlocks(s, before) =
         [layer |-> l, out |-> IF \E x \in ToSet(r) : x.k = "quiz" THEN <<Block("quiz", l, r)>>
                               ELSE Markdown(r, l)]
  BY DEF WithoutBlocks
<1>. HIDE DEF w
<1>3. CASE ~ led
  <2>1. l = before /\ r = w
    BY <1>3
  <2>. QED
    BY <1>1, <1>2, <2>1
<1>4. CASE led
  <2>1. l = w[1].layer /\ r = Tail(w) /\ w # << >> /\ w[1].k = "mark"
    BY <1>4
  <2>2. PICK x \in ItemSet, t \in Seq(ItemSet) :
           /\ x = w[1] /\ t = Tail(w) /\ w = <<x>> \o t
           /\ \A i \in 1 .. Len(t) : i + 1 \in 1 .. Len(w) /\ t[i] = w[i + 1]
    <3>1. /\ w[1] \in ItemSet /\ Tail(w) \in Seq(ItemSet) /\ w = <<w[1]>> \o Tail(w)
          /\ \A i \in 1 .. Len(Tail(w)) : i + 1 \in 1 .. Len(w) /\ Tail(w)[i] = w[i + 1]
      BY <1>1, <2>1, AfterFirst
    <3>. QED
      BY <3>1, Zenon
  <2>3. l \in LayerName /\ r \in Seq(ItemSet)
    BY <2>1, <2>2, ItemsAre
  <2>4. NoBlocks(s) => NoBlocks(r)
    BY <1>1, <2>1, <2>2 DEF NoBlocks
  <2>5. ASSUME NEW V, NEW f, NEW g, Reading(V, f, g) PROVE Gather(f, t) = Gather(f, s)
    <3>1. f[x] = << >>
      BY <2>1, <2>2, <2>5 DEF Reading, Aside
    <3>2. PICK u \in Seq(V), q \in Seq(ItemSet) : u = Gather(f, t) /\ q = <<x>>
      <4>1. <<x>> \in Seq(ItemSet)
        OBVIOUS
      <4>. QED
        BY <2>5, <4>1, ReadingGathers
    <3>3. Gather(f, q \o t) = Gather(f, q) \o Gather(f, t)
      BY <2>5, ReadingGathers, SMTT(30)
    <3>4. Gather(f, q) = << >>
      BY <2>5, <3>1, <3>2, ReadingGathers
    <3>5. << >> \o u = u
      BY InSequence
    <3>. QED
      BY <1>1, <2>2, <2>5, <3>2, <3>3, <3>4, <3>5
  <2>6. \A V, f, g : Reading(V, f, g) => Gather(f, r) = Gather(f, s)
    BY <2>1, <2>2, <2>5
  <2>. HIDE DEF l, r
  <2>. QED
    BY <1>2, <2>3, <2>4, <2>6
<1>. QED
  BY <1>3, <1>4

LEMMA WithoutBlocksTyped ==
  ASSUME NEW s \in Seq(ItemSet), NEW before \in LayerName
  PROVE  WithoutBlocks(s, before).layer \in LayerName /\ WithoutBlocks(s, before).out \in Seq(BlockSet)
<1>1. PICK l \in LayerName, r \in Seq(ItemSet) :
         /\ WithoutBlocks(s, before) =
              [layer |-> l, out |-> IF \E x \in ToSet(r) : x.k = "quiz" THEN <<Block("quiz", l, r)>>
                                    ELSE Markdown(r, l)]
         /\ NoBlocks(s) => NoBlocks(r)
         /\ \A W, a, b : Reading(W, a, b) => Gather(a, r) = Gather(a, s)
  BY WithoutBlocksIs, Zenon
<1>2. PICK b \in BlockSet, m \in Seq(BlockSet) : b = Block("quiz", l, r) /\ m = Markdown(r, l)
  BY BlockIs, MarkdownTyped
<1>3. PICK out \in Seq(BlockSet) :
         out = IF \E x \in ToSet(r) : x.k = "quiz" THEN <<Block("quiz", l, r)>> ELSE Markdown(r, l)
  <2>1. <<b>> \in Seq(BlockSet)
    OBVIOUS
  <2>. QED
    BY <1>2, <2>1
<1>4. WithoutBlocks(s, before) = [layer |-> l, out |-> out]
  BY <1>1, <1>3
<1>. QED
  BY <1>4

LEMMA WithoutBlocksSame ==
  ASSUME NEW V, NEW f, NEW g, Reading(V, f, g), NEW s \in Seq(ItemSet), NEW before \in LayerName,
         NoBlocks(s)
  PROVE  Gather(g, WithoutBlocks(s, before).out) = Gather(f, s)
<1>1. PICK l \in LayerName, r \in Seq(ItemSet) :
         /\ WithoutBlocks(s, before) =
              [layer |-> l, out |-> IF \E x \in ToSet(r) : x.k = "quiz" THEN <<Block("quiz", l, r)>>
                                    ELSE Markdown(r, l)]
         /\ NoBlocks(s) => NoBlocks(r)
         /\ \A W, a, b : Reading(W, a, b) => Gather(a, r) = Gather(a, s)
  BY WithoutBlocksIs, Zenon
<1>8. NoBlocks(r) /\ Gather(f, r) = Gather(f, s)
  BY <1>1
<1>2. PICK b \in BlockSet, m \in Seq(BlockSet) : b = Block("quiz", l, r) /\ m = Markdown(r, l)
  BY BlockIs, MarkdownTyped
<1>3. Gather(g, m) = Gather(f, r)
  BY <1>2, <1>8, MarkdownSame
<1>4. Gather(g, <<b>>) = Gather(f, r)
  <2>1. g[b] = Gather(f, r)
    BY <1>2, <1>8 DEF Reading
  <2>. QED
    BY <2>1, ReadingGathers
<1>5. PICK out : out = IF \E x \in ToSet(r) : x.k = "quiz" THEN <<b>> ELSE m
  OBVIOUS
<1>6. WithoutBlocks(s, before) = [layer |-> l, out |-> out]
  BY <1>1, <1>2, <1>5
<1>7. Gather(g, out) = Gather(f, r)
  BY <1>3, <1>4, <1>5
<1>. QED
  BY <1>6, <1>7, <1>8

-----------------------------------------------------------------------------
(***************************************************************************)
(* The sections, one after the other.                                      *)
(***************************************************************************)
Sofar == [layer : LayerName, out : Seq(BlockSet)]

HasBlock(s) == \E x \in ToSet(s) : x.k = "block"

LEMMA HasNone ==
  ASSUME NEW s \in Seq(ItemSet), ~ HasBlock(s)
  PROVE  NoBlocks(s)
<1>1. \A i \in 1 .. Len(s) : s[i] \in ToSet(s)
  BY DEF ToSet
<1>. QED
  BY <1>1 DEF HasBlock, NoBlocks

LEMMA ReadSectionIs ==
  ASSUME NEW acc \in Sofar, NEW s \in Seq(ItemSet)
  PROVE  \E l \in LayerName : \E o \in Seq(BlockSet) :
            /\ ReadSection(acc, s) = [layer |-> l, out |-> acc.out \o o]
            /\ ReadSection(acc, s) \in Sofar
            /\ o = IF HasBlock(s) THEN WithBlocks(s, acc.layer).out
                   ELSE WithoutBlocks(s, acc.layer).out
            /\ \A V, f, g : Reading(V, f, g) => Gather(g, o) = Gather(f, s)
<1>1. acc.layer \in LayerName /\ acc.out \in Seq(BlockSet)
  BY DEF Sofar
<1>2. PICK read : read = IF HasBlock(s) THEN WithBlocks(s, acc.layer) ELSE WithoutBlocks(s, acc.layer)
  OBVIOUS
<1>3. read.layer \in LayerName /\ read.out \in Seq(BlockSet)
  BY <1>1, <1>2, WithBlocksTyped, WithoutBlocksTyped
<1>4. ReadSection(acc, s) = [layer |-> read.layer, out |-> acc.out \o read.out]
  BY <1>2 DEF ReadSection, HasBlock
<1>5. ASSUME NEW V, NEW f, NEW g, Reading(V, f, g) PROVE Gather(g, read.out) = Gather(f, s)
  <2>1. CASE HasBlock(s)
    BY <1>1, <1>2, <1>5, <2>1, WithBlocksSame
  <2>2. CASE ~ HasBlock(s)
    BY <1>1, <1>2, <1>5, <2>2, HasNone, WithoutBlocksSame
  <2>. QED
    BY <2>1, <2>2
<1>6. PICK l \in LayerName, o \in Seq(BlockSet), a \in Seq(BlockSet) :
         l = read.layer /\ o = read.out /\ a = acc.out
  BY <1>1, <1>3
<1>7. ReadSection(acc, s) = [layer |-> l, out |-> a \o o]
  BY <1>4, <1>6
<1>8. a \o o \in Seq(BlockSet)
  OBVIOUS
<1>9. ReadSection(acc, s) \in Sofar
  BY <1>7, <1>8 DEF Sofar
<1>10. o = IF HasBlock(s) THEN WithBlocks(s, acc.layer).out ELSE WithoutBlocks(s, acc.layer).out
  BY <1>2, <1>6
<1>11. \A V, f, g : Reading(V, f, g) => Gather(g, o) = Gather(f, s)
  BY <1>5, <1>6
<1>. QED
  BY <1>6, <1>7, <1>9, <1>10, <1>11

NextSection == [acc \in Sofar |-> [s \in Seq(ItemSet) |-> ReadSection(acc, s)]]
AtStart == [layer |-> "both", out |-> << >>]
SectionsRead(ss) == FoldOver(Sofar, AtStart, NextSection, ss)

LEMMA SectionsFold ==
  /\ Folder(Seq(ItemSet), Sofar, AtStart, NextSection)
  /\ \A acc \in Sofar, s \in Seq(ItemSet) : NextSection[acc][s] = ReadSection(acc, s)
<1>1. "both" \in LayerName
  <2>1. Tok("single", "both") \in Token
    BY TokensOf DEF Heads, Layers
  <2>2. Tok("single", "both").v = "both"
    BY DEF Tok
  <2>. QED
    BY <2>1, <2>2 DEF LayerName
<1>2. AtStart \in Sofar
  <2>1. << >> \in Seq(BlockSet)
    OBVIOUS
  <2>. QED
    BY <1>1, <2>1 DEF AtStart, Sofar
<1>3. \A acc \in Sofar, s \in Seq(ItemSet) : ReadSection(acc, s) \in Sofar
  BY ReadSectionIs
<1>4. NextSection \in [Sofar -> [Seq(ItemSet) -> Sofar]]
      /\ \A acc \in Sofar, s \in Seq(ItemSet) : NextSection[acc][s] = ReadSection(acc, s)
  BY <1>3 DEF NextSection
<1>. QED
  BY <1>2, <1>4 DEF Folder

LEMMA SectionsReadOn ==
  /\ SectionsRead(<< >>) = AtStart
  /\ \A ss \in Seq(Seq(ItemSet)) : SectionsRead(ss) \in Sofar
  /\ \A ss \in Seq(Seq(ItemSet)), s \in Seq(ItemSet) :
        SectionsRead(Append(ss, s)) = ReadSection(SectionsRead(ss), s)
<1>1. SectionsRead(<< >>) = AtStart
  BY SectionsFold, FoldedEmpty DEF SectionsRead
<1>2. \A ss \in Seq(Seq(ItemSet)) : SectionsRead(ss) \in Sofar
  BY SectionsFold, FoldedTyped DEF SectionsRead
<1>3. ASSUME NEW ss \in Seq(Seq(ItemSet)), NEW s \in Seq(ItemSet)
      PROVE  SectionsRead(Append(ss, s)) = ReadSection(SectionsRead(ss), s)
  <2>1. SectionsRead(Append(ss, s)) = NextSection[SectionsRead(ss)][s]
    BY SectionsFold, FoldedAppend DEF SectionsRead
  <2>. QED
    BY <1>2, <2>1, SectionsFold
<1>. QED
  BY <1>1, <1>2, <1>3

PartsAt(ss, h) ==
    h = [k \in 0 .. Len(ss) |-> IF k = 0 THEN [layer |-> "both", out |-> << >>]
                                ELSE ReadSection(h[k - 1], ss[k])]

\* The last of the sections read, as the importer's loop reads them.
LEMMA PartsEnd ==
  ASSUME NEW ss \in Seq(Seq(ItemSet))
  PROVE  (CHOOSE h : PartsAt(ss, h))[Len(ss)] = SectionsRead(ss)
<1>. DEFINE n == Len(ss)
<1>1. n \in Nat /\ Folder(Seq(ItemSet), Sofar, AtStart, NextSection)
      /\ \A acc \in Sofar, s \in Seq(ItemSet) : NextSection[acc][s] = ReadSection(acc, s)
  BY SectionsFold
<1>2. \A k \in 1 .. n : ss[k] \in Seq(ItemSet) /\ k - 1 \in 0 .. n /\ k \in 0 .. n /\ k # 0
  BY <1>1
<1>. HIDE DEF n
<1>3. \E h : PartsAt(ss, h)
  <2>1. PICK h \in [0 .. n -> Sofar] :
           h[0] = AtStart /\ \A k \in 1 .. n : h[k] = NextSection[h[k - 1]][ss[k]]
    BY <1>1, StepsExist DEF n
  <2>2. \A k \in 1 .. n : h[k] = ReadSection(h[k - 1], ss[k])
    BY <1>1, <1>2, <2>1
  <2>3. \A k \in 0 .. n : k = 0 \/ k \in 1 .. n
    BY <1>1
  <2>4. h = [k \in 0 .. n |-> IF k = 0 THEN AtStart ELSE ReadSection(h[k - 1], ss[k])]
    BY <1>2, <2>1, <2>2, <2>3
  <2>. QED
    BY <2>4 DEF PartsAt, n, AtStart
<1>4. PICK h : PartsAt(ss, h) /\ h = CHOOSE g : PartsAt(ss, g)
  BY <1>3
<1>5. Steps(Sofar, AtStart, NextSection, ss, h)
  <2>1. h[0] = AtStart /\ \A k \in 1 .. n : h[k] = ReadSection(h[k - 1], ss[k])
    <3>1. h = [k \in 0 .. n |-> IF k = 0 THEN AtStart ELSE ReadSection(h[k - 1], ss[k])]
      BY <1>4 DEF PartsAt, n, AtStart
    <3>2. 0 \in 0 .. n
      BY <1>1
    <3>. QED
      BY <1>2, <3>1, <3>2
  <2>. QED
    BY <1>1, <1>2, <2>1 DEF Steps, n
<1>6. h[n] = SectionsRead(ss)
  BY <1>1, <1>5, StepsEnd DEF SectionsRead, n
<1>. QED
  BY <1>4, <1>6 DEF n

-----------------------------------------------------------------------------
(***************************************************************************)
(* The items between the rules.                                            *)
(***************************************************************************)
Cuts == Seq(Seq(ItemSet)) \ {<< >>}

LEMMA OneMoreElement ==
  ASSUME NEW S, NEW s \in Seq(S), NEW x \in S
  PROVE  Append(s, x) \in Seq(S) /\ Append(s, x) # << >>
<1>1. Append(s, x) \in Seq(S) /\ Len(Append(s, x)) = Len(s) + 1 /\ Len(s) \in Nat
  OBVIOUS
<1>2. Append(s, x) # << >>
  BY <1>1
<1>. QED
  BY <1>1, <1>2

LEMMA OneMoreCut ==
  ASSUME NEW out \in Cuts, NEW x \in ItemSet
  PROVE  SectionedOneMore(out, x) \in Cuts
<1>1. /\ Front(out) \in Seq(Seq(ItemSet)) /\ Last(out) \in Seq(ItemSet)
  BY FrontLast DEF Cuts
<1>2. PICK a \in Seq(Seq(ItemSet)), b \in Seq(ItemSet), o \in Seq(Seq(ItemSet)) :
         a = Front(out) /\ b = Append(Last(out), x) /\ o = out
  <2>1. Append(Last(out), x) \in Seq(ItemSet)
    BY <1>1
  <2>. QED
    BY <1>1, <2>1 DEF Cuts
<1>3. /\ Append(a, b) \in Seq(Seq(ItemSet)) /\ Append(a, b) # << >>
      /\ Append(o, << >>) \in Seq(Seq(ItemSet)) /\ Append(o, << >>) # << >>
  <2>1. PICK e \in Seq(ItemSet) : e = << >>
    <3>1. << >> \in Seq(ItemSet)
      OBVIOUS
    <3>. QED
      BY <3>1
  <2>2. Append(o, e) \in Seq(Seq(ItemSet)) /\ Append(o, e) # << >>
    BY OneMoreElement
  <2>3. Append(a, b) \in Seq(Seq(ItemSet)) /\ Append(a, b) # << >>
    BY OneMoreElement
  <2>. QED
    BY <2>1, <2>2, <2>3
<1>. QED
  BY <1>2, <1>3 DEF SectionedOneMore, Cuts

NextCut == [out \in Cuts |-> [x \in ItemSet |-> SectionedOneMore(out, x)]]
AllCut(s) == FoldOver(Cuts, << << >> >>, NextCut, s)

LEMMA CutsFold ==
  /\ Folder(ItemSet, Cuts, << << >> >>, NextCut)
  /\ \A out \in Cuts, x \in ItemSet : NextCut[out][x] = SectionedOneMore(out, x)
<1>1. << << >> >> \in Cuts
  <2>1. << >> \in Seq(ItemSet)
    OBVIOUS
  <2>2. << << >> >> \in Seq(Seq(ItemSet)) /\ << << >> >> # << >>
    BY <2>1
  <2>. QED
    BY <2>2 DEF Cuts
<1>2. NextCut \in [Cuts -> [ItemSet -> Cuts]]
      /\ \A out \in Cuts, x \in ItemSet : NextCut[out][x] = SectionedOneMore(out, x)
  BY OneMoreCut DEF NextCut
<1>. QED
  BY <1>1, <1>2 DEF Folder

LEMMA AllCutOn ==
  /\ AllCut(<< >>) = << << >> >>
  /\ \A s \in Seq(ItemSet) : AllCut(s) \in Cuts
  /\ \A s \in Seq(ItemSet), x \in ItemSet : AllCut(Append(s, x)) = SectionedOneMore(AllCut(s), x)
<1>1. AllCut(<< >>) = << << >> >>
  BY CutsFold, FoldedEmpty DEF AllCut
<1>2. \A s \in Seq(ItemSet) : AllCut(s) \in Cuts
  BY CutsFold, FoldedTyped DEF AllCut
<1>3. ASSUME NEW s \in Seq(ItemSet), NEW x \in ItemSet
      PROVE  AllCut(Append(s, x)) = SectionedOneMore(AllCut(s), x)
  <2>1. AllCut(Append(s, x)) = NextCut[AllCut(s)][x]
    BY CutsFold, FoldedAppend DEF AllCut
  <2>. QED
    BY <1>2, <2>1, CutsFold
<1>. QED
  BY <1>1, <1>2, <1>3

CutAt(s, h) ==
    h = [k \in 0 .. Len(s) |-> IF k = 0 THEN << << >> >> ELSE SectionedOneMore(h[k - 1], s[k])]

LEMMA CutEnd ==
  ASSUME NEW s \in Seq(ItemSet)
  PROVE  SectionsOf(s) = AllCut(s)
<1>. DEFINE n == Len(s)
            base == << << >> >>
<1>1. n \in Nat /\ Folder(ItemSet, Cuts, base, NextCut)
      /\ \A out \in Cuts, x \in ItemSet : NextCut[out][x] = SectionedOneMore(out, x)
  BY CutsFold
<1>2. \A k \in 1 .. n : s[k] \in ItemSet /\ k - 1 \in 0 .. n /\ k \in 0 .. n /\ k # 0
  BY <1>1
<1>. HIDE DEF n, base
<1>3. \E h : CutAt(s, h)
  <2>1. PICK h \in [0 .. n -> Cuts] :
           h[0] = base /\ \A k \in 1 .. n : h[k] = NextCut[h[k - 1]][s[k]]
    BY <1>1, StepsExist DEF n
  <2>2. \A k \in 1 .. n : h[k] = SectionedOneMore(h[k - 1], s[k])
    BY <1>1, <1>2, <2>1
  <2>3. \A k \in 0 .. n : k = 0 \/ k \in 1 .. n
    BY <1>1
  <2>4. h = [k \in 0 .. n |-> IF k = 0 THEN base ELSE SectionedOneMore(h[k - 1], s[k])]
    BY <1>2, <2>1, <2>2, <2>3
  <2>. QED
    BY <2>4 DEF CutAt, n, base
<1>4. PICK h : CutAt(s, h) /\ h = CHOOSE g : CutAt(s, g)
  BY <1>3
<1>5. Steps(Cuts, base, NextCut, s, h)
  <2>1. h[0] = base /\ \A k \in 1 .. n : h[k] = SectionedOneMore(h[k - 1], s[k])
    <3>1. h = [k \in 0 .. n |-> IF k = 0 THEN base ELSE SectionedOneMore(h[k - 1], s[k])]
      BY <1>4 DEF CutAt, n, base
    <3>2. 0 \in 0 .. n
      BY <1>1
    <3>. QED
      BY <1>2, <3>1, <3>2
  <2>. QED
    BY <1>1, <1>2, <2>1 DEF Steps, n
<1>6. h[n] = AllCut(s)
  BY <1>1, <1>5, StepsEnd DEF AllCut, base, n
<1>7. SectionsOf(s) = h[n]
  BY <1>4 DEF SectionsOf, CutAt, n
<1>. QED
  BY <1>6, <1>7

\* What is told of each section.
OfEach(f) == [s \in Seq(ItemSet) |-> Gather(f, s)]

LEMMA OfEachReads ==
  ASSUME NEW V, NEW f, NEW g, Reading(V, f, g)
  PROVE  /\ OfEach(f) \in Reads(Seq(ItemSet), V)
         /\ \A s \in Seq(ItemSet) : OfEach(f)[s] = Gather(f, s)
  BY ReadingGathers DEF OfEach, Reads

LEMMA SectionsSame ==
  ASSUME NEW V, NEW f, NEW g, Reading(V, f, g), NEW ss \in Seq(Seq(ItemSet))
  PROVE  Gather(g, SectionsRead(ss).out) = Gather(OfEach(f), ss)
<1>. DEFINE T == OfEach(f)
            P == {q \in Seq(Seq(ItemSet)) : Gather(g, SectionsRead(q).out) = Gather(T, q)}
<1>1. T \in Reads(Seq(ItemSet), V) /\ \A s \in Seq(ItemSet) : T[s] = Gather(f, s)
  BY OfEachReads
<1>. HIDE DEF T
<1>2. << >> \in P
  <2>1. << >> \in Seq(Seq(ItemSet)) /\ SectionsRead(<< >>).out = << >>
    BY SectionsReadOn DEF AtStart
  <2>. QED
    BY <2>1, GatherEmpty
<1>3. \A q \in Seq(Seq(ItemSet)), s \in Seq(ItemSet) : Gather(T, Append(q, s)) = Gather(T, q) \o T[s]
  BY <1>1, GatherAppend
<1>4. \A u, v \in Seq(BlockSet) : Gather(g, u \o v) = Gather(g, u) \o Gather(g, v)
  BY ReadingGathers
<1>5. ASSUME NEW q \in Seq(Seq(ItemSet)), NEW s \in Seq(ItemSet), q \in P PROVE Append(q, s) \in P
  <2>1. PICK acc \in Sofar : acc = SectionsRead(q)
    BY SectionsReadOn
  <2>2. PICK l \in LayerName, o \in Seq(BlockSet) :
           /\ ReadSection(acc, s) = [layer |-> l, out |-> acc.out \o o]
           /\ ReadSection(acc, s) \in Sofar
           /\ o = IF HasBlock(s) THEN WithBlocks(s, acc.layer).out
                  ELSE WithoutBlocks(s, acc.layer).out
           /\ \A W, a, b : Reading(W, a, b) => Gather(b, o) = Gather(a, s)
    BY ReadSectionIs, Zenon
  <2>11. Gather(g, o) = Gather(f, s)
    BY <2>2
  <2>3. PICK a \in Seq(BlockSet) : a = acc.out
    BY DEF Sofar
  <2>4. PICK y : y = a \o o
    OBVIOUS
  <2>5. ReadSection(acc, s) = [layer |-> l, out |-> y]
    BY <2>2, <2>3, <2>4
  <2>6. SectionsRead(Append(q, s)).out = y
    <3>1. SectionsRead(Append(q, s)) = [layer |-> l, out |-> y]
      BY <2>1, <2>5, SectionsReadOn
    <3>. QED
      BY <3>1
  <2>7. Gather(g, y) = Gather(g, a) \o Gather(g, o)
    BY <1>4, <2>4
  <2>8. Gather(g, a) = Gather(T, q)
    BY <1>5, <2>1, <2>3
  <2>9. Append(q, s) \in Seq(Seq(ItemSet))
    OBVIOUS
  <2>10. Gather(T, Append(q, s)) = Gather(T, q) \o Gather(f, s)
    BY <1>1, <1>3
  <2>. QED
    BY <2>11, <2>6, <2>7, <2>8, <2>9, <2>10
<1>. HIDE DEF P
<1>6. ss \in P
  BY <1>2, <1>5, ByAppend
<1>. QED
  BY <1>6 DEF P, T

LEMMA CutSame ==
  ASSUME NEW V, NEW f, NEW g, Reading(V, f, g), NEW s \in Seq(ItemSet)
  PROVE  Gather(OfEach(f), AllCut(s)) = Gather(f, s)
<1>. DEFINE T == OfEach(f)
            P == {q \in Seq(ItemSet) : Gather(T, AllCut(q)) = Gather(f, q)}
<1>1. T \in Reads(Seq(ItemSet), V) /\ \A r \in Seq(ItemSet) : T[r] = Gather(f, r)
  BY OfEachReads
<1>. HIDE DEF T
<1>2. << >> \in P
  <2>1. << >> \in Seq(ItemSet) /\ AllCut(<< >>) = << << >> >>
    BY AllCutOn
  <2>2. PICK e \in Seq(ItemSet) : e = << >>
    BY <2>1
  <2>3. Gather(T, <<e>>) = T[e]
    BY <1>1, GatherOne
  <2>. QED
    BY <1>1, <2>1, <2>2, <2>3
<1>3. \A q \in Seq(Seq(ItemSet)), r \in Seq(ItemSet) :
         Gather(T, Append(q, r)) = Gather(T, q) \o T[r] /\ Gather(T, q) \in Seq(V)
  <2>1. \A q \in Seq(Seq(ItemSet)), r \in Seq(ItemSet) : Gather(T, Append(q, r)) = Gather(T, q) \o T[r]
    BY <1>1, GatherAppend
  <2>2. \A q \in Seq(Seq(ItemSet)) : Gather(T, q) \in Seq(V)
    BY <1>1, GatherTyped
  <2>. QED
    BY <2>1, <2>2
<1>6. \A i, j, k \in Seq(V) : (i \o j) \o k = i \o (j \o k)
  BY InSequence, SMTT(30)
<1>4. ASSUME NEW q \in Seq(ItemSet), NEW x \in ItemSet, q \in P PROVE Append(q, x) \in P
  <2>1. PICK out \in Cuts : out = AllCut(q) /\ AllCut(Append(q, x)) = SectionedOneMore(out, x)
    BY AllCutOn
  <2>2. PICK u \in Seq(V), w \in Seq(V) : u = Gather(f, q) /\ w = f[x]
    BY ReadingGathers
  <2>3. Gather(T, out) = u
    BY <1>4, <2>1, <2>2
  <2>4. Append(q, x) \in Seq(ItemSet) /\ Gather(f, Append(q, x)) = u \o w
    <3>1. Gather(f, Append(q, x)) = Gather(f, q) \o f[x]
      BY ReadingGathers
    <3>. QED
      BY <2>2, <3>1
  <2>5. CASE x.k = "rule"
    <3>1. w = << >>
      BY <2>2, <2>5 DEF Reading, Aside
    <3>2. PICK e \in Seq(ItemSet), o \in Seq(Seq(ItemSet)) : e = << >> /\ o = out
      <4>1. << >> \in Seq(ItemSet)
        OBVIOUS
      <4>. QED
        BY <4>1 DEF Cuts
    <3>3. SectionedOneMore(out, x) = Append(o, e)
      BY <2>5, <3>2 DEF SectionedOneMore
    <3>4. T[e] = << >>
      BY <1>1, <3>2, GatherEmpty
    <3>5. Gather(T, Append(o, e)) = Gather(T, o) \o T[e]
      BY <1>3
    <3>. QED
      BY <2>1, <2>3, <2>4, <3>1, <3>2, <3>3, <3>4, <3>5
  <2>6. CASE x.k # "rule"
    <3>1. PICK a \in Seq(Seq(ItemSet)), b \in Seq(ItemSet), o \in Seq(Seq(ItemSet)) :
             a = Front(out) /\ b = Last(out) /\ o = out /\ out = Append(a, b)
      BY FrontLast DEF Cuts
    <3>2. SectionedOneMore(out, x) = Append(a, Append(b, x))
      BY <2>6, <3>1 DEF SectionedOneMore
    <3>3. PICK c \in Seq(ItemSet) : c = Append(b, x)
      <4>1. Append(b, x) \in Seq(ItemSet)
        OBVIOUS
      <4>. QED
        BY <4>1
    <3>4. T[c] = T[b] \o w
      <4>1. Gather(f, Append(b, x)) = Gather(f, b) \o f[x]
        BY ReadingGathers, SMTT(30)
      <4>. QED
        BY <1>1, <2>2, <3>3, <4>1
    <3>5. Gather(T, Append(a, c)) = Gather(T, a) \o T[c]
      BY <1>3
    <3>6. u = Gather(T, a) \o T[b]
      BY <1>3, <2>3, <3>1
    <3>7. PICK i \in Seq(V), j \in Seq(V) : i = Gather(T, a) /\ j = T[b]
      <4>1. Gather(T, a) \in Seq(V)
        BY <1>3
      <4>2. T[b] \in Seq(V)
        BY <1>1 DEF Reads
      <4>. QED
        BY <4>1, <4>2
    <3>8. (i \o j) \o w = i \o (j \o w)
      BY <1>6
    <3>. QED
      BY <2>1, <2>4, <3>2, <3>3, <3>4, <3>5, <3>6, <3>7, <3>8
  <2>. QED
    BY <2>5, <2>6
<1>. HIDE DEF P
<1>5. s \in P
  BY <1>2, <1>4, ByAppend
<1>. QED
  BY <1>5 DEF P, T

\* What a reading tells of the items it tells of what is made of them.
LEMMA ImportSame ==
  ASSUME NEW d, Extracted(d) \in Seq(ItemSet)
  PROVE  /\ parse_content_md(d) \in Seq(BlockSet)
         /\ parse_content_md(d) = SectionsRead(AllCut(Extracted(d))).out
         /\ \A V, f, g : Reading(V, f, g) => Gather(g, parse_content_md(d)) = Gather(f, Extracted(d))
<1>1. PICK x \in Seq(ItemSet), ss \in Seq(Seq(ItemSet)) : x = Extracted(d) /\ ss = SectionsOf(x) /\ ss = AllCut(x)
  BY CutEnd, AllCutOn DEF Cuts
<1>2. parse_content_md(d) = (CHOOSE h : PartsAt(ss, h))[Len(ss)].out
  BY <1>1 DEF parse_content_md, PartsAt
<1>3. parse_content_md(d) = SectionsRead(ss).out
  BY <1>2, PartsEnd
<1>4. SectionsRead(ss).out \in Seq(BlockSet)
  BY SectionsReadOn DEF Sofar
<1>5. ASSUME NEW V, NEW f, NEW g, Reading(V, f, g)
      PROVE  Gather(g, parse_content_md(d)) = Gather(f, Extracted(d))
  BY <1>1, <1>3, <1>5, SectionsSame, CutSame
<1>. QED
  BY <1>1, <1>3, <1>4, <1>5

-----------------------------------------------------------------------------
(***************************************************************************)
(* The directives that are taken out first: the items are a partition of   *)
(* the source.                                                             *)
(***************************************************************************)
LEMMA DirectiveEndIs ==
  ASSUME NEW d \in Source, NEW i \in 1 .. Len(d)
  PROVE  /\ DirectiveEnd(d, i) = 0 \/ DirectiveEnd(d, i) \in i + 1 .. Len(d) + 1
         /\ d[i].k # "quiz" => DirectiveEnd(d, i) = EndOf(d, i)
         /\ DirectiveEnd(d, i) # 0 => d[i].k \in {"single", "code", "multi", "quiz"}
<1>. DEFINE fence == First(Fences(d, i))
            tick == First(Ticks(d, fence + 2))
            tail == First(Tails(d, i))
<1>0. Len(d) \in Nat
  BY DEF Source
<1>1. {j \in i + 1 .. Len(d) - 1 : d[j] = Fence /\ d[j + 1] = Lang} = Fences(d, i)
  <2>1. \A j : j \in i + 1 .. Len(d) - 1 <=> j \in i + 1 .. Len(d) /\ j < Len(d)
    BY <1>0
  <2>. QED
    BY <2>1 DEF Fences
<1>2. DirectiveEnd(d, i) =
         CASE d[i].k = "single" -> i + 1
           [] d[i].k = "code" /\ fence # 0 /\ tick # 0 -> tick + 1
           [] d[i].k \in {"multi", "quiz"} /\ tail # 0 -> tail + 1
           [] OTHER -> 0
  BY <1>1 DEF DirectiveEnd, Ticks, Tails
<1>3. d[i].k = "code" => EndOf(d, i) = IF fence = 0 \/ tick = 0 THEN 0 ELSE tick + 1
  BY DEF EndOf, CodeEnd, Fences, Ticks
<1>4. d[i].k = "multi" => EndOf(d, i) = IF tail = 0 THEN 0 ELSE tail + 1
  BY DEF EndOf, Tails
<1>5. d[i].k = "single" => EndOf(d, i) = i + 1
  BY DEF EndOf
<1>6. d[i].k \notin {"single", "code", "multi"} => EndOf(d, i) = 0
  BY DEF EndOf
<1>7. tail # 0 => tail \in i + 1 .. Len(d)
  <2>1. Tails(d, i) \in SUBSET Nat /\ 0 \notin Tails(d, i)
    BY DEF Tails
  <2>2. Tails(d, i) \subseteq i + 1 .. Len(d)
    BY DEF Tails
  <2>. QED
    BY <2>1, <2>2, FirstLemma
<1>. HIDE DEF fence, tick, tail
<1>8. d[i].k # "quiz" => DirectiveEnd(d, i) = EndOf(d, i)
  BY <1>2, <1>3, <1>4, <1>5, <1>6
<1>9. DirectiveEnd(d, i) # 0 => d[i].k \in {"single", "code", "multi", "quiz"}
  BY <1>2
<1>10. DirectiveEnd(d, i) = 0 \/ DirectiveEnd(d, i) \in i + 1 .. Len(d) + 1
  <2>1. CASE d[i].k = "quiz"
    <3>1. DirectiveEnd(d, i) = IF tail = 0 THEN 0 ELSE tail + 1
      BY <1>2, <2>1
    <3>. QED
      BY <1>0, <1>7, <3>1
  <2>2. CASE d[i].k # "quiz"
    BY <1>8, <2>2, EndsAfter
  <2>. QED
    BY <2>1, <2>2
<1>. QED
  BY <1>8, <1>9, <1>10

\* What holds of a place if it holds of the later ones holds of all.
Later(n, P, p) == \A q \in p + 1 .. n + 1 : q \in P

LEMMA Downward ==
  ASSUME NEW n \in Nat, NEW P, \A p \in 1 .. n + 1 : Later(n, P, p) => p \in P
  PROVE  \A p \in 1 .. n + 1 : p \in P
<1>. DEFINE Q == {k \in Nat : k \in 0 .. n + 1 => \A q \in n + 2 - k .. n + 1 : q \in P}
<1>1. 0 \in Q
  OBVIOUS
<1>2. ASSUME NEW k \in 1 .. n + 1, k - 1 \in Q PROVE k \in Q
  <2>1. PICK p \in 1 .. n + 1 : p = n + 2 - k /\ n + 2 - (k - 1) = p + 1 /\ k - 1 \in 0 .. n + 1
    OBVIOUS
  <2>2. Later(n, P, p)
    BY <1>2, <2>1 DEF Later
  <2>3. p \in P
    BY <2>2
  <2>4. \A q \in p .. n + 1 : q = p \/ q \in p + 1 .. n + 1
    OBVIOUS
  <2>5. \A q \in p .. n + 1 : q \in P
    BY <2>2, <2>3, <2>4 DEF Later
  <2>. QED
    BY <2>1, <2>5
<1>. HIDE DEF Q
<1>3. \A k \in 0 .. n + 1 : k \in Q
  <2>1. PICK m \in Nat : m = n + 1
    OBVIOUS
  <2>2. \A k \in 1 .. m : k - 1 \in Q => k \in Q
    BY <1>2, <2>1
  <2>3. \A k \in 0 .. m : k \in Q
    BY <1>1, <2>2, UpTo
  <2>. QED
    BY <2>1, <2>3
<1>4. n + 1 \in Q /\ n + 1 \in 0 .. n + 1 /\ n + 2 - (n + 1) = 1
  BY <1>3
<1>. QED
  BY <1>4 DEF Q

ExtractFrom(d, e, p) ==
    IF p > Len(d) THEN << >>
    ELSE IF DirectiveEnd(d, p) = 0 THEN <<Item(d[p])>> \o e[p + 1]
    ELSE <<Taken(SubSeq(d, p, DirectiveEnd(d, p) - 1))>> \o e[DirectiveEnd(d, p)]

ExtractAt(d, e) == e = [p \in 1 .. Len(d) + 1 |-> ExtractFrom(d, e, p)]

\* The item at a place, and the place after it.
ItemAt(d, p) == IF DirectiveEnd(d, p) = 0 THEN Item(d[p])
                ELSE Taken(SubSeq(d, p, DirectiveEnd(d, p) - 1))
AfterItem(d, p) == IF DirectiveEnd(d, p) = 0 THEN p + 1 ELSE DirectiveEnd(d, p)

LEMMA ItemAtIs ==
  ASSUME NEW d \in Source, NEW p \in 1 .. Len(d)
  PROVE  /\ ItemAt(d, p) \in ItemSet
         /\ AfterItem(d, p) \in p + 1 .. Len(d) + 1
         /\ ItemAt(d, p).raw = SubSeq(d, p, AfterItem(d, p) - 1)
<1>1. Len(d) \in Nat /\ d[p] \in Token /\ d \in Seq(Token)
  BY DEF Source
<1>2. CASE DirectiveEnd(d, p) = 0
  <2>1. SubSeq(d, p, p) = <<d[p]>> /\ p + 1 - 1 = p
    <3>1. PICK q \in p .. Len(d) + 1 : q = p + 1 /\ q - 1 = p /\ q - p = 1 /\ p - 1 + 1 = p
      BY <1>1
    <3>2. p \in 1 .. Len(d) + 1
      BY <1>1
    <3>3. /\ SubSeq(d, p, q - 1) \in Source /\ Len(SubSeq(d, p, q - 1)) = q - p
          /\ \A j \in 1 .. q - p : SubSeq(d, p, q - 1)[j] = d[p - 1 + j]
      BY <3>2, PartOfSource
    <3>4. 1 \in 1 .. q - p
      BY <3>1
    <3>5. SubSeq(d, p, q - 1)[1] = d[p - 1 + 1]
      BY <3>3, <3>4
    <3>6. SubSeq(d, p, p) \in Seq(Token) /\ Len(SubSeq(d, p, p)) = 1 /\ SubSeq(d, p, p)[1] = d[p]
      BY <3>1, <3>3, <3>5 DEF Source
    <3>12. <<d[p]>> \in Seq(Token)
      BY <1>1
    <3>7. PICK y \in Seq(Token), z \in Seq(Token) : y = SubSeq(d, p, p) /\ z = <<d[p]>>
      BY <3>6, <3>12
    <3>8. Len(y) = 1 /\ Len(z) = 1 /\ y[1] = z[1]
      BY <3>6, <3>7
    <3>9. y = [i \in 1 .. Len(y) |-> y[i]] /\ z = [i \in 1 .. Len(z) |-> z[i]]
      OBVIOUS
    <3>10. \A i \in 1 .. 1 : i = 1
      OBVIOUS
    <3>11. y = z
      BY <3>8, <3>9, <3>10
    <3>. QED
      BY <3>1, <3>7, <3>11
  <2>2. ItemAt(d, p) = Item(d[p]) /\ AfterItem(d, p) = p + 1
    BY <1>2 DEF ItemAt, AfterItem
  <2>. QED
    BY <1>1, <2>1, <2>2, ItemIs
<1>3. CASE DirectiveEnd(d, p) # 0
  <2>1. PICK q \in p + 1 .. Len(d) + 1 : q = DirectiveEnd(d, p)
    BY <1>3, DirectiveEndIs
  <2>2. ItemAt(d, p) = Taken(SubSeq(d, p, q - 1)) /\ AfterItem(d, p) = q
    BY <1>3, <2>1 DEF ItemAt, AfterItem
  <2>3. SubSeq(d, p, q - 1) \in Source /\ SubSeq(d, p, q - 1) # << >>
    BY PartFirst
  <2>. QED
    BY <2>2, <2>3, TakenIs
<1>. QED
  BY <1>2, <1>3

LEMMA ExtractFromIs ==
  ASSUME NEW d \in Source, NEW e, NEW p \in 1 .. Len(d) + 1
  PROVE  ExtractFrom(d, e, p) = IF p > Len(d) THEN << >>
                                ELSE <<ItemAt(d, p)>> \o e[AfterItem(d, p)]
BY DEF ExtractFrom, ItemAt, AfterItem

LEMMA ExtractExists ==
  ASSUME NEW d \in Source
  PROVE  \E e : ExtractAt(d, e)
<1>. DEFINE n == Len(d)
            X == Seq(ItemSet)
            F == [0 .. n -> X]
            made == [k \in 0 .. n |-> [h \in F |->
                       IF k = 0 THEN << >>
                       ELSE <<ItemAt(d, n + 1 - k)>> \o h[n + 1 - AfterItem(d, n + 1 - k)]]]
<1>1. n \in Nat /\ << >> \in X
  BY DEF Source
<1>2. ASSUME NEW k \in 1 .. n
      PROVE  /\ n + 1 - k \in 1 .. n
             /\ ItemAt(d, n + 1 - k) \in ItemSet
             /\ n + 1 - AfterItem(d, n + 1 - k) \in 0 .. k - 1
             /\ n + 1 - AfterItem(d, n + 1 - k) \in 0 .. n
  <2>1. PICK p \in 1 .. Len(d) : p = n + 1 - k
    BY <1>1
  <2>2. PICK q \in p + 1 .. n + 1 : q = AfterItem(d, p)
    BY ItemAtIs
  <2>3. n + 1 - q \in 0 .. k - 1 /\ n + 1 - q \in 0 .. n
    BY <1>1, <2>1
  <2>. QED
    BY <2>1, <2>2, <2>3, ItemAtIs
<1>3. ASSUME NEW k \in 0 .. n, NEW h \in F
      PROVE  made[k][h] = IF k = 0 THEN << >>
                          ELSE <<ItemAt(d, n + 1 - k)>> \o h[n + 1 - AfterItem(d, n + 1 - k)]
  OBVIOUS
<1>4. ASSUME NEW k \in 0 .. n, NEW h \in F PROVE made[k][h] \in X
  <2>1. CASE k = 0
    BY <1>1, <1>3, <2>1
  <2>2. CASE k # 0
    <3>1. k \in 1 .. n
      BY <1>1, <2>2
    <3>2. PICK x \in ItemSet, r \in X : x = ItemAt(d, n + 1 - k) /\ r = h[n + 1 - AfterItem(d, n + 1 - k)]
      BY <1>2, <3>1
    <3>3. <<x>> \o r \in X
      OBVIOUS
    <3>. HIDE DEF made, X, F
    <3>. QED
      BY <1>3, <2>2, <3>2, <3>3
  <2>. QED
    BY <2>1, <2>2
<1>. HIDE DEF X
<1>5. made \in [0 .. n -> [F -> X]]
  <2>1. made = [k \in 0 .. n |-> [h \in F |-> made[k][h]]]
    OBVIOUS
  <2>. HIDE DEF made, F, n
  <2>. QED
    BY <1>4, <2>1
<1>6. ASSUME NEW k \in 0 .. n, NEW u \in F, NEW v \in F, SameBefore(u, v, k)
      PROVE  made[k][u] = made[k][v]
  <2>. HIDE DEF made, F
  <2>1. CASE k = 0
    BY <1>3, <2>1
  <2>2. CASE k # 0
    <3>1. k \in 1 .. n
      BY <1>1, <2>2
    <3>2. u[n + 1 - AfterItem(d, n + 1 - k)] = v[n + 1 - AfterItem(d, n + 1 - k)]
      BY <1>2, <1>6, <3>1 DEF SameBefore
    <3>. QED
      BY <1>3, <2>2, <3>2
  <2>. QED
    BY <2>1, <2>2
<1>7. PICK h \in F : \A k \in 0 .. n : h[k] = made[k][h]
  <2>. HIDE DEF made, n
  <2>1. OfEarlier(made, n, X)
    BY <1>6 DEF OfEarlier
  <2>2. made \in [0 .. n -> [[0 .. n -> X] -> X]]
    BY <1>5
  <2>. HIDE DEF F
  <2>3. \E g \in [0 .. n -> X] : InCourse(made, n, g)
    BY <1>1, <2>1, <2>2, CourseOfValues
  <2>. QED
    BY <2>3 DEF F, InCourse
<1>. DEFINE e == [p \in 1 .. n + 1 |-> h[n + 1 - p]]
<1>8. ASSUME NEW p \in 1 .. n + 1 PROVE e[p] = ExtractFrom(d, e, p)
  <2>0. n + 1 - p \in 0 .. n /\ n + 1 - (n + 1 - p) = p
    BY <1>1
  <2>1. PICK k \in 0 .. n : k = n + 1 - p /\ n + 1 - k = p
    BY <2>0
  <2>2. e[p] = made[k][h]
    <3>. HIDE DEF made
    <3>. QED
      BY <1>7, <2>1
  <2>3. made[k][h] = IF k = 0 THEN << >>
                     ELSE <<ItemAt(d, p)>> \o h[n + 1 - AfterItem(d, p)]
    <3>. HIDE DEF made, F
    <3>. QED
      BY <1>3, <2>1
  <2>4. CASE k = 0
    <3>1. p > Len(d)
      BY <1>1, <2>1, <2>4
    <3>. HIDE DEF made, e
    <3>. QED
      BY <2>2, <2>3, <2>4, <3>1, ExtractFromIs
  <2>5. CASE k # 0
    <3>1. p \in 1 .. Len(d) /\ ~(p > Len(d))
      BY <1>1, <2>1, <2>5
    <3>2. AfterItem(d, p) \in p + 1 .. n + 1
      BY <3>1, ItemAtIs
    <3>3. AfterItem(d, p) \in 1 .. n + 1
      BY <1>1, <3>2
    <3>4. e[AfterItem(d, p)] = h[n + 1 - AfterItem(d, p)]
      BY <3>3
    <3>. HIDE DEF made, e
    <3>. QED
      BY <2>2, <2>3, <2>5, <3>1, <3>4, ExtractFromIs
  <2>. QED
    BY <2>4, <2>5
<1>9. e = [p \in 1 .. n + 1 |-> ExtractFrom(d, e, p)]
  <2>1. e = [p \in 1 .. n + 1 |-> e[p]]
    OBVIOUS
  <2>. HIDE DEF e, n
  <2>. QED
    BY <1>8, <2>1
<1>10. ExtractAt(d, e)
  BY <1>9 DEF ExtractAt
<1>. QED
  BY <1>10

\* One item at a time.
LEMMA ExtractedAt ==
  ASSUME NEW d \in Source, NEW e, ExtractAt(d, e)
  PROVE  /\ e[Len(d) + 1] = << >>
         /\ \A p \in 1 .. Len(d) : e[p] = <<ItemAt(d, p)>> \o e[AfterItem(d, p)]
<1>1. Len(d) \in Nat /\ Len(d) + 1 \in 1 .. Len(d) + 1
  BY DEF Source
<1>2. \A p \in 1 .. Len(d) + 1 : e[p] = ExtractFrom(d, e, p)
  BY DEF ExtractAt
<1>3. \A p \in 1 .. Len(d) : p \in 1 .. Len(d) + 1 /\ ~(p > Len(d))
  BY <1>1
<1>4. Len(d) + 1 > Len(d)
  BY <1>1
<1>5. \A p \in 1 .. Len(d) + 1 : e[p] = IF p > Len(d) THEN << >>
                                        ELSE <<ItemAt(d, p)>> \o e[AfterItem(d, p)]
  BY <1>2, ExtractFromIs
<1>. QED
  BY <1>1, <1>3, <1>4, <1>5

LEMMA ExtractedFrom ==
  ASSUME NEW d \in Source, NEW e, ExtractAt(d, e)
  PROVE  \A p \in 1 .. Len(d) + 1 :
            e[p] \in Seq(ItemSet) /\ Gather(ItemRaw, e[p]) = SubSeq(d, p, Len(d))
<1>. DEFINE P == {p \in 1 .. Len(d) + 1 :
                     e[p] \in Seq(ItemSet) /\ Gather(ItemRaw, e[p]) = SubSeq(d, p, Len(d))}
<1>0. \A x \in ItemSet, r \in Seq(ItemSet) :
         Gather(ItemRaw, <<x>> \o r) = ItemRaw[x] \o Gather(ItemRaw, r)
  <2>1. << >> \in Seq(ItemSet)
    OBVIOUS
  <2>2. ItemRaw \in [ItemSet -> Source]
    BY <2>1, RawsGathered
  <2>3. PICK f \in Reads(ItemSet, Token) : f = ItemRaw
    BY <2>2 DEF Reads, Source
  <2>4. \A x \in ItemSet, r \in Seq(ItemSet) : \A y :
           y = <<x>> => Gather(f, y \o r) = f[x] \o Gather(f, r)
    BY GatherFirst
  <2>. QED
    BY <2>3, <2>4
<1>1. PICK n \in Nat : n = Len(d)
  BY DEF Source
<1>2. ASSUME NEW p \in 1 .. n + 1, Later(n, P, p) PROVE p \in P
  <2>1. CASE p = n + 1
    <3>1. e[p] = << >> /\ << >> \in Seq(ItemSet)
      BY <1>1, <2>1, ExtractedAt
    <3>2. SubSeq(d, p, Len(d)) = << >>
      BY <1>1, <2>1, SubSeqEmpty
    <3>. QED
      BY <1>1, <3>1, <3>2, GatherEmpty
  <2>2. CASE p # n + 1
    <3>1. p \in 1 .. Len(d)
      BY <1>1, <2>2
    <3>2. PICK x \in ItemSet, q \in p + 1 .. n + 1 :
             x = ItemAt(d, p) /\ q = AfterItem(d, p) /\ x.raw = SubSeq(d, p, q - 1)
      BY <1>1, <3>1, ItemAtIs
    <3>3. e[p] = <<x>> \o e[q]
      BY <3>1, <3>2, ExtractedAt
    <3>4. q \in P
      BY <1>2 DEF Later
    <3>5. PICK r \in Seq(ItemSet) : r = e[q] /\ Gather(ItemRaw, r) = SubSeq(d, q, Len(d))
      BY <3>4
    <3>6. e[p] = <<x>> \o r /\ <<x>> \o r \in Seq(ItemSet)
      BY <3>3, <3>5
    <3>7. ItemRaw \in Reads(ItemSet, Token) /\ ItemRaw[x] = x.raw
      BY RawsGathered DEF Reads, Source, ItemRaw
    <3>8. Gather(ItemRaw, <<x>> \o r) = ItemRaw[x] \o Gather(ItemRaw, r)
      BY <1>0
    <3>9. SubSeq(d, p, n) = SubSeq(d, p, q - 1) \o SubSeq(d, q, n)
      <4>1. PICK m \in q .. Len(d) + 1 : m = n + 1 /\ m - 1 = n
        BY <1>1
      <4>2. q \in p .. Len(d) + 1 /\ p \in 1 .. Len(d) + 1
        BY <1>1
      <4>3. SubSeq(d, p, m - 1) = SubSeq(d, p, q - 1) \o SubSeq(d, q, m - 1)
        BY <4>2, TwoParts
      <4>. QED
        BY <4>1, <4>3
    <3>. QED
      BY <1>1, <3>2, <3>5, <3>6, <3>7, <3>8, <3>9
  <2>. QED
    BY <2>1, <2>2
<1>. HIDE DEF P
<1>3. \A p \in 1 .. n + 1 : p \in P
  BY <1>2, Downward
<1>. QED
  BY <1>1, <1>3 DEF P

LEMMA ExtractedIs ==
  ASSUME NEW d \in Source
  PROVE  \E e : /\ ExtractAt(d, e) /\ Extracted(d) = e[1]
                /\ e[1] \in Seq(ItemSet) /\ Gather(ItemRaw, e[1]) = d
<1>1. PICK e : e = CHOOSE h : ExtractAt(d, h)
  OBVIOUS
<1>2. ExtractAt(d, e)
  BY <1>1, ExtractExists
<1>3. Extracted(d) = e[1]
  BY <1>1 DEF Extracted, ExtractAt, ExtractFrom
<1>4. 1 \in 1 .. Len(d) + 1 /\ SubSeq(d, 1, Len(d)) = d
  BY DEF Source
<1>5. e[1] \in Seq(ItemSet) /\ Gather(ItemRaw, e[1]) = SubSeq(d, 1, Len(d))
  BY <1>2, <1>4, ExtractedFrom
<1>. QED
  BY <1>2, <1>3, <1>4, <1>5

-----------------------------------------------------------------------------
(***************************************************************************)
(* The words of the source are those of the blocks.                        *)
(***************************************************************************)
WordOf == [t \in Token |-> IF t.k = "text" THEN <<t>> ELSE << >>]
ItemWords == [x \in ItemSet |-> Gather(WordOf, x.raw)]
BlockWords == [b \in BlockSet |-> Gather(WordOf, b.raw)]

LEMMA BlocksGathered ==
  ASSUME NEW s \in Seq(BlockSet)
  PROVE  /\ FlattenSeq(Raws(s)) = Gather(BlockRaw, s)
         /\ BlockRaw \in Reads(BlockSet, Token) /\ Gather(BlockRaw, s) \in Source
<1>1. BlockRaw \in Reads(BlockSet, Token)
  BY DEF BlockRaw, BlockSet, Reads, Source
<1>2. \A i \in DOMAIN s : BlockRaw[s[i]] = s[i].raw
  BY DEF BlockRaw
<1>3. Raws(s) = Each(BlockRaw, s)
  BY <1>2 DEF Raws, Each
<1>4. Gather(BlockRaw, s) \in Source
  BY <1>1, GatherTyped DEF Source
<1>. QED
  BY <1>1, <1>3, <1>4 DEF Gather

LEMMA RawOfItems == ItemRaw \in Reads(ItemSet, Token)
<1>1. << >> \in Seq(ItemSet)
  OBVIOUS
<1>2. ItemRaw \in [ItemSet -> Source]
  BY <1>1, RawsGathered
<1>. QED
  BY <1>2 DEF Reads, Source

LEMMA WordOfReads ==
  /\ WordOf \in Reads(Token, Token)
  /\ \A d \in Source : Words(d) = Gather(WordOf, d) /\ Gather(WordOf, d) \in Seq(Token)
<1>1. WordOf \in Reads(Token, Token)
  <2>1. \A t \in Token : <<t>> \in Seq(Token) /\ << >> \in Seq(Token)
    OBVIOUS
  <2>. QED
    BY <2>1 DEF WordOf, Reads
<1>2. ASSUME NEW d \in Source PROVE Words(d) = Gather(WordOf, d) /\ Gather(WordOf, d) \in Seq(Token)
  <2>1. \A i \in DOMAIN d : d[i] \in Token
    BY DEF Source
  <2>2. [i \in DOMAIN d |-> IF d[i].k = "text" THEN <<d[i]>> ELSE <<>>] = Each(WordOf, d)
    BY <2>1 DEF Each, WordOf
  <2>3. Gather(WordOf, d) \in Seq(Token)
    BY <1>1, GatherTyped DEF Source
  <2>. QED
    BY <2>2, <2>3 DEF Words, Gather
<1>. QED
  BY <1>1, <1>2

LEMMA WordsAreReading == Reading(Token, ItemWords, BlockWords)
<1>1. /\ ItemWords \in Reads(ItemSet, Token)
      /\ \A x \in ItemSet : ItemWords[x] = Gather(WordOf, x.raw) /\ ItemRaw[x] = x.raw
  <2>1. \A x \in ItemSet : Gather(WordOf, x.raw) \in Seq(Token)
    BY WordOfReads, ItemsAre
  <2>. QED
    BY <2>1 DEF ItemWords, Reads, ItemRaw
<1>2. /\ BlockWords \in Reads(BlockSet, Token)
      /\ \A b \in BlockSet : BlockWords[b] = Gather(WordOf, b.raw)
  <2>1. \A b \in BlockSet : Gather(WordOf, b.raw) \in Seq(Token)
    BY WordOfReads DEF BlockSet
  <2>. QED
    BY <2>1 DEF BlockWords, Reads
<1>3. \A s \in Seq(ItemSet) : Gather(WordOf, Gather(ItemRaw, s)) = Gather(ItemWords, s)
  <2>1. PICK a \in Reads(ItemSet, Token), b \in Reads(Token, Token), c \in Reads(ItemSet, Token) :
           a = ItemRaw /\ b = WordOf /\ c = ItemWords
    BY <1>1, RawOfItems, WordOfReads
  <2>2. Composed(ItemSet, a, b, c)
    BY <1>1, <2>1 DEF Composed
  <2>3. \A s \in Seq(ItemSet) : Gather(b, Gather(a, s)) = Gather(c, s)
    BY <2>2, GatherTwice
  <2>. QED
    BY <2>1, <2>3
<1>4. ASSUME NEW x \in ItemSet, x.k \in Aside PROVE ItemWords[x] = << >>
  <2>1. x.k # "block" /\ x.k # "text"
    BY <1>4 DEF Aside, Heads
  <2>2. PICK t \in Token : x = Item(t)
    BY <2>1, ItemsAre
  <2>3. x.raw = <<t>> /\ t.k # "text"
    BY <2>1, <2>2, ItemIs
  <2>4. Gather(WordOf, <<t>>) = WordOf[t]
    BY WordOfReads, GatherOne
  <2>. QED
    BY <1>1, <2>3, <2>4 DEF WordOf
<1>5. ASSUME NEW l \in LayerName, NEW s \in Seq(ItemSet), NEW kind \in {"markdown", "quiz", "block"}
      PROVE  BlockWords[Block(kind, l, s)] = Gather(ItemWords, s)
  <2>1. Block(kind, l, s) \in BlockSet /\ Block(kind, l, s).raw = Gather(ItemRaw, s)
    BY BlockIs
  <2>. QED
    BY <1>2, <1>3, <2>1
<1>6. ASSUME NEW l \in LayerName, NEW x \in ItemSet
      PROVE  BlockWords[Block("block", l, <<x>>)] = ItemWords[x]
  <2>1. <<x>> \in Seq(ItemSet) /\ Gather(ItemWords, <<x>>) = ItemWords[x]
    BY <1>1, GatherOne
  <2>. QED
    BY <1>5, <2>1
<1>. QED
  BY <1>1, <1>2, <1>4, <1>5, <1>6 DEF Reading

\* No word is lost or told twice on its way into the blocks.
LEMMA WordsAreRead ==
  ASSUME NEW d \in Source
  PROVE  Words(FlattenSeq(Raws(parse_content_md(d)))) = Words(d)
<1>1. Extracted(d) \in Seq(ItemSet) /\ Gather(ItemRaw, Extracted(d)) = d
  BY ExtractedIs
<1>2. PICK out \in Seq(BlockSet), x \in Seq(ItemSet) : out = parse_content_md(d) /\ x = Extracted(d)
  BY <1>1, ImportSame
<1>3. Gather(BlockWords, out) = Gather(ItemWords, x)
  BY <1>1, <1>2, ImportSame, WordsAreReading
<1>4. PICK br \in Reads(BlockSet, Token), ir \in Reads(ItemSet, Token), w \in Reads(Token, Token),
           bw \in Reads(BlockSet, Token), iw \in Reads(ItemSet, Token) :
         br = BlockRaw /\ ir = ItemRaw /\ w = WordOf /\ bw = BlockWords /\ iw = ItemWords
  BY BlocksGathered, RawOfItems, WordOfReads, WordsAreReading, <1>2 DEF Reading
<1>5. Composed(BlockSet, br, w, bw) /\ Composed(ItemSet, ir, w, iw)
  BY <1>4 DEF Composed, BlockRaw, ItemRaw, BlockWords, ItemWords
<1>6. Gather(w, Gather(br, out)) = Gather(bw, out) /\ Gather(w, Gather(ir, x)) = Gather(iw, x)
  BY <1>5, GatherTwice
<1>7. FlattenSeq(Raws(out)) = Gather(br, out) /\ Gather(br, out) \in Source
  BY <1>4, BlocksGathered
<1>. QED
  BY <1>1, <1>2, <1>3, <1>4, <1>6, <1>7, WordOfReads

-----------------------------------------------------------------------------
(***************************************************************************)
(* The editor and the importer find the same directives.                   *)
(***************************************************************************)
LEMMA OnlyMark == \A t \in Token : t.k = "mark" <=> t = Mark
<1>1. Mark.k = "mark"
  BY DEF Mark, Tok
<1>2. ASSUME NEW t \in Token, t.k = "mark" PROVE t = Mark
  <2>1. \A x, y : Tok(x, y).k = x
    BY DEF Tok
  <2>2. \A t1 \in {Tok(h, l) : h \in Heads, l \in Layers} : t1.k # "mark"
    BY <2>1 DEF Heads
  <2>3. \A t1 \in {Tok("text", v) : v \in {"a", "b"}} : t1.k # "mark"
    BY <2>1
  <2>4. t \in {Close, Fence, Lang, Gap, Rule, Mark}
    BY <1>2, <2>2, <2>3 DEF Token
  <2>5. \A t1 \in {Close, Fence, Lang, Gap, Rule} : t1.k # "mark"
    <3>1. Close.k = "close" /\ Fence.k = "tick" /\ Lang.k = "lang" /\ Gap.k = "gap" /\ Rule.k = "rule"
      BY <2>1 DEF Close, Fence, Lang, Gap, Rule
    <3>. QED
      BY <3>1
  <2>. QED
    BY <1>2, <2>4, <2>5
<1>. QED
  BY <1>1, <1>2

\* What is told of segments is told of items.
Alike(f, c) ==
    /\ \A t \in Token : c[Item(t)] = ToldOfToken(f)[t]
    /\ \A raw \in Source : raw # << >> /\ raw[1].k \in Heads => c[Taken(raw)] = f[Directive(raw)]

NoQuiz(d) == \A i \in 1 .. Len(d) : d[i].k # "quiz"

LEMMA ShownTold ==
  ASSUME NEW V, NEW f, NEW c, Telling(V, f), c \in Reads(ItemSet, V), Alike(f, c),
         NEW d \in Source, NoQuiz(d)
  PROVE  Gather(f, parseDoc(d)) = Gather(c, Extracted(d))
<1>1. PICK g : g = CHOOSE h : ParseAt(d, h)
  OBVIOUS
<1>2. ParseAt(d, g)
  BY <1>1, ParseExists
<1>3. parseDoc(d) = g[1]
  BY <1>1 DEF parseDoc, ParseAt, ParseFrom, NextHead
<1>4. PICK e : ExtractAt(d, e) /\ Extracted(d) = e[1]
  BY ExtractedIs
<1>10. \A p \in 1 .. Len(d) :
          EndOf(d, p) = 0 => Gather(f, g[p]) = ToldOfToken(f)[d[p]] \o Gather(f, g[p + 1])
  BY <1>2, TokenTold, ZenonT(60)
<1>11. \A p \in 1 .. Len(d) :
          EndOf(d, p) # 0
          => Gather(f, g[p]) = f[Directive(SubSeq(d, p, EndOf(d, p) - 1))] \o Gather(f, g[EndOf(d, p)])
  BY <1>2, DirectiveTold, ZenonT(60)
<1>5. PICK n \in Nat : n = Len(d)
  BY DEF Source
<1>. DEFINE P == {p \in 1 .. n + 1 : Gather(f, g[p]) = Gather(c, e[p])}
<1>6. \A x \in ItemSet, r \in Seq(ItemSet) : Gather(c, <<x>> \o r) = c[x] \o Gather(c, r)
  <2>1. \A x \in ItemSet, r \in Seq(ItemSet) : \A y :
           y = <<x>> => Gather(c, y \o r) = c[x] \o Gather(c, r)
    BY GatherFirst
  <2>. QED
    BY <2>1
<1>7. ASSUME NEW p \in 1 .. n + 1, Later(n, P, p) PROVE p \in P
  <2>1. CASE p = n + 1
    <3>1. e[p] = << >>
      BY <1>4, <1>5, <2>1, ExtractedAt
    <3>2. g[p] = ParseFrom(d, g, p) /\ NextHead(d, p) = 0
      <4>1. p \in 1 .. Len(d) + 1
        BY <1>5
      <4>2. NextHead(d, p) # 0 => NextHead(d, p) \in p .. Len(d)
        BY <4>1, NextHeadLemma
      <4>3. \A x : x \notin p .. Len(d)
        BY <1>5, <2>1
      <4>. QED
        BY <1>2, <4>1, <4>2, <4>3 DEF ParseAt
    <3>3. SubSeq(d, p, Len(d)) = << >>
      BY <1>5, <2>1, SubSeqEmpty
    <3>4. g[p] = << >>
      BY <3>2, <3>3, SplitNone DEF ParseFrom
    <3>. QED
      BY <3>1, <3>4, GatherEmpty
  <2>2. CASE p # n + 1
    <3>1. p \in 1 .. Len(d) /\ d[p] \in Token /\ d[p].k # "quiz"
      BY <1>5, <2>2 DEF Source, NoQuiz
    <3>2. PICK x \in ItemSet, q \in p + 1 .. n + 1 : x = ItemAt(d, p) /\ q = AfterItem(d, p)
      BY <1>5, <3>1, ItemAtIs
    <3>3. e[p] = <<x>> \o e[q]
      BY <1>4, <3>1, <3>2, ExtractedAt
    <3>4. Gather(f, g[q]) = Gather(c, e[q])
      BY <1>7 DEF Later
    <3>5. e[q] \in Seq(ItemSet)
      <4>1. q \in 1 .. Len(d) + 1
        BY <1>5
      <4>. QED
        BY <1>4, <4>1, ExtractedFrom
    <3>6. Gather(c, e[p]) = c[x] \o Gather(c, e[q])
      BY <1>6, <3>3, <3>5
    <3>7. DirectiveEnd(d, p) = EndOf(d, p)
      BY <3>1, DirectiveEndIs
    <3>8. CASE EndOf(d, p) = 0
      <4>1. x = Item(d[p]) /\ q = p + 1
        BY <3>2, <3>7, <3>8 DEF ItemAt, AfterItem
      <4>2. Gather(f, g[p]) = ToldOfToken(f)[d[p]] \o Gather(f, g[p + 1])
        BY <1>10, <3>1, <3>8
      <4>3. c[x] = ToldOfToken(f)[d[p]]
        BY <3>1, <4>1 DEF Alike
      <4>. QED
        BY <3>4, <3>6, <4>1, <4>2, <4>3
    <3>9. CASE EndOf(d, p) # 0
      <4>1. PICK raw \in Source : raw = SubSeq(d, p, q - 1) /\ raw # << >> /\ raw[1] = d[p]
        BY <1>5, <3>1, PartFirst
      <4>2. x = Taken(raw) /\ q = EndOf(d, p)
        BY <3>2, <3>7, <3>9, <4>1 DEF ItemAt, AfterItem
      <4>3. Gather(f, g[p]) = f[Directive(SubSeq(d, p, EndOf(d, p) - 1))] \o Gather(f, g[EndOf(d, p)])
        BY <1>11, <3>1, <3>9
      <4>4. raw[1].k \in Heads
        BY <3>1, <3>9, <4>1, EndsOfHeads
      <4>5. c[x] = f[Directive(raw)]
        BY <4>1, <4>2, <4>4 DEF Alike
      <4>. QED
        BY <3>4, <3>6, <4>1, <4>2, <4>3, <4>5
    <3>. QED
      BY <3>8, <3>9
  <2>. QED
    BY <2>1, <2>2
<1>. HIDE DEF P
<1>8. \A p \in 1 .. n + 1 : p \in P
  BY <1>7, Downward
<1>9. 1 \in 1 .. n + 1
  OBVIOUS
<1>. QED
  BY <1>3, <1>4, <1>8, <1>9 DEF P

\* To gather one of each is to look at each.
LEMMA GatherMap ==
  ASSUME NEW S, NEW T, NEW h \in [S -> T], NEW one \in Reads(S, T),
         \A x \in S : one[x] = <<h[x]>>, NEW s \in Seq(S)
  PROVE  Gather(one, s) = [i \in DOMAIN s |-> h[s[i]]]
<1>. DEFINE M(q) == [i \in DOMAIN q |-> h[q[i]]]
            P == {q \in Seq(S) : Gather(one, q) = M(q)}
<1>1. << >> \in P
  <2>1. M(<< >>) = << >> /\ << >> \in Seq(S)
    OBVIOUS
  <2>. QED
    BY <2>1, GatherEmpty
<1>2. ASSUME NEW q \in Seq(S), NEW x \in S, q \in P PROVE Append(q, x) \in P
  <2>1. Gather(one, Append(q, x)) = Gather(one, q) \o one[x]
    BY GatherAppend
  <2>2. M(q) \in Seq(T) /\ h[x] \in T
    OBVIOUS
  <2>3. M(q) \o <<h[x]>> = Append(M(q), h[x])
    <3>1. PICK m \in Seq(T), y \in T : m = M(q) /\ y = h[x]
      BY <2>2
    <3>2. m \o <<y>> = Append(m, y)
      OBVIOUS
    <3>. QED
      BY <3>1, <3>2
  <2>4. M(Append(q, x)) = Append(M(q), h[x])
    OBVIOUS
  <2>5. Append(q, x) \in Seq(S)
    OBVIOUS
  <2>. HIDE DEF M
  <2>. QED
    BY <1>2, <2>1, <2>3, <2>4, <2>5
<1>. HIDE DEF P
<1>3. s \in P
  BY <1>1, <1>2, ByAppend
<1>. QED
  BY <1>3 DEF P

-----------------------------------------------------------------------------
\* What is said of a segment by its type, nothing when it has none.
ByType(V, f) == /\ f \in Reads(Segment, V)
                /\ \A g \in Segment : g.type = "" => f[g] = << >>
Unprosed(f) == [g \in Segment |-> IF g.kind = "prose" THEN << >> ELSE f[g]]

\* The same is said of the item that a token is, or that is taken out.
SaidOfItems(f, c) ==
    /\ \A t \in Token : c[Item(t)] = IF t = Mark THEN f[Directive(<<Mark>>)] ELSE << >>
    /\ \A raw \in Source : raw # << >> /\ raw[1].k \in Heads => c[Taken(raw)] = f[Directive(raw)]

LEMMA MarkIsDirective ==
  /\ Directive(<<Mark>>) \in Segment /\ Directive(<<Mark>>).kind = "directive"
  /\ Directive(<<Mark>>).type = "mark" /\ Directive(<<Mark>>).layer = "formal"
  /\ Mark.k = "mark" /\ Mark.v = "formal" /\ Mark \in Token
<1>1. Mark.k = "mark" /\ Mark.v = "formal"
  BY DEF Mark, Tok
<1>2. <<Mark>>[1] = Mark
  OBVIOUS
<1>. QED
  BY <1>1, <1>2, MarkIsSegment, TokensOf DEF Directive

LEMMA HeadIsDirective ==
  ASSUME NEW raw \in Source, raw # << >>, raw[1].k \in Heads
  PROVE  /\ Directive(raw) \in Segment /\ Directive(raw).kind = "directive"
         /\ Directive(raw).type = raw[1].k /\ Directive(raw).layer = raw[1].v
         /\ Directive(raw).raw = raw /\ raw[1].v \in Layers
<1>1. raw[1] \in Token
  <2>1. raw \in Seq(Token) /\ Len(raw) # 0
    BY DEF Source
  <2>. QED
    BY <2>1
<1>2. raw[1].v \in Layers
  BY <1>1, TokensOf
<1>. QED
  BY <1>2 DEF Directive, Segment

LEMMA SaidOfBoth ==
  ASSUME NEW V, NEW f, NEW c, ByType(V, f), c \in Reads(ItemSet, V), SaidOfItems(f, c),
         NEW d \in Source, NoQuiz(d)
  PROVE  Gather(f, parseDoc(d)) = Gather(c, Extracted(d)) /\ parseDoc(d) \in Seq(Segment)
<1>1. PICK u : u = Unprosed(f)
  OBVIOUS
<1>2. \A g \in Segment : u[g] = IF g.kind = "prose" THEN << >> ELSE f[g]
  BY <1>1 DEF Unprosed
<1>3. Telling(V, u)
  <2>3. << >> \in Seq(V)
    OBVIOUS
  <2>1. f \in Reads(Segment, V) /\ << >> \in Seq(V)
    BY <2>3 DEF ByType
  <2>2. u \in Reads(Segment, V)
    BY <1>1, <2>1 DEF Reads, Unprosed
  <2>. QED
    BY <1>2, <2>2 DEF Telling
<1>4. \A t \in Token : ToldOfToken(u)[t] = IF t = Mark THEN f[Directive(<<Mark>>)] ELSE << >>
  <2>1. u[Directive(<<Mark>>)] = f[Directive(<<Mark>>)]
    BY <1>2, MarkIsDirective
  <2>. QED
    BY <2>1 DEF ToldOfToken
<1>5. \A raw \in Source : raw # << >> /\ raw[1].k \in Heads => u[Directive(raw)] = f[Directive(raw)]
  BY <1>2, HeadIsDirective
<1>6. Alike(u, c)
  BY <1>4, <1>5 DEF Alike, SaidOfItems
<1>7. Gather(u, parseDoc(d)) = Gather(c, Extracted(d))
  BY <1>3, <1>6, ShownTold
<1>8. PICK s \in Seq(Segment) : s = parseDoc(d) /\ \A j \in 1 .. Len(s) : Sound(s[j])
  BY ParseLemma DEF CutOf
<1>9. ASSUME NEW j \in 1 .. Len(s) PROVE u[s[j]] = f[s[j]]
  <2>1. s[j] \in Segment /\ Sound(s[j])
    BY <1>8
  <2>2. s[j].kind = "prose" => s[j] = Prose(s[j].raw)
    BY <2>1 DEF Sound
  <2>3. \A raw : Prose(raw).type = ""
    BY DEF Prose
  <2>4. s[j].kind = "prose" => f[s[j]] = << >>
    BY <2>1, <2>2, <2>3 DEF ByType
  <2>. QED
    BY <1>2, <2>1, <2>4
<1>10. Gather(u, s) = Gather(f, s)
  BY <1>9, GatherSame
<1>. QED
  BY <1>7, <1>8, <1>10

\* Some of a sequence, and what is said of each of those.
Some(S, T, h, pick, each) ==
    \A x \in S : \/ pick[x] = << >> /\ each[x] = << >>
                 \/ pick[x] = <<x>> /\ each[x] = <<h[x]>>

LEMMA GatherSome ==
  ASSUME NEW S, NEW T, NEW h \in [S -> T], NEW pick \in Reads(S, S), NEW each \in Reads(S, T),
         Some(S, T, h, pick, each), NEW s \in Seq(S)
  PROVE  /\ [i \in DOMAIN Gather(pick, s) |-> h[Gather(pick, s)[i]]] = Gather(each, s)
         /\ Gather(pick, s) \in Seq(S)
<1>1. PICK one : one = [x \in S |-> <<h[x]>>]
  OBVIOUS
<1>2. one \in Reads(S, T) /\ \A x \in S : one[x] = <<h[x]>>
  <2>1. \A x \in S : <<h[x]>> \in Seq(T)
    OBVIOUS
  <2>. QED
    BY <1>1, <2>1 DEF Reads
<1>3. PICK q \in Seq(S) : q = Gather(pick, s)
  BY GatherTyped
<1>4. Gather(one, q) = [i \in DOMAIN q |-> h[q[i]]]
  BY <1>2, GatherMap
<1>5. \A x \in S : Gather(one, <<x>>) = one[x]
  BY <1>2, GatherOne
<1>6. Gather(one, << >>) = << >>
  BY GatherEmpty
<1>7. Composed(S, pick, one, each)
  BY <1>2, <1>5, <1>6 DEF Composed, Some
<1>8. Gather(one, Gather(pick, s)) = Gather(each, s)
  BY <1>2, <1>7, GatherTwice
<1>. QED
  BY <1>3, <1>4, <1>8

-----------------------------------------------------------------------------
CardOf == [g \in Segment |-> IF g.type \in {"", "mark"} THEN << >> ELSE <<g>>]
CardRaw == [g \in Segment |-> IF g.type \in {"", "mark"} THEN << >> ELSE <<g.raw>>]
SegmentRaw == [g \in Segment |-> g.raw]
ItemCard == [x \in ItemSet |-> IF x.k = "block" THEN <<x.raw>> ELSE << >>]
OfBlock == [b \in BlockSet |-> IF b.type = "block" THEN <<b>> ELSE << >>]
BlockCard == [b \in BlockSet |-> IF b.type = "block" THEN <<b.raw>> ELSE << >>]
RawOfBlock == [b \in BlockSet |-> b.raw]

LEMMA CardsGathered ==
  ASSUME NEW d \in Source
  PROVE  /\ Cards(d) = Gather(CardOf, parseDoc(d))
         /\ CardOf \in Reads(Segment, Segment) /\ parseDoc(d) \in Seq(Segment)
<1>1. PICK s \in Seq(Segment) : s = parseDoc(d)
  BY ParseLemma DEF CutOf
<1>2. \A i \in DOMAIN s : s[i] \in Segment
  OBVIOUS
<1>3. [i \in DOMAIN s |-> IF s[i].type \in {"", "mark"} THEN <<>> ELSE <<s[i]>>] = Each(CardOf, s)
  BY <1>2 DEF Each, CardOf
<1>4. CardOf \in Reads(Segment, Segment)
  <2>1. \A g \in Segment : <<g>> \in Seq(Segment) /\ << >> \in Seq(Segment)
    OBVIOUS
  <2>. QED
    BY <2>1 DEF CardOf, Reads
<1>. QED
  BY <1>1, <1>3, <1>4 DEF Cards, Gather

LEMMA ImportedGathered ==
  ASSUME NEW d, parse_content_md(d) \in Seq(BlockSet)
  PROVE  /\ Imported(d) = Gather(OfBlock, parse_content_md(d))
         /\ OfBlock \in Reads(BlockSet, BlockSet)
<1>1. PICK s \in Seq(BlockSet) : s = parse_content_md(d)
  OBVIOUS
<1>2. \A i \in DOMAIN s : s[i] \in BlockSet
  OBVIOUS
<1>3. [i \in DOMAIN s |-> IF s[i].type = "block" THEN <<s[i]>> ELSE <<>>] = Each(OfBlock, s)
  BY <1>2 DEF Each, OfBlock
<1>4. OfBlock \in Reads(BlockSet, BlockSet)
  <2>1. \A b \in BlockSet : <<b>> \in Seq(BlockSet) /\ << >> \in Seq(BlockSet)
    OBVIOUS
  <2>. QED
    BY <2>1 DEF OfBlock, Reads
<1>. QED
  BY <1>1, <1>3, <1>4 DEF Imported, Gather

LEMMA CardsSaid ==
  /\ ByType(Source, CardRaw) /\ ItemCard \in Reads(ItemSet, Source) /\ SaidOfItems(CardRaw, ItemCard)
<1>0. /\ \A g \in Segment : <<g.raw>> \in Seq(Source)
      /\ \A x \in ItemSet : <<x.raw>> \in Seq(Source)
      /\ << >> \in Seq(Source)
  <2>1. \A r \in Source : <<r>> \in Seq(Source)
    OBVIOUS
  <2>2. \A g \in Segment : g.raw \in Source
    BY DEF Segment
  <2>3. \A x \in ItemSet : x.raw \in Source
    BY ItemsAre
  <2>4. << >> \in Seq(Source)
    OBVIOUS
  <2>. QED
    BY <2>1, <2>2, <2>3, <2>4
<1>1. ByType(Source, CardRaw)
  BY <1>0 DEF ByType, CardRaw, Reads
<1>2. ItemCard \in Reads(ItemSet, Source)
  BY <1>0 DEF ItemCard, Reads
<1>3. ASSUME NEW t \in Token
      PROVE  ItemCard[Item(t)] = IF t = Mark THEN CardRaw[Directive(<<Mark>>)] ELSE << >>
  <2>1. ItemCard[Item(t)] = << >>
    BY ItemIs DEF ItemCard
  <2>2. CardRaw[Directive(<<Mark>>)] = << >>
    BY MarkIsDirective DEF CardRaw
  <2>. QED
    BY <2>1, <2>2
<1>4. ASSUME NEW raw \in Source, raw # << >>, raw[1].k \in Heads
      PROVE  ItemCard[Taken(raw)] = CardRaw[Directive(raw)]
  <2>1. ItemCard[Taken(raw)] = <<raw>>
    BY <1>4, TakenIs DEF ItemCard
  <2>2. raw[1].k \notin {"", "mark"}
    BY <1>4 DEF Heads
  <2>3. CardRaw[Directive(raw)] = <<raw>>
    BY <1>4, <2>2, HeadIsDirective DEF CardRaw
  <2>. QED
    BY <2>1, <2>3
<1>. QED
  BY <1>1, <1>2, <1>3, <1>4 DEF SaidOfItems

LEMMA CardsAreReading == Reading(Source, ItemCard, BlockCard)
<1>1. BlockCard \in Reads(BlockSet, Source)
  <2>1. \A b \in BlockSet : <<b.raw>> \in Seq(Source) /\ << >> \in Seq(Source)
    <3>1. \A r \in Source : <<r>> \in Seq(Source) /\ << >> \in Seq(Source)
      OBVIOUS
    <3>. QED
      BY <3>1 DEF BlockSet
  <2>. QED
    BY <2>1 DEF BlockCard, Reads
<1>2. \A x \in ItemSet : x.k # "block" => ItemCard[x] = << >>
  BY DEF ItemCard
<1>3. \A x \in ItemSet : x.k \in Aside => ItemCard[x] = << >>
  <2>1. "block" \notin Aside
    BY DEF Aside, Heads
  <2>. QED
    BY <1>2, <2>1
<1>4. ASSUME NEW l \in LayerName, NEW s \in Seq(ItemSet), NoBlocks(s)
      PROVE  BlockCard[Block("markdown", l, s)] = Gather(ItemCard, s)
             /\ BlockCard[Block("quiz", l, s)] = Gather(ItemCard, s)
  <2>1. \A i \in 1 .. Len(s) : ItemCard[s[i]] = << >>
    <3>1. \A i \in 1 .. Len(s) : s[i] \in ItemSet
      OBVIOUS
    <3>. QED
      BY <1>2, <1>4, <3>1 DEF NoBlocks
  <2>2. Gather(ItemCard, s) = << >>
    BY <2>1, CardsSaid, GatherNone
  <2>3. \A kind \in {"markdown", "quiz"} : BlockCard[Block(kind, l, s)] = << >>
    BY BlockIs DEF BlockCard
  <2>. QED
    BY <2>2, <2>3
<1>5. ASSUME NEW l \in LayerName, NEW x \in ItemSet, x.k = "block"
      PROVE  BlockCard[Block("block", l, <<x>>)] = ItemCard[x]
  <2>1. <<x>> \in Seq(ItemSet) /\ Gather(ItemRaw, <<x>>) = ItemRaw[x]
    BY RawOfItems, GatherOne
  <2>2. Block("block", l, <<x>>) \in BlockSet /\ Block("block", l, <<x>>).type = "block"
        /\ Block("block", l, <<x>>).raw = x.raw
    <3>1. PICK s \in Seq(ItemSet) : s = <<x>> /\ Gather(ItemRaw, s) = x.raw
      BY <2>1 DEF ItemRaw
    <3>2. Block("block", l, s) \in BlockSet /\ Block("block", l, s).type = "block"
          /\ Block("block", l, s).raw = Gather(ItemRaw, s)
      BY BlockIs
    <3>. QED
      BY <3>1, <3>2
  <2>. QED
    BY <1>5, <2>2 DEF BlockCard, ItemCard
<1>. QED
  BY <1>1, <1>3, <1>4, <1>5, CardsSaid DEF Reading

\* The cards of the editor are the blocks of the importer.
LEMMA CardsAgree ==
  ASSUME NEW d \in Source, NoQuiz(d)
  PROVE  Raws(Cards(d)) = Raws(Imported(d))
<1>1. Extracted(d) \in Seq(ItemSet)
  BY ExtractedIs
<1>2. PICK out \in Seq(BlockSet) : out = parse_content_md(d) /\ Gather(BlockCard, out) = Gather(ItemCard, Extracted(d))
  BY <1>1, ImportSame, CardsAreReading
<1>3. PICK s \in Seq(Segment) : s = parseDoc(d) /\ Gather(CardRaw, s) = Gather(ItemCard, Extracted(d))
  BY CardsSaid, SaidOfBoth
<1>4. Raws(Cards(d)) = Gather(CardRaw, s)
  <2>1. SegmentRaw \in [Segment -> Source] /\ CardRaw \in Reads(Segment, Source)
        /\ CardOf \in Reads(Segment, Segment) /\ Cards(d) = Gather(CardOf, s)
    BY <1>3, CardsSaid, CardsGathered DEF SegmentRaw, Segment, ByType
  <2>2. PICK h \in [Segment -> Source], pick \in Reads(Segment, Segment), each \in Reads(Segment, Source) :
           h = SegmentRaw /\ pick = CardOf /\ each = CardRaw
    BY <2>1
  <2>3. Some(Segment, Source, h, pick, each)
    BY <2>2 DEF Some, SegmentRaw, CardOf, CardRaw
  <2>4. PICK q \in Seq(Segment) : q = Gather(pick, s) /\ [i \in DOMAIN q |-> h[q[i]]] = Gather(each, s)
    BY <2>3, GatherSome
  <2>5. \A i \in DOMAIN q : h[q[i]] = q[i].raw
    BY <2>2 DEF SegmentRaw
  <2>6. Raws(q) = [i \in DOMAIN q |-> h[q[i]]]
    BY <2>5 DEF Raws
  <2>. QED
    BY <2>1, <2>2, <2>4, <2>6
<1>5. Raws(Imported(d)) = Gather(BlockCard, out)
  <2>1. RawOfBlock \in [BlockSet -> Source] /\ BlockCard \in Reads(BlockSet, Source)
        /\ OfBlock \in Reads(BlockSet, BlockSet) /\ Imported(d) = Gather(OfBlock, out)
    BY <1>2, CardsAreReading, ImportedGathered DEF RawOfBlock, BlockSet, Reading
  <2>2. PICK h \in [BlockSet -> Source], pick \in Reads(BlockSet, BlockSet), each \in Reads(BlockSet, Source) :
           h = RawOfBlock /\ pick = OfBlock /\ each = BlockCard
    BY <2>1
  <2>3. Some(BlockSet, Source, h, pick, each)
    BY <2>2 DEF Some, RawOfBlock, OfBlock, BlockCard
  <2>4. PICK q \in Seq(BlockSet) : q = Gather(pick, out) /\ [i \in DOMAIN q |-> h[q[i]]] = Gather(each, out)
    BY <2>3, GatherSome
  <2>5. \A i \in DOMAIN q : h[q[i]] = q[i].raw
    BY <2>2 DEF RawOfBlock
  <2>6. Raws(q) = [i \in DOMAIN q |-> h[q[i]]]
    BY <2>5 DEF Raws
  <2>. QED
    BY <2>1, <2>2, <2>4, <2>6
<1>. QED
  BY <1>2, <1>3, <1>4, <1>5

-----------------------------------------------------------------------------
(***************************************************************************)
(* The layer that each directive is in.  A marker and a directive are      *)
(* signals to whoever follows the layers: the one sets the layer, the      *)
(* other is in its own or in the one that is set.                          *)
(***************************************************************************)
Signal == [mark : BOOLEAN, layer : LayerName]
SignalOf(m, l) == [mark |-> m, layer |-> l]
SegmentSignal == [g \in Segment |-> IF g.type = "" THEN << >>
                                    ELSE <<SignalOf(g.type = "mark", g.layer)>>]
ItemSignal == [x \in ItemSet |-> IF x.k \in {"mark", "block"}
                                 THEN <<SignalOf(x.k = "mark", x.layer)>> ELSE << >>]

LEMMA SignalIs ==
  ASSUME NEW m \in BOOLEAN, NEW l \in LayerName
  PROVE  /\ SignalOf(m, l) \in Signal /\ SignalOf(m, l).mark = m /\ SignalOf(m, l).layer = l
         /\ <<SignalOf(m, l)>> \in Seq(Signal)
<1>1. SignalOf(m, l) \in Signal /\ SignalOf(m, l).mark = m /\ SignalOf(m, l).layer = l
  BY DEF SignalOf, Signal
<1>2. \A x \in Signal : <<x>> \in Seq(Signal)
  OBVIOUS
<1>. QED
  BY <1>1, <1>2

LEMMA LayersAreNames == Layers \subseteq LayerName
<1>1. ASSUME NEW l \in Layers PROVE l \in LayerName
  <2>1. Tok("single", l) \in Token /\ Tok("single", l).v = l
    BY TokensOf DEF Heads, Tok
  <2>. QED
    BY <2>1 DEF LayerName
<1>. QED
  BY <1>1

LEMMA SignalsSaid ==
  /\ ByType(Signal, SegmentSignal) /\ ItemSignal \in Reads(ItemSet, Signal)
  /\ SaidOfItems(SegmentSignal, ItemSignal)
<1>0. << >> \in Seq(Signal)
  OBVIOUS
<1>1. ByType(Signal, SegmentSignal)
  <2>1. \A g \in Segment : g.layer \in LayerName /\ (g.type = "mark") \in BOOLEAN
    BY LayersAreNames DEF Segment
  <2>2. \A g \in Segment : <<SignalOf(g.type = "mark", g.layer)>> \in Seq(Signal)
    BY <2>1, SignalIs
  <2>3. SegmentSignal \in Reads(Segment, Signal)
    BY <1>0, <2>2 DEF SegmentSignal, Reads
  <2>4. \A g \in Segment : g.type = "" => SegmentSignal[g] = << >>
    BY DEF SegmentSignal
  <2>. QED
    BY <2>3, <2>4 DEF ByType
<1>2. ItemSignal \in Reads(ItemSet, Signal)
  <2>1. \A x \in ItemSet : x.layer \in LayerName /\ (x.k = "mark") \in BOOLEAN
    BY ItemsAre
  <2>2. \A x \in ItemSet : <<SignalOf(x.k = "mark", x.layer)>> \in Seq(Signal)
    BY <2>1, SignalIs
  <2>. QED
    BY <1>0, <2>2 DEF ItemSignal, Reads
<1>3. ASSUME NEW t \in Token
      PROVE  ItemSignal[Item(t)] = IF t = Mark THEN SegmentSignal[Directive(<<Mark>>)] ELSE << >>
  <2>1. Item(t) \in ItemSet /\ Item(t).k = t.k /\ Item(t).k # "block" /\ Item(t).layer = t.v
    BY ItemIs
  <2>2. CASE t = Mark
    <3>1. ItemSignal[Item(t)] = <<SignalOf(TRUE, "formal")>>
      BY <2>1, <2>2, MarkIsDirective DEF ItemSignal
    <3>2. SegmentSignal[Directive(<<Mark>>)] = <<SignalOf(TRUE, "formal")>>
      BY MarkIsDirective DEF SegmentSignal
    <3>. QED
      BY <2>2, <3>1, <3>2
  <2>3. CASE t # Mark
    BY <2>1, <2>3, OnlyMark DEF ItemSignal
  <2>. QED
    BY <2>2, <2>3
<1>4. ASSUME NEW raw \in Source, raw # << >>, raw[1].k \in Heads
      PROVE  ItemSignal[Taken(raw)] = SegmentSignal[Directive(raw)]
  <2>1. ItemSignal[Taken(raw)] = <<SignalOf(FALSE, raw[1].v)>>
    BY <1>4, TakenIs DEF ItemSignal
  <2>2. raw[1].k \notin {"", "mark"}
    BY <1>4 DEF Heads
  <2>3. SegmentSignal[Directive(raw)] = <<SignalOf(FALSE, raw[1].v)>>
    BY <1>4, <2>2, HeadIsDirective DEF SegmentSignal
  <2>. QED
    BY <2>1, <2>3
<1>. QED
  BY <1>1, <1>2, <1>3, <1>4 DEF SaidOfItems

-----------------------------------------------------------------------------
\* Whoever follows the signals: the layer that is set, and those met so far.
Following == [layer : LayerName, out : Seq(LayerName)]
WalkOf(l, o) == [layer |-> l, out |-> o]
LayerSaid(w, x) == IF x.layer = "" THEN w.layer ELSE x.layer
Follow(w, x) == IF x.mark THEN WalkOf(x.layer, w.out)
                ELSE WalkOf(w.layer, Append(w.out, LayerSaid(w, x)))
NextSignal == [w \in Following |-> [x \in Signal |-> Follow(w, x)]]
Followed(l, ss) == FoldOver(Following, WalkOf(l, << >>), NextSignal, ss)

LEMMA WalkIs ==
  /\ \A l \in LayerName, o \in Seq(LayerName) :
        WalkOf(l, o) \in Following /\ WalkOf(l, o).layer = l /\ WalkOf(l, o).out = o
  /\ \A w \in Following : w.layer \in LayerName /\ w.out \in Seq(LayerName) /\ w = WalkOf(w.layer, w.out)
BY DEF Following, WalkOf

LEMMA WalkedOn ==
  ASSUME NEW l \in LayerName
  PROVE  /\ Followed(l, << >>) = WalkOf(l, << >>)
         /\ \A ss \in Seq(Signal) : Followed(l, ss) \in Following
         /\ \A ss \in Seq(Signal), x \in Signal :
               Followed(l, Append(ss, x)) = Follow(Followed(l, ss), x)
<1>1. << >> \in Seq(LayerName)
  OBVIOUS
<1>2. PICK base \in Following : base = WalkOf(l, << >>)
  BY <1>1, WalkIs
<1>3. ASSUME NEW w \in Following, NEW x \in Signal PROVE Follow(w, x) \in Following
  <2>1. w.layer \in LayerName /\ w.out \in Seq(LayerName) /\ x.layer \in LayerName
    BY WalkIs DEF Signal
  <2>2. PICK o \in Seq(LayerName), m \in LayerName : o = w.out /\ m = LayerSaid(w, x)
    BY <2>1 DEF LayerSaid
  <2>3. Append(o, m) \in Seq(LayerName)
    OBVIOUS
  <2>. QED
    BY <2>1, <2>2, <2>3, WalkIs DEF Follow
<1>4. NextSignal \in [Following -> [Signal -> Following]]
      /\ \A w \in Following, x \in Signal : NextSignal[w][x] = Follow(w, x)
  BY <1>3 DEF NextSignal
<1>5. Folder(Signal, Following, base, NextSignal)
  BY <1>4 DEF Folder
<1>6. \A ss \in Seq(Signal) : FoldOver(Following, base, NextSignal, ss) \in Following
  BY <1>5, FoldedTyped
<1>7. \A ss \in Seq(Signal), x \in Signal :
         FoldOver(Following, base, NextSignal, Append(ss, x)) = NextSignal[FoldOver(Following, base, NextSignal, ss)][x]
  BY <1>5, FoldedAppend
<1>8. FoldOver(Following, base, NextSignal, << >>) = base
  BY <1>5, FoldedEmpty
<1>. QED
  BY <1>2, <1>4, <1>6, <1>7, <1>8 DEF Followed

\* Nothing more, or one signal more.
LEMMA WalkedMore ==
  ASSUME NEW l \in LayerName, NEW ss \in Seq(Signal)
  PROVE  /\ \A y : y = << >> => Followed(l, ss \o y) = Followed(l, ss)
         /\ \A x \in Signal : \A y : y = <<x>> => Followed(l, ss \o y) = Follow(Followed(l, ss), x)
<1>1. ss \o << >> = ss
  OBVIOUS
<1>2. \A x \in Signal : ss \o <<x>> = Append(ss, x)
  OBVIOUS
<1>3. \A x \in Signal : Followed(l, Append(ss, x)) = Follow(Followed(l, ss), x)
  BY WalkedOn
<1>. QED
  BY <1>1, <1>2, <1>3

-----------------------------------------------------------------------------
\* The editor's cards follow the signals of the segments.
LayerAt(s, h) ==
    h = [i \in 0 .. Len(s) |-> IF i = 0 THEN "both"
                               ELSE IF s[i].type = "mark" THEN s[i].layer ELSE h[i - 1]]
CardLayers(s, h) ==
    [i \in DOMAIN s |-> IF s[i].type \in {"", "mark"} THEN << >>
                        ELSE <<IF s[i].layer = "" THEN h[i] ELSE s[i].layer>>]

LEMMA BothIsName == "both" \in LayerName /\ "formal" \in LayerName /\ "" \in LayerName
  BY LayersAreNames DEF Layers

LEMMA LayerAtExists ==
  ASSUME NEW s \in Seq(Segment)
  PROVE  \E h : LayerAt(s, h)
<1>. DEFINE next == [l \in LayerName |-> [g \in Segment |-> IF g.type = "mark" THEN g.layer ELSE l]]
<1>1. /\ next \in [LayerName -> [Segment -> LayerName]]
      /\ \A l \in LayerName, g \in Segment : next[l][g] = IF g.type = "mark" THEN g.layer ELSE l
  <2>1. \A g \in Segment : g.layer \in LayerName
    BY LayersAreNames DEF Segment
  <2>. QED
    BY <2>1
<1>. HIDE DEF next
<1>2. Folder(Segment, LayerName, "both", next)
  BY <1>1, BothIsName DEF Folder
<1>3. PICK h \in [0 .. Len(s) -> LayerName] :
         h[0] = "both" /\ \A k \in 1 .. Len(s) : h[k] = next[h[k - 1]][s[k]]
  BY <1>2, StepsExist
<1>4. PICK n \in Nat : n = Len(s)
  OBVIOUS
<1>5. \A k \in 1 .. n : s[k] \in Segment /\ k - 1 \in 0 .. n /\ k # 0
  BY <1>4
<1>6. \A k \in 1 .. n : h[k] = IF s[k].type = "mark" THEN s[k].layer ELSE h[k - 1]
  <2>1. \A k \in 1 .. n : h[k - 1] \in LayerName /\ h[k] = next[h[k - 1]][s[k]]
    BY <1>3, <1>4, <1>5
  <2>. QED
    BY <1>1, <1>5, <2>1
<1>7. \A k \in 0 .. n : k = 0 \/ k \in 1 .. n
  OBVIOUS
<1>8. h = [i \in 0 .. n |-> IF i = 0 THEN "both"
                            ELSE IF s[i].type = "mark" THEN s[i].layer ELSE h[i - 1]]
  BY <1>3, <1>4, <1>5, <1>6, <1>7
<1>. QED
  BY <1>4, <1>8 DEF LayerAt

LEMMA LayerAtIs ==
  ASSUME NEW s \in Seq(Segment), NEW h, LayerAt(s, h)
  PROVE  /\ h[0] = "both" /\ \A k \in 0 .. Len(s) : h[k] \in LayerName
         /\ \A k \in 1 .. Len(s) : h[k] = IF s[k].type = "mark" THEN s[k].layer ELSE h[k - 1]
<1>1. PICK n \in Nat : n = Len(s)
  OBVIOUS
<1>2. \A k \in 1 .. n : k \in 0 .. n /\ k # 0 /\ k - 1 \in 0 .. n /\ s[k] \in Segment /\ s[k].layer \in LayerName
  <2>1. \A g \in Segment : g.layer \in LayerName
    BY LayersAreNames DEF Segment
  <2>. QED
    BY <1>1, <2>1
<1>3. h[0] = "both" /\ \A k \in 1 .. n : h[k] = IF s[k].type = "mark" THEN s[k].layer ELSE h[k - 1]
  <2>1. 0 \in 0 .. n
    OBVIOUS
  <2>. QED
    BY <1>1, <1>2, <2>1 DEF LayerAt
<1>. DEFINE P == {k \in Nat : h[k] \in LayerName}
<1>4. 0 \in P
  BY <1>3, BothIsName
<1>5. \A k \in 1 .. n : k - 1 \in P => k \in P
  BY <1>2, <1>3
<1>. HIDE DEF P
<1>6. \A k \in 0 .. n : k \in P
  BY <1>4, <1>5, UpTo
<1>. QED
  BY <1>1, <1>3, <1>6 DEF P

LEMMA CardLayersTyped ==
  ASSUME NEW s \in Seq(Segment), NEW h, LayerAt(s, h)
  PROVE  /\ CardLayers(s, h) \in Seq(Seq(LayerName)) /\ Len(CardLayers(s, h)) = Len(s)
         /\ \A k \in 1 .. Len(s) :
               CardLayers(s, h)[k] = IF s[k].type \in {"", "mark"} THEN << >>
                                     ELSE <<IF s[k].layer = "" THEN h[k - 1] ELSE s[k].layer>>
<1>1. PICK n \in Nat : n = Len(s) /\ DOMAIN s = 1 .. n
  OBVIOUS
<1>2. /\ \A k \in 0 .. n : h[k] \in LayerName
      /\ \A k \in 1 .. n : h[k] = IF s[k].type = "mark" THEN s[k].layer ELSE h[k - 1]
  BY <1>1, LayerAtIs
<1>3. \A k \in 1 .. n : s[k].layer \in LayerName /\ k - 1 \in 0 .. n /\ k \in 0 .. n
  <2>1. \A g \in Segment : g.layer \in LayerName
    BY LayersAreNames DEF Segment
  <2>2. \A k \in 1 .. n : s[k] \in Segment /\ k - 1 \in 0 .. n /\ k \in 0 .. n
    BY <1>1
  <2>. QED
    BY <2>1, <2>2
<1>. DEFINE c == CardLayers(s, h)
<1>4. c = [i \in 1 .. n |-> IF s[i].type \in {"", "mark"} THEN << >>
                            ELSE <<IF s[i].layer = "" THEN h[i] ELSE s[i].layer>>]
  BY <1>1 DEF CardLayers
<1>5. \A l \in LayerName : <<l>> \in Seq(LayerName) /\ << >> \in Seq(LayerName)
  OBVIOUS
<1>6. ASSUME NEW k \in 1 .. n
      PROVE  /\ c[k] = IF s[k].type \in {"", "mark"} THEN << >>
                       ELSE <<IF s[k].layer = "" THEN h[k - 1] ELSE s[k].layer>>
             /\ c[k] \in Seq(LayerName)
  <2>1. PICK l \in LayerName : l = IF s[k].layer = "" THEN h[k] ELSE s[k].layer
    BY <1>2, <1>3
  <2>2. c[k] = IF s[k].type \in {"", "mark"} THEN << >> ELSE <<l>>
    BY <1>4, <2>1
  <2>3. s[k].type # "mark" => h[k] = h[k - 1]
    BY <1>2
  <2>. HIDE DEF c
  <2>. QED
    BY <1>5, <2>1, <2>2, <2>3
<1>7. DOMAIN c = 1 .. n
  BY <1>4
<1>8. c = [k \in 1 .. n |-> c[k]]
  BY <1>4
<1>. HIDE DEF c
<1>9. c \in [1 .. n -> Seq(LayerName)]
  BY <1>6, <1>8
<1>10. c \in Seq(Seq(LayerName)) /\ Len(c) = n
  BY <1>9
<1>. QED
  BY <1>1, <1>6, <1>10 DEF c

\* One segment more.
LEMMA SegmentFollowed ==
  ASSUME NEW g \in Segment, NEW l \in LayerName, NEW o \in Seq(LayerName), NEW ss \in Seq(Signal),
         Followed("both", ss) = WalkOf(l, o)
  PROVE  Followed("both", ss \o SegmentSignal[g])
         = WalkOf(IF g.type = "mark" THEN g.layer ELSE l,
                  o \o (IF g.type \in {"", "mark"} THEN << >>
                        ELSE <<IF g.layer = "" THEN l ELSE g.layer>>))
<1>1. g.layer \in LayerName /\ (g.type = "mark") \in BOOLEAN
  BY LayersAreNames DEF Segment
<1>2. WalkOf(l, o).layer = l /\ WalkOf(l, o).out = o /\ o \o << >> = o
  BY WalkIs
<1>3. CASE g.type = ""
  <2>1. SegmentSignal[g] = << >>
    BY <1>3 DEF SegmentSignal
  <2>2. Followed("both", ss \o << >>) = Followed("both", ss)
    BY BothIsName, WalkedMore
  <2>. QED
    BY <1>2, <1>3, <2>1, <2>2
<1>4. CASE g.type # ""
  <2>1. PICK x \in Signal : /\ x = SignalOf(g.type = "mark", g.layer)
                            /\ x.mark = (g.type = "mark") /\ x.layer = g.layer
    BY <1>1, SignalIs
  <2>2. SegmentSignal[g] = <<x>>
    BY <1>4, <2>1 DEF SegmentSignal
  <2>3. Followed("both", ss \o <<x>>) = Follow(WalkOf(l, o), x)
    <3>1. PICK y : y = <<x>>
      OBVIOUS
    <3>2. Followed("both", ss \o y) = Follow(Followed("both", ss), x)
      BY <3>1, BothIsName, WalkedMore
    <3>. QED
      BY <3>1, <3>2
  <2>4. CASE g.type = "mark"
    BY <1>2, <2>1, <2>2, <2>3, <2>4 DEF Follow
  <2>5. CASE g.type # "mark"
    <3>1. PICK m \in LayerName : m = IF g.layer = "" THEN l ELSE g.layer
      BY <1>1
    <3>2. Follow(WalkOf(l, o), x) = WalkOf(l, Append(o, m))
      BY <1>2, <2>1, <2>5, <3>1 DEF Follow, LayerSaid
    <3>3. Append(o, m) = o \o <<m>>
      OBVIOUS
    <3>. QED
      BY <1>4, <2>2, <2>3, <2>5, <3>1, <3>2, <3>3
  <2>. QED
    BY <2>4, <2>5
<1>. QED
  BY <1>3, <1>4

LEMMA CardsFollow ==
  ASSUME NEW s \in Seq(Segment), NEW h, LayerAt(s, h)
  PROVE  FlattenSeq(CardLayers(s, h)) = Followed("both", Gather(SegmentSignal, s)).out
<1>. DEFINE E == CardLayers(s, h)
            G(k) == Gather(SegmentSignal, SubSeq(s, 1, k))
            O(k) == FlattenSeq(SubSeq(E, 1, k))
            P == {k \in Nat : k \in 0 .. Len(s) => Followed("both", G(k)) = WalkOf(h[k], O(k))}
<1>1. PICK n \in Nat : n = Len(s)
  OBVIOUS
<1>2. /\ E \in Seq(Seq(LayerName)) /\ Len(E) = n
      /\ \A k \in 1 .. n : E[k] = IF s[k].type \in {"", "mark"} THEN << >>
                                  ELSE <<IF s[k].layer = "" THEN h[k - 1] ELSE s[k].layer>>
  BY <1>1, CardLayersTyped
<1>. HIDE DEF E
<1>3. /\ h[0] = "both" /\ \A k \in 0 .. n : h[k] \in LayerName
      /\ \A k \in 1 .. n : h[k] = IF s[k].type = "mark" THEN s[k].layer ELSE h[k - 1]
  BY <1>1, LayerAtIs
<1>4. PICK f \in Reads(Segment, Signal) : f = SegmentSignal
  BY SignalsSaid DEF ByType
<1>5. 0 \in P
  <2>1. SubSeq(s, 1, 0) = << >> /\ SubSeq(E, 1, 0) = << >>
    <3>1. \A q \in Seq(Seq(LayerName)) : SubSeq(q, 1, 0) = << >>
      OBVIOUS
    <3>2. SubSeq(s, 1, 0) = << >>
      OBVIOUS
    <3>3. SubSeq(E, 1, 0) = << >>
      BY <1>2, <3>1, Zenon
    <3>. QED
      BY <3>2, <3>3
  <2>. QED
    BY <1>3, <2>1, GatherEmpty, FlattenEmpty, WalkedOn, BothIsName
<1>6. ASSUME NEW k \in 1 .. n, k - 1 \in P PROVE k \in P
  <2>1. k \in Nat /\ k - 1 \in 0 .. n /\ k - 1 \in Nat
    OBVIOUS
  <2>2. Followed("both", G(k - 1)) = WalkOf(h[k - 1], O(k - 1))
    BY <1>1, <1>6, <2>1
  <2>3. PICK a \in Seq(Segment), g \in Segment :
           a = SubSeq(s, 1, k - 1) /\ g = s[k] /\ SubSeq(s, 1, k) = Append(a, g)
    <3>1. SubSeq(s, 1, k - 1) \in Seq(Segment) /\ s[k] \in Segment
          /\ SubSeq(s, 1, k) = Append(SubSeq(s, 1, k - 1), s[k])
      BY <1>1, <2>1
    <3>. QED
      BY <3>1
  <2>4. PICK b \in Seq(Seq(LayerName)), c \in Seq(LayerName) :
           b = SubSeq(E, 1, k - 1) /\ c = E[k] /\ SubSeq(E, 1, k) = Append(b, c)
    <3>1. SubSeq(E, 1, k - 1) \in Seq(Seq(LayerName)) /\ E[k] \in Seq(LayerName)
          /\ SubSeq(E, 1, k) = Append(SubSeq(E, 1, k - 1), E[k])
      <4>1. PICK e \in Seq(Seq(LayerName)) : e = E /\ Len(e) = n
        BY <1>2
      <4>2. SubSeq(e, 1, k - 1) \in Seq(Seq(LayerName)) /\ e[k] \in Seq(LayerName)
            /\ SubSeq(e, 1, k) = Append(SubSeq(e, 1, k - 1), e[k])
        BY <2>1, <4>1
      <4>. QED
        BY <4>1, <4>2
    <3>. QED
      BY <3>1
  <2>5. PICK o \in Seq(LayerName) : o = FlattenSeq(b) /\ FlattenSeq(Append(b, c)) = o \o c
    BY FlattenAppend
  <2>6. PICK ss \in Seq(Signal) : ss = Gather(f, a) /\ Gather(f, Append(a, g)) = ss \o f[g]
    BY GatherTyped, GatherAppend
  <2>7. PICK l \in LayerName : l = h[k - 1]
    BY <1>3, <2>1
  <2>8. Followed("both", ss) = WalkOf(l, o)
    BY <1>4, <2>2, <2>3, <2>4, <2>5, <2>6, <2>7
  <2>9. Followed("both", ss \o SegmentSignal[g])
        = WalkOf(IF g.type = "mark" THEN g.layer ELSE l,
                 o \o (IF g.type \in {"", "mark"} THEN << >>
                       ELSE <<IF g.layer = "" THEN l ELSE g.layer>>))
    BY <2>8, SegmentFollowed
  <2>10. c = IF g.type \in {"", "mark"} THEN << >> ELSE <<IF g.layer = "" THEN l ELSE g.layer>>
    BY <1>2, <2>3, <2>4, <2>7
  <2>11. h[k] = IF g.type = "mark" THEN g.layer ELSE l
    BY <1>3, <2>3, <2>7
  <2>12. Followed("both", ss \o SegmentSignal[g]) = WalkOf(h[k], o \o c)
    BY <2>9, <2>10, <2>11
  <2>13. G(k) = ss \o SegmentSignal[g] /\ O(k) = o \o c
    BY <1>4, <2>3, <2>4, <2>5, <2>6
  <2>. HIDE DEF G, O
  <2>. QED
    BY <2>1, <2>12, <2>13
<1>. HIDE DEF P
<1>7. \A k \in 0 .. n : k \in P
  BY <1>5, <1>6, UpTo
<1>8. Followed("both", G(n)) = WalkOf(h[n], O(n))
  <2>1. n \in 0 .. n /\ n \in P
    BY <1>7
  <2>. QED
    BY <1>1, <2>1 DEF P
<1>9. SubSeq(s, 1, n) = s /\ SubSeq(E, 1, n) = E
  <2>1. \A q \in Seq(Seq(LayerName)) : SubSeq(q, 1, Len(q)) = q
    OBVIOUS
  <2>2. SubSeq(s, 1, Len(s)) = s
    OBVIOUS
  <2>. QED
    BY <1>1, <1>2, <2>1, <2>2
<1>10. Followed("both", Gather(SegmentSignal, s)) = WalkOf(h[n], FlattenSeq(E))
  BY <1>8, <1>9
<1>. QED
  BY <1>10 DEF WalkOf, E

LEMMA LayersFollowedIs ==
  ASSUME NEW d \in Source
  PROVE  LayersFollowed(d) = Followed("both", Gather(SegmentSignal, parseDoc(d))).out
<1>1. PICK s \in Seq(Segment) : s = parseDoc(d)
  BY ParseLemma DEF CutOf
<1>2. PICK h : h = CHOOSE q : LayerAt(s, q)
  OBVIOUS
<1>3. LayerAt(s, h)
  BY <1>2, LayerAtExists
<1>4. LayersFollowed(d) = FlattenSeq(CardLayers(s, h))
  BY <1>1, <1>2 DEF LayersFollowed, LayerAt, CardLayers
<1>. QED
  BY <1>1, <1>3, <1>4, CardsFollow

-----------------------------------------------------------------------------
\* A source without a rule is one section.
NoRule(d) == \A i \in 1 .. Len(d) : d[i].k # "rule"
Unruled == {x \in ItemSet : x.k # "rule"}

LEMMA ItemsUnruled ==
  ASSUME NEW d \in Source, NoRule(d)
  PROVE  Extracted(d) \in Seq(Unruled)
<1>1. PICK e : ExtractAt(d, e) /\ Extracted(d) = e[1]
  BY ExtractedIs
<1>2. PICK n \in Nat : n = Len(d)
  BY DEF Source
<1>. DEFINE P == {p \in 1 .. n + 1 : e[p] \in Seq(Unruled)}
<1>3. ASSUME NEW p \in 1 .. n + 1, Later(n, P, p) PROVE p \in P
  <2>1. CASE p = n + 1
    <3>1. e[p] = << >> /\ << >> \in Seq(Unruled)
      BY <1>1, <1>2, <2>1, ExtractedAt
    <3>. QED
      BY <3>1
  <2>2. CASE p # n + 1
    <3>1. p \in 1 .. Len(d) /\ d[p] \in Token /\ d[p].k # "rule"
      BY <1>2, <2>2 DEF Source, NoRule
    <3>2. PICK x \in ItemSet, q \in p + 1 .. n + 1 : x = ItemAt(d, p) /\ q = AfterItem(d, p)
      BY <1>2, <3>1, ItemAtIs
    <3>3. x.k # "rule"
      <4>1. DirectiveEnd(d, p) = 0 => x = Item(d[p])
        BY <3>2 DEF ItemAt
      <4>2. DirectiveEnd(d, p) # 0 => x.k = "block"
        BY <3>2 DEF ItemAt, Taken
      <4>. QED
        BY <3>1, <4>1, <4>2, ItemIs
    <3>4. PICK r \in Seq(Unruled), y \in Unruled : r = e[q] /\ y = x
      <4>1. e[q] \in Seq(Unruled)
        BY <1>3 DEF Later
      <4>. QED
        BY <3>3, <4>1 DEF Unruled
    <3>5. <<y>> \o r \in Seq(Unruled)
      OBVIOUS
    <3>6. e[p] = <<y>> \o r
      BY <1>1, <3>1, <3>2, <3>4, ExtractedAt
    <3>. QED
      BY <3>5, <3>6
  <2>. QED
    BY <2>1, <2>2
<1>. HIDE DEF P
<1>4. \A p \in 1 .. n + 1 : p \in P
  BY <1>3, Downward
<1>5. 1 \in 1 .. n + 1
  OBVIOUS
<1>. QED
  BY <1>1, <1>4, <1>5 DEF P

LEMMA OneSection ==
  ASSUME NEW s \in Seq(Unruled)
  PROVE  AllCut(s) = <<s>>
<1>. DEFINE P == {q \in Seq(Unruled) : AllCut(q) = <<q>>}
<1>1. << >> \in P
  BY AllCutOn
<1>2. ASSUME NEW q \in Seq(Unruled), NEW x \in Unruled, q \in P PROVE Append(q, x) \in P
  <2>1. x \in ItemSet /\ x.k # "rule" /\ Append(q, x) \in Seq(Unruled)
    BY DEF Unruled
  <2>2. q \in Seq(ItemSet)
    <3>1. Unruled \subseteq ItemSet
      BY DEF Unruled
    <3>. QED
      BY <3>1
  <2>3. AllCut(Append(q, x)) = SectionedOneMore(AllCut(q), x)
    BY <2>1, <2>2, AllCutOn
  <2>4. PICK c : c = AllCut(q) /\ c = <<q>>
    BY <1>2
  <2>5. Front(c) = << >> /\ Last(c) = q
    <3>1. Len(c) = 1
      BY <2>4
    <3>. QED
      BY <2>4, <3>1 DEF Front, Last
  <2>6. SectionedOneMore(c, x) = Append(<< >>, Append(q, x))
    BY <2>1, <2>5 DEF SectionedOneMore
  <2>7. \A y : Append(<< >>, y) = <<y>>
    OBVIOUS
  <2>. QED
    BY <2>1, <2>3, <2>4, <2>6, <2>7
<1>. HIDE DEF P
<1>3. s \in P
  BY <1>1, <1>2, ByAppend
<1>. QED
  BY <1>3 DEF P

\* It is read as one.
LEMMA ImportOne ==
  ASSUME NEW d \in Source, NoRule(d)
  PROVE  \E s \in Seq(ItemSet) : \E o \in Seq(BlockSet) :
            /\ s = Extracted(d) /\ parse_content_md(d) = o
            /\ o = IF HasBlock(s) THEN WithBlocks(s, "both").out ELSE WithoutBlocks(s, "both").out
<1>1. PICK s \in Seq(ItemSet) : s = Extracted(d) /\ AllCut(s) = <<s>>
  BY ExtractedIs, ItemsUnruled, OneSection
<1>2. parse_content_md(d) = SectionsRead(<<s>>).out
  BY <1>1, ImportSame
<1>3. SectionsRead(<<s>>) = ReadSection(AtStart, s)
  <2>1. << >> \in Seq(Seq(ItemSet)) /\ Append(<< >>, s) = <<s>>
    OBVIOUS
  <2>. QED
    BY <2>1, SectionsReadOn
<1>4. PICK acc \in Sofar : acc = AtStart /\ acc.layer = "both" /\ acc.out = << >>
  <2>1. << >> \in Seq(Seq(ItemSet))
    OBVIOUS
  <2>2. AtStart \in Sofar
    BY <2>1, SectionsReadOn
  <2>. QED
    BY <2>2 DEF AtStart
<1>5. PICK l \in LayerName, o \in Seq(BlockSet) :
         /\ ReadSection(acc, s) = [layer |-> l, out |-> acc.out \o o]
         /\ o = IF HasBlock(s) THEN WithBlocks(s, acc.layer).out ELSE WithoutBlocks(s, acc.layer).out
  BY ReadSectionIs
<1>6. << >> \o o = o
  OBVIOUS
<1>7. ReadSection(acc, s).out = o
  BY <1>4, <1>5, <1>6
<1>. QED
  BY <1>1, <1>2, <1>3, <1>4, <1>5, <1>7

-----------------------------------------------------------------------------
LayerOfBlock == [b \in BlockSet |-> b.layer]
BlockLayers == [b \in BlockSet |-> IF b.type = "block" THEN <<b.layer>> ELSE << >>]

LEMMA BlockLayersIs ==
  /\ BlockLayers \in Reads(BlockSet, LayerName)
  /\ \A u, v \in Seq(BlockSet) : Gather(BlockLayers, u \o v) = Gather(BlockLayers, u) \o Gather(BlockLayers, v)
  /\ \A u \in Seq(BlockSet) : Gather(BlockLayers, u) \in Seq(LayerName)
  /\ \A b \in BlockSet : Gather(BlockLayers, <<b>>) = IF b.type = "block" THEN <<b.layer>> ELSE << >>
<1>1. BlockLayers \in Reads(BlockSet, LayerName)
  <2>1. \A l \in LayerName : <<l>> \in Seq(LayerName) /\ << >> \in Seq(LayerName)
    OBVIOUS
  <2>2. \A b \in BlockSet : b.layer \in LayerName
    BY DEF BlockSet
  <2>. QED
    BY <2>1, <2>2 DEF BlockLayers, Reads
<1>2. \A u, v \in Seq(BlockSet) : Gather(BlockLayers, u \o v) = Gather(BlockLayers, u) \o Gather(BlockLayers, v)
  BY <1>1, GatherConcat
<1>3. \A u \in Seq(BlockSet) : Gather(BlockLayers, u) \in Seq(LayerName)
  BY <1>1, GatherTyped
<1>4. \A b \in BlockSet : Gather(BlockLayers, <<b>>) = BlockLayers[b]
  BY <1>1, GatherOne
<1>5. \A b \in BlockSet : BlockLayers[b] = IF b.type = "block" THEN <<b.layer>> ELSE << >>
  BY DEF BlockLayers
<1>. QED
  BY <1>1, <1>2, <1>3, <1>4, <1>5

LEMMA ProseHasNoLayer ==
  ASSUME NEW s \in Seq(ItemSet), NEW l \in LayerName
  PROVE  /\ Gather(BlockLayers, Markdown(s, l)) = << >>
         /\ Gather(BlockLayers, <<Block("quiz", l, s)>>) = << >>
<1>1. ASSUME NEW kind \in {"markdown", "quiz"}, NEW c \in Seq(ItemSet)
      PROVE  Gather(BlockLayers, <<Block(kind, l, c)>>) = << >>
  <2>1. PICK b \in BlockSet : b = Block(kind, l, c) /\ b.type = kind
    BY BlockIs
  <2>. QED
    BY <2>1, BlockLayersIs
<1>2. PICK c \in Seq(ItemSet) : c = Stripped(Uncommented(s))
  BY UncommentedIs, StrippedTyped
<1>3. Markdown(s, l) = IF c = << >> THEN << >> ELSE <<Block("markdown", l, c)>>
  BY <1>2 DEF Markdown
<1>4. Gather(BlockLayers, << >>) = << >>
  BY GatherEmpty
<1>. QED
  BY <1>1, <1>3, <1>4

\* The walk that the importer has made: the layer in force, those of its blocks.
Passed(acc) == WalkOf(acc.layer, Gather(BlockLayers, acc.out))

LEMMA PassedOne ==
  ASSUME NEW acc \in Acc, NEW x \in ItemSet, NEW ss \in Seq(Signal),
         Followed("both", ss) = Passed(acc)
  PROVE  Followed("both", ss \o ItemSignal[x]) = Passed(ReadItem(acc, x))
<1>0. /\ \A u, v \in Seq(BlockSet) :
            Gather(BlockLayers, u \o v) = Gather(BlockLayers, u) \o Gather(BlockLayers, v)
      /\ \A b \in BlockSet :
            Gather(BlockLayers, <<b>>) = IF b.type = "block" THEN <<b.layer>> ELSE << >>
  BY BlockLayersIs
<1>1. PICK l \in LayerName, p \in Seq(ItemSet), o \in Seq(BlockSet) : acc = AccOf(l, p, o)
  BY AccFields
<1>2. \A l1, p1, o1 : Passed(AccOf(l1, p1, o1)) = WalkOf(l1, Gather(BlockLayers, o1))
  BY DEF Passed, AccOf
<1>3. PICK w \in Seq(LayerName) : w = Gather(BlockLayers, o)
  BY BlockLayersIs
<1>4. Followed("both", ss) = WalkOf(l, w) /\ WalkOf(l, w).layer = l /\ WalkOf(l, w).out = w
  BY <1>1, <1>2, <1>3, WalkIs
<1>5. x.layer \in LayerName
  BY ItemsAre
<1>6. ASSUME NEW y \in Signal, ItemSignal[x] = <<y>>
      PROVE  Followed("both", ss \o ItemSignal[x]) = Follow(WalkOf(l, w), y)
  <2>1. \A z : z = <<y>> => Followed("both", ss \o z) = Follow(Followed("both", ss), y)
    BY BothIsName, WalkedMore
  <2>. QED
    BY <1>4, <1>6, <2>1
<1>7. CASE x.k = "mark"
  <2>1. PICK y \in Signal : y = SignalOf(TRUE, x.layer) /\ y.mark = TRUE /\ y.layer = x.layer
    BY <1>5, SignalIs
  <2>2. ItemSignal[x] = <<y>>
    BY <1>7, <2>1 DEF ItemSignal
  <2>3. Follow(WalkOf(l, w), y) = WalkOf(x.layer, w)
    BY <1>4, <2>1 DEF Follow
  <2>4. ReadItem(acc, x) = AccOf(x.layer, p, o)
    BY <1>1, <1>7, ReadItemIs
  <2>. QED
    BY <1>2, <1>3, <1>6, <2>2, <2>3, <2>4
<1>8. CASE x.k = "block"
  <2>1. PICK y \in Signal : y = SignalOf(FALSE, x.layer) /\ y.mark = FALSE /\ y.layer = x.layer
    BY <1>5, SignalIs
  <2>2. ItemSignal[x] = <<y>>
    BY <1>8, <2>1 DEF ItemSignal
  <2>3. PICK own \in LayerName : own = BlockLayer(x, l)
    BY BlockLayerTyped
  <2>4. Follow(WalkOf(l, w), y) = WalkOf(l, Append(w, own))
    BY <1>4, <2>1, <2>3 DEF Follow, LayerSaid, BlockLayer
  <2>5. PICK b \in BlockSet : b = Block("block", BlockLayer(x, l), <<x>>) /\ b.type = "block" /\ b.layer = own
    <3>1. <<x>> \in Seq(ItemSet)
      OBVIOUS
    <3>2. PICK s \in Seq(ItemSet) : s = <<x>>
      BY <3>1
    <3>3. Block("block", own, s) \in BlockSet /\ Block("block", own, s).type = "block"
          /\ Block("block", own, s).layer = own
      BY BlockIs
    <3>. QED
      BY <2>3, <3>2, <3>3
  <2>6. PICK m \in Seq(BlockSet) : m = Markdown(p, l) /\ Gather(BlockLayers, m) = << >>
    BY MarkdownTyped, ProseHasNoLayer
  <2>7. PICK om \in Seq(BlockSet), bb \in Seq(BlockSet), all \in Seq(BlockSet) :
           om = o \o m /\ bb = <<b>> /\ all = om \o bb
    <3>1. o \o m \in Seq(BlockSet) /\ <<b>> \in Seq(BlockSet) /\ (o \o m) \o <<b>> \in Seq(BlockSet)
      OBVIOUS
    <3>. QED
      BY <3>1
  <2>8. Gather(BlockLayers, om) = w
    <3>1. Gather(BlockLayers, om) = w \o << >>
      <4>1. Gather(BlockLayers, o \o m) = Gather(BlockLayers, o) \o Gather(BlockLayers, m)
        BY <1>0
      <4>. QED
        BY <1>3, <2>6, <2>7, <4>1
    <3>2. w \o << >> = w
      OBVIOUS
    <3>. QED
      BY <3>1, <3>2
  <2>9. Gather(BlockLayers, bb) = <<own>>
    BY <1>0, <2>5, <2>7
  <2>10. Gather(BlockLayers, all) = w \o <<own>>
    <3>1. Gather(BlockLayers, om \o bb) = Gather(BlockLayers, om) \o Gather(BlockLayers, bb)
      BY <1>0
    <3>. QED
      BY <2>7, <2>8, <2>9, <3>1
  <2>11. w \o <<own>> = Append(w, own)
    OBVIOUS
  <2>12. ReadItem(acc, x) = AccOf(l, << >>, all)
    <3>1. BlocksOf(x, l, p, o) = all
      BY <2>5, <2>6, <2>7 DEF BlocksOf
    <3>. QED
      BY <1>1, <1>8, <3>1, ReadItemIs
  <2>. QED
    BY <1>2, <1>6, <2>2, <2>4, <2>10, <2>11, <2>12
<1>9. CASE x.k \notin {"mark", "block"}
  <2>1. ItemSignal[x] = << >>
    BY <1>9 DEF ItemSignal
  <2>2. Followed("both", ss \o << >>) = Followed("both", ss)
    BY BothIsName, WalkedMore, ZenonT(60)
  <2>3. ReadItem(acc, x) = AccOf(l, Append(p, x), o)
    BY <1>1, <1>9, ReadItemIs
  <2>. QED
    BY <1>2, <1>3, <1>4, <2>1, <2>2, <2>3
<1>. QED
  BY <1>7, <1>8, <1>9

LEMMA BlocksFollow ==
  ASSUME NEW s \in Seq(ItemSet)
  PROVE  Followed("both", Gather(ItemSignal, s)) = Passed(AllRead(s, "both"))
<1>. DEFINE P == {q \in Seq(ItemSet) : Followed("both", Gather(ItemSignal, q)) = Passed(AllRead(q, "both"))}
<1>1. << >> \in P
  <2>1. AllRead(<< >>, "both") = AccOf("both", << >>, << >>)
    BY BothIsName, AllReadOn DEF AtFirst
  <2>2. Passed(AccOf("both", << >>, << >>)) = WalkOf("both", << >>)
    BY GatherEmpty DEF Passed, AccOf
  <2>3. Followed("both", << >>) = WalkOf("both", << >>) /\ << >> \in Seq(ItemSet)
    <3>1. << >> \in Seq(ItemSet)
      OBVIOUS
    <3>. QED
      BY <3>1, BothIsName, WalkedOn
  <2>. QED
    BY <2>1, <2>2, <2>3, GatherEmpty
<1>2. ASSUME NEW q \in Seq(ItemSet), NEW x \in ItemSet, q \in P PROVE Append(q, x) \in P
  <2>1. Append(q, x) \in Seq(ItemSet)
    OBVIOUS
  <2>2. PICK acc \in Acc : acc = AllRead(q, "both") /\ AllRead(Append(q, x), "both") = ReadItem(acc, x)
    BY BothIsName, WithBlocksIs, AllReadOn
  <2>3. PICK ss \in Seq(Signal) : /\ ss = Gather(ItemSignal, q)
                                  /\ Gather(ItemSignal, Append(q, x)) = ss \o ItemSignal[x]
    BY SignalsSaid, GatherTyped, GatherAppend
  <2>4. Followed("both", ss) = Passed(acc)
    BY <1>2, <2>2, <2>3
  <2>5. Followed("both", ss \o ItemSignal[x]) = Passed(ReadItem(acc, x))
    BY <2>4, PassedOne
  <2>. QED
    BY <2>1, <2>2, <2>3, <2>5
<1>. HIDE DEF P
<1>3. s \in P
  BY <1>1, <1>2, ByAppend
<1>. QED
  BY <1>3 DEF P

\* Without blocks there is no layer to tell.
LEMMA NothingFollows ==
  ASSUME NEW s \in Seq(ItemSet), NoBlocks(s)
  PROVE  Followed("both", Gather(ItemSignal, s)).out = << >>
<1>. DEFINE P == {q \in Seq(ItemSet) :
                     NoBlocks(q) => Followed("both", Gather(ItemSignal, q)).out = << >>}
<1>1. << >> \in P
  <2>1. Followed("both", << >>) = WalkOf("both", << >>) /\ << >> \in Seq(ItemSet)
    <3>1. << >> \in Seq(ItemSet)
      OBVIOUS
    <3>. QED
      BY <3>1, BothIsName, WalkedOn
  <2>2. WalkOf("both", << >>).out = << >>
    BY DEF WalkOf
  <2>. QED
    BY <2>1, <2>2, GatherEmpty
<1>2. ASSUME NEW q \in Seq(ItemSet), NEW x \in ItemSet, q \in P PROVE Append(q, x) \in P
  <2>1. Append(q, x) \in Seq(ItemSet)
    OBVIOUS
  <2>. SUFFICES ASSUME NoBlocks(Append(q, x))
                PROVE Followed("both", Gather(ItemSignal, Append(q, x))).out = << >>
    BY <2>1
  <2>2. x.k # "block" /\ Followed("both", Gather(ItemSignal, q)).out = << >>
    BY <1>2, NoBlocksAppend
  <2>. HIDE DEF P
  <2>3. PICK ss \in Seq(Signal) : /\ ss = Gather(ItemSignal, q)
                                  /\ Gather(ItemSignal, Append(q, x)) = ss \o ItemSignal[x]
    BY SignalsSaid, GatherTyped, GatherAppend
  <2>4. CASE x.k = "mark"
    <3>1. PICK y \in Signal : y = SignalOf(TRUE, x.layer) /\ y.mark = TRUE
      BY ItemsAre, SignalIs
    <3>2. ItemSignal[x] = <<y>>
      BY <2>4, <3>1 DEF ItemSignal
    <3>3. Followed("both", ss \o ItemSignal[x]) = Follow(Followed("both", ss), y)
      <4>1. \A z : z = <<y>> => Followed("both", ss \o z) = Follow(Followed("both", ss), y)
        BY BothIsName, WalkedMore
      <4>. QED
        BY <3>2, <4>1
    <3>4. PICK w : w = Followed("both", ss) /\ w.out = << >>
      BY <2>2, <2>3
    <3>5. Follow(w, y).out = << >>
      BY <3>1, <3>4 DEF Follow, WalkOf
    <3>. QED
      BY <2>3, <3>3, <3>4, <3>5
  <2>5. CASE x.k # "mark"
    <3>1. ItemSignal[x] = << >>
      BY <2>2, <2>5 DEF ItemSignal
    <3>2. Followed("both", ss \o << >>) = Followed("both", ss)
      BY BothIsName, WalkedMore, ZenonT(60)
    <3>. QED
      BY <2>2, <2>3, <3>1, <3>2
  <2>. QED
    BY <2>4, <2>5
<1>. HIDE DEF P
<1>3. s \in P
  BY <1>1, <1>2, ByAppend
<1>. QED
  BY <1>3 DEF P

LEMMA ImportFollows ==
  ASSUME NEW d \in Source, NoRule(d)
  PROVE  Gather(BlockLayers, parse_content_md(d)) = Followed("both", Gather(ItemSignal, Extracted(d))).out
<1>1. PICK s \in Seq(ItemSet), o \in Seq(BlockSet) :
         /\ s = Extracted(d) /\ parse_content_md(d) = o
         /\ o = IF HasBlock(s) THEN WithBlocks(s, "both").out ELSE WithoutBlocks(s, "both").out
  BY ImportOne
<1>2. CASE HasBlock(s)
  <2>1. PICK acc \in Acc : acc = AllRead(s, "both")
    BY BothIsName, WithBlocksIs
  <2>2. PICK a \in Seq(BlockSet), m \in Seq(BlockSet) :
           /\ a = acc.out /\ m = Markdown(acc.prose, acc.layer)
           /\ Gather(BlockLayers, m) = << >>
    BY AccFields, MarkdownTyped, ProseHasNoLayer
  <2>3. o = a \o m
    <3>1. WithBlocks(s, "both") = [layer |-> acc.layer, out |-> acc.out \o Markdown(acc.prose, acc.layer)]
      BY <2>1, BothIsName, WithBlocksIs
    <3>2. PICK y : y = a \o m
      OBVIOUS
    <3>3. WithBlocks(s, "both") = [layer |-> acc.layer, out |-> y]
      BY <2>2, <3>1, <3>2
    <3>4. WithBlocks(s, "both").out = y
      BY <3>3
    <3>. QED
      BY <1>1, <1>2, <3>2, <3>4
  <2>4. PICK w \in Seq(LayerName) : w = Gather(BlockLayers, a) /\ w \o << >> = w
    BY BlockLayersIs, InSequence
  <2>5. Gather(BlockLayers, o) = w
    BY <2>2, <2>3, <2>4, BlockLayersIs, ZenonT(60)
  <2>6. Passed(acc).out = w
    BY <2>2, <2>4 DEF Passed, WalkOf
  <2>. QED
    BY <1>1, <2>1, <2>5, <2>6, BlocksFollow
<1>3. CASE ~ HasBlock(s)
  <2>1. NoBlocks(s)
    BY <1>3, HasNone
  <2>2. PICK l \in LayerName : \E r \in Seq(ItemSet) :
           /\ WithoutBlocks(s, "both") =
                [layer |-> l, out |-> IF \E x \in ToSet(r) : x.k = "quiz" THEN <<Block("quiz", l, r)>>
                                      ELSE Markdown(r, l)]
           /\ NoBlocks(s) => NoBlocks(r)
           /\ \A V, f, g : Reading(V, f, g) => Gather(f, r) = Gather(f, s)
    BY BothIsName, WithoutBlocksIs, Zenon
  <2>3. PICK r \in Seq(ItemSet) : o = <<Block("quiz", l, r)>> \/ o = Markdown(r, l)
    <3>1. PICK y : /\ WithoutBlocks(s, "both") = [layer |-> l, out |-> y]
                   /\ \E r \in Seq(ItemSet) : y = <<Block("quiz", l, r)>> \/ y = Markdown(r, l)
      BY <2>2
    <3>2. WithoutBlocks(s, "both").out = y
      BY <3>1
    <3>. QED
      BY <1>1, <1>3, <3>1, <3>2
  <2>4. Gather(BlockLayers, o) = << >>
    BY <2>3, ProseHasNoLayer
  <2>. QED
    BY <1>1, <2>1, <2>4, NothingFollows
<1>. QED
  BY <1>2, <1>3

\* What is imported is in the layers that the cards show.
LEMMA LayersAgree ==
  ASSUME NEW d \in Source, NoQuiz(d), NoRule(d)
  PROVE  Layering(Imported(d)) = LayersFollowed(d)
<1>1. PICK out \in Seq(BlockSet) : out = parse_content_md(d) /\ Imported(d) = Gather(OfBlock, out)
  BY ExtractedIs, ImportSame, ImportedGathered
<1>2. Layering(Imported(d)) = Gather(BlockLayers, out)
  <2>1. LayerOfBlock \in [BlockSet -> LayerName] /\ BlockLayers \in Reads(BlockSet, LayerName)
        /\ OfBlock \in Reads(BlockSet, BlockSet)
    BY <1>1, BlockLayersIs, ImportedGathered DEF LayerOfBlock, BlockSet
  <2>2. PICK h \in [BlockSet -> LayerName], pick \in Reads(BlockSet, BlockSet), each \in Reads(BlockSet, LayerName) :
           h = LayerOfBlock /\ pick = OfBlock /\ each = BlockLayers
    BY <2>1
  <2>3. Some(BlockSet, LayerName, h, pick, each)
    BY <2>2 DEF Some, LayerOfBlock, OfBlock, BlockLayers
  <2>4. PICK q \in Seq(BlockSet) : q = Gather(pick, out) /\ [i \in DOMAIN q |-> h[q[i]]] = Gather(each, out)
    BY <2>3, GatherSome
  <2>5. \A i \in DOMAIN q : h[q[i]] = q[i].layer
    BY <2>2 DEF LayerOfBlock
  <2>6. Layering(q) = [i \in DOMAIN q |-> h[q[i]]]
    BY <2>5 DEF Layering
  <2>. QED
    BY <1>1, <2>2, <2>4, <2>6
<1>3. Gather(SegmentSignal, parseDoc(d)) = Gather(ItemSignal, Extracted(d))
  BY SignalsSaid, SaidOfBoth
<1>. QED
  BY <1>1, <1>2, <1>3, ImportFollows, LayersFollowedIs

-----------------------------------------------------------------------------
\* What the editor and the importer make of one source, whatever it is.
LEMMA SourceHolds == value \in Source => CardsAreBlocks /\ EveryWordIsRead /\ LayersAsMarked
<1>. SUFFICES ASSUME value \in Source PROVE CardsAreBlocks /\ EveryWordIsRead /\ LayersAsMarked
  OBVIOUS
<1>1. DOMAIN value = 1 .. Len(value) /\ \A i \in 1 .. Len(value) : value[i] \in ToSet(value)
  BY DEF Source, ToSet
<1>2. (\A t \in ToSet(value) : t.k # "quiz") => NoQuiz(value)
  BY <1>1 DEF NoQuiz
<1>3. (\A t \in ToSet(value) : t.k \notin {"quiz", "rule"}) => NoQuiz(value) /\ NoRule(value)
  BY <1>1 DEF NoQuiz, NoRule
<1>4. CardsAreBlocks
  BY <1>2, CardsAgree DEF CardsAreBlocks
<1>5. EveryWordIsRead
  BY WordsAreRead DEF EveryWordIsRead
<1>6. LayersAsMarked
  BY <1>3, LayersAgree DEF LayersAsMarked
<1>. QED
  BY <1>4, <1>5, <1>6

(***************************************************************************)
(* Whatever is typed, pasted, inserted, moved, removed or set in a form:   *)
(* joining the segments gives the source (serializeDoc of contentDoc.ts),  *)
(* no prose row holds a directive, a card's layer is the one its head      *)
(* names, and parseDoc of the source gives the same cards again.  Of that  *)
(* source parse_content_md (import_seed.py) makes a block of each card, no *)
(* more and in that order, tells each word once, and puts each block in    *)
(* the layer that the markers say where there is no rule.                  *)
(***************************************************************************)
THEOREM EditingAlwaysHolds == DocSpec => [](DocTypeOK /\ EditingHolds)
<1>1. DocInv /\ [DocNext]_docVars => DocInv'
  BY DocInvIsInductive
<1>2. DocInv => DocTypeOK /\ EditingHolds
  <2>1. DocInv => value \in Source
    BY DEF DocInv
  <2>. QED
    BY <2>1, SourceHolds, DocInvHolds, DocInvReparses DEF EditingHolds
<1>. QED
  BY <1>1, <1>2, DocBegins, PTL DEF DocSpec
================================================================================
