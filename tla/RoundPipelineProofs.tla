------------------------ MODULE RoundPipelineProofs -------------------------
(***************************************************************************)
(* Proofs about RoundPipeline: the union-find of grouping.py computes the  *)
(* connected components whatever the anomalies are and in whatever order   *)
(* they come, no signal gets lost or counted twice between L0 and the      *)
(* incidents, and an incident becomes critical only with a metric and all  *)
(* the logs of one service.                                                *)
(*                                                                         *)
(* The parents are a forest: there is a map f from nodes to roots and a    *)
(* depth that decreases on the way up.  What is proved of the union-find   *)
(* is what find and union do to f, and the rest of the argument only looks *)
(* at f.  Facts about recursive functions are proved from a counterexample *)
(* of least depth.                                                         *)
(***************************************************************************)
EXTENDS RoundPipeline, TLAPS, FiniteSetTheorems, WellFoundedInduction, SequenceTheorems

-----------------------------------------------------------------------------
(***************************************************************************)
(* Least members.                                                          *)
(***************************************************************************)
LEMMA LeastExists ==
    ASSUME NEW T, T \subseteq Nat, T # {}
    PROVE  \E x \in T : \A y \in T : x <= y
  <1>1. \E x \in T : \A y \in T : ~(<<y, x>> \in OpToRel(<, Nat))
    BY WFMin, NatLessThanWellFounded
  <1>2. \E x \in T : \A y \in T : ~(y < x)
    BY <1>1, Zenon DEF OpToRel
  <1> QED
    BY <1>2

LEMMA SmallestIs ==
    ASSUME NEW S, S \subseteq Nat, S # {}
    PROVE  Smallest(S) \in S /\ \A j \in S : Smallest(S) <= j
  BY LeastExists DEF Smallest

\* A nonempty set of nodes has one of least depth.
LEMMA LeastDepth ==
    ASSUME NEW D, NEW d \in [D -> Nat], NEW S, S \subseteq D, S # {}
    PROVE  \E x \in S : \A y \in S : d[x] <= d[y]
  <1> DEFINE T == {d[x] : x \in S}
  <1>1. T \subseteq Nat /\ T # {}
    OBVIOUS
  <1>2. PICK n \in T : \A m \in T : n <= m
    BY <1>1, LeastExists
  <1>3. PICK x \in S : d[x] = n
    BY <1>2
  <1> QED
    BY <1>2, <1>3

-----------------------------------------------------------------------------
(***************************************************************************)
(* _UnionFind.                                                             *)
(***************************************************************************)
\* The parents p of the nodes D are a forest: f is the root of a node and d a depth.
Rooted(p, D, f, d) ==
    /\ p \in [D -> D] /\ f \in [D -> D] /\ d \in [D -> Nat]
    /\ \A y \in D : f[y] = IF p[y] = y THEN y ELSE f[p[y]]
    /\ \A y \in D : p[y] # y => d[p[y]] < d[y]

LEMMA RootsAreFixed ==
    ASSUME NEW p, NEW D, NEW f, NEW d, Rooted(p, D, f, d)
    PROVE  \A y \in D : /\ p[f[y]] = f[y] /\ f[f[y]] = f[y]
                        /\ f[y] # y => d[f[y]] < d[y]
  <1> DEFINE Good(y) == p[f[y]] = f[y] /\ (f[y] # y => d[f[y]] < d[y])
             Bad == {y \in D : ~Good(y)}
  <1>0. p \in [D -> D] /\ f \in [D -> D] /\ d \in [D -> Nat]
    BY DEF Rooted
  <1>1. Bad = {}
    <2> SUFFICES ASSUME Bad # {} PROVE FALSE
      OBVIOUS
    <2>1. PICK y \in Bad : \A z \in Bad : d[y] <= d[z]
      BY <1>0, LeastDepth
    <2>2. CASE p[y] = y
      BY <2>1, <2>2 DEF Rooted
    <2>3. CASE p[y] # y
      <3>1. p[y] \in D /\ d[p[y]] < d[y] /\ f[y] = f[p[y]]
        BY <2>1, <2>3 DEF Rooted
      <3>2. Good(p[y])
        BY <1>0, <2>1, <3>1
      <3> QED
        BY <1>0, <2>1, <3>1, <3>2
    <2> QED
      BY <2>2, <2>3
  <1>2. \A y \in D : Good(y)
    BY <1>1
  <1> QED
    BY <1>0, <1>2 DEF Rooted

\* find answers the root.
LEMMA RootIs ==
    ASSUME NEW p, NEW D, NEW f, NEW d, Rooted(p, D, f, d), NEW x \in D
    PROVE  Root(p, x) = f[x]
  <1> DEFINE IsRoot(g) == g = [y \in DOMAIN p |-> IF p[y] = y THEN y ELSE g[p[y]]]
             g == CHOOSE h : IsRoot(h)
             Bad == {y \in D : g[y] # f[y]}
  <1>0. p \in [D -> D] /\ f \in [D -> D] /\ d \in [D -> Nat] /\ DOMAIN p = D
    BY DEF Rooted
  <1>1. IsRoot(f)
    BY <1>0 DEF Rooted
  <1>2. IsRoot(g)
    BY <1>1
  <1> HIDE DEF g
  <1>3. \A y \in D : g[y] = IF p[y] = y THEN y ELSE g[p[y]]
    BY <1>0, <1>2
  <1>4. Bad = {}
    <2> SUFFICES ASSUME Bad # {} PROVE FALSE
      OBVIOUS
    <2>1. PICK y \in Bad : \A z \in Bad : d[y] <= d[z]
      BY <1>0, LeastDepth
    <2>2. CASE p[y] = y
      BY <1>3, <2>1, <2>2 DEF Rooted
    <2>3. CASE p[y] # y
      <3>1. p[y] \in D /\ d[p[y]] < d[y] /\ f[y] = f[p[y]] /\ g[y] = g[p[y]]
        BY <1>3, <2>1, <2>3 DEF Rooted
      <3> QED
        BY <1>0, <2>1, <3>1
    <2> QED
      BY <2>2, <2>3
  <1> QED
    BY <1>4 DEF Root, g

\* The nodes on the way up are in the tree of the node.
LEMMA PathIs ==
    ASSUME NEW p, NEW D, NEW f, NEW d, Rooted(p, D, f, d), NEW x \in D
    PROVE  Path(p, x) \subseteq {y \in D : f[y] = f[x]}
  <1> DEFINE IsPath(g) == g = [y \in DOMAIN p |-> IF p[y] = y THEN {y} ELSE {y} \cup g[p[y]]]
             g == CHOOSE h : IsPath(h)
             Up(T) == \A w \in T : p[w] \in T
             h == [y \in D |-> {z \in D : \A T \in SUBSET D : y \in T /\ Up(T) => z \in T}]
             Tree(y) == {z \in D : f[z] = f[y]}
             Bad == {y \in D : ~(g[y] \subseteq Tree(y))}
  <1>0. p \in [D -> D] /\ f \in [D -> D] /\ d \in [D -> Nat] /\ DOMAIN p = D
    BY DEF Rooted
  <1>1. \A y \in D : h[y] = IF p[y] = y THEN {y} ELSE {y} \cup h[p[y]]
    <2> TAKE y \in D
    <2>1. y \in h[y]
      OBVIOUS
    <2>2. CASE p[y] = y
      <3>1. {y} \in SUBSET D /\ Up({y})
        BY <2>2
      <3>2. h[y] \subseteq {y}
        BY <3>1
      <3> QED
        BY <2>1, <2>2, <3>2
    <2>3. CASE p[y] # y
      <3>0. p[y] \in D
        BY <1>0
      <3>1. h[p[y]] \subseteq h[y]
        BY <1>0, <3>0
      <3>2. ASSUME NEW z \in h[y], z # y PROVE z \in h[p[y]]
        <4>1. ASSUME NEW T \in SUBSET D, p[y] \in T, Up(T) PROVE z \in T
          <5>1. T \cup {y} \in SUBSET D /\ Up(T \cup {y})
            BY <4>1
          <5>2. z \in T \cup {y}
            BY <3>2, <5>1
          <5> QED
            BY <3>2, <5>2
        <4>2. z \in D
          BY <3>2
        <4> QED
          BY <3>0, <4>1, <4>2
      <3> HIDE DEF h
      <3>3. h[y] = {y} \cup h[p[y]]
        BY <2>1, <3>1, <3>2
      <3> QED
        BY <2>3, <3>3
    <2> QED
      BY <2>2, <2>3
  <1>2. IsPath(h)
    <2> HIDE DEF Up
    <2>1. h = [y \in D |-> h[y]]
      OBVIOUS
    <2> HIDE DEF h
    <2> QED
      BY <1>0, <1>1, <2>1
  <1>3. IsPath(g)
    <2> HIDE DEF h
    <2> QED
      BY <1>2
  <1> HIDE DEF g, h
  <1>4. \A y \in D : g[y] = IF p[y] = y THEN {y} ELSE {y} \cup g[p[y]]
    BY <1>0, <1>3
  <1>5. Bad = {}
    <2> SUFFICES ASSUME Bad # {} PROVE FALSE
      OBVIOUS
    <2>0. Bad \subseteq D
      OBVIOUS
    <2>1. PICK y \in Bad : \A z \in Bad : d[y] <= d[z]
      <3> HIDE DEF Bad
      <3> QED
        BY <1>0, <2>0, LeastDepth
    <2>2. y \in D /\ ~(g[y] \subseteq Tree(y))
      BY <2>1
    <2>3. CASE p[y] = y
      <3>1. g[y] = {y} /\ y \in Tree(y)
        BY <1>4, <2>2, <2>3
      <3> QED
        BY <2>2, <3>1
    <2>4. CASE p[y] # y
      <3>1. p[y] \in D /\ d[p[y]] < d[y] /\ f[y] = f[p[y]] /\ g[y] = {y} \cup g[p[y]]
        BY <1>4, <2>2, <2>4 DEF Rooted
      <3>2. d[y] \in Nat /\ d[p[y]] \in Nat
        BY <1>0, <2>2, <3>1
      <3>3. p[y] \notin Bad
        <4> HIDE DEF Bad
        <4> QED
          BY <2>1, <3>1, <3>2
      <3>4. g[p[y]] \subseteq Tree(y)
        BY <3>1, <3>3
      <3> QED
        BY <2>2, <3>1, <3>4
    <2> QED
      BY <2>3, <2>4
  <1>6. g[x] \subseteq {y \in D : f[y] = f[x]}
    BY <1>5
  <1> QED
    BY <1>6 DEF Path, g

\* The path compression of find leaves every root, and every depth, as it is.
LEMMA CompressRooted ==
    ASSUME NEW p, NEW D, NEW f, NEW d, Rooted(p, D, f, d), NEW x \in D
    PROVE  Rooted(Compress(p, x), D, f, d)
  <1> DEFINE q == Compress(p, x)
  <1>0. p \in [D -> D] /\ f \in [D -> D] /\ d \in [D -> Nat] /\ DOMAIN p = D
    BY DEF Rooted
  <1>1. q = [y \in D |-> IF y \in Path(p, x) THEN f[x] ELSE p[y]]
    BY <1>0, RootIs DEF Compress
  <1> HIDE DEF q
  <1>2. \A y \in D : q[y] = f[y] \/ q[y] = p[y]
    BY <1>1, PathIs
  <1>3. q \in [D -> D]
    BY <1>0, <1>1
  <1>4. \A y \in D : p[f[y]] = f[y] /\ f[f[y]] = f[y] /\ (f[y] # y => d[f[y]] < d[y])
    BY RootsAreFixed
  <1>5. ASSUME NEW y \in D
        PROVE  (f[y] = IF q[y] = y THEN y ELSE f[q[y]]) /\ (q[y] # y => d[q[y]] < d[y])
    BY <1>2, <1>4 DEF Rooted
  <1> QED
    BY <1>0, <1>3, <1>5 DEF Rooted, q

\* The roots after the trees of a and b have become one.
Merge(f, a, b) == [y \in DOMAIN f |-> IF f[y] = f[b] THEN f[a] ELSE f[y]]

LEMMA UnionRooted ==
    ASSUME NEW p, NEW D, NEW f, NEW d, Rooted(p, D, f, d), NEW a \in D, NEW b \in D
    PROVE  \E e : Rooted(Union(p, a, b), D, Merge(f, a, b), e)
  <1> DEFINE q == Compress(Compress(p, a), b)
             m == Merge(f, a, b)
             e == [y \in D |-> IF f[y] = f[b] THEN d[y] + d[f[a]] + 1 ELSE d[y]]
  <1>0. f \in [D -> D] /\ d \in [D -> Nat] /\ DOMAIN f = D
    BY DEF Rooted
  <1>1. Root(p, a) = f[a] /\ Root(p, b) = f[b]
    BY RootIs
  <1>2. Rooted(q, D, f, d)
    BY CompressRooted
  <1>3. Union(p, a, b) = IF f[a] # f[b] THEN [q EXCEPT ![f[b]] = f[a]] ELSE q
    BY <1>1 DEF Union
  <1> HIDE DEF q
  <1>4. CASE f[a] = f[b]
    <2>1. m = f
      BY <1>0, <1>4 DEF Merge
    <2> QED
      BY <1>2, <1>3, <1>4, <2>1
  <1>5. CASE f[a] # f[b]
    <2> DEFINE u == [q EXCEPT ![f[b]] = f[a]]
    <2>1. q \in [D -> D] /\ f[a] \in D /\ f[b] \in D
      BY <1>0, <1>2 DEF Rooted
    <2>2. u \in [D -> D] /\ u[f[b]] = f[a] /\ \A y \in D : y # f[b] => u[y] = q[y]
      BY <2>1
    <2> HIDE DEF u
    <2>3. m \in [D -> D] /\ \A y \in D : m[y] = IF f[y] = f[b] THEN f[a] ELSE f[y]
      BY <1>0 DEF Merge
    <2>4. e \in [D -> Nat] /\ \A y \in D : e[y] = IF f[y] = f[b] THEN d[y] + d[f[a]] + 1 ELSE d[y]
      BY <1>0
    <2> HIDE DEF m, e
    <2>5. \A y \in D : q[f[y]] = f[y] /\ f[f[y]] = f[y]
      BY <1>2, RootsAreFixed
    <2>6. ASSUME NEW y \in D
          PROVE  (m[y] = IF u[y] = y THEN y ELSE m[u[y]]) /\ (u[y] # y => e[u[y]] < e[y])
      <3>1. CASE y = f[b]
        <4>1. u[y] = f[a] /\ f[y] = f[b] /\ f[f[a]] = f[a] /\ f[a] # y
          BY <1>5, <2>2, <2>5, <3>1
        <4>2. m[y] = f[a] /\ m[f[a]] = f[a]
          BY <1>5, <2>1, <2>3, <4>1
        <4>3. e[y] = d[y] + d[f[a]] + 1 /\ e[f[a]] = d[f[a]] /\ d[y] \in Nat /\ d[f[a]] \in Nat
          BY <1>0, <1>5, <2>1, <2>4, <4>1
        <4> QED
          BY <4>1, <4>2, <4>3
      <3>2. CASE y # f[b]
        <4>1. u[y] = q[y] /\ q[y] \in D
          BY <2>1, <2>2, <3>2
        <4>2. (f[y] = IF q[y] = y THEN y ELSE f[q[y]]) /\ (q[y] # y => d[q[y]] < d[y])
          BY <1>2 DEF Rooted
        <4>3. CASE q[y] = y
          BY <2>3, <3>2, <4>1, <4>2, <4>3
        <4>4. CASE q[y] # y
          <5>1. m[y] = m[q[y]]
            BY <2>3, <4>1, <4>2, <4>4
          <5>2. d[y] \in Nat /\ d[q[y]] \in Nat /\ d[f[a]] \in Nat
            BY <1>0, <2>1, <4>1
          <5>3. e[q[y]] < e[y]
            BY <2>4, <4>1, <4>2, <4>4, <5>2
          <5> QED
            BY <4>1, <4>4, <5>1, <5>3
        <4> QED
          BY <4>3, <4>4
      <3> QED
        BY <3>1, <3>2
    <2>7. Rooted(u, D, m, e)
      BY <2>2, <2>3, <2>4, <2>6 DEF Rooted
    <2>8. u = Union(p, a, b)
      BY <1>3, <1>5 DEF u
    <2> QED
      BY <2>7, <2>8 DEF m
  <1> QED
    BY <1>4, <1>5

-----------------------------------------------------------------------------
(***************************************************************************)
(* What a union does to the trees: it only ever joins them, it joins the   *)
(* two it is asked to, and it joins nothing that a set of nodes with       *)
(* neither or both of them keeps apart.                                    *)
(***************************************************************************)
\* The nodes of a tree of f are of one tree of g.
Coarser(f, g) == \A x, y \in DOMAIN f : f[x] = f[y] => g[x] = g[y]

\* T is a union of trees.
Respects(f, T) == \A x, y \in DOMAIN f : f[x] = f[y] /\ x \in T => y \in T

\* In g the trees of a and b of f are one, and no others.
Joined(g, f, a, b) ==
    /\ g[a] = g[b] /\ Coarser(f, g)
    /\ \A T : Respects(f, T) /\ (a \in T <=> b \in T) => Respects(g, T)

LEMMA MergeFacts ==
    ASSUME NEW D, NEW f, f \in [D -> D], NEW a \in D, NEW b \in D
    PROVE  Merge(f, a, b) \in [D -> D] /\ Joined(Merge(f, a, b), f, a, b)
  <1> DEFINE m == Merge(f, a, b)
  <1>1. m \in [D -> D] /\ DOMAIN f = D /\ \A y \in D : m[y] = IF f[y] = f[b] THEN f[a] ELSE f[y]
    BY DEF Merge
  <1> HIDE DEF m
  <1>2. m[a] = m[b] /\ Coarser(f, m)
    BY <1>1 DEF Coarser
  <1>3. ASSUME NEW T, Respects(f, T), a \in T <=> b \in T PROVE Respects(m, T)
    <2> SUFFICES ASSUME NEW x \in D, NEW y \in D, m[x] = m[y], x \in T PROVE y \in T
      BY <1>1 DEF Respects
    <2>1. ASSUME NEW u \in D, NEW v \in D, f[u] = f[v], u \in T PROVE v \in T
      BY <1>1, <1>3, <2>1 DEF Respects
    <2>2. CASE f[x] = f[b]
      <3>1. b \in T /\ a \in T
        BY <1>3, <2>1, <2>2
      <3>2. f[y] = f[b] \/ f[y] = f[a]
        BY <1>1, <2>2
      <3> QED
        BY <2>1, <3>1, <3>2
    <2>3. CASE f[x] # f[b]
      <3>1. CASE f[y] = f[b]
        <4>1. f[a] = f[x]
          BY <1>1, <2>3, <3>1
        <4>2. a \in T
          BY <2>1, <4>1
        <4> QED
          BY <1>3, <2>1, <3>1, <4>2
      <3>2. CASE f[y] # f[b]
        BY <1>1, <2>1, <2>3, <3>2
      <3> QED
        BY <3>1, <3>2
    <2> QED
      BY <2>2, <2>3
  <1> QED
    BY <1>1, <1>2, <1>3 DEF m, Joined

-----------------------------------------------------------------------------
(***************************************************************************)
(* FoldLeft over the places 1..n of a list.                                *)
(***************************************************************************)
LEMMA MaxOfInterval ==
    ASSUME NEW m \in Nat, NEW s, s \subseteq 1..m, m \in s
    PROVE  Max(s) = m
  <1>1. \A y \in s : m >= y
    OBVIOUS
  <1>2. \A x \in s : (\A y \in s : x >= y) => x = m
    OBVIOUS
  <1> QED
    BY <1>1, <1>2 DEF Max

LEMMA IntervalFacts ==
    ASSUME NEW n \in Nat, NEW m \in 1..n
    PROVE  (1..m) \in SUBSET (1..n) /\ 1..m # {} /\ (1..m) \ {m} = 1..(m - 1)
  <1>1. (1..m) \in SUBSET (1..n) /\ 1..m # {}
    OBVIOUS
  <1>2. \A x : x \in (1..m) \ {m} <=> x \in 1..(m - 1)
    OBVIOUS
  <1> QED
    BY <1>1, <1>2

LEMMA MaxIsMember ==
    ASSUME NEW n \in Nat, NEW s \in SUBSET (1..n), s # {}
    PROVE  Max(s) \in s /\ \A y \in s : y <= Max(s)
  <1> DEFINE mirror == {y \in Nat : \E x \in s : y = n - x}
  <1>0. PICK x0 \in s : x0 \in 1..n
    OBVIOUS
  <1>1. mirror \subseteq Nat /\ mirror # {}
    <2>1. n - x0 \in Nat
      BY <1>0
    <2>2. n - x0 \in mirror
      BY <1>0, <2>1
    <2> QED
      BY <2>2
  <1>2. PICK z \in mirror : \A y \in mirror : z <= y
    <2> HIDE DEF mirror
    <2> QED
      BY <1>1, LeastExists
  <1>3. PICK x \in s : z = n - x
    BY <1>2
  <1>4. \A y \in s : n - x <= n - y
    <2>1. \A y \in s : y \in 1..n /\ n - y \in Nat
      OBVIOUS
    <2>2. \A y \in s : n - y \in mirror
      BY <2>1
    <2> QED
      BY <1>2, <1>3, <2>2
  <1>5. \A y \in s : x >= y
    BY <1>4
  <1>6. Max(s) \in s /\ \A y \in s : Max(s) >= y
    BY <1>5 DEF Max
  <1>7. \A y \in s : y \in Nat
    OBVIOUS
  <1> QED
    BY <1>6, <1>7

\* The recursion behind a fold, for a step F that is a function.
Solves(it, n, P, base, F) ==
    /\ it \in [SUBSET (1..n) -> P]
    /\ \A s \in SUBSET (1..n) :
           it[s] = IF s = {} THEN base ELSE F[<<it[s \ {Max(s)}], Max(s)>>]

\* It has a solution.
LEMMA FoldExists ==
    ASSUME NEW n \in Nat, NEW P, NEW base \in P, NEW F \in [P \X (1..n) -> P]
    PROVE  \E it : Solves(it, n, P, base, F)
  <1> DEFINE Eq(it, s) == it[s] = IF s = {} THEN base ELSE F[<<it[s \ {Max(s)}], Max(s)>>]
             Solved(m) == \E it \in [SUBSET (1..n) -> P] : \A s \in SUBSET (1..m) : Eq(it, s)
             Bad == {m \in 0..n : ~Solved(m)}
  <1> HIDE DEF Solved
  <1>1. Bad = {}
    <2> SUFFICES ASSUME Bad # {} PROVE FALSE
      OBVIOUS
    <2>1. Bad \subseteq Nat
      OBVIOUS
    <2>2. PICK m \in Bad : \A y \in Bad : m <= y
      <3> HIDE DEF Bad
      <3> QED
        BY <2>1, LeastExists
    <2>3. m \in 0..n /\ ~Solved(m)
      BY <2>2
    <2>4. CASE m = 0
      <3>1. [s \in SUBSET (1..n) |-> base] \in [SUBSET (1..n) -> P]
        OBVIOUS
      <3>2. \A s \in SUBSET (1..0) : s = {} /\ s \in SUBSET (1..n)
        OBVIOUS
      <3>3. Solved(0)
        BY <3>1, <3>2 DEF Solved
      <3> QED
        BY <2>3, <2>4, <3>3
    <2>5. CASE m # 0
      <3>1. m - 1 \in 0..n /\ m - 1 < m /\ m \in 1..n
        BY <2>3, <2>5
      <3>2. m - 1 \notin Bad
        <4> HIDE DEF Bad
        <4> QED
          BY <2>1, <2>2, <3>1
      <3>3. Solved(m - 1)
        BY <3>1, <3>2
      <3>4. PICK g \in [SUBSET (1..n) -> P] : \A s \in SUBSET (1..(m - 1)) : Eq(g, s)
        BY <3>3 DEF Solved
      <3> DEFINE h == [s \in SUBSET (1..n) |-> IF m \in s THEN F[<<g[s \ {m}], m>>] ELSE g[s]]
      <3>5. h \in [SUBSET (1..n) -> P]
        <4>1. ASSUME NEW s \in SUBSET (1..n) PROVE (IF m \in s THEN F[<<g[s \ {m}], m>>] ELSE g[s]) \in P
          <5>1. s \ {m} \in SUBSET (1..n)
            OBVIOUS
          <5>2. g[s] \in P /\ g[s \ {m}] \in P
            BY <5>1
          <5>3. <<g[s \ {m}], m>> \in P \X (1..n)
            BY <3>1, <5>2
          <5> QED
            BY <5>2, <5>3
        <4> QED
          BY <4>1
      <3>6. ASSUME NEW s \in SUBSET (1..m) PROVE Eq(h, s)
        <4>0. s \in SUBSET (1..n)
          BY <3>1
        <4>1. CASE m \in s
          <5>0. m \in Nat /\ s \subseteq 1..m
            BY <2>3
          <5>1. Max(s) = m /\ s # {}
            BY <4>1, <5>0, MaxOfInterval
          <5>2. s \ {m} \in SUBSET (1..n) /\ m \notin s \ {m}
            BY <4>0
          <5>3. h[s \ {m}] = g[s \ {m}]
            BY <5>2
          <5>4. h[s] = F[<<g[s \ {m}], m>>]
            BY <4>0, <4>1
          <5> QED
            BY <5>1, <5>3, <5>4
        <4>2. CASE m \notin s
          <5>1. s \in SUBSET (1..(m - 1)) /\ s \ {Max(s)} \in SUBSET (1..n) /\ m \notin s \ {Max(s)}
            <6>1. \A z \in s : z \in 1..m /\ z # m
              BY <4>2
            <6>2. \A z \in s : z \in 1..(m - 1)
              BY <3>1, <6>1
            <6> QED
              BY <4>0, <4>2, <6>2
          <5>2. h[s] = g[s] /\ h[s \ {Max(s)}] = g[s \ {Max(s)}]
            BY <4>0, <4>2, <5>1
          <5>3. Eq(g, s)
            BY <3>4, <5>1
          <5> QED
            BY <5>2, <5>3
        <4> QED
          BY <4>1, <4>2
      <3> HIDE DEF h
      <3>7. Solved(m)
        BY <3>5, <3>6 DEF Solved
      <3> QED
        BY <2>3, <3>7
    <2> QED
      BY <2>4, <2>5
  <1>2. Solved(n)
    BY <1>1
  <1> QED
    BY <1>2 DEF Solved, Solves

\* What uniting i with every node of a list, one after the other, does to the trees f0.
United(f, f0, i, seq) ==
    /\ Coarser(f0, f)
    /\ \A m \in DOMAIN seq : f[seq[m]] = f[i]
    /\ \A T : Respects(f0, T) /\ (\A m \in DOMAIN seq : seq[m] \in T <=> i \in T) => Respects(f, T)

LEMMA UnionFold ==
    ASSUME NEW p0, NEW D, NEW f0, NEW d0, Rooted(p0, D, f0, d0), NEW i \in D,
           NEW n \in Nat, NEW seq \in [1..n -> D]
    PROVE  \E f, d : /\ Rooted(FoldLeft(LAMBDA p, j : Union(p, j, i), p0, seq), D, f, d)
                     /\ United(f, f0, i, seq)
  <1> DEFINE P == {p \in [D -> D] : \E f, d : Rooted(p, D, f, d)}
             F == [x \in P \X (1..n) |-> Union(x[1], seq[x[2]], i)]
             IsFold(it) == it = [s \in SUBSET (DOMAIN seq) |->
                                    IF s = {} THEN p0 ELSE Union(it[s \ {Max(s)}], seq[Max(s)], i)]
             it == CHOOSE g : IsFold(g)
  <1>0. DOMAIN seq = 1..n
    OBVIOUS
  <1>1. ASSUME NEW p \in P, NEW j \in 1..n PROVE Union(p, seq[j], i) \in P
    <2>1. PICK f, d : Rooted(p, D, f, d)
      OBVIOUS
    <2>2. PICK e : Rooted(Union(p, seq[j], i), D, Merge(f, seq[j], i), e)
      BY <2>1, UnionRooted
    <2>3. Union(p, seq[j], i) \in [D -> D]
      BY <2>2 DEF Rooted
    <2> QED
      BY <2>2, <2>3
  <1>2. F \in [P \X (1..n) -> P] /\ p0 \in P
    <2>1. p0 \in P
      BY DEF Rooted
    <2> HIDE DEF P
    <2> QED
      BY <1>1, <2>1
  <1>3. \A p \in P, j \in 1..n : F[<<p, j>>] = Union(p, seq[j], i)
    <2> HIDE DEF P
    <2> QED
      OBVIOUS
  <1> HIDE DEF P, F
  <1>3a. PICK g : Solves(g, n, P, p0, F)
    BY <1>2, FoldExists, Zenon
  <1>4. /\ g \in [SUBSET (1..n) -> P]
        /\ \A s \in SUBSET (1..n) : g[s] = IF s = {} THEN p0 ELSE F[<<g[s \ {Max(s)}], Max(s)>>]
    BY <1>3a DEF Solves
  <1>5. ASSUME NEW s \in SUBSET (1..n), s # {} PROVE Max(s) \in 1..n /\ s \ {Max(s)} \in SUBSET (1..n)
    BY <1>5, MaxIsMember
  <1>6. IsFold(g)
    <2>1. ASSUME NEW s \in SUBSET (1..n)
          PROVE  g[s] = IF s = {} THEN p0 ELSE Union(g[s \ {Max(s)}], seq[Max(s)], i)
      <3>1. CASE s = {}
        BY <1>4, <3>1
      <3>2. CASE s # {}
        <4>1. Max(s) \in 1..n /\ g[s \ {Max(s)}] \in P
          BY <1>4, <1>5, <3>2
        <4> QED
          BY <1>3, <1>4, <3>2, <4>1
      <3> QED
        BY <3>1, <3>2
    <2> QED
      BY <1>0, <1>4, <2>1
  <1>7. IsFold(it)
    BY <1>6
  <1> HIDE DEF it
  <1>8. FoldLeft(LAMBDA p, j : Union(p, j, i), p0, seq) = it[1..n]
    BY <1>0 DEF FoldLeft, MapThenFoldSet, it
  <1>9. it[{}] = p0 /\ \A m \in 1..n : it[1..m] = Union(it[1..(m - 1)], seq[m], i)
    <2>1. it[{}] = p0
      BY <1>7
    <2>2. ASSUME NEW m \in 1..n PROVE it[1..m] = Union(it[1..(m - 1)], seq[m], i)
      <3>1. (1..m) \in SUBSET (1..n) /\ 1..m # {} /\ (1..m) \ {m} = 1..(m - 1)
        BY IntervalFacts
      <3>2. Max(1..m) = m
        BY MaxOfInterval
      <3> QED
        BY <1>0, <1>7, <3>1, <3>2
    <2> QED
      BY <2>1, <2>2
  <1> DEFINE Upto(m, f, d) ==
                 /\ Rooted(it[1..m], D, f, d) /\ Coarser(f0, f)
                 /\ \A l \in 1..m : f[seq[l]] = f[i]
                 /\ \A T : Respects(f0, T) /\ (\A l \in 1..n : seq[l] \in T <=> i \in T) => Respects(f, T)
             Good(m) == \E f, d : Upto(m, f, d)
             Bad == {m \in 0..n : ~Good(m)}
  <1> HIDE DEF IsFold, Good, Upto
  <1>10. Good(0)
    <2>1. 1..0 = {}
      OBVIOUS
    <2>2. Upto(0, f0, d0)
      BY <1>9, <2>1 DEF Upto, Coarser
    <2> QED
      BY <2>2 DEF Good
  <1>11. ASSUME NEW m \in 1..n, Good(m - 1) PROVE Good(m)
    <2>1. PICK f, d : Upto(m - 1, f, d)
      BY <1>11 DEF Good
    <2>0. PICK a : a = seq[m]
      OBVIOUS
    <2> DEFINE h == Merge(f, a, i)
    <2>2. Rooted(it[1..(m - 1)], D, f, d) /\ f \in [D -> D] /\ a \in D /\ DOMAIN f = D
      BY <2>0, <2>1 DEF Rooted, Upto
    <2>3. PICK e : Rooted(it[1..m], D, h, e)
      <3>1. PICK e : Rooted(Union(it[1..(m - 1)], a, i), D, h, e)
        BY <2>2, UnionRooted, Zenon
      <3> QED
        BY <1>9, <2>0, <3>1
    <2>4. /\ h \in [D -> D] /\ h[seq[m]] = h[i] /\ Coarser(f, h)
          /\ \A T : Respects(f, T) /\ (seq[m] \in T <=> i \in T) => Respects(h, T)
      <3>1. h \in [D -> D] /\ Joined(h, f, a, i)
        BY <2>2, MergeFacts, Zenon
      <3> HIDE DEF h
      <3> QED
        BY <2>0, <3>1, Zenon DEF Joined
    <2> HIDE DEF h
    <2>5. Coarser(f0, h)
      <3>1. DOMAIN f0 = D
        BY DEF Rooted
      <3> QED
        BY <2>1, <2>2, <2>4, <3>1 DEF Coarser, Upto
    <2>6. \A l \in 1..m : h[seq[l]] = h[i]
      <3>1. ASSUME NEW l \in 1..m, l # m PROVE h[seq[l]] = h[i]
        <4>1. l \in 1..(m - 1) /\ seq[l] \in D
          BY <3>1
        <4>2. f[seq[l]] = f[i]
          BY <2>1, <4>1 DEF Upto
        <4> QED
          BY <2>2, <2>4, <4>1, <4>2 DEF Coarser
      <3> QED
        BY <2>4, <3>1
    <2>7. ASSUME NEW T, Respects(f0, T), \A l \in 1..n : seq[l] \in T <=> i \in T PROVE Respects(h, T)
      BY <2>1, <2>4, <2>7 DEF Upto
    <2>8. Upto(m, h, e)
      BY <2>3, <2>5, <2>6, <2>7 DEF Upto
    <2> QED
      BY <2>8 DEF Good
  <1>12. Bad = {}
    <2> SUFFICES ASSUME Bad # {} PROVE FALSE
      OBVIOUS
    <2>1. Bad \subseteq Nat
      OBVIOUS
    <2>2. PICK m \in Bad : \A y \in Bad : m <= y
      <3> HIDE DEF Bad
      <3> QED
        BY <2>1, LeastExists
    <2>3. m \in 1..n
      BY <1>10, <2>2
    <2>4. m - 1 \in 0..n /\ m - 1 \notin Bad
      <3>1. m - 1 \in 0..n /\ ~(m <= m - 1)
        BY <2>3
      <3> HIDE DEF Bad
      <3> QED
        BY <2>2, <3>1
    <2>5. Good(m)
      BY <1>11, <2>3, <2>4
    <2> QED
      BY <2>2, <2>5
  <1>13. Good(n)
    BY <1>12
  <1>14. PICK f, d : Upto(n, f, d)
    BY <1>13 DEF Good
  <1> QED
    BY <1>0, <1>8, <1>14 DEF Upto, United

\* Calling find for every node of a list changes no root.
LEMMA CompressFold ==
    ASSUME NEW p0, NEW D, NEW f, NEW d, Rooted(p0, D, f, d), NEW n \in Nat, NEW seq \in [1..n -> D]
    PROVE  Rooted(FoldLeft(Compress, p0, seq), D, f, d)
  <1> DEFINE P == {p \in [D -> D] : Rooted(p, D, f, d)}
             F == [x \in P \X (1..n) |-> Compress(x[1], seq[x[2]])]
             IsFold(it) == it = [s \in SUBSET (DOMAIN seq) |->
                                    IF s = {} THEN p0 ELSE Compress(it[s \ {Max(s)}], seq[Max(s)])]
             it == CHOOSE g : IsFold(g)
  <1>0. DOMAIN seq = 1..n
    OBVIOUS
  <1>1. ASSUME NEW p \in P, NEW j \in 1..n PROVE Compress(p, seq[j]) \in P
    <2>1. Rooted(Compress(p, seq[j]), D, f, d)
      BY CompressRooted
    <2> QED
      BY <2>1 DEF Rooted
  <1>2. F \in [P \X (1..n) -> P] /\ p0 \in P
    <2>1. p0 \in P
      BY DEF Rooted
    <2> HIDE DEF P
    <2> QED
      BY <1>1, <2>1
  <1>3. \A p \in P, j \in 1..n : F[<<p, j>>] = Compress(p, seq[j])
    <2> HIDE DEF P
    <2> QED
      OBVIOUS
  <1> HIDE DEF P, F
  <1>4. PICK g : Solves(g, n, P, p0, F)
    BY <1>2, FoldExists, Zenon
  <1>5. /\ g \in [SUBSET (1..n) -> P]
        /\ \A s \in SUBSET (1..n) : g[s] = IF s = {} THEN p0 ELSE F[<<g[s \ {Max(s)}], Max(s)>>]
    BY <1>4 DEF Solves
  <1>6. IsFold(g)
    <2>1. ASSUME NEW s \in SUBSET (1..n)
          PROVE  g[s] = IF s = {} THEN p0 ELSE Compress(g[s \ {Max(s)}], seq[Max(s)])
      <3>1. CASE s = {}
        BY <1>5, <3>1
      <3>2. CASE s # {}
        <4>1. Max(s) \in s
          BY <3>2, MaxIsMember
        <4>2. Max(s) \in 1..n /\ g[s \ {Max(s)}] \in P
          BY <1>5, <4>1
        <4> QED
          BY <1>3, <1>5, <3>2, <4>2
      <3> QED
        BY <3>1, <3>2
    <2> QED
      BY <1>0, <1>5, <2>1
  <1>7. IsFold(it)
    BY <1>6
  <1> HIDE DEF it
  <1>8. FoldLeft(Compress, p0, seq) = it[1..n]
    BY <1>0 DEF FoldLeft, MapThenFoldSet, it
  <1>9. it[{}] = p0 /\ \A m \in 1..n : it[1..m] = Compress(it[1..(m - 1)], seq[m])
    <2>1. it[{}] = p0
      BY <1>7
    <2>2. ASSUME NEW m \in 1..n PROVE it[1..m] = Compress(it[1..(m - 1)], seq[m])
      <3>1. (1..m) \in SUBSET (1..n) /\ 1..m # {} /\ (1..m) \ {m} = 1..(m - 1)
        BY IntervalFacts
      <3>2. Max(1..m) = m
        BY MaxOfInterval
      <3> QED
        BY <1>0, <1>7, <3>1, <3>2
    <2> QED
      BY <2>1, <2>2
  <1> DEFINE Bad == {m \in 0..n : it[1..m] \notin P}
  <1> HIDE DEF IsFold
  <1>10. Bad = {}
    <2> SUFFICES ASSUME Bad # {} PROVE FALSE
      OBVIOUS
    <2>1. Bad \subseteq Nat
      OBVIOUS
    <2>2. PICK m \in Bad : \A y \in Bad : m <= y
      <3> HIDE DEF Bad
      <3> QED
        BY <2>1, LeastExists
    <2>3. m \in 1..n
      <3>1. 1..0 = {}
        OBVIOUS
      <3>2. it[1..0] \in P
        BY <1>2, <1>9, <3>1
      <3> QED
        BY <2>2, <3>2
    <2>4. m - 1 \in 0..n /\ m - 1 \notin Bad
      <3>1. m - 1 \in 0..n /\ ~(m <= m - 1)
        BY <2>3
      <3> HIDE DEF Bad
      <3> QED
        BY <2>2, <3>1
    <2>5. it[1..m] \in P
      BY <1>1, <1>9, <2>3, <2>4
    <2> QED
      BY <2>2, <2>5
  <1>11. it[1..n] \in P
    BY <1>10
  <1> QED
    BY <1>8, <1>11 DEF P

-----------------------------------------------------------------------------
(***************************************************************************)
(* A set as a list.                                                        *)
(***************************************************************************)
\* An enumeration of a finite set that repeats nothing leaves nothing out.
LEMMA EnumerationIsOnto ==
    ASSUME NEW S, IsFiniteSet(S), NEW f \in [1..Cardinality(S) -> S],
           \A m, n \in 1..Cardinality(S) : f[m] = f[n] => m = n
    PROVE  \A x \in S : \E n \in 1..Cardinality(S) : f[n] = x
  <1>1. Cardinality(S) \in Nat
    BY FS_CardinalityType
  <1>2. IsFiniteSet(1..Cardinality(S)) /\ Cardinality(1..Cardinality(S)) = Cardinality(S)
    <2>1. PICK c : c = Cardinality(S)
      OBVIOUS
    <2>2. c \in Nat
      BY <1>1, <2>1
    <2>3. IsFiniteSet(1..c) /\ Cardinality(1..c) = IF 1 > c THEN 0 ELSE c - 1 + 1
      BY <2>2, FS_Interval
    <2>4. Cardinality(1..c) = c
      BY <2>2, <2>3
    <2> QED
      BY <2>1, <2>3, <2>4
  <1>3. f \in Injection(1..Cardinality(S), S)
    BY DEF Injection, IsInjective
  <1>4. f \in Surjection(1..Cardinality(S), S)
    BY <1>2, <1>3, FS_Injection
  <1> QED
    BY <1>4 DEF Surjection

LEMMA SetToSeqFacts ==
    ASSUME NEW S, IsFiniteSet(S)
    PROVE  /\ Cardinality(S) \in Nat
           /\ SetToSeq(S) \in [1..Cardinality(S) -> S]
           /\ \A x \in S : \E n \in 1..Cardinality(S) : SetToSeq(S)[n] = x
  <1> DEFINE f == SetToSeq(S)
  <1>1. Cardinality(S) \in Nat /\ ExistsBijection(1..Cardinality(S), S)
    BY FS_CardinalityType
  <1>2. \E g \in [1..Cardinality(S) -> S] : IsInjective(g)
    BY <1>1 DEF ExistsBijection, Bijection, Injection
  <1>3. f \in [1..Cardinality(S) -> S] /\ IsInjective(f)
    BY <1>2 DEF SetToSeq
  <1> HIDE DEF f
  <1>4. \A m, n \in 1..Cardinality(S) : f[m] = f[n] => m = n
    BY <1>3 DEF IsInjective
  <1>5. \A x \in S : \E n \in 1..Cardinality(S) : f[n] = x
    BY <1>3, <1>4, EnumerationIsOnto
  <1> QED
    BY <1>1, <1>3, <1>5 DEF f

\* The places of a list that are in S, in their order.
LEMMA SortedFacts ==
    ASSUME NEW N \in Nat, NEW S \in SUBSET (1..N)
    PROVE  /\ IsFiniteSet(S) /\ Cardinality(S) \in Nat /\ Cardinality(S) <= N
           /\ Sorted(S) \in [1..Cardinality(S) -> S]
           /\ \A x \in S : \E n \in 1..Cardinality(S) : Sorted(S)[n] = x
  <1> DEFINE c == Cardinality(S)
             Below(i) == {j \in S : j < i}
             rank == [i \in S |-> Cardinality(Below(i)) + 1]
             InOrder(f) == \A m, n \in DOMAIN f : m < n => f[m] < f[n]
  <1>0. \A x \in S : x \in Nat
    OBVIOUS
  <1>1. IsFiniteSet(S) /\ c \in Nat /\ c <= N
    <2>1. IsFiniteSet(1..N) /\ Cardinality(1..N) = N
      <3>1. IsFiniteSet(1..N) /\ Cardinality(1..N) = IF 1 > N THEN 0 ELSE N - 1 + 1
        BY FS_Interval
      <3> QED
        BY <3>1
    <2>2. IsFiniteSet(S) /\ Cardinality(S) <= Cardinality(1..N)
      BY <2>1, FS_Subset
    <2> QED
      BY <2>1, <2>2, FS_CardinalityType
  <1>2. ASSUME NEW i \in S, NEW T, T \subseteq S \ {i}
        PROVE  IsFiniteSet(T) /\ Cardinality(T) \in Nat /\ Cardinality(T) + 1 <= c
    <2>1. IsFiniteSet(S \ {i}) /\ Cardinality(S \ {i}) = c - 1
      BY <1>1, FS_RemoveElement
    <2>2. IsFiniteSet(T) /\ Cardinality(T) <= Cardinality(S \ {i})
      BY <1>2, <2>1, FS_Subset
    <2>3. Cardinality(T) \in Nat
      BY <2>2, FS_CardinalityType
    <2> QED
      BY <1>1, <2>1, <2>2, <2>3
  <1>3. \A i \in S : Cardinality(Below(i)) \in Nat /\ Cardinality(Below(i)) + 1 <= c
    BY <1>2
  <1>4. rank \in [S -> 1..c] /\ \A i \in S : rank[i] = Cardinality(Below(i)) + 1
    BY <1>1, <1>3
  <1>5. ASSUME NEW i \in S, NEW j \in S, i < j PROVE rank[i] < rank[j]
    <2>0. \A x \in S : Below(x) \subseteq S \ {x} /\ x \notin Below(x)
      BY <1>0
    <2>1. IsFiniteSet(Below(i)) /\ IsFiniteSet(Below(j))
      BY <1>2, <2>0
    <2>2. IsFiniteSet(Below(i) \cup {i}) /\ Cardinality(Below(i) \cup {i}) = Cardinality(Below(i)) + 1
      <3> HIDE DEF Below
      <3> QED
        BY <2>0, <2>1, FS_AddElement
    <2>3. Below(i) \cup {i} \subseteq Below(j)
      <3>1. i \in Nat /\ j \in Nat
        BY <1>0
      <3>2. ASSUME NEW x \in S, x < i PROVE x < j
        BY <1>0, <1>5, <3>1, <3>2
      <3> QED
        BY <1>5, <3>2
    <2>4. Cardinality(Below(i) \cup {i}) <= Cardinality(Below(j))
      <3> HIDE DEF Below
      <3> QED
        BY <2>1, <2>3, FS_Subset
    <2> QED
      BY <1>3, <1>4, <2>2, <2>4
  <1> HIDE DEF rank
  <1>6. \A i, j \in S : rank[i] = rank[j] => i = j
    <2> SUFFICES ASSUME NEW i \in S, NEW j \in S, rank[i] = rank[j], i # j PROVE FALSE
      OBVIOUS
    <2>1. i < j \/ j < i
      OBVIOUS
    <2>2. rank[i] \in 1..c /\ rank[j] \in 1..c
      BY <1>4
    <2> QED
      BY <1>5, <2>1, <2>2
  <1>7. \A n \in 1..c : \E i \in S : rank[i] = n
    <2>1. IsFiniteSet(1..c) /\ Cardinality(1..c) = c
      <3>1. PICK e : e = c
        OBVIOUS
      <3>2. e \in Nat
        BY <1>1, <3>1
      <3>3. IsFiniteSet(1..e) /\ Cardinality(1..e) = IF 1 > e THEN 0 ELSE e - 1 + 1
        BY <3>2, FS_Interval
      <3> QED
        BY <3>1, <3>2, <3>3
    <2>2. rank \in Injection(S, 1..c)
      BY <1>4, <1>6 DEF Injection, IsInjective
    <2>3. rank \in Surjection(S, 1..c)
      BY <2>1, <2>2, FS_Injection
    <2> QED
      BY <2>3 DEF Surjection
  <1> DEFINE g == [n \in 1..c |-> CHOOSE i \in S : rank[i] = n]
  <1>8. g \in [1..c -> S] /\ \A n \in 1..c : rank[g[n]] = n
    BY <1>7
  <1>9. InOrder(g)
    <2> SUFFICES ASSUME NEW m \in 1..c, NEW n \in 1..c, m < n PROVE g[m] < g[n]
      BY <1>8
    <2> HIDE DEF g
    <2>1. g[m] \in S /\ g[n] \in S /\ rank[g[m]] = m /\ rank[g[n]] = n
      BY <1>8
    <2>2. g[m] \in Nat /\ g[n] \in Nat
      BY <1>0, <2>1
    <2>3. g[n] < g[m] => n < m
      BY <1>5, <2>1, Zenon
    <2>4. g[m] # g[n]
      BY <2>1
    <2> QED
      BY <2>2, <2>3, <2>4
  <1> HIDE DEF g
  <1>10. Sorted(S) \in [1..c -> S] /\ InOrder(Sorted(S))
    BY <1>8, <1>9 DEF Sorted
  <1>11. \A m, n \in 1..c : Sorted(S)[m] = Sorted(S)[n] => m = n
    <2> SUFFICES ASSUME NEW m \in 1..c, NEW n \in 1..c, Sorted(S)[m] = Sorted(S)[n], m # n PROVE FALSE
      OBVIOUS
    <2>1. m < n \/ n < m
      OBVIOUS
    <2>2. Sorted(S)[m] < Sorted(S)[n] \/ Sorted(S)[n] < Sorted(S)[m]
      BY <1>10, <2>1
    <2>3. Sorted(S)[m] \in S
      BY <1>10
    <2>4. Sorted(S)[m] \in Nat
      BY <1>0, <2>3
    <2> QED
      BY <2>2, <2>4
  <1>12. \A x \in S : \E n \in 1..c : Sorted(S)[n] = x
    BY <1>1, <1>10, <1>11, EnumerationIsOnto
  <1> QED
    BY <1>1, <1>10, <1>12

-----------------------------------------------------------------------------
(***************************************************************************)
(* What a detector finds.                                                  *)
(***************************************************************************)
Severity == {"warning", "high", "critical"}

Anomaly ==
    [kind : {"metric", "log"}, service : Service,
     name : {s.name : s \in Signal} \cup {s.sig : s \in Signal},
     traces : SUBSET {s.trace : s \in Signal}, at : Nat, severity : Severity, from : SUBSET Nat]

SignalsOK == \E n \in 0..MaxSignals : signals \in [1..n -> Signal]

\* Anomaly x is about signal i.
About(x, i) ==
    /\ i \in DOMAIN signals
    /\ signals[i].kind = x.kind /\ signals[i].service = x.service
    /\ x.kind = "log" => signals[i].sig = x.name

\* The kind of anomaly that detector d finds.
Finds(d) == IF Detectors[d].plugin = "signature_aggregate" THEN "log" ELSE "metric"

\* The anomalies that detector d is to find: of the signals that are due, and of all of them.
FoundBy(d, found) ==
    /\ found \in Seq(Anomaly)
    /\ Len(found) <= MaxSignals
    /\ \A n \in 1..Len(found) :
           /\ found[n].severity = Detectors[d].severity /\ found[n].kind = Finds(d)
           /\ \A i \in found[n].from : About(found[n], i) /\ Due(i, d)
    /\ \A i \in DOMAIN signals : Due(i, d) => \E n \in 1..Len(found) : i \in found[n].from

LEMMA SignalFacts ==
    ASSUME SignalsOK
    PROVE  \E N \in Nat :
               /\ N <= MaxSignals /\ DOMAIN signals = 1..N
               /\ \A i \in 1..N : signals[i] \in Signal /\ signals[i].kind \in {"metric", "log"}
  <1>1. PICK n \in 0..MaxSignals : signals \in [1..n -> Signal]
    BY DEF SignalsOK
  <1>2. n \in Nat /\ n <= MaxSignals
    BY PipelineAssumption
  <1>3. \A i \in 1..n : signals[i] \in Signal
    BY <1>1
  <1> QED
    BY <1>1, <1>2, <1>3, PipelineAssumption

LEMMA ThresholdsFound ==
    ASSUME SignalsOK, NEW d \in DOMAIN Detectors, Detectors[d].plugin # "signature_aggregate"
    PROVE  FoundBy(d, Thresholds(Seen(d), Detectors[d].severity))
  <1> DEFINE S == {i \in Seen(d) : signals[i].kind = "metric"}
             sev == Detectors[d].severity
             Elt(i) == [kind |-> "metric", service |-> signals[i].service, name |-> signals[i].name,
                        traces |-> {}, at |-> i, severity |-> sev, from |-> {i}]
             hits == Sorted(S)
             found == [n \in 1..Len(hits) |-> Elt(hits[n])]
             c == Cardinality(S)
  <1>1. PICK N \in Nat : /\ N <= MaxSignals /\ DOMAIN signals = 1..N
                         /\ \A i \in 1..N : signals[i] \in Signal /\ signals[i].kind \in {"metric", "log"}
    BY SignalFacts
  <1>2. S \in SUBSET (1..N)
    BY <1>1 DEF Seen
  <1>3. /\ c \in Nat /\ c <= N /\ hits \in [1..c -> S]
        /\ \A x \in S : \E n \in 1..c : hits[n] = x
    BY <1>2, SortedFacts
  <1>4. Len(hits) = c
    BY <1>3
  <1>5. Thresholds(Seen(d), sev) = found
    BY DEF Thresholds
  <1>6. sev \in Severity
    BY PipelineAssumption DEF Severity
  <1>7. ASSUME NEW i \in S
        PROVE  /\ Elt(i) \in Anomaly /\ Elt(i).severity = sev /\ Elt(i).kind = Finds(d) /\ Elt(i).from = {i}
               /\ About(Elt(i), i) /\ Due(i, d)
    <2>1. i \in 1..N /\ i \in Seen(d) /\ signals[i].kind = "metric" /\ signals[i] \in Signal
      BY <1>1, <1>2
    <2>2. Elt(i) \in Anomaly
      BY <1>6, <2>1 DEF Anomaly, Service
    <2>3. About(Elt(i), i)
      BY <1>1, <2>1 DEF About
    <2>4. Due(i, d)
      BY <2>1 DEF Due
    <2>5. Elt(i).kind = Finds(d)
      BY DEF Finds
    <2> QED
      BY <2>2, <2>3, <2>4, <2>5
  <1>8. \A i \in DOMAIN signals : Due(i, d) => i \in S
    BY DEF Due
  <1> HIDE DEF S, Elt, hits, sev, c
  <1>9. found \in Seq(Anomaly) /\ Len(found) = c /\ \A n \in 1..c : found[n] = Elt(hits[n]) /\ hits[n] \in S
    BY <1>3, <1>4, <1>7
  <1> HIDE DEF found
  <1>10. ASSUME NEW n \in 1..c
         PROVE  /\ found[n].severity = sev /\ found[n].kind = Finds(d)
                /\ \A i \in found[n].from : About(found[n], i) /\ Due(i, d)
    BY <1>7, <1>9
  <1>11. ASSUME NEW i \in DOMAIN signals, Due(i, d) PROVE \E n \in 1..c : i \in found[n].from
    BY <1>3, <1>7, <1>8, <1>9, <1>11
  <1>12. c <= MaxSignals
    BY <1>1, <1>3, PipelineAssumption
  <1> QED
    BY <1>5, <1>9, <1>10, <1>11, <1>12 DEF FoundBy, sev

\* SameKey relates the log signals of one key, and no others.
LEMMA SameKeyFacts ==
    \A i, j : /\ SameKey(i, i) /\ (SameKey(i, j) => SameKey(j, i))
              /\ SameKey(i, j) => \A l : SameKey(i, l) <=> SameKey(j, l)
  BY DEF SameKey

LEMMA AggregatesFound ==
    ASSUME SignalsOK, NEW d \in DOMAIN Detectors, Detectors[d].plugin = "signature_aggregate"
    PROVE  FoundBy(d, Aggregates(Seen(d), Detectors[d].severity))
  <1> DEFINE logs == {i \in Seen(d) : signals[i].kind = "log"}
             Of(i) == {j \in logs : SameKey(i, j)}
             Latest(i) == CHOOSE j \in Of(i) : \A o \in Of(i) : o <= j
             F == {i \in logs : Cardinality(Of(i)) >= MinCount /\ \A j \in Of(i) : i <= j}
             sev == Detectors[d].severity
             Elt(i) == [kind |-> "log", service |-> signals[i].service, name |-> signals[i].sig,
                        traces |-> {signals[j].trace : j \in Of(i)} \ {None},
                        at |-> Latest(i), severity |-> sev, from |-> Of(i)]
             firsts == Sorted(F)
             found == [n \in 1..Len(firsts) |-> Elt(firsts[n])]
             c == Cardinality(F)
  <1>1. PICK N \in Nat : /\ N <= MaxSignals /\ DOMAIN signals = 1..N
                         /\ \A i \in 1..N : signals[i] \in Signal /\ signals[i].kind \in {"metric", "log"}
    BY SignalFacts
  <1>2. logs \in SUBSET (1..N) /\ F \in SUBSET (1..N)
    BY <1>1 DEF Seen
  <1>3. /\ c \in Nat /\ c <= N /\ firsts \in [1..c -> F]
        /\ \A x \in F : \E n \in 1..c : firsts[n] = x
    BY <1>2, SortedFacts
  <1>4. Len(firsts) = c
    BY <1>3
  <1>5. Aggregates(Seen(d), sev) = found
    BY DEF Aggregates
  <1>6. sev \in Severity
    BY PipelineAssumption DEF Severity
  <1>7. \A i \in logs : i \in Of(i)
    BY SameKeyFacts
  <1>8. ASSUME NEW i \in logs, NEW j \in Of(i) PROVE Of(i) = Of(j) /\ j \in logs
    BY SameKeyFacts
  <1>9. \A i : Due(i, d) <=> i \in logs /\ Cardinality(Of(i)) >= MinCount
    <2> TAKE i
    <2>1. Of(i) = {j \in Seen(d) : signals[j].kind = "log" /\ SameKey(i, j)}
      OBVIOUS
    <2> QED
      BY <2>1 DEF Due
  <1>10. ASSUME NEW i \in logs PROVE Latest(i) \in Nat
    <2>1. Of(i) \in SUBSET (1..N) /\ Of(i) # {}
      BY <1>2, <1>7
    <2> HIDE DEF Of
    <2>2. Max(Of(i)) \in Of(i) /\ \A y \in Of(i) : y <= Max(Of(i))
      BY <2>1, MaxIsMember
    <2>3. Latest(i) \in Of(i)
      BY <2>2
    <2> QED
      BY <2>1, <2>3
  <1> HIDE DEF Latest
  <1>11. ASSUME NEW i \in F
         PROVE  /\ Elt(i) \in Anomaly /\ Elt(i).severity = sev /\ Elt(i).kind = Finds(d) /\ Elt(i).from = Of(i)
                /\ \A j \in Of(i) : About(Elt(i), j) /\ Due(j, d)
    <2>1. i \in 1..N /\ i \in logs /\ signals[i] \in Signal /\ Cardinality(Of(i)) >= MinCount
      BY <1>1, <1>2
    <2>2. Of(i) \subseteq 1..N
      BY <1>2
    <2>3. Elt(i) \in Anomaly
      <3>1. {signals[j].trace : j \in Of(i)} \ {None} \in SUBSET {s.trace : s \in Signal}
        <4> HIDE DEF Of
        <4> QED
          BY <1>1, <2>2
      <3>2. Latest(i) \in Nat /\ Of(i) \in SUBSET Nat
        BY <1>10, <2>1, <2>2
      <3>3. signals[i].service \in Service /\ signals[i].sig \in {s.sig : s \in Signal}
        BY <2>1 DEF Service
      <3> HIDE DEF Of
      <3> QED
        BY <1>6, <3>1, <3>2, <3>3 DEF Anomaly
    <2>4. ASSUME NEW j \in Of(i) PROVE About(Elt(i), j) /\ Due(j, d)
      <3>1. j \in 1..N /\ signals[j].kind = "log" /\ SameKey(i, j) /\ j \in logs
        BY <2>2
      <3>2. Of(j) = Of(i)
        BY <1>8, <2>1
      <3>3. About(Elt(i), j)
        <4> HIDE DEF Of
        <4> QED
          BY <1>1, <3>1 DEF About, SameKey
      <3> QED
        BY <1>9, <2>1, <3>1, <3>2, <3>3
    <2>5. Elt(i).kind = Finds(d)
      BY DEF Finds
    <2> HIDE DEF Of
    <2> QED
      BY <2>3, <2>4, <2>5
  <1>12. ASSUME NEW i \in logs, Cardinality(Of(i)) >= MinCount PROVE \E x \in F : i \in Of(x)
    <2>1. Of(i) \subseteq Nat /\ Of(i) # {}
      BY <1>2, <1>7
    <2>2. PICK x \in Of(i) : \A y \in Of(i) : x <= y
      <3> HIDE DEF Of
      <3> QED
        BY <2>1, LeastExists
    <2>3. Of(i) = Of(x) /\ x \in logs
      BY <1>8
    <2> HIDE DEF Of, logs
    <2>4. x \in F
      BY <1>12, <2>2, <2>3
    <2> QED
      BY <1>7, <2>3, <2>4
  <1> HIDE DEF F, Elt, firsts, sev, c, Of, logs
  <1>13. found \in Seq(Anomaly) /\ Len(found) = c /\ \A n \in 1..c : found[n] = Elt(firsts[n]) /\ firsts[n] \in F
    BY <1>3, <1>4, <1>11
  <1> HIDE DEF found
  <1>14. ASSUME NEW n \in 1..c
         PROVE  /\ found[n].severity = sev /\ found[n].kind = Finds(d)
                /\ \A i \in found[n].from : About(found[n], i) /\ Due(i, d)
    BY <1>11, <1>13
  <1>15. ASSUME NEW i \in DOMAIN signals, Due(i, d) PROVE \E n \in 1..c : i \in found[n].from
    <2>1. PICK x \in F : i \in Of(x)
      BY <1>9, <1>12, <1>15
    <2>2. PICK n \in 1..c : firsts[n] = x
      BY <1>3
    <2> QED
      BY <1>11, <1>13, <2>1, <2>2
  <1>16. c <= MaxSignals
    BY <1>1, <1>3, PipelineAssumption
  <1> QED
    BY <1>5, <1>13, <1>14, <1>15, <1>16 DEF FoundBy, sev

-----------------------------------------------------------------------------
(***************************************************************************)
(* L0 and L1: what is known of the anomalies.                              *)
(***************************************************************************)
Detecting == pc \in {"suppress", "detect"}

\* The detectors that have run and did not raise.
Ran == {d \in DOMAIN Detectors \ broken : Detecting => d < k}

Suppressed == {i \in DOMAIN signals : \E r \in rules : Hits(r, i)}

DetectPlaces ==
    /\ pc \in {"suppress", "detect", "logs", "metrics", "attach", "done"}
    /\ SignalsOK
    /\ suppressed = IF pc = "suppress" THEN {} ELSE Suppressed
    /\ broken \subseteq DOMAIN Detectors
    /\ pc = "suppress" => k = 1 /\ anomalies = <<>>
    /\ k \in Nat \ {0}
    /\ Detecting => k <= Len(Detectors) + 1 /\ \A d \in broken : d < k

DetectCount ==
    /\ anomalies \in Seq(Anomaly)
    /\ Detecting => Len(anomalies) <= MaxSignals * (k - 1)
    /\ Len(anomalies) <= MaxSignals * Len(Detectors)
    /\ ~Detecting => k <= Len(anomalies) + 1

\* An anomaly is about signals that are due, and these are all in one.
DetectFound ==
    /\ \A a \in 1..Len(anomalies) :
           /\ \E d \in DOMAIN Detectors :
                  anomalies[a].severity = Detectors[d].severity /\ anomalies[a].kind = Finds(d)
           /\ \A i \in anomalies[a].from : About(anomalies[a], i) /\ \E d \in Ran : Due(i, d)
    /\ \A d \in Ran, i \in DOMAIN signals :
           Due(i, d) => \E a \in 1..Len(anomalies) : i \in anomalies[a].from

DetectInv == DetectPlaces /\ DetectCount /\ DetectFound

LEMMA Products ==
    ASSUME NEW x \in Nat, NEW y \in Nat
    PROVE  x * y \in Nat
  OBVIOUS

LEMMA DetectInit == Init => DetectInv
  <1> SUFFICES ASSUME Init PROVE DetectInv
    OBVIOUS
  <1>1. SignalsOK
    <2>1. PICK n \in 0..MaxSignals : signals \in [1..n -> Signal]
      BY DEF Init
    <2> QED
      BY <2>1 DEF SignalsOK
  <1>2. MaxSignals \in Nat /\ Len(Detectors) \in Nat /\ DOMAIN Detectors = 1..Len(Detectors)
    BY PipelineAssumption
  <1>3. DetectPlaces
    BY <1>1, <1>2 DEF Init, DetectPlaces, Detecting
  <1>4. anomalies = <<>> /\ Len(anomalies) = 0 /\ anomalies \in Seq(Anomaly) /\ k = 1 /\ pc = "suppress" /\ broken = {}
    BY EmptySeq DEF Init
  <1>5. MaxSignals * (k - 1) = 0 /\ MaxSignals * Len(Detectors) >= 0
    <2>1. MaxSignals * 0 = 0
      BY <1>2
    <2>2. MaxSignals * Len(Detectors) \in Nat
      BY <1>2, Products
    <2> QED
      BY <1>4, <2>1, <2>2
  <1>6. DetectCount
    BY <1>4, <1>5 DEF DetectCount, Detecting
  <1>7. Ran = {}
    BY <1>2, <1>4 DEF Ran, Detecting
  <1>8. DetectFound
    BY <1>4, <1>7 DEF DetectFound
  <1> QED
    BY <1>3, <1>6, <1>8 DEF DetectInv

\* What was collected, and what it is about, stays.
LEMMA SameSignals ==
    ASSUME UNCHANGED <<signals, rules>>
    PROVE  /\ SignalsOK' <=> SignalsOK
           /\ Suppressed' = Suppressed
           /\ \A i, d : Due(i, d)' <=> Due(i, d)
           /\ \A x, i : About(x, i)' <=> About(x, i)
  <1>1. signals' = signals /\ rules' = rules
    OBVIOUS
  <1>2. \A r, i : Hits(r, i)' <=> Hits(r, i)
    BY <1>1 DEF Hits, InWindow, Blacklisted
  <1>3. \A d : Seen(d)' = Seen(d)
    BY <1>1, <1>2 DEF Seen, Matches
  <1>4. \A i, d : Due(i, d)' <=> Due(i, d)
    BY <1>1, <1>3 DEF Due, SameKey
  <1> QED
    BY <1>1, <1>2, <1>4 DEF SignalsOK, Suppressed, About

LEMMA SuppressDetects ==
    ASSUME DetectInv, L0Suppress
    PROVE  DetectInv'
  <1>1. /\ pc = "suppress" /\ pc' = "detect" /\ suppressed' = Suppressed
        /\ UNCHANGED <<signals, rules>> /\ k' = k /\ broken' = broken /\ anomalies' = anomalies
    BY DEF L0Suppress, Suppressed
  <1>2. /\ SignalsOK' <=> SignalsOK
        /\ Suppressed' = Suppressed
        /\ \A i, d : Due(i, d)' <=> Due(i, d)
        /\ \A x, i : About(x, i)' <=> About(x, i)
    BY <1>1, SameSignals
  <1>3. DetectPlaces'
    BY <1>1, <1>2 DEF DetectInv, DetectPlaces, Detecting
  <1>4. DetectCount'
    BY <1>1 DEF DetectInv, DetectCount, Detecting
  <1>5. Ran' = Ran
    BY <1>1 DEF Ran, Detecting
  <1>6. DetectFound'
    BY <1>1, <1>2, <1>5 DEF DetectInv, DetectFound
  <1> QED
    BY <1>3, <1>4, <1>6 DEF DetectInv

LEMMA ConcatFacts ==
    ASSUME NEW A, NEW s, s \in Seq(A), NEW t, t \in Seq(A)
    PROVE  /\ s \o t \in Seq(A) /\ Len(s \o t) = Len(s) + Len(t)
           /\ \A a \in 1..Len(s) : a \in 1..Len(s \o t) /\ (s \o t)[a] = s[a]
           /\ \A a \in 1..Len(t) : Len(s) + a \in 1..Len(s \o t) /\ (s \o t)[Len(s) + a] = t[a]
           /\ \A a \in 1..Len(s \o t) :
                  a \in 1..Len(s) \/ (a - Len(s) \in 1..Len(t) /\ (s \o t)[a] = t[a - Len(s)])
  <1>1. s \o t \in Seq(A) /\ Len(s \o t) = Len(s) + Len(t) /\ Len(s) \in Nat /\ Len(t) \in Nat
    BY ConcatProperties, LenProperties
  <1>2. \A a \in 1..(Len(s) + Len(t)) : (s \o t)[a] = IF a <= Len(s) THEN s[a] ELSE t[a - Len(s)]
    BY ConcatProperties
  <1> QED
    BY <1>1, <1>2

LEMMA CountMore ==
    ASSUME NEW M \in Nat, NEW L \in Nat, NEW n \in 1..L, NEW len \in Nat, NEW more \in Nat,
           len <= M * (n - 1), more <= M
    PROVE  len + more <= M * ((n + 1) - 1) /\ len + more <= M * L
  <1>1. M * n = M * (n - 1) + M
    OBVIOUS
  <1>2. M * L = M * n + M * (L - n)
    OBVIOUS
  <1>3. M * (n - 1) \in Nat /\ M * (L - n) \in Nat
    BY Products
  <1>4. (n + 1) - 1 = n /\ n \in Nat
    OBVIOUS
  <1>5. PICK a, b, c, e \in Nat : a = M * (n - 1) /\ b = M * (L - n) /\ c = M * n /\ e = M * L
    BY <1>3, <1>4, Products
  <1> QED
    BY <1>1, <1>2, <1>4, <1>5

LEMMA DetectDetects ==
    ASSUME DetectInv, L1Detect
    PROVE  DetectInv'
  <1> DEFINE D == Detectors[k]
             found == Found(D, FilterSignals(D.signal))
  <1>1. /\ pc = "detect" /\ pc' = pc /\ k \in DOMAIN Detectors /\ k' = k + 1
        /\ UNCHANGED <<signals, rules>> /\ suppressed' = suppressed
        /\ \/ anomalies' = anomalies \o found /\ broken' = broken
           \/ anomalies' = anomalies /\ broken' = broken \cup {k}
    BY DEF L1Detect
  <1>2. /\ SignalsOK' <=> SignalsOK
        /\ Suppressed' = Suppressed
        /\ \A i, d : Due(i, d)' <=> Due(i, d)
        /\ \A x, i : About(x, i)' <=> About(x, i)
    BY <1>1, SameSignals
  <1>3. MaxSignals \in Nat /\ Len(Detectors) \in Nat /\ DOMAIN Detectors = 1..Len(Detectors)
    BY PipelineAssumption
  <1>4. k \in 1..Len(Detectors) /\ Detecting /\ Detecting'
    BY <1>1, <1>3 DEF Detecting
  <1>5. SignalsOK /\ suppressed = Suppressed /\ broken \subseteq DOMAIN Detectors /\ \A d \in broken : d < k
    BY <1>1, <1>4 DEF DetectInv, DetectPlaces
  <1>6. FoundBy(k, found)
    <2>1. FilterSignals(D.signal) = Seen(k)
      BY <1>5 DEF FilterSignals, Seen, Suppressed
    <2>2. CASE D.plugin = "signature_aggregate"
      BY <1>1, <1>5, <2>1, <2>2, AggregatesFound DEF Found
    <2>3. CASE D.plugin # "signature_aggregate"
      BY <1>1, <1>5, <2>1, <2>3, ThresholdsFound DEF Found
    <2> QED
      BY <2>2, <2>3
  <1> HIDE DEF found, D
  <1>7. DetectPlaces'
    <2>1. k + 1 \in Nat \ {0} /\ k + 1 <= Len(Detectors) + 1
      BY <1>3, <1>4
    <2>2. \A d \in broken \cup {k} : d < k + 1
      BY <1>3, <1>4, <1>5
    <2>3. broken' \subseteq broken \cup {k}
      BY <1>1
    <2>4. broken' \subseteq DOMAIN Detectors
      BY <1>1, <1>5
    <2> QED
      BY <1>1, <1>2, <1>5, <2>1, <2>2, <2>3, <2>4 DEF DetectPlaces
  <1>8. anomalies \in Seq(Anomaly) /\ Len(anomalies) \in Nat /\ Len(anomalies) <= MaxSignals * (k - 1)
    BY <1>4, LenProperties DEF DetectInv, DetectCount
  <1>9. found \in Seq(Anomaly) /\ Len(found) \in Nat /\ Len(found) <= MaxSignals
    BY <1>6, LenProperties DEF FoundBy
  <1>10. CASE anomalies' = anomalies \o found /\ broken' = broken
    <2>1. /\ anomalies' \in Seq(Anomaly) /\ Len(anomalies') = Len(anomalies) + Len(found)
          /\ \A a \in 1..Len(anomalies) : a \in 1..Len(anomalies') /\ anomalies'[a] = anomalies[a]
          /\ \A a \in 1..Len(found) : Len(anomalies) + a \in 1..Len(anomalies') /\ anomalies'[Len(anomalies) + a] = found[a]
          /\ \A a \in 1..Len(anomalies') :
                 a \in 1..Len(anomalies) \/ (a - Len(anomalies) \in 1..Len(found) /\ anomalies'[a] = found[a - Len(anomalies)])
      BY <1>8, <1>9, <1>10, ConcatFacts
    <2>2. Len(anomalies') <= MaxSignals * ((k + 1) - 1) /\ Len(anomalies') <= MaxSignals * Len(Detectors)
      <3>1. /\ Len(anomalies) + Len(found) <= MaxSignals * ((k + 1) - 1)
            /\ Len(anomalies) + Len(found) <= MaxSignals * Len(Detectors)
        BY <1>3, <1>4, <1>8, <1>9, CountMore, Zenon
      <3> QED
        BY <2>1, <3>1, Zenon
    <2>3. DetectCount'
      BY <1>1, <1>4, <2>1, <2>2 DEF DetectCount
    <2>4. Ran' = Ran \cup {k}
      BY <1>1, <1>3, <1>4, <1>5, <1>10 DEF Ran
    <2>5. ASSUME NEW a \in 1..Len(anomalies')
          PROVE  /\ \E d \in DOMAIN Detectors :
                        anomalies'[a].severity = Detectors[d].severity /\ anomalies'[a].kind = Finds(d)
                 /\ \A i \in anomalies'[a].from : About(anomalies'[a], i) /\ \E d \in Ran' : Due(i, d)
      <3>1. CASE a \in 1..Len(anomalies)
        <4>1. /\ \E d \in DOMAIN Detectors :
                     anomalies[a].severity = Detectors[d].severity /\ anomalies[a].kind = Finds(d)
              /\ \A i \in anomalies[a].from : About(anomalies[a], i) /\ \E d \in Ran : Due(i, d)
          BY <3>1 DEF DetectInv, DetectFound
        <4> QED
          BY <2>1, <2>4, <3>1, <4>1
      <3>2. CASE a - Len(anomalies) \in 1..Len(found) /\ anomalies'[a] = found[a - Len(anomalies)]
        <4>1. /\ anomalies'[a].severity = Detectors[k].severity /\ anomalies'[a].kind = Finds(k)
              /\ \A i \in anomalies'[a].from : About(anomalies'[a], i) /\ Due(i, k)
          BY <1>6, <3>2 DEF FoundBy
        <4> QED
          BY <1>1, <2>4, <4>1
      <3> QED
        BY <2>1, <3>1, <3>2
    <2>6. ASSUME NEW d \in Ran', NEW i \in DOMAIN signals, Due(i, d)
          PROVE  \E a \in 1..Len(anomalies') : i \in anomalies'[a].from
      <3>1. CASE d \in Ran
        <4>1. PICK a \in 1..Len(anomalies) : i \in anomalies[a].from
          BY <2>6, <3>1 DEF DetectInv, DetectFound
        <4> QED
          BY <2>1, <4>1
      <3>2. CASE d = k
        <4>1. PICK a \in 1..Len(found) : i \in found[a].from
          BY <1>6, <2>6, <3>2 DEF FoundBy
        <4> QED
          BY <2>1, <4>1
      <3> QED
        BY <2>4, <2>6, <3>1, <3>2
    <2>7. DetectFound'
      BY <1>1, <1>2, <2>5, <2>6 DEF DetectFound
    <2> QED
      BY <1>7, <2>3, <2>7 DEF DetectInv
  <1>11. CASE anomalies' = anomalies /\ broken' = broken \cup {k}
    <2>1. Len(anomalies) <= MaxSignals * ((k + 1) - 1)
      <3>1. Len(anomalies) + 0 <= MaxSignals * ((k + 1) - 1)
        BY <1>3, <1>4, <1>8, CountMore
      <3> QED
        BY <1>8, <3>1
    <2>2. DetectCount'
      BY <1>1, <1>4, <1>11, <2>1 DEF DetectCount, DetectInv
    <2>3. Ran' = Ran
      BY <1>1, <1>3, <1>4, <1>5, <1>11 DEF Ran
    <2>4. DetectFound'
      BY <1>1, <1>2, <1>11, <2>3 DEF DetectFound, DetectInv
    <2> QED
      BY <1>7, <2>2, <2>4 DEF DetectInv
  <1> QED
    BY <1>1, <1>10, <1>11

LEMMA GroupingDetects ==
    ASSUME DetectInv,
           BeginGrouping \/ LinkLogs \/ NextLoop \/ LinkMetrics \/ LogRoots \/ AttachMetrics \/ Collect
    PROVE  DetectInv' /\ anomalies' = anomalies
  <1>1. /\ UNCHANGED <<signals, rules>> /\ suppressed' = suppressed /\ broken' = broken /\ anomalies' = anomalies
        /\ pc # "suppress" /\ pc' \in {"logs", "metrics", "attach", "done"}
    BY DEF BeginGrouping, LinkLogs, NextLoop, LinkMetrics, LogRoots, AttachMetrics, Collect
  <1>2. /\ SignalsOK' <=> SignalsOK
        /\ Suppressed' = Suppressed
        /\ \A i, d : Due(i, d)' <=> Due(i, d)
        /\ \A x, i : About(x, i)' <=> About(x, i)
    BY <1>1, SameSignals
  <1>3. anomalies \in Seq(Anomaly) /\ Len(anomalies) \in Nat /\ DOMAIN anomalies = 1..Len(anomalies)
    BY LenProperties DEF DetectInv, DetectCount
  <1>4. Len(Detectors) \in Nat /\ DOMAIN Detectors = 1..Len(Detectors)
    BY PipelineAssumption
  <1>5. ~Detecting' /\ k \in Nat \ {0}
    BY <1>1 DEF Detecting, DetectInv, DetectPlaces
  <1>6. k' \in Nat \ {0} /\ k' <= Len(anomalies) + 1
    <2>1. CASE k' = 1
      BY <1>3, <2>1
    <2>2. CASE k' = k + 1 /\ k \in DOMAIN anomalies
      BY <1>3, <1>5, <2>2
    <2>3. CASE k' = k /\ pc = "attach"
      BY <1>3, <1>5, <2>3 DEF DetectInv, DetectCount, Detecting
    <2> QED
      BY <2>1, <2>2, <2>3 DEF BeginGrouping, LinkLogs, NextLoop, LinkMetrics, LogRoots, AttachMetrics, Collect
  <1>7. DetectPlaces'
    BY <1>1, <1>2, <1>5, <1>6 DEF DetectInv, DetectPlaces
  <1>8. DetectCount'
    BY <1>1, <1>5, <1>6 DEF DetectInv, DetectCount
  <1>9. Ran' = Ran
    <2>1. CASE ~Detecting
      BY <1>1, <1>5, <2>1 DEF Ran
    <2>2. CASE Detecting
      <3>1. k \notin DOMAIN Detectors
        BY <2>2 DEF BeginGrouping, LinkLogs, NextLoop, LinkMetrics, LogRoots, AttachMetrics, Collect, Detecting
      <3>2. \A d \in DOMAIN Detectors : d < k
        BY <1>4, <1>5, <3>1
      <3> QED
        BY <1>1, <1>5, <3>2 DEF Ran
    <2> QED
      BY <2>1, <2>2
  <1>10. DetectFound'
    BY <1>1, <1>2, <1>9 DEF DetectInv, DetectFound
  <1> QED
    BY <1>1, <1>7, <1>8, <1>10 DEF DetectInv

-----------------------------------------------------------------------------
(***************************************************************************)
(* The rules of grouping.py, and the sets of anomalies they do not leave.  *)
(***************************************************************************)
LogClosed(T) ==
    /\ T \in SUBSET Logs
    /\ \A a \in T, b \in Logs : SameError(a, b) \/ SameError(b, a) => b \in T

IncidentClosed(T) ==
    /\ T \in SUBSET DOMAIN anomalies
    /\ \A a \in T, b \in DOMAIN anomalies : SameIncident(a, b) \/ SameIncident(b, a) => b \in T

\* metric_root_by_service of the service of metric i.
Anchor(i) == Smallest({j \in Metrics : anomalies[j].service = anomalies[i].service})

\* The passes of _union_logs have seen i.
LogLinked(f, i) ==
    /\ f[i] = f[WithSignature(i)]
    /\ \A t \in anomalies[i].traces : f[i] = f[WithTrace(t)]

\* The logs of a service are one incident.
OneError(s) == \E j \in LogsOf(s) : LogsOf(s) \subseteq Errors(j)

LEMMA AnomalyFacts ==
    ASSUME DetectCount
    PROVE  /\ Len(anomalies) \in Nat /\ DOMAIN anomalies = 1..Len(anomalies)
           /\ \A i \in DOMAIN anomalies : anomalies[i].service \in Service /\ anomalies[i].kind \in {"metric", "log"}
           /\ Logs \subseteq DOMAIN anomalies /\ Metrics \subseteq DOMAIN anomalies
           /\ Logs \cap Metrics = {} /\ DOMAIN anomalies = Logs \cup Metrics
  <1>1. anomalies \in Seq(Anomaly) /\ Len(anomalies) \in Nat /\ DOMAIN anomalies = 1..Len(anomalies)
    BY LenProperties DEF DetectCount
  <1>2. \A i \in DOMAIN anomalies : anomalies[i] \in Anomaly
    BY <1>1, ElementOfSeq
  <1>3. \A i \in DOMAIN anomalies : anomalies[i].service \in Service /\ anomalies[i].kind \in {"metric", "log"}
    BY <1>2 DEF Anomaly
  <1> QED
    BY <1>1, <1>3 DEF Logs, Metrics

\* The rules look at nothing but the anomalies.
LEMMA SameAnomalies ==
    ASSUME anomalies' = anomalies
    PROVE  /\ Logs' = Logs /\ Metrics' = Metrics
           /\ \A T : LogClosed(T)' <=> LogClosed(T)
           /\ \A T : IncidentClosed(T)' <=> IncidentClosed(T)
           /\ \A f, i : LogLinked(f, i)' <=> LogLinked(f, i)
           /\ \A i : Anchor(i)' = Anchor(i)
           /\ \A s : LogsOf(s)' = LogsOf(s)
           /\ \A s : OneError(s)' <=> OneError(s)
  <1>1. Logs' = Logs /\ Metrics' = Metrics
    BY DEF Logs, Metrics
  <1>2. \A i, j : SameError(i, j)' <=> SameError(i, j)
    BY DEF SameError
  <1>3. \A s : LogsOf(s)' = LogsOf(s)
    BY <1>1 DEF LogsOf
  <1>4. \A i : Errors(i)' = Errors(i)
    BY <1>1, <1>2 DEF Errors, Component
  <1>5. \A i, j : SameIncident(i, j)' <=> SameIncident(i, j)
    BY <1>1, <1>2, <1>3, <1>4 DEF SameIncident
  <1>6. \A T : LogClosed(T)' <=> LogClosed(T)
    BY <1>1, <1>2 DEF LogClosed
  <1>7. \A T : IncidentClosed(T)' <=> IncidentClosed(T)
    BY <1>5 DEF IncidentClosed
  <1>8. \A i : WithSignature(i)' = WithSignature(i) /\ WithTrace(i)' = WithTrace(i) /\ Anchor(i)' = Anchor(i)
    BY <1>1 DEF WithSignature, WithTrace, Anchor
  <1>9. \A f, i : LogLinked(f, i)' <=> LogLinked(f, i)
    BY <1>8 DEF LogLinked
  <1>10. \A s : OneError(s)' <=> OneError(s)
    BY <1>3, <1>4 DEF OneError
  <1> QED
    BY <1>1, <1>3, <1>6, <1>7, <1>8, <1>9, <1>10

\* The trees f join nothing the rules keep apart ...
Sound(f) ==
    /\ \A T : IncidentClosed(T) => Respects(f, T)
    /\ pc \in {"logs", "metrics"} => \A T : LogClosed(T) => Respects(f, T)

\* ... the passes so far have joined what they were to join ...
Linked(f) ==
    /\ \A i \in Logs : (pc = "logs" => i < k) => LogLinked(f, i)
    /\ pc # "logs" => \A i \in Metrics : (pc = "metrics" => i < k) => f[i] = f[Anchor(i)]

\* ... and so it is for what log_root_by_service says.
Hosted(f) ==
    pc \in {"attach", "done"} =>
        /\ \A s \in Service :
               /\ logRoots[s] \subseteq DOMAIN anomalies
               /\ Host(logRoots[s]) <=> OneError(s)
               /\ \A l \in LogsOf(s) : \E r \in logRoots[s] : f[l] = f[r]
        /\ \A i \in Metrics :
               (pc = "attach" => i < k) /\ OneError(anomalies[i].service)
                   => \A l \in LogsOf(anomalies[i].service) : f[i] = f[l]

\* The nodes of a tree are a group.
Trees(f, D) == {{i \in D : f[i] = r} : r \in {f[i] : i \in D}}

Collected(f) == pc = "done" => groups = Trees(f, DOMAIN anomalies)

GroupInv ==
    /\ ~Detecting => \E f, d : /\ Rooted(parent, DOMAIN anomalies, f, d)
                               /\ Sound(f) /\ Linked(f) /\ Hosted(f) /\ Collected(f)
    /\ Detecting => parent = <<>>
    /\ pc \notin {"attach", "done"} => logRoots = [s \in Service |-> {}]
    /\ pc # "done" => groups = {}

LEMMA GroupInit == Init => GroupInv
  BY DEF Init, GroupInv, Detecting

LEMMA DetectGroups ==
    ASSUME GroupInv, L0Suppress \/ L1Detect
    PROVE  GroupInv'
  BY DEF GroupInv, Detecting, L0Suppress, L1Detect

LEMMA BeginGroups ==
    ASSUME DetectInv, GroupInv, BeginGrouping
    PROVE  GroupInv'
  <1>0. PICK D, f, d : D = DOMAIN anomalies /\ f = [i \in D |-> i] /\ d = [i \in D |-> 0]
    OBVIOUS
  <1>1. /\ pc' = "logs" /\ k' = 1 /\ parent' = f /\ anomalies' = anomalies /\ Detecting
        /\ logRoots' = logRoots /\ groups' = groups /\ pc = "detect"
    BY <1>0 DEF BeginGrouping, Detecting
  <1>2. Rooted(f, D, f, d)
    BY <1>0 DEF Rooted
  <1>3. \A T : Respects(f, T)
    BY <1>0 DEF Respects
  <1>4. Logs \subseteq D /\ D = 1..Len(anomalies) /\ Len(anomalies) \in Nat
    BY <1>0, AnomalyFacts DEF DetectInv
  <1>5. Logs' = Logs
    BY <1>1, SameAnomalies
  <1>6. Sound(f)' /\ Linked(f)' /\ Hosted(f)' /\ Collected(f)'
    <2>1. Sound(f)'
      BY <1>3 DEF Sound
    <2>2. Linked(f)'
      <3>1. \A i \in Logs : ~(i < 1)
        BY <1>4
      <3> QED
        BY <1>1, <1>5, <3>1 DEF Linked
    <2> QED
      BY <1>1, <2>1, <2>2 DEF Hosted, Collected
  <1>7. Rooted(parent', DOMAIN anomalies', f, d)
    BY <1>0, <1>1, <1>2
  <1> QED
    BY <1>1, <1>6, <1>7 DEF GroupInv, Detecting

-----------------------------------------------------------------------------
(***************************************************************************)
(* _union_logs.                                                            *)
(***************************************************************************)
LEMMA SameErrorSymmetric == \A i, j : SameError(i, j) => SameError(j, i)
  BY DEF SameError

\* by_signature and by_trace hold log anomalies that have the signature or the trace.
LEMMA HolderFacts ==
    ASSUME DetectCount, NEW i \in Logs
    PROVE  /\ WithSignature(i) \in Logs /\ SameError(WithSignature(i), i)
           /\ \A t \in anomalies[i].traces : WithTrace(t) \in Logs /\ SameError(WithTrace(t), i)
  <1>0. Logs \subseteq Nat
    BY AnomalyFacts
  <1>1. WithSignature(i) \in {j \in Logs : anomalies[j].name = anomalies[i].name}
    <2> DEFINE S == {j \in Logs : anomalies[j].name = anomalies[i].name}
    <2>1. S \subseteq Nat /\ S # {}
      BY <1>0
    <2> HIDE DEF S
    <2>2. Smallest(S) \in S
      BY <2>1, SmallestIs
    <2> QED
      BY <2>2 DEF WithSignature, S
  <1>2. ASSUME NEW t \in anomalies[i].traces
        PROVE  WithTrace(t) \in {j \in Logs : t \in anomalies[j].traces}
    <2> DEFINE S == {j \in Logs : t \in anomalies[j].traces}
    <2>1. S \subseteq Nat /\ S # {}
      BY <1>0
    <2> HIDE DEF S
    <2>2. Smallest(S) \in S
      BY <2>1, SmallestIs
    <2> QED
      BY <2>2 DEF WithTrace, S
  <1>3. SameError(WithSignature(i), i)
    BY <1>1 DEF SameError
  <1>4. ASSUME NEW t \in anomalies[i].traces PROVE WithTrace(t) \in Logs /\ SameError(WithTrace(t), i)
    <2>1. PICK j : j = WithTrace(t)
      OBVIOUS
    <2>2. j \in Logs /\ t \in anomalies[j].traces
      BY <1>2, <2>1
    <2>3. SameError(j, i)
      BY <2>2 DEF SameError
    <2> QED
      BY <2>1, <2>2, <2>3
  <1> QED
    BY <1>1, <1>3, <1>4

\* s with x before it.
IsPrepended(h, A, x, n, s) ==
    /\ h \in [1..(n + 1) -> A]
    /\ h[1] = x
    /\ \A m \in 1..n : h[m + 1] = s[m]

LEMMA PrependFacts ==
    ASSUME NEW A, NEW x \in A, NEW n \in Nat, NEW s \in [1..n -> A]
    PROVE  IsPrepended(<<x>> \o s, A, x, n, s)
  <1>1. s \in Seq(A) /\ Len(s) = n /\ <<x>> \in Seq(A) /\ Len(<<x>>) = 1 /\ <<x>>[1] = x
    OBVIOUS
  <1>2. <<x>> \o s \in Seq(A) /\ Len(<<x>> \o s) = 1 + n
    BY <1>1, ConcatFacts
  <1>3. /\ \A m \in 1..1 : (<<x>> \o s)[m] = <<x>>[m]
        /\ \A m \in 1..n : (<<x>> \o s)[1 + m] = s[m]
    BY <1>1, <1>2, ConcatFacts
  <1>4. 1 + n = n + 1 /\ \A m \in 1..n : 1 + m = m + 1
    OBVIOUS
  <1>5. <<x>> \o s \in [1..(n + 1) -> A]
    BY <1>2, <1>4, LenProperties, ElementOfSeq
  <1> QED
    BY <1>1, <1>3, <1>4, <1>5 DEF IsPrepended

LEMMA HoldersAreLinked ==
    ASSUME DetectCount, NEW i \in Logs,
           NEW holders, holders = <<WithSignature(i)>> \o SetToSeq({WithTrace(t) : t \in anomalies[i].traces})
    PROVE  \E n \in Nat :
               /\ holders \in [1..n -> DOMAIN anomalies]
               /\ \A m \in 1..n : holders[m] \in Logs /\ SameError(holders[m], i)
               /\ \E m \in 1..n : holders[m] = WithSignature(i)
               /\ \A t \in anomalies[i].traces : \E m \in 1..n : holders[m] = WithTrace(t)
  <1> DEFINE A == {j \in Logs : SameError(j, i)}
             W == {WithTrace(t) : t \in anomalies[i].traces}
             s == SetToSeq(W)
             c == Cardinality(W)
             w == WithSignature(i)
  <1>1. w \in A /\ W \subseteq A
    BY HolderFacts
  <1>2. Len(anomalies) \in Nat /\ DOMAIN anomalies = 1..Len(anomalies) /\ A \subseteq DOMAIN anomalies
    BY AnomalyFacts
  <1>3. \A t \in anomalies[i].traces : WithTrace(t) \in W
    OBVIOUS
  <1>4. \A a \in A : a \in Logs /\ SameError(a, i)
    OBVIOUS
  <1>5. holders = <<w>> \o s
    OBVIOUS
  <1> HIDE DEF A, W, w
  <1>6. IsFiniteSet(W)
    <2>1. IsFiniteSet(1..Len(anomalies))
      BY <1>2, FS_Interval
    <2> QED
      BY <1>1, <1>2, <2>1, FS_Subset
  <1>7. c \in Nat /\ s \in [1..c -> W] /\ \A x \in W : \E n \in 1..c : s[n] = x
    BY <1>6, SetToSeqFacts
  <1> HIDE DEF s, c
  <1>8. s \in [1..c -> A]
    BY <1>1, <1>7
  <1>9. /\ holders \in [1..(c + 1) -> A] /\ holders[1] = w
        /\ \A m \in 1..c : holders[m + 1] = s[m]
    <2>1. IsPrepended(holders, A, w, c, s)
      BY <1>1, <1>5, <1>7, <1>8, PrependFacts, Zenon
    <2> QED
      BY <2>1 DEF IsPrepended
  <1>10. ASSUME NEW t \in anomalies[i].traces PROVE \E m \in 1..(c + 1) : holders[m] = WithTrace(t)
    <2>1. PICK n \in 1..c : s[n] = WithTrace(t)
      BY <1>3, <1>7
    <2>2. n + 1 \in 1..(c + 1) /\ holders[n + 1] = s[n]
      BY <1>7, <1>9, <2>1
    <2> QED
      BY <2>1, <2>2
  <1>11. c + 1 \in Nat /\ 1 \in 1..(c + 1)
    BY <1>7
  <1>12. holders \in [1..(c + 1) -> DOMAIN anomalies]
    BY <1>2, <1>9
  <1> QED
    BY <1>4, <1>9, <1>10, <1>11, <1>12 DEF w

\* A pass of _union_logs links i to what holds its signature and its traces, and to nothing else.
LEMMA UnionLogsFacts ==
    ASSUME DetectCount, NEW i \in Logs, NEW f, NEW d, Rooted(parent, DOMAIN anomalies, f, d)
    PROVE  \E g, e :
               /\ Rooted(UnionLogs(i), DOMAIN anomalies, g, e)
               /\ Coarser(f, g) /\ LogLinked(g, i)
               /\ \A T : Respects(f, T) /\ (\A j \in Logs : SameError(j, i) => (j \in T <=> i \in T))
                             => Respects(g, T)
  <1>1. PICK holders : holders = <<WithSignature(i)>> \o SetToSeq({WithTrace(t) : t \in anomalies[i].traces})
    OBVIOUS
  <1>2. PICK n \in Nat :
            /\ holders \in [1..n -> DOMAIN anomalies]
            /\ \A m \in 1..n : holders[m] \in Logs /\ SameError(holders[m], i)
            /\ \E m \in 1..n : holders[m] = WithSignature(i)
            /\ \A t \in anomalies[i].traces : \E m \in 1..n : holders[m] = WithTrace(t)
    BY <1>1, HoldersAreLinked
  <1>3. i \in DOMAIN anomalies
    BY DEF Logs
  <1>4. PICK g, e : /\ Rooted(FoldLeft(LAMBDA p, j : Union(p, j, i), parent, holders), DOMAIN anomalies, g, e)
                    /\ United(g, f, i, holders)
    BY <1>2, <1>3, UnionFold
  <1>5. UnionLogs(i) = FoldLeft(LAMBDA p, j : Union(p, j, i), parent, holders)
    BY <1>1 DEF UnionLogs
  <1>6. DOMAIN holders = 1..n
    BY <1>2
  <1>7. LogLinked(g, i)
    BY <1>2, <1>4, <1>6 DEF LogLinked, United
  <1>8. ASSUME NEW T, Respects(f, T), \A j \in Logs : SameError(j, i) => (j \in T <=> i \in T)
        PROVE  Respects(g, T)
    BY <1>2, <1>4, <1>6, <1>8 DEF United
  <1> QED
    BY <1>4, <1>5, <1>7, <1>8 DEF United

\* What the passes have joined stays joined.
LEMMA CoarserKeeps ==
    ASSUME DetectCount, NEW f, NEW g, Coarser(f, g), DOMAIN f = DOMAIN anomalies
    PROVE  /\ \A i \in Logs : LogLinked(f, i) => LogLinked(g, i)
           /\ \A i \in Metrics : Anchor(i) \in Metrics /\ anomalies[Anchor(i)].service = anomalies[i].service
           /\ \A i \in Metrics : f[i] = f[Anchor(i)] => g[i] = g[Anchor(i)]
           /\ \A i, j \in DOMAIN anomalies : f[i] = f[j] => g[i] = g[j]
  <1>1. \A i, j \in DOMAIN anomalies : f[i] = f[j] => g[i] = g[j]
    BY DEF Coarser
  <1>2. Logs \subseteq DOMAIN anomalies /\ Metrics \subseteq DOMAIN anomalies /\ Metrics \subseteq Nat
    BY AnomalyFacts
  <1>3. ASSUME NEW i \in Logs, LogLinked(f, i) PROVE LogLinked(g, i)
    <2>1. /\ WithSignature(i) \in DOMAIN anomalies /\ i \in DOMAIN anomalies
          /\ \A t \in anomalies[i].traces : WithTrace(t) \in DOMAIN anomalies
      BY <1>2, HolderFacts
    <2> QED
      BY <1>1, <1>3, <2>1 DEF LogLinked
  <1>4. ASSUME NEW i \in Metrics
        PROVE  Anchor(i) \in Metrics /\ anomalies[Anchor(i)].service = anomalies[i].service
    <2> DEFINE S == {j \in Metrics : anomalies[j].service = anomalies[i].service}
    <2>1. S \subseteq Nat /\ S # {}
      BY <1>2
    <2> HIDE DEF S
    <2>2. Smallest(S) \in S
      BY <2>1, SmallestIs
    <2> QED
      BY <2>2 DEF Anchor, S
  <1> QED
    BY <1>1, <1>2, <1>3, <1>4

LEMMA LogsGroup ==
    ASSUME DetectInv, GroupInv, LinkLogs
    PROVE  GroupInv'
  <1>0. DetectCount
    BY DEF DetectInv
  <1>1. /\ pc = "logs" /\ pc' = "logs" /\ k \in DOMAIN anomalies /\ k' = k + 1 /\ anomalies' = anomalies
        /\ parent' = (IF k \in Logs THEN UnionLogs(k) ELSE parent)
        /\ logRoots' = logRoots /\ groups' = groups
    BY DEF LinkLogs
  <1>2. PICK f, d : Rooted(parent, DOMAIN anomalies, f, d) /\ Sound(f) /\ Linked(f)
    BY <1>1 DEF GroupInv, Detecting
  <1>3. k \in Nat /\ Logs \subseteq Nat /\ Logs \subseteq DOMAIN anomalies
    BY <1>0, <1>1, AnomalyFacts
  <1>4. /\ Logs' = Logs /\ \A T : LogClosed(T)' <=> LogClosed(T)
        /\ \A T : IncidentClosed(T)' <=> IncidentClosed(T)
        /\ \A g, i : LogLinked(g, i)' <=> LogLinked(g, i)
    BY <1>1, SameAnomalies
  <1>5. DOMAIN f = DOMAIN anomalies
    BY <1>2 DEF Rooted
  <1>6. \E g, e : /\ Rooted(parent', DOMAIN anomalies, g, e)
                  /\ Coarser(f, g) /\ (k \in Logs => LogLinked(g, k))
                  /\ \A T : LogClosed(T) \/ IncidentClosed(T) => Respects(g, T)
    <2>1. CASE k \notin Logs
      <3>1. Coarser(f, f)
        BY DEF Coarser
      <3> QED
        BY <1>1, <1>2, <2>1, <3>1 DEF Sound
    <2>2. CASE k \in Logs
      <3>1. PICK g, e :
               /\ Rooted(UnionLogs(k), DOMAIN anomalies, g, e)
               /\ Coarser(f, g) /\ LogLinked(g, k)
               /\ \A T : Respects(f, T) /\ (\A j \in Logs : SameError(j, k) => (j \in T <=> k \in T))
                             => Respects(g, T)
        BY <1>0, <1>2, <2>2, UnionLogsFacts
      <3>2. ASSUME NEW T, LogClosed(T) \/ IncidentClosed(T), NEW j \in Logs, SameError(j, k)
            PROVE  j \in T <=> k \in T
        <4>1. SameIncident(j, k)
          BY <2>2, <3>2 DEF SameIncident
        <4>2. CASE LogClosed(T)
          BY <2>2, <3>2, <4>2 DEF LogClosed
        <4>3. CASE IncidentClosed(T)
          BY <1>3, <2>2, <3>2, <4>1, <4>3 DEF IncidentClosed
        <4> QED
          BY <3>2, <4>2, <4>3
      <3>3. ASSUME NEW T, LogClosed(T) \/ IncidentClosed(T) PROVE Respects(g, T)
        <4>1. Respects(f, T)
          BY <1>1, <1>2, <3>3 DEF Sound
        <4> QED
          BY <3>1, <3>2, <3>3, <4>1
      <3> QED
        BY <1>1, <2>2, <3>1, <3>3
    <2> QED
      BY <2>1, <2>2
  <1>7. PICK g, e : /\ Rooted(parent', DOMAIN anomalies, g, e)
                    /\ Coarser(f, g) /\ (k \in Logs => LogLinked(g, k))
                    /\ \A T : LogClosed(T) \/ IncidentClosed(T) => Respects(g, T)
    BY <1>6
  <1>8. ASSUME NEW i \in Logs, i < k + 1 PROVE LogLinked(g, i)
    <2>1. CASE i = k
      BY <1>7, <2>1
    <2>2. CASE i # k
      <3>1. i < k
        BY <1>3, <1>8, <2>2
      <3>2. LogLinked(f, i)
        BY <1>2, <3>1 DEF Linked
      <3> QED
        BY <1>0, <1>5, <1>7, <3>2, CoarserKeeps
    <2> QED
      BY <2>1, <2>2
  <1>9. Sound(g)' /\ Linked(g)' /\ Hosted(g)' /\ Collected(g)'
    <2>1. Sound(g)'
      BY <1>4, <1>7 DEF Sound
    <2>2. Linked(g)'
      BY <1>1, <1>4, <1>8 DEF Linked
    <2> QED
      BY <1>1, <2>1, <2>2 DEF Hosted, Collected
  <1>10. Rooted(parent', DOMAIN anomalies', g, e)
    BY <1>1, <1>7
  <1> QED
    BY <1>1, <1>9, <1>10 DEF GroupInv, Detecting

LEMMA NextLoopGroups ==
    ASSUME DetectInv, GroupInv, NextLoop
    PROVE  GroupInv'
  <1>0. DetectCount
    BY DEF DetectInv
  <1>1. /\ pc = "logs" /\ pc' = "metrics" /\ k \notin DOMAIN anomalies /\ k' = 1 /\ anomalies' = anomalies
        /\ parent' = parent /\ logRoots' = logRoots /\ groups' = groups
    BY DEF NextLoop
  <1>2. PICK f, d : Rooted(parent, DOMAIN anomalies, f, d) /\ Sound(f) /\ Linked(f)
    BY <1>1 DEF GroupInv, Detecting
  <1>3. k \in Nat \ {0} /\ DOMAIN anomalies = 1..Len(anomalies) /\ Len(anomalies) \in Nat
        /\ Logs \subseteq DOMAIN anomalies /\ Metrics \subseteq DOMAIN anomalies
    BY <1>0, AnomalyFacts DEF DetectInv, DetectPlaces
  <1>4. /\ Logs' = Logs /\ Metrics' = Metrics /\ \A T : LogClosed(T)' <=> LogClosed(T)
        /\ \A T : IncidentClosed(T)' <=> IncidentClosed(T)
        /\ \A g, i : LogLinked(g, i)' <=> LogLinked(g, i)
    BY <1>1, SameAnomalies
  <1>5. \A i \in DOMAIN anomalies : i < k /\ ~(i < 1)
    BY <1>1, <1>3
  <1>6. Sound(f)' /\ Linked(f)' /\ Hosted(f)' /\ Collected(f)'
    <2>1. Sound(f)'
      BY <1>1, <1>2, <1>4 DEF Sound
    <2>2. Linked(f)'
      BY <1>1, <1>2, <1>3, <1>4, <1>5 DEF Linked
    <2> QED
      BY <1>1, <2>1, <2>2 DEF Hosted, Collected
  <1>7. Rooted(parent', DOMAIN anomalies', f, d)
    BY <1>1, <1>2
  <1> QED
    BY <1>1, <1>6, <1>7 DEF GroupInv, Detecting

-----------------------------------------------------------------------------
(***************************************************************************)
(* The passes over the metrics.                                            *)
(***************************************************************************)
LEMMA MetricsGroup ==
    ASSUME DetectInv, GroupInv, LinkMetrics
    PROVE  GroupInv'
  <1>0. DetectCount
    BY DEF DetectInv
  <1>1. /\ pc = "metrics" /\ pc' = "metrics" /\ k \in DOMAIN anomalies /\ k' = k + 1 /\ anomalies' = anomalies
        /\ parent' = (IF k \in Metrics /\ Anchor(k) # k THEN Union(parent, Anchor(k), k) ELSE parent)
        /\ logRoots' = logRoots /\ groups' = groups
    BY DEF LinkMetrics, Anchor
  <1>2. PICK f, d : Rooted(parent, DOMAIN anomalies, f, d) /\ Sound(f) /\ Linked(f)
    BY <1>1 DEF GroupInv, Detecting
  <1>3. /\ k \in Nat /\ Logs \subseteq Nat /\ Metrics \subseteq Nat
        /\ Logs \subseteq DOMAIN anomalies /\ Metrics \subseteq DOMAIN anomalies /\ Logs \cap Metrics = {}
    BY <1>0, <1>1, AnomalyFacts
  <1>4. /\ Logs' = Logs /\ Metrics' = Metrics /\ \A T : LogClosed(T)' <=> LogClosed(T)
        /\ \A T : IncidentClosed(T)' <=> IncidentClosed(T)
        /\ \A g, i : LogLinked(g, i)' <=> LogLinked(g, i)
        /\ \A i : Anchor(i)' = Anchor(i)
    BY <1>1, SameAnomalies
  <1>5. DOMAIN f = DOMAIN anomalies /\ f \in [DOMAIN anomalies -> DOMAIN anomalies]
    BY <1>2 DEF Rooted
  <1>6. Coarser(f, f)
    BY DEF Coarser
  <1>7. \E g, e : /\ Rooted(parent', DOMAIN anomalies, g, e)
                  /\ Coarser(f, g) /\ (k \in Metrics => g[k] = g[Anchor(k)])
                  /\ \A T : LogClosed(T) \/ IncidentClosed(T) => Respects(g, T)
    <2>1. CASE ~(k \in Metrics /\ Anchor(k) # k)
      <3>1. k \in Metrics => f[k] = f[Anchor(k)]
        BY <2>1
      <3> QED
        BY <1>1, <1>2, <1>6, <2>1, <3>1 DEF Sound
    <2>2. CASE k \in Metrics /\ Anchor(k) # k
      <3>1. PICK a : a = Anchor(k)
        OBVIOUS
      <3>2. a \in Metrics /\ anomalies[a].service = anomalies[k].service /\ a \in DOMAIN anomalies
        BY <1>0, <1>3, <1>5, <1>6, <2>2, <3>1, CoarserKeeps
      <3>3. PICK g : g = Merge(f, a, k)
        OBVIOUS
      <3>4. PICK e : Rooted(Union(parent, a, k), DOMAIN anomalies, g, e)
        BY <1>1, <1>2, <3>2, <3>3, UnionRooted
      <3>5. Joined(g, f, a, k)
        BY <1>1, <1>5, <3>2, <3>3, MergeFacts
      <3>6. ASSUME NEW T, LogClosed(T) \/ IncidentClosed(T) PROVE Respects(g, T)
        <4>1. Respects(f, T)
          BY <1>1, <1>2, <3>6 DEF Sound
        <4>2. CASE LogClosed(T)
          <5>1. a \notin T /\ k \notin T
            BY <1>3, <2>2, <3>2, <4>2 DEF LogClosed
          <5> QED
            BY <3>5, <4>1, <5>1 DEF Joined
        <4>3. CASE IncidentClosed(T)
          <5>1. SameIncident(a, k)
            BY <2>2, <3>2 DEF SameIncident
          <5>2. a \in T <=> k \in T
            BY <1>1, <3>2, <4>3, <5>1 DEF IncidentClosed
          <5> QED
            BY <3>5, <4>1, <5>2 DEF Joined
        <4> QED
          BY <3>6, <4>2, <4>3
      <3>7. Coarser(f, g) /\ g[k] = g[Anchor(k)]
        BY <3>1, <3>5 DEF Joined
      <3> QED
        BY <1>1, <2>2, <3>1, <3>4, <3>6, <3>7
    <2> QED
      BY <2>1, <2>2
  <1>8. PICK g, e : /\ Rooted(parent', DOMAIN anomalies, g, e)
                    /\ Coarser(f, g) /\ (k \in Metrics => g[k] = g[Anchor(k)])
                    /\ \A T : LogClosed(T) \/ IncidentClosed(T) => Respects(g, T)
    BY <1>7
  <1>9. ASSUME NEW i \in Metrics, i < k + 1 PROVE g[i] = g[Anchor(i)]
    <2>1. CASE i = k
      BY <1>8, <2>1
    <2>2. CASE i # k
      <3>1. i < k
        BY <1>3, <1>9, <2>2
      <3>2. f[i] = f[Anchor(i)]
        BY <1>1, <1>2, <3>1 DEF Linked
      <3> QED
        BY <1>0, <1>5, <1>8, <3>2, CoarserKeeps
    <2> QED
      BY <2>1, <2>2
  <1>10. ASSUME NEW i \in Logs PROVE LogLinked(g, i)
    <2>1. LogLinked(f, i)
      BY <1>1, <1>2 DEF Linked
    <2> QED
      BY <1>0, <1>5, <1>8, <2>1, CoarserKeeps
  <1>11. Sound(g)' /\ Linked(g)' /\ Hosted(g)' /\ Collected(g)'
    <2>1. Sound(g)'
      BY <1>4, <1>8 DEF Sound
    <2>2. Linked(g)'
      BY <1>1, <1>4, <1>9, <1>10 DEF Linked
    <2> QED
      BY <1>1, <2>1, <2>2 DEF Hosted, Collected
  <1>12. Rooted(parent', DOMAIN anomalies', g, e)
    BY <1>1, <1>8
  <1> QED
    BY <1>1, <1>11, <1>12 DEF GroupInv, Detecting

-----------------------------------------------------------------------------
(***************************************************************************)
(* log_root_by_service.                                                    *)
(***************************************************************************)
\* When _union_logs is through, logs of one error are in one tree.
LEMMA ErrorsAreTrees ==
    ASSUME DetectCount, NEW f, \A i \in Logs : LogLinked(f, i)
    PROVE  \A i, j \in Logs : SameError(i, j) => f[i] = f[j]
  <1> SUFFICES ASSUME NEW i \in Logs, NEW j \in Logs, SameError(i, j) PROVE f[i] = f[j]
    OBVIOUS
  <1>1. LogLinked(f, i) /\ LogLinked(f, j)
    OBVIOUS
  <1>2. CASE anomalies[i].name = anomalies[j].name
    <2>1. WithSignature(i) = WithSignature(j)
      BY <1>2 DEF WithSignature
    <2> QED
      BY <1>1, <2>1 DEF LogLinked
  <1>3. CASE anomalies[i].traces \cap anomalies[j].traces # {}
    <2>1. PICK t : t \in anomalies[i].traces /\ t \in anomalies[j].traces
      BY <1>3
    <2>2. f[i] = f[WithTrace(t)] /\ f[j] = f[WithTrace(t)]
      BY <1>1, <2>1 DEF LogLinked
    <2> QED
      BY <2>2
  <1> QED
    BY <1>2, <1>3 DEF SameError

\* The logs of a service are one incident when they are one tree.
LEMMA OneErrorIsOneTree ==
    ASSUME DetectCount, NEW f, DOMAIN f = DOMAIN anomalies, \A i \in Logs : LogLinked(f, i),
           \A T : LogClosed(T) => Respects(f, T), NEW s
    PROVE  OneError(s) <=> LogsOf(s) # {} /\ \A i, j \in LogsOf(s) : f[i] = f[j]
  <1>0. Logs \subseteq DOMAIN anomalies /\ LogsOf(s) \subseteq Logs
    BY AnomalyFacts DEF LogsOf
  <1>1. ASSUME OneError(s) PROVE LogsOf(s) # {} /\ \A i, j \in LogsOf(s) : f[i] = f[j]
    <2>1. PICK j \in LogsOf(s) : LogsOf(s) \subseteq Errors(j)
      BY <1>1 DEF OneError
    <2> DEFINE T == {x \in Logs : f[x] = f[j]}
    <2>2. T \in SUBSET Logs /\ j \in T
      BY <1>0
    <2>3. \A a \in T, b \in Logs : SameError(a, b) \/ SameError(b, a) => b \in T
      BY ErrorsAreTrees
    <2>4. ASSUME NEW l \in LogsOf(s) PROVE f[l] = f[j]
      <3>1. \A U \in SUBSET Logs :
                j \in U /\ (\A a \in U, b \in Logs : SameError(a, b) \/ SameError(b, a) => b \in U) => l \in U
        BY <2>1 DEF Errors, Component
      <3> HIDE DEF T
      <3>2. l \in T
        BY <2>2, <2>3, <3>1
      <3> QED
        BY <3>2 DEF T
    <2> QED
      BY <2>1, <2>4
  <1>2. ASSUME LogsOf(s) # {}, \A i, j \in LogsOf(s) : f[i] = f[j] PROVE OneError(s)
    <2>1. PICK j : j \in LogsOf(s)
      BY <1>2
    <2>2. ASSUME NEW l \in LogsOf(s) PROVE l \in Errors(j)
      <3>1. ASSUME NEW U \in SUBSET Logs, j \in U,
                   \A a \in U, b \in Logs : SameError(a, b) \/ SameError(b, a) => b \in U
            PROVE  l \in U
        <4>1. LogClosed(U)
          BY <3>1 DEF LogClosed
        <4>2. Respects(f, U) /\ f[j] = f[l]
          BY <1>2, <2>1, <4>1
        <4> QED
          BY <1>0, <2>1, <3>1, <4>2 DEF Respects
      <3> QED
        BY <1>0, <3>1 DEF Errors, Component
    <2> QED
      BY <2>1, <2>2 DEF OneError
  <1> QED
    BY <1>1, <1>2

\* A set with an only member.
LEMMA HostIs ==
    ASSUME NEW S, IsFiniteSet(S)
    PROVE  Host(S) <=> S # {} /\ \A x, y \in S : x = y
  <1>1. Host(S) <=> \E x : S = {x}
    BY FS_Singleton DEF Host
  <1> QED
    BY <1>1

LEMMA LogRootsGroup ==
    ASSUME DetectInv, GroupInv, LogRoots
    PROVE  GroupInv'
  <1>0. DetectCount
    BY DEF DetectInv
  <1>1. /\ pc = "metrics" /\ pc' = "attach" /\ k \notin DOMAIN anomalies /\ k' = 1 /\ anomalies' = anomalies
        /\ parent' = FoldLeft(Compress, parent, Sorted(Logs))
        /\ logRoots' = [s \in Service |-> {Root(parent, i) : i \in LogsOf(s)}]
        /\ groups' = groups
    BY DEF LogRoots, LogsOf
  <1>2. PICK f, d : Rooted(parent, DOMAIN anomalies, f, d) /\ Sound(f) /\ Linked(f)
    BY <1>1 DEF GroupInv, Detecting
  <1>3. /\ k \in Nat \ {0} /\ DOMAIN anomalies = 1..Len(anomalies) /\ Len(anomalies) \in Nat
        /\ Logs \subseteq DOMAIN anomalies /\ Metrics \subseteq DOMAIN anomalies
        /\ \A s : LogsOf(s) \subseteq DOMAIN anomalies
    BY <1>0, AnomalyFacts DEF DetectInv, DetectPlaces, LogsOf
  <1>4. /\ Logs' = Logs /\ Metrics' = Metrics
        /\ \A T : IncidentClosed(T)' <=> IncidentClosed(T)
        /\ \A g, i : LogLinked(g, i)' <=> LogLinked(g, i)
        /\ \A i : Anchor(i)' = Anchor(i)
        /\ \A s : LogsOf(s)' = LogsOf(s)
        /\ \A s : OneError(s)' <=> OneError(s)
    BY <1>1, SameAnomalies
  <1>5. DOMAIN f = DOMAIN anomalies /\ f \in [DOMAIN anomalies -> DOMAIN anomalies]
    BY <1>2 DEF Rooted
  <1>6. \A i \in DOMAIN anomalies : i < k /\ ~(i < 1)
    BY <1>1, <1>3
  <1>7. Rooted(parent', DOMAIN anomalies', f, d)
    <2>1. Cardinality(Logs) \in Nat /\ Sorted(Logs) \in [1..Cardinality(Logs) -> Logs]
      BY <1>3, SortedFacts
    <2>2. Sorted(Logs) \in [1..Cardinality(Logs) -> DOMAIN anomalies]
      BY <1>3, <2>1
    <2>3. Rooted(FoldLeft(Compress, parent, Sorted(Logs)), DOMAIN anomalies, f, d)
      BY <1>2, <2>1, <2>2, CompressFold
    <2> QED
      BY <1>1, <2>3
  <1>8. \A i \in Logs : LogLinked(f, i)
    BY <1>1, <1>2 DEF Linked
  <1>9. ASSUME NEW s \in Service
        PROVE  /\ logRoots'[s] \subseteq DOMAIN anomalies
               /\ Host(logRoots'[s]) <=> OneError(s)
               /\ \A l \in LogsOf(s) : \E r \in logRoots'[s] : f[l] = f[r]
    <2>1. PICK R : R = {f[i] : i \in LogsOf(s)}
      OBVIOUS
    <2>2. logRoots'[s] = R
      <3>1. \A i \in LogsOf(s) : Root(parent, i) = f[i]
        BY <1>2, <1>3, RootIs
      <3> QED
        BY <1>1, <2>1, <3>1
    <2>3. R \subseteq DOMAIN anomalies
      BY <1>3, <1>5, <2>1
    <2>4. IsFiniteSet(R)
      <3>1. IsFiniteSet(1..Len(anomalies))
        BY <1>3, FS_Interval
      <3> QED
        BY <1>3, <2>3, <3>1, FS_Subset
    <2>5. Host(R) <=> R # {} /\ \A x, y \in R : x = y
      BY <2>4, HostIs
    <2>6. OneError(s) <=> LogsOf(s) # {} /\ \A i, j \in LogsOf(s) : f[i] = f[j]
      BY <1>0, <1>1, <1>2, <1>5, <1>8, OneErrorIsOneTree DEF Sound
    <2>7. Host(R) <=> OneError(s)
      BY <2>1, <2>5, <2>6
    <2>8. \A l \in LogsOf(s) : f[l] \in R /\ f[f[l]] = f[l]
      BY <1>2, <1>3, <2>1, RootsAreFixed
    <2> QED
      BY <2>2, <2>3, <2>7, <2>8
  <1>10. Sound(f)' /\ Linked(f)' /\ Hosted(f)' /\ Collected(f)'
    <2>1. Sound(f)'
      BY <1>1, <1>2, <1>4 DEF Sound
    <2>2. Linked(f)'
      BY <1>1, <1>2, <1>3, <1>4, <1>6 DEF Linked
    <2>3. Hosted(f)'
      BY <1>1, <1>3, <1>4, <1>6, <1>9 DEF Hosted, Host
    <2> QED
      BY <1>1, <2>1, <2>2, <2>3 DEF Collected
  <1> QED
    BY <1>1, <1>7, <1>10 DEF GroupInv, Detecting

-----------------------------------------------------------------------------
(***************************************************************************)
(* A metric joins the logs of its service, and the trees become groups.    *)
(***************************************************************************)
\* Uniting i with every member of a set of nodes.
UniteAll(R, i) == FoldLeft(LAMBDA p, r : Union(p, r, i), parent, SetToSeq(R))

LEMMA UnionSetFacts ==
    ASSUME DetectCount, NEW i \in DOMAIN anomalies, NEW f, NEW d, Rooted(parent, DOMAIN anomalies, f, d),
           NEW R \in SUBSET DOMAIN anomalies
    PROVE  \E g, e :
               /\ Rooted(UniteAll(R, i), DOMAIN anomalies, g, e)
               /\ Coarser(f, g) /\ \A r \in R : g[r] = g[i]
               /\ \A T : Respects(f, T) /\ (\A r \in R : r \in T <=> i \in T) => Respects(g, T)
  <1>1. IsFiniteSet(R)
    <2>1. DOMAIN anomalies = 1..Len(anomalies) /\ Len(anomalies) \in Nat
      BY AnomalyFacts
    <2>2. IsFiniteSet(1..Len(anomalies))
      BY <2>1, FS_Interval
    <2> QED
      BY <2>1, <2>2, FS_Subset
  <1>2. PICK n, seq : n = Cardinality(R) /\ seq = SetToSeq(R)
    OBVIOUS
  <1>3. n \in Nat /\ seq \in [1..n -> R] /\ \A x \in R : \E m \in 1..n : seq[m] = x
    BY <1>1, <1>2, SetToSeqFacts
  <1>4. seq \in [1..n -> DOMAIN anomalies] /\ DOMAIN seq = 1..n /\ \A m \in 1..n : seq[m] \in R
    BY <1>3
  <1>5. PICK g, e : /\ Rooted(FoldLeft(LAMBDA p, j : Union(p, j, i), parent, seq), DOMAIN anomalies, g, e)
                    /\ United(g, f, i, seq)
    BY <1>3, <1>4, UnionFold
  <1>6. ASSUME NEW r \in R PROVE g[r] = g[i]
    <2>1. PICK m \in 1..n : seq[m] = r
      BY <1>3
    <2>2. g[seq[m]] = g[i]
      BY <1>4, <1>5 DEF United
    <2> QED
      BY <2>1, <2>2
  <1>7. ASSUME NEW T, Respects(f, T), \A r \in R : r \in T <=> i \in T PROVE Respects(g, T)
    BY <1>4, <1>5, <1>7 DEF United
  <1>8. Coarser(f, g)
    BY <1>5 DEF United
  <1> QED
    BY <1>2, <1>5, <1>6, <1>7, <1>8 DEF UniteAll

LEMMA AttachGroup ==
    ASSUME DetectInv, GroupInv, AttachMetrics
    PROVE  GroupInv'
  <1>0. DetectCount
    BY DEF DetectInv
  <1>1. /\ pc = "attach" /\ pc' = "attach" /\ k \in DOMAIN anomalies /\ k' = k + 1 /\ anomalies' = anomalies
        /\ logRoots' = logRoots /\ groups' = groups
    BY DEF AttachMetrics
  <1>2. PICK f, d : Rooted(parent, DOMAIN anomalies, f, d) /\ Sound(f) /\ Linked(f) /\ Hosted(f)
    BY <1>1 DEF GroupInv, Detecting
  <1>3. /\ k \in Nat /\ Logs \subseteq Nat /\ Metrics \subseteq Nat
        /\ Logs \subseteq DOMAIN anomalies /\ Metrics \subseteq DOMAIN anomalies /\ Logs \cap Metrics = {}
        /\ \A s : LogsOf(s) \subseteq DOMAIN anomalies
        /\ \A i \in DOMAIN anomalies : anomalies[i].service \in Service
    BY <1>0, <1>1, AnomalyFacts DEF LogsOf
  <1>4. /\ Logs' = Logs /\ Metrics' = Metrics
        /\ \A T : IncidentClosed(T)' <=> IncidentClosed(T)
        /\ \A g, i : LogLinked(g, i)' <=> LogLinked(g, i)
        /\ \A i : Anchor(i)' = Anchor(i)
        /\ \A s : LogsOf(s)' = LogsOf(s)
        /\ \A s : OneError(s)' <=> OneError(s)
    BY <1>1, SameAnomalies
  <1>5. DOMAIN f = DOMAIN anomalies
    BY <1>2 DEF Rooted
  <1>6. PICK s, R : s = anomalies[k].service /\ R = logRoots[s]
    OBVIOUS
  <1>7. /\ R \subseteq DOMAIN anomalies /\ (Host(R) <=> OneError(s))
        /\ \A l \in LogsOf(s) : \E r \in R : f[l] = f[r]
    BY <1>1, <1>2, <1>3, <1>6 DEF Hosted
  <1>8. parent' = IF k \in Metrics /\ Host(R)
                  THEN UniteAll(R, k) ELSE parent
    BY <1>6 DEF AttachMetrics, UniteAll
  <1>9. \E g, e : /\ Rooted(parent', DOMAIN anomalies, g, e)
                  /\ Coarser(f, g)
                  /\ k \in Metrics /\ OneError(s) => \A l \in LogsOf(s) : g[k] = g[l]
                  /\ \A T : IncidentClosed(T) => Respects(g, T)
    <2>1. CASE ~(k \in Metrics /\ Host(R))
      <3>1. Coarser(f, f)
        BY DEF Coarser
      <3> QED
        BY <1>2, <1>7, <1>8, <2>1, <3>1 DEF Sound
    <2>2. CASE k \in Metrics /\ Host(R)
      <3>1. PICK g, e :
               /\ Rooted(UniteAll(R, k), DOMAIN anomalies, g, e)
               /\ Coarser(f, g) /\ \A r \in R : g[r] = g[k]
               /\ \A T : Respects(f, T) /\ (\A r \in R : r \in T <=> k \in T) => Respects(g, T)
        BY <1>0, <1>1, <1>2, <1>7, UnionSetFacts
      <3>2. ASSUME NEW l \in LogsOf(s) PROVE g[k] = g[l]
        <4>1. PICK r \in R : f[l] = f[r]
          BY <1>7
        <4>2. g[l] = g[r]
          BY <1>3, <1>5, <1>7, <3>1, <4>1 DEF Coarser
        <4> QED
          BY <3>1, <4>2
      <3>3. PICK l \in LogsOf(s) : LogsOf(s) \subseteq Errors(l)
        BY <1>7, <2>2 DEF OneError
      <3>4. SameIncident(k, l)
        BY <1>6, <2>2, <3>3 DEF SameIncident
      <3>5. \A x, y \in R : x = y
        <4>1. IsFiniteSet(R)
          <5>1. DOMAIN anomalies = 1..Len(anomalies) /\ Len(anomalies) \in Nat
            BY <1>0, AnomalyFacts
          <5>2. IsFiniteSet(1..Len(anomalies))
            BY <5>1, FS_Interval
          <5> QED
            BY <1>7, <5>1, <5>2, FS_Subset
        <4> QED
          BY <2>2, <4>1, HostIs
      <3>6. ASSUME NEW T, IncidentClosed(T) PROVE Respects(g, T)
        <4>1. Respects(f, T)
          BY <1>2, <3>6 DEF Sound
        <4>2. k \in T <=> l \in T
          BY <1>1, <1>3, <3>3, <3>4, <3>6 DEF IncidentClosed
        <4>3. PICK r \in R : f[l] = f[r]
          BY <1>7
        <4>4. r \in T <=> l \in T
          BY <1>3, <1>5, <1>7, <4>1, <4>3 DEF Respects
        <4>5. \A x \in R : x \in T <=> k \in T
          BY <3>5, <4>2, <4>3, <4>4
        <4> QED
          BY <3>1, <4>1, <4>5
      <3> QED
        BY <1>8, <2>2, <3>1, <3>2, <3>6
    <2> QED
      BY <2>1, <2>2
  <1>10. PICK g, e : /\ Rooted(parent', DOMAIN anomalies, g, e)
                     /\ Coarser(f, g)
                     /\ k \in Metrics /\ OneError(s) => \A l \in LogsOf(s) : g[k] = g[l]
                     /\ \A T : IncidentClosed(T) => Respects(g, T)
    BY <1>9
  <1>11. \A i, j \in DOMAIN anomalies : f[i] = f[j] => g[i] = g[j]
    BY <1>5, <1>10 DEF Coarser
  <1>12. /\ \A i \in Logs : LogLinked(g, i)
         /\ \A i \in Metrics : g[i] = g[Anchor(i)]
    <2>1. /\ \A i \in Logs : LogLinked(f, i)
          /\ \A i \in Metrics : f[i] = f[Anchor(i)]
      BY <1>1, <1>2 DEF Linked
    <2> QED
      BY <1>0, <1>5, <1>10, <2>1, CoarserKeeps
  <1>13. ASSUME NEW i \in Metrics, i < k + 1, OneError(anomalies[i].service),
                NEW l \in LogsOf(anomalies[i].service)
         PROVE  g[i] = g[l]
    <2>1. CASE i = k
      BY <1>6, <1>10, <1>13, <2>1
    <2>2. CASE i # k
      <3>1. i < k
        BY <1>3, <1>13, <2>2
      <3>2. f[i] = f[l]
        BY <1>1, <1>2, <1>13, <3>1 DEF Hosted
      <3> QED
        BY <1>3, <1>11, <3>2
    <2> QED
      BY <2>1, <2>2
  <1>14. ASSUME NEW q \in Service
         PROVE  /\ logRoots[q] \subseteq DOMAIN anomalies
                /\ Host(logRoots[q]) <=> OneError(q)
                /\ \A l \in LogsOf(q) : \E r \in logRoots[q] : g[l] = g[r]
    <2>1. /\ logRoots[q] \subseteq DOMAIN anomalies
          /\ Host(logRoots[q]) <=> OneError(q)
          /\ \A l \in LogsOf(q) : \E r \in logRoots[q] : f[l] = f[r]
      BY <1>1, <1>2 DEF Hosted
    <2> QED
      BY <1>3, <1>11, <2>1
  <1>15. Sound(g)' /\ Linked(g)' /\ Hosted(g)' /\ Collected(g)'
    <2>1. Sound(g)'
      BY <1>1, <1>4, <1>10 DEF Sound
    <2>2. Linked(g)'
      BY <1>1, <1>4, <1>12 DEF Linked
    <2>3. Hosted(g)'
      BY <1>1, <1>4, <1>13, <1>14 DEF Hosted, Host
    <2> QED
      BY <1>1, <2>1, <2>2, <2>3 DEF Collected
  <1>16. Rooted(parent', DOMAIN anomalies', g, e)
    BY <1>1, <1>10
  <1> QED
    BY <1>1, <1>15, <1>16 DEF GroupInv, Detecting

LEMMA CollectGroups ==
    ASSUME DetectInv, GroupInv, Collect
    PROVE  GroupInv'
  <1>0. DetectCount
    BY DEF DetectInv
  <1>1. /\ pc = "attach" /\ pc' = "done" /\ k \notin DOMAIN anomalies /\ k' = k /\ anomalies' = anomalies
        /\ parent' = FoldLeft(Compress, parent, Sorted(DOMAIN anomalies))
        /\ groups' = {{i \in DOMAIN anomalies : Root(parent, i) = r} : r \in {Root(parent, i) : i \in DOMAIN anomalies}}
        /\ logRoots' = logRoots
    BY DEF Collect
  <1>2. PICK f, d : Rooted(parent, DOMAIN anomalies, f, d) /\ Sound(f) /\ Linked(f) /\ Hosted(f)
    BY <1>1 DEF GroupInv, Detecting
  <1>3. /\ k \in Nat \ {0} /\ DOMAIN anomalies = 1..Len(anomalies) /\ Len(anomalies) \in Nat
        /\ Metrics \subseteq DOMAIN anomalies
    BY <1>0, AnomalyFacts DEF DetectInv, DetectPlaces
  <1>4. /\ Logs' = Logs /\ Metrics' = Metrics
        /\ \A T : IncidentClosed(T)' <=> IncidentClosed(T)
        /\ \A g, i : LogLinked(g, i)' <=> LogLinked(g, i)
        /\ \A i : Anchor(i)' = Anchor(i)
        /\ \A s : LogsOf(s)' = LogsOf(s)
        /\ \A s : OneError(s)' <=> OneError(s)
    BY <1>1, SameAnomalies
  <1>5. \A i \in Metrics : i < k
    BY <1>1, <1>3
  <1>6. Rooted(parent', DOMAIN anomalies', f, d)
    <2>1. PICK D : D = DOMAIN anomalies
      OBVIOUS
    <2>2. Cardinality(D) \in Nat /\ Sorted(D) \in [1..Cardinality(D) -> D]
      BY <1>3, <2>1, SortedFacts
    <2>3. Rooted(FoldLeft(Compress, parent, Sorted(D)), D, f, d)
      BY <1>2, <2>1, <2>2, CompressFold
    <2> QED
      BY <1>1, <2>1, <2>3
  <1>7. groups' = Trees(f, DOMAIN anomalies)
    <2> DEFINE A(r) == {i \in DOMAIN anomalies : Root(parent, i) = r}
               B(r) == {i \in DOMAIN anomalies : f[i] = r}
    <2>1. \A i \in DOMAIN anomalies : Root(parent, i) = f[i]
      BY <1>2, RootIs
    <2>2. {Root(parent, i) : i \in DOMAIN anomalies} = {f[i] : i \in DOMAIN anomalies}
      BY <2>1
    <2>3. \A r : A(r) = B(r)
      BY <2>1
    <2>4. groups' = {A(r) : r \in {f[i] : i \in DOMAIN anomalies}}
      BY <1>1, <2>2
    <2>5. Trees(f, DOMAIN anomalies) = {B(r) : r \in {f[i] : i \in DOMAIN anomalies}}
      BY DEF Trees
    <2> HIDE DEF A, B
    <2> QED
      BY <2>3, <2>4, <2>5
  <1>8. Sound(f)' /\ Linked(f)' /\ Hosted(f)' /\ Collected(f)'
    <2>1. Sound(f)'
      BY <1>1, <1>2, <1>4 DEF Sound
    <2>2. Linked(f)'
      BY <1>1, <1>2, <1>4 DEF Linked
    <2>3. Hosted(f)'
      BY <1>1, <1>2, <1>4, <1>5 DEF Hosted, Host
    <2>4. Collected(f)'
      BY <1>1, <1>7 DEF Collected
    <2> QED
      BY <2>1, <2>2, <2>3, <2>4
  <1> QED
    BY <1>1, <1>6, <1>8 DEF GroupInv, Detecting

-----------------------------------------------------------------------------
(***************************************************************************)
(* The inductive invariant.                                                *)
(***************************************************************************)
PipelineInv == DetectInv /\ GroupInv

LEMMA PipelineStutter ==
    ASSUME PipelineInv, UNCHANGED vars
    PROVE  PipelineInv'
  <1>1. /\ signals' = signals /\ rules' = rules /\ pc' = pc /\ k' = k /\ suppressed' = suppressed
        /\ broken' = broken /\ anomalies' = anomalies /\ parent' = parent /\ logRoots' = logRoots /\ groups' = groups
    BY DEF vars
  <1>2. /\ SignalsOK' <=> SignalsOK
        /\ Suppressed' = Suppressed
        /\ \A i, d : Due(i, d)' <=> Due(i, d)
        /\ \A x, i : About(x, i)' <=> About(x, i)
    BY <1>1, SameSignals
  <1>3. Detecting' <=> Detecting
    BY <1>1 DEF Detecting
  <1>4. Ran' = Ran
    BY <1>1, <1>3 DEF Ran
  <1>5. DetectPlaces' /\ DetectCount' /\ DetectFound'
    <2>1. DetectPlaces'
      BY <1>1, <1>2, <1>3 DEF PipelineInv, DetectInv, DetectPlaces
    <2>2. DetectCount'
      BY <1>1, <1>3 DEF PipelineInv, DetectInv, DetectCount
    <2>3. DetectFound'
      BY <1>1, <1>2, <1>4 DEF PipelineInv, DetectInv, DetectFound
    <2> QED
      BY <2>1, <2>2, <2>3
  <1>6. GroupInv'
    <2>1. CASE Detecting
      BY <1>1, <1>3, <2>1 DEF PipelineInv, GroupInv
    <2>2. CASE ~Detecting
      <3>1. PICK f, d : /\ Rooted(parent, DOMAIN anomalies, f, d)
                        /\ Sound(f) /\ Linked(f) /\ Hosted(f) /\ Collected(f)
        BY <2>2 DEF PipelineInv, GroupInv
      <3>2. /\ Logs' = Logs /\ Metrics' = Metrics
            /\ \A T : LogClosed(T)' <=> LogClosed(T)
            /\ \A T : IncidentClosed(T)' <=> IncidentClosed(T)
            /\ \A i : LogLinked(f, i)' <=> LogLinked(f, i)
            /\ \A i : Anchor(i)' = Anchor(i)
            /\ \A s : LogsOf(s)' = LogsOf(s)
            /\ \A s : OneError(s)' <=> OneError(s)
        BY <1>1, SameAnomalies
      <3>3. Sound(f)'
        BY <1>1, <3>1, <3>2 DEF Sound
      <3>4. Linked(f)'
        BY <1>1, <3>1, <3>2 DEF Linked
      <3>5. Hosted(f)'
        BY <1>1, <3>1, <3>2 DEF Hosted, Host
      <3>6. Collected(f)'
        BY <1>1, <3>1 DEF Collected
      <3>7. Rooted(parent', DOMAIN anomalies', f, d)
        BY <1>1, <3>1
      <3> QED
        BY <1>1, <1>3, <2>2, <3>3, <3>4, <3>5, <3>6, <3>7 DEF PipelineInv, GroupInv
    <2> QED
      BY <2>1, <2>2
  <1> QED
    BY <1>5, <1>6 DEF PipelineInv, DetectInv

LEMMA PipelineStep ==
    ASSUME PipelineInv, [Next]_vars
    PROVE  PipelineInv'
  <1>0. DetectInv /\ GroupInv
    BY DEF PipelineInv
  <1>1. CASE L0Suppress
    BY <1>0, <1>1, SuppressDetects, DetectGroups DEF PipelineInv
  <1>2. CASE L1Detect
    BY <1>0, <1>2, DetectDetects, DetectGroups DEF PipelineInv
  <1>3. CASE BeginGrouping
    BY <1>0, <1>3, GroupingDetects, BeginGroups DEF PipelineInv
  <1>4. CASE LinkLogs
    BY <1>0, <1>4, GroupingDetects, LogsGroup DEF PipelineInv
  <1>5. CASE NextLoop
    BY <1>0, <1>5, GroupingDetects, NextLoopGroups DEF PipelineInv
  <1>6. CASE LinkMetrics
    BY <1>0, <1>6, GroupingDetects, MetricsGroup DEF PipelineInv
  <1>7. CASE LogRoots
    BY <1>0, <1>7, GroupingDetects, LogRootsGroup DEF PipelineInv
  <1>8. CASE AttachMetrics
    BY <1>0, <1>8, GroupingDetects, AttachGroup DEF PipelineInv
  <1>9. CASE Collect
    BY <1>0, <1>9, GroupingDetects, CollectGroups DEF PipelineInv
  <1>10. CASE UNCHANGED vars
    BY <1>10, PipelineStutter
  <1> QED
    BY <1>1, <1>2, <1>3, <1>4, <1>5, <1>6, <1>7, <1>8, <1>9, <1>10 DEF Next

\* The forest and what the loops of grouping.py have joined so far are as PipelineInv says
\* in every state of a round.
THEOREM PipelineInvariant == Spec => []PipelineInv
  <1>1. Init => PipelineInv
    BY DetectInit, GroupInit DEF PipelineInv
  <1>2. PipelineInv /\ [Next]_vars => PipelineInv'
    BY PipelineStep
  <1> QED
    BY <1>1, <1>2, PTL DEF Spec

LEMMA PipelineTypeOK == PipelineInv => TypeOK
  <1> SUFFICES ASSUME PipelineInv PROVE TypeOK
    OBVIOUS
  <1>0. DetectPlaces /\ DetectCount /\ GroupInv
    BY DEF PipelineInv, DetectInv
  <1>1. MaxSignals \in Nat /\ Len(Detectors) \in Nat
    BY PipelineAssumption
  <1>2. k \in 1..(MaxSignals * Len(Detectors) + Len(Detectors) + 1)
    <2>1. PICK a : a = MaxSignals * Len(Detectors)
      OBVIOUS
    <2>2. a \in Nat
      BY <1>1, <2>1, Products
    <2>3. k \in Nat \ {0} /\ Len(anomalies) \in Nat
      BY <1>0, AnomalyFacts DEF DetectPlaces
    <2>4. CASE Detecting
      <3>1. k <= Len(Detectors) + 1
        BY <1>0, <2>4 DEF DetectPlaces
      <3>2. k <= a + Len(Detectors) + 1
        BY <1>1, <2>2, <2>3, <3>1
      <3> QED
        BY <1>1, <2>1, <2>2, <2>3, <3>2
    <2>5. CASE ~Detecting
      <3>1. k <= Len(anomalies) + 1 /\ Len(anomalies) <= a
        BY <1>0, <2>1, <2>5 DEF DetectCount
      <3>2. k <= a + Len(Detectors) + 1
        BY <1>1, <2>2, <2>3, <3>1
      <3> QED
        BY <1>1, <2>1, <2>2, <2>3, <3>2
    <2> QED
      BY <2>4, <2>5
  <1>3. suppressed \subseteq DOMAIN signals
    BY <1>0 DEF DetectPlaces, Suppressed
  <1>4. /\ DOMAIN parent \subseteq DOMAIN anomalies
        /\ \A i \in DOMAIN parent : parent[i] \in DOMAIN parent
    <2>1. CASE Detecting
      <3>1. parent = <<>>
        BY <1>0, <2>1 DEF GroupInv
      <3>2. DOMAIN parent = {}
        BY <3>1
      <3> QED
        BY <3>2
    <2>2. CASE ~Detecting
      <3>1. PICK f, d : Rooted(parent, DOMAIN anomalies, f, d)
        BY <1>0, <2>2 DEF GroupInv
      <3>2. parent \in [DOMAIN anomalies -> DOMAIN anomalies]
        BY <3>1 DEF Rooted
      <3> QED
        BY <3>2
    <2> QED
      BY <2>1, <2>2
  <1>5. \A s \in Service : logRoots[s] \subseteq DOMAIN anomalies
    <2>1. CASE pc \in {"attach", "done"}
      BY <1>0, <2>1 DEF GroupInv, Detecting, Hosted
    <2>2. CASE pc \notin {"attach", "done"}
      BY <1>0, <2>2 DEF GroupInv
    <2> QED
      BY <2>1, <2>2
  <1>6. groups \subseteq SUBSET DOMAIN anomalies
    <2>1. CASE pc = "done"
      <3>1. PICK f : groups = Trees(f, DOMAIN anomalies)
        BY <1>0, <2>1 DEF GroupInv, Detecting, Collected
      <3> QED
        BY <3>1 DEF Trees
    <2>2. CASE pc # "done"
      BY <1>0, <2>2 DEF GroupInv
    <2> QED
      BY <2>1, <2>2
  <1> QED
    BY <1>0, <1>2, <1>3, <1>4, <1>5, <1>6 DEF TypeOK, DetectPlaces

\* Every variable of a round is of its type, whatever the signals, the rules and the
\* detectors are: find only ever meets nodes of the forest, and no loop of l1_detect and
\* group_anomalies passes its end.
THEOREM PipelineTypes == Spec => []TypeOK
  BY PipelineInvariant, PipelineTypeOK, PTL

-----------------------------------------------------------------------------
(***************************************************************************)
(* The incidents.                                                          *)
(***************************************************************************)
\* At the end the rules lead from an anomaly to no other tree.
LEMMA IncidentsAreTrees ==
    ASSUME DetectCount, pc = "done", NEW f, Linked(f), Hosted(f)
    PROVE  \A i, j \in DOMAIN anomalies : SameIncident(i, j) => f[i] = f[j]
  <1> SUFFICES ASSUME NEW i \in DOMAIN anomalies, NEW j \in DOMAIN anomalies, SameIncident(i, j)
               PROVE  f[i] = f[j]
    OBVIOUS
  <1>1. CASE i \in Logs /\ j \in Logs /\ SameError(i, j)
    <2>1. \A x \in Logs : LogLinked(f, x)
      BY DEF Linked
    <2> QED
      BY <1>1, <2>1, ErrorsAreTrees
  <1>2. CASE i \in Metrics /\ j \in Metrics /\ anomalies[i].service = anomalies[j].service
    <2>1. Anchor(i) = Anchor(j)
      BY <1>2 DEF Anchor
    <2>2. f[i] = f[Anchor(i)] /\ f[j] = f[Anchor(j)]
      BY <1>2 DEF Linked
    <2> QED
      BY <2>1, <2>2
  <1>3. CASE /\ i \in Metrics /\ j \in LogsOf(anomalies[i].service)
             /\ LogsOf(anomalies[i].service) \subseteq Errors(j)
    <2>1. OneError(anomalies[i].service)
      BY <1>3 DEF OneError
    <2> QED
      BY <1>3, <2>1 DEF Hosted
  <1> QED
    BY <1>1, <1>2, <1>3 DEF SameIncident

\* The trees are the components.
Incident(i, D) == Component(i, D, SameIncident)

LEMMA TreesAreComponents ==
    ASSUME NEW D, NEW f, DOMAIN f = D, NEW i \in D,
           \A x, y \in D : SameIncident(x, y) => f[x] = f[y],
           \A T \in SUBSET D :
               (\A a \in T, b \in D : SameIncident(a, b) \/ SameIncident(b, a) => b \in T) => Respects(f, T)
    PROVE  Incident(i, D) = {j \in D : f[j] = f[i]}
  <1> DEFINE T == {j \in D : f[j] = f[i]}
             Closed(U) == \A a \in U, b \in D : SameIncident(a, b) \/ SameIncident(b, a) => b \in U
             C == {j \in D : \A U \in SUBSET D : i \in U /\ Closed(U) => j \in U}
  <1>1. Incident(i, D) = C
    BY DEF Incident, Component
  <1>2. T \in SUBSET D /\ i \in T /\ Closed(T)
    OBVIOUS
  <1>3. C \subseteq T
    <2> HIDE DEF T, Closed
    <2> QED
      BY <1>2
  <1>4. ASSUME NEW j \in T PROVE j \in C
    <2>1. ASSUME NEW U \in SUBSET D, i \in U, Closed(U) PROVE j \in U
      <3>1. Respects(f, U)
        BY <2>1
      <3> QED
        BY <2>1, <3>1 DEF Respects
    <2> HIDE DEF Closed
    <2> QED
      BY <2>1
  <1> QED
    BY <1>1, <1>3, <1>4

LEMMA ComponentsAtEnd ==
    ASSUME PipelineInv, pc = "done"
    PROVE  \E f : /\ DOMAIN f = DOMAIN anomalies /\ groups = Trees(f, DOMAIN anomalies)
                  /\ \A i, j \in DOMAIN anomalies : SameIncident(i, j) => f[i] = f[j]
                  /\ \A T : IncidentClosed(T) => Respects(f, T)
  <1>1. PICK f, d : /\ Rooted(parent, DOMAIN anomalies, f, d)
                    /\ Sound(f) /\ Linked(f) /\ Hosted(f) /\ Collected(f)
    BY DEF PipelineInv, GroupInv, Detecting
  <1>2. DOMAIN f = DOMAIN anomalies
    BY <1>1 DEF Rooted
  <1>3. \A i, j \in DOMAIN anomalies : SameIncident(i, j) => f[i] = f[j]
    BY <1>1, IncidentsAreTrees DEF PipelineInv, DetectInv
  <1>4. groups = Trees(f, DOMAIN anomalies) /\ \A T : IncidentClosed(T) => Respects(f, T)
    BY <1>1 DEF Collected, Sound
  <1> QED
    BY <1>2, <1>3, <1>4

LEMMA PipelineComponents == PipelineInv => IncidentsAreComponents
  <1> SUFFICES ASSUME PipelineInv, pc = "done"
               PROVE  groups = {Incident(i, DOMAIN anomalies) : i \in DOMAIN anomalies}
    BY DEF IncidentsAreComponents, Incident
  <1>1. PICK f : /\ DOMAIN f = DOMAIN anomalies /\ groups = Trees(f, DOMAIN anomalies)
                 /\ \A i, j \in DOMAIN anomalies : SameIncident(i, j) => f[i] = f[j]
                 /\ \A T : IncidentClosed(T) => Respects(f, T)
    BY ComponentsAtEnd
  <1>2. PICK D : D = DOMAIN anomalies
    OBVIOUS
  <1> DEFINE E(i) == {j \in D : f[j] = f[i]}
  <1>3. \A T \in SUBSET D :
            (\A a \in T, b \in D : SameIncident(a, b) \/ SameIncident(b, a) => b \in T) => Respects(f, T)
    BY <1>1, <1>2 DEF IncidentClosed
  <1>4. \A i \in D : Incident(i, D) = E(i)
    BY <1>1, <1>2, <1>3, TreesAreComponents
  <1>5. Trees(f, D) = {E(i) : i \in D}
    BY DEF Trees
  <1>6. groups = {Incident(i, D) : i \in D}
    <2> HIDE DEF E
    <2> QED
      BY <1>1, <1>2, <1>4, <1>5
  <1> QED
    BY <1>2, <1>6

\* grouping.py:3-10 for every list of anomalies in every order: what the union-find of
\* group_anomalies ends with is the partition into the connected components of its rules.
THEOREM IncidentsAreTheComponents == Spec => []IncidentsAreComponents
  BY PipelineInvariant, PipelineComponents, PTL

\* Anomalies about one signal are of one incident.
LEMMA OneSignalOneTree ==
    ASSUME DetectCount, NEW a \in DOMAIN anomalies, NEW b \in DOMAIN anomalies, NEW i,
           About(anomalies[a], i), About(anomalies[b], i)
    PROVE  SameIncident(a, b)
  <1>1. /\ anomalies[a].kind = anomalies[b].kind /\ anomalies[a].service = anomalies[b].service
        /\ anomalies[a].kind = "log" => anomalies[a].name = anomalies[b].name
    BY DEF About
  <1>2. CASE anomalies[a].kind = "log"
    <2>1. a \in Logs /\ b \in Logs
      BY <1>1, <1>2 DEF Logs
    <2> QED
      BY <1>1, <1>2, <2>1 DEF SameIncident, SameError
  <1>3. CASE anomalies[a].kind = "metric"
    <2>1. a \in Metrics /\ b \in Metrics
      BY <1>1, <1>3 DEF Metrics
    <2> QED
      BY <1>1, <2>1 DEF SameIncident
  <1> QED
    BY <1>2, <1>3, AnomalyFacts

LEMMA PipelineSignals == PipelineInv => EverySignalOnce
  <1> DEFINE Of(i) == {g \in groups : \E a \in g : i \in anomalies[a].from}
             IsDue(i) == \E d \in DOMAIN Detectors \ broken : Due(i, d)
  <1> SUFFICES ASSUME PipelineInv, pc = "done", NEW i \in DOMAIN signals
               PROVE  Cardinality(Of(i)) = IF IsDue(i) THEN 1 ELSE 0
    BY DEF EverySignalOnce
  <1>0. DetectCount /\ DetectFound
    BY DEF PipelineInv, DetectInv
  <1>1. PICK f : /\ DOMAIN f = DOMAIN anomalies /\ groups = Trees(f, DOMAIN anomalies)
                 /\ \A a, b \in DOMAIN anomalies : SameIncident(a, b) => f[a] = f[b]
    BY ComponentsAtEnd
  <1>2. DOMAIN anomalies = 1..Len(anomalies)
    BY <1>0, AnomalyFacts
  <1>3. Ran = DOMAIN Detectors \ broken
    BY DEF Ran, Detecting
  <1>4. ASSUME NEW a \in DOMAIN anomalies, i \in anomalies[a].from PROVE About(anomalies[a], i) /\ IsDue(i)
    BY <1>0, <1>2, <1>3, <1>4 DEF DetectFound
  <1>5. \A g \in groups : g \subseteq DOMAIN anomalies /\ \A a \in g : g = {b \in DOMAIN anomalies : f[b] = f[a]}
    BY <1>1 DEF Trees
  <1>6. CASE ~IsDue(i)
    <2>1. Of(i) = {}
      BY <1>4, <1>5, <1>6
    <2> HIDE DEF Of, IsDue
    <2> QED
      BY <1>6, <2>1, FS_EmptySet
  <1>7. CASE IsDue(i)
    <2>1. PICK a \in DOMAIN anomalies : i \in anomalies[a].from
      BY <1>0, <1>2, <1>3, <1>7 DEF DetectFound
    <2>2. PICK h : h = {b \in DOMAIN anomalies : f[b] = f[a]}
      OBVIOUS
    <2>3. h \in groups /\ a \in h
      BY <1>1, <2>1, <2>2 DEF Trees
    <2>4. ASSUME NEW g \in Of(i) PROVE g = h
      <3>1. PICK b \in g : i \in anomalies[b].from
        OBVIOUS
      <3>2. b \in DOMAIN anomalies /\ g = {c \in DOMAIN anomalies : f[c] = f[b]}
        BY <1>5
      <3>3. About(anomalies[a], i) /\ About(anomalies[b], i)
        BY <1>4, <2>1, <3>1, <3>2
      <3>4. SameIncident(a, b)
        BY <1>0, <2>1, <3>2, <3>3, OneSignalOneTree
      <3>5. f[a] = f[b]
        BY <1>1, <2>1, <3>2, <3>4
      <3> QED
        BY <2>2, <3>2, <3>5
    <2>5. Of(i) = {h}
      BY <2>1, <2>3, <2>4
    <2> HIDE DEF Of, IsDue
    <2> QED
      BY <1>7, <2>5, FS_Singleton
  <1> QED
    BY <1>6, <1>7

\* For every list of signals, set of rules, list of detectors, min_count and choice of the
\* detectors that raise: from l0_suppress to the incidents no signal that is due gets lost,
\* none is in two incidents, and none that is hidden or too rare is in one.
THEOREM EverySignalIsInOneIncident == Spec => []EverySignalOnce
  BY PipelineInvariant, PipelineSignals, PTL

-----------------------------------------------------------------------------
(***************************************************************************)
(* L3.                                                                     *)
(***************************************************************************)
\* Anomalies of some severities have one of the worst.
LEMMA WorstExists ==
    ASSUME NEW S, S # {}, NEW sev \in [S -> Severity]
    PROVE  \E i \in S : \A j \in S : Rank[sev[j]] <= Rank[sev[i]]
  <1>1. Rank["warning"] = 0 /\ Rank["high"] = 1 /\ Rank["critical"] = 2
    BY DEF Rank
  <1>2. CASE \E i \in S : sev[i] = "critical"
    BY <1>1, <1>2 DEF Severity
  <1>3. CASE (\A i \in S : sev[i] # "critical") /\ \E i \in S : sev[i] = "high"
    BY <1>1, <1>3 DEF Severity
  <1>4. CASE \A i \in S : sev[i] = "warning"
    BY <1>1, <1>4
  <1> QED
    BY <1>2, <1>3, <1>4 DEF Severity

\* An incident with a metric and a log of one service has all the logs of that service.
LEMMA PairHasItsLogs ==
    ASSUME PipelineInv, pc = "done", NEW g \in groups,
           NEW m \in g \cap Metrics, NEW l \in g \cap Logs, anomalies[m].service = anomalies[l].service
    PROVE  LogsOf(anomalies[l].service) \subseteq g
  <1>1. PICK f : /\ DOMAIN f = DOMAIN anomalies /\ groups = Trees(f, DOMAIN anomalies)
                 /\ \A i, j \in DOMAIN anomalies : SameIncident(i, j) => f[i] = f[j]
                 /\ \A T : IncidentClosed(T) => Respects(f, T)
    BY ComponentsAtEnd
  <1>2. /\ Logs \subseteq DOMAIN anomalies /\ Metrics \subseteq DOMAIN anomalies
        /\ Logs \cap Metrics = {}
    BY AnomalyFacts DEF PipelineInv, DetectInv
  <1>3. g = {i \in DOMAIN anomalies : f[i] = f[m]} /\ f[l] = f[m]
    BY <1>1 DEF Trees
  <1>4. PICK s : s = anomalies[l].service
    OBVIOUS
  <1>5. OneError(s)
    <2> SUFFICES ASSUME ~OneError(s) PROVE FALSE
      OBVIOUS
    <2>1. PICK T : T = {i \in Metrics : anomalies[i].service = s}
      OBVIOUS
    <2>2. ASSUME NEW a \in T, NEW b \in DOMAIN anomalies, SameIncident(a, b) \/ SameIncident(b, a)
          PROVE  b \in T
      <3>1. a \in Metrics /\ a \notin Logs /\ anomalies[a].service = s /\ a \notin LogsOf(anomalies[b].service)
        BY <1>2, <2>1 DEF LogsOf
      <3>2. ~(b \in LogsOf(s) /\ LogsOf(s) \subseteq Errors(b))
        BY DEF OneError
      <3>3. b \in Metrics /\ anomalies[b].service = s
        BY <2>2, <3>1, <3>2 DEF SameIncident
      <3> QED
        BY <2>1, <3>3
    <2>3. IncidentClosed(T)
      BY <1>2, <2>1, <2>2 DEF IncidentClosed
    <2>4. m \in T /\ l \notin T
      BY <1>2, <1>4, <2>1
    <2> QED
      BY <1>1, <1>2, <1>3, <2>3, <2>4 DEF Respects
  <1>6. PICK j \in LogsOf(s) : LogsOf(s) \subseteq Errors(j)
    BY <1>5 DEF OneError
  <1>7. j \in Logs /\ j \in DOMAIN anomalies /\ SameIncident(m, j)
    BY <1>2, <1>4, <1>6 DEF LogsOf, SameIncident
  <1>8. f[j] = f[m]
    BY <1>1, <1>2, <1>7
  <1>9. PICK U : U = {x \in Logs : f[x] = f[j]}
    OBVIOUS
  <1>10. ASSUME NEW a \in U, NEW b \in Logs, SameError(a, b) \/ SameError(b, a) PROVE b \in U
    <2>1. a \in Logs /\ f[a] = f[j]
      BY <1>9
    <2>2. SameIncident(a, b) \/ SameIncident(b, a)
      BY <1>10, <2>1 DEF SameIncident
    <2>3. f[a] = f[b]
      BY <1>1, <1>2, <2>1, <2>2
    <2> QED
      BY <1>9, <2>1, <2>3
  <1>11. Errors(j) \subseteq U
    BY <1>7, <1>9, <1>10 DEF Errors, Component
  <1>12. ASSUME NEW i \in LogsOf(s) PROVE i \in g
    BY <1>2, <1>3, <1>6, <1>8, <1>9, <1>11, <1>12
  <1> QED
    BY <1>4, <1>12

LEMMA PipelineUpgrade == PipelineInv => UpgradeHasItsPair
  <1> SUFFICES ASSUME PipelineInv, pc = "done", NEW g \in groups, NEW persisted \in SUBSET g, persisted # {},
                      CalibrateSeverity(persisted, WithinWindow(g)) = "critical"
               PROVE  \/ \E i \in persisted : anomalies[i].severity = "critical"
                      \/ \E m \in g \cap Metrics, l \in g \cap Logs :
                             /\ anomalies[m].service = anomalies[l].service
                             /\ Near(m, l) /\ LogsOf(anomalies[l].service) \subseteq g
    BY DEF UpgradeHasItsPair
  <1>0. DetectCount /\ DetectFound
    BY DEF PipelineInv, DetectInv
  <1>1. persisted \subseteq DOMAIN anomalies
    <2>1. PICK f : groups = Trees(f, DOMAIN anomalies)
      BY ComponentsAtEnd
    <2> QED
      BY <2>1 DEF Trees
  <1>2. DOMAIN anomalies = 1..Len(anomalies)
    BY <1>0, AnomalyFacts
  <1>3. \A i \in persisted : \E d \in DOMAIN Detectors : anomalies[i].severity = Detectors[d].severity
    BY <1>0, <1>1, <1>2 DEF DetectFound
  <1>4. \A i \in persisted : anomalies[i].severity \in Severity
    BY <1>3, PipelineAssumption DEF Severity
  <1>5. CASE WithinWindow(g)
    <2>1. PICK m \in g \cap Metrics, l \in g \cap Logs :
              anomalies[m].service = anomalies[l].service /\ Near(m, l)
      BY <1>5 DEF WithinWindow
    <2>2. LogsOf(anomalies[l].service) \subseteq g
      BY <2>1, PairHasItsLogs
    <2> QED
      BY <2>1, <2>2
  <1>6. CASE ~WithinWindow(g)
    <2>1. PICK top : top = CHOOSE i \in persisted :
                         \A j \in persisted : Rank[anomalies[j].severity] <= Rank[anomalies[i].severity]
      OBVIOUS
    <2>2. anomalies[top].severity = "critical"
      BY <1>6, <2>1 DEF CalibrateSeverity
    <2>3. \E i \in persisted : \A j \in persisted : Rank[anomalies[j].severity] <= Rank[anomalies[i].severity]
      <3>1. PICK sev : sev = [i \in persisted |-> anomalies[i].severity]
        OBVIOUS
      <3>2. sev \in [persisted -> Severity] /\ \A i \in persisted : sev[i] = anomalies[i].severity
        BY <1>4, <3>1
      <3>3. \E i \in persisted : \A j \in persisted : Rank[sev[j]] <= Rank[sev[i]]
        BY <3>2, WorstExists
      <3> QED
        BY <3>2, <3>3
    <2>4. top \in persisted
      BY <2>1, <2>3
    <2> QED
      BY <2>2, <2>4
  <1> QED
    BY <1>5, <1>6

\* grouping.py:9-10 with l2_correlate.py:27-30 for every round and every choice of the
\* anomalies that persist: an incident is upgraded to critical only when one of its services
\* has a metric near a log and all of that service's logs are in the incident.
THEOREM UpgradeNeedsItsPair == Spec => []UpgradeHasItsPair
  BY PipelineInvariant, PipelineUpgrade, PTL
=============================================================================
