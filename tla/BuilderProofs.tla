--------------------------- MODULE BuilderProofs ---------------------------
(***************************************************************************)
(* TLAPS proofs about the graph builder, for every set of fingerprints and *)
(* digests, every FAMILY_MAX, every mix of gestures and human edits, and   *)
(* recordings of any length.                                               *)
(***************************************************************************)
EXTENDS GraphBuilder, FiniteSetTheorems, SequenceTheorems, WellFoundedInduction, TLAPS

(***************************************************************************)
(* Induction over sets of natural numbers.                                 *)
(***************************************************************************)
\* A set of naturals that is not empty has a least element.
LEMMA LeastNatural ==
  ASSUME NEW T \in SUBSET Nat, T # {}
  PROVE  \E x \in T : \A y \in T : x <= y
<1>1. \E R : IsWellFoundedOn(R, Nat) /\ \A x, y \in Nat : y < x => <<y, x>> \in R
  <2>1. IsWellFoundedOn(OpToRel(<, Nat), Nat)
    BY NatLessThanWellFounded
  <2>2. \A x, y \in Nat : y < x => <<y, x>> \in OpToRel(<, Nat)
    BY DEF OpToRel
  <2> QED
    BY <2>1, <2>2
<1>2. PICK R : IsWellFoundedOn(R, Nat) /\ \A x, y \in Nat : y < x => <<y, x>> \in R
  BY <1>1
<1>3. PICK x \in T : \A y \in T : ~(<<y, x>> \in R)
  BY <1>2, WFMin
<1>4. ASSUME NEW y \in T
      PROVE  x <= y
  <2>1. ~(<<y, x>> \in R)
    BY <1>3
  <2>2. x \in Nat /\ y \in Nat
    OBVIOUS
  <2>3. ~(y < x)
    BY <1>2, <2>1, <2>2
  <2> QED
    BY <2>2, <2>3
<1> QED
  BY <1>4

\* Induction, over a set: one that holds 0 and every successor of its own holds
\* every natural number.
LEMMA NatSetInduction ==
  ASSUME NEW S, 0 \in S, \A n \in Nat : n \in S => n + 1 \in S
  PROVE  Nat \subseteq S
<1> SUFFICES ASSUME Nat \ S # {} PROVE FALSE
  OBVIOUS
<1>1. PICK x \in Nat \ S : \A y \in Nat \ S : x <= y
  BY LeastNatural
<1>2. x # 0
  OBVIOUS
<1>3. x - 1 \in Nat /\ x - 1 \in S
  BY <1>1, <1>2
<1> QED
  BY <1>3

(***************************************************************************)
(* Edges and their trace: what a rename of nodes does to them, for graphs  *)
(* and renames of any size.                                                *)
(***************************************************************************)
\* Edge keys as the graph makes them: two nodes and an integer, finitely many.
KeysOK(graph) == /\ IsFiniteSet(DOMAIN graph)
                 /\ \A e \in DOMAIN graph : e = <<e[1], e[2], e[3]>> /\ e[3] \in Nat

\* The key of a new parallel edge is free.
LEMMA NewKeyFree ==
  ASSUME NEW graph, NEW u, NEW v, KeysOK(graph)
  PROVE  NewKey(graph, u, v) \in Nat /\ <<u, v, NewKey(graph, u, v)>> \notin DOMAIN graph
<1> DEFINE parallel == {e \in DOMAIN graph : e[1] = u /\ e[2] = v}
           taken == {e[3] : e \in parallel}
           n == Cardinality(taken)
<1>1. IsFiniteSet(taken) /\ n \in Nat /\ taken \subseteq Nat
  <2>1. IsFiniteSet(parallel)
    BY FS_Subset DEF KeysOK
  <2>2. [e \in parallel |-> e[3]] \in Surjection(parallel, taken)
    BY DEF Surjection
  <2>3. IsFiniteSet(taken)
    <3> HIDE DEF parallel, taken
    <3> QED
      BY <2>1, <2>2, FS_Surjection
  <2>4. taken \subseteq Nat
    BY DEF KeysOK
  <2> HIDE DEF taken
  <2> QED
    BY <2>3, <2>4, FS_CardinalityType
<1> HIDE DEF taken
<1>2. (n .. 2 * n) \ taken # {}
  <2> SUFFICES ASSUME n .. 2 * n \subseteq taken PROVE FALSE
    OBVIOUS
  <2>1. Cardinality(n .. 2 * n) = n + 1
    <3>1. n \in Int /\ 2 * n \in Int /\ ~(n > 2 * n) /\ (2 * n) - n + 1 = n + 1
      BY <1>1
    <3> HIDE DEF n
    <3> QED
      BY <3>1, FS_Interval
  <2>2. Cardinality(n .. 2 * n) <= n
    <3>1. n .. 2 * n \in SUBSET taken
      OBVIOUS
    <3> QED
      BY <1>1, <3>1, FS_Subset
  <2> QED
    BY <1>1, <2>1, <2>2
<1> HIDE DEF n
<1>3. PICK k \in (n .. 2 * n) \ taken : \A j \in (n .. 2 * n) \ taken : k <= j
  <2>1. (n .. 2 * n) \ taken \in SUBSET Nat
    BY <1>1
  <2> QED
    BY <1>2, <2>1, LeastNatural
<1>4. k \in n .. 2 * n /\ k \notin taken /\ \A j \in n .. k - 1 : j \in taken
  BY <1>1, <1>3
<1>5. NewKey(graph, u, v) = CHOOSE x \in n .. 2 * n : x \notin taken /\ \A j \in n .. x - 1 : j \in taken
  BY DEF NewKey, Keys, n, taken
<1>6. NewKey(graph, u, v) \in n .. 2 * n /\ NewKey(graph, u, v) \notin taken
  BY <1>4, <1>5
<1>7. ASSUME <<u, v, NewKey(graph, u, v)>> \in DOMAIN graph
      PROVE  FALSE
  BY <1>6, <1>7 DEF taken
<1> QED
  BY <1>1, <1>6, <1>7

(***************************************************************************)
(* The recursions of Redirect, RedirectAll and Terminal define functions.  *)
(***************************************************************************)
NoEdges == [e \in {} |-> e]

AddsAgain(f, graph, old, new, es, m) ==
  f = [i \in 0 .. m |-> IF i = 0 THEN [edges |-> graph, remap |-> NoEdges]
                        ELSE AddAgain(graph, old, new, f[i - 1], es[i])]

Redirects(f, graph, ids, ms, to, m) ==
  f = [i \in 0 .. m |-> IF i = 0 THEN [edges |-> graph, order |-> ids, remap |-> NoEdges]
                        ELSE RedirectNext(f[i - 1], ms[i], to[ms[i]])]

Hops(f, remap, e, m) ==
  f = [i \in 0 .. m |-> IF i = 0 THEN e ELSE Mapped(remap, f[i - 1])]

\* Adding edges again, one after the other, is defined.
LEMMA AddingIsDefined ==
  ASSUME NEW graph, NEW old, NEW new, NEW es, NEW m \in Nat
  PROVE  \E f : AddsAgain(f, graph, old, new, es, m)
<1> DEFINE S == {k \in Nat : \E f : AddsAgain(f, graph, old, new, es, k)}
<1>1. 0 \in S
  <2> DEFINE f == [i \in 0 .. 0 |-> [edges |-> graph, remap |-> NoEdges]]
  <2>1. f = [i \in 0 .. 0 |-> IF i = 0 THEN [edges |-> graph, remap |-> NoEdges] ELSE AddAgain(graph, old, new, f[i - 1], es[i])]
    OBVIOUS
  <2>2. AddsAgain(f, graph, old, new, es, 0)
    BY <2>1 DEF AddsAgain
  <2> QED
    BY <2>2
<1>2. ASSUME NEW k \in Nat, k \in S
      PROVE  k + 1 \in S
  <2>1. PICK f : AddsAgain(f, graph, old, new, es, k)
    BY <1>2
  <2> DEFINE h == [i \in 0 .. k + 1 |-> IF i = k + 1 THEN AddAgain(graph, old, new, f[k], es[k + 1]) ELSE f[i]]
  <2>2. ASSUME NEW i \in 0 .. k + 1
        PROVE  h[i] = IF i = 0 THEN [edges |-> graph, remap |-> NoEdges] ELSE AddAgain(graph, old, new, h[i - 1], es[i])
    <3>1. CASE i = k + 1
      <4>1. i # 0 /\ k \in 0 .. k + 1 /\ k # k + 1 /\ i - 1 = k
        BY <3>1
      <4>2. h[i] = AddAgain(graph, old, new, f[k], es[k + 1]) /\ h[k] = f[k]
        BY <3>1, <4>1
      <4> QED
        BY <3>1, <4>1, <4>2
    <3>2. CASE i # k + 1
      <4>1. i \in 0 .. k /\ (i # 0 => i - 1 \in 0 .. k + 1 /\ i - 1 # k + 1)
        BY <3>2
      <4>2. h[i] = f[i] /\ (i # 0 => h[i - 1] = f[i - 1])
        BY <3>2, <4>1
      <4>3. f[i] = IF i = 0 THEN [edges |-> graph, remap |-> NoEdges] ELSE AddAgain(graph, old, new, f[i - 1], es[i])
        BY <2>1, <4>1 DEF AddsAgain
      <4> QED
        BY <4>2, <4>3
    <3> QED
      BY <3>1, <3>2
  <2> HIDE DEF h
  <2>3. h = [i \in 0 .. k + 1 |-> IF i = 0 THEN [edges |-> graph, remap |-> NoEdges] ELSE AddAgain(graph, old, new, h[i - 1], es[i])]
    <3>1. h = [i \in 0 .. k + 1 |-> h[i]]
      BY DEF h
    <3> QED
      BY <2>2, <3>1
  <2>4. AddsAgain(h, graph, old, new, es, k + 1)
    BY <2>3 DEF AddsAgain
  <2> QED
    BY <2>4
<1>3. Nat \subseteq S
  <2> HIDE DEF S
  <2> QED
    BY <1>1, <1>2, NatSetInduction
<1> QED
  BY <1>3

\* Redirecting one node after the other is defined.
LEMMA RedirectingIsDefined ==
  ASSUME NEW graph, NEW ids, NEW ms, NEW to, NEW m \in Nat
  PROVE  \E f : Redirects(f, graph, ids, ms, to, m)
<1> DEFINE S == {k \in Nat : \E f : Redirects(f, graph, ids, ms, to, k)}
<1>1. 0 \in S
  <2> DEFINE f == [i \in 0 .. 0 |-> [edges |-> graph, order |-> ids, remap |-> NoEdges]]
  <2>1. f = [i \in 0 .. 0 |-> IF i = 0 THEN [edges |-> graph, order |-> ids, remap |-> NoEdges] ELSE RedirectNext(f[i - 1], ms[i], to[ms[i]])]
    OBVIOUS
  <2>2. Redirects(f, graph, ids, ms, to, 0)
    BY <2>1 DEF Redirects
  <2> QED
    BY <2>2
<1>2. ASSUME NEW k \in Nat, k \in S
      PROVE  k + 1 \in S
  <2>1. PICK f : Redirects(f, graph, ids, ms, to, k)
    BY <1>2
  <2> DEFINE h == [i \in 0 .. k + 1 |-> IF i = k + 1 THEN RedirectNext(f[k], ms[k + 1], to[ms[k + 1]]) ELSE f[i]]
  <2>2. ASSUME NEW i \in 0 .. k + 1
        PROVE  h[i] = IF i = 0 THEN [edges |-> graph, order |-> ids, remap |-> NoEdges] ELSE RedirectNext(h[i - 1], ms[i], to[ms[i]])
    <3>1. CASE i = k + 1
      <4>1. i # 0 /\ k \in 0 .. k + 1 /\ k # k + 1 /\ i - 1 = k
        BY <3>1
      <4>2. h[i] = RedirectNext(f[k], ms[k + 1], to[ms[k + 1]]) /\ h[k] = f[k]
        BY <3>1, <4>1
      <4> QED
        BY <3>1, <4>1, <4>2
    <3>2. CASE i # k + 1
      <4>1. i \in 0 .. k /\ (i # 0 => i - 1 \in 0 .. k + 1 /\ i - 1 # k + 1)
        BY <3>2
      <4>2. h[i] = f[i] /\ (i # 0 => h[i - 1] = f[i - 1])
        BY <3>2, <4>1
      <4>3. f[i] = IF i = 0 THEN [edges |-> graph, order |-> ids, remap |-> NoEdges] ELSE RedirectNext(f[i - 1], ms[i], to[ms[i]])
        BY <2>1, <4>1 DEF Redirects
      <4> QED
        BY <4>2, <4>3
    <3> QED
      BY <3>1, <3>2
  <2> HIDE DEF h
  <2>3. h = [i \in 0 .. k + 1 |-> IF i = 0 THEN [edges |-> graph, order |-> ids, remap |-> NoEdges] ELSE RedirectNext(h[i - 1], ms[i], to[ms[i]])]
    <3>1. h = [i \in 0 .. k + 1 |-> h[i]]
      BY DEF h
    <3> QED
      BY <2>2, <3>1
  <2>4. Redirects(h, graph, ids, ms, to, k + 1)
    BY <2>3 DEF Redirects
  <2> QED
    BY <2>4
<1>3. Nat \subseteq S
  <2> HIDE DEF S
  <2> QED
    BY <1>1, <1>2, NatSetInduction
<1> QED
  BY <1>3

\* Following a remap is defined.
LEMMA HoppingIsDefined ==
  ASSUME NEW remap, NEW e, NEW m \in Nat
  PROVE  \E f : Hops(f, remap, e, m)
<1> DEFINE S == {k \in Nat : \E f : Hops(f, remap, e, k)}
<1>1. 0 \in S
  <2> DEFINE f == [i \in 0 .. 0 |-> e]
  <2>1. f = [i \in 0 .. 0 |-> IF i = 0 THEN e ELSE Mapped(remap, f[i - 1])]
    OBVIOUS
  <2>2. Hops(f, remap, e, 0)
    BY <2>1 DEF Hops
  <2> QED
    BY <2>2
<1>2. ASSUME NEW k \in Nat, k \in S
      PROVE  k + 1 \in S
  <2>1. PICK f : Hops(f, remap, e, k)
    BY <1>2
  <2> DEFINE h == [i \in 0 .. k + 1 |-> IF i = k + 1 THEN Mapped(remap, f[k]) ELSE f[i]]
  <2>2. ASSUME NEW i \in 0 .. k + 1
        PROVE  h[i] = IF i = 0 THEN e ELSE Mapped(remap, h[i - 1])
    <3>1. CASE i = k + 1
      <4>1. i # 0 /\ k \in 0 .. k + 1 /\ k # k + 1 /\ i - 1 = k
        BY <3>1
      <4>2. h[i] = Mapped(remap, f[k]) /\ h[k] = f[k]
        BY <3>1, <4>1
      <4> QED
        BY <3>1, <4>1, <4>2
    <3>2. CASE i # k + 1
      <4>1. i \in 0 .. k /\ (i # 0 => i - 1 \in 0 .. k + 1 /\ i - 1 # k + 1)
        BY <3>2
      <4>2. h[i] = f[i] /\ (i # 0 => h[i - 1] = f[i - 1])
        BY <3>2, <4>1
      <4>3. f[i] = IF i = 0 THEN e ELSE Mapped(remap, f[i - 1])
        BY <2>1, <4>1 DEF Hops
      <4> QED
        BY <4>2, <4>3
    <3> QED
      BY <3>1, <3>2
  <2> HIDE DEF h
  <2>3. h = [i \in 0 .. k + 1 |-> IF i = 0 THEN e ELSE Mapped(remap, h[i - 1])]
    <3>1. h = [i \in 0 .. k + 1 |-> h[i]]
      BY DEF h
    <3> QED
      BY <2>2, <3>1
  <2>4. Hops(h, remap, e, k + 1)
    BY <2>3 DEF Hops
  <2> QED
    BY <2>4
<1>3. Nat \subseteq S
  <2> HIDE DEF S
  <2> QED
    BY <1>1, <1>2, NatSetInduction
<1> QED
  BY <1>3

(***************************************************************************)
(* Redirecting one node.                                                   *)
(***************************************************************************)
\* SetToSeq lists each element of a finite set once.
LEMMA SeqOfSet ==
  ASSUME NEW S, IsFiniteSet(S)
  PROVE  /\ Len(SetToSeq(S)) \in Nat
         /\ SetToSeq(S) \in [1 .. Len(SetToSeq(S)) -> S]
         /\ \A i, j \in 1 .. Len(SetToSeq(S)) : SetToSeq(S)[i] = SetToSeq(S)[j] => i = j
         /\ \A e \in S : \E i \in 1 .. Len(SetToSeq(S)) : SetToSeq(S)[i] = e
<1> DEFINE n == Cardinality(S)
           s == SetToSeq(S)
<1>1. n \in Nat /\ \E f : f \in Bijection(1 .. n, S)
  BY FS_CardinalityType DEF ExistsBijection
<1>2. \E f \in [1 .. n -> S] : IsInjective(f)
  BY <1>1 DEF Bijection, Injection
<1>3. s \in [1 .. n -> S] /\ IsInjective(s)
  BY <1>2 DEF SetToSeq
<1> HIDE DEF s
<1>4. Len(s) = n
  <2>1. s \in Seq(S)
    <3> HIDE DEF n
    <3> QED
      BY <1>1, <1>3
  <2> HIDE DEF n
  <2> QED
    BY <1>1, <1>3, <2>1
<1>5. s \in Injection(1 .. n, S)
  BY <1>3 DEF Injection
<1>6. IsFiniteSet(1 .. n) /\ Cardinality(1 .. n) = n
  <2>1. 1 \in Int /\ n \in Int
    BY <1>1
  <2> HIDE DEF n
  <2> QED
    BY <1>1, <2>1, FS_Interval
<1>7. s \in Surjection(1 .. n, S)
  <2> HIDE DEF n
  <2>1. Cardinality(S) = n
    BY DEF n
  <2> QED
    BY <1>5, <1>6, <2>1, FS_Injection
<1>8. \A i, j \in 1 .. n : s[i] = s[j] => i = j
  BY <1>3 DEF IsInjective
<1>9. \A e \in S : \E i \in 1 .. n : s[i] = e
  BY <1>7 DEF Surjection
<1> QED
  <2> HIDE DEF n
  <2> QED
    BY <1>1, <1>3, <1>4, <1>8, <1>9 DEF s

\* The ends of an edge between renamed nodes.
SameEnds(old, new, e, to) == to[1] = NewEnd(old, new, e[1]) /\ to[2] = NewEnd(old, new, e[2])

\* Edges of done have been added again, and nothing else happened.
Added(g, graph, old, new, done) ==
  /\ DOMAIN g.remap = done
  /\ DOMAIN g.edges = DOMAIN graph \cup {g.remap[e] : e \in done}
  /\ \A e \in DOMAIN graph : g.edges[e] = graph[e]
  /\ \A e \in done : /\ g.remap[e] \notin DOMAIN graph
                     /\ g.edges[g.remap[e]] = graph[e]
                     /\ SameEnds(old, new, e, g.remap[e])
  /\ \A e, f \in done : g.remap[e] = g.remap[f] => e = f
  /\ KeysOK(g.edges)

LEMMA AddAgainAdds ==
  ASSUME NEW graph, NEW old, NEW new, NEW g, NEW done, NEW e \in DOMAIN graph \ done,
         Added(g, graph, old, new, done), done \subseteq DOMAIN graph
  PROVE  Added(AddAgain(graph, old, new, g, e), graph, old, new, done \cup {e})
<1> DEFINE u == NewEnd(old, new, e[1])
           v == NewEnd(old, new, e[2])
           k == NewKey(g.edges, u, v)
           to == <<u, v, k>>
           h == AddAgain(graph, old, new, g, e)
<1>1. k \in Nat /\ to \notin DOMAIN g.edges
  BY NewKeyFree DEF Added
<1>2. h.edges = WithEdge(g.edges, to, graph[e]) /\ h.remap = WithEdge(g.remap, e, to)
  BY DEF AddAgain
<1>3. /\ DOMAIN h.edges = DOMAIN g.edges \cup {to}
      /\ \A f \in DOMAIN g.edges : h.edges[f] = g.edges[f]
      /\ h.edges[to] = graph[e]
  <2> HIDE DEF to, h
  <2> QED
    BY <1>1, <1>2 DEF WithEdge
<1>4. /\ DOMAIN h.remap = done \cup {e}
      /\ \A f \in done : h.remap[f] = g.remap[f]
      /\ h.remap[e] = to
  <2> HIDE DEF to, h
  <2> QED
    BY <1>2 DEF WithEdge, Added
<1>5. to[1] = u /\ to[2] = v /\ to[3] = k /\ to = <<to[1], to[2], to[3]>>
  OBVIOUS
<1>6. KeysOK(h.edges)
  <2>1. IsFiniteSet(DOMAIN h.edges)
    <3>1. IsFiniteSet(DOMAIN g.edges)
      BY DEF Added, KeysOK
    <3>2. DOMAIN h.edges = DOMAIN g.edges \cup {to}
      BY <1>3
    <3> HIDE DEF to, h
    <3> QED
      BY <3>1, <3>2, FS_AddElement
  <2>2. \A f \in DOMAIN h.edges : f = <<f[1], f[2], f[3]>> /\ f[3] \in Nat
    <3> HIDE DEF to, h, k
    <3> QED
      BY <1>1, <1>3, <1>5 DEF Added, KeysOK
  <2> QED
    BY <2>1, <2>2 DEF KeysOK
<1>7. SameEnds(old, new, e, to)
  BY <1>5 DEF SameEnds
<1>8. \A f \in done : g.remap[f] \in DOMAIN g.edges /\ g.remap[f] # to
  BY <1>1 DEF Added
<1> HIDE DEF to, h
<1>9. DOMAIN h.edges = DOMAIN graph \cup {h.remap[f] : f \in done \cup {e}}
  BY <1>3, <1>4 DEF Added
<1>10. \A f \in DOMAIN graph : h.edges[f] = graph[f]
  BY <1>3 DEF Added
<1>11. \A f \in done \cup {e} : /\ h.remap[f] \notin DOMAIN graph
                               /\ h.edges[h.remap[f]] = graph[f]
                               /\ SameEnds(old, new, f, h.remap[f])
  <2>1. ASSUME NEW f \in done
        PROVE  /\ h.remap[f] \notin DOMAIN graph
               /\ h.edges[h.remap[f]] = graph[f]
               /\ SameEnds(old, new, f, h.remap[f])
    BY <1>3, <1>4, <1>8 DEF Added
  <2>2. /\ h.remap[e] \notin DOMAIN graph
        /\ h.edges[h.remap[e]] = graph[e]
        /\ SameEnds(old, new, e, h.remap[e])
    BY <1>1, <1>3, <1>4, <1>7 DEF Added
  <2> QED
    BY <2>1, <2>2
<1>12. \A f1, f2 \in done \cup {e} : h.remap[f1] = h.remap[f2] => f1 = f2
  BY <1>4, <1>8 DEF Added
<1> QED
  BY <1>4, <1>6, <1>9, <1>10, <1>11, <1>12 DEF Added, h

(***************************************************************************)
(* A rename moves edges: h maps each edge to the one it has become, which  *)
(* carries the same data, and there are no others.                         *)
(***************************************************************************)
Moves(h, graph, after) ==
  /\ DOMAIN h = DOMAIN graph
  /\ \A e \in DOMAIN graph : h[e] \in DOMAIN after /\ after[h[e]] = graph[e]
  /\ \A e, f \in DOMAIN graph : h[e] = h[f] => e = f
  /\ \A e \in DOMAIN after : \E f \in DOMAIN graph : h[f] = e

MovedBy(remap, graph) == [e \in DOMAIN graph |-> Mapped(remap, e)]

LEMMA RedirectMoves ==
  ASSUME NEW graph, NEW old, NEW new, KeysOK(graph)
  PROVE  LET r == Redirect(graph, old, new)
         IN  /\ KeysOK(r.edges)
             /\ DOMAIN r.remap = Incident(graph, old)
             /\ \A e \in DOMAIN r.remap : r.remap[e] \notin DOMAIN graph
             /\ Moves(MovedBy(r.remap, graph), graph, r.edges)
             /\ \A e \in DOMAIN graph : SameEnds(old, new, e, Mapped(r.remap, e))
<1> DEFINE inc == Incident(graph, old)
           es == SetToSeq(inc)
           n == Len(es)
           moved == CHOOSE f : AddsAgain(f, graph, old, new, es, n)
           all == moved[n]
           done(i) == {es[j] : j \in 1 .. i}
<1>1. inc \subseteq DOMAIN graph /\ IsFiniteSet(inc)
  <2>1. inc \in SUBSET DOMAIN graph
    BY DEF Incident
  <2> QED
    BY <2>1, FS_Subset DEF KeysOK
<1>2. /\ n \in Nat
      /\ es \in [1 .. n -> inc]
      /\ \A i, j \in 1 .. n : es[i] = es[j] => i = j
      /\ \A e \in inc : \E i \in 1 .. n : es[i] = e
  <2> HIDE DEF inc
  <2> QED
    BY <1>1, SeqOfSet
<1>3. Redirect(graph, old, new) = [edges |-> Without(all.edges, inc), remap |-> all.remap]
  BY DEF Redirect, AddsAgain, NoEdges
<1> HIDE DEF inc, es, n
<1>4. AddsAgain(moved, graph, old, new, es, n)
  BY <1>2, AddingIsDefined
<1> HIDE DEF moved
<1>5. /\ moved[0] = [edges |-> graph, remap |-> NoEdges]
      /\ \A i \in 1 .. n : moved[i] = AddAgain(graph, old, new, moved[i - 1], es[i])
  BY <1>2, <1>4 DEF AddsAgain
<1> DEFINE S == {i \in Nat : i \in 0 .. n => Added(moved[i], graph, old, new, done(i))}
<1>6. 0 \in S
  <2>1. done(0) = {} /\ DOMAIN NoEdges = {}
    BY DEF NoEdges
  <2> HIDE DEF done
  <2>2. moved[0].edges = graph /\ moved[0].remap = NoEdges
    BY <1>5
  <2>3. {moved[0].remap[e] : e \in {}} = {}
    OBVIOUS
  <2>4. Added(moved[0], graph, old, new, done(0))
    BY <2>1, <2>2, <2>3 DEF Added
  <2> QED
    BY <2>4
<1>7. ASSUME NEW i \in Nat, i \in S
      PROVE  i + 1 \in S
  <2> SUFFICES ASSUME i + 1 \in 0 .. n
               PROVE  Added(moved[i + 1], graph, old, new, done(i + 1))
    OBVIOUS
  <2>1. i + 1 \in 1 .. n /\ i \in 0 .. n /\ (i + 1) - 1 = i
    BY <1>2
  <2>2. Added(moved[i], graph, old, new, done(i))
    BY <1>7, <2>1
  <2>3. es[i + 1] \in inc /\ es[i + 1] \notin done(i)
    BY <1>2, <2>1
  <2>4. done(i + 1) = done(i) \cup {es[i + 1]}
    BY <2>1
  <2>5. done(i) \subseteq DOMAIN graph
    BY <1>1, <1>2, <2>1
  <2>6. moved[i + 1] = AddAgain(graph, old, new, moved[i], es[i + 1])
    BY <1>5, <2>1
  <2> HIDE DEF done
  <2> QED
    BY <1>1, <2>2, <2>3, <2>4, <2>5, <2>6, AddAgainAdds
<1>8. Nat \subseteq S
  <2> HIDE DEF S
  <2> QED
    BY <1>6, <1>7, NatSetInduction
<1>9. Added(all, graph, old, new, inc)
  <2>1. n \in S /\ n \in 0 .. n
    <3> HIDE DEF S
    <3> QED
      BY <1>2, <1>8
  <2>2. Added(moved[n], graph, old, new, done(n))
    BY <2>1
  <2>3. done(n) = inc
    BY <1>2
  <2> HIDE DEF done
  <2> QED
    BY <2>2, <2>3
<1> HIDE DEF all, S
<1> DEFINE R == Without(all.edges, inc)
           m == all.remap
           h == MovedBy(m, graph)
<1>10. DOMAIN R = DOMAIN all.edges \ inc /\ \A e \in DOMAIN R : R[e] = all.edges[e]
  BY DEF Without
<1>11. \A e \in DOMAIN graph : h[e] = Mapped(m, e) /\ h[e] = IF e \in inc THEN m[e] ELSE e
  BY <1>9 DEF MovedBy, Mapped, Added
<1> HIDE DEF R
<1>12. KeysOK(R)
  <2>1. DOMAIN R \in SUBSET DOMAIN all.edges
    BY <1>10
  <2> QED
    BY <1>9, <2>1, FS_Subset DEF KeysOK, Added
<1>13. Moves(h, graph, R)
  <2>1. DOMAIN h = DOMAIN graph
    BY DEF MovedBy
  <2> HIDE DEF h
  <2>2. \A e \in DOMAIN graph : h[e] \in DOMAIN R /\ R[h[e]] = graph[e]
    BY <1>1, <1>9, <1>10, <1>11 DEF Added
  <2>3. \A e, f \in DOMAIN graph : h[e] = h[f] => e = f
    BY <1>1, <1>9, <1>11 DEF Added
  <2>4. \A e \in DOMAIN R : \E f \in DOMAIN graph : h[f] = e
    BY <1>1, <1>9, <1>10, <1>11 DEF Added
  <2> QED
    BY <2>1, <2>2, <2>3, <2>4 DEF Moves
<1>14. \A e \in DOMAIN graph : SameEnds(old, new, e, Mapped(m, e))
  <2>1. ASSUME NEW e \in inc
        PROVE  SameEnds(old, new, e, Mapped(m, e))
    BY <1>9, <2>1 DEF Added, Mapped
  <2>2. ASSUME NEW e \in DOMAIN graph \ inc
        PROVE  SameEnds(old, new, e, Mapped(m, e))
    <3>1. Mapped(m, e) = e
      BY <1>9 DEF Added, Mapped
    <3>2. e[1] # old /\ e[2] # old
      BY DEF inc, Incident
    <3> QED
      BY <3>1, <3>2 DEF SameEnds, NewEnd
  <2> QED
    BY <2>1, <2>2
<1>15. DOMAIN m = inc /\ \A e \in inc : m[e] \notin DOMAIN graph
  BY <1>9 DEF Added
<1> QED
  BY <1>3, <1>12, <1>13, <1>14, <1>15 DEF R, inc

(***************************************************************************)
(* Redirecting one node after the other.                                   *)
(***************************************************************************)
\* An end once the first i nodes of ms were renamed.
EndAfter(ms, to, i, n) == IF n \in {ms[j] : j \in 1 .. i} THEN to[n] ELSE n

\* No node is renamed to one that is renamed itself.
Apart(ms, to) == \A i, j \in 1 .. Len(ms) : to[ms[i]] # ms[j]

\* remap leads from e to x in t hops.
Leads(remap, e, x, t) ==
  \E c : /\ c[0] = e /\ c[t] = x
        /\ \A s \in 1 .. t : c[s - 1] \in DOMAIN remap /\ c[s] = remap[c[s - 1]]

\* h is what has become of each edge once the first i nodes were redirected: it
\* moved the edges, the trace follows it, the ends are the renamed ones, the
\* remap leads from every edge to it, and what was remapped is no edge any more.
Followed(g, h, graph, ids, ms, to, i) ==
  /\ KeysOK(g.edges)
  /\ Moves(h, graph, g.edges)
  /\ DOMAIN g.order = DOMAIN ids
  /\ \A k \in DOMAIN ids : ids[k] \in DOMAIN graph => g.order[k] = h[ids[k]]
  /\ ids \in Seq(DOMAIN graph) => g.order \in Seq(DOMAIN g.edges)
  /\ \A e \in DOMAIN graph : /\ h[e][1] = EndAfter(ms, to, i, e[1])
                            /\ h[e][2] = EndAfter(ms, to, i, e[2])
  /\ \A e \in DOMAIN graph : \E t \in 0 .. i : Leads(g.remap, e, h[e], t)
  /\ \A x \in DOMAIN g.remap : \E j \in 1 .. i : ms[j] \in {x[1], x[2]}

\* Edges moved twice are moved.
LEMMA MovesTwice ==
  ASSUME NEW h, NEW k, NEW E1, NEW E2, NEW E3, Moves(h, E1, E2), Moves(k, E2, E3)
  PROVE  Moves([e \in DOMAIN E1 |-> k[h[e]]], E1, E3)
<1> DEFINE m == [e \in DOMAIN E1 |-> k[h[e]]]
<1>1. DOMAIN m = DOMAIN E1 /\ \A e \in DOMAIN E1 : m[e] = k[h[e]]
  OBVIOUS
<1> HIDE DEF m
<1>2. \A e \in DOMAIN E1 : m[e] \in DOMAIN E3 /\ E3[m[e]] = E1[e]
  BY <1>1 DEF Moves
<1>3. \A e, f \in DOMAIN E1 : m[e] = m[f] => e = f
  BY <1>1 DEF Moves
<1>4. ASSUME NEW e \in DOMAIN E3
      PROVE  \E f \in DOMAIN E1 : m[f] = e
  <2>1. PICK x \in DOMAIN E2 : k[x] = e
    BY DEF Moves
  <2>2. PICK f \in DOMAIN E1 : h[f] = x
    BY DEF Moves
  <2> QED
    BY <1>1, <2>1, <2>2
<1> QED
  BY <1>1, <1>2, <1>3, <1>4 DEF Moves, m

\* A remap grown by keys it did not have leads where it led, and one hop on.
LEMMA LeadsOn ==
  ASSUME NEW old, NEW new, NEW e, NEW x, NEW t \in Nat,
         \A y \in DOMAIN old : y \in DOMAIN new /\ new[y] = old[y],
         Leads(old, e, x, t)
  PROVE  /\ Leads(new, e, x, t)
         /\ x \in DOMAIN new => Leads(new, e, new[x], t + 1)
<1>1. PICK c : /\ c[0] = e /\ c[t] = x
              /\ \A s \in 1 .. t : c[s - 1] \in DOMAIN old /\ c[s] = old[c[s - 1]]
  BY DEF Leads
<1>2. \A s \in 1 .. t : c[s - 1] \in DOMAIN new /\ c[s] = new[c[s - 1]]
  BY <1>1
<1>3. Leads(new, e, x, t)
  BY <1>1, <1>2 DEF Leads
<1>4. ASSUME x \in DOMAIN new
      PROVE  Leads(new, e, new[x], t + 1)
  <2> DEFINE d == [s \in 0 .. t + 1 |-> IF s = t + 1 THEN new[x] ELSE c[s]]
  <2>1. d[0] = e /\ d[t + 1] = new[x] /\ \A s \in 0 .. t : d[s] = c[s]
    BY <1>1
  <2> HIDE DEF d
  <2>2. ASSUME NEW s \in 1 .. t + 1
        PROVE  d[s - 1] \in DOMAIN new /\ d[s] = new[d[s - 1]]
    <3>1. CASE s = t + 1
      <4>1. s - 1 = t
        BY <3>1
      <4> QED
        BY <1>1, <1>4, <2>1, <3>1, <4>1
    <3>2. CASE s # t + 1
      <4>1. s \in 1 .. t /\ s - 1 \in 0 .. t /\ s \in 0 .. t
        BY <3>2
      <4> QED
        BY <1>2, <2>1, <4>1
    <3> QED
      BY <3>1, <3>2
  <2> QED
    BY <2>1, <2>2 DEF Leads
<1> QED
  BY <1>3, <1>4

\* A list of edges stays one when its edges are moved.
LEMMA TraceOfMoved ==
  ASSUME NEW remap, NEW E1, NEW E2, NEW s \in Seq(DOMAIN E1),
         Moves(MovedBy(remap, E1), E1, E2)
  PROVE  Trace(remap, s) \in Seq(DOMAIN E2) /\ Len(Trace(remap, s)) = Len(s)
<1>1. Len(s) \in Nat /\ DOMAIN s = 1 .. Len(s) /\ \A i \in 1 .. Len(s) : s[i] \in DOMAIN E1
  OBVIOUS
<1>2. \A e \in DOMAIN E1 : Mapped(remap, e) \in DOMAIN E2
  <2>1. \A e \in DOMAIN E1 : MovedBy(remap, E1)[e] = Mapped(remap, e)
    BY DEF MovedBy
  <2> QED
    BY <2>1 DEF Moves
<1>3. Trace(remap, s) \in [1 .. Len(s) -> DOMAIN E2]
  BY <1>1, <1>2 DEF Trace
<1> QED
  BY <1>1, <1>3

\* Redirecting the next node.
LEMMA RedirectNextFollows ==
  ASSUME NEW graph, NEW ids, NEW ms, NEW to, NEW g, NEW h, NEW i \in Nat,
         Len(ms) \in Nat, i + 1 \in 1 .. Len(ms), Apart(ms, to),
         Followed(g, h, graph, ids, ms, to, i)
  PROVE  \E k : Followed(RedirectNext(g, ms[i + 1], to[ms[i + 1]]), k, graph, ids, ms, to, i + 1)
<1> DEFINE old == ms[i + 1]
           new == to[old]
           r == Redirect(g.edges, old, new)
           q == MovedBy(r.remap, g.edges)
           k == [e \in DOMAIN graph |-> q[h[e]]]
           G == RedirectNext(g, old, new)
<1>0. KeysOK(g.edges) /\ Moves(h, graph, g.edges)
  BY DEF Followed
<1>1. /\ KeysOK(r.edges)
      /\ DOMAIN r.remap = Incident(g.edges, old)
      /\ \A e \in DOMAIN r.remap : r.remap[e] \notin DOMAIN g.edges
      /\ Moves(q, g.edges, r.edges)
      /\ \A e \in DOMAIN g.edges : SameEnds(old, new, e, Mapped(r.remap, e))
  BY <1>0, RedirectMoves
<1>2. G.edges = r.edges /\ G.order = Trace(r.remap, g.order) /\ G.remap = Updated(g.remap, r.remap)
  BY DEF RedirectNext
<1>3. \A e \in DOMAIN graph : h[e] \in DOMAIN g.edges
  BY <1>0 DEF Moves
<1>4. DOMAIN k = DOMAIN graph /\ \A e \in DOMAIN graph : k[e] = Mapped(r.remap, h[e])
  BY <1>3 DEF MovedBy
<1> HIDE DEF r, G
<1>5. Moves(k, graph, r.edges)
  <2> HIDE DEF q
  <2> QED
    BY <1>0, <1>1, MovesTwice
<1> HIDE DEF q, k
<1>6. /\ DOMAIN G.order = DOMAIN ids
      /\ \A j \in DOMAIN ids : ids[j] \in DOMAIN graph => G.order[j] = k[ids[j]]
  <2>1. DOMAIN G.order = DOMAIN g.order /\ \A j \in DOMAIN g.order : G.order[j] = Mapped(r.remap, g.order[j])
    BY <1>2 DEF Trace
  <2> QED
    BY <1>4, <2>1 DEF Followed
<1>7. \A n : NewEnd(old, new, EndAfter(ms, to, i, n)) = EndAfter(ms, to, i + 1, n)
  <2> TAKE n
  <2>1. {ms[j] : j \in 1 .. i + 1} = {ms[j] : j \in 1 .. i} \cup {old}
    OBVIOUS
  <2>2. CASE n \in {ms[j] : j \in 1 .. i}
    <3>1. to[n] # old
      BY <2>2 DEF Apart
    <3> HIDE DEF old
    <3> QED
      BY <2>1, <2>2, <3>1 DEF EndAfter, NewEnd
  <2>3. CASE n \notin {ms[j] : j \in 1 .. i}
    <3> HIDE DEF old
    <3> QED
      BY <2>1, <2>3 DEF EndAfter, NewEnd, new
  <2> QED
    BY <2>2, <2>3
<1> HIDE DEF new
<1>8. \A e \in DOMAIN graph : /\ k[e][1] = EndAfter(ms, to, i + 1, e[1])
                            /\ k[e][2] = EndAfter(ms, to, i + 1, e[2])
  <2> TAKE e \in DOMAIN graph
  <2>1. SameEnds(old, new, h[e], k[e])
    BY <1>1, <1>3, <1>4
  <2>2. h[e][1] = EndAfter(ms, to, i, e[1]) /\ h[e][2] = EndAfter(ms, to, i, e[2])
    BY DEF Followed
  <2> QED
    BY <1>7, <2>1, <2>2 DEF SameEnds
<1>9. DOMAIN G.remap = DOMAIN r.remap \cup DOMAIN g.remap
  BY <1>2 DEF Updated
<1>10. \A x \in DOMAIN g.remap : x \notin DOMAIN g.edges
  <2> SUFFICES ASSUME NEW x \in DOMAIN g.remap, x \in DOMAIN g.edges PROVE FALSE
    OBVIOUS
  <2>1. PICK j \in 1 .. i : ms[j] \in {x[1], x[2]}
    BY DEF Followed
  <2>2. PICK e \in DOMAIN graph : h[e] = x
    BY <1>0 DEF Moves
  <2>3. \A n : EndAfter(ms, to, i, n) # ms[j]
    <3> TAKE n
    <3>1. CASE n \in {ms[l] : l \in 1 .. i}
      BY <3>1 DEF EndAfter, Apart
    <3>2. CASE n \notin {ms[l] : l \in 1 .. i}
      BY <3>2 DEF EndAfter
    <3> QED
      BY <3>1, <3>2
  <2>4. x[1] = EndAfter(ms, to, i, e[1]) /\ x[2] = EndAfter(ms, to, i, e[2])
    BY <2>2 DEF Followed
  <2> QED
    BY <2>1, <2>3, <2>4
<1>11. /\ \A y \in DOMAIN g.remap : y \in DOMAIN G.remap /\ G.remap[y] = g.remap[y]
       /\ \A y \in DOMAIN r.remap : y \in DOMAIN G.remap /\ G.remap[y] = r.remap[y]
  <2>1. \A y \in DOMAIN r.remap : y \in DOMAIN g.edges
    BY <1>1 DEF Incident
  <2> QED
    BY <1>2, <1>10, <2>1 DEF Updated
<1>12. \A e \in DOMAIN graph : \E t \in 0 .. i + 1 : Leads(G.remap, e, k[e], t)
  <2> TAKE e \in DOMAIN graph
  <2>1. PICK t \in 0 .. i : Leads(g.remap, e, h[e], t)
    BY DEF Followed
  <2>2. /\ Leads(G.remap, e, h[e], t)
        /\ h[e] \in DOMAIN G.remap => Leads(G.remap, e, G.remap[h[e]], t + 1)
    <3>1. t \in Nat
      OBVIOUS
    <3> QED
      BY <1>11, <2>1, <3>1, LeadsOn
  <2>3. CASE h[e] \in DOMAIN r.remap
    <3>1. k[e] = G.remap[h[e]] /\ h[e] \in DOMAIN G.remap
      BY <1>4, <1>11, <2>3 DEF Mapped
    <3>2. t + 1 \in 0 .. i + 1
      OBVIOUS
    <3> QED
      BY <2>2, <3>1, <3>2
  <2>4. CASE h[e] \notin DOMAIN r.remap
    <3>1. k[e] = h[e]
      BY <1>4, <2>4 DEF Mapped
    <3>2. t \in 0 .. i + 1
      OBVIOUS
    <3> QED
      BY <2>2, <3>1, <3>2
  <2> QED
    BY <2>3, <2>4
<1>13. \A x \in DOMAIN G.remap : \E j \in 1 .. i + 1 : ms[j] \in {x[1], x[2]}
  <2> TAKE x \in DOMAIN G.remap
  <2>1. CASE x \in DOMAIN r.remap
    <3>1. old \in {x[1], x[2]}
      BY <1>1, <2>1 DEF Incident
    <3> QED
      BY <3>1
  <2>2. CASE x \in DOMAIN g.remap
    <3>1. PICK j \in 1 .. i : ms[j] \in {x[1], x[2]}
      BY <2>2 DEF Followed
    <3> QED
      BY <3>1
  <2> QED
    BY <1>9, <2>1, <2>2
<1>14. ids \in Seq(DOMAIN graph) => G.order \in Seq(DOMAIN r.edges)
  BY <1>1, <1>2, TraceOfMoved DEF Followed, q
<1>15. Followed(G, k, graph, ids, ms, to, i + 1)
  BY <1>1, <1>2, <1>5, <1>6, <1>8, <1>12, <1>13, <1>14 DEF Followed
<1> QED
  BY <1>15 DEF G, new

\* Terminal follows a remap to its end, given hops enough.
LEMMA TerminalIsEnd ==
  ASSUME NEW remap, NEW e, NEW x, NEW n \in Nat, NEW t \in 0 .. n,
         Leads(remap, e, x, t), x \notin DOMAIN remap
  PROVE  Terminal(remap, e, n) = x
<1> DEFINE hop == CHOOSE f : Hops(f, remap, e, n)
           at(c, s) == IF s \in 0 .. t THEN c[s] ELSE x
<1>1. Hops(hop, remap, e, n)
  BY HoppingIsDefined
<1>2. Terminal(remap, e, n) = hop[n]
  BY DEF Terminal, Hops
<1> HIDE DEF hop
<1>3. hop[0] = e /\ \A s \in 1 .. n : hop[s] = Mapped(remap, hop[s - 1])
  BY <1>1 DEF Hops
<1>4. PICK c : /\ c[0] = e /\ c[t] = x
              /\ \A s \in 1 .. t : c[s - 1] \in DOMAIN remap /\ c[s] = remap[c[s - 1]]
  BY DEF Leads
<1> DEFINE S == {s \in Nat : s \in 0 .. n => hop[s] = at(c, s)}
<1>5. 0 \in S
  BY <1>3, <1>4
<1>6. ASSUME NEW s \in Nat, s \in S
      PROVE  s + 1 \in S
  <2> SUFFICES ASSUME s + 1 \in 0 .. n
               PROVE  hop[s + 1] = at(c, s + 1)
    OBVIOUS
  <2>1. s \in 0 .. n /\ s + 1 \in 1 .. n /\ (s + 1) - 1 = s
    OBVIOUS
  <2>2. hop[s + 1] = Mapped(remap, hop[s]) /\ hop[s] = at(c, s)
    BY <1>3, <1>6, <2>1
  <2>3. CASE s + 1 \in 0 .. t
    <3>1. s + 1 \in 1 .. t /\ s \in 0 .. t
      BY <2>1, <2>3
    <3>2. c[s] \in DOMAIN remap /\ c[s + 1] = remap[c[s]]
      BY <1>4, <2>1, <3>1
    <3> QED
      BY <2>2, <2>3, <3>1, <3>2 DEF Mapped
  <2>4. CASE s + 1 \notin 0 .. t
    <3>1. s \in 0 .. t => s = t
      BY <2>1, <2>4
    <3>2. at(c, s) = x
      BY <1>4, <3>1
    <3> QED
      BY <2>2, <2>4, <3>2 DEF Mapped
  <2> QED
    BY <2>3, <2>4
<1>7. Nat \subseteq S
  <2> HIDE DEF S
  <2> QED
    BY <1>5, <1>6, NatSetInduction
<1>8. hop[n] = at(c, n)
  BY <1>7
<1>9. n \in 0 .. t => n = t
  OBVIOUS
<1> QED
  BY <1>2, <1>4, <1>8, <1>9

\* A rename moves the edges, and everything that names them follows: the trace
\* keeps each edge at its place, the ends are the renamed nodes, and the remap
\* leads from the old key of an edge to its new one.
LEMMA RenameMovesEdges ==
  ASSUME NEW graph, NEW ids, NEW ms, NEW to,
         KeysOK(graph), Len(ms) \in Nat, Apart(ms, to)
  PROVE  LET g == RedirectAll(graph, ids, ms, to)
             h == MovedBy(g.remap, graph)
         IN  /\ KeysOK(g.edges)
             /\ Moves(h, graph, g.edges)
             /\ DOMAIN g.order = DOMAIN ids
             /\ \A k \in DOMAIN ids : ids[k] \in DOMAIN graph => g.order[k] = h[ids[k]]
             /\ ids \in Seq(DOMAIN graph) => g.order \in Seq(DOMAIN g.edges)
             /\ \A e \in DOMAIN graph : /\ h[e][1] = EndAfter(ms, to, Len(ms), e[1])
                                       /\ h[e][2] = EndAfter(ms, to, Len(ms), e[2])
<1> DEFINE n == Len(ms)
           done == CHOOSE f : Redirects(f, graph, ids, ms, to, n)
           all == done[n]
           remap == [e \in DOMAIN all.remap |-> Terminal(all.remap, e, n)]
           h == MovedBy(remap, graph)
<1>1. Redirects(done, graph, ids, ms, to, n)
  BY RedirectingIsDefined
<1>2. RedirectAll(graph, ids, ms, to) = [edges |-> all.edges, order |-> all.order, remap |-> remap]
  BY DEF RedirectAll, Redirects, NoEdges
<1> HIDE DEF done
<1>3. /\ done[0] = [edges |-> graph, order |-> ids, remap |-> NoEdges]
      /\ \A i \in 1 .. n : done[i] = RedirectNext(done[i - 1], ms[i], to[ms[i]])
  BY <1>1 DEF Redirects
<1> DEFINE S == {i \in Nat : i \in 0 .. n => \E f : Followed(done[i], f, graph, ids, ms, to, i)}
<1>4. 0 \in S
  <2> DEFINE f == [e \in DOMAIN graph |-> e]
             g == [edges |-> graph, order |-> ids, remap |-> NoEdges]
  <2>1. g.edges = graph /\ g.order = ids /\ g.remap = NoEdges /\ DOMAIN NoEdges = {}
    BY DEF NoEdges
  <2>2. Moves(f, graph, graph)
    BY DEF Moves
  <2>3. DOMAIN f = DOMAIN graph /\ \A e \in DOMAIN graph : f[e] = e
    OBVIOUS
  <2> HIDE DEF f, g
  <2>4. \A m : EndAfter(ms, to, 0, m) = m
    BY DEF EndAfter
  <2>5. \A e : Leads(g.remap, e, e, 0)
    <3> TAKE e
    <3> DEFINE c == [s \in 0 .. 0 |-> e]
    <3>1. c[0] = e /\ \A s \in 1 .. 0 : c[s - 1] \in DOMAIN g.remap /\ c[s] = g.remap[c[s - 1]]
      OBVIOUS
    <3> HIDE DEF c
    <3> QED
      BY <3>1 DEF Leads
  <2>6. Followed(g, f, graph, ids, ms, to, 0)
    BY <2>1, <2>2, <2>3, <2>4, <2>5 DEF Followed
  <2> QED
    BY <1>3, <2>6 DEF g
<1>5. ASSUME NEW i \in Nat, i \in S
      PROVE  i + 1 \in S
  <2> SUFFICES ASSUME i + 1 \in 0 .. n
               PROVE  \E f : Followed(done[i + 1], f, graph, ids, ms, to, i + 1)
    OBVIOUS
  <2>1. i \in 0 .. n /\ i + 1 \in 1 .. n /\ (i + 1) - 1 = i
    OBVIOUS
  <2>2. PICK f : Followed(done[i], f, graph, ids, ms, to, i)
    BY <1>5, <2>1
  <2>3. done[i + 1] = RedirectNext(done[i], ms[i + 1], to[ms[i + 1]])
    BY <1>3, <2>1
  <2> HIDE DEF S
  <2> QED
    BY <2>1, <2>2, <2>3, RedirectNextFollows
<1>6. Nat \subseteq S
  <2> HIDE DEF S
  <2> QED
    BY <1>4, <1>5, NatSetInduction
<1>7. PICK f : Followed(all, f, graph, ids, ms, to, n)
  BY <1>6
<1> HIDE DEF all, S
<1>8. \A e \in DOMAIN all.remap : e \notin DOMAIN all.edges
  <2> SUFFICES ASSUME NEW x \in DOMAIN all.remap, x \in DOMAIN all.edges PROVE FALSE
    OBVIOUS
  <2>1. PICK j \in 1 .. n : ms[j] \in {x[1], x[2]}
    BY <1>7 DEF Followed
  <2>2. PICK e \in DOMAIN graph : f[e] = x
    BY <1>7 DEF Followed, Moves
  <2>3. \A m : EndAfter(ms, to, n, m) # ms[j]
    <3> TAKE m
    <3>1. CASE m \in {ms[l] : l \in 1 .. n}
      BY <3>1 DEF EndAfter, Apart
    <3>2. CASE m \notin {ms[l] : l \in 1 .. n}
      BY <3>2 DEF EndAfter
    <3> QED
      BY <3>1, <3>2
  <2>4. x[1] = EndAfter(ms, to, n, e[1]) /\ x[2] = EndAfter(ms, to, n, e[2])
    BY <1>7, <2>2 DEF Followed
  <2> QED
    BY <2>1, <2>3, <2>4
<1>9. ASSUME NEW e \in DOMAIN graph
      PROVE  Mapped(remap, e) = f[e]
  <2>1. PICK t \in 0 .. n : Leads(all.remap, e, f[e], t)
    BY <1>7 DEF Followed
  <2>2. f[e] \notin DOMAIN all.remap
    BY <1>7, <1>8 DEF Followed, Moves
  <2>3. Terminal(all.remap, e, n) = f[e]
    BY <2>1, <2>2, TerminalIsEnd
  <2>4. CASE e \in DOMAIN all.remap
    BY <2>3, <2>4 DEF Mapped
  <2>5. CASE e \notin DOMAIN all.remap
    <3>1. PICK c : /\ c[0] = e /\ c[t] = f[e]
                  /\ \A s \in 1 .. t : c[s - 1] \in DOMAIN all.remap /\ c[s] = all.remap[c[s - 1]]
      BY <2>1 DEF Leads
    <3>2. t = 0
      <4> SUFFICES ASSUME t # 0 PROVE FALSE
        OBVIOUS
      <4>1. 1 \in 1 .. t /\ 1 - 1 = 0
        OBVIOUS
      <4> QED
        BY <2>5, <3>1, <4>1
    <3>3. f[e] = e
      BY <3>1, <3>2
    <3> QED
      BY <2>5, <3>3 DEF Mapped
  <2> QED
    BY <2>4, <2>5
<1> HIDE DEF remap
<1>10. DOMAIN h = DOMAIN graph /\ \A e \in DOMAIN graph : h[e] = f[e]
  BY <1>9 DEF MovedBy
<1> HIDE DEF h
<1>11. Moves(f, graph, all.edges)
  BY <1>7 DEF Followed
<1>12. Moves(h, graph, all.edges)
  BY <1>10, <1>11 DEF Moves
<1> QED
  BY <1>2, <1>7, <1>10, <1>12 DEF Followed, h

(***************************************************************************)
(* Lists of edges.                                                         *)
(***************************************************************************)
Distinct(s) == \A i, j \in 1 .. Len(s) : s[i] = s[j] => i = j

\* Removing the first of a list of distinct elements removes the element.
LEMMA RemovedOnce ==
  ASSUME NEW X, NEW s \in Seq(X), NEW e, Distinct(s)
  PROVE  /\ RemoveFirst(s, e) \in Seq(X \ {e})
         /\ ToSet(RemoveFirst(s, e)) = ToSet(s) \ {e}
         /\ Distinct(RemoveFirst(s, e))
<1> DEFINE n == Len(s)
           r == RemoveFirst(s, e)
<1>1. n \in Nat /\ DOMAIN s = 1 .. n /\ \A i \in 1 .. n : s[i] \in X
  OBVIOUS
<1>2. ToSet(s) = {s[i] : i \in 1 .. n}
  BY <1>1 DEF ToSet
<1>3. CASE ~\E i \in 1 .. n : s[i] = e
  <2>1. r = s
    BY <1>3 DEF RemoveFirst
  <2>2. s \in Seq(X \ {e})
    <3>1. s \in [1 .. n -> X \ {e}]
      BY <1>1, <1>3
    <3> QED
      BY <1>1, <3>1
  <2> QED
    BY <1>2, <1>3, <2>1, <2>2
<1>4. CASE \E i \in 1 .. n : s[i] = e
  <2>1. PICK k \in 1 .. n : s[k] = e
    BY <1>4
  <2>2. {i \in 1 .. n : s[i] = e} = {k}
    BY <2>1 DEF Distinct
  <2>3. SelectInSeq(s, LAMBDA v : v = e) = k
    BY <1>1, <2>1, <2>2 DEF SelectInSeq, Min
  <2>4. r = RemoveAt(s, k)
    BY <1>4, <2>3 DEF RemoveFirst
  <2>5. Len(r) = n - 1 /\ \A i \in 1 .. n - 1 : r[i] = IF i < k THEN s[i] ELSE s[i + 1]
    <3> DEFINE front == SubSeq(s, 1, k - 1)
               back == SubSeq(s, k + 1, n)
    <3>1. /\ front \in Seq(X) /\ Len(front) = k - 1
          /\ \A i \in 1 .. k - 1 : front[i] = s[i]
      <4>1. /\ 1 \in Int /\ k - 1 \in Int /\ \A i \in 1 .. k - 1 : s[i] \in X /\ 1 + i - 1 = i
            /\ (IF 1 <= k - 1 THEN (k - 1) - 1 + 1 ELSE 0) = k - 1 /\ (k - 1) - 1 + 1 = k - 1
        BY <1>1, <2>1
      <4> HIDE DEF n
      <4> QED
        BY <4>1, SubSeqProperties
    <3>2. /\ back \in Seq(X) /\ Len(back) = n - k
          /\ \A i \in 1 .. n - k : back[i] = s[k + i]
      <4>1. k + 1 \in Int /\ n \in Int
        BY <1>1, <2>1
      <4>2. (IF k + 1 <= n THEN n - (k + 1) + 1 ELSE 0) = n - k /\ n - (k + 1) + 1 = n - k
        <5> HIDE DEF n
        <5> QED
          BY <1>1, <2>1
      <4>3. \A i \in k + 1 .. n : s[i] \in X
        BY <1>1, <2>1
      <4>4. \A i \in 1 .. n - k : (k + 1) + i - 1 = k + i
        <5> HIDE DEF n
        <5> QED
          BY <1>1, <2>1
      <4> HIDE DEF n
      <4> QED
        BY <4>1, <4>2, <4>3, <4>4, SubSeqProperties
    <3>3. r = front \o back
      BY <2>4 DEF RemoveAt
    <3> HIDE DEF front, back, n, r
    <3>4. Len(r) = n - 1
      <4>1. Len(front \o back) = Len(front) + Len(back)
        BY <3>1, <3>2, ConcatProperties
      <4>2. Len(r) = (k - 1) + (n - k)
        BY <3>1, <3>2, <3>3, <4>1
      <4> QED
        BY <1>1, <2>1, <4>2
    <3>5. ASSUME NEW i \in 1 .. n - 1
          PROVE  r[i] = IF i < k THEN s[i] ELSE s[i + 1]
      <4>1. CASE i < k
        BY <1>1, <2>1, <3>1, <3>2, <3>3, <4>1
      <4>2. CASE ~(i < k)
        <5>1. i - (k - 1) \in 1 .. n - k /\ k + (i - (k - 1)) = i + 1
          BY <1>1, <2>1, <4>2
        <5>2. r[i] = back[i - (k - 1)]
          BY <1>1, <2>1, <3>1, <3>2, <3>3, <4>2
        <5> QED
          BY <3>2, <4>2, <5>1, <5>2
      <4> QED
        BY <4>1, <4>2
    <3> QED
      BY <3>4, <3>5
  <2>6. r \in Seq(X)
    BY <1>1, <2>1, <2>4 DEF RemoveAt
  <2>7. r \in Seq(X \ {e})
    <3>1. \A i \in 1 .. n - 1 : r[i] # e
      <4> TAKE i \in 1 .. n - 1
      <4>1. i \in 1 .. n /\ i + 1 \in 1 .. n /\ (i < k => i # k) /\ (~(i < k) => i + 1 # k)
        BY <1>1, <2>1
      <4>2. \A j \in 1 .. n : s[j] = e => j = k
        BY <2>1 DEF Distinct
      <4> HIDE DEF r, n
      <4> QED
        BY <2>5, <4>1, <4>2
    <3> HIDE DEF r
    <3>2. r \in [1 .. n - 1 -> X \ {e}]
      BY <1>1, <2>5, <2>6, <3>1
    <3>3. n - 1 \in Nat
      BY <1>1, <2>1
    <3> HIDE DEF n
    <3> QED
      BY <3>2, <3>3
  <2> HIDE DEF r
  <2>8. Distinct(r)
    <3> SUFFICES ASSUME NEW i \in 1 .. n - 1, NEW j \in 1 .. n - 1, r[i] = r[j]
                 PROVE  i = j
      BY <2>5 DEF Distinct
    <3> DEFINE at(m) == IF m < k THEN m ELSE m + 1
    <3>1. at(i) \in 1 .. n /\ at(j) \in 1 .. n
      BY <1>1, <2>1
    <3>2. s[at(i)] = s[at(j)]
      BY <2>5
    <3>3. at(i) = at(j)
      <4> HIDE DEF at
      <4> QED
        BY <3>1, <3>2 DEF Distinct
    <3> QED
      BY <1>1, <2>1, <3>3
  <2>9. ToSet(r) = ToSet(s) \ {e}
    <3>1. ASSUME NEW x \in ToSet(r)
          PROVE  x \in ToSet(s) \ {e}
      <4>1. PICK i \in 1 .. n - 1 : x = r[i]
        BY <2>5, <2>6, <3>1 DEF ToSet
      <4>2. x # e
        BY <2>5, <2>7, <4>1
      <4>3. i \in 1 .. n /\ i + 1 \in 1 .. n
        BY <1>1, <4>1
      <4> QED
        BY <1>2, <2>5, <4>1, <4>2, <4>3
    <3>2. ASSUME NEW x \in ToSet(s) \ {e}
          PROVE  x \in ToSet(r)
      <4>1. PICK i \in 1 .. n : x = s[i]
        BY <1>2, <3>2
      <4>2. i # k
        BY <2>1, <4>1
      <4>3. CASE i < k
        <5>1. i \in 1 .. n - 1 /\ r[i] = x
          BY <1>1, <2>1, <2>5, <4>1, <4>3
        <5> QED
          BY <2>5, <2>6, <5>1 DEF ToSet
      <4>4. CASE ~(i < k)
        <5>1. i - 1 \in 1 .. n - 1 /\ ~(i - 1 < k) /\ (i - 1) + 1 = i
          BY <1>1, <2>1, <4>2, <4>4
        <5>2. r[i - 1] = x
          BY <2>5, <4>1, <5>1
        <5> QED
          BY <2>5, <2>6, <5>1, <5>2 DEF ToSet
      <4> QED
        BY <4>3, <4>4
    <3> QED
      BY <3>1, <3>2
  <2> QED
    BY <2>7, <2>8, <2>9 DEF r
<1> QED
  BY <1>3, <1>4

-----------------------------------------------------------------------------
(***************************************************************************)
(* The builder implements the identity gate: every call of the recording   *)
(* thread is one step of TwinIdentity, whose tags are the screens that     *)
(* what is staged, and the field in flight, are tagged with.               *)
(***************************************************************************)
HasTags(P) == \A p \in P : "screen" \in DOMAIN p
TagsOf(P) == {p.screen : p \in P}

AtMostOne(S) == S = {} \/ \E f : S = {f}

PendingShape == HasTags(pending) /\ HasTags(typing) /\ AtMostOne(typing)

LEMMA PendingTagsSplit == PendingTags = TagsOf(pending) \cup TagsOf(typing)
BY DEF PendingTags, TagsOf

\* Retagging renames the tags and keeps the entries' shape.
LEMMA RetaggedTags ==
  ASSUME NEW r, NEW P, HasTags(P)
  PROVE  /\ TagsOf(Retagged(r, P)) = {Gate!Renamed(r, n) : n \in TagsOf(P)}
         /\ HasTags(Retagged(r, P))
<1>1. \A x \in P : [x EXCEPT !.screen = Gate!Renamed(r, x.screen)].screen = Gate!Renamed(r, x.screen)
  BY DEF HasTags
<1>2. TagsOf(Retagged(r, P)) = {Gate!Renamed(r, x.screen) : x \in P}
  <2>1. ASSUME NEW q \in Retagged(r, P)
        PROVE  q.screen \in {Gate!Renamed(r, x.screen) : x \in P}
    BY <1>1 DEF Retagged
  <2>2. ASSUME NEW x \in P
        PROVE  Gate!Renamed(r, x.screen) \in TagsOf(Retagged(r, P))
    <3>1. [x EXCEPT !.screen = Gate!Renamed(r, x.screen)] \in Retagged(r, P)
      BY DEF Retagged
    <3> QED
      BY <1>1, <3>1 DEF TagsOf
  <2> QED
    BY <2>1, <2>2 DEF TagsOf
<1>3. {Gate!Renamed(r, n) : n \in TagsOf(P)} = {Gate!Renamed(r, x.screen) : x \in P}
  BY DEF TagsOf
<1>4. HasTags(Retagged(r, P))
  BY DEF Retagged, HasTags
<1> QED
  BY <1>2, <1>3, <1>4

LEMMA RetaggedIsOne ==
  ASSUME NEW r, NEW P, AtMostOne(P)
  PROVE  AtMostOne(Retagged(r, P))
<1>1. CASE P = {}
  BY <1>1 DEF AtMostOne, Retagged
<1>2. ASSUME NEW f, P = {f}
      PROVE  Retagged(r, P) = {[f EXCEPT !.screen = Gate!Renamed(r, @)]}
  BY <1>2 DEF Retagged
<1> QED
  BY <1>1, <1>2 DEF AtMostOne

\* Staging the field in flight stages its tag and no other.
LEMMA FieldDoneTags ==
  ASSUME PendingShape, NEW done \in FieldDone
  PROVE  HasTags(done.pending) /\ TagsOf(done.pending) \subseteq PendingTags
<1>1. CASE done.pending = pending
  BY <1>1 DEF PendingShape, PendingTags, TagsOf
<1>2. ASSUME NEW f \in typing, done.pending = pending \cup {Entry(f, staged + 1)}
      PROVE  HasTags(done.pending) /\ TagsOf(done.pending) \subseteq PendingTags
  <2>1. "screen" \in DOMAIN Entry(f, staged + 1) /\ Entry(f, staged + 1).screen = f.screen
    BY DEF Entry
  <2> QED
    BY <1>2, <2>1 DEF PendingShape, HasTags, PendingTags, TagsOf
<1> QED
  BY <1>1, <1>2 DEF FieldDone

\* A field that gains focus takes a tag the gate allows.
LEMMA FieldTags ==
  ASSUME NEW b
  PROVE  HasTags(Fields(b)) /\ TagsOf(Fields(b)) \subseteq Gate!FocusTags
BY DEF Fields, Field, HasTags, TagsOf

LEMMA FocusedTags ==
  ASSUME NEW r, NEW t \in FocusedMeanwhile(r)
  PROVE  /\ HasTags(t) /\ AtMostOne(t)
         /\ TagsOf(t) \subseteq {Gate!Renamed(r, n) : n \in Gate!FocusTags}
<1>0. AtMostOne(t)
  <2>1. t = {} \/ \E f \in Retagged(r, Fields(FALSE)) : t = {f}
    BY DEF FocusedMeanwhile
  <2> QED
    BY <2>1 DEF AtMostOne
<1>1. t \subseteq Retagged(r, Fields(FALSE))
  BY DEF FocusedMeanwhile
<1>2. HasTags(Fields(FALSE)) /\ TagsOf(Fields(FALSE)) \subseteq Gate!FocusTags
  BY FieldTags
<1>3. /\ TagsOf(Retagged(r, Fields(FALSE))) = {Gate!Renamed(r, n) : n \in TagsOf(Fields(FALSE))}
      /\ HasTags(Retagged(r, Fields(FALSE)))
  BY <1>2, RetaggedTags
<1> QED
  BY <1>0, <1>1, <1>2, <1>3 DEF HasTags, TagsOf

\* So an observation that renames by r leaves no tags but the gate's.
LEMMA TagsAfter ==
  ASSUME NEW r, NEW R, NEW P, NEW t, PendingShape,
         TagsOf(P) \subseteq {Gate!Renamed(r, n) : n \in PendingTags},
         TagsOf(t) \subseteq {Gate!Renamed(r, n) : n \in Gate!FocusTags},
         \A n : Gate!Renamed(R, n) = Gate!Renamed(r, n)
  PROVE  TagsOf(P) \cup TagsOf(t) \in Gate!TagsLeft(R)
BY DEF Gate!TagsLeft

\* What an action's outcome does to the pending entries and to current_id.
LEMMA OutcomesKinds ==
  ASSUME NEW g, NEW prov, NEW k, NEW source, NEW id, NEW type,
         Outcomes(g, prov, k, source, id, type)
  PROVE  \/ current' = id /\ pending' \subseteq k.pending
         \/ /\ current' = source
            /\ \E n : pending' = k.pending \cup {Entry(Field(source, TRUE), n)}
BY DEF Outcomes, Flip, Probe, Scroll, Commit, Rest

\* An observation that does not settle renames nothing.
LEMMA NothingRenamed ==
  ASSUME NEW o, ~o.settled, NEW n
  PROVE  Gate!Renamed(Renames(o), n) = n
BY DEF Renames, Gate!Renamed

\* The fields in flight when an observation starts, staged and renamed.
LEMMA RenamedDone ==
  ASSUME NEW r, PendingShape, NEW done \in FieldDone
  PROVE  /\ HasTags(Retagged(r, done.pending))
         /\ TagsOf(Retagged(r, done.pending)) \subseteq {Gate!Renamed(r, n) : n \in PendingTags}
<1>1. HasTags(done.pending) /\ TagsOf(done.pending) \subseteq PendingTags
  BY FieldDoneTags
<1>2. /\ TagsOf(Retagged(r, done.pending)) = {Gate!Renamed(r, n) : n \in TagsOf(done.pending)}
      /\ HasTags(Retagged(r, done.pending))
  BY <1>1, RetaggedTags
<1> QED
  BY <1>1, <1>2

\* A gesture is an observation, or a flip of a checkable.
LEMMA GestureIsGateStep ==
  ASSUME NEW o \in Observation, NEW type, PendingShape, Gesture(o, type)
  PROVE  /\ PendingShape'
         /\ \/ o.settled /\ Gate!ObserveSettled(o.c, o.d)
            \/ o.settled /\ Gate!FlipSettled(o.c, o.d)
            \/ ~o.settled /\ Gate!ObserveUnsettled(o.c)
            \/ ~o.settled /\ Gate!FlipUnsettled(o.c)
<1> DEFINE r == Renames(o)
           source == Gate!Renamed(r, current)
<1>1. /\ ~raised /\ current # Gate!NoScreen /\ Enters(o)
      /\ typing' \in FocusedMeanwhile(r)
  BY DEF Gesture
<1>2. PICK done \in FieldDone :
        \E g, prov : Outcomes(g, prov, [done EXCEPT !.pending = Retagged(r, @)],
                              source, Target(o), type)
  BY DEF Gesture
<1> DEFINE P == Retagged(r, done.pending)
           k == [done EXCEPT !.pending = Retagged(r, @)]
<1>3. k.pending = P
  BY DEF FieldDone
<1>4. \/ current' = Target(o) /\ pending' \subseteq P
      \/ current' = source /\ \E n : pending' = P \cup {Entry(Field(source, TRUE), n)}
  <2>1. PICK g, prov : Outcomes(g, prov, k, source, Target(o), type)
    BY <1>2
  <2> HIDE DEF P, k, source
  <2>2. \/ current' = Target(o) /\ pending' \subseteq k.pending
        \/ /\ current' = source
           /\ \E n : pending' = k.pending \cup {Entry(Field(source, TRUE), n)}
    BY <2>1, OutcomesKinds
  <2> QED
    BY <1>3, <2>2
<1>5. HasTags(P) /\ TagsOf(P) \subseteq {Gate!Renamed(r, n) : n \in PendingTags}
  BY RenamedDone
<1>6. /\ HasTags(typing') /\ AtMostOne(typing')
      /\ TagsOf(typing') \subseteq {Gate!Renamed(r, n) : n \in Gate!FocusTags}
  BY <1>1, FocusedTags
<1>7. \A n : /\ Entry(Field(source, TRUE), n).screen = source
             /\ "screen" \in DOMAIN Entry(Field(source, TRUE), n)
  BY DEF Entry, Field
<1>8. PendingTags' = TagsOf(pending') \cup TagsOf(typing')
  BY DEF PendingTags, TagsOf
<1> HIDE DEF P
<1>9. PendingShape'
  BY <1>4, <1>5, <1>6, <1>7 DEF PendingShape, HasTags
<1>10. \/ /\ current' = Target(o)
          /\ TagsOf(pending') \subseteq {Gate!Renamed(r, n) : n \in PendingTags}
       \/ /\ current' = source
          /\ TagsOf(pending') = TagsOf(P) \cup {source}
  <2>1. CASE current' = Target(o) /\ pending' \subseteq P
    BY <1>5, <2>1 DEF TagsOf
  <2>2. ASSUME NEW n, current' = source, pending' = P \cup {Entry(Field(source, TRUE), n)}
        PROVE  TagsOf(pending') = TagsOf(P) \cup {source}
    BY <1>7, <2>2 DEF TagsOf
  <2> QED
    BY <1>4, <2>1, <2>2
<1>11. \A R : (\A n : Gate!Renamed(R, n) = Gate!Renamed(r, n)) =>
          \/ current' = Target(o) /\ PendingTags' \in Gate!TagsLeft(R)
          \/ /\ current' = source
             /\ \E left \in Gate!TagsLeft(R) : PendingTags' = left \cup {current'}
  <2> TAKE R
  <2> HAVE \A n : Gate!Renamed(R, n) = Gate!Renamed(r, n)
  <2>1. CASE /\ current' = Target(o)
             /\ TagsOf(pending') \subseteq {Gate!Renamed(r, n) : n \in PendingTags}
    BY <1>6, <1>8, <2>1, TagsAfter
  <2>2. CASE current' = source /\ TagsOf(pending') = TagsOf(P) \cup {source}
    <3>1. TagsOf(P) \cup TagsOf(typing') \in Gate!TagsLeft(R)
      BY <1>5, <1>6, TagsAfter
    <3>2. PendingTags' = (TagsOf(P) \cup TagsOf(typing')) \cup {current'}
      BY <1>8, <2>2
    <3> QED
      BY <2>2, <3>1, <3>2
  <2> QED
    BY <1>10, <2>1, <2>2
<1>12. CASE o.settled
  <2>1. r = Gate!Renaming(o.c, o.d)
    BY <1>12 DEF Renames
  <2>2. \/ current' = Target(o) /\ PendingTags' \in Gate!TagsLeft(Gate!Renaming(o.c, o.d))
        \/ /\ current' = source
           /\ \E left \in Gate!TagsLeft(Gate!Renaming(o.c, o.d)) : PendingTags' = left \cup {current'}
    BY <1>11, <2>1
  <2> QED
    BY <1>1, <1>9, <1>12, <2>1, <2>2 DEF Enters, Target, Gate!ObserveSettled, Gate!FlipSettled
<1>13. CASE ~o.settled
  <2>1. \A n : Gate!Renamed([m \in {} |-> Gate!NoScreen], n) = Gate!Renamed(r, n)
    BY <1>13, NothingRenamed DEF Gate!Renamed
  <2>2. source = current
    BY <1>13, NothingRenamed
  <2>3. \/ current' = Target(o) /\ PendingTags' \in Gate!TagsLeft([m \in {} |-> Gate!NoScreen])
        \/ /\ current' = source
           /\ \E left \in Gate!TagsLeft([m \in {} |-> Gate!NoScreen]) : PendingTags' = left \cup {current'}
    BY <1>11, <2>1
  <2> QED
    BY <1>1, <1>9, <1>13, <2>2, <2>3 DEF Enters, Target, Gate!ObserveUnsettled, Gate!FlipUnsettled
<1> QED
  BY <1>12, <1>13

\* Standing on a screen, at the start or after a pause, is an observation.
LEMMA AnchorsIsGateStep ==
  ASSUME NEW o \in Observation, PendingShape, Anchors(o)
  PROVE  /\ PendingShape'
         /\ \/ o.settled /\ Gate!ObserveSettled(o.c, o.d)
            \/ ~o.settled /\ Gate!ObserveUnsettled(o.c)
<1> DEFINE r == Renames(o)
<1>1. /\ ~raised /\ Enters(o) /\ current' = Target(o)
      /\ typing' \in FocusedMeanwhile(r)
  BY DEF Anchors
<1>2. PICK done \in FieldDone : pending' = Retagged(r, done.pending)
  BY DEF Anchors
<1>3. HasTags(pending') /\ TagsOf(pending') \subseteq {Gate!Renamed(r, n) : n \in PendingTags}
  BY <1>2, RenamedDone
<1>4. /\ HasTags(typing') /\ AtMostOne(typing')
      /\ TagsOf(typing') \subseteq {Gate!Renamed(r, n) : n \in Gate!FocusTags}
  BY <1>1, FocusedTags
<1>5. PendingShape' /\ PendingTags' = TagsOf(pending') \cup TagsOf(typing')
  BY <1>3, <1>4 DEF PendingShape, HasTags, PendingTags, TagsOf
<1>6. CASE o.settled
  <2>1. r = Gate!Renaming(o.c, o.d)
    BY <1>6 DEF Renames
  <2>2. PendingTags' \in Gate!TagsLeft(Gate!Renaming(o.c, o.d))
    BY <1>3, <1>4, <1>5, <2>1, TagsAfter
  <2> QED
    BY <1>1, <1>5, <1>6, <2>2 DEF Enters, Target, Gate!ObserveSettled
<1>7. CASE ~o.settled
  <2>1. \A n : Gate!Renamed([m \in {} |-> Gate!NoScreen], n) = Gate!Renamed(r, n)
    BY <1>7, NothingRenamed DEF Gate!Renamed
  <2>2. PendingTags' \in Gate!TagsLeft([m \in {} |-> Gate!NoScreen])
    BY <1>3, <1>4, <1>5, <2>1, TagsAfter
  <2> QED
    BY <1>1, <1>5, <1>7, <2>2 DEF Enters, Target, Gate!ObserveUnsettled
<1> QED
  BY <1>6, <1>7

\* Following an unrecorded navigation is the gate's own reconcile.
LEMMA ReconcileIsGateStep ==
  ASSUME NEW c, NEW d, PendingShape, Reconcile(c, d)
  PROVE  PendingShape' /\ Gate!Reconcile(c, d)
<1>1. PICK done \in FieldDone : pending' = {x \in done.pending : x.screen = Gate!LookupId(c, d)}
  BY DEF Reconcile, Live
<1>2. HasTags(done.pending) /\ TagsOf(done.pending) \subseteq PendingTags
  BY FieldDoneTags
<1>3. typing' = {}
  BY DEF Reconcile
<1>4. PendingShape' /\ PendingTags' \subseteq PendingTags \cap {Gate!LookupId(c, d)}
  BY <1>1, <1>2, <1>3 DEF PendingShape, HasTags, AtMostOne, PendingTags, TagsOf
<1> QED
  BY <1>4 DEF Reconcile, Live, Gate!Reconcile

\* The gate counts as the builder does.
LEMMA SameCardinality == \A S : Gate!Cardinality(S) = Cardinality(S)
BY DEF Cardinality, Gate!Cardinality

\* Coarsening the family of two twins is the gate's merge.
LEMMA MarkTwinsIsGateStep ==
  ASSUME NEW c, PendingShape, MarkTwins(c)
  PROVE  PendingShape' /\ Gate!MergeTwins(c)
<1> DEFINE r == [n \in Gate!Family(c) |-> Gate!Fid(c)]
<1>0. ~raised /\ "twins" \in Merges /\ Cardinality(Gate!Family(c)) >= 2
  BY DEF MarkTwins
<1>1. CASE Gate!Fid(c) \in nodes
  <2>1. raised' = TRUE /\ UNCHANGED <<screens, exhausted, current, pending, typing>>
    BY <1>1 DEF MarkTwins, stagingVars
  <2>2. PendingShape' /\ PendingTags' = PendingTags
    BY <2>1 DEF PendingShape, HasTags, PendingTags
  <2> QED
    BY <1>0, <1>1, <2>1, <2>2, SameCardinality DEF Gate!MergeTwins, nodes, Gate!nodes
<1>2. CASE Gate!Fid(c) \notin nodes
  <2>1. /\ screens' = [n \in (nodes \ DOMAIN r) \cup {Gate!Fid(c)} |->
                         IF n \in nodes THEN screens[n]
                         ELSE [digest |-> NoDigest, coarse |-> Gate!NoScreen]]
        /\ exhausted' = exhausted \cup {c}
        /\ current' = Gate!Renamed(r, current)
        /\ pending' = Retagged(r, pending)
        /\ typing' = Retagged(r, typing)
        /\ UNCHANGED raised
    BY <1>2 DEF MarkTwins
  <2>2. /\ TagsOf(pending') = {Gate!Renamed(r, n) : n \in TagsOf(pending)}
        /\ TagsOf(typing') = {Gate!Renamed(r, n) : n \in TagsOf(typing)}
        /\ HasTags(pending') /\ HasTags(typing')
    <3> HIDE DEF r
    <3> QED
      BY <2>1, RetaggedTags DEF PendingShape
  <2>6. AtMostOne(typing')
    <3> HIDE DEF r
    <3> QED
      BY <2>1, RetaggedIsOne DEF PendingShape
  <2>3. PendingShape' /\ PendingTags' = TagsOf(pending') \cup TagsOf(typing')
    BY <2>2, <2>6 DEF PendingShape, HasTags, PendingTags, TagsOf
  <2>4. PendingTags' = {Gate!Renamed(r, n) : n \in PendingTags}
    <3> HIDE DEF r
    <3> QED
      BY <2>2, <2>3, PendingTagsSplit
  <2>5. DOMAIN r = Gate!Family(c) /\ nodes = Gate!nodes
    BY DEF nodes, Gate!nodes
  <2> QED
    BY <1>0, <1>2, <2>1, <2>3, <2>4, <2>5, SameCardinality DEF Gate!MergeTwins
<1> QED
  BY <1>1, <1>2

\* A cycle of the refresher stages the field in flight, or drops it with
\* nothing typed, and finds another one focused.
LEMMA TrackTextIsGateStep ==
  ASSUME PendingShape, TrackText
  PROVE  PendingShape' /\ Gate!TrackText
<1>1. PICK done \in FieldDone : pending' = done.pending
  BY DEF TrackText
<1>2. /\ ~raised /\ UNCHANGED <<screens, exhausted, current, raised>>
      /\ typing' \in {{}} \cup {{f} : f \in Fields(TRUE)}
  BY DEF TrackText, gateVars
<1>3. /\ HasTags(pending') /\ TagsOf(pending') \subseteq PendingTags
  BY <1>1, FieldDoneTags
<1>4. HasTags(Fields(TRUE)) /\ TagsOf(Fields(TRUE)) \subseteq Gate!FocusTags
  BY FieldTags
<1>5. /\ HasTags(typing') /\ AtMostOne(typing')
      /\ TagsOf(typing') \in {{}} \cup {{t} : t \in Gate!FocusTags}
  <2>1. CASE typing' = {}
    BY <2>1 DEF HasTags, AtMostOne, TagsOf
  <2>2. ASSUME NEW f \in Fields(TRUE), typing' = {f}
        PROVE  /\ HasTags(typing') /\ AtMostOne(typing')
               /\ TagsOf(typing') = {f.screen} /\ f.screen \in Gate!FocusTags
    BY <1>4, <2>2 DEF HasTags, AtMostOne, TagsOf
  <2> QED
    BY <1>2, <2>1, <2>2
<1>6. PendingShape' /\ PendingTags' = TagsOf(pending') \cup TagsOf(typing')
  BY <1>3, <1>5 DEF PendingShape, HasTags, PendingTags, TagsOf
<1>7. TagsOf(pending) \subseteq TagsOf(pending')
  BY <1>1 DEF FieldDone, TagsOf
<1>8. \E gone \in {{}} \cup {{t} : t \in PendingTags} :
        TagsOf(pending') = PendingTags \ gone
  <2>1. CASE typing = {}
    <3>1. PendingTags = TagsOf(pending)
      BY <2>1 DEF PendingTags, TagsOf
    <3>2. TagsOf(pending') = PendingTags \ {}
      BY <1>3, <1>7, <3>1
    <3> QED
      BY <3>2
  <2>2. ASSUME NEW f, typing = {f}
        PROVE  \E gone \in {{}} \cup {{t} : t \in PendingTags} :
                 TagsOf(pending') = PendingTags \ gone
    <3>1. PendingTags = TagsOf(pending) \cup {f.screen}
      BY <2>2 DEF PendingTags, TagsOf
    <3>2. CASE f.screen \in TagsOf(pending')
      <4>1. TagsOf(pending') = PendingTags \ {}
        BY <1>3, <1>7, <3>1, <3>2
      <4> QED
        BY <4>1
    <3>3. CASE f.screen \notin TagsOf(pending')
      <4>1. TagsOf(pending') = PendingTags \ {f.screen} /\ f.screen \in PendingTags
        BY <1>3, <1>7, <3>1, <3>3
      <4> QED
        BY <4>1
    <3> QED
      BY <3>2, <3>3
  <2> QED
    BY <2>1, <2>2 DEF PendingShape, AtMostOne
<1> QED
  BY <1>2, <1>5, <1>6, <1>8 DEF Gate!TrackText

\* Every step of the builder is a step of the gate or leaves it alone.
LEMMA StepGate ==
  ASSUME PendingShape, [Next]_vars
  PROVE  PendingShape' /\ [Gate!Next]_(Gate!vars)
<1> USE DEF gateVars, stagingVars, traceVars, launchVars
<1>1. ASSUME NEW o \in Observation, NEW type \in Gestures, Gesture(o, type)
      PROVE  PendingShape' /\ Gate!Next
  <2>1. o.c \in Coarse /\ o.d \in Observable
    BY DEF Observation
  <2> QED
    BY <1>1, <2>1, GestureIsGateStep DEF Gate!Next
<1>2. ASSUME NEW o \in Observation, Anchors(o)
      PROVE  PendingShape' /\ Gate!Next
  <2>1. o.c \in Coarse /\ o.d \in Observable
    BY DEF Observation
  <2> QED
    BY <1>2, <2>1, AnchorsIsGateStep DEF Gate!Next
<1>3. ASSUME NEW o \in Observation, Raises(o)
      PROVE  PendingShape' /\ Gate!Next
  <2>1. o.c \in Coarse /\ o.d \in Observable
    BY DEF Observation
  <2>2. PICK done \in FieldDone : pending' = done.pending
    BY <1>3 DEF Raises
  <2>3. HasTags(pending') /\ TagsOf(pending') \subseteq PendingTags /\ typing' = {}
    BY <1>3, <2>2, FieldDoneTags DEF Raises
  <2>4. PendingShape' /\ PendingTags' \subseteq PendingTags
    BY <2>3 DEF PendingShape, HasTags, AtMostOne, PendingTags, TagsOf
  <2>5. Gate!ObserveRaises(o.c, o.d)
    BY <1>3, <2>4 DEF Raises, Gate!ObserveRaises
  <2> QED
    BY <2>1, <2>4, <2>5 DEF Gate!Next
<1>4. ASSUME NEW c \in Coarse, NEW d \in Shows(c), Reconcile(c, d)
      PROVE  PendingShape' /\ Gate!Next
  <2>1. d \in Observable
    BY BuilderAssumption
  <2> QED
    BY <1>4, <2>1, ReconcileIsGateStep DEF Gate!Next
<1>5. CASE TrackText
  BY <1>5, TrackTextIsGateStep DEF Gate!Next
<1>6. ASSUME NEW e, ConfirmEdge(e) \/ RejectEdge(e) \/ CorrectEdge(e)
      PROVE  PendingShape' /\ UNCHANGED Gate!vars
  BY <1>6 DEF ConfirmEdge, RejectEdge, CorrectEdge, PendingShape, HasTags, AtMostOne, PendingTags, Gate!vars
<1>7. ASSUME NEW c \in Coarse, MarkTwins(c)
      PROVE  PendingShape' /\ Gate!Next
  BY <1>7, MarkTwinsIsGateStep DEF Gate!Next
<1>8. ASSUME NEW keep \in nodes, NEW dup \in nodes, MarkPlain(keep, dup)
      PROVE  PendingShape' /\ Gate!Next
  <2>1. PendingShape' /\ PendingTags' = PendingTags
    BY <1>8 DEF MarkPlain, PendingShape, HasTags, AtMostOne, PendingTags
  <2>2. Gate!MergePlain(keep, dup)
    BY <1>8, <2>1 DEF MarkPlain, Gate!MergePlain, nodes, Gate!nodes
  <2> QED
    BY <2>1, <2>2 DEF Gate!Next, nodes, Gate!nodes
<1>9. CASE UNCHANGED vars
  BY <1>9 DEF vars, PendingShape, HasTags, AtMostOne, PendingTags, Gate!vars
<1> QED
  BY <1>1, <1>2, <1>3, <1>4, <1>5, <1>6, <1>7, <1>8, <1>9 DEF Next, HumanEdit

\* The builder implements the identity gate: whatever is recorded, edited and
\* merged, its screens, its current_id and the tags of its typing go only where
\* the gate's specification lets them.
THEOREM BuilderImplementsGate == Spec => GateSpec
<1>1. Init => PendingShape /\ Gate!Init
  BY DEF Init, PendingShape, HasTags, AtMostOne, PendingTags, Gate!Init
<1> QED
  BY <1>1, StepGate, PTL DEF Spec, GateSpec, Gate!Spec

(***************************************************************************)
(* What the gate does to the nodes: there are finitely many, none is lost  *)
(* but by a human's merge, the recorder stands on one, and the twin marks  *)
(* of a node name its own coarse fingerprint, so that a rename never       *)
(* leaves a family.                                                        *)
(***************************************************************************)
MarksOwn(s) == \A n \in DOMAIN s : \A c : s[n].coarse = Gate!Fid(c) => CoarseOf(n) = c

NodesOK == /\ IsFiniteSet(nodes)
           /\ MarksOwn(screens)
           /\ Gate!NoScreen \notin nodes
           /\ current = Gate!NoScreen \/ current \in nodes

\* A rename: finitely many nodes, none of them renamed to another of them.
RenameOK(r) == IsFiniteSet(DOMAIN r) /\ \A n \in DOMAIN r : r[n] \notin DOMAIN r

KeepsCoarse(r) == \A n \in DOMAIN r : CoarseOf(r[n]) = CoarseOf(n)

\* The rename an observation decides is one, inside one family.
LEMMA RenamingIsRename ==
  ASSUME NEW c, NEW d, IsFiniteSet(nodes), MarksOwn(screens)
  PROVE  /\ RenameOK(Gate!Renaming(c, d))
         /\ KeepsCoarse(Gate!Renaming(c, d))
         /\ DOMAIN Gate!Renaming(c, d) \subseteq nodes
<1> DEFINE r == Gate!Renaming(c, d)
<1>1. DOMAIN r \subseteq nodes
  BY DEF Gate!Renaming, Gate!Collides, Gate!Family, Gate!nodes, nodes
<1>2. IsFiniteSet(DOMAIN r)
  <2> HIDE DEF r
  <2>1. DOMAIN r \in SUBSET nodes
    BY <1>1
  <2> QED
    BY <2>1, FS_Subset
<1>3. CASE Gate!Collides(c, d)
  BY <1>1, <1>2, <1>3 DEF Gate!Renaming, KeepsCoarse, RenameOK, CoarseOf, Gate!OldTwin, Gate!Fid, Gate!Tid
<1>4. CASE ~Gate!Collides(c, d) /\ Gate!Overflows(c, d)
  <2>1. r = [n \in Gate!Family(c) |-> Gate!Fid(c)]
    BY <1>4 DEF Gate!Renaming
  <2>2. \A n \in Gate!Family(c) : CoarseOf(n) = c
    BY DEF Gate!Family, Gate!nodes, MarksOwn
  <2>3. Gate!Fid(c) \notin Gate!Family(c)
    BY <1>4 DEF Gate!Overflows, Gate!InFamily, Gate!Family
  <2> QED
    BY <1>1, <1>2, <2>1, <2>2, <2>3 DEF RenameOK, KeepsCoarse, CoarseOf, Gate!Fid
<1>5. CASE ~Gate!Collides(c, d) /\ ~Gate!Overflows(c, d)
  BY <1>1, <1>2, <1>5 DEF Gate!Renaming, KeepsCoarse, RenameOK
<1> QED
  BY <1>3, <1>4, <1>5

\* A human's merge of a family whose coarse node is gone is one, too.
LEMMA CoarseningIsRename ==
  ASSUME NEW c, IsFiniteSet(nodes), MarksOwn(screens), Gate!Fid(c) \notin nodes
  PROVE  LET r == [n \in Gate!Family(c) |-> Gate!Fid(c)]
         IN  RenameOK(r) /\ KeepsCoarse(r) /\ DOMAIN r \subseteq nodes
<1>1. Gate!Family(c) \in SUBSET nodes /\ Gate!Fid(c) \notin Gate!Family(c)
  BY DEF Gate!Family, Gate!nodes, nodes
<1>2. \A n \in Gate!Family(c) : CoarseOf(n) = c
  BY DEF Gate!Family, Gate!nodes, MarksOwn
<1>3. IsFiniteSet(Gate!Family(c))
  BY <1>1, FS_Subset
<1> QED
  BY <1>1, <1>2, <1>3 DEF RenameOK, KeepsCoarse, CoarseOf, Gate!Fid

\* The nodes after a settled observation.
LEMMA SettledNodes ==
  ASSUME NEW c, NEW d, screens' = Gate!ScreensAfter(c, d),
         IsFiniteSet(nodes), MarksOwn(screens), Gate!NoScreen \notin nodes
  PROVE  /\ nodes' = {Gate!Renamed(Gate!Renaming(c, d), n) : n \in nodes} \cup {Gate!ResolvedId(c, d)}
         /\ IsFiniteSet(nodes') /\ MarksOwn(screens)' /\ Gate!NoScreen \notin nodes'
<1> DEFINE r == Gate!Renaming(c, d)
           image == {Gate!Renamed(r, m) : m \in nodes}
<1>1. nodes' = image \cup {Gate!ResolvedId(c, d)}
  BY DEF Gate!ScreensAfter, Gate!nodes, nodes
<1>2. Gate!ResolvedId(c, d) # Gate!NoScreen
  BY DEF Gate!ResolvedId, Gate!Tid, Gate!Fid, Gate!NoScreen
<1>3. \A n \in DOMAIN r : r[n] # Gate!NoScreen
  BY DEF Gate!Renaming, Gate!OldTwin, Gate!Tid, Gate!Fid, Gate!NoScreen
<1> HIDE DEF r
<1>4. \A n \in nodes : Gate!Renamed(r, n) # Gate!NoScreen
  BY <1>3 DEF Gate!Renamed
<1>5. IsFiniteSet(image)
  <2>1. [m \in nodes |-> Gate!Renamed(r, m)] \in Surjection(nodes, image)
    BY DEF Surjection
  <2> HIDE DEF image
  <2> QED
    BY <2>1, FS_Surjection
<1>6. IsFiniteSet(nodes')
  <2> HIDE DEF image
  <2> QED
    BY <1>1, <1>5, FS_AddElement
<1>7. MarksOwn(screens)'
  <2> SUFFICES ASSUME NEW n \in DOMAIN screens', NEW k, screens'[n].coarse = Gate!Fid(k)
               PROVE  CoarseOf(n) = k
    BY DEF MarksOwn
  <2>1. Gate!Fid(k) # Gate!NoScreen /\ \A j : Gate!Fid(j) = Gate!Fid(k) => j = k
    BY DEF Gate!Fid, Gate!NoScreen
  <2>2. CASE Gate!Collides(c, d) /\ n = Gate!OldTwin(c)
    <3>1. screens'[n].coarse = Gate!Fid(c)
      BY <2>2 DEF Gate!ScreensAfter
    <3> QED
      BY <2>1, <2>2, <3>1 DEF Gate!OldTwin, Gate!Tid, CoarseOf
  <2>3. CASE Gate!Overflows(c, d) /\ n = Gate!Fid(c) /\ ~(Gate!Collides(c, d) /\ n = Gate!OldTwin(c))
    <3>1. screens'[n].coarse = Gate!NoScreen
      BY <2>3 DEF Gate!ScreensAfter
    <3> QED
      BY <2>1, <3>1
  <2>4. CASE n \in DOMAIN screens /\ screens'[n].coarse = screens[n].coarse
    BY <2>4 DEF MarksOwn
  <2>5. CASE /\ ~(Gate!Collides(c, d) /\ n = Gate!OldTwin(c))
             /\ ~(Gate!Overflows(c, d) /\ n = Gate!Fid(c))
             /\ ~(n \in DOMAIN screens /\ screens'[n].coarse = screens[n].coarse)
    <3>1. n \notin DOMAIN screens
      BY <2>5 DEF Gate!ScreensAfter, Gate!nodes, Gate!Backfills
    <3>2. screens'[n] = Gate!Carriers(c, d)
      BY <2>5, <3>1 DEF Gate!ScreensAfter, Gate!nodes, Gate!Backfills
    <3>3. n = Gate!ResolvedId(c, d)
      BY <2>5, <3>1 DEF Gate!ScreensAfter, Gate!nodes, Gate!Renamed, Gate!Renaming
    <3>4. CASE Gate!IsTwin(c, d)
      BY <2>1, <3>2, <3>3, <3>4 DEF Gate!Carriers, Gate!ResolvedId, Gate!Tid, CoarseOf
    <3>5. CASE ~Gate!IsTwin(c, d)
      BY <2>1, <3>2, <3>5 DEF Gate!Carriers
    <3> QED
      BY <3>4, <3>5
  <2> QED
    BY <2>2, <2>3, <2>4, <2>5
<1> QED
  BY <1>1, <1>2, <1>4, <1>6, <1>7 DEF r

\* The nodes after a mint without marks.
LEMMA MintedNodes ==
  ASSUME NEW id, Gate!MintPlain(id), id # Gate!NoScreen,
         IsFiniteSet(nodes), MarksOwn(screens), Gate!NoScreen \notin nodes
  PROVE  /\ nodes' = nodes \cup {id}
         /\ IsFiniteSet(nodes') /\ MarksOwn(screens)' /\ Gate!NoScreen \notin nodes'
<1>1. nodes' = nodes \cup {id}
  BY DEF Gate!MintPlain, Gate!nodes, nodes
<1>2. IsFiniteSet(nodes')
  BY <1>1, FS_AddElement
<1>3. MarksOwn(screens)'
  BY DEF MarksOwn, Gate!MintPlain, Gate!nodes, Gate!Fid, Gate!NoScreen
<1> QED
  BY <1>1, <1>2, <1>3

\* What entering a screen does to the nodes.
LEMMA EntersNodes ==
  ASSUME NEW o, Enters(o), IsFiniteSet(nodes), MarksOwn(screens), Gate!NoScreen \notin nodes
  PROVE  /\ RenameOK(Renames(o)) /\ KeepsCoarse(Renames(o))
         /\ DOMAIN Renames(o) \subseteq nodes
         /\ nodes' = {Gate!Renamed(Renames(o), n) : n \in nodes} \cup {Target(o)}
         /\ IsFiniteSet(nodes') /\ MarksOwn(screens)' /\ Gate!NoScreen \notin nodes'
<1>1. CASE o.settled
  <2>1. screens' = Gate!ScreensAfter(o.c, o.d)
    BY <1>1 DEF Enters
  <2>2. Renames(o) = Gate!Renaming(o.c, o.d) /\ Target(o) = Gate!ResolvedId(o.c, o.d)
    BY <1>1 DEF Renames, Target
  <2> QED
    BY <2>1, <2>2, SettledNodes, RenamingIsRename
<1>2. CASE ~o.settled
  <2>1. Gate!MintPlain(Gate!Vid(o.c)) /\ Target(o) = Gate!Vid(o.c)
    BY <1>2 DEF Enters, Target
  <2>2. Gate!Vid(o.c) # Gate!NoScreen
    BY DEF Gate!Vid, Gate!NoScreen
  <2>3. DOMAIN Renames(o) = {}
    BY <1>2 DEF Renames
  <2>4. RenameOK(Renames(o)) /\ KeepsCoarse(Renames(o))
    BY <2>3, FS_EmptySet DEF RenameOK, KeepsCoarse
  <2>5. \A n : Gate!Renamed(Renames(o), n) = n
    BY <1>2, NothingRenamed
  <2> QED
    BY <2>1, <2>2, <2>3, <2>4, <2>5, MintedNodes
<1> QED
  BY <1>1, <1>2

(***************************************************************************)
(* The steps, as far as the trace is concerned.  A step renames nodes and  *)
(* then leaves the trace alone (Kept) or adds one edge (Grown), or it is a *)
(* human edit.                                                             *)
(***************************************************************************)
\* g is the trace once r renamed its nodes: the edges have moved, each to its
\* renamed ends, and the chronological list names them at their places.
Follow(g, r) ==
  LET h == MovedBy(g.remap, edges)
  IN  /\ KeysOK(g.edges)
      /\ Moves(h, edges, g.edges)
      /\ \A e \in DOMAIN edges : /\ h[e][1] = Gate!Renamed(r, e[1])
                                /\ h[e][2] = Gate!Renamed(r, e[2])
      /\ order \in Seq(DOMAIN edges) =>
           /\ g.order \in Seq(DOMAIN g.edges) /\ Len(g.order) = Len(order)
           /\ \A k \in 1 .. Len(order) : g.order[k] = h[order[k]]

\* The renames of RedirectAll, in whatever order they are made.
LEMMA RenameFollows ==
  ASSUME NEW r, NEW ms, KeysOK(edges), RenameOK(r),
         Len(ms) \in Nat, {ms[j] : j \in 1 .. Len(ms)} = DOMAIN r
  PROVE  Follow(RedirectAll(edges, order, ms, r), r)
<1> DEFINE g == RedirectAll(edges, order, ms, r)
           h == MovedBy(g.remap, edges)
<1>1. Apart(ms, r)
  BY DEF Apart, RenameOK
<1>2. /\ KeysOK(g.edges)
      /\ Moves(h, edges, g.edges)
      /\ DOMAIN g.order = DOMAIN order
      /\ \A k \in DOMAIN order : order[k] \in DOMAIN edges => g.order[k] = h[order[k]]
      /\ order \in Seq(DOMAIN edges) => g.order \in Seq(DOMAIN g.edges)
      /\ \A e \in DOMAIN edges : /\ h[e][1] = EndAfter(ms, r, Len(ms), e[1])
                                /\ h[e][2] = EndAfter(ms, r, Len(ms), e[2])
  BY <1>1, RenameMovesEdges
<1> HIDE DEF g
<1>3. \A n : EndAfter(ms, r, Len(ms), n) = Gate!Renamed(r, n)
  BY DEF EndAfter, Gate!Renamed
<1> HIDE DEF h
<1>4. ASSUME order \in Seq(DOMAIN edges)
      PROVE  /\ g.order \in Seq(DOMAIN g.edges) /\ Len(g.order) = Len(order)
             /\ \A k \in 1 .. Len(order) : g.order[k] = h[order[k]]
  BY <1>2, <1>4
<1> QED
  BY <1>2, <1>3, <1>4 DEF Follow, g, h

\* An order of renames lists the renamed nodes.
LEMMA OrdersListNodes ==
  ASSUME NEW r, IsFiniteSet(DOMAIN r), NEW ms \in RenameOrders(r)
  PROVE  Len(ms) \in Nat /\ {ms[j] : j \in 1 .. Len(ms)} = DOMAIN r
<1> DEFINE S == DOMAIN r
           n == Cardinality(S)
<1>1. ms \in [1 .. n -> S] /\ \A i, j \in 1 .. n : i # j => ms[i] # ms[j]
  BY DEF RenameOrders, SetToSeqs
<1>2. n \in Nat /\ IsFiniteSet(1 .. n) /\ Cardinality(1 .. n) = n
  <2>1. n \in Nat
    BY FS_CardinalityType
  <2> HIDE DEF n
  <2>2. 1 \in Int /\ n \in Int
    BY <2>1
  <2> QED
    BY <2>1, <2>2, FS_Interval
<1> HIDE DEF S
<1>3. ms \in Surjection(1 .. n, S)
  <2>1. ms \in Injection(1 .. n, S)
    BY <1>1 DEF Injection, IsInjective
  <2>2. Cardinality(S) = n /\ IsFiniteSet(S)
    BY DEF S
  <2> HIDE DEF n
  <2> QED
    BY <1>2, <2>1, <2>2, FS_Injection
<1> HIDE DEF n
<1>4. Len(ms) = n
  <2>1. ms \in Seq(S)
    BY <1>1, <1>2
  <2> QED
    BY <1>1, <1>2, <2>1
<1>5. \A s \in S : \E j \in 1 .. n : ms[j] = s
  BY <1>3 DEF Surjection
<1>6. {ms[j] : j \in 1 .. n} = S
  BY <1>1, <1>5
<1> QED
  BY <1>2, <1>4, <1>6 DEF S

EdgeFields == {"action", "class", "pre", "needs_confirmation", "at", "from", "to"}

\* The staged pre-actions once the field in flight is done (k) and after the
\* renames r: retagged, and one staged more when the gesture flipped a
\* checkable.
Restaged(r, k) ==
  LET pend == Retagged(r, k.pending)
  IN  /\ UNCHANGED discarded
      /\ \/ pending' = pend /\ staged' = k.staged
         \/ /\ staged' = k.staged + 1
            /\ \E f : pending' = pend \cup {Entry(f, k.staged + 1)}

\* Those of them a new edge takes along: all that are staged on its source,
\* unless it is a scroll edge.
Takes(r, k, data) ==
  LET pend == Retagged(r, k.pending)
  IN  /\ staged' = k.staged /\ UNCHANGED discarded
      /\ \E M \in SUBSET pend :
           /\ data.class = "scroll" \/ M = Mine(pend, Gate!Renamed(r, current))
           /\ data.pre = Carried(M)
           /\ pending' = pend \ M

Kept(g, r) ==
  /\ edges' = g.edges /\ order' = g.order /\ provisional' = Trace(g.remap, provisional)
  /\ UNCHANGED <<committed, settledBy>>
  /\ \E k \in FieldDone : Restaged(r, k)

Grown(g, r) ==
  /\ current \in nodes /\ current' \in nodes'
  /\ UNCHANGED settledBy
  /\ \E data :
       /\ DOMAIN data = EdgeFields
       /\ data.at = committed + 1
       /\ data.from = CoarseOf(Gate!Renamed(r, current)) /\ data.to = CoarseOf(current')
       /\ \E k \in FieldDone : Takes(r, k, data)
       /\ Adds(g, Trace(g.remap, provisional), Gate!Renamed(r, current), current', data)

NodesFollow(r) == \A n \in nodes : Gate!Renamed(r, n) \in nodes'

\* The trace of one gesture.
LEMMA OutcomesTrace ==
  ASSUME NEW g, NEW r, NEW done \in FieldDone, NEW id, NEW type,
         current \in nodes, id \in nodes', UNCHANGED settledBy,
         Outcomes(g, Trace(g.remap, provisional), [done EXCEPT !.pending = Retagged(r, @)],
                  Gate!Renamed(r, current), id, type)
  PROVE  Kept(g, r) \/ Grown(g, r)
<1> DEFINE source == Gate!Renamed(r, current)
           prov == Trace(g.remap, provisional)
           pend == Retagged(r, done.pending)
           k == [done EXCEPT !.pending = Retagged(r, @)]
<1>0. k.pending = pend /\ k.staged = done.staged
  BY DEF FieldDone
<1>1. \A class, pre, unsure :
        LET data == EdgeData(source, id, type, class, pre, unsure)
        IN  /\ DOMAIN data = EdgeFields /\ data.at = committed + 1
            /\ data.from = CoarseOf(source) /\ data.to = CoarseOf(id)
            /\ data.pre = pre /\ data.class = class
  BY DEF EdgeData, EdgeFields
<1>2. LET data == EdgeData(source, id, "swipe", "scroll", {}, FALSE)
      IN  /\ DOMAIN data = EdgeFields /\ data.at = committed + 1
          /\ data.from = CoarseOf(source) /\ data.to = CoarseOf(id)
          /\ data.pre = {} /\ data.class = "scroll"
  BY DEF EdgeData, EdgeFields
<1> HIDE DEF source, prov, pend, k
<1>3. CASE Flip(g, prov, k, source)
  <2>1. Restaged(r, done)
    BY <1>0, <1>3 DEF Flip, Restaged, pend
  <2> QED
    BY <1>3, <2>1 DEF Flip, KeepsTrace, Kept, prov
<1>4. CASE Probe(g, prov, k, id)
  <2>1. Restaged(r, done)
    BY <1>0, <1>4 DEF Probe, Restaged, pend
  <2> QED
    BY <1>4, <2>1 DEF Probe, KeepsTrace, Kept, prov
<1>5. CASE Scroll(g, prov, k, source, id)
  <2>1. pending' = pend /\ staged' = done.staged /\ UNCHANGED discarded /\ current' = id
    BY <1>0, <1>5 DEF Scroll
  <2>2. CASE KeepsTrace(g, prov)
    <3>1. Restaged(r, done)
      BY <2>1 DEF Restaged, pend
    <3> QED
      BY <2>2, <3>1 DEF KeepsTrace, Kept, prov
  <2>3. CASE Adds(g, prov, source, id, EdgeData(source, id, "swipe", "scroll", {}, FALSE))
    <3> DEFINE data == EdgeData(source, id, "swipe", "scroll", {}, FALSE)
    <3>1. data.pre = {} /\ data.class = "scroll"
      BY <1>2
    <3> HIDE DEF data
    <3>2. Takes(r, done, data)
      <4>1. data.pre = Carried({}) /\ pending' = pend \ {}
        BY <2>1, <3>1 DEF Carried
      <4> QED
        BY <2>1, <3>1, <4>1 DEF Takes, pend
    <3> QED
      BY <1>2, <2>1, <2>3, <3>2 DEF Grown, prov, source, data
  <2> QED
    BY <1>5, <2>2, <2>3 DEF Scroll
<1>6. ASSUME NEW unsure, Commit(g, prov, k, source, id, type, unsure)
      PROVE  Kept(g, r) \/ Grown(g, r)
  <2> DEFINE M == Mine(pend, source)
  <2>1. /\ pending' = pend \ M /\ staged' = done.staged /\ UNCHANGED discarded
        /\ current' = id /\ M \in SUBSET pend
    BY <1>0, <1>6 DEF Commit, Rest, Mine
  <2>2. CASE KeepsTrace(g, prov) /\ Carried(M) = {}
    <3>1. M = {}
      BY <2>2 DEF Carried
    <3> HIDE DEF M
    <3>2. pending' = pend
      BY <2>1, <3>1
    <3>3. Restaged(r, done)
      BY <2>1, <3>2 DEF Restaged, pend
    <3> QED
      BY <2>2, <3>3 DEF KeepsTrace, Kept, prov
  <2>3. CASE Adds(g, prov, source, id, EdgeData(source, id, type, type, Carried(M), unsure))
    <3> DEFINE data == EdgeData(source, id, type, type, Carried(M), unsure)
    <3>1. /\ DOMAIN data = EdgeFields /\ data.at = committed + 1
          /\ data.from = CoarseOf(source) /\ data.to = CoarseOf(id)
          /\ data.pre = Carried(M)
      BY <1>1
    <3>2. Adds(g, prov, source, id, data)
      BY <2>3
    <3> HIDE DEF data
    <3>3. Takes(r, done, data)
      BY <2>1, <3>1 DEF Takes, pend, source
    <3> HIDE DEF M
    <3> QED
      BY <2>1, <3>1, <3>2, <3>3 DEF Grown, prov, source
  <2> QED
    BY <1>0, <1>6, <2>2, <2>3 DEF Commit
<1> QED
  BY <1>3, <1>4, <1>5, <1>6 DEF Outcomes, prov, source, pend, k

\* What may happen to the staged pre-actions while the trace stands still.
FieldEnds ==
  /\ UNCHANGED discarded
  /\ \E k \in FieldDone : pending' = k.pending /\ staged' = k.staged

Stages ==
  \/ UNCHANGED stagingVars
  \/ FieldEnds
  \/ \E c \in Coarse : \E d \in Shows(c) : Reconcile(c, d)

\* Every step, as far as the trace is concerned.
LEMMA StepKinds ==
  ASSUME NodesOK, KeysOK(edges), [Next]_vars
  PROVE  \/ \E r, g : /\ RenameOK(r) /\ KeepsCoarse(r) /\ NodesFollow(r)
                     /\ Follow(g, r) /\ (Kept(g, r) \/ Grown(g, r))
         \/ \E keep, dup \in nodes : MarkPlain(keep, dup)
         \/ \E e \in ToSet(provisional) : ConfirmEdge(e)
         \/ \E e \in DOMAIN edges : RejectEdge(e) \/ CorrectEdge(e)
         \/ UNCHANGED traceVars /\ nodes \subseteq nodes' /\ Stages
<1> DEFINE Renames_ == \E r, g : /\ RenameOK(r) /\ KeepsCoarse(r) /\ NodesFollow(r)
                                /\ Follow(g, r) /\ (Kept(g, r) \/ Grown(g, r))
           Still == UNCHANGED traceVars /\ nodes \subseteq nodes' /\ Stages
<1>0. IsFiniteSet(nodes) /\ MarksOwn(screens) /\ Gate!NoScreen \notin nodes
  BY DEF NodesOK
<1>1. ASSUME NEW o \in Observation, NEW type \in Gestures, Gesture(o, type)
      PROVE  Renames_
  <2> DEFINE r == Renames(o)
  <2>1. RenameOK(r) /\ KeepsCoarse(r) /\ NodesFollow(r) /\ Target(o) \in nodes'
    BY <1>0, <1>1, EntersNodes DEF Gesture, NodesFollow
  <2>2. current \in nodes /\ UNCHANGED settledBy
    BY <1>1 DEF Gesture, NodesOK
  <2>3. PICK done \in FieldDone, ms \in RenameOrders(r) :
          LET g == RedirectAll(edges, order, ms, r)
          IN  Outcomes(g, Trace(g.remap, provisional), [done EXCEPT !.pending = Retagged(r, @)],
                       Gate!Renamed(r, current), Target(o), type)
    BY <1>1 DEF Gesture
  <2> DEFINE g == RedirectAll(edges, order, ms, r)
  <2> HIDE DEF r
  <2>4. Follow(g, r)
    BY <2>1, OrdersListNodes, RenameFollows DEF RenameOK
  <2> HIDE DEF g
  <2>5. Outcomes(g, Trace(g.remap, provisional), [done EXCEPT !.pending = Retagged(r, @)],
                 Gate!Renamed(r, current), Target(o), type)
    BY <2>3 DEF g
  <2>6. Kept(g, r) \/ Grown(g, r)
    BY <2>1, <2>2, <2>5, OutcomesTrace
  <2> QED
    BY <2>1, <2>4, <2>6
<1>2. ASSUME NEW o \in Observation, Anchors(o)
      PROVE  Renames_
  <2> DEFINE r == Renames(o)
  <2>1. RenameOK(r) /\ KeepsCoarse(r) /\ NodesFollow(r)
    BY <1>0, <1>2, EntersNodes DEF Anchors, NodesFollow
  <2>2. PICK done \in FieldDone, ms \in RenameOrders(r) :
          /\ LET g == RedirectAll(edges, order, ms, r)
             IN  KeepsTrace(g, Trace(g.remap, provisional))
          /\ pending' = Retagged(r, done.pending)
          /\ staged' = done.staged
    BY <1>2 DEF Anchors
  <2>3. UNCHANGED settledBy /\ Restaged(r, done)
    BY <1>2, <2>2 DEF Anchors, Restaged
  <2> DEFINE g == RedirectAll(edges, order, ms, r)
  <2> HIDE DEF r
  <2>4. Follow(g, r)
    BY <2>1, OrdersListNodes, RenameFollows DEF RenameOK
  <2>5. Kept(g, r)
    BY <2>2, <2>3 DEF KeepsTrace, Kept
  <2> HIDE DEF g
  <2> QED
    BY <2>1, <2>4, <2>5
<1>3. ASSUME NEW o, Raises(o)
      PROVE  Still
  BY <1>3 DEF Raises, traceVars, nodes, Stages, FieldEnds
<1>4. ASSUME NEW c \in Coarse, NEW d \in Shows(c), Reconcile(c, d)
      PROVE  Still
  BY <1>4 DEF Reconcile, Live, traceVars, nodes, Gate!MintPlain, Gate!nodes, Stages
<1>5. CASE TrackText
  BY <1>5 DEF TrackText, traceVars, gateVars, nodes, Stages, FieldEnds
<1>6. ASSUME NEW c \in Coarse, MarkTwins(c)
      PROVE  Renames_ \/ Still
  <2> DEFINE r == [n \in Gate!Family(c) |-> Gate!Fid(c)]
  <2>1. CASE Gate!Fid(c) \in nodes
    BY <1>6, <2>1 DEF MarkTwins, traceVars, nodes, Stages
  <2>2. CASE Gate!Fid(c) \notin nodes
    <3>1. RenameOK(r) /\ KeepsCoarse(r)
      BY <1>0, <2>2, CoarseningIsRename
    <3>2. NodesFollow(r)
      <4>1. nodes' = (nodes \ DOMAIN r) \cup {Gate!Fid(c)}
        BY <1>6, <2>2 DEF MarkTwins, nodes
      <4> QED
        BY <4>1 DEF NodesFollow, Gate!Renamed
    <3>3. PICK ms \in RenameOrders(r) :
            LET g == RedirectAll(edges, order, ms, r)
            IN  KeepsTrace(g, Trace(g.remap, provisional))
      BY <1>6, <2>2 DEF MarkTwins
    <3>4. UNCHANGED settledBy /\ \E k \in FieldDone : Restaged(r, k)
      <4> DEFINE k == [pending |-> pending, staged |-> staged]
      <4>1. k \in FieldDone
        BY DEF FieldDone
      <4>2. UNCHANGED settledBy /\ Restaged(r, k)
        BY <1>6, <2>2 DEF MarkTwins, Restaged
      <4> QED
        BY <4>1, <4>2
    <3> DEFINE g == RedirectAll(edges, order, ms, r)
    <3> HIDE DEF r
    <3>5. Follow(g, r)
      BY <3>1, OrdersListNodes, RenameFollows DEF RenameOK
    <3>6. Kept(g, r)
      BY <3>3, <3>4 DEF KeepsTrace, Kept
    <3> HIDE DEF g
    <3> QED
      BY <3>1, <3>2, <3>5, <3>6
  <2> QED
    BY <2>1, <2>2
<1>7. CASE UNCHANGED vars
  BY <1>7 DEF vars, traceVars, gateVars, nodes, Stages
<1> QED
  BY <1>1, <1>2, <1>3, <1>4, <1>5, <1>6, <1>7 DEF Next, HumanEdit

(***************************************************************************)
(* The recorder stands on a node of a finite graph.                        *)
(***************************************************************************)
LEMMA StepNodesOK == NodesOK /\ [Next]_vars => NodesOK'
<1> SUFFICES ASSUME NodesOK, [Next]_vars PROVE NodesOK'
  OBVIOUS
<1>0. IsFiniteSet(nodes) /\ MarksOwn(screens) /\ Gate!NoScreen \notin nodes
  BY DEF NodesOK
<1>1. ASSUME NEW o \in Observation, NEW type \in Gestures, Gesture(o, type)
      PROVE  NodesOK'
  <2>1. /\ IsFiniteSet(nodes') /\ MarksOwn(screens)' /\ Gate!NoScreen \notin nodes'
        /\ Target(o) \in nodes' /\ \A n \in nodes : Gate!Renamed(Renames(o), n) \in nodes'
    BY <1>0, <1>1, EntersNodes DEF Gesture
  <2>2. current' = Target(o) \/ current' = Gate!Renamed(Renames(o), current)
    BY <1>1, OutcomesKinds DEF Gesture
  <2>3. current \in nodes
    BY <1>1 DEF Gesture, NodesOK
  <2> QED
    BY <2>1, <2>2, <2>3 DEF NodesOK
<1>2. ASSUME NEW o \in Observation, Anchors(o)
      PROVE  NodesOK'
  <2>1. /\ IsFiniteSet(nodes') /\ MarksOwn(screens)' /\ Gate!NoScreen \notin nodes'
        /\ Target(o) \in nodes'
    BY <1>0, <1>2, EntersNodes DEF Anchors
  <2> QED
    BY <1>2, <2>1 DEF Anchors, NodesOK
<1>3. ASSUME NEW o, Raises(o)
      PROVE  NodesOK'
  BY <1>3 DEF Raises, NodesOK, nodes
<1>4. ASSUME NEW c, NEW d, Reconcile(c, d)
      PROVE  NodesOK'
  <2>1. Gate!MintPlain(Gate!LookupId(c, d)) /\ Gate!LookupId(c, d) # Gate!NoScreen
        /\ current' = Gate!LookupId(c, d)
    BY <1>4 DEF Reconcile, Live
  <2> QED
    BY <1>0, <2>1, MintedNodes DEF NodesOK
<1>5. CASE TrackText
  BY <1>5 DEF TrackText, gateVars, NodesOK, nodes
<1>6. ASSUME NEW c \in Coarse, MarkTwins(c)
      PROVE  NodesOK'
  <2> DEFINE r == [n \in Gate!Family(c) |-> Gate!Fid(c)]
  <2>1. CASE Gate!Fid(c) \in nodes
    BY <1>6, <2>1 DEF MarkTwins, NodesOK, nodes
  <2>2. CASE Gate!Fid(c) \notin nodes
    <3>1. /\ screens' = [n \in (nodes \ DOMAIN r) \cup {Gate!Fid(c)} |->
                           IF n \in nodes THEN screens[n]
                           ELSE [digest |-> NoDigest, coarse |-> Gate!NoScreen]]
          /\ current' = Gate!Renamed(r, current)
      BY <1>6, <2>2 DEF MarkTwins
    <3>2. nodes' = (nodes \ DOMAIN r) \cup {Gate!Fid(c)}
      BY <3>1 DEF nodes
    <3>3. IsFiniteSet(nodes')
      <4>1. IsFiniteSet(nodes \ DOMAIN r)
        BY <1>0, FS_Difference
      <4> QED
        BY <3>2, <4>1, FS_AddElement
    <3>4. MarksOwn(screens)'
      BY <1>0, <2>2, <3>1 DEF MarksOwn, nodes, Gate!Fid, Gate!NoScreen
    <3>5. Gate!Fid(c) # Gate!NoScreen
      BY DEF Gate!Fid, Gate!NoScreen
    <3>6. Gate!NoScreen \notin DOMAIN r /\ \A n \in DOMAIN r : r[n] = Gate!Fid(c)
      BY <1>0 DEF Gate!Family, Gate!nodes, nodes
    <3> HIDE DEF r
    <3>7. current' = Gate!NoScreen \/ current' \in nodes'
      <4>1. CASE current = Gate!NoScreen
        BY <3>1, <3>6, <4>1 DEF Gate!Renamed
      <4>2. CASE current \in nodes
        BY <3>1, <3>2, <3>6, <4>2 DEF Gate!Renamed
      <4> QED
        BY <4>1, <4>2 DEF NodesOK
    <3> QED
      BY <1>0, <3>2, <3>3, <3>4, <3>5, <3>7 DEF NodesOK
  <2> QED
    BY <2>1, <2>2
<1>7. ASSUME NEW keep \in nodes, NEW dup \in nodes, MarkPlain(keep, dup)
      PROVE  NodesOK'
  <2>1. /\ keep # dup /\ screens' = [n \in nodes \ {dup} |-> screens[n]]
        /\ current' = IF current = dup THEN keep ELSE current
    BY <1>7 DEF MarkPlain
  <2>2. nodes' = nodes \ {dup}
    BY <2>1 DEF nodes
  <2>3. IsFiniteSet(nodes')
    BY <1>0, <2>2, FS_RemoveElement
  <2>4. MarksOwn(screens)'
    BY <1>0, <2>1 DEF MarksOwn, nodes
  <2> QED
    BY <1>0, <2>1, <2>2, <2>3, <2>4 DEF NodesOK
<1>8. ASSUME NEW e, ConfirmEdge(e) \/ RejectEdge(e) \/ CorrectEdge(e)
      PROVE  NodesOK'
  BY <1>8 DEF ConfirmEdge, RejectEdge, CorrectEdge, gateVars, NodesOK, nodes
<1>9. CASE UNCHANGED vars
  BY <1>9 DEF vars, gateVars, NodesOK, nodes
<1> QED
  BY <1>1, <1>2, <1>3, <1>4, <1>5, <1>6, <1>7, <1>8, <1>9 DEF Next, HumanEdit

LEMMA InitNodesOK == Init => NodesOK
<1>1. IsFiniteSet({})
  BY FS_EmptySet
<1> QED
  BY <1>1 DEF Init, NodesOK, MarksOwn, nodes

(***************************************************************************)
(* No rename loses a committed transition.                                 *)
(***************************************************************************)
EdgesOK(E) == KeysOK(E) /\ \A e \in DOMAIN E : DOMAIN E[e] = EdgeFields

Ats(E) == {E[e].at : e \in DOMAIN E}

\* A plain merge moves edges as a rename does.
LEMMA MarkPlainFollows ==
  ASSUME NodesOK, KeysOK(edges), NEW keep \in nodes, NEW dup \in nodes, MarkPlain(keep, dup)
  PROVE  \E r, g : Follow(g, r) /\ edges' = g.edges /\ order' = g.order
<1> DEFINE r == [n \in {dup} |-> keep]
           g == RedirectAll(edges, order, <<dup>>, r)
<1>1. RenameOK(r)
  BY FS_Singleton DEF RenameOK, MarkPlain
<1>2. Len(<<dup>>) = 1 /\ <<dup>>[1] = dup
  OBVIOUS
<1>3. {<<dup>>[j] : j \in 1 .. Len(<<dup>>)} = DOMAIN r
  BY <1>2
<1>4. edges' = g.edges /\ order' = g.order
  BY DEF MarkPlain
<1> HIDE DEF r
<1>5. Follow(g, r)
  BY <1>1, <1>2, <1>3, RenameFollows
<1> QED
  BY <1>4, <1>5

\* e is the new edge of this step, with its data, on the renamed trace g.
NewEdge(g, r, e, data) ==
  /\ e \notin DOMAIN g.edges
  /\ e[1] = Gate!Renamed(r, current) /\ e[2] = current'
  /\ \E k \in FieldDone : Takes(r, k, data)
  /\ current \in nodes /\ current' \in nodes'
  /\ DOMAIN data = EdgeFields /\ data.at = committed + 1
  /\ data.from = CoarseOf(e[1]) /\ data.to = CoarseOf(e[2])
  /\ KeysOK(edges')
  /\ DOMAIN edges' = DOMAIN g.edges \cup {e}
  /\ edges'[e] = data /\ \A f \in DOMAIN g.edges : edges'[f] = g.edges[f]
  /\ order' = Append(g.order, e)
  /\ provisional' = (IF data.needs_confirmation THEN Append(Trace(g.remap, provisional), e)
                     ELSE Trace(g.remap, provisional))
  /\ committed' = committed + 1 /\ settledBy' = settledBy

\* A new edge is one more edge.
LEMMA GrownEdges ==
  ASSUME NEW g, NEW r, KeysOK(g.edges), Grown(g, r)
  PROVE  \E e, data : NewEdge(g, r, e, data)
<1> DEFINE u == Gate!Renamed(r, current)
           v == current'
           e == <<u, v, NewKey(g.edges, u, v)>>
<1>1. e \notin DOMAIN g.edges /\ NewKey(g.edges, u, v) \in Nat
  BY NewKeyFree
<1>2. e[1] = u /\ e[2] = v /\ e[3] = NewKey(g.edges, u, v) /\ e = <<e[1], e[2], e[3]>>
  OBVIOUS
<1>3. PICK data :
        /\ DOMAIN data = EdgeFields /\ data.at = committed + 1
        /\ data.from = CoarseOf(u) /\ data.to = CoarseOf(v)
        /\ \E k \in FieldDone : Takes(r, k, data)
        /\ Adds(g, Trace(g.remap, provisional), u, v, data)
  BY DEF Grown
<1>4. /\ edges' = WithEdge(g.edges, e, data)
      /\ order' = Append(g.order, e)
      /\ provisional' = (IF data.needs_confirmation THEN Append(Trace(g.remap, provisional), e)
                         ELSE Trace(g.remap, provisional))
      /\ committed' = committed + 1
  BY <1>3 DEF Adds
<1> HIDE DEF e
<1>5. /\ DOMAIN edges' = DOMAIN g.edges \cup {e}
      /\ edges'[e] = data /\ \A f \in DOMAIN g.edges : edges'[f] = g.edges[f]
  BY <1>1, <1>4 DEF WithEdge
<1>6. KeysOK(edges')
  <2>1. IsFiniteSet(DOMAIN edges')
    BY <1>5, FS_AddElement DEF KeysOK
  <2>2. \A f \in DOMAIN edges' : f = <<f[1], f[2], f[3]>> /\ f[3] \in Nat
    BY <1>1, <1>2, <1>5 DEF KeysOK
  <2> QED
    BY <2>1, <2>2 DEF KeysOK
<1>7. current \in nodes /\ current' \in nodes' /\ settledBy' = settledBy
  BY DEF Grown
<1>8. NewEdge(g, r, e, data)
  BY <1>1, <1>2, <1>3, <1>4, <1>5, <1>6, <1>7 DEF NewEdge
<1> QED
  BY <1>8

\* Edges that moved keep their data, hence their places in the recording.
LEMMA MovedKeepData ==
  ASSUME NEW h, NEW E1, NEW E2, Moves(h, E1, E2)
  PROVE  Ats(E2) = Ats(E1)
BY DEF Moves, Ats

CommitInv == /\ NodesOK
             /\ EdgesOK(edges)
             /\ committed \in Nat
             /\ Ats(edges) \cup settledBy = 1 .. committed

LEMMA StepCommitInv == CommitInv /\ [Next]_vars => CommitInv'
<1> SUFFICES ASSUME CommitInv, [Next]_vars
             PROVE  /\ EdgesOK(edges')
                    /\ committed' \in Nat
                    /\ Ats(edges') \cup settledBy' = 1 .. committed'
  BY StepNodesOK DEF CommitInv
<1>0. NodesOK /\ KeysOK(edges) /\ committed \in Nat
  BY DEF CommitInv, EdgesOK
<1>1. ASSUME NEW g, NEW r, Follow(g, r)
      PROVE  EdgesOK(g.edges) /\ Ats(g.edges) = Ats(edges)
  <2>1. KeysOK(g.edges) /\ Moves(MovedBy(g.remap, edges), edges, g.edges)
    BY <1>1 DEF Follow
  <2>2. \A e \in DOMAIN g.edges : DOMAIN g.edges[e] = EdgeFields
    BY <2>1 DEF Moves, CommitInv, EdgesOK
  <2> QED
    BY <2>1, <2>2, MovedKeepData DEF EdgesOK
<1>2. ASSUME NEW g, NEW r, Follow(g, r), edges' = g.edges, UNCHANGED <<committed, settledBy>>
      PROVE  /\ EdgesOK(edges')
             /\ committed' \in Nat
             /\ Ats(edges') \cup settledBy' = 1 .. committed'
  BY <1>1, <1>2 DEF CommitInv
<1>3. ASSUME NEW g, NEW r, Follow(g, r), Grown(g, r)
      PROVE  /\ EdgesOK(edges')
             /\ committed' \in Nat
             /\ Ats(edges') \cup settledBy' = 1 .. committed'
  <2>1. EdgesOK(g.edges) /\ Ats(g.edges) = Ats(edges)
    BY <1>1, <1>3
  <2>2. PICK e, data : NewEdge(g, r, e, data)
    BY <1>3, <2>1, GrownEdges DEF EdgesOK
  <2>3. EdgesOK(edges')
    BY <2>1, <2>2 DEF EdgesOK, NewEdge
  <2>4. Ats(edges') = Ats(g.edges) \cup {committed + 1}
    BY <2>2 DEF Ats, NewEdge
  <2>5. 1 .. committed + 1 = (1 .. committed) \cup {committed + 1}
    BY <1>0
  <2> QED
    BY <1>0, <2>1, <2>2, <2>3, <2>4, <2>5 DEF CommitInv, NewEdge
<1>4. ASSUME NEW e, ConfirmEdge(e)
      PROVE  /\ EdgesOK(edges')
             /\ committed' \in Nat
             /\ Ats(edges') \cup settledBy' = 1 .. committed'
  <2>1. /\ UNCHANGED <<edges, committed>>
        /\ settledBy' = settledBy \cup {edges[f].at : f \in {e} \cap DOMAIN edges}
    BY <1>4 DEF ConfirmEdge
  <2>2. {edges[f].at : f \in {e} \cap DOMAIN edges} \subseteq Ats(edges)
    BY DEF Ats
  <2> QED
    BY <2>1, <2>2 DEF CommitInv
<1>5. ASSUME NEW e \in DOMAIN edges, RejectEdge(e)
      PROVE  /\ EdgesOK(edges')
             /\ committed' \in Nat
             /\ Ats(edges') \cup settledBy' = 1 .. committed'
  <2>1. /\ edges' = Without(edges, {e}) /\ UNCHANGED committed
        /\ settledBy' = settledBy \cup {edges[f].at : f \in {e} \cap DOMAIN edges}
    BY <1>5 DEF RejectEdge
  <2>2. DOMAIN edges' = DOMAIN edges \ {e} /\ \A f \in DOMAIN edges' : edges'[f] = edges[f]
    BY <2>1 DEF Without
  <2>3. Ats(edges) = Ats(edges') \cup {edges[e].at}
    BY <2>2 DEF Ats
  <2>4. settledBy' = settledBy \cup {edges[e].at}
    BY <2>1
  <2>5. EdgesOK(edges')
    <3>1. IsFiniteSet(DOMAIN edges')
      BY <1>0, <2>2, FS_RemoveElement DEF KeysOK
    <3> QED
      BY <1>0, <2>2, <3>1 DEF EdgesOK, KeysOK, CommitInv
  <2> QED
    BY <2>1, <2>3, <2>4, <2>5 DEF CommitInv
<1>6. ASSUME NEW e \in DOMAIN edges, CorrectEdge(e)
      PROVE  /\ EdgesOK(edges')
             /\ committed' \in Nat
             /\ Ats(edges') \cup settledBy' = 1 .. committed'
  <2>1. /\ edges' = [edges EXCEPT ![e].action = "corrected"] /\ UNCHANGED committed
        /\ settledBy' = settledBy \cup {edges[e].at}
    BY <1>6 DEF CorrectEdge
  <2>2. DOMAIN edges[e] = EdgeFields
    BY DEF CommitInv, EdgesOK
  <2>3. /\ DOMAIN edges' = DOMAIN edges
        /\ \A f \in DOMAIN edges : DOMAIN edges'[f] = DOMAIN edges[f] /\ edges'[f].at = edges[f].at
    BY <2>1, <2>2 DEF EdgeFields
  <2>4. Ats(edges') = Ats(edges) /\ edges[e].at \in Ats(edges)
    BY <2>3 DEF Ats
  <2>5. EdgesOK(edges')
    BY <2>3 DEF EdgesOK, KeysOK, CommitInv
  <2> QED
    BY <2>1, <2>4, <2>5 DEF CommitInv
<1>7. CASE UNCHANGED traceVars
  BY <1>7 DEF traceVars, CommitInv
<1>8. ASSUME NEW keep \in nodes, NEW dup \in nodes, MarkPlain(keep, dup)
      PROVE  /\ EdgesOK(edges')
             /\ committed' \in Nat
             /\ Ats(edges') \cup settledBy' = 1 .. committed'
  <2>1. PICK r, g : Follow(g, r) /\ edges' = g.edges
    BY <1>0, <1>8, MarkPlainFollows
  <2>2. UNCHANGED <<committed, settledBy>>
    BY <1>8 DEF MarkPlain
  <2> QED
    BY <1>2, <2>1, <2>2
<1> QED
  BY <1>0, <1>2, <1>3, <1>4, <1>5, <1>6, <1>7, <1>8, StepKinds DEF Kept

LEMMA InitCommitInv == Init => CommitInv
<1> SUFFICES ASSUME Init PROVE CommitInv
  OBVIOUS
<1>1. NodesOK
  BY InitNodesOK
<1>2. DOMAIN edges = {} /\ settledBy = {} /\ committed = 0
  BY DEF Init
<1>3. EdgesOK(edges) /\ Ats(edges) = {}
  BY <1>2, FS_EmptySet DEF EdgesOK, KeysOK, Ats
<1> QED
  BY <1>1, <1>2, <1>3 DEF CommitInv

\* No rename loses a committed transition: whatever is split, coarsened, merged
\* and edited, each committed edge is in the graph or was settled by the human.
THEOREM NoCommitIsLost == Spec => []CommitsKept
<1>1. Init => CommitInv
  BY InitCommitInv
<1>2. CommitInv => CommitsKept
  BY DEF CommitInv, CommitsKept, Ats
<1> QED
  BY <1>1, <1>2, StepCommitInv, PTL DEF Spec

(***************************************************************************)
(* The chronological trace.                                                *)
(***************************************************************************)
\* The list s names every edge of E, in the order of their commits.
Chronicles(s, E) ==
  /\ s \in Seq(DOMAIN E)
  /\ \A e \in DOMAIN E : \E i \in 1 .. Len(s) : s[i] = e
  /\ \A i, j \in 1 .. Len(s) : i < j => E[s[i]].at < E[s[j]].at

\* A rename keeps every edge's place in the list.
LEMMA FollowChronicles ==
  ASSUME NEW g, NEW r, Follow(g, r), Chronicles(order, edges)
  PROVE  Chronicles(g.order, g.edges)
<1> DEFINE h == MovedBy(g.remap, edges)
           n == Len(order)
<1>1. Moves(h, edges, g.edges)
  BY DEF Follow
<1>2. /\ g.order \in Seq(DOMAIN g.edges) /\ Len(g.order) = n
      /\ \A k \in 1 .. n : g.order[k] = h[order[k]]
  BY DEF Follow, Chronicles
<1>3. \A k \in 1 .. n : order[k] \in DOMAIN edges
  BY DEF Chronicles
<1> HIDE DEF h, n
<1>4. \A k \in 1 .. n : g.edges[g.order[k]].at = edges[order[k]].at
  BY <1>1, <1>2, <1>3 DEF Moves
<1>5. ASSUME NEW e \in DOMAIN g.edges
      PROVE  \E i \in 1 .. n : g.order[i] = e
  <2>1. PICK f \in DOMAIN edges : h[f] = e
    BY <1>1 DEF Moves
  <2>2. PICK i \in 1 .. n : order[i] = f
    BY DEF Chronicles, n
  <2> QED
    BY <1>2, <2>1, <2>2
<1>6. \A i, j \in 1 .. n : i < j => g.edges[g.order[i]].at < g.edges[g.order[j]].at
  BY <1>4 DEF Chronicles, n
<1> QED
  BY <1>2, <1>5, <1>6 DEF Chronicles

\* A new edge goes to the end of it.
LEMMA GrownChronicles ==
  ASSUME NEW E, NEW s, NEW F, NEW e, NEW c \in Nat, Chronicles(s, E),
         \A f \in DOMAIN E : E[f].at \in 1 .. c,
         DOMAIN F = DOMAIN E \cup {e}, F[e].at = c + 1,
         e \notin DOMAIN E, \A f \in DOMAIN E : F[f] = E[f]
  PROVE  Chronicles(Append(s, e), F)
<1> DEFINE n == Len(s)
           t == Append(s, e)
<1>1. /\ n \in Nat /\ \A i \in 1 .. n : s[i] \in DOMAIN E
      /\ t \in Seq(DOMAIN F) /\ Len(t) = n + 1
      /\ \A i \in 1 .. n : t[i] = s[i]
      /\ t[n + 1] = e
  BY DEF Chronicles
<1>2. \A f \in DOMAIN E : \E i \in 1 .. n : s[i] = f
  BY DEF Chronicles
<1>3. \A i, j \in 1 .. n : i < j => E[s[i]].at < E[s[j]].at
  BY DEF Chronicles
<1> HIDE DEF n, t
<1>4. ASSUME NEW f \in DOMAIN F
      PROVE  \E i \in 1 .. n + 1 : t[i] = f
  <2>1. CASE f = e
    BY <1>1, <2>1
  <2>2. CASE f \in DOMAIN E
    <3>1. PICK i \in 1 .. n : s[i] = f
      BY <1>2, <2>2
    <3> QED
      BY <1>1, <3>1
  <2> QED
    BY <2>1, <2>2
<1>5. ASSUME NEW i \in 1 .. n + 1, NEW j \in 1 .. n + 1, i < j
      PROVE  F[t[i]].at < F[t[j]].at
  <2>1. i \in 1 .. n /\ F[t[i]].at = E[s[i]].at /\ E[s[i]].at \in 1 .. c
    BY <1>1, <1>5
  <2>2. CASE j = n + 1
    <3>1. F[t[j]].at = c + 1
      BY <1>1, <2>2
    <3> QED
      BY <2>1, <3>1
  <2>3. CASE j \in 1 .. n
    <3>1. F[t[j]].at = E[s[j]].at
      BY <1>1, <2>3
    <3> QED
      BY <1>3, <1>5, <2>1, <2>3, <3>1
  <2> QED
    BY <1>1, <2>2, <2>3
<1> QED
  BY <1>1, <1>4, <1>5 DEF Chronicles, t

OrderInv == CommitInv /\ Chronicles(order, edges)

LEMMA StepOrderInv ==
  ASSUME "reject" \notin Edits, OrderInv, [Next]_vars
  PROVE  OrderInv'
<1>0. NodesOK /\ KeysOK(edges) /\ committed \in Nat /\ CommitInv'
  BY StepCommitInv DEF OrderInv, CommitInv, EdgesOK
<1>1. Chronicles(order, edges) /\ \A e \in DOMAIN edges : edges[e].at \in 1 .. committed
  BY DEF OrderInv, CommitInv, Ats
<1>2. ASSUME NEW g, NEW r, Follow(g, r), Kept(g, r)
      PROVE  Chronicles(order', edges')
  BY <1>1, <1>2, FollowChronicles DEF Kept
<1>3. ASSUME NEW g, NEW r, Follow(g, r), Grown(g, r)
      PROVE  Chronicles(order', edges')
  <2>1. KeysOK(g.edges) /\ Moves(MovedBy(g.remap, edges), edges, g.edges)
    BY <1>3 DEF Follow
  <2>2. PICK e, data : NewEdge(g, r, e, data)
    BY <1>3, <2>1, GrownEdges
  <2>3. \A f \in DOMAIN g.edges : g.edges[f].at \in 1 .. committed
    <3>1. Ats(g.edges) = Ats(edges)
      BY <2>1, MovedKeepData
    <3> QED
      BY <1>1, <3>1 DEF Ats
  <2>4. Chronicles(g.order, g.edges)
    BY <1>1, <1>3, FollowChronicles
  <2> QED
    BY <1>0, <2>2, <2>3, <2>4, GrownChronicles DEF NewEdge
<1>4. ASSUME NEW e, ConfirmEdge(e)
      PROVE  Chronicles(order', edges')
  BY <1>1, <1>4 DEF ConfirmEdge
<1>5. ASSUME NEW e \in DOMAIN edges, RejectEdge(e) \/ CorrectEdge(e)
      PROVE  Chronicles(order', edges')
  <2>1. edges' = [edges EXCEPT ![e].action = "corrected"] /\ order' = order
    BY <1>5 DEF RejectEdge, CorrectEdge
  <2>2. DOMAIN edges[e] = EdgeFields
    BY DEF OrderInv, CommitInv, EdgesOK
  <2>3. DOMAIN edges' = DOMAIN edges /\ \A f \in DOMAIN edges : edges'[f].at = edges[f].at
    BY <2>1, <2>2 DEF EdgeFields
  <2>4. \A i \in 1 .. Len(order) : order[i] \in DOMAIN edges
    BY <1>1 DEF Chronicles
  <2>5. \A i \in 1 .. Len(order) : edges'[order[i]].at = edges[order[i]].at
    BY <2>3, <2>4
  <2> QED
    BY <1>1, <2>1, <2>3, <2>5 DEF Chronicles
<1>6. CASE UNCHANGED traceVars
  BY <1>0, <1>1, <1>6 DEF traceVars, OrderInv
<1>7. ASSUME NEW keep \in nodes, NEW dup \in nodes, MarkPlain(keep, dup)
      PROVE  Chronicles(order', edges')
  <2>1. PICK r, g : Follow(g, r) /\ edges' = g.edges /\ order' = g.order
    BY <1>0, <1>7, MarkPlainFollows
  <2> QED
    BY <1>1, <2>1, FollowChronicles
<1> QED
  BY <1>0, <1>2, <1>3, <1>4, <1>5, <1>6, <1>7, StepKinds DEF OrderInv

\* Unless the human rejects an edge, the trace replay re-enacts lists every
\* edge of the graph once, in the order the transitions were committed: a split,
\* a coarsening or a merge moves an edge to a fresh key, never to another place
\* of the trace.
THEOREM TraceIsChronological ==
  ASSUME "reject" \notin Edits
  PROVE  Spec => []TraceFaithful
<1>1. ASSUME Init PROVE OrderInv
  <2>1. CommitInv
    BY <1>1, InitCommitInv
  <2>2. DOMAIN edges = {} /\ order = <<>>
    BY <1>1 DEF Init
  <2>3. Chronicles(order, edges)
    BY <2>2 DEF Chronicles
  <2> QED
    BY <2>1, <2>3 DEF OrderInv
<1>2. ASSUME OrderInv PROVE TraceFaithful
  <2>1. /\ DOMAIN order = 1 .. Len(order)
        /\ \A i \in 1 .. Len(order) : order[i] \in DOMAIN edges
    BY <1>2 DEF OrderInv, Chronicles
  <2>2. ToSet(order) = DOMAIN edges
    BY <1>2, <2>1 DEF ToSet, OrderInv, Chronicles
  <2> QED
    BY <1>2, <2>1, <2>2 DEF TraceFaithful, OrderInv, Chronicles
<1>3. OrderInv /\ [Next]_vars => OrderInv'
  BY StepOrderInv
<1> QED
  BY <1>1, <1>2, <1>3, PTL DEF Spec

(***************************************************************************)
(* The ends of the edges.                                                  *)
(***************************************************************************)
\* Every edge of E joins two of the nodes N, of the fingerprints it was
\* committed between.
Joins(E, N) == \A e \in DOMAIN E : /\ e[1] \in N /\ e[2] \in N
                                   /\ CoarseOf(e[1]) = E[e].from
                                   /\ CoarseOf(e[2]) = E[e].to

\* A rename inside one family keeps the fingerprints.
LEMMA RenamedKeepsCoarse ==
  ASSUME NEW r, KeepsCoarse(r), NEW n
  PROVE  CoarseOf(Gate!Renamed(r, n)) = CoarseOf(n)
BY DEF KeepsCoarse, Gate!Renamed

\* Renamed nodes take their edges along.
LEMMA FollowJoins ==
  ASSUME NEW g, NEW r, Follow(g, r), KeepsCoarse(r), NodesFollow(r), Joins(edges, nodes)
  PROVE  Joins(g.edges, nodes')
<1> DEFINE h == MovedBy(g.remap, edges)
<1>1. /\ Moves(h, edges, g.edges)
      /\ \A e \in DOMAIN edges : /\ h[e][1] = Gate!Renamed(r, e[1])
                                /\ h[e][2] = Gate!Renamed(r, e[2])
  BY DEF Follow
<1> HIDE DEF h
<1> SUFFICES ASSUME NEW e \in DOMAIN g.edges
             PROVE  /\ e[1] \in nodes' /\ e[2] \in nodes'
                    /\ CoarseOf(e[1]) = g.edges[e].from
                    /\ CoarseOf(e[2]) = g.edges[e].to
  BY DEF Joins
<1>2. PICK f \in DOMAIN edges : h[f] = e
  BY <1>1 DEF Moves
<1>3. g.edges[e] = edges[f] /\ e[1] = Gate!Renamed(r, f[1]) /\ e[2] = Gate!Renamed(r, f[2])
  BY <1>1, <1>2 DEF Moves
<1>4. /\ f[1] \in nodes /\ f[2] \in nodes
      /\ CoarseOf(f[1]) = edges[f].from /\ CoarseOf(f[2]) = edges[f].to
  BY DEF Joins
<1>5. e[1] \in nodes' /\ e[2] \in nodes'
  BY <1>3, <1>4 DEF NodesFollow
<1>6. CoarseOf(e[1]) = CoarseOf(f[1]) /\ CoarseOf(e[2]) = CoarseOf(f[2])
  BY <1>3, RenamedKeepsCoarse
<1> QED
  BY <1>3, <1>4, <1>5, <1>6

EndInv == CommitInv /\ Joins(edges, nodes)

LEMMA StepEndInv ==
  ASSUME "plain" \notin Merges, EndInv, [Next]_vars
  PROVE  EndInv'
<1>0. NodesOK /\ KeysOK(edges) /\ Joins(edges, nodes) /\ CommitInv'
  BY StepCommitInv DEF EndInv, CommitInv, EdgesOK
<1>1. ASSUME NEW g, NEW r, Follow(g, r), KeepsCoarse(r), NodesFollow(r), Kept(g, r)
      PROVE  Joins(edges', nodes')
  BY <1>0, <1>1, FollowJoins DEF Kept
<1>2. ASSUME NEW g, NEW r, Follow(g, r), KeepsCoarse(r), NodesFollow(r), Grown(g, r)
      PROVE  Joins(edges', nodes')
  <2>1. Joins(g.edges, nodes') /\ KeysOK(g.edges)
    BY <1>0, <1>2, FollowJoins DEF Follow
  <2>2. PICK e, data : NewEdge(g, r, e, data)
    BY <1>2, <2>1, GrownEdges
  <2>3. e[1] \in nodes' /\ e[2] \in nodes'
    BY <1>2, <2>2 DEF NodesFollow, NewEdge
  <2> QED
    BY <2>1, <2>2, <2>3 DEF Joins, NewEdge
<1>3. ASSUME NEW e, ConfirmEdge(e)
      PROVE  Joins(edges', nodes')
  BY <1>0, <1>3 DEF ConfirmEdge, gateVars, nodes
<1>4. ASSUME NEW e \in DOMAIN edges, RejectEdge(e)
      PROVE  Joins(edges', nodes')
  <2>1. edges' = Without(edges, {e}) /\ nodes' = nodes
    BY <1>4 DEF RejectEdge, gateVars, nodes
  <2> QED
    BY <1>0, <2>1 DEF Without, Joins
<1>5. ASSUME NEW e \in DOMAIN edges, CorrectEdge(e)
      PROVE  Joins(edges', nodes')
  <2>1. edges' = [edges EXCEPT ![e].action = "corrected"] /\ nodes' = nodes
    BY <1>5 DEF CorrectEdge, gateVars, nodes
  <2>2. DOMAIN edges[e] = EdgeFields
    BY DEF EndInv, CommitInv, EdgesOK
  <2>3. /\ DOMAIN edges' = DOMAIN edges
        /\ \A f \in DOMAIN edges : edges'[f].from = edges[f].from /\ edges'[f].to = edges[f].to
    BY <2>1, <2>2 DEF EdgeFields
  <2> QED
    BY <1>0, <2>1, <2>3 DEF Joins
<1>6. ASSUME UNCHANGED traceVars, nodes \subseteq nodes'
      PROVE  Joins(edges', nodes')
  <2>1. edges' = edges
    BY <1>6 DEF traceVars
  <2> QED
    BY <1>0, <1>6, <2>1 DEF Joins
<1>7. ~\E keep, dup \in nodes : MarkPlain(keep, dup)
  BY DEF MarkPlain
<1> QED
  BY <1>0, <1>1, <1>2, <1>3, <1>4, <1>5, <1>6, <1>7, StepKinds DEF EndInv

\* Unless the human merges two unrelated screens, every edge still joins the
\* screens it was recorded between: the gate renames a screen within its family
\* and each of its edges is redirected, the self-loop once.
THEOREM EdgesJoinTheirScreens ==
  ASSUME "plain" \notin Merges
  PROVE  Spec => []EndpointsFaithful
<1>1. ASSUME Init PROVE EndInv
  <2>1. CommitInv /\ DOMAIN edges = {}
    BY <1>1, InitCommitInv DEF Init
  <2> QED
    BY <2>1 DEF EndInv, Joins
<1>2. EndInv => EndpointsFaithful
  BY DEF EndInv, EndpointsFaithful, Joins
<1>3. EndInv /\ [Next]_vars => EndInv'
  BY StepEndInv
<1> QED
  BY <1>1, <1>2, <1>3, PTL DEF Spec

(***************************************************************************)
(* The human's confirmations.                                              *)
(***************************************************************************)
\* p lists, each once, the uncertain edges of E whose commits are not in done;
\* no two edges are the same commit.
Asks(p, E, done) ==
  /\ p \in Seq(DOMAIN E)
  /\ Distinct(p)
  /\ \A e, f \in DOMAIN E : E[e].at = E[f].at => e = f
  /\ \A e \in DOMAIN E :
       (\E i \in 1 .. Len(p) : p[i] = e) <=> (E[e].needs_confirmation /\ E[e].at \notin done)

\* A rename takes the list along.
LEMMA FollowAsks ==
  ASSUME NEW g, NEW r, Follow(g, r), NEW done, Asks(provisional, edges, done)
  PROVE  Asks(Trace(g.remap, provisional), g.edges, done)
<1> DEFINE h == MovedBy(g.remap, edges)
           p == Trace(g.remap, provisional)
           n == Len(provisional)
<1>1. Moves(h, edges, g.edges)
  BY DEF Follow
<1>2. /\ provisional \in Seq(DOMAIN edges) /\ DOMAIN provisional = 1 .. n
      /\ \A i \in 1 .. n : provisional[i] \in DOMAIN edges
  BY DEF Asks
<1>3. p \in Seq(DOMAIN g.edges) /\ Len(p) = n
  BY <1>1, <1>2, TraceOfMoved
<1>4. \A i \in 1 .. n : p[i] = h[provisional[i]]
  BY <1>2 DEF Trace, MovedBy
<1> HIDE DEF h, p
<1>5. Distinct(p)
  <2>1. \A i, j \in 1 .. n : p[i] = p[j] => provisional[i] = provisional[j]
    BY <1>1, <1>2, <1>4 DEF Moves
  <2>2. \A i, j \in 1 .. n : provisional[i] = provisional[j] => i = j
    BY DEF Asks, Distinct
  <2> QED
    BY <1>3, <2>1, <2>2 DEF Distinct
<1> HIDE DEF n
<1>6. ASSUME NEW e \in DOMAIN g.edges, NEW f \in DOMAIN g.edges, g.edges[e].at = g.edges[f].at
      PROVE  e = f
  <2>1. PICK a \in DOMAIN edges : h[a] = e
    BY <1>1 DEF Moves
  <2>2. PICK b \in DOMAIN edges : h[b] = f
    BY <1>1 DEF Moves
  <2>3. edges[a].at = edges[b].at
    BY <1>1, <1>6, <2>1, <2>2 DEF Moves
  <2> QED
    BY <2>1, <2>2, <2>3 DEF Asks
<1>7. ASSUME NEW e \in DOMAIN g.edges
      PROVE  (\E i \in 1 .. n : p[i] = e) <=> (g.edges[e].needs_confirmation /\ g.edges[e].at \notin done)
  <2>1. PICK f \in DOMAIN edges : h[f] = e
    BY <1>1 DEF Moves
  <2>2. g.edges[e] = edges[f]
    BY <1>1, <2>1 DEF Moves
  <2>3. \A i \in 1 .. n : p[i] = e <=> provisional[i] = f
    BY <1>1, <1>2, <1>4, <2>1 DEF Moves
  <2>4. (\E i \in 1 .. n : provisional[i] = f) <=> (edges[f].needs_confirmation /\ edges[f].at \notin done)
    BY DEF Asks, n
  <2> QED
    BY <2>2, <2>3, <2>4
<1> QED
  BY <1>3, <1>5, <1>6, <1>7 DEF Asks, p

\* A new edge is asked about if it is uncertain.
LEMMA GrownAsks ==
  ASSUME NEW E, NEW p, NEW F, NEW e, NEW c \in Nat, NEW done, Asks(p, E, done),
         \A f \in DOMAIN E : E[f].at \in 1 .. c, done \subseteq 1 .. c,
         DOMAIN F = DOMAIN E \cup {e}, F[e].at = c + 1,
         e \notin DOMAIN E, \A f \in DOMAIN E : F[f] = E[f]
  PROVE  Asks(IF F[e].needs_confirmation THEN Append(p, e) ELSE p, F, done)
<1> DEFINE n == Len(p)
           t == Append(p, e)
<1>1. /\ n \in Nat /\ p \in Seq(DOMAIN F) /\ \A i \in 1 .. n : p[i] \in DOMAIN E /\ p[i] # e
      /\ \A i, j \in 1 .. n : p[i] = p[j] => i = j
  BY DEF Asks, Distinct
<1>2. /\ t \in Seq(DOMAIN F) /\ Len(t) = n + 1
      /\ \A i \in 1 .. n : t[i] = p[i]
      /\ t[n + 1] = e
  BY <1>1
<1>3. \A f \in DOMAIN E :
        (\E i \in 1 .. n : p[i] = f) <=> (F[f].needs_confirmation /\ F[f].at \notin done)
  BY DEF Asks
<1>4. F[e].at \notin done /\ \A f \in DOMAIN E : F[f].at # F[e].at
  BY <1>1
<1>5. \A f, k \in DOMAIN F : F[f].at = F[k].at => f = k
  BY <1>4 DEF Asks
<1> HIDE DEF n, t
<1>6. CASE ~F[e].needs_confirmation
  BY <1>1, <1>3, <1>5, <1>6 DEF Asks, Distinct, n
<1>7. CASE F[e].needs_confirmation
  <2>1. Distinct(t)
    <3> SUFFICES ASSUME NEW i \in 1 .. n + 1, NEW j \in 1 .. n + 1, t[i] = t[j]
                 PROVE  i = j
      BY <1>2 DEF Distinct
    <3>1. \A k \in 1 .. n + 1 : k = n + 1 \/ k \in 1 .. n
      BY <1>1
    <3> QED
      BY <1>1, <1>2, <3>1
  <2>2. ASSUME NEW f \in DOMAIN F
        PROVE  (\E i \in 1 .. n + 1 : t[i] = f) <=> (F[f].needs_confirmation /\ F[f].at \notin done)
    <3>1. CASE f = e
      BY <1>1, <1>2, <1>4, <1>7, <3>1
    <3>2. CASE f \in DOMAIN E
      <4>1. (\E i \in 1 .. n + 1 : t[i] = f) <=> (\E i \in 1 .. n : p[i] = f)
        <5>1. \A i \in 1 .. n + 1 : i = n + 1 \/ i \in 1 .. n
          BY <1>1
        <5>2. \A i \in 1 .. n : i \in 1 .. n + 1
          BY <1>1
        <5> QED
          BY <1>2, <3>2, <5>1, <5>2
      <4> QED
        BY <1>3, <3>2, <4>1
    <3> QED
      BY <3>1, <3>2
  <2> QED
    BY <1>2, <1>5, <1>7, <2>1, <2>2 DEF Asks, t
<1> QED
  BY <1>6, <1>7

\* An edge answered, in the graph or out of it, is asked about no more.
LEMMA AnsweredAsks ==
  ASSUME NEW E, NEW p, NEW F, NEW done, NEW e \in DOMAIN E, Asks(p, E, done),
         DOMAIN F = DOMAIN E \/ DOMAIN F = DOMAIN E \ {e},
         \A f \in DOMAIN F : /\ F[f].at = E[f].at
                            /\ F[f].needs_confirmation = E[f].needs_confirmation
  PROVE  Asks(RemoveFirst(p, e), F, done \cup {E[e].at})
<1> DEFINE q == RemoveFirst(p, e)
<1>1. q \in Seq(DOMAIN E \ {e}) /\ ToSet(q) = ToSet(p) \ {e} /\ Distinct(q)
  BY RemovedOnce DEF Asks
<1>2. /\ \A f : f \in ToSet(p) <=> \E i \in 1 .. Len(p) : p[i] = f
      /\ \A f : f \in ToSet(q) <=> \E i \in 1 .. Len(q) : q[i] = f
  <2>1. DOMAIN p = 1 .. Len(p) /\ DOMAIN q = 1 .. Len(q)
    BY <1>1 DEF Asks
  <2> HIDE DEF q
  <2> QED
    BY <2>1 DEF ToSet
<1> HIDE DEF q
<1>3. q \in Seq(DOMAIN F)
  BY <1>1
<1>4. ASSUME NEW f \in DOMAIN F
      PROVE  (\E i \in 1 .. Len(q) : q[i] = f)
               <=> (F[f].needs_confirmation /\ F[f].at \notin done \cup {E[e].at})
  <2>1. f \in DOMAIN E
    OBVIOUS
  <2>2. (\E i \in 1 .. Len(p) : p[i] = f) <=> (F[f].needs_confirmation /\ F[f].at \notin done)
    BY <2>1 DEF Asks
  <2>3. F[f].at = E[e].at <=> f = e
    BY <2>1 DEF Asks
  <2> QED
    BY <1>1, <1>2, <2>2, <2>3
<1>5. \A f, k \in DOMAIN F : F[f].at = F[k].at => f = k
  BY DEF Asks
<1> QED
  BY <1>1, <1>3, <1>4, <1>5 DEF Asks, q

AskInv == CommitInv /\ Asks(provisional, edges, settledBy)

LEMMA StepAskInv ==
  ASSUME "plain" \notin Merges, AskInv, [Next]_vars
  PROVE  AskInv'
<1>0. NodesOK /\ KeysOK(edges) /\ committed \in Nat /\ CommitInv'
  BY StepCommitInv DEF AskInv, CommitInv, EdgesOK
<1>1. Asks(provisional, edges, settledBy) /\ \A e \in DOMAIN edges : DOMAIN edges[e] = EdgeFields
  BY DEF AskInv, CommitInv, EdgesOK
<1>2. ASSUME NEW g, NEW r, Follow(g, r), Kept(g, r)
      PROVE  Asks(provisional', edges', settledBy')
  BY <1>1, <1>2, FollowAsks DEF Kept
<1>3. ASSUME NEW g, NEW r, Follow(g, r), Grown(g, r)
      PROVE  Asks(provisional', edges', settledBy')
  <2>1. KeysOK(g.edges) /\ Moves(MovedBy(g.remap, edges), edges, g.edges)
    BY <1>3 DEF Follow
  <2>2. PICK e, data : NewEdge(g, r, e, data)
    BY <1>3, <2>1, GrownEdges
  <2>3. settledBy \subseteq 1 .. committed /\ \A f \in DOMAIN g.edges : g.edges[f].at \in 1 .. committed
    <3>1. Ats(g.edges) = Ats(edges)
      BY <2>1, MovedKeepData
    <3> QED
      BY <3>1 DEF Ats, AskInv, CommitInv
  <2> DEFINE p == Trace(g.remap, provisional)
  <2>4. Asks(p, g.edges, settledBy)
    BY <1>1, <1>3, FollowAsks
  <2>5. provisional' = (IF edges'[e].needs_confirmation THEN Append(p, e) ELSE p)
    BY <2>2 DEF NewEdge
  <2> HIDE DEF p
  <2>6. /\ DOMAIN edges' = DOMAIN g.edges \cup {e} /\ edges'[e].at = committed + 1
        /\ e \notin DOMAIN g.edges /\ \A f \in DOMAIN g.edges : edges'[f] = g.edges[f]
        /\ settledBy' = settledBy
    BY <2>2 DEF NewEdge
  <2>7. Asks(IF edges'[e].needs_confirmation THEN Append(p, e) ELSE p, edges', settledBy)
    BY <1>0, <2>3, <2>4, <2>6, GrownAsks
  <2> QED
    BY <2>5, <2>6, <2>7
<1>4. ASSUME NEW e \in ToSet(provisional), ConfirmEdge(e)
      PROVE  Asks(provisional', edges', settledBy')
  <2>1. e \in DOMAIN edges
    BY <1>1 DEF Asks, ToSet
  <2>2. provisional' = RemoveFirst(provisional, e) /\ edges' = edges
        /\ settledBy' = settledBy \cup {edges[e].at}
    BY <1>4, <2>1 DEF ConfirmEdge, Dropped
  <2> QED
    BY <1>1, <2>1, <2>2, AnsweredAsks
<1>5. ASSUME NEW e \in DOMAIN edges, RejectEdge(e)
      PROVE  Asks(provisional', edges', settledBy')
  <2>1. provisional' = RemoveFirst(provisional, e) /\ edges' = Without(edges, {e})
        /\ settledBy' = settledBy \cup {edges[e].at}
    BY <1>5 DEF RejectEdge, Dropped
  <2>2. DOMAIN edges' = DOMAIN edges \ {e} /\ \A f \in DOMAIN edges' : edges'[f] = edges[f]
    BY <2>1 DEF Without
  <2> QED
    BY <1>1, <2>1, <2>2, AnsweredAsks
<1>6. ASSUME NEW e \in DOMAIN edges, CorrectEdge(e)
      PROVE  Asks(provisional', edges', settledBy')
  <2>1. edges' = [edges EXCEPT ![e].action = "corrected"]
        /\ provisional' = RemoveFirst(provisional, e)
        /\ settledBy' = settledBy \cup {edges[e].at}
    BY <1>6 DEF CorrectEdge, Dropped
  <2>2. /\ DOMAIN edges' = DOMAIN edges
        /\ \A f \in DOMAIN edges : /\ edges'[f].at = edges[f].at
                                  /\ edges'[f].needs_confirmation = edges[f].needs_confirmation
    BY <1>1, <2>1 DEF EdgeFields
  <2> QED
    BY <1>1, <2>1, <2>2, AnsweredAsks
<1>7. ASSUME UNCHANGED traceVars
      PROVE  Asks(provisional', edges', settledBy')
  BY <1>1, <1>7 DEF traceVars
<1>8. ~\E keep, dup \in nodes : MarkPlain(keep, dup)
  BY DEF MarkPlain
<1> QED
  BY <1>0, <1>2, <1>3, <1>4, <1>5, <1>6, <1>7, <1>8, StepKinds DEF AskInv

\* Unless the human merges two unrelated screens, the human is asked about
\* exactly the uncertain edges not yet confirmed, corrected or rejected, and
\* each waiting id is the live key of the edge it was minted for, through any
\* number of renames.
THEOREM EachDoubtIsAskedOnce ==
  ASSUME "plain" \notin Merges
  PROVE  Spec => []ProvisionalExact
<1>1. ASSUME Init PROVE AskInv
  <2>1. CommitInv /\ DOMAIN edges = {} /\ provisional = <<>>
    BY <1>1, InitCommitInv DEF Init
  <2> QED
    BY <2>1 DEF AskInv, Asks, Distinct
<1>2. ASSUME AskInv PROVE ProvisionalExact
  <2>1. /\ \A e : e \in ToSet(provisional) <=> \E i \in 1 .. Len(provisional) : provisional[i] = e
        /\ \A i \in 1 .. Len(provisional) : provisional[i] \in DOMAIN edges
    BY <1>2 DEF AskInv, Asks, ToSet
  <2>2. ToSet(provisional) \subseteq DOMAIN edges
    BY <2>1
  <2>3. \A e \in DOMAIN edges :
          e \in ToSet(provisional) <=> (edges[e].needs_confirmation /\ edges[e].at \notin settledBy)
    BY <1>2, <2>1 DEF AskInv, Asks
  <2> QED
    BY <2>2, <2>3 DEF ProvisionalExact
<1>3. AskInv /\ [Next]_vars => AskInv'
  BY StepAskInv
<1> QED
  BY <1>1, <1>2, <1>3, PTL DEF Spec

(***************************************************************************)
(* The launch anchors.                                                     *)
(***************************************************************************)
\* f gives each of the nodes N a force action, pinned to the node it is on.
Pinned(f, N) ==
  /\ DOMAIN f = N
  /\ \A n \in N : /\ {"kind", "verified_fp"} \subseteq DOMAIN f[n]
                  /\ f[n].kind # "none" => f[n].verified_fp = n

\* The first node of an order of renames is renamed.
LEMMA FirstIsRenamed ==
  ASSUME NEW r, IsFiniteSet(DOMAIN r), NEW ms \in RenameOrders(r), ms # <<>>
  PROVE  ms[1] \in DOMAIN r
<1> DEFINE S == DOMAIN r
           n == Cardinality(S)
<1>1. ms \in [1 .. n -> S]
  BY DEF RenameOrders, SetToSeqs
<1>2. n \in Nat
  BY FS_CardinalityType
<1> HIDE DEF n, S
<1>3. n # 0
  BY <1>1
<1>4. ms[1] \in S
  BY <1>1, <1>2, <1>3
<1> QED
  BY <1>4 DEF S

NodesAfter(r, id) == (nodes \ DOMAIN r) \cup {r[m] : m \in DOMAIN r} \cup {id}

\* A rename leaves every anchor pinned to the node it is on.
LEMMA ForceStaysPinned ==
  ASSUME NEW r, IsFiniteSet(DOMAIN r), DOMAIN r \subseteq nodes,
         NEW ms \in RenameOrders(r), NEW id, Pinned(force, nodes)
  PROVE  Pinned(ForceAfter(ms, r, id), NodesAfter(r, id))
<1> DEFINE keep == IF ms = <<>> THEN NoForce ELSE force[ms[1]]
           Kept_(n) == IF ms # <<>> /\ n = r[ms[1]]
                       THEN [keep EXCEPT !.verified_fp = IF @ = ms[1] THEN n ELSE @]
                       ELSE IF n \in nodes THEN force[n] ELSE NoForce
           Home(n) == [kind |-> "keyevent", verified_fp |-> n, provenance |-> "unknown"]
           PinnedTo(a, n) == /\ {"kind", "verified_fp"} \subseteq DOMAIN a
                             /\ a.kind # "none" => a.verified_fp = n
<1>1. ForceAfter(ms, r, id) =
        [n \in NodesAfter(r, id) |-> IF n = id /\ OnLauncher(n) /\ Kept_(n) = NoForce THEN Home(n) ELSE Kept_(n)]
  BY DEF ForceAfter, NodesAfter
<1>2. ASSUME NEW n
      PROVE  PinnedTo(Kept_(n), n)
  <2>1. CASE ms # <<>> /\ n = r[ms[1]]
    <3>1. ms[1] \in nodes
      BY <2>1, FirstIsRenamed
    <3>2. PinnedTo(force[ms[1]], ms[1])
      BY <3>1 DEF Pinned
    <3>3. Kept_(n) = [force[ms[1]] EXCEPT !.verified_fp = IF @ = ms[1] THEN n ELSE @]
      BY <2>1
    <3> HIDE DEF Kept_
    <3> QED
      BY <3>2, <3>3
  <2>2. CASE ~(ms # <<>> /\ n = r[ms[1]]) /\ n \in nodes
    <3>1. Kept_(n) = force[n]
      BY <2>2
    <3> HIDE DEF Kept_
    <3> QED
      BY <2>2, <3>1 DEF Pinned
  <2>3. CASE ~(ms # <<>> /\ n = r[ms[1]]) /\ n \notin nodes
    <3>1. Kept_(n) = NoForce
      BY <2>3
    <3> HIDE DEF Kept_
    <3> QED
      BY <3>1 DEF NoForce
  <2> QED
    BY <2>1, <2>2, <2>3
<1>3. \A n : PinnedTo(Home(n), n)
  OBVIOUS
<1> HIDE DEF Kept_, Home
<1>4. \A n \in NodesAfter(r, id) : PinnedTo(ForceAfter(ms, r, id)[n], n)
  BY <1>1, <1>2, <1>3
<1>5. DOMAIN ForceAfter(ms, r, id) = NodesAfter(r, id)
  BY <1>1
<1> QED
  BY <1>4, <1>5 DEF Pinned

\* So does a launch.
LEMMA LaunchStaysPinned ==
  ASSUME NEW source, NEW id, NEW fa, NEW N, Pinned(fa, N), id \in N, Launches(source, id, fa)
  PROVE  Pinned(force', N)
<1>1. CASE force' = fa
  BY <1>1
<1>2. CASE \E p : force' = [fa EXCEPT ![id] = IF @ = NoForce
                              THEN [kind |-> "am_start", verified_fp |-> id, provenance |-> p] ELSE @]
  <2>1. PICK p : force' = [fa EXCEPT ![id] = IF @ = NoForce
                              THEN [kind |-> "am_start", verified_fp |-> id, provenance |-> p] ELSE @]
    BY <1>2
  <2>2. DOMAIN force' = N
    BY <2>1 DEF Pinned
  <2>3. ASSUME NEW n \in N
        PROVE  /\ {"kind", "verified_fp"} \subseteq DOMAIN force'[n]
               /\ force'[n].kind # "none" => force'[n].verified_fp = n
    <3>1. CASE force'[n] = fa[n]
      BY <3>1 DEF Pinned
    <3>2. CASE n = id /\ force'[n] = [kind |-> "am_start", verified_fp |-> id, provenance |-> p]
      BY <3>2
    <3> QED
      BY <2>1, <3>1, <3>2 DEF Pinned
  <2> QED
    BY <2>2, <2>3 DEF Pinned
<1> QED
  BY <1>1, <1>2 DEF Launches

\* The nodes after a rename and a mint.
LEMMA ImageOfNodes ==
  ASSUME NEW r, DOMAIN r \subseteq nodes
  PROVE  {Gate!Renamed(r, n) : n \in nodes} = (nodes \ DOMAIN r) \cup {r[m] : m \in DOMAIN r}
BY DEF Gate!Renamed

AnchorInv == NodesOK /\ Pinned(force, nodes)

LEMMA StepAnchorInv == AnchorInv /\ [Next]_vars => AnchorInv'
<1> SUFFICES ASSUME AnchorInv, [Next]_vars
             PROVE  Pinned(force', nodes')
  BY StepNodesOK DEF AnchorInv
<1>0. /\ NodesOK /\ IsFiniteSet(nodes) /\ MarksOwn(screens) /\ Gate!NoScreen \notin nodes
      /\ Pinned(force, nodes)
  BY DEF AnchorInv, NodesOK
<1>1. ASSUME NEW o \in Observation, Enters(o)
      PROVE  /\ IsFiniteSet(DOMAIN Renames(o)) /\ DOMAIN Renames(o) \subseteq nodes
             /\ nodes' = NodesAfter(Renames(o), Target(o)) /\ Target(o) \in nodes'
  BY <1>0, <1>1, EntersNodes, ImageOfNodes DEF RenameOK, NodesAfter
<1>2. ASSUME NEW o \in Observation, NEW type \in Gestures, Gesture(o, type)
      PROVE  Pinned(force', nodes')
  <2> DEFINE r == Renames(o)
  <2>1. /\ IsFiniteSet(DOMAIN r) /\ DOMAIN r \subseteq nodes
        /\ nodes' = NodesAfter(r, Target(o)) /\ Target(o) \in nodes'
    BY <1>1, <1>2 DEF Gesture
  <2>2. PICK ms \in RenameOrders(r) :
          Launches(Gate!Renamed(r, current), Target(o), ForceAfter(ms, r, Target(o)))
    BY <1>2 DEF Gesture
  <2> HIDE DEF r
  <2>3. Pinned(ForceAfter(ms, r, Target(o)), nodes')
    BY <1>0, <2>1, ForceStaysPinned
  <2> QED
    BY <2>1, <2>2, <2>3, LaunchStaysPinned
<1>3. ASSUME NEW o \in Observation, Anchors(o)
      PROVE  Pinned(force', nodes')
  <2> DEFINE r == Renames(o)
  <2>1. /\ IsFiniteSet(DOMAIN r) /\ DOMAIN r \subseteq nodes
        /\ nodes' = NodesAfter(r, Target(o))
    BY <1>1, <1>3 DEF Anchors
  <2>2. PICK ms \in RenameOrders(r) : force' = ForceAfter(ms, r, Target(o))
    BY <1>3 DEF Anchors
  <2> HIDE DEF r
  <2> QED
    BY <1>0, <2>1, <2>2, ForceStaysPinned
<1>4. ASSUME NEW o, Raises(o)
      PROVE  Pinned(force', nodes')
  BY <1>0, <1>4 DEF Raises, launchVars, nodes
<1>5. ASSUME NEW c, NEW d, Reconcile(c, d)
      PROVE  Pinned(force', nodes')
  <2> DEFINE id == Gate!LookupId(c, d)
  <2>1. nodes' = nodes \cup {id}
    BY <1>5 DEF Reconcile, Live, Gate!MintPlain, Gate!nodes, nodes
  <2>2. force' = [n \in nodes \cup {id} |-> IF n \in nodes THEN force[n] ELSE NoForce]
    BY <1>5 DEF Reconcile, Live
  <2> HIDE DEF id
  <2> QED
    BY <1>0, <2>1, <2>2 DEF Pinned, NoForce
<1>6. CASE TrackText
  BY <1>0, <1>6 DEF TrackText, gateVars, launchVars, nodes
<1>7. ASSUME NEW c \in Coarse, MarkTwins(c)
      PROVE  Pinned(force', nodes')
  <2> DEFINE r == [n \in Gate!Family(c) |-> Gate!Fid(c)]
  <2>1. CASE Gate!Fid(c) \in nodes
    BY <1>0, <1>7, <2>1 DEF MarkTwins, launchVars, nodes
  <2>2. CASE Gate!Fid(c) \notin nodes
    <3>1. RenameOK(r) /\ DOMAIN r \subseteq nodes
      BY <1>0, <2>2, CoarseningIsRename
    <3>2. nodes' = (nodes \ DOMAIN r) \cup {Gate!Fid(c)}
      BY <1>7, <2>2 DEF MarkTwins, nodes
    <3>3. \A n \in DOMAIN r : r[n] = Gate!Fid(c)
      OBVIOUS
    <3>4. PICK ms \in RenameOrders(r) : force' = ForceAfter(ms, r, Gate!Fid(c))
      BY <1>7, <2>2 DEF MarkTwins
    <3> HIDE DEF r
    <3>5. nodes' = NodesAfter(r, Gate!Fid(c))
      BY <3>2, <3>3 DEF NodesAfter
    <3> QED
      BY <1>0, <3>1, <3>4, <3>5, ForceStaysPinned DEF RenameOK
  <2> QED
    BY <2>1, <2>2
<1>8. ASSUME NEW keep \in nodes, NEW dup \in nodes, MarkPlain(keep, dup)
      PROVE  Pinned(force', nodes')
  <2>1. nodes' = nodes \ {dup} /\ force' = [n \in nodes \ {dup} |-> force[n]]
    BY <1>8 DEF MarkPlain, nodes
  <2> QED
    BY <1>0, <2>1 DEF Pinned
<1>9. ASSUME NEW e, ConfirmEdge(e) \/ RejectEdge(e) \/ CorrectEdge(e)
      PROVE  Pinned(force', nodes')
  BY <1>0, <1>9 DEF ConfirmEdge, RejectEdge, CorrectEdge, gateVars, launchVars, nodes
<1>10. CASE UNCHANGED vars
  BY <1>0, <1>10 DEF vars, gateVars, launchVars, nodes
<1> QED
  BY <1>2, <1>3, <1>4, <1>5, <1>6, <1>7, <1>8, <1>9, <1>10 DEF Next, HumanEdit

\* A launch anchor pins the screen it is on: the force action moves with its
\* screen through a split, a coarsening or a merge, and verified_fp follows.
THEOREM AnchorsStayPinned == Spec => []AnchorsPinned
<1>1. ASSUME Init PROVE AnchorInv
  BY <1>1, InitNodesOK DEF Init, AnchorInv, Pinned, nodes
<1>2. AnchorInv => AnchorsPinned
  BY DEF AnchorInv, AnchorsPinned, Pinned
<1> QED
  BY <1>1, <1>2, StepAnchorInv, PTL DEF Spec

(***************************************************************************)
(* The staged pre-actions.                                                 *)
(***************************************************************************)
Riding(E, e) == {p.id : p \in E[e].pre}

\* The s pre-actions staged so far, each once: the entries P still staged, those
\* the edges E carry, and those in D, dropped with a marker.
Accounts(P, E, D, s) ==
  /\ s \in Nat
  /\ \A p \in P : {"id", "screen"} \subseteq DOMAIN p
  /\ \A p, q \in P : p.id = q.id => p = q
  /\ \A e, f \in DOMAIN E : e # f => Riding(E, e) \cap Riding(E, f) = {}
  /\ \A e \in DOMAIN E : Riding(E, e) \cap (Ids(P) \cup D) = {}
  /\ Ids(P) \cap D = {}
  /\ \A i : i \in 1 .. s <=> i \in Ids(P) \/ i \in D \/ \E e \in DOMAIN E : i \in Riding(E, e)

\* Retagging keeps every entry's id.
LEMMA RetaggedAccounts ==
  ASSUME NEW P, NEW E, NEW D, NEW s, NEW r, Accounts(P, E, D, s)
  PROVE  Accounts(Retagged(r, P), E, D, s)
<1> DEFINE Q == Retagged(r, P)
           tagged(x) == [x EXCEPT !.screen = Gate!Renamed(r, @)]
<1>1. \A x \in P : {"id", "screen"} \subseteq DOMAIN tagged(x) /\ tagged(x).id = x.id
  BY DEF Accounts
<1>2. Q = {tagged(x) : x \in P}
  BY DEF Retagged
<1> HIDE DEF tagged, Q
<1>3. \A q \in Q : {"id", "screen"} \subseteq DOMAIN q
  BY <1>1, <1>2
<1>4. \A p, q \in Q : p.id = q.id => p = q
  <2> SUFFICES ASSUME NEW p \in Q, NEW q \in Q, p.id = q.id
               PROVE  p = q
    OBVIOUS
  <2>1. PICK x \in P : p = tagged(x)
    BY <1>2
  <2>2. PICK y \in P : q = tagged(y)
    BY <1>2
  <2>3. x = y
    BY <1>1, <2>1, <2>2 DEF Accounts
  <2> QED
    BY <2>1, <2>2, <2>3
<1>5. Ids(Q) = Ids(P)
  <2>1. ASSUME NEW q \in Q PROVE q.id \in Ids(P)
    BY <1>1, <1>2 DEF Ids
  <2>2. ASSUME NEW x \in P PROVE x.id \in Ids(Q)
    <3>1. tagged(x) \in Q /\ tagged(x).id = x.id
      BY <1>1, <1>2
    <3> QED
      BY <3>1 DEF Ids
  <2> QED
    BY <2>1, <2>2 DEF Ids
<1> QED
  BY <1>3, <1>4, <1>5 DEF Accounts, Q

\* Edges that moved carry what they carried.
LEMMA MovedAccounts ==
  ASSUME NEW P, NEW E, NEW F, NEW h, NEW D, NEW s, Moves(h, E, F), Accounts(P, E, D, s)
  PROVE  Accounts(P, F, D, s)
<1>1. \A e \in DOMAIN E : h[e] \in DOMAIN F /\ Riding(F, h[e]) = Riding(E, e)
  BY DEF Moves, Riding
<1>2. \A e \in DOMAIN F : \E f \in DOMAIN E : h[f] = e
  BY DEF Moves
<1>3. \A e, f \in DOMAIN F : e # f => Riding(F, e) \cap Riding(F, f) = {}
  <2> SUFFICES ASSUME NEW e \in DOMAIN F, NEW f \in DOMAIN F, e # f
               PROVE  Riding(F, e) \cap Riding(F, f) = {}
    OBVIOUS
  <2>1. PICK a \in DOMAIN E : h[a] = e
    BY <1>2
  <2>2. PICK b \in DOMAIN E : h[b] = f
    BY <1>2
  <2>3. a # b
    BY <2>1, <2>2
  <2> QED
    BY <1>1, <2>1, <2>2, <2>3 DEF Accounts
<1>4. \A e \in DOMAIN F : Riding(F, e) \cap (Ids(P) \cup D) = {}
  BY <1>1, <1>2 DEF Accounts
<1>5. \A i : (\E e \in DOMAIN F : i \in Riding(F, e)) <=> (\E e \in DOMAIN E : i \in Riding(E, e))
  BY <1>1, <1>2
<1> QED
  BY <1>3, <1>4, <1>5 DEF Accounts

\* A pre-action staged is one more.
LEMMA EntryAccounts ==
  ASSUME NEW P, NEW E, NEW D, NEW s, Accounts(P, E, D, s), NEW f
  PROVE  Accounts(P \cup {Entry(f, s + 1)}, E, D, s + 1)
<1> DEFINE n == Entry(f, s + 1)
           Q == P \cup {n}
<1>1. n.id = s + 1 /\ {"id", "screen"} \subseteq DOMAIN n /\ s \in Nat
  BY DEF Entry, Accounts
<1> HIDE DEF n
<1>2. s + 1 \notin 1 .. s /\ \A i : i \in 1 .. s + 1 <=> i \in 1 .. s \/ i = s + 1
  BY <1>1
<1>3. \A i : i \in Ids(Q) <=> i \in Ids(P) \/ i = s + 1
  BY <1>1 DEF Ids
<1>4. /\ s + 1 \notin Ids(P) /\ s + 1 \notin D
      /\ \A e \in DOMAIN E : s + 1 \notin Riding(E, e)
  BY <1>2 DEF Accounts
<1>5. \A p, q \in Q : p.id = q.id => p = q
  BY <1>1, <1>4 DEF Accounts, Ids
<1>6. \A p \in Q : {"id", "screen"} \subseteq DOMAIN p
  BY <1>1 DEF Accounts
<1>7. \A e \in DOMAIN E : Riding(E, e) \cap (Ids(Q) \cup D) = {}
  <2> SUFFICES ASSUME NEW e \in DOMAIN E, NEW i \in Riding(E, e)
               PROVE  i \notin Ids(Q) /\ i \notin D
    OBVIOUS
  <2>1. i \notin Ids(P) /\ i \notin D
    BY DEF Accounts
  <2> QED
    BY <1>3, <1>4, <2>1
<1>8. Ids(Q) \cap D = {}
  <2> SUFFICES ASSUME NEW i \in Ids(Q)
               PROVE  i \notin D
    OBVIOUS
  <2>1. i \in Ids(P) => i \notin D
    BY DEF Accounts
  <2> QED
    BY <1>3, <1>4, <2>1
<1>9. \A i : i \in 1 .. s + 1
               <=> i \in Ids(Q) \/ i \in D \/ \E e \in DOMAIN E : i \in Riding(E, e)
  BY <1>2, <1>3 DEF Accounts
<1>10. s + 1 \in Nat
  BY <1>1
<1> HIDE DEF Q
<1> QED
  BY <1>5, <1>6, <1>7, <1>8, <1>9, <1>10 DEF Accounts, Q, n

\* So is the field in flight, if its text is.
LEMMA DoneAccounts ==
  ASSUME NEW E, NEW D, Accounts(pending, E, D, staged), NEW k \in FieldDone
  PROVE  Accounts(k.pending, E, D, k.staged)
<1>1. CASE k = [pending |-> pending, staged |-> staged]
  BY <1>1
<1>2. ASSUME NEW f, k = [pending |-> pending \cup {Entry(f, staged + 1)}, staged |-> staged + 1]
      PROVE  Accounts(k.pending, E, D, k.staged)
  <2>1. k.pending = pending \cup {Entry(f, staged + 1)} /\ k.staged = staged + 1
    BY <1>2
  <2>2. Accounts(pending \cup {Entry(f, staged + 1)}, E, D, staged + 1)
    BY EntryAccounts
  <2> QED
    BY <2>1, <2>2
<1> QED
  BY <1>1, <1>2 DEF FieldDone

\* What a new edge takes rides on it.
LEMMA TakenAccounts ==
  ASSUME NEW P, NEW E, NEW D, NEW s, Accounts(P, E, D, s), NEW M \in SUBSET P,
         NEW F, NEW e, e \notin DOMAIN E, DOMAIN F = DOMAIN E \cup {e},
         F[e].pre = Carried(M), \A f \in DOMAIN E : F[f] = E[f]
  PROVE  Accounts(P \ M, F, D, s)
<1>1. Riding(F, e) = Ids(M)
  <2>1. Riding(F, e) = {c.id : c \in Carried(M)}
    BY DEF Riding
  <2>2. ASSUME NEW x \in M PROVE x.id \in {c.id : c \in Carried(M)}
    <3>1. [id |-> x.id, ns |-> x.ns, on |-> x.on] \in Carried(M)
      BY DEF Carried
    <3> QED
      BY <3>1
  <2>3. ASSUME NEW c \in Carried(M) PROVE c.id \in Ids(M)
    BY DEF Carried, Ids
  <2> QED
    BY <2>1, <2>2, <2>3 DEF Ids
<1>2. \A f \in DOMAIN E : Riding(F, f) = Riding(E, f)
  BY DEF Riding
<1>3. Ids(P \ M) \cap Ids(M) = {} /\ \A i : i \in Ids(P) <=> i \in Ids(P \ M) \/ i \in Ids(M)
  BY DEF Accounts, Ids
<1>4. \A f, k \in DOMAIN F : f # k => Riding(F, f) \cap Riding(F, k) = {}
  BY <1>1, <1>2, <1>3 DEF Accounts
<1>5. \A f \in DOMAIN F : Riding(F, f) \cap (Ids(P \ M) \cup D) = {}
  <2>1. \A f \in DOMAIN E : \A i : i \in Riding(E, f) => i \notin Ids(P) /\ i \notin D
    BY DEF Accounts
  <2>2. \A i : i \in Ids(M) => i \notin Ids(P \ M) /\ i \notin D
    BY <1>3 DEF Accounts
  <2> SUFFICES ASSUME NEW f \in DOMAIN F, NEW i \in Riding(F, f)
               PROVE  i \notin Ids(P \ M) /\ i \notin D
    OBVIOUS
  <2>3. CASE f = e
    BY <1>1, <2>2, <2>3
  <2>4. CASE f \in DOMAIN E
    BY <1>2, <1>3, <2>1, <2>4
  <2> QED
    BY <2>3, <2>4
<1>6. Ids(P \ M) \cap D = {}
  BY <1>3 DEF Accounts
<1>7. \A i : (\E f \in DOMAIN F : i \in Riding(F, f))
               <=> i \in Ids(M) \/ \E f \in DOMAIN E : i \in Riding(E, f)
  BY <1>1, <1>2
<1>8. \A i : i \in 1 .. s <=> i \in Ids(P \ M) \/ i \in D \/ \E f \in DOMAIN F : i \in Riding(F, f)
  BY <1>3, <1>7 DEF Accounts
<1> QED
  BY <1>4, <1>5, <1>6, <1>8 DEF Accounts

\* What is dropped, with its tag or with its edge, is marked.
LEMMA DroppedAccounts ==
  ASSUME NEW P, NEW E, NEW D, NEW s, Accounts(P, E, D, s), NEW Q \in SUBSET P
  PROVE  Accounts(Q, E, D \cup Ids(P \ Q), s)
<1>1. Ids(P \ Q) \cap Ids(Q) = {} /\ \A i : i \in Ids(P) <=> i \in Ids(P \ Q) \/ i \in Ids(Q)
  BY DEF Accounts, Ids
<1>2. \A e \in DOMAIN E : Riding(E, e) \cap (Ids(Q) \cup (D \cup Ids(P \ Q))) = {}
  BY <1>1 DEF Accounts
<1>3. Ids(Q) \cap (D \cup Ids(P \ Q)) = {}
  BY <1>1 DEF Accounts
<1>4. \A i : i \in 1 .. s <=> i \in Ids(Q) \/ i \in D \cup Ids(P \ Q)
                              \/ \E e \in DOMAIN E : i \in Riding(E, e)
  BY <1>1 DEF Accounts
<1> QED
  BY <1>2, <1>3, <1>4 DEF Accounts

LEMMA RejectedAccounts ==
  ASSUME NEW P, NEW E, NEW D, NEW s, Accounts(P, E, D, s), NEW e \in DOMAIN E
  PROVE  Accounts(P, Without(E, {e}), D \cup Riding(E, e), s)
<1> DEFINE F == Without(E, {e})
<1>1. DOMAIN F = DOMAIN E \ {e} /\ \A f \in DOMAIN F : Riding(F, f) = Riding(E, f)
  BY DEF Without, Riding
<1> HIDE DEF F
<1>2. \A f, k \in DOMAIN F : f # k => Riding(F, f) \cap Riding(F, k) = {}
  BY <1>1 DEF Accounts
<1>3. \A f \in DOMAIN F : Riding(F, f) \cap (Ids(P) \cup (D \cup Riding(E, e))) = {}
  <2> SUFFICES ASSUME NEW f \in DOMAIN F, NEW i \in Riding(F, f)
               PROVE  i \notin Ids(P) /\ i \notin D /\ i \notin Riding(E, e)
    OBVIOUS
  <2>1. f \in DOMAIN E /\ f # e /\ i \in Riding(E, f)
    BY <1>1
  <2> QED
    BY <2>1 DEF Accounts
<1>4. Ids(P) \cap (D \cup Riding(E, e)) = {}
  BY DEF Accounts
<1>5. \A i : (\E f \in DOMAIN E : i \in Riding(E, f))
               <=> i \in Riding(E, e) \/ \E f \in DOMAIN F : i \in Riding(F, f)
  BY <1>1
<1>6. \A i : i \in 1 .. s <=> i \in Ids(P) \/ i \in D \cup Riding(E, e)
                              \/ \E f \in DOMAIN F : i \in Riding(F, f)
  BY <1>5 DEF Accounts
<1> QED
  BY <1>2, <1>3, <1>4, <1>6 DEF Accounts, F

StageInv == CommitInv /\ Accounts(pending, edges, discarded, staged)

LEMMA StepStageInv == StageInv /\ [Next]_vars => StageInv'
<1> SUFFICES ASSUME StageInv, [Next]_vars
             PROVE  Accounts(pending', edges', discarded', staged')
  BY StepCommitInv DEF StageInv
<1>0. /\ NodesOK /\ KeysOK(edges)
      /\ \A e \in DOMAIN edges : DOMAIN edges[e] = EdgeFields
      /\ Accounts(pending, edges, discarded, staged)
  BY DEF StageInv, CommitInv, EdgesOK
<1>1. ASSUME NEW g, NEW r, Follow(g, r), NEW k \in FieldDone
      PROVE  Accounts(Retagged(r, k.pending), g.edges, discarded, k.staged)
  <2>1. Moves(MovedBy(g.remap, edges), edges, g.edges)
    BY <1>1 DEF Follow
  <2>2. Accounts(k.pending, edges, discarded, k.staged)
    BY <1>0, DoneAccounts
  <2> QED
    BY <1>0, <2>1, <2>2, RetaggedAccounts, MovedAccounts
<1>2. ASSUME NEW g, NEW r, Follow(g, r), Kept(g, r)
      PROVE  Accounts(pending', edges', discarded', staged')
  <2>0. PICK k \in FieldDone : Restaged(r, k)
    BY <1>2 DEF Kept
  <2> DEFINE P == Retagged(r, k.pending)
  <2>1. Accounts(P, g.edges, discarded, k.staged)
    BY <1>1, <1>2
  <2>2. /\ edges' = g.edges /\ discarded' = discarded
        /\ \/ pending' = P /\ staged' = k.staged
           \/ staged' = k.staged + 1 /\ \E f : pending' = P \cup {Entry(f, k.staged + 1)}
    BY <1>2, <2>0 DEF Kept, Restaged
  <2> HIDE DEF P
  <2>3. \A f : Accounts(P \cup {Entry(f, k.staged + 1)}, g.edges, discarded, k.staged + 1)
    BY <2>1, EntryAccounts
  <2> QED
    BY <2>1, <2>2, <2>3
<1>3. ASSUME NEW g, NEW r, Follow(g, r), Grown(g, r)
      PROVE  Accounts(pending', edges', discarded', staged')
  <2>0. KeysOK(g.edges)
    BY <1>3 DEF Follow
  <2>2. PICK e, data : NewEdge(g, r, e, data)
    BY <1>3, <2>0, GrownEdges
  <2>6. PICK k \in FieldDone : Takes(r, k, data)
    BY <2>2 DEF NewEdge
  <2> DEFINE P == Retagged(r, k.pending)
  <2>1. Accounts(P, g.edges, discarded, k.staged)
    BY <1>1, <1>3
  <2>3. PICK M \in SUBSET P : data.pre = Carried(M) /\ pending' = P \ M
    BY <2>6 DEF Takes
  <2>4. /\ e \notin DOMAIN g.edges /\ DOMAIN edges' = DOMAIN g.edges \cup {e}
        /\ edges'[e].pre = Carried(M) /\ \A f \in DOMAIN g.edges : edges'[f] = g.edges[f]
        /\ staged' = k.staged /\ UNCHANGED discarded
    BY <2>2, <2>3, <2>6 DEF NewEdge, Takes
  <2> HIDE DEF P
  <2>5. Accounts(P \ M, edges', discarded, k.staged)
    BY <2>1, <2>4, TakenAccounts
  <2> QED
    BY <2>3, <2>4, <2>5
<1>4. ASSUME NEW keep \in nodes, NEW dup \in nodes, MarkPlain(keep, dup)
      PROVE  Accounts(pending', edges', discarded', staged')
  <2>1. PICK r, g : Follow(g, r) /\ edges' = g.edges
    BY <1>0, <1>4, MarkPlainFollows
  <2>2. Moves(MovedBy(g.remap, edges), edges, edges') /\ UNCHANGED <<pending, staged, discarded>>
    BY <1>4, <2>1 DEF Follow, MarkPlain, stagingVars
  <2> QED
    BY <1>0, <2>2, MovedAccounts
<1>5. ASSUME NEW e, ConfirmEdge(e)
      PROVE  Accounts(pending', edges', discarded', staged')
  BY <1>0, <1>5 DEF ConfirmEdge, stagingVars
<1>6. ASSUME NEW e \in DOMAIN edges, RejectEdge(e)
      PROVE  Accounts(pending', edges', discarded', staged')
  <2>1. /\ edges' = Without(edges, {e}) /\ UNCHANGED <<pending, staged>>
        /\ discarded' = discarded \cup UNION {CarriedIds(f) : f \in {e} \cap DOMAIN edges}
    BY <1>6 DEF RejectEdge
  <2>2. discarded' = discarded \cup Riding(edges, e)
    BY <2>1 DEF Riding, CarriedIds
  <2> QED
    BY <1>0, <2>1, <2>2, RejectedAccounts
<1>7. ASSUME NEW e \in DOMAIN edges, CorrectEdge(e)
      PROVE  Accounts(pending', edges', discarded', staged')
  <2>1. edges' = [edges EXCEPT ![e].action = "corrected"] /\ UNCHANGED <<pending, staged, discarded>>
    BY <1>7 DEF CorrectEdge, stagingVars
  <2>2. DOMAIN edges' = DOMAIN edges /\ \A f \in DOMAIN edges : Riding(edges', f) = Riding(edges, f)
    BY <1>0, <2>1 DEF EdgeFields, Riding
  <2> QED
    BY <1>0, <2>1, <2>2 DEF Accounts
<1>8. ASSUME UNCHANGED traceVars, Stages
      PROVE  Accounts(pending', edges', discarded', staged')
  <2>1. edges' = edges
    BY <1>8 DEF traceVars
  <2>2. CASE UNCHANGED stagingVars
    BY <1>0, <2>1, <2>2 DEF stagingVars
  <2>3. CASE FieldEnds
    BY <1>0, <2>1, <2>3, DoneAccounts DEF FieldEnds
  <2>4. ASSUME NEW c, NEW d, Reconcile(c, d)
        PROVE  Accounts(pending', edges', discarded', staged')
    <3>1. PICK k \in FieldDone :
            /\ pending' \in SUBSET k.pending /\ staged' = k.staged
            /\ discarded' = discarded \cup Ids(k.pending \ pending')
      BY <2>4 DEF Reconcile, Live
    <3>2. Accounts(k.pending, edges, discarded, k.staged)
      BY <1>0, DoneAccounts
    <3> QED
      BY <2>1, <3>1, <3>2, DroppedAccounts
  <2> QED
    BY <1>8, <2>2, <2>3, <2>4 DEF Stages
<1> QED
  BY <1>0, <1>2, <1>3, <1>4, <1>5, <1>6, <1>7, <1>8, StepKinds

\* Every pre-action staged is, once and only once, still staged, or riding one
\* edge, or dropped with a marker, whatever is renamed, merged, reconciled or
\* rejected.
THEOREM NothingStagedIsLost == Spec => []StagedOnce
<1>1. ASSUME Init PROVE StageInv
  <2>1. CommitInv /\ DOMAIN edges = {} /\ pending = {} /\ discarded = {} /\ staged = 0
    BY <1>1, InitCommitInv DEF Init
  <2> QED
    BY <2>1 DEF StageInv, Accounts, Ids
<1>2. ASSUME StageInv PROVE StagedOnce
  <2> DEFINE riding(i) == {e \in DOMAIN edges : i \in CarriedIds(e)}
             waiting(i) == {p \in pending : p.id = i}
  <2>0. Accounts(pending, edges, discarded, staged)
    BY <1>2 DEF StageInv
  <2>1. \A e : CarriedIds(e) = Riding(edges, e)
    BY DEF CarriedIds, Riding
  <2> SUFFICES ASSUME NEW i \in 1 .. staged
               PROVE  Cardinality(riding(i)) + Cardinality(waiting(i))
                        + (IF i \in discarded THEN 1 ELSE 0) = 1
    BY DEF StagedOnce
  <2>2. \A x : Cardinality({x}) = 1
    BY FS_Singleton
  <2>3. Cardinality({}) = 0
    BY FS_EmptySet
  <2>4. CASE i \in Ids(pending)
    <3>1. PICK p \in pending : p.id = i
      BY <2>4 DEF Ids
    <3>2. waiting(i) = {p} /\ riding(i) = {} /\ i \notin discarded
      BY <2>0, <2>1, <2>4, <3>1 DEF Accounts
    <3>3. Cardinality(waiting(i)) = 1 /\ Cardinality(riding(i)) = 0
      BY <2>2, <2>3, <3>2
    <3> HIDE DEF waiting, riding
    <3> QED
      BY <3>2, <3>3
  <2>5. CASE i \in discarded
    <3>1. waiting(i) = {} /\ riding(i) = {}
      BY <2>0, <2>1, <2>5 DEF Accounts, Ids
    <3> HIDE DEF waiting, riding
    <3> QED
      BY <2>3, <2>5, <3>1
  <2>6. CASE \E e \in DOMAIN edges : i \in Riding(edges, e)
    <3>1. PICK e \in DOMAIN edges : i \in Riding(edges, e)
      BY <2>6
    <3>2. waiting(i) = {} /\ riding(i) = {e} /\ i \notin discarded
      BY <2>0, <2>1, <3>1 DEF Accounts, Ids
    <3>3. Cardinality(waiting(i)) = 0 /\ Cardinality(riding(i)) = 1
      BY <2>2, <2>3, <3>2
    <3> HIDE DEF waiting, riding
    <3> QED
      BY <3>2, <3>3
  <2> QED
    BY <2>0, <2>4, <2>5, <2>6 DEF Accounts
<1> QED
  BY <1>1, <1>2, StepStageInv, PTL DEF Spec

(***************************************************************************)
(* Nothing typed is left behind.                                           *)
(***************************************************************************)
\* Those of P, entries or fields, that gained focus at rest are tagged with n.
Tagged(P, n) == \A p \in P : {"screen", "here"} \subseteq DOMAIN p /\ (p.here => p.screen = n)

AreEntries(P) == \A p \in P : {"screen", "on", "here", "after"} \subseteq DOMAIN p

TagInv == /\ NodesOK
          /\ Tagged(pending, current) /\ AreEntries(pending)
          /\ Tagged(typing, current)
          /\ pending \cup typing # {} => current # Gate!NoScreen

\* An entry is retagged and stays the entry it was.
LEMMA RetaggedEntries ==
  ASSUME NEW r, NEW P, AreEntries(P)
  PROVE  /\ AreEntries(Retagged(r, P))
         /\ \A q \in Retagged(r, P) :
              \E p \in P : q.on = p.on /\ q.here = p.here /\ q.after = p.after
<1> DEFINE tagged(x) == [x EXCEPT !.screen = Gate!Renamed(r, @)]
<1>1. \A x \in P : /\ {"screen", "on", "here", "after"} \subseteq DOMAIN tagged(x)
                   /\ tagged(x).on = x.on /\ tagged(x).here = x.here /\ tagged(x).after = x.after
  BY DEF AreEntries
<1>2. Retagged(r, P) = {tagged(x) : x \in P}
  BY DEF Retagged
<1> HIDE DEF tagged
<1> QED
  BY <1>1, <1>2 DEF AreEntries

\* What is tagged with the recorder's screen still is once it is renamed.
LEMMA RetaggedHere ==
  ASSUME NEW r, NEW P, NEW n, Tagged(P, n)
  PROVE  Tagged(Retagged(r, P), Gate!Renamed(r, n))
<1> DEFINE tagged(x) == [x EXCEPT !.screen = Gate!Renamed(r, @)]
<1>1. \A x \in P : /\ {"screen", "here"} \subseteq DOMAIN tagged(x)
                   /\ tagged(x).screen = Gate!Renamed(r, x.screen)
                   /\ tagged(x).here = x.here
  BY DEF Tagged
<1>2. Retagged(r, P) = {tagged(x) : x \in P}
  BY DEF Retagged
<1> HIDE DEF tagged
<1> QED
  BY <1>1, <1>2 DEF Tagged

\* An entry keeps its field's tag and whether the field gained focus at rest.
LEMMA EntryTagged ==
  ASSUME NEW P, NEW n, NEW f, NEW i, Tagged(P, n), AreEntries(P), f.here => f.screen = n
  PROVE  Tagged(P \cup {Entry(f, i)}, n) /\ AreEntries(P \cup {Entry(f, i)})
<1>1. /\ {"screen", "on", "here", "after"} \subseteq DOMAIN Entry(f, i)
      /\ Entry(f, i).here = f.here /\ Entry(f, i).screen = f.screen
  BY DEF Entry
<1> QED
  BY <1>1 DEF Tagged, AreEntries

LEMMA DoneTagged ==
  ASSUME NEW n, Tagged(pending, n), AreEntries(pending), Tagged(typing, n), NEW k \in FieldDone
  PROVE  Tagged(k.pending, n) /\ AreEntries(k.pending)
<1>1. CASE k.pending = pending
  BY <1>1
<1>2. ASSUME NEW f \in typing, k.pending = pending \cup {Entry(f, staged + 1)}
      PROVE  Tagged(k.pending, n) /\ AreEntries(k.pending)
  <2>1. f.here => f.screen = n
    BY DEF Tagged
  <2> QED
    BY <1>2, <2>1, EntryTagged
<1> QED
  BY <1>1, <1>2 DEF FieldDone

\* A field found at rest is tagged with the recorder's screen, or is not here.
LEMMA FieldHere ==
  ASSUME NEW t, NEW b \in BOOLEAN, b => t = current
  PROVE  /\ {"screen", "here"} \subseteq DOMAIN Field(t, b)
         /\ Field(t, b).here => b /\ Field(t, b).screen = current
<1>1. {"screen", "here"} \subseteq DOMAIN Field(t, b) /\ Field(t, b).screen = t
  BY DEF Field
<1>2. CASE b = TRUE
  BY <1>1, <1>2
<1>3. CASE b = FALSE
  <2>1. Field(t, b).here = FALSE
    BY <1>3 DEF Field
  <2> QED
    BY <1>1, <2>1
<1> QED
  BY <1>2, <1>3

LEMMA FieldsHere ==
  ASSUME NEW b \in BOOLEAN, NEW f \in Fields(b)
  PROVE  /\ {"screen", "here"} \subseteq DOMAIN f
         /\ f.here => b /\ f.screen = current
<1>1. PICK t : f = Field(t, b /\ t = current)
  BY DEF Fields
<1>2. CASE b /\ t = current
  <2>1. (b /\ t = current) = TRUE
    BY <1>2
  <2>2. f = Field(t, TRUE)
    BY <1>1, <2>1
  <2> QED
    BY <1>2, <2>2, FieldHere
<1>3. CASE ~(b /\ t = current)
  <2>1. (b /\ t = current) = FALSE
    BY <1>3
  <2>2. f = Field(t, FALSE)
    BY <1>1, <2>1
  <2> QED
    BY <2>2, FieldHere
<1> QED
  BY <1>2, <1>3

\* What gains focus while a screen settles did not gain it at rest.
LEMMA FocusedNotHere ==
  ASSUME NEW r, NEW t \in FocusedMeanwhile(r), NEW n
  PROVE  Tagged(t, n)
<1>1. t \subseteq Retagged(r, Fields(FALSE))
  BY DEF FocusedMeanwhile
<1>2. ASSUME NEW f \in Fields(FALSE)
      PROVE  {"screen", "here"} \subseteq DOMAIN f /\ ~f.here
  BY FieldsHere
<1>3. ASSUME NEW q \in Retagged(r, Fields(FALSE))
      PROVE  {"screen", "here"} \subseteq DOMAIN q /\ ~q.here
  <2>1. PICK f \in Fields(FALSE) : q = [f EXCEPT !.screen = Gate!Renamed(r, @)]
    BY DEF Retagged
  <2>2. DOMAIN q = DOMAIN f /\ q.here = f.here
    BY <1>2, <2>1
  <2> QED
    BY <1>2, <2>2
<1> QED
  BY <1>1, <1>3 DEF Tagged

\* A click leaves nothing staged on the screen it left.
LEMMA ClickTags ==
  ASSUME NEW g, NEW prov, NEW k, NEW source, NEW id,
         Tagged(k.pending, source), AreEntries(k.pending),
         Outcomes(g, prov, k, source, id, "click")
  PROVE  /\ Tagged(pending', current') /\ AreEntries(pending')
         /\ current' \in {source, id}
<1>1. CASE Flip(g, prov, k, source)
  <2>1. /\ pending' = k.pending \cup {Entry(Field(source, TRUE), k.staged + 1)}
        /\ current' = source
    BY <1>1 DEF Flip
  <2>2. Field(source, TRUE).screen = source
    BY DEF Field
  <2> QED
    BY <2>1, <2>2, EntryTagged
<1>2. CASE MayStay("click", source, id) /\ Probe(g, prov, k, id)
  BY <1>2 DEF MayStay, Probe
<1>3. ASSUME NEW unsure, Commit(g, prov, k, source, id, "click", unsure)
      PROVE  /\ Tagged(pending', current') /\ AreEntries(pending')
             /\ current' \in {source, id}
  <2>1. pending' = k.pending \ Mine(k.pending, source) /\ current' = id
    BY <1>3 DEF Commit, Rest
  <2>2. \A p \in pending' : p \in k.pending /\ p.screen # source
    BY <2>1 DEF Mine, Bridges
  <2> QED
    BY <2>1, <2>2 DEF Tagged, AreEntries
<1> QED
  BY <1>1, <1>2, <1>3 DEF Outcomes

LEMMA StepTagInv ==
  ASSUME "swipe" \notin Gestures, "plain" \notin Merges, "resume" \notin Edits,
         TagInv, [Next]_vars
  PROVE  TagInv'
<1> DEFINE Goal == /\ Tagged(pending', current') /\ AreEntries(pending')
                   /\ Tagged(typing', current')
                   /\ (pending' \cup typing' # {} => current' # Gate!NoScreen)
<1> SUFFICES Goal
  BY StepNodesOK DEF TagInv
<1>0. /\ NodesOK /\ IsFiniteSet(nodes) /\ MarksOwn(screens) /\ Gate!NoScreen \notin nodes
      /\ Tagged(pending, current) /\ AreEntries(pending) /\ Tagged(typing, current)
      /\ (pending \cup typing # {} => current # Gate!NoScreen)
  BY DEF TagInv, NodesOK
<1>1. ASSUME NEW o \in Observation, NEW type \in Gestures, Gesture(o, type)
      PROVE  Goal
  <2> DEFINE r == Renames(o)
             source == Gate!Renamed(r, current)
  <2>1. type = "click"
    BY BuilderAssumption
  <2>2. /\ source \in nodes' /\ Target(o) \in nodes' /\ Gate!NoScreen \notin nodes'
    <3>1. current \in nodes /\ Enters(o)
      BY <1>0, <1>1 DEF Gesture, NodesOK
    <3> QED
      BY <1>0, <3>1, EntersNodes
  <2>3. PICK done \in FieldDone :
          \E g, prov : Outcomes(g, prov, [done EXCEPT !.pending = Retagged(r, @)],
                                source, Target(o), "click")
    BY <1>1, <2>1 DEF Gesture
  <2>4. Tagged(done.pending, current) /\ AreEntries(done.pending)
    BY <1>0, DoneTagged
  <2> DEFINE k == [done EXCEPT !.pending = Retagged(r, @)]
  <2>5. k.pending = Retagged(r, done.pending)
    BY DEF FieldDone
  <2>6. PICK g, prov : Outcomes(g, prov, k, source, Target(o), "click")
    BY <2>3
  <2>7. Tagged(k.pending, source) /\ AreEntries(k.pending)
    <3> HIDE DEF r, k
    <3> QED
      BY <2>4, <2>5, RetaggedHere, RetaggedEntries
  <2>8. Tagged(typing', current')
    BY <1>1, FocusedNotHere DEF Gesture
  <2> HIDE DEF k, source, r
  <2> QED
    BY <2>2, <2>6, <2>7, <2>8, ClickTags
<1>2. ASSUME NEW o, Anchors(o)
      PROVE  pending' = {} /\ Tagged(typing', current') /\ current' = Target(o)
  <2>1. pending = {} /\ typing = {}
    BY <1>0, <1>2 DEF Anchors
  <2>2. PICK done \in FieldDone : pending' = Retagged(Renames(o), done.pending)
    BY <1>2 DEF Anchors
  <2>3. done.pending = {}
    BY <2>1 DEF FieldDone
  <2>4. pending' = {}
    BY <2>2, <2>3 DEF Retagged
  <2> QED
    BY <1>2, <2>4, FocusedNotHere DEF Anchors
<1>3. ASSUME NEW o \in Observation, Raises(o)
      PROVE  Goal
  <2>1. PICK k \in FieldDone : pending' = k.pending
    BY <1>3 DEF Raises
  <2>2. typing' = {} /\ current' = current
    BY <1>3 DEF Raises
  <2>3. pending' # {} => pending \cup typing # {}
    BY <2>1 DEF FieldDone
  <2>4. Tagged(pending', current) /\ AreEntries(pending')
    BY <1>0, <2>1, DoneTagged
  <2> QED
    BY <1>0, <2>2, <2>3, <2>4 DEF Tagged
<1>4. ASSUME NEW c, NEW d, Reconcile(c, d)
      PROVE  Goal
  <2>1. PICK k \in FieldDone : pending' = {x \in k.pending : x.screen = Gate!LookupId(c, d)}
    BY <1>4 DEF Reconcile, Live
  <2>2. /\ Gate!LookupId(c, d) # current /\ current' = Gate!LookupId(c, d) /\ typing' = {}
        /\ current' # Gate!NoScreen
    BY <1>4 DEF Reconcile, Live
  <2>3. Tagged(k.pending, current) /\ AreEntries(k.pending)
    BY <1>0, DoneTagged
  <2> QED
    BY <2>1, <2>2, <2>3 DEF Tagged, AreEntries
<1>5. CASE TrackText
  <2>1. PICK k \in FieldDone : pending' = k.pending
    BY <1>5 DEF TrackText
  <2>2. current # Gate!NoScreen /\ current' = current
    BY <1>5 DEF TrackText, gateVars
  <2>3. Tagged(pending', current) /\ AreEntries(pending')
    BY <1>0, <2>1, DoneTagged
  <2>4. typing' = {} \/ \E f \in Fields(TRUE) : typing' = {f}
    BY <1>5 DEF TrackText
  <2>5. \A f \in Fields(TRUE) : {"screen", "here"} \subseteq DOMAIN f /\ (f.here => f.screen = current)
    BY FieldsHere
  <2>6. Tagged(typing', current)
    BY <2>4, <2>5 DEF Tagged
  <2> QED
    BY <2>2, <2>3, <2>6
<1>6. ASSUME NEW c \in Coarse, MarkTwins(c)
      PROVE  Goal
  <2> DEFINE r == [n \in Gate!Family(c) |-> Gate!Fid(c)]
  <2>1. CASE Gate!Fid(c) \in nodes
    <3>1. UNCHANGED <<pending, typing, current>>
      BY <1>6, <2>1 DEF MarkTwins, stagingVars
    <3> QED
      BY <1>0, <3>1
  <2>2. CASE Gate!Fid(c) \notin nodes
    <3>1. /\ pending' = Retagged(r, pending) /\ typing' = Retagged(r, typing)
          /\ current' = Gate!Renamed(r, current)
      BY <1>6, <2>2 DEF MarkTwins
    <3>2. current # Gate!NoScreen => Gate!Renamed(r, current) # Gate!NoScreen
      BY DEF Gate!Renamed, Gate!Fid, Gate!NoScreen
    <3>3. /\ pending = {} => Retagged(r, pending) = {}
          /\ typing = {} => Retagged(r, typing) = {}
      BY DEF Retagged
    <3> HIDE DEF r
    <3>4. /\ Tagged(pending', current') /\ AreEntries(pending') /\ Tagged(typing', current')
      BY <1>0, <3>1, RetaggedHere, RetaggedEntries
    <3> QED
      BY <1>0, <3>1, <3>2, <3>3, <3>4
  <2> QED
    BY <2>1, <2>2
<1>7. ASSUME NEW e, ConfirmEdge(e) \/ RejectEdge(e) \/ CorrectEdge(e)
      PROVE  UNCHANGED <<pending, typing, current>>
  BY <1>7 DEF ConfirmEdge, RejectEdge, CorrectEdge, gateVars, stagingVars
<1>8. ~\E keep, dup \in nodes : MarkPlain(keep, dup)
  BY DEF MarkPlain
<1>9. CASE UNCHANGED vars
  BY <1>0, <1>9 DEF vars, gateVars, stagingVars
<1>10. ASSUME NEW o \in Observation, Anchors(o)
       PROVE  Goal
  <2>1. Target(o) # Gate!NoScreen
    BY <1>0, <1>10, EntersNodes DEF Anchors
  <2> QED
    BY <1>2, <1>10, <2>1 DEF Tagged, AreEntries
<1>11. UNCHANGED <<pending, typing, current>> => Goal
  BY <1>0
<1> HIDE DEF Goal
<1> QED
  BY <1>1, <1>3, <1>4, <1>5, <1>6, <1>7, <1>8, <1>9, <1>10, <1>11 DEF Next, HumanEdit

\* No edge of E out of the screen where an entry of P gained focus, at rest, was
\* committed after the entry was staged.
NoneLeft(P, E) ==
  \A p \in P, e \in DOMAIN E :
    p.here /\ E[e].from = p.on /\ E[e].class # "scroll" => E[e].at <= p.after

SubmitInv == CommitInv /\ TagInv /\ NoneLeft(pending, edges)

\* An entry staged now comes after every edge.
LEMMA EntryNoneLeft ==
  ASSUME NEW E, NEW P, NoneLeft(P, E), NEW f, NEW i, committed \in Nat,
         \A e \in DOMAIN E : E[e].at \in 1 .. committed
  PROVE  NoneLeft(P \cup {Entry(f, i)}, E)
<1>1. Entry(f, i).after = committed
  BY DEF Entry
<1> QED
  BY <1>1 DEF NoneLeft

LEMMA DoneNoneLeft ==
  ASSUME NEW E, NoneLeft(pending, E), committed \in Nat,
         \A e \in DOMAIN E : E[e].at \in 1 .. committed, NEW k \in FieldDone
  PROVE  NoneLeft(k.pending, E)
<1>1. k.pending = pending \/ \E f : k.pending = pending \cup {Entry(f, staged + 1)}
  BY DEF FieldDone
<1> QED
  BY <1>1, EntryNoneLeft

LEMMA StepSubmitInv ==
  ASSUME "swipe" \notin Gestures, "plain" \notin Merges, "resume" \notin Edits,
         SubmitInv, [Next]_vars
  PROVE  SubmitInv'
<1>0. /\ NodesOK /\ KeysOK(edges) /\ NoneLeft(pending, edges)
      /\ Tagged(pending, current) /\ AreEntries(pending) /\ Tagged(typing, current)
      /\ \A e \in DOMAIN edges : edges[e].at \in 1 .. committed
      /\ \A e \in DOMAIN edges : DOMAIN edges[e] = EdgeFields
      /\ committed \in Nat
  BY DEF SubmitInv, CommitInv, TagInv, EdgesOK, Ats
<1> SUFFICES NoneLeft(pending', edges')
  BY StepCommitInv, StepTagInv DEF SubmitInv
<1>1. ASSUME NEW g, NEW r, Follow(g, r), NEW k \in FieldDone
      PROVE  /\ NoneLeft(Retagged(r, k.pending), g.edges)
             /\ Tagged(Retagged(r, k.pending), Gate!Renamed(r, current))
             /\ \A e \in DOMAIN g.edges : g.edges[e].at \in 1 .. committed
  <2>1. \A e \in DOMAIN g.edges : \E f \in DOMAIN edges : g.edges[e] = edges[f]
    BY <1>1 DEF Follow, Moves
  <2>2. Tagged(k.pending, current) /\ AreEntries(k.pending)
    BY <1>0, DoneTagged
  <2>3. NoneLeft(k.pending, edges)
    BY <1>0, DoneNoneLeft
  <2>4. \A q \in Retagged(r, k.pending) :
          \E p \in k.pending : q.on = p.on /\ q.here = p.here /\ q.after = p.after
    BY <2>2, RetaggedEntries
  <2>5. Tagged(Retagged(r, k.pending), Gate!Renamed(r, current))
    BY <2>2, RetaggedHere
  <2>6. NoneLeft(Retagged(r, k.pending), g.edges)
    BY <2>1, <2>3, <2>4 DEF NoneLeft
  <2> QED
    BY <1>0, <2>1, <2>5, <2>6
<1>3. ASSUME NEW g, NEW r, Follow(g, r), Kept(g, r)
      PROVE  NoneLeft(pending', edges')
  <2>1. PICK k \in FieldDone : Restaged(r, k)
    BY <1>3 DEF Kept
  <2>2. /\ edges' = g.edges
        /\ \/ pending' = Retagged(r, k.pending)
           \/ \E f : pending' = Retagged(r, k.pending) \cup {Entry(f, k.staged + 1)}
    BY <1>3, <2>1 DEF Kept, Restaged
  <2>3. /\ NoneLeft(Retagged(r, k.pending), g.edges)
        /\ \A e \in DOMAIN g.edges : g.edges[e].at \in 1 .. committed
    BY <1>1, <1>3
  <2> QED
    BY <1>0, <2>2, <2>3, EntryNoneLeft
<1>4. ASSUME NEW g, NEW r, Follow(g, r), Grown(g, r)
      PROVE  NoneLeft(pending', edges')
  <2>0. KeysOK(g.edges)
    BY <1>4 DEF Follow
  <2>2. PICK e, data : NewEdge(g, r, e, data)
    BY <1>4, <2>0, GrownEdges
  <2>8. PICK k \in FieldDone : Takes(r, k, data)
    BY <2>2 DEF NewEdge
  <2> DEFINE P == Retagged(r, k.pending)
             source == Gate!Renamed(r, current)
  <2>1. NoneLeft(P, g.edges) /\ Tagged(P, source)
    BY <1>1, <1>4
  <2>3. PICK M \in SUBSET P : /\ data.class = "scroll" \/ M = Mine(P, source)
                             /\ pending' = P \ M
    BY <2>8 DEF Takes
  <2>4. /\ DOMAIN edges' = DOMAIN g.edges \cup {e}
        /\ edges'[e] = data /\ \A f \in DOMAIN g.edges : edges'[f] = g.edges[f]
    BY <2>2 DEF NewEdge
  <2> HIDE DEF P, source
  <2>6. CASE data.class = "scroll"
    BY <2>1, <2>3, <2>4, <2>6 DEF NoneLeft
  <2>7. CASE M = Mine(P, source)
    <3>1. \A p \in pending' : p \in P /\ p.screen # source
      BY <2>3, <2>7 DEF Mine, Bridges
    <3>2. \A p \in pending' : ~p.here
      BY <2>1, <3>1 DEF Tagged
    <3> QED
      BY <3>2 DEF NoneLeft
  <2> QED
    BY <2>3, <2>6, <2>7
<1>5. ASSUME NEW e, ConfirmEdge(e)
      PROVE  NoneLeft(pending', edges')
  BY <1>0, <1>5 DEF ConfirmEdge, stagingVars
<1>6. ASSUME NEW e \in DOMAIN edges, RejectEdge(e)
      PROVE  NoneLeft(pending', edges')
  <2>1. edges' = Without(edges, {e}) /\ pending' = pending
    BY <1>6 DEF RejectEdge
  <2> QED
    BY <1>0, <2>1 DEF Without, NoneLeft
<1>7. ASSUME NEW e \in DOMAIN edges, CorrectEdge(e)
      PROVE  NoneLeft(pending', edges')
  <2>1. edges' = [edges EXCEPT ![e].action = "corrected"] /\ pending' = pending
    BY <1>7 DEF CorrectEdge, stagingVars
  <2>2. /\ DOMAIN edges' = DOMAIN edges
        /\ \A f \in DOMAIN edges : /\ edges'[f].from = edges[f].from
                                  /\ edges'[f].class = edges[f].class
                                  /\ edges'[f].at = edges[f].at
    BY <1>0, <2>1 DEF EdgeFields
  <2> QED
    BY <1>0, <2>1, <2>2 DEF NoneLeft
<1>8. ASSUME UNCHANGED traceVars, Stages
      PROVE  NoneLeft(pending', edges')
  <2>1. edges' = edges
    BY <1>8 DEF traceVars
  <2>2. CASE UNCHANGED stagingVars
    BY <1>0, <2>1, <2>2 DEF stagingVars
  <2>3. CASE FieldEnds
    BY <1>0, <2>1, <2>3, DoneNoneLeft DEF FieldEnds
  <2>4. ASSUME NEW c, NEW d, Reconcile(c, d)
        PROVE  NoneLeft(pending', edges')
    <3>1. PICK k \in FieldDone : pending' \subseteq k.pending
      BY <2>4 DEF Reconcile, Live
    <3>2. NoneLeft(k.pending, edges)
      BY <1>0, DoneNoneLeft
    <3> QED
      BY <2>1, <3>1, <3>2 DEF NoneLeft
  <2> QED
    BY <1>8, <2>2, <2>3, <2>4 DEF Stages
<1>9. ~\E keep, dup \in nodes : MarkPlain(keep, dup)
  BY DEF MarkPlain
<1> QED
  BY <1>0, <1>3, <1>4, <1>5, <1>6, <1>7, <1>8, <1>9, StepKinds

\* As long as the gestures are clicks, and nobody pauses the session or merges
\* two unrelated screens, text typed into a field that gained focus while the
\* recorder stood at rest on its screen is left behind by no later edge out of
\* that screen: not if the screen is renamed between the focus and the submit,
\* nor if the field is still in flight when the submit's own tap ends it, nor if
\* other fields gained focus while a screen settled and keep an older tag.
THEOREM SubmitTakesAll ==
  ASSUME "swipe" \notin Gestures, "plain" \notin Merges, "resume" \notin Edits
  PROVE  Spec => []SubmitCarriesAll
<1>1. ASSUME Init PROVE SubmitInv
  <2>1. CommitInv /\ NodesOK /\ pending = {} /\ typing = {}
    BY <1>1, InitCommitInv, InitNodesOK DEF Init
  <2> QED
    BY <2>1 DEF SubmitInv, TagInv, Tagged, AreEntries, NoneLeft
<1>2. SubmitInv => SubmitCarriesAll
  BY DEF SubmitInv, SubmitCarriesAll, NoneLeft
<1>3. SubmitInv /\ [Next]_vars => SubmitInv'
  BY StepSubmitInv
<1> QED
  BY <1>1, <1>2, <1>3, PTL DEF Spec
=============================================================================
