---------------------------- MODULE CaptureProofs ----------------------------
(***************************************************************************)
(* Proofs about Capture: the decoders, whatever lines they are fed, and    *)
(* the two properties of the gesture queue (GesturesAsMade, NoHalfTouch).  *)
(***************************************************************************)
EXTENDS Capture, SequenceTheorems, WellFoundedInduction, TLAPS

-----------------------------------------------------------------------------
(* Induction *)

\* A set of naturals that is not empty has a least element.
LEMMA LeastNatural ==
  ASSUME NEW T \in SUBSET Nat, T # {}
  PROVE  \E x \in T : \A y \in T : x <= y
<1>1. \E R : IsWellFoundedOn(R, Nat) /\ \A x, y \in Nat : y < x => <<y, x>> \in R
  <2>1. IsWellFoundedOn(OpToRel(<, Nat), Nat)
    BY NatLessThanWellFounded
  <2>2. \A x, y \in Nat : y < x => <<y, x>> \in OpToRel(<, Nat)
    BY DEF OpToRel
  <2> QED
    BY <2>1, <2>2
<1>2. PICK R : IsWellFoundedOn(R, Nat) /\ \A x, y \in Nat : y < x => <<y, x>> \in R
  BY <1>1
<1>3. PICK x \in T : \A y \in T : ~(<<y, x>> \in R)
  BY <1>2, WFMin
<1>4. ASSUME NEW y \in T
      PROVE  x <= y
  <2>1. ~(<<y, x>> \in R)
    BY <1>3
  <2>2. x \in Nat /\ y \in Nat
    OBVIOUS
  <2>3. ~(y < x)
    BY <1>2, <2>1, <2>2
  <2> QED
    BY <2>2, <2>3
<1> QED
  BY <1>4

\* Induction, over a set: one that holds 0 and every successor of its own holds
\* every natural number.
LEMMA NatSetInduction ==
  ASSUME NEW S, 0 \in S, \A n \in Nat : n \in S => n + 1 \in S
  PROVE  Nat \subseteq S
<1> SUFFICES ASSUME Nat \ S # {} PROVE FALSE
  OBVIOUS
<1>1. PICK x \in Nat \ S : \A y \in Nat \ S : x <= y
  BY LeastNatural
<1>2. x # 0
  OBVIOUS
<1>3. x - 1 \in Nat /\ x - 1 \in S
  BY <1>1, <1>2
<1> QED
  BY <1>3

\* Induction over the sequences of a set: a set that holds the empty one and,
\* with a sequence, the sequence with one element more, holds them all.
LEMMA SeqInduction ==
  ASSUME NEW L, NEW T, <<>> \in T,
         \A s \in Seq(L), e \in L : s \in T => Append(s, e) \in T
  PROVE  Seq(L) \subseteq T
<1> DEFINE S == {n \in Nat : \A s \in Seq(L) : Len(s) = n => s \in T}
<1>1. 0 \in S
  <2>1. \A s \in Seq(L) : Len(s) = 0 => s = <<>>
    OBVIOUS
  <2> QED
    BY <2>1
<1>2. ASSUME NEW n \in Nat, n \in S
      PROVE  n + 1 \in S
  <2> SUFFICES ASSUME NEW s \in Seq(L), Len(s) = n + 1
               PROVE  s \in T
    OBVIOUS
  <2>1. s # <<>>
    BY <1>2
  <2>2. PICK r \in Seq(L), e \in L : s = Append(r, e)
    BY <2>1, SequenceEmptyOrAppend
  <2>3. Len(r) \in Nat /\ Len(s) = Len(r) + 1
    BY <2>2, AppendProperties, LenProperties
  <2>4. Len(r) = n
    BY <1>2, <2>3
  <2>5. r \in T
    BY <1>2, <2>4
  <2> QED
    BY <2>2, <2>5
<1>3. Nat \subseteq S
  <2> HIDE DEF S
  <2> QED
    BY <1>1, <1>2, NatSetInduction
<1>4. ASSUME NEW s \in Seq(L)
      PROVE  s \in T
  <2>1. Len(s) \in Nat
    BY LenProperties
  <2>2. Len(s) \in S
    BY <1>3, <2>1
  <2> QED
    BY <2>2
<1> QED
  BY <1>4

\* Two sequences of states that start alike and go on alike end alike.
LEMMA Agreement ==
  ASSUME NEW f, NEW g, NEW N \in Nat, f[0] = g[0],
         \A n \in 1..N : f[n - 1] = g[n - 1] => f[n] = g[n]
  PROVE  f[N] = g[N]
<1> DEFINE S == {n \in Nat : n <= N => f[n] = g[n]}
<1>1. 0 \in S
  OBVIOUS
<1>2. ASSUME NEW n \in Nat, n \in S
      PROVE  n + 1 \in S
  <2> SUFFICES ASSUME n + 1 <= N
               PROVE  f[n + 1] = g[n + 1]
    OBVIOUS
  <2>1. n + 1 \in 1..N /\ (n + 1) - 1 = n /\ n <= N
    OBVIOUS
  <2>2. f[n] = g[n]
    BY <1>2, <2>1
  <2> QED
    BY <2>1, <2>2
<1>3. Nat \subseteq S
  <2> HIDE DEF S
  <2> QED
    BY <1>1, <1>2, NatSetInduction
<1> QED
  BY <1>3

-----------------------------------------------------------------------------
(* A decoder goes on from where it was *)

Runs(f, p, evs, thr) ==
  f = [n \in 0..Len(evs) |-> IF n = 0 THEN Fresh(p) ELSE Step(p, thr, f[n - 1], evs[n])]

\* The recursion of Decoder defines a function.
LEMMA RunsExist ==
  ASSUME NEW L, NEW p, NEW thr, NEW evs \in Seq(L)
  PROVE  \E f : Runs(f, p, evs, thr)
<1> DEFINE T == {s \in Seq(L) : \E f : Runs(f, p, s, thr)}
<1>1. <<>> \in T
  <2>1. Runs([n \in {0} |-> Fresh(p)], p, <<>>, thr)
    BY DEF Runs
  <2> QED
    BY <2>1
<1>2. ASSUME NEW s \in Seq(L), NEW e \in L, s \in T
      PROVE  Append(s, e) \in T
  <2> DEFINE N == Len(s)
             t == Append(s, e)
  <2>1. PICK f : Runs(f, p, s, thr)
    BY <1>2
  <2>2. t \in Seq(L) /\ Len(t) = N + 1 /\ t[N + 1] = e /\ \A n \in 1..N : t[n] = s[n]
    BY AppendProperties
  <2>3. N \in Nat
    BY LenProperties
  <2> DEFINE g == [n \in 0..N + 1 |-> IF n <= N THEN f[n] ELSE Step(p, thr, f[N], e)]
  <2> HIDE DEF N, t
  <2>4. f[0] = Fresh(p) /\ \A n \in 1..N : f[n] = Step(p, thr, f[n - 1], s[n])
    BY <2>1, <2>3 DEF Runs, N
  <2>5. g[0] = Fresh(p)
    BY <2>3, <2>4
  <2>6. ASSUME NEW n \in 1..N + 1
        PROVE  g[n] = Step(p, thr, g[n - 1], t[n])
    <3>1. CASE n = N + 1
      <4>1. g[n] = Step(p, thr, f[N], e) /\ g[n - 1] = f[N] /\ t[n] = e
        BY <2>2, <2>3, <3>1
      <4> QED
        BY <4>1
    <3>2. CASE n # N + 1
      <4>1. n \in 1..N
        BY <2>3, <3>2
      <4>2. g[n] = f[n] /\ g[n - 1] = f[n - 1] /\ t[n] = s[n]
        BY <2>2, <2>3, <4>1
      <4> QED
        BY <2>4, <4>1, <4>2
    <3> QED
      BY <3>1, <3>2
  <2>7. g = [n \in 0..N + 1 |-> IF n = 0 THEN Fresh(p) ELSE Step(p, thr, g[n - 1], t[n])]
    <3> DEFINE h == [n \in 0..N + 1 |-> IF n = 0 THEN Fresh(p) ELSE Step(p, thr, g[n - 1], t[n])]
    <3>1. \A n \in 0..N + 1 : g[n] = h[n]
      <4> HIDE DEF g
      <4> QED
        BY <2>3, <2>5, <2>6
    <3>2. DOMAIN g = 0..N + 1 /\ DOMAIN h = 0..N + 1
      OBVIOUS
    <3>3. g = [n \in 0..N + 1 |-> g[n]] /\ h = [n \in 0..N + 1 |-> h[n]]
      OBVIOUS
    <3> HIDE DEF g, h
    <3>4. g = h
      BY <3>1, <3>3
    <3> QED
      BY <3>4 DEF h
  <2> HIDE DEF g
  <2>8. Runs(g, p, t, thr)
    BY <2>2, <2>7 DEF Runs
  <2> QED
    BY <2>2, <2>8 DEF t
<1> HIDE DEF T
<1>3. Seq(L) \subseteq T
  BY <1>1, <1>2, SeqInduction
<1> QED
  BY <1>3 DEF T

\* Nothing read: the decoder is fresh.
LEMMA DecoderStarts ==
  ASSUME NEW p, NEW thr
  PROVE  Decoder(p, <<>>, thr) = Fresh(p)
<1> DEFINE f == CHOOSE f : Runs(f, p, <<>>, thr)
<1>1. Decoder(p, <<>>, thr) = f[0]
  BY DEF Decoder, Runs
<1>2. <<>> \in Seq({})
  OBVIOUS
<1>3. Runs(f, p, <<>>, thr)
  BY <1>2, RunsExist
<1> HIDE DEF f
<1>4. f[0] = Fresh(p)
  BY <1>3 DEF Runs
<1> QED
  BY <1>1, <1>4

\* One line more: one step more.
LEMMA DecoderSteps ==
  ASSUME NEW L, NEW p, NEW thr, NEW s \in Seq(L), NEW e \in L
  PROVE  Decoder(p, Append(s, e), thr) = Step(p, thr, Decoder(p, s, thr), e)
<1> DEFINE t == Append(s, e)
           N == Len(s)
           f == CHOOSE f : Runs(f, p, s, thr)
           g == CHOOSE g : Runs(g, p, t, thr)
<1>1. t \in Seq(L) /\ Len(t) = N + 1 /\ t[N + 1] = e /\ \A n \in 1..N : t[n] = s[n]
  BY AppendProperties
<1>2. N \in Nat
  BY LenProperties
<1>3. Decoder(p, s, thr) = f[N] /\ Decoder(p, t, thr) = g[Len(t)]
  BY DEF Decoder, Runs
<1>4. Runs(f, p, s, thr)
  BY RunsExist
<1>5. Runs(g, p, t, thr)
  <2> HIDE DEF t
  <2> QED
    BY <1>1, RunsExist
<1> HIDE DEF f, g, t, N
<1>6. f[0] = Fresh(p) /\ \A n \in 1..N : f[n] = Step(p, thr, f[n - 1], s[n])
  BY <1>2, <1>4 DEF Runs, N
<1>7. g[0] = Fresh(p) /\ \A n \in 1..N + 1 : g[n] = Step(p, thr, g[n - 1], t[n])
  BY <1>1, <1>2, <1>5 DEF Runs
<1>8. f[N] = g[N]
  <2>1. ASSUME NEW n \in 1..N, f[n - 1] = g[n - 1]
        PROVE  f[n] = g[n]
    <3>1. n \in 1..N + 1 /\ t[n] = s[n]
      BY <1>1, <1>2
    <3> QED
      BY <1>6, <1>7, <2>1, <3>1
  <2>2. f[0] = g[0]
    BY <1>6, <1>7
  <2>3. \A n \in 1..N : f[n - 1] = g[n - 1] => f[n] = g[n]
    BY <2>1
  <2> QED
    BY <1>2, <2>2, <2>3, Agreement
<1>9. g[N + 1] = Step(p, thr, g[N], e)
  <2>1. N + 1 \in 1..N + 1 /\ (N + 1) - 1 = N
    BY <1>2
  <2> QED
    BY <1>1, <1>7, <2>1
<1> QED
  BY <1>1, <1>3, <1>8, <1>9 DEF t

-----------------------------------------------------------------------------
(* What the loop acts on, gesture by gesture *)

Counts(g) == Single(g) /\ ~g.truncated
Picked(h, g) == IF Counts(g) THEN Append(h, g) ELSE h

Picks(f, q) == f = [n \in 0..Len(q) |-> IF n = 0 THEN <<>> ELSE Picked(f[n - 1], q[n])]

\* The recursion of Complete defines a function.
LEMMA PicksExist ==
  ASSUME NEW L, NEW q \in Seq(L)
  PROVE  \E f : Picks(f, q)
<1> DEFINE T == {s \in Seq(L) : \E f : Picks(f, s)}
<1>1. <<>> \in T
  <2>1. Picks([n \in {0} |-> <<>>], <<>>)
    BY DEF Picks
  <2> QED
    BY <2>1
<1>2. ASSUME NEW s \in Seq(L), NEW e \in L, s \in T
      PROVE  Append(s, e) \in T
  <2> DEFINE N == Len(s)
             t == Append(s, e)
  <2>1. PICK f : Picks(f, s)
    BY <1>2
  <2>2. t \in Seq(L) /\ Len(t) = N + 1 /\ t[N + 1] = e /\ \A n \in 1..N : t[n] = s[n]
    BY AppendProperties
  <2>3. N \in Nat
    BY LenProperties
  <2> DEFINE last == Picked(f[N], e)
             g == [n \in 0..N + 1 |-> IF n <= N THEN f[n] ELSE last]
  <2> HIDE DEF N, t
  <2>4. f[0] = <<>> /\ \A n \in 1..N : f[n] = Picked(f[n - 1], s[n])
    BY <2>1, <2>3 DEF Picks, N
  <2>5. g[0] = <<>>
    BY <2>3, <2>4
  <2>6. ASSUME NEW n \in 1..N + 1
        PROVE  g[n] = Picked(g[n - 1], t[n])
    <3>1. CASE n = N + 1
      <4>1. g[n] = last /\ g[n - 1] = f[N] /\ t[n] = e
        BY <2>2, <2>3, <3>1
      <4> QED
        BY <4>1
    <3>2. CASE n # N + 1
      <4>1. n \in 1..N
        BY <2>3, <3>2
      <4>2. g[n] = f[n] /\ g[n - 1] = f[n - 1] /\ t[n] = s[n]
        BY <2>2, <2>3, <4>1
      <4> QED
        BY <2>4, <4>1, <4>2
    <3> QED
      BY <3>1, <3>2
  <2>7. g = [n \in 0..N + 1 |-> IF n = 0 THEN <<>> ELSE Picked(g[n - 1], t[n])]
    <3> DEFINE h == [n \in 0..N + 1 |-> IF n = 0 THEN <<>> ELSE Picked(g[n - 1], t[n])]
    <3>1. \A n \in 0..N + 1 : g[n] = h[n]
      <4> HIDE DEF g
      <4> QED
        BY <2>3, <2>5, <2>6
    <3>2. g = [n \in 0..N + 1 |-> g[n]] /\ h = [n \in 0..N + 1 |-> h[n]]
      OBVIOUS
    <3> HIDE DEF g, h
    <3>3. g = h
      BY <3>1, <3>2
    <3> QED
      BY <3>3 DEF h
  <2> HIDE DEF g
  <2>8. Picks(g, t)
    BY <2>2, <2>7 DEF Picks
  <2> QED
    BY <2>2, <2>8 DEF t
<1> HIDE DEF T
<1>3. Seq(L) \subseteq T
  BY <1>1, <1>2, SeqInduction
<1> QED
  BY <1>3 DEF T

\* Complete keeps nothing of no gestures.
LEMMA CompleteStarts ==
  Complete(<<>>) = <<>>
<1> DEFINE f == CHOOSE f : Picks(f, <<>>)
<1>1. Complete(<<>>) = f[0]
  BY DEF Complete, Picks, Picked, Counts
<1>2. <<>> \in Seq({})
  OBVIOUS
<1>3. Picks(f, <<>>)
  BY <1>2, PicksExist
<1> HIDE DEF f
<1>4. f[0] = <<>>
  BY <1>3 DEF Picks
<1> QED
  BY <1>1, <1>4

\* Complete takes gestures one by one.
LEMMA CompleteSteps ==
  ASSUME NEW L, NEW s \in Seq(L), NEW e \in L
  PROVE  Complete(Append(s, e)) = Picked(Complete(s), e)
<1> DEFINE t == Append(s, e)
           N == Len(s)
           f == CHOOSE f : Picks(f, s)
           g == CHOOSE g : Picks(g, t)
<1>1. t \in Seq(L) /\ Len(t) = N + 1 /\ t[N + 1] = e /\ \A n \in 1..N : t[n] = s[n]
  BY AppendProperties
<1>2. N \in Nat
  BY LenProperties
<1>3. Complete(s) = f[N] /\ Complete(t) = g[Len(t)]
  BY DEF Complete, Picks, Picked, Counts
<1>4. Picks(f, s)
  BY PicksExist
<1>5. Picks(g, t)
  <2> HIDE DEF t
  <2> QED
    BY <1>1, PicksExist
<1> HIDE DEF f, g, t, N
<1>6. /\ f[0] = <<>>
      /\ \A n \in 1..N : f[n] = Picked(f[n - 1], s[n])
  BY <1>2, <1>4 DEF Picks, N
<1>7. /\ g[0] = <<>>
      /\ \A n \in 1..N + 1 : g[n] = Picked(g[n - 1], t[n])
  BY <1>1, <1>2, <1>5 DEF Picks
<1>8. f[N] = g[N]
  <2>1. ASSUME NEW n \in 1..N, f[n - 1] = g[n - 1]
        PROVE  f[n] = g[n]
    <3>1. n \in 1..N + 1 /\ t[n] = s[n]
      BY <1>1, <1>2
    <3> QED
      BY <1>6, <1>7, <2>1, <3>1
  <2>2. f[0] = g[0]
    BY <1>6, <1>7
  <2>3. \A n \in 1..N : f[n - 1] = g[n - 1] => f[n] = g[n]
    BY <2>1
  <2> QED
    BY <1>2, <2>2, <2>3, Agreement
<1>9. g[N + 1] = Picked(g[N], e)
  <2>1. N + 1 \in 1..N + 1 /\ (N + 1) - 1 = N
    BY <1>2
  <2> QED
    BY <1>1, <1>7, <2>1
<1> QED
  BY <1>1, <1>3, <1>8, <1>9 DEF t

\* What counts is a sequence of the same gestures.
LEMMA CompleteIsSeq ==
  ASSUME NEW L, NEW q \in Seq(L)
  PROVE  Complete(q) \in Seq(L)
<1> DEFINE T == {s \in Seq(L) : Complete(s) \in Seq(L)}
<1>1. <<>> \in T
  <2>1. <<>> \in Seq(L)
    OBVIOUS
  <2>2. Complete(<<>>) \in Seq(L)
    BY <2>1, CompleteStarts, Zenon
  <2> QED
    BY <2>1, <2>2
<1>2. ASSUME NEW s \in Seq(L), NEW e \in L, s \in T
      PROVE  Append(s, e) \in T
  <2>1. Append(s, e) \in Seq(L)
    OBVIOUS
  <2>2. Complete(Append(s, e)) = Picked(Complete(s), e)
    BY CompleteSteps
  <2>3. Complete(s) \in Seq(L) /\ Append(Complete(s), e) \in Seq(L)
    BY <1>2
  <2> QED
    BY <2>1, <2>2, <2>3 DEF Picked
<1> HIDE DEF T
<1>3. Seq(L) \subseteq T
  BY <1>1, <1>2, SeqInduction
<1> QED
  BY <1>3 DEF T

-----------------------------------------------------------------------------
(* Lines, contacts and gestures *)

Coord == Nat \cup {Unseen}
Gestures == [kind : {"multi", "swipe", "long_press", "tap"}, down : Nat, up : Nat,
             at : Nat \X Nat, truncated : BOOLEAN]
Lines == [code : {"SLOT", "X", "Y"}, value : Nat, ts : Nat]
           \cup [code : {"TRACKING_ID"}, value : {"id", "lift"}, ts : Nat]
           \cup [code : {"BTN_TOUCH"}, value : {"DOWN", "UP"}, ts : Nat]

\* What a decoder keeps of a contact.
IsContact(c) == /\ c.down \in Nat /\ c.multi \in BOOLEAN
                /\ c.sx \in Coord /\ c.sy \in Coord /\ c.lx \in Coord /\ c.ly \in Coord

\* The gesture of a contact is single when the contact is.
LEMMA ClosedGesture ==
  ASSUME NEW c, IsContact(c), NEW ts \in Nat, NEW truncated \in BOOLEAN, NEW thr
  PROVE  LET g == Closed(c, ts, truncated, thr)
         IN  g \in Gestures /\ g.truncated = truncated /\ (Single(g) <=> ~c.multi)
<1> DEFINE g == Closed(c, ts, truncated, thr)
           sx == IF c.sx = Unseen THEN 0 ELSE c.sx
           sy == IF c.sy = Unseen THEN 0 ELSE c.sy
           far == Far(sx, sy, First(c.lx, sx), First(c.ly, sy), thr.dist, thr.ux, thr.uy)
           kind == CASE c.multi -> "multi"
                     [] ~c.multi /\ far -> "swipe"
                     [] OTHER -> IF ts - c.down >= 1 THEN "long_press" ELSE "tap"
<1>1. g = [kind |-> kind, down |-> c.down, up |-> ts, at |-> <<sx, sy>>, truncated |-> truncated]
  BY DEF Closed, make_gesture
<1>2. sx \in Nat /\ sy \in Nat
  BY DEF IsContact, Coord
<1> HIDE DEF far, sx, sy
<1>3. kind \in {"multi", "swipe", "long_press", "tap"} /\ (kind # "multi" <=> ~c.multi)
  <2>1. CASE c.multi
    <3>1. kind = "multi"
      BY <2>1
    <3> QED
      BY <2>1, <3>1
  <2>2. CASE ~c.multi /\ far
    <3>1. kind = "swipe"
      BY <2>2
    <3> QED
      BY <2>2, <3>1
  <2>3. CASE ~c.multi /\ ~far
    <3>1. kind = IF ts - c.down >= 1 THEN "long_press" ELSE "tap"
      BY <2>3
    <3>2. kind \in {"long_press", "tap"}
      BY <3>1
    <3> QED
      BY <2>3, <3>2
  <2> QED
    BY <2>1, <2>2, <2>3
<1> HIDE DEF kind
<1>4. g \in Gestures /\ g.truncated = truncated /\ g.kind = kind
  BY <1>1, <1>2, <1>3 DEF Gestures, IsContact
<1> HIDE DEF g
<1> QED
  BY <1>3, <1>4 DEF Single, g

\* A sequence with the element at i taken out.
LEMMA RemoveAtProperties ==
  ASSUME NEW L, NEW s \in Seq(L), NEW i \in 1..Len(s)
  PROVE  /\ RemoveAt(s, i) \in Seq(L)
         /\ Len(RemoveAt(s, i)) = Len(s) - 1
         /\ \A j \in 1..Len(s) - 1 : RemoveAt(s, i)[j] = IF j < i THEN s[j] ELSE s[j + 1]
<1> DEFINE a == SubSeq(s, 1, i - 1)
           b == SubSeq(s, i + 1, Len(s))
<1>1. Len(s) \in Nat /\ \A j \in 1..Len(s) : s[j] \in L
  BY LenProperties, ElementOfSeq
<1>2. a \in Seq(L) /\ Len(a) = i - 1 /\ \A j \in 1..i - 1 : a[j] = s[j]
  <2>1. \A j \in 1..i - 1 : s[j] \in L
    BY <1>1
  <2>2. /\ a \in Seq(L)
        /\ Len(a) = IF 1 <= i - 1 THEN (i - 1) - 1 + 1 ELSE 0
        /\ \A j \in 1..(i - 1) - 1 + 1 : a[j] = s[1 + j - 1]
    BY <2>1, SubSeqProperties
  <2> HIDE DEF a
  <2> QED
    BY <2>2
<1>3. b \in Seq(L) /\ Len(b) = Len(s) - i /\ \A j \in 1..Len(s) - i : b[j] = s[i + j]
  <2>1. \A j \in i + 1..Len(s) : s[j] \in L
    BY <1>1
  <2>2. /\ b \in Seq(L)
        /\ Len(b) = IF i + 1 <= Len(s) THEN Len(s) - (i + 1) + 1 ELSE 0
        /\ \A j \in 1..Len(s) - (i + 1) + 1 : b[j] = s[(i + 1) + j - 1]
    BY <1>1, <2>1, SubSeqProperties
  <2> HIDE DEF b
  <2> QED
    BY <1>1, <2>2
<1>4. RemoveAt(s, i) = a \o b
  BY DEF RemoveAt
<1> HIDE DEF a, b
<1>5. /\ a \o b \in Seq(L) /\ Len(a \o b) = Len(a) + Len(b)
      /\ \A j \in 1..Len(a) + Len(b) : (a \o b)[j] = IF j <= Len(a) THEN a[j] ELSE b[j - Len(a)]
  BY <1>2, <1>3, ConcatProperties
<1>6. Len(a) + Len(b) = Len(s) - 1
  BY <1>1, <1>2, <1>3
<1>7. ASSUME NEW j \in 1..Len(s) - 1
      PROVE  (a \o b)[j] = IF j < i THEN s[j] ELSE s[j + 1]
  <2>1. CASE j < i
    BY <1>1, <1>2, <1>5, <1>6, <2>1
  <2>2. CASE ~(j < i)
    <3>1. ~(j <= Len(a)) /\ j - Len(a) \in 1..Len(s) - i /\ i + (j - Len(a)) = j + 1
      BY <1>1, <1>2, <2>2
    <3>2. (a \o b)[j] = b[j - Len(a)]
      BY <1>5, <1>6, <3>1
    <3> QED
      BY <1>3, <2>2, <3>1, <3>2
  <2> QED
    BY <2>1, <2>2
<1> QED
  BY <1>4, <1>5, <1>6, <1>7

-----------------------------------------------------------------------------
(* Protocol type B: what each operation does to the contacts *)

OpenContacts == [slot : Nat, down : Nat, multi : BOOLEAN,
                 sx : Coord, sy : Coord, lx : Coord, ly : Coord]
TypeBStates == [slot : Nat, open : Seq(OpenContacts), out : Seq(Gestures)]

Apart(open) == \A i, j \in 1..Len(open) : open[i].slot = open[j].slot => i = j
Crowd(open) == Len(open) > 1 => \A i \in 1..Len(open) : open[i].multi
Over(out) == \A k \in 1..Len(out) : ~out[k].truncated

\* What holds of the decoder whatever it reads: one contact per slot, none of
\* several single, and every gesture it has closed is whole.
TypeBOK(d) == d \in TypeBStates /\ Apart(d.open) /\ Crowd(d.open) /\ Over(d.out)

Entries(open) == {open[i] : i \in 1..Len(open)}

\* A whole gesture told after whole gestures.
LEMMA OverAppend ==
  ASSUME NEW out \in Seq(Gestures), Over(out), NEW g \in Gestures, ~g.truncated
  PROVE  Append(out, g) \in Seq(Gestures) /\ Len(Append(out, g)) = Len(out) + 1 /\ Over(Append(out, g))
<1>1. /\ Append(out, g) \in Seq(Gestures) /\ Len(Append(out, g)) = Len(out) + 1
      /\ Append(out, g)[Len(out) + 1] = g
      /\ \A k \in 1..Len(out) : Append(out, g)[k] = out[k]
  BY AppendProperties
<1>2. Len(out) \in Nat
  BY LenProperties
<1> QED
  BY <1>1, <1>2 DEF Over

\* The contact of the slot closes, when there is one.
HasClosed(d, e, ts, thr) ==
  /\ TypeBOK(e) /\ e.slot = d.slot
  /\ \A j \in 1..Len(e.open) : e.open[j].slot # d.slot
  /\ Entries(e.open) = {c \in Entries(d.open) : c.slot # d.slot}
  /\ \/ e = d
     \/ \E c \in Entries(d.open) :
          /\ c.slot = d.slot
          /\ e.out = Append(d.out, Closed(c, ts, FALSE, thr))
          /\ Len(e.open) = Len(d.open) - 1

\* close_contact takes the contact of the current slot away and tells its gesture.
LEMMA CloseContact ==
  ASSUME NEW d, TypeBOK(d), NEW ts \in Nat, NEW thr
  PROVE  HasClosed(d, close_contact(d, ts, thr), ts, thr)
<1> DEFINE n == Len(d.open)
           e == close_contact(d, ts, thr)
<1>1. /\ d.open \in Seq(OpenContacts) /\ d.out \in Seq(Gestures) /\ d.slot \in Nat
      /\ d = [slot |-> d.slot, open |-> d.open, out |-> d.out]
  BY DEF TypeBOK, TypeBStates
<1>2. n \in Nat /\ DOMAIN d.open = 1..n /\ \A i \in 1..n : d.open[i] \in OpenContacts
  BY <1>1, LenProperties, ElementOfSeq
<1>3. Apart(d.open) /\ Crowd(d.open) /\ Over(d.out)
  BY DEF TypeBOK
<1>4. CASE \A i \in 1..n : d.open[i].slot # d.slot
  <2>1. e = d
    BY <1>2, <1>4 DEF close_contact
  <2>2. Entries(d.open) = {c \in Entries(d.open) : c.slot # d.slot}
    BY <1>4 DEF Entries
  <2> HIDE DEF e
  <2> QED
    BY <1>4, <2>1, <2>2 DEF HasClosed, e
<1>5. CASE \E i \in 1..n : d.open[i].slot = d.slot
  <2> DEFINE i == CHOOSE i \in 1..n : d.open[i].slot = d.slot
             r == RemoveAt(d.open, i)
             g == Closed(d.open[i], ts, FALSE, thr)
             q == Append(d.out, g)
  <2>1. i \in 1..n /\ d.open[i].slot = d.slot
    BY <1>5
  <2>2. e = [d EXCEPT !.open = r, !.out = q]
    BY <1>2, <1>5 DEF close_contact
  <2> HIDE DEF i, r, g, q
  <2>3. e = [slot |-> d.slot, open |-> r, out |-> q]
    BY <1>1, <2>2
  <2> HIDE DEF e
  <2>4. /\ r \in Seq(OpenContacts) /\ Len(r) = n - 1
        /\ \A j \in 1..n - 1 : r[j] = IF j < i THEN d.open[j] ELSE d.open[j + 1]
    BY <1>1, <2>1, RemoveAtProperties DEF r
  <2>5. g \in Gestures /\ ~g.truncated
    <3>1. IsContact(d.open[i])
      <4>1. d.open[i] \in OpenContacts
        BY <1>2, <2>1
      <4> QED
        BY <4>1 DEF OpenContacts, IsContact
    <3> QED
      BY <3>1, ClosedGesture DEF g
  <2>6. q \in Seq(Gestures) /\ Over(q)
    BY <1>1, <1>3, <2>5, OverAppend DEF q
  <2>7. Apart(r)
    <3>1. ASSUME NEW j \in 1..n - 1, NEW k \in 1..n - 1, r[j].slot = r[k].slot
          PROVE  j = k
      <4> DEFINE u == IF j < i THEN j ELSE j + 1
                 v == IF k < i THEN k ELSE k + 1
      <4>1. u \in 1..n /\ v \in 1..n
        BY <1>2, <2>1
      <4>2. r[j] = d.open[u] /\ r[k] = d.open[v]
        BY <2>4
      <4>3. u = v
        <5> HIDE DEF u, v
        <5> QED
          BY <1>3, <3>1, <4>1, <4>2 DEF Apart
      <4> QED
        BY <1>2, <2>1, <4>3
    <3> QED
      BY <2>4, <3>1 DEF Apart
  <2>8. \A j \in 1..n - 1 : \E k \in 1..n : k # i /\ r[j] = d.open[k]
    <3>1. ASSUME NEW j \in 1..n - 1
          PROVE  \E k \in 1..n : k # i /\ r[j] = d.open[k]
      <4>1. CASE j < i
        <5>1. j \in 1..n /\ j # i /\ r[j] = d.open[j]
          BY <1>2, <2>1, <2>4, <4>1
        <5> QED
          BY <5>1
      <4>2. CASE ~(j < i)
        <5>1. j + 1 \in 1..n /\ j + 1 # i /\ r[j] = d.open[j + 1]
          BY <1>2, <2>1, <2>4, <4>2
        <5> QED
          BY <5>1
      <4> QED
        BY <4>1, <4>2
    <3> QED
      BY <3>1
  <2>9. \A k \in 1..n : k # i => \E j \in 1..n - 1 : r[j] = d.open[k]
    <3>1. ASSUME NEW k \in 1..n, k # i
          PROVE  \E j \in 1..n - 1 : r[j] = d.open[k]
      <4>1. CASE k < i
        <5>1. k \in 1..n - 1 /\ r[k] = d.open[k]
          BY <1>2, <2>1, <2>4, <4>1
        <5> QED
          BY <5>1
      <4>2. CASE ~(k < i)
        <5>1. k - 1 \in 1..n - 1 /\ ~(k - 1 < i) /\ (k - 1) + 1 = k
          BY <1>2, <2>1, <3>1, <4>2
        <5>2. r[k - 1] = d.open[k]
          BY <2>4, <5>1
        <5> QED
          BY <5>1, <5>2
      <4> QED
        BY <4>1, <4>2
    <3> QED
      BY <3>1
  <2>10. \A k \in 1..n : k # i => d.open[k].slot # d.slot
    BY <1>3, <2>1 DEF Apart
  <2>11. \A j \in 1..n - 1 : r[j].slot # d.slot
    BY <2>8, <2>10
  <2>12. Entries(r) = {c \in Entries(d.open) : c.slot # d.slot}
    <3>1. ASSUME NEW c \in Entries(r)
          PROVE  c \in Entries(d.open) /\ c.slot # d.slot
      <4>1. PICK j \in 1..Len(r) : c = r[j]
        BY <3>1 DEF Entries
      <4>2. j \in 1..n - 1
        BY <2>4, <4>1
      <4>3. PICK k \in 1..n : k # i /\ r[j] = d.open[k]
        BY <2>8, <4>2
      <4>4. d.open[k].slot # d.slot
        BY <2>10, <4>3
      <4>5. d.open[k] \in Entries(d.open)
        BY <4>3 DEF Entries
      <4> QED
        BY <4>1, <4>3, <4>4, <4>5
    <3>2. ASSUME NEW c \in Entries(d.open), c.slot # d.slot
          PROVE  c \in Entries(r)
      <4>1. PICK k \in 1..n : c = d.open[k]
        BY <3>2 DEF Entries
      <4>2. k # i
        BY <2>1, <3>2, <4>1
      <4>3. PICK j \in 1..n - 1 : r[j] = d.open[k]
        BY <2>9, <4>2
      <4> QED
        BY <2>4, <4>1, <4>3 DEF Entries
    <3> QED
      BY <3>1, <3>2
  <2>13. Crowd(r)
    BY <1>2, <1>3, <2>4, <2>8 DEF Crowd
  <2>14. TypeBOK(e)
    BY <1>1, <2>3, <2>4, <2>6, <2>7, <2>13 DEF TypeBOK, TypeBStates
  <2>15. d.open[i] \in Entries(d.open)
    BY <2>1 DEF Entries
  <2>16. e.out = q /\ e.open = r /\ e.slot = d.slot
    BY <2>3
  <2>17. \E c \in Entries(d.open) : /\ c.slot = d.slot
                                    /\ e.out = Append(d.out, Closed(c, ts, FALSE, thr))
                                    /\ Len(e.open) = Len(d.open) - 1
    BY <2>1, <2>4, <2>15, <2>16 DEF q, g
  <2> HIDE DEF n
  <2>18. \A j \in 1..Len(e.open) : e.open[j].slot # d.slot
    BY <2>4, <2>11, <2>16
  <2>19. Entries(e.open) = {c \in Entries(d.open) : c.slot # d.slot}
    BY <2>12, <2>16
  <2>20. HasClosed(d, e, ts, thr)
    BY <2>14, <2>16, <2>17, <2>18, <2>19 DEF HasClosed
  <2> QED
    BY <2>20 DEF e
<1> QED
  BY <1>4, <1>5

NewContact(slot, ts) == [slot |-> slot, down |-> ts, multi |-> FALSE,
                         sx |-> Unseen, sy |-> Unseen, lx |-> Unseen, ly |-> Unseen]
Shared(c) == [c EXCEPT !.multi = TRUE]

\* A contact opens in a slot that has none.
HasOpened(d, e, ts) ==
  /\ TypeBOK(e) /\ e.slot = d.slot /\ e.out = d.out
  /\ Len(e.open) = Len(d.open) + 1
  /\ Entries(d.open) = {} => Entries(e.open) = {NewContact(d.slot, ts)}
  /\ Entries(d.open) # {} =>
       Entries(e.open) = {Shared(c) : c \in Entries(d.open) \cup {NewContact(d.slot, ts)}}

\* open_contact adds a contact in a free slot; two on the glass are all shared.
LEMMA OpenContact ==
  ASSUME NEW d, TypeBOK(d), NEW ts \in Nat, \A i \in 1..Len(d.open) : d.open[i].slot # d.slot
  PROVE  HasOpened(d, open_contact(d, ts), ts)
<1> DEFINE n == Len(d.open)
           new == NewContact(d.slot, ts)
           all == Append(d.open, new)
           q == Opened(d.slot, ts, d.open)
           e == open_contact(d, ts)
<1>1. /\ d.open \in Seq(OpenContacts) /\ d.out \in Seq(Gestures) /\ d.slot \in Nat
      /\ d = [slot |-> d.slot, open |-> d.open, out |-> d.out]
  BY DEF TypeBOK, TypeBStates
<1>2. n \in Nat /\ \A i \in 1..n : d.open[i] \in OpenContacts
  BY <1>1, LenProperties, ElementOfSeq
<1>3. Apart(d.open) /\ Over(d.out)
  BY DEF TypeBOK
<1>4. new \in OpenContacts /\ new.slot = d.slot
  BY <1>1 DEF NewContact, OpenContacts, Coord
<1>5. e = [slot |-> d.slot, open |-> q, out |-> d.out]
  <2>1. e = [d EXCEPT !.open = q]
    BY DEF open_contact
  <2> HIDE DEF e, q
  <2> QED
    BY <1>1, <2>1
<1>6. q = IF Len(all) > 1 THEN [i \in DOMAIN all |-> Shared(all[i])] ELSE all
  BY DEF Opened, NewContact, Shared
<1> HIDE DEF e, q, new, all
<1>7. /\ all \in Seq(OpenContacts) /\ Len(all) = n + 1 /\ DOMAIN all = 1..n + 1
      /\ all[n + 1] = new /\ \A i \in 1..n : all[i] = d.open[i]
  <2>1. /\ all \in Seq(OpenContacts) /\ Len(all) = n + 1
        /\ all[n + 1] = new /\ \A i \in 1..n : all[i] = d.open[i]
    BY <1>1, <1>4, AppendProperties DEF all
  <2> QED
    BY <2>1, LenProperties
<1>8. \A c \in OpenContacts : /\ Shared(c) \in OpenContacts /\ Shared(c).slot = c.slot
                              /\ Shared(c).multi = TRUE
  BY DEF Shared, OpenContacts
<1>9. Entries(all) = Entries(d.open) \cup {new}
  <2>1. \A c \in Entries(all) : c \in Entries(d.open) \cup {new}
    <3>1. ASSUME NEW i \in 1..n + 1
          PROVE  all[i] \in Entries(d.open) \cup {new}
      <4>1. i \in 1..n \/ i = n + 1
        BY <1>2
      <4> QED
        BY <1>7, <4>1 DEF Entries
    <3> QED
      BY <1>7, <3>1 DEF Entries
  <2>2. \A i \in 1..n : d.open[i] \in Entries(all)
    <3>1. ASSUME NEW i \in 1..n
          PROVE  d.open[i] \in Entries(all)
      <4>1. i \in 1..Len(all) /\ all[i] = d.open[i]
        BY <1>2, <1>7
      <4> QED
        BY <4>1 DEF Entries
    <3> QED
      BY <3>1
  <2>3. new \in Entries(all)
    <3>1. n + 1 \in 1..Len(all)
      BY <1>2, <1>7
    <3> QED
      BY <1>7, <3>1 DEF Entries
  <2>4. \A c \in Entries(d.open) : c \in Entries(all)
    BY <2>2 DEF Entries
  <2> QED
    BY <2>1, <2>3, <2>4
<1>10. Apart(all)
  <2>1. ASSUME NEW i \in 1..n + 1, NEW j \in 1..n + 1, all[i].slot = all[j].slot
        PROVE  i = j
    <3>1. CASE i \in 1..n /\ j \in 1..n
      BY <1>3, <1>7, <2>1, <3>1 DEF Apart
    <3>2. CASE i \in 1..n /\ j = n + 1
      BY <1>4, <1>7, <2>1, <3>2
    <3>3. CASE i = n + 1 /\ j \in 1..n
      BY <1>4, <1>7, <2>1, <3>3
    <3>4. CASE i = n + 1 /\ j = n + 1
      BY <3>4
    <3> QED
      BY <1>2, <3>1, <3>2, <3>3, <3>4
  <2> QED
    BY <1>7, <2>1 DEF Apart
<1>11. Entries(d.open) = {} <=> n = 0
  <2>1. n # 0 => d.open[1] \in Entries(d.open)
    BY <1>2 DEF Entries
  <2>2. n = 0 => Entries(d.open) = {}
    BY DEF Entries
  <2> QED
    BY <2>1, <2>2
<1>12. CASE n = 0
  <2>1. q = all
    BY <1>6, <1>7, <1>12
  <2>2. Crowd(q)
    <3>1. Len(q) = 1
      BY <1>7, <1>12, <2>1
    <3>2. ~(Len(q) > 1)
      BY <3>1
    <3> QED
      BY <3>2 DEF Crowd
  <2>3. TypeBOK(e)
    BY <1>1, <1>3, <1>5, <1>7, <1>10, <2>1, <2>2 DEF TypeBOK, TypeBStates
  <2>4. Entries(q) = {new}
    BY <1>9, <1>11, <1>12, <2>1
  <2>5. e.open = q /\ e.slot = d.slot /\ e.out = d.out /\ Len(e.open) = n + 1
    BY <1>5, <1>7, <2>1
  <2>6. HasOpened(d, e, ts)
    BY <1>11, <1>12, <2>3, <2>4, <2>5 DEF HasOpened, new
  <2> QED
    BY <2>6 DEF e
<1>13. CASE n > 0
  <2>1. q = [i \in 1..n + 1 |-> Shared(all[i])]
    BY <1>6, <1>7, <1>13
  <2>2. \A i \in 1..n + 1 : all[i] \in OpenContacts
    BY <1>7, ElementOfSeq
  <2>3. /\ q \in Seq(OpenContacts) /\ Len(q) = n + 1
        /\ \A i \in 1..n + 1 : q[i] = Shared(all[i])
    BY <1>2, <1>8, <2>1, <2>2
  <2>4. Crowd(q)
    BY <1>8, <2>2, <2>3 DEF Crowd
  <2>5. Apart(q)
    <3>1. \A i \in 1..n + 1 : q[i].slot = all[i].slot
      BY <1>8, <2>2, <2>3
    <3> QED
      BY <1>7, <1>10, <2>3, <3>1 DEF Apart
  <2>6. Entries(q) = {Shared(c) : c \in Entries(all)}
    <3>1. Entries(q) = {Shared(all[i]) : i \in 1..n + 1}
      BY <2>3 DEF Entries
    <3>2. {Shared(c) : c \in Entries(all)} = {Shared(all[i]) : i \in 1..n + 1}
      BY <1>7 DEF Entries
    <3> QED
      BY <3>1, <3>2
  <2>7. TypeBOK(e)
    BY <1>1, <1>3, <1>5, <2>3, <2>4, <2>5 DEF TypeBOK, TypeBStates
  <2>8. Entries(q) = {Shared(c) : c \in Entries(d.open) \cup {new}}
    BY <1>9, <2>6
  <2>9. e.open = q /\ e.slot = d.slot /\ e.out = d.out
    BY <1>5
  <2>10. HasOpened(d, e, ts)
    BY <1>11, <1>13, <2>3, <2>7, <2>8, <2>9 DEF HasOpened, new
  <2> QED
    BY <2>10 DEF e
<1> QED
  BY <1>2, <1>12, <1>13

SeenAt(c, axis, v) == IF axis = "X" THEN [c EXCEPT !.sx = First(@, v), !.lx = v]
                      ELSE [c EXCEPT !.sy = First(@, v), !.ly = v]

\* A coordinate is of the contact of the slot.
HasPositioned(d, e, axis, v) ==
  /\ TypeBOK(e) /\ e.slot = d.slot /\ e.out = d.out
  /\ Len(e.open) = Len(d.open)
  /\ Entries(e.open) = {IF c.slot = d.slot THEN SeenAt(c, axis, v) ELSE c : c \in Entries(d.open)}

\* A coordinate goes to the contact of the current slot and to no other.
LEMMA PositionedContact ==
  ASSUME NEW d, TypeBOK(d), NEW axis \in {"X", "Y"}, NEW v \in Nat
  PROVE  HasPositioned(d, Positioned(d, axis, v), axis, v)
<1> DEFINE n == Len(d.open)
           Put(c) == IF c.slot = d.slot THEN SeenAt(c, axis, v) ELSE c
           q == [i \in DOMAIN d.open |-> Put(d.open[i])]
           e == Positioned(d, axis, v)
<1>1. /\ d.open \in Seq(OpenContacts) /\ d.out \in Seq(Gestures) /\ d.slot \in Nat
      /\ d = [slot |-> d.slot, open |-> d.open, out |-> d.out]
  BY DEF TypeBOK, TypeBStates
<1>2. n \in Nat /\ DOMAIN d.open = 1..n /\ \A i \in 1..n : d.open[i] \in OpenContacts
  BY <1>1, LenProperties, ElementOfSeq
<1>3. Apart(d.open) /\ Crowd(d.open) /\ Over(d.out)
  BY DEF TypeBOK
<1>4. e = [slot |-> d.slot, open |-> q, out |-> d.out]
  <2>1. e = [d EXCEPT !.open = q]
    BY DEF Positioned, SeenAt
  <2> HIDE DEF e, q
  <2> QED
    BY <1>1, <2>1
<1>5. \A c \in OpenContacts : Put(c) \in OpenContacts /\ Put(c).slot = c.slot /\ Put(c).multi = c.multi
  <2>1. ASSUME NEW c \in OpenContacts
        PROVE  /\ SeenAt(c, axis, v) \in OpenContacts /\ SeenAt(c, axis, v).slot = c.slot
               /\ SeenAt(c, axis, v).multi = c.multi
    <3>1. First(c.sx, v) \in Coord /\ First(c.sy, v) \in Coord /\ v \in Coord
      BY DEF First, OpenContacts, Coord
    <3>2. CASE axis = "X"
      BY <3>1, <3>2 DEF SeenAt, OpenContacts
    <3>3. CASE axis # "X"
      BY <3>1, <3>3 DEF SeenAt, OpenContacts
    <3> QED
      BY <3>2, <3>3
  <2> QED
    BY <2>1
<1>6. q = [i \in 1..n |-> Put(d.open[i])]
  BY <1>2
<1> HIDE DEF e, q, Put
<1>7. q \in Seq(OpenContacts) /\ Len(q) = n /\ \A i \in 1..n : q[i] = Put(d.open[i])
  BY <1>2, <1>5, <1>6
<1>8. Apart(q) /\ Crowd(q)
  <2>1. \A i \in 1..n : q[i].slot = d.open[i].slot /\ q[i].multi = d.open[i].multi
    BY <1>2, <1>5, <1>7
  <2> QED
    BY <1>3, <1>7, <2>1 DEF Apart, Crowd
<1>9. Entries(q) = {Put(c) : c \in Entries(d.open)}
  <2>1. Entries(q) = {Put(d.open[i]) : i \in 1..n}
    BY <1>7 DEF Entries
  <2>2. {Put(c) : c \in Entries(d.open)} = {Put(d.open[i]) : i \in 1..n}
    BY DEF Entries
  <2> QED
    BY <2>1, <2>2
<1>10. TypeBOK(e)
  BY <1>1, <1>3, <1>4, <1>7, <1>8 DEF TypeBOK, TypeBStates
<1>11. e.open = q /\ e.slot = d.slot /\ e.out = d.out
  BY <1>4
<1>12. HasPositioned(d, e, axis, v)
  BY <1>7, <1>9, <1>10, <1>11 DEF HasPositioned, Put
<1> QED
  BY <1>12 DEF e

\* What a line does to a decoder that holds h contacts, and m afterwards: at most
\* one gesture is over, and of several contacts none makes a single one.
Closes(d, e, h) == \E g \in Gestures : /\ ~g.truncated
                                       /\ h > 1 => ~Single(g)
                                       /\ e.out = Append(d.out, g)
Effect(d, e, h, m) ==
  \/ e.out = d.out /\ m = h
  \/ e.out = d.out /\ m = h + 1
  \/ Closes(d, e, h) /\ h >= 1 /\ m \in {h - 1, h}

TypeBEffect(d, e) == Effect(d, e, Len(d.open), Len(e.open))

\* A line, by what it says.
LEMMA LineKinds ==
  ASSUME NEW ev \in Lines
  PROVE  /\ ev.ts \in Nat
         /\ \/ ev.code \in {"SLOT", "X", "Y"} /\ ev.value \in Nat
            \/ ev.code = "TRACKING_ID" /\ ev.value \in {"id", "lift"}
            \/ ev.code = "BTN_TOUCH" /\ ev.value \in {"DOWN", "UP"}
BY DEF Lines

\* Whatever line it is fed, the type B decoder keeps its shape and what it told.
LEMMA TypeBStepOK ==
  ASSUME NEW d, TypeBOK(d), NEW ev \in Lines, NEW thr
  PROVE  LET e == TypeBStep(thr, d, ev) IN TypeBOK(e) /\ TypeBEffect(d, e)
<1> DEFINE n == Len(d.open)
           e == TypeBStep(thr, d, ev)
           f == close_contact(d, ev.ts, thr)
<1>1. /\ d.open \in Seq(OpenContacts) /\ d.out \in Seq(Gestures) /\ d.slot \in Nat
      /\ d = [slot |-> d.slot, open |-> d.open, out |-> d.out]
  BY DEF TypeBOK, TypeBStates
<1>2. n \in Nat /\ \A i \in 1..n : d.open[i] \in OpenContacts
  BY <1>1, LenProperties, ElementOfSeq
<1>3. /\ ev.ts \in Nat
      /\ \/ ev.code \in {"SLOT", "X", "Y"} /\ ev.value \in Nat
         \/ ev.code = "TRACKING_ID" /\ ev.value \in {"id", "lift"}
         \/ ev.code = "BTN_TOUCH"
  BY LineKinds
<1>4. /\ TypeBOK(f) /\ f.slot = d.slot
      /\ \A j \in 1..Len(f.open) : f.open[j].slot # f.slot
      /\ \/ f = d
         \/ Closes(d, f, n) /\ Len(f.open) = n - 1 /\ n >= 1
  <2>1. /\ TypeBOK(f) /\ f.slot = d.slot
        /\ \A j \in 1..Len(f.open) : f.open[j].slot # d.slot
        /\ \/ f = d
           \/ \E c \in Entries(d.open) : /\ c.slot = d.slot
                                         /\ f.out = Append(d.out, Closed(c, ev.ts, FALSE, thr))
                                         /\ Len(f.open) = n - 1
    <3>1. ev.ts \in Nat
      BY <1>3
    <3>2. HasClosed(d, f, ev.ts, thr)
      BY <3>1, CloseContact
    <3> HIDE DEF f
    <3> QED
      BY <3>2 DEF HasClosed
  <2> HIDE DEF f
  <2>2. ASSUME NEW c \in Entries(d.open), f.out = Append(d.out, Closed(c, ev.ts, FALSE, thr)),
               Len(f.open) = n - 1
        PROVE  Closes(d, f, n) /\ Len(f.open) = n - 1 /\ n >= 1
    <3>1. PICK i \in 1..n : c = d.open[i]
      BY DEF Entries
    <3>2. IsContact(c)
      <4>1. c \in OpenContacts
        BY <1>2, <3>1
      <4> QED
        BY <4>1 DEF OpenContacts, IsContact
    <3>3. n > 1 => c.multi
      BY <3>1 DEF TypeBOK, Crowd
    <3> DEFINE g == Closed(c, ev.ts, FALSE, thr)
    <3>4. g \in Gestures /\ ~g.truncated /\ (Single(g) <=> ~c.multi)
      BY <1>3, <3>2, ClosedGesture
    <3>5. f.out = Append(d.out, g)
      BY <2>2
    <3> HIDE DEF g
    <3>6. Closes(d, f, n)
      BY <3>3, <3>4, <3>5 DEF Closes
    <3> QED
      BY <1>2, <2>2, <3>1, <3>6
  <2> QED
    BY <2>1, <2>2
<1> HIDE DEF f
<1>5. CASE ev.code = "SLOT"
  <2>1. e = [d EXCEPT !.slot = ev.value]
    BY <1>5 DEF TypeBStep
  <2>2. e = [slot |-> ev.value, open |-> d.open, out |-> d.out]
    BY <1>1, <2>1
  <2>5. ev.value \in Nat
    BY <1>3, <1>5
  <2>3. e.slot = ev.value /\ e.open = d.open /\ e.out = d.out /\ ev.value \in Nat
    <3> HIDE DEF e
    <3> QED
      BY <2>5, <2>2
  <2>4. e \in TypeBStates
    BY <1>1, <2>2, <2>3 DEF TypeBStates
  <2> HIDE DEF e
  <2>6. TypeBOK(e)
    BY <2>3, <2>4 DEF TypeBOK
  <2> QED
    BY <2>3, <2>6 DEF TypeBEffect, Effect, e
<1>6. CASE ev.code = "TRACKING_ID" /\ ev.value = "lift"
  <2>1. e = f
    BY <1>6 DEF TypeBStep, f
  <2>2. CASE f = d
    BY <1>4, <2>1, <2>2 DEF TypeBEffect, Effect
  <2>3. CASE f # d
    BY <1>4, <2>1, <2>3 DEF TypeBEffect, Effect
  <2> QED
    BY <2>2, <2>3
<1>7. CASE ev.code = "TRACKING_ID" /\ ev.value # "lift"
  <2>1. e = open_contact(f, ev.ts)
    BY <1>7 DEF TypeBStep, f
  <2>2. HasOpened(f, e, ev.ts)
    BY <1>3, <1>4, <2>1, OpenContact
  <2> HIDE DEF e
  <2>5. TypeBOK(e) /\ e.out = f.out /\ Len(e.open) = Len(f.open) + 1
    BY <2>2 DEF HasOpened
  <2>3. CASE f = d
    BY <2>5, <2>3 DEF TypeBEffect, Effect, e
  <2>4. CASE Closes(d, f, n) /\ Len(f.open) = n - 1 /\ n >= 1
    <3>1. Closes(d, e, n)
      BY <2>5, <2>4 DEF Closes
    <3>2. Len(e.open) = n
      BY <1>2, <2>5, <2>4
    <3> QED
      BY <2>5, <2>4, <3>1, <3>2 DEF TypeBEffect, Effect, e
  <2> QED
    BY <1>4, <2>3, <2>4
<1>8. CASE ev.code \in {"X", "Y"}
  <2>1. e = Positioned(d, ev.code, ev.value)
    BY <1>8 DEF TypeBStep
  <2>2. ev.value \in Nat
    BY <1>3, <1>8
  <2>3. HasPositioned(d, e, ev.code, ev.value)
    BY <1>8, <2>1, <2>2, PositionedContact
  <2> HIDE DEF e
  <2>4. TypeBOK(e) /\ e.out = d.out /\ Len(e.open) = n
    BY <2>3 DEF HasPositioned
  <2> QED
    BY <2>4 DEF TypeBEffect, Effect, e
<1>9. CASE ev.code = "BTN_TOUCH"
  <2>1. e = d
    BY <1>9 DEF TypeBStep
  <2> QED
    BY <2>1 DEF TypeBEffect, Effect
<1> QED
  BY <1>3, <1>5, <1>6, <1>7, <1>8, <1>9

\* With other thresholds the contacts are the same, and as many have closed.
Alike(d, e) == d.slot = e.slot /\ d.open = e.open /\ Len(d.out) = Len(e.out)

\* The thresholds change what gestures are told as, not when they are.
LEMMA TypeBAlike ==
  ASSUME NEW d, TypeBOK(d), NEW e, TypeBOK(e), Alike(d, e), NEW ev \in Lines, NEW thr, NEW thr2
  PROVE  Alike(TypeBStep(thr, d, ev), TypeBStep(thr2, e, ev))
<1>1. /\ d = [slot |-> d.slot, open |-> d.open, out |-> d.out] /\ d.out \in Seq(Gestures)
      /\ e = [slot |-> e.slot, open |-> e.open, out |-> e.out] /\ e.out \in Seq(Gestures)
  BY DEF TypeBOK, TypeBStates
<1>2. d.slot = e.slot /\ d.open = e.open /\ Len(d.out) = Len(e.out)
  BY DEF Alike
<1>3. \A g : /\ Len(Append(d.out, g)) = Len(d.out) + 1
             /\ Len(Append(e.out, g)) = Len(e.out) + 1
  BY <1>1
<1> DEFINE f == close_contact(d, ev.ts, thr)
           h == close_contact(e, ev.ts, thr2)
<1>4. Alike(f, h)
  <2>1. CASE \E i \in DOMAIN d.open : d.open[i].slot = d.slot
    <3> DEFINE i == CHOOSE i \in DOMAIN d.open : d.open[i].slot = d.slot
               r == RemoveAt(d.open, i)
               p == Append(d.out, Closed(d.open[i], ev.ts, FALSE, thr))
               q == Append(e.out, Closed(d.open[i], ev.ts, FALSE, thr2))
    <3>1. f = [d EXCEPT !.open = r, !.out = p]
      BY <2>1 DEF close_contact
    <3>2. h = [e EXCEPT !.open = r, !.out = q]
      BY <1>2, <2>1 DEF close_contact
    <3>3. Len(p) = Len(q)
      BY <1>2, <1>3
    <3> HIDE DEF f, h, r, p, q
    <3>4. f = [slot |-> d.slot, open |-> r, out |-> p]
      BY <1>1, <3>1
    <3>5. h = [slot |-> e.slot, open |-> r, out |-> q]
      BY <1>1, <3>2
    <3>6. f.slot = d.slot /\ f.open = r /\ f.out = p /\ h.slot = e.slot /\ h.open = r /\ h.out = q
      BY <3>4, <3>5
    <3> QED
      BY <1>2, <3>3, <3>6 DEF Alike
  <2>2. CASE ~\E i \in DOMAIN d.open : d.open[i].slot = d.slot
    <3>1. f = d /\ h = e
      BY <1>2, <2>2 DEF close_contact
    <3> QED
      BY <3>1
  <2> QED
    BY <2>1, <2>2
<1>5. TypeBOK(f) /\ TypeBOK(h)
  <2>1. HasClosed(d, f, ev.ts, thr) /\ HasClosed(e, h, ev.ts, thr2)
    BY LineKinds, CloseContact
  <2> HIDE DEF f, h
  <2> QED
    BY <2>1 DEF HasClosed
<1> HIDE DEF f, h
<1>6. CASE ev.code = "SLOT"
  <2>1. /\ TypeBStep(thr, d, ev) = [d EXCEPT !.slot = ev.value]
        /\ TypeBStep(thr2, e, ev) = [e EXCEPT !.slot = ev.value]
    BY <1>6 DEF TypeBStep
  <2> DEFINE a == TypeBStep(thr, d, ev)
             b == TypeBStep(thr2, e, ev)
  <2>2. /\ a = [slot |-> ev.value, open |-> d.open, out |-> d.out]
        /\ b = [slot |-> ev.value, open |-> e.open, out |-> e.out]
    BY <1>1, <2>1
  <2> HIDE DEF a, b
  <2>3. Alike(a, b)
    BY <1>2, <2>2 DEF Alike
  <2> QED
    BY <2>3 DEF a, b
<1>7. CASE ev.code = "TRACKING_ID" /\ ev.value = "lift"
  <2>1. TypeBStep(thr, d, ev) = f /\ TypeBStep(thr2, e, ev) = h
    BY <1>7 DEF TypeBStep, f, h
  <2> QED
    BY <1>4, <2>1
<1>8. CASE ev.code = "TRACKING_ID" /\ ev.value # "lift"
  <2> DEFINE a == open_contact(f, ev.ts)
             b == open_contact(h, ev.ts)
             q == Opened(f.slot, ev.ts, f.open)
  <2>1. TypeBStep(thr, d, ev) = a /\ TypeBStep(thr2, e, ev) = b
    BY <1>8 DEF TypeBStep, f, h
  <2>2. a = [f EXCEPT !.open = q]
    BY DEF open_contact
  <2>3. b = [h EXCEPT !.open = q]
    BY <1>4 DEF open_contact, Alike
  <2> HIDE DEF a, b, q
  <2>4. /\ f = [slot |-> f.slot, open |-> f.open, out |-> f.out]
        /\ h = [slot |-> h.slot, open |-> h.open, out |-> h.out]
    BY <1>5 DEF TypeBOK, TypeBStates
  <2>5. /\ a = [slot |-> f.slot, open |-> q, out |-> f.out]
        /\ b = [slot |-> h.slot, open |-> q, out |-> h.out]
    BY <2>2, <2>3, <2>4
  <2>6. Alike(a, b)
    BY <1>4, <2>5 DEF Alike
  <2> QED
    BY <2>1, <2>6
<1>9. CASE ev.code \in {"X", "Y"}
  <2> DEFINE a == Positioned(d, ev.code, ev.value)
             b == Positioned(e, ev.code, ev.value)
             Put(c) == IF c.slot # d.slot THEN c
                       ELSE IF ev.code = "X" THEN [c EXCEPT !.sx = First(@, ev.value), !.lx = ev.value]
                       ELSE [c EXCEPT !.sy = First(@, ev.value), !.ly = ev.value]
             q == [i \in DOMAIN d.open |-> Put(d.open[i])]
  <2>1. TypeBStep(thr, d, ev) = a /\ TypeBStep(thr2, e, ev) = b
    BY <1>9 DEF TypeBStep
  <2>2. a = [d EXCEPT !.open = q]
    BY DEF Positioned
  <2>3. b = [e EXCEPT !.open = q]
    BY <1>2 DEF Positioned
  <2> HIDE DEF a, b, q
  <2>4. /\ a = [slot |-> d.slot, open |-> q, out |-> d.out]
        /\ b = [slot |-> e.slot, open |-> q, out |-> e.out]
    BY <1>1, <2>2, <2>3
  <2>5. Alike(a, b)
    BY <1>2, <2>4 DEF Alike
  <2> QED
    BY <2>1, <2>5
<1>10. CASE ev.code = "BTN_TOUCH"
  <2>1. TypeBStep(thr, d, ev) = d /\ TypeBStep(thr2, e, ev) = e
    BY <1>10 DEF TypeBStep
  <2> QED
    BY <2>1
<1> QED
  BY <1>6, <1>7, <1>8, <1>9, <1>10, LineKinds

-----------------------------------------------------------------------------
(* Protocol BTN_TOUCH: what a line does *)

BtnStates == [active : BOOLEAN, max_slot : Nat, down : Nat,
              sx : Coord, sy : Coord, lx : Coord, ly : Coord, out : Seq(Gestures)]

BtnOK(d) == d \in BtnStates /\ Over(d.out)

BtnHeld(d) == IF d.active THEN 1 ELSE 0
BtnEffect(d, e) == Effect(d, e, BtnHeld(d), BtnHeld(e))

\* The state of the decoder, field by field.
Touch(active, max_slot, down, sx, sy, lx, ly, out) ==
  [active |-> active, max_slot |-> max_slot, down |-> down, sx |-> sx, sy |-> sy,
   lx |-> lx, ly |-> ly, out |-> out]

\* A state of the BTN_TOUCH decoder is its fields.
LEMMA TouchFields ==
  ASSUME NEW d \in BtnStates
  PROVE  /\ d = Touch(d.active, d.max_slot, d.down, d.sx, d.sy, d.lx, d.ly, d.out)
         /\ d.active \in BOOLEAN /\ d.max_slot \in Nat /\ d.down \in Nat
         /\ d.sx \in Coord /\ d.sy \in Coord /\ d.lx \in Coord /\ d.ly \in Coord
         /\ d.out \in Seq(Gestures)
BY DEF Touch, BtnStates

\* Fields of the right types make a state.
LEMMA TouchTyped ==
  ASSUME NEW active \in BOOLEAN, NEW max_slot \in Nat, NEW down \in Nat,
         NEW sx \in Coord, NEW sy \in Coord, NEW lx \in Coord, NEW ly \in Coord,
         NEW out \in Seq(Gestures)
  PROVE  Touch(active, max_slot, down, sx, sy, lx, ly, out) \in BtnStates
BY DEF Touch, BtnStates

\* The step, by the line.
LEMMA BtnLines ==
  ASSUME NEW d \in BtnStates, NEW ev \in Lines, NEW thr
  PROVE  LET e == BtnTouchStep(thr, d, ev)
             v == ev.value
         IN
         /\ ev.code = "X" => e = Touch(d.active, d.max_slot, d.down,
                IF d.active THEN First(d.sx, v) ELSE d.sx, d.sy, v, d.ly, d.out)
         /\ ev.code = "Y" => e = Touch(d.active, d.max_slot, d.down,
                d.sx, IF d.active THEN First(d.sy, v) ELSE d.sy, d.lx, v, d.out)
         /\ ev.code = "SLOT" => e = Touch(d.active, IF v > d.max_slot THEN v ELSE d.max_slot, d.down,
                d.sx, d.sy, d.lx, d.ly, d.out)
         /\ ev.code = "BTN_TOUCH" /\ v = "DOWN" => e = Touch(TRUE, d.max_slot, ev.ts,
                d.lx, d.ly, d.lx, d.ly, d.out)
         /\ ev.code = "BTN_TOUCH" /\ v = "UP" /\ d.active => e = Touch(FALSE, 0, d.down,
                Unseen, Unseen, Unseen, Unseen, Append(d.out, BtnGesture(d, ev.ts, FALSE, thr)))
         /\ ev.code = "BTN_TOUCH" /\ v = "UP" /\ ~d.active => e = d
         /\ ev.code = "TRACKING_ID" => e = d
<1> DEFINE e == BtnTouchStep(thr, d, ev)
           v == ev.value
<1>1. d = Touch(d.active, d.max_slot, d.down, d.sx, d.sy, d.lx, d.ly, d.out)
  BY TouchFields
<1>2. ASSUME ev.code = "X"
      PROVE  e = Touch(d.active, d.max_slot, d.down,
                IF d.active THEN First(d.sx, v) ELSE d.sx, d.sy, v, d.ly, d.out)
  <2>1. e = [d EXCEPT !.lx = v, !.sx = IF d.active THEN First(@, v) ELSE @]
    BY <1>2 DEF BtnTouchStep
  <2> HIDE DEF e
  <2> QED
    BY <1>1, <2>1 DEF Touch
<1>3. ASSUME ev.code = "Y"
      PROVE  e = Touch(d.active, d.max_slot, d.down,
                d.sx, IF d.active THEN First(d.sy, v) ELSE d.sy, d.lx, v, d.out)
  <2>1. e = [d EXCEPT !.ly = v, !.sy = IF d.active THEN First(@, v) ELSE @]
    BY <1>3 DEF BtnTouchStep
  <2> HIDE DEF e
  <2> QED
    BY <1>1, <2>1 DEF Touch
<1>4. ASSUME ev.code = "SLOT"
      PROVE  e = Touch(d.active, IF v > d.max_slot THEN v ELSE d.max_slot, d.down,
                d.sx, d.sy, d.lx, d.ly, d.out)
  <2>1. e = [d EXCEPT !.max_slot = IF v > @ THEN v ELSE @]
    BY <1>4 DEF BtnTouchStep
  <2> HIDE DEF e
  <2> QED
    BY <1>1, <2>1 DEF Touch
<1>5. ASSUME ev.code = "BTN_TOUCH", v = "DOWN"
      PROVE  e = Touch(TRUE, d.max_slot, ev.ts, d.lx, d.ly, d.lx, d.ly, d.out)
  <2>1. e = [d EXCEPT !.active = TRUE, !.down = ev.ts, !.sx = d.lx, !.sy = d.ly]
    BY <1>5 DEF BtnTouchStep
  <2> HIDE DEF e
  <2> QED
    BY <1>1, <2>1 DEF Touch
<1>6. ASSUME ev.code = "BTN_TOUCH", v = "UP", d.active
      PROVE  e = Touch(FALSE, 0, d.down, Unseen, Unseen, Unseen, Unseen,
                       Append(d.out, BtnGesture(d, ev.ts, FALSE, thr)))
  <2> DEFINE q == Append(d.out, BtnGesture(d, ev.ts, FALSE, thr))
  <2>1. e = [Idle EXCEPT !.down = d.down, !.out = q]
    BY <1>6 DEF BtnTouchStep
  <2> HIDE DEF e, q
  <2>2. e = Touch(FALSE, 0, d.down, Unseen, Unseen, Unseen, Unseen, q)
    BY <2>1 DEF Touch, Idle
  <2> QED
    BY <2>2 DEF q
<1>7. ASSUME ev.code = "BTN_TOUCH", v = "UP", ~d.active
      PROVE  e = d
  BY <1>7 DEF BtnTouchStep
<1>8. ASSUME ev.code = "TRACKING_ID"
      PROVE  e = d
  BY <1>8 DEF BtnTouchStep
<1> HIDE DEF e, v
<1>9. /\ ev.code = "X" => e = Touch(d.active, d.max_slot, d.down,
                IF d.active THEN First(d.sx, v) ELSE d.sx, d.sy, v, d.ly, d.out)
      /\ ev.code = "Y" => e = Touch(d.active, d.max_slot, d.down,
                d.sx, IF d.active THEN First(d.sy, v) ELSE d.sy, d.lx, v, d.out)
      /\ ev.code = "SLOT" => e = Touch(d.active, IF v > d.max_slot THEN v ELSE d.max_slot, d.down,
                d.sx, d.sy, d.lx, d.ly, d.out)
  BY <1>2, <1>3, <1>4
<1> QED
  BY <1>5, <1>6, <1>7, <1>8, <1>9 DEF e, v

\* The gesture of a touch; it is of several fingers if a slot beyond 0 was named.
LEMMA BtnGestureTyped ==
  ASSUME NEW d \in BtnStates, NEW ts \in Nat, NEW truncated \in BOOLEAN, NEW thr
  PROVE  /\ BtnGesture(d, ts, truncated, thr) \in Gestures
         /\ BtnGesture(d, ts, truncated, thr).truncated = truncated
         /\ Single(BtnGesture(d, ts, truncated, thr)) <=> d.max_slot = 0
<1> DEFINE c == [down |-> d.down, multi |-> d.max_slot > 0, sx |-> d.sx, sy |-> d.sy,
                 lx |-> d.lx, ly |-> d.ly]
           g == Closed(c, ts, truncated, thr)
<1>1. IsContact(c)
  BY TouchFields DEF IsContact
<1>2. BtnGesture(d, ts, truncated, thr) = g
  BY DEF BtnGesture
<1>3. c.multi <=> d.max_slot > 0
  OBVIOUS
<1>4. d.max_slot \in Nat
  BY TouchFields
<1> HIDE DEF c
<1>5. g \in Gestures /\ g.truncated = truncated /\ (Single(g) <=> ~c.multi)
  BY <1>1, ClosedGesture
<1> HIDE DEF g
<1> QED
  BY <1>2, <1>3, <1>4, <1>5

\* Whatever line it is fed, the BTN_TOUCH decoder keeps its shape and what it told.
LEMMA BtnStepOK ==
  ASSUME NEW d, BtnOK(d), NEW ev \in Lines, NEW thr
  PROVE  BtnOK(BtnTouchStep(thr, d, ev)) /\ BtnEffect(d, BtnTouchStep(thr, d, ev))
<1> DEFINE e == BtnTouchStep(thr, d, ev)
           v == ev.value
           g == BtnGesture(d, ev.ts, FALSE, thr)
<1>1. d \in BtnStates /\ Over(d.out)
  BY DEF BtnOK
<1>2. /\ d.active \in BOOLEAN /\ d.max_slot \in Nat /\ d.down \in Nat
      /\ d.sx \in Coord /\ d.sy \in Coord /\ d.lx \in Coord /\ d.ly \in Coord
      /\ d.out \in Seq(Gestures)
  BY <1>1, TouchFields
<1>3. /\ ev.ts \in Nat
      /\ \/ ev.code \in {"SLOT", "X", "Y"} /\ v \in Nat
         \/ ev.code = "TRACKING_ID" /\ v \in {"id", "lift"}
         \/ ev.code = "BTN_TOUCH" /\ v \in {"DOWN", "UP"}
  BY LineKinds
<1>4. g \in Gestures /\ ~g.truncated
  BY <1>1, <1>3, BtnGestureTyped
<1>5. Append(d.out, g) \in Seq(Gestures) /\ Over(Append(d.out, g))
  <2> HIDE DEF g
  <2> QED
    BY <1>1, <1>2, <1>4, OverAppend
<1>6. /\ Unseen \in Coord /\ (v \in Nat => v \in Coord)
      /\ \A c \in Coord : v \in Nat => First(c, v) \in Coord
  BY DEF Coord, First
<1> HIDE DEF g
<1>7. ASSUME ev.code = "X" \/ ev.code = "Y" \/ ev.code = "SLOT" \/ (ev.code = "BTN_TOUCH" /\ v = "DOWN")
      PROVE  e \in BtnStates /\ e.out = d.out /\ (d.active => e.active)
  <2>1. CASE ev.code = "X"
    <3> DEFINE sx == IF d.active THEN First(d.sx, v) ELSE d.sx
    <3>1. e = Touch(d.active, d.max_slot, d.down, sx, d.sy, v, d.ly, d.out)
      BY <1>1, <2>1, BtnLines
    <3>2. sx \in Coord /\ v \in Coord
      BY <1>2, <1>3, <1>6, <2>1
    <3> HIDE DEF e, v, sx
    <3>5. e \in BtnStates
      BY <1>2, <3>1, <3>2, TouchTyped
    <3>6. e.out = d.out /\ (d.active => e.active)
      BY <3>1 DEF Touch
    <3> QED
      BY <3>5, <3>6
  <2>2. CASE ev.code = "Y"
    <3> DEFINE sy == IF d.active THEN First(d.sy, v) ELSE d.sy
    <3>1. e = Touch(d.active, d.max_slot, d.down, d.sx, sy, d.lx, v, d.out)
      BY <1>1, <2>2, BtnLines
    <3>2. sy \in Coord /\ v \in Coord
      BY <1>2, <1>3, <1>6, <2>2
    <3> HIDE DEF e, v, sy
    <3>5. e \in BtnStates
      BY <1>2, <3>1, <3>2, TouchTyped
    <3>6. e.out = d.out /\ (d.active => e.active)
      BY <3>1 DEF Touch
    <3> QED
      BY <3>5, <3>6
  <2>3. CASE ev.code = "SLOT"
    <3> DEFINE m == IF v > d.max_slot THEN v ELSE d.max_slot
    <3>1. e = Touch(d.active, m, d.down, d.sx, d.sy, d.lx, d.ly, d.out)
      BY <1>1, <2>3, BtnLines
    <3>2. m \in Nat
      BY <1>2, <1>3, <2>3
    <3> HIDE DEF e, v, m
    <3>5. e \in BtnStates
      BY <1>2, <3>1, <3>2, TouchTyped
    <3>6. e.out = d.out /\ (d.active => e.active)
      BY <3>1 DEF Touch
    <3> QED
      BY <3>5, <3>6
  <2>4. CASE ev.code = "BTN_TOUCH" /\ v = "DOWN"
    <3>1. e = Touch(TRUE, d.max_slot, ev.ts, d.lx, d.ly, d.lx, d.ly, d.out)
      BY <1>1, <2>4, BtnLines
    <3> HIDE DEF e
    <3>5. e \in BtnStates
      BY <1>2, <1>3, <3>1, TouchTyped
    <3>6. e.out = d.out /\ (d.active => e.active)
      BY <3>1 DEF Touch
    <3> QED
      BY <3>5, <3>6
  <2> QED
    BY <1>7, <2>1, <2>2, <2>3, <2>4
<1>8. ASSUME ev.code = "BTN_TOUCH", v = "UP", d.active
      PROVE  e \in BtnStates /\ e.out = Append(d.out, g) /\ ~e.active
  <2>1. e = Touch(FALSE, 0, d.down, Unseen, Unseen, Unseen, Unseen, Append(d.out, g))
    BY <1>1, <1>8, BtnLines DEF g
  <2> HIDE DEF e
  <2>5. e \in BtnStates
    BY <1>2, <1>5, <1>6, <2>1, TouchTyped
  <2>6. e.out = Append(d.out, g) /\ ~e.active
    BY <2>1 DEF Touch
  <2> QED
    BY <2>5, <2>6
<1>9. ASSUME ev.code = "TRACKING_ID" \/ (ev.code = "BTN_TOUCH" /\ v = "UP" /\ ~d.active)
       PROVE  e = d
  BY <1>1, <1>9, BtnLines
<1>10. /\ e \in BtnStates
       /\ \/ e.out = d.out /\ (d.active => e.active)
          \/ e.out = Append(d.out, g) /\ d.active /\ ~e.active
  <2> HIDE DEF e
  <2>1. CASE ev.code = "BTN_TOUCH" /\ v = "UP"
    BY <1>1, <1>8, <1>9, <2>1
  <2>2. CASE ev.code = "TRACKING_ID"
    BY <1>1, <1>9, <2>2
  <2> QED
    BY <1>3, <1>7, <2>1, <2>2
<1> HIDE DEF e
<1>11. BtnOK(e) /\ BtnEffect(d, e)
  <2>1. CASE e.out = d.out /\ (d.active => e.active)
    <3>1. BtnOK(e)
      BY <1>1, <1>10, <2>1 DEF BtnOK
    <3>2. BtnHeld(e) = BtnHeld(d) \/ BtnHeld(e) = BtnHeld(d) + 1
      BY <2>1 DEF BtnHeld
    <3> QED
      BY <2>1, <3>1, <3>2 DEF BtnEffect, Effect
  <2>2. CASE e.out = Append(d.out, g) /\ d.active /\ ~e.active
    <3>1. BtnOK(e)
      BY <1>5, <1>10, <2>2 DEF BtnOK
    <3>2. BtnHeld(d) = 1 /\ BtnHeld(e) = BtnHeld(d) - 1
      BY <2>2 DEF BtnHeld
    <3>3. Closes(d, e, BtnHeld(d))
      BY <1>4, <2>2, <3>2 DEF Closes
    <3> QED
      BY <3>1, <3>2, <3>3 DEF BtnEffect, Effect
  <2> QED
    BY <1>10, <2>1, <2>2
<1> QED
  BY <1>11 DEF e

\* With other thresholds the touch is the same, and as many have ended.
BtnSame(d, e) ==
  /\ d.active = e.active /\ d.max_slot = e.max_slot /\ d.down = e.down
  /\ d.sx = e.sx /\ d.sy = e.sy /\ d.lx = e.lx /\ d.ly = e.ly
  /\ Len(d.out) = Len(e.out)

\* The thresholds change what gestures are told as, not when they are.
LEMMA BtnAlike ==
  ASSUME NEW d \in BtnStates, NEW e \in BtnStates, BtnSame(d, e), NEW ev \in Lines, NEW thr, NEW thr2
  PROVE  BtnSame(BtnTouchStep(thr, d, ev), BtnTouchStep(thr2, e, ev))
<1> DEFINE a == BtnTouchStep(thr, d, ev)
           b == BtnTouchStep(thr2, e, ev)
           v == ev.value
<1>1. /\ d.active = e.active /\ d.max_slot = e.max_slot /\ d.down = e.down
      /\ d.sx = e.sx /\ d.sy = e.sy /\ d.lx = e.lx /\ d.ly = e.ly
      /\ Len(d.out) = Len(e.out)
  BY DEF BtnSame
<1>2. \/ ev.code \in {"SLOT", "X", "Y"}
      \/ ev.code = "TRACKING_ID"
      \/ ev.code = "BTN_TOUCH" /\ v \in {"DOWN", "UP"}
  BY LineKinds
<1>3. \A ac, m, t, p, q, r, s, o, u : Len(o) = Len(u) =>
        BtnSame(Touch(ac, m, t, p, q, r, s, o), Touch(ac, m, t, p, q, r, s, u))
  BY DEF BtnSame, Touch
<1>4. CASE ev.code = "X"
  <2> DEFINE sx == IF d.active THEN First(d.sx, v) ELSE d.sx
  <2>1. a = Touch(d.active, d.max_slot, d.down, sx, d.sy, v, d.ly, d.out)
    BY <1>4, BtnLines
  <2>2. b = Touch(e.active, e.max_slot, e.down,
                  IF e.active THEN First(e.sx, v) ELSE e.sx, e.sy, v, e.ly, e.out)
    BY <1>4, BtnLines
  <2> HIDE DEF a, b
  <2>3. b = Touch(d.active, d.max_slot, d.down, sx, d.sy, v, d.ly, e.out)
    BY <1>1, <2>2
  <2> HIDE DEF sx, v
  <2> QED
    BY <1>1, <1>3, <2>1, <2>3 DEF a, b
<1>5. CASE ev.code = "Y"
  <2> DEFINE sy == IF d.active THEN First(d.sy, v) ELSE d.sy
  <2>1. a = Touch(d.active, d.max_slot, d.down, d.sx, sy, d.lx, v, d.out)
    BY <1>5, BtnLines
  <2>2. b = Touch(e.active, e.max_slot, e.down, e.sx,
                  IF e.active THEN First(e.sy, v) ELSE e.sy, e.lx, v, e.out)
    BY <1>5, BtnLines
  <2> HIDE DEF a, b
  <2>3. b = Touch(d.active, d.max_slot, d.down, d.sx, sy, d.lx, v, e.out)
    BY <1>1, <2>2
  <2> HIDE DEF sy, v
  <2> QED
    BY <1>1, <1>3, <2>1, <2>3 DEF a, b
<1>6. CASE ev.code = "SLOT"
  <2> DEFINE m == IF v > d.max_slot THEN v ELSE d.max_slot
  <2>1. a = Touch(d.active, m, d.down, d.sx, d.sy, d.lx, d.ly, d.out)
    BY <1>6, BtnLines
  <2>2. b = Touch(e.active, IF v > e.max_slot THEN v ELSE e.max_slot,
                  e.down, e.sx, e.sy, e.lx, e.ly, e.out)
    BY <1>6, BtnLines
  <2> HIDE DEF a, b
  <2>3. b = Touch(d.active, m, d.down, d.sx, d.sy, d.lx, d.ly, e.out)
    BY <1>1, <2>2
  <2> HIDE DEF m
  <2> QED
    BY <1>1, <1>3, <2>1, <2>3 DEF a, b
<1>7. CASE ev.code = "BTN_TOUCH" /\ v = "DOWN"
  <2>1. a = Touch(TRUE, d.max_slot, ev.ts, d.lx, d.ly, d.lx, d.ly, d.out)
    BY <1>7, BtnLines
  <2>2. b = Touch(TRUE, e.max_slot, ev.ts, e.lx, e.ly, e.lx, e.ly, e.out)
    BY <1>7, BtnLines
  <2> HIDE DEF a, b
  <2>3. b = Touch(TRUE, d.max_slot, ev.ts, d.lx, d.ly, d.lx, d.ly, e.out)
    BY <1>1, <2>2
  <2> QED
    BY <1>1, <1>3, <2>1, <2>3 DEF a, b
<1>8. CASE ev.code = "BTN_TOUCH" /\ v = "UP" /\ d.active
  <2> DEFINE g == BtnGesture(d, ev.ts, FALSE, thr)
             h == BtnGesture(e, ev.ts, FALSE, thr2)
  <2>1. a = Touch(FALSE, 0, d.down, Unseen, Unseen, Unseen, Unseen, Append(d.out, g))
    BY <1>8, BtnLines
  <2>2. b = Touch(FALSE, 0, e.down, Unseen, Unseen, Unseen, Unseen, Append(e.out, h))
    <3>1. e.active
      BY <1>1, <1>8
    <3>2. ev.code = "BTN_TOUCH" /\ v = "UP"
      BY <1>8
    <3> QED
      BY <3>1, <3>2, BtnLines
  <2>3. Len(Append(d.out, g)) = Len(Append(e.out, h))
    <3> HIDE DEF g, h
    <3>1. d.out \in Seq(Gestures) /\ e.out \in Seq(Gestures)
      BY TouchFields
    <3>2. Len(Append(d.out, g)) = Len(d.out) + 1 /\ Len(Append(e.out, h)) = Len(e.out) + 1
      BY <3>1
    <3> QED
      BY <1>1, <3>2
  <2> HIDE DEF a, b, g, h
  <2>4. b = Touch(FALSE, 0, d.down, Unseen, Unseen, Unseen, Unseen, Append(e.out, h))
    BY <1>1, <2>2
  <2> QED
    BY <1>3, <2>1, <2>3, <2>4 DEF a, b
<1>9. CASE ev.code = "TRACKING_ID" \/ (ev.code = "BTN_TOUCH" /\ v = "UP" /\ ~d.active)
  <2>1. a = d
    BY <1>9, BtnLines
  <2>2. b = e
    BY <1>1, <1>9, BtnLines
  <2> QED
    BY <2>1, <2>2
<1> QED
  BY <1>2, <1>4, <1>5, <1>6, <1>7, <1>8, <1>9

-----------------------------------------------------------------------------
(* Either decoder *)

DecoderOK(p, d) == IF p = "type_b" THEN TypeBOK(d) ELSE BtnOK(d)
Holding(p, d) == IF p = "type_b" THEN Len(d.open) ELSE BtnHeld(d)
SameFor(p, d, e) == IF p = "type_b" THEN Alike(d, e) ELSE BtnSame(d, e)

\* A decoder starts with nothing held and nothing told.
LEMMA FreshOK ==
  ASSUME NEW p
  PROVE  /\ DecoderOK(p, Fresh(p)) /\ SameFor(p, Fresh(p), Fresh(p))
         /\ Holding(p, Fresh(p)) = 0 /\ Fresh(p).out = <<>>
<1>1. CASE p = "type_b"
  <2> DEFINE d == [slot |-> 0, open |-> <<>>, out |-> <<>>]
  <2>1. Fresh(p) = d
    BY <1>1 DEF Fresh
  <2>2. d.slot = 0 /\ d.open = <<>> /\ d.out = <<>>
    OBVIOUS
  <2>3. d \in TypeBStates
    <3>1. <<>> \in Seq(OpenContacts) /\ <<>> \in Seq(Gestures)
      OBVIOUS
    <3> QED
      BY <3>1 DEF TypeBStates
  <2>4. Len(<<>>) = 0
    OBVIOUS
  <2> HIDE DEF d
  <2>5. TypeBOK(d)
    BY <2>2, <2>3, <2>4 DEF TypeBOK, Apart, Crowd, Over
  <2> QED
    BY <1>1, <2>1, <2>2, <2>4, <2>5 DEF DecoderOK, Holding, SameFor, Alike
<1>2. CASE p # "type_b"
  <2>1. Fresh(p) = Idle
    BY <1>2 DEF Fresh
  <2>2. Idle \in BtnStates
    <3>1. <<>> \in Seq(Gestures) /\ Unseen \in Coord
      BY DEF Coord
    <3> QED
      BY <3>1 DEF Idle, BtnStates
  <2>3. Idle.out = <<>> /\ ~Idle.active /\ Len(<<>>) = 0
    BY DEF Idle
  <2>4. BtnOK(Idle) /\ BtnHeld(Idle) = 0 /\ BtnSame(Idle, Idle)
    BY <2>2, <2>3 DEF BtnOK, Over, BtnHeld, BtnSame
  <2> QED
    BY <1>2, <2>1, <2>3, <2>4 DEF DecoderOK, Holding, SameFor
<1> QED
  BY <1>1, <1>2

\* One line: what was told stays, and at most one gesture is told.
LEMMA StepOK ==
  ASSUME NEW p, NEW d, DecoderOK(p, d), NEW ev \in Lines, NEW thr
  PROVE  /\ DecoderOK(p, Step(p, thr, d, ev))
         /\ Effect(d, Step(p, thr, d, ev), Holding(p, d), Holding(p, Step(p, thr, d, ev)))
<1> DEFINE e == Step(p, thr, d, ev)
<1>1. CASE p = "type_b"
  <2>1. TypeBOK(d) /\ e = TypeBStep(thr, d, ev)
    BY <1>1 DEF DecoderOK, Step
  <2>2. TypeBOK(e) /\ TypeBEffect(d, e)
    BY <2>1, TypeBStepOK
  <2> HIDE DEF e
  <2>3. DecoderOK(p, e) /\ Effect(d, e, Holding(p, d), Holding(p, e))
    BY <1>1, <2>2 DEF DecoderOK, Holding, TypeBEffect
  <2> QED
    BY <2>3 DEF e
<1>2. CASE p # "type_b"
  <2>1. BtnOK(d) /\ e = BtnTouchStep(thr, d, ev)
    BY <1>2 DEF DecoderOK, Step
  <2>2. BtnOK(e) /\ BtnEffect(d, e)
    BY <2>1, BtnStepOK
  <2> HIDE DEF e
  <2>3. DecoderOK(p, e) /\ Effect(d, e, Holding(p, d), Holding(p, e))
    BY <1>2, <2>2 DEF DecoderOK, Holding, BtnEffect
  <2> QED
    BY <2>3 DEF e
<1> QED
  BY <1>1, <1>2

\* A decoder is sound whatever lines it is fed, and the thresholds decide
\* nothing but the kinds of its gestures.
LEMMA DecoderIsOK ==
  ASSUME NEW p, NEW thr, NEW thr2, NEW evs \in Seq(Lines)
  PROVE  /\ DecoderOK(p, Decoder(p, evs, thr))
         /\ SameFor(p, Decoder(p, evs, thr), Decoder(p, evs, thr2))
<1> DEFINE D(s) == Decoder(p, s, thr)
           E(s) == Decoder(p, s, thr2)
           T == {s \in Seq(Lines) : DecoderOK(p, D(s)) /\ DecoderOK(p, E(s)) /\ SameFor(p, D(s), E(s))}
<1>1. <<>> \in T
  <2>1. D(<<>>) = Fresh(p) /\ E(<<>>) = Fresh(p)
    BY DecoderStarts
  <2>2. <<>> \in Seq(Lines)
    OBVIOUS
  <2> HIDE DEF D, E
  <2> QED
    BY <2>1, <2>2, FreshOK
<1>2. ASSUME NEW s \in Seq(Lines), NEW ev \in Lines, s \in T
      PROVE  Append(s, ev) \in T
  <2> DEFINE t == Append(s, ev)
             d == D(s)
             e == E(s)
  <2>1. t \in Seq(Lines)
    OBVIOUS
  <2>2. D(t) = Step(p, thr, d, ev) /\ E(t) = Step(p, thr2, e, ev)
    BY DecoderSteps
  <2>3. DecoderOK(p, d) /\ DecoderOK(p, e) /\ SameFor(p, d, e)
    BY <1>2
  <2> HIDE DEF d, e, t, D, E
  <2>4. DecoderOK(p, D(t)) /\ DecoderOK(p, E(t))
    BY <2>2, <2>3, StepOK
  <2>5. SameFor(p, Step(p, thr, d, ev), Step(p, thr2, e, ev))
    <3>1. CASE p = "type_b"
      <4>1. TypeBOK(d) /\ TypeBOK(e) /\ Alike(d, e)
        BY <2>3, <3>1 DEF DecoderOK, SameFor
      <4>2. Alike(TypeBStep(thr, d, ev), TypeBStep(thr2, e, ev))
        BY <4>1, TypeBAlike
      <4> QED
        BY <3>1, <4>2 DEF SameFor, Step
    <3>2. CASE p # "type_b"
      <4>1. d \in BtnStates /\ e \in BtnStates /\ BtnSame(d, e)
        BY <2>3, <3>2 DEF DecoderOK, SameFor, BtnOK
      <4>2. BtnSame(BtnTouchStep(thr, d, ev), BtnTouchStep(thr2, e, ev))
        BY <4>1, BtnAlike
      <4> QED
        BY <3>2, <4>2 DEF SameFor, Step
    <3> QED
      BY <3>1, <3>2
  <2>6. SameFor(p, D(t), E(t))
    BY <2>2, <2>5
  <2>7. t \in T
    BY <2>1, <2>4, <2>6
  <2> QED
    BY <2>7 DEF t
<1>3. Seq(Lines) \subseteq T
  <2> HIDE DEF T
  <2> QED
    BY <1>1, <1>2, SeqInduction
<1> QED
  BY <1>3

\* Decoders that differ by their thresholds hold and have told as many.
LEMMA SameHolds ==
  ASSUME NEW p, NEW d, NEW e, SameFor(p, d, e)
  PROVE  Len(d.out) = Len(e.out) /\ Holding(p, d) = Holding(p, e)
<1>1. CASE p = "type_b"
  BY <1>1 DEF SameFor, Holding, Alike
<1>2. CASE p # "type_b"
  <2>1. Len(d.out) = Len(e.out) /\ d.active = e.active
    BY <1>2 DEF SameFor, BtnSame
  <2> QED
    BY <1>2, <2>1 DEF Holding, BtnHeld
<1> QED
  BY <1>1, <1>2

\* What a decoder has told is whole gestures.
LEMMA DecoderTyped ==
  ASSUME NEW p, NEW d, DecoderOK(p, d)
  PROVE  d.out \in Seq(Gestures) /\ Over(d.out) /\ Holding(p, d) \in Nat
<1>1. CASE p = "type_b"
  <2>1. d.out \in Seq(Gestures) /\ Over(d.out) /\ d.open \in Seq(OpenContacts)
    BY <1>1 DEF DecoderOK, TypeBOK, TypeBStates
  <2>2. Len(d.open) \in Nat
    BY <2>1, LenProperties
  <2> QED
    BY <1>1, <2>1, <2>2 DEF Holding
<1>2. CASE p # "type_b"
  BY <1>2 DEF DecoderOK, BtnOK, BtnStates, Holding, BtnHeld
<1> QED
  BY <1>1, <1>2

\* What is still held is truncated, and of several contacts none is single.
LEMMA HeldTruncated ==
  ASSUME NEW p, NEW d, DecoderOK(p, d), NEW ts \in Nat, NEW thr
  PROVE  /\ Held(p, d, ts, thr) \in Seq(Gestures)
         /\ Len(Held(p, d, ts, thr)) = Holding(p, d)
         /\ \A i \in 1..Holding(p, d) :
              /\ Held(p, d, ts, thr)[i].truncated
              /\ Holding(p, d) > 1 => ~Single(Held(p, d, ts, thr)[i])
<1> DEFINE h == Held(p, d, ts, thr)
           n == Holding(p, d)
<1>1. CASE p = "type_b"
  <2> DEFINE G(i) == Closed(d.open[i], ts, TRUE, thr)
  <2>1. TypeBOK(d) /\ n = Len(d.open) /\ h = [i \in DOMAIN d.open |-> G(i)]
    BY <1>1 DEF DecoderOK, Holding, Held, TypeBHeld
  <2>2. d.open \in Seq(OpenContacts) /\ Crowd(d.open)
    BY <2>1 DEF TypeBOK, TypeBStates
  <2>3. n \in Nat /\ DOMAIN d.open = 1..n /\ \A i \in 1..n : d.open[i] \in OpenContacts
    BY <2>1, <2>2, LenProperties, ElementOfSeq
  <2>4. ASSUME NEW i \in 1..n
        PROVE  G(i) \in Gestures /\ G(i).truncated /\ (Single(G(i)) <=> ~d.open[i].multi)
    <3>1. IsContact(d.open[i])
      <4>1. d.open[i] \in OpenContacts
        BY <2>3
      <4> QED
        BY <4>1 DEF OpenContacts, IsContact
    <3>2. G(i) \in Gestures /\ G(i).truncated = TRUE /\ (Single(G(i)) <=> ~d.open[i].multi)
      BY <3>1, ClosedGesture
    <3> QED
      BY <3>2
  <2>5. n > 1 => \A i \in 1..n : d.open[i].multi
    BY <2>1, <2>2 DEF Crowd
  <2>6. h = [i \in 1..n |-> G(i)]
    BY <2>1, <2>3
  <2> HIDE DEF h, n, G
  <2>7. h \in Seq(Gestures) /\ Len(h) = n /\ \A i \in 1..n : h[i] = G(i)
    BY <2>3, <2>4, <2>6
  <2> QED
    BY <2>4, <2>5, <2>7 DEF h, n
<1>2. CASE p # "type_b"
  <2> DEFINE g == BtnGesture(d, ts, TRUE, thr)
  <2>1. d \in BtnStates
    BY <1>2 DEF DecoderOK, BtnOK
  <2>2. g \in Gestures /\ g.truncated
    BY <2>1, BtnGestureTyped
  <2>3. h = (IF d.active THEN <<g>> ELSE <<>>) /\ n = IF d.active THEN 1 ELSE 0
    BY <1>2 DEF Held, BtnTouchHeld, Holding, BtnHeld
  <2> HIDE DEF h, n, g
  <2>4. CASE d.active
    <3>1. h = <<g>> /\ n = 1
      BY <2>3, <2>4
    <3>2. h \in Seq(Gestures) /\ Len(h) = n /\ h[1].truncated
      BY <2>2, <3>1
    <3> QED
      BY <3>1, <3>2 DEF h, n
  <2>5. CASE ~d.active
    <3>1. h = <<>> /\ n = 0
      BY <2>3, <2>5
    <3> QED
      BY <3>1 DEF h, n
  <2> QED
    BY <2>4, <2>5
<1> QED
  BY <1>1, <1>2

-----------------------------------------------------------------------------
(* What stream_gestures yields *)

\* How many gestures are final: all that are over, and all but the last of
\* those held.
Kept(h) == IF h > 1 THEN h - 1 ELSE 0
Counted(p, d) == Len(d.out) + Kept(Holding(p, d))

\* Final keeps all that is told, and of what is held all but the last.
LEMMA FinalGestures ==
  ASSUME NEW out \in Seq(Gestures), Over(out), NEW held \in Seq(Gestures),
         \A i \in 1..Len(held) : held[i].truncated
  PROVE  /\ Final(out \o held) \in Seq(Gestures)
         /\ Len(Final(out \o held)) = Len(out) + Kept(Len(held))
         /\ \A k \in 1..Len(out) : Final(out \o held)[k] = out[k]
         /\ \A k \in 1..Kept(Len(held)) : Final(out \o held)[Len(out) + k] = held[k]
<1> DEFINE g == out \o held
           n == Len(out)
           h == Len(held)
<1>1. n \in Nat /\ h \in Nat
  BY LenProperties
<1>2. /\ g \in Seq(Gestures) /\ Len(g) = n + h
      /\ \A i \in 1..n + h : g[i] = IF i <= n THEN out[i] ELSE held[i - n]
  BY ConcatProperties
<1>3. \A k \in 1..n : ~out[k].truncated
  BY DEF Over
<1> HIDE DEF g
<1>4. CASE h = 0
  <2>1. \A k \in 1..n : g[k] = out[k]
    BY <1>1, <1>2, <1>4
  <2>2. Final(g) = g
    <3>1. CASE g = <<>>
      BY <3>1 DEF Final
    <3>2. CASE g # <<>>
      <4>1. Len(g) \in 1..n /\ Last(g) = g[Len(g)]
        <5>1. Len(g) # 0
          BY <1>2, <3>2
        <5> QED
          BY <1>1, <1>2, <1>4, <5>1 DEF Last
      <4>2. ~Last(g).truncated
        BY <1>3, <2>1, <4>1
      <4> QED
        BY <4>2 DEF Final
    <3> QED
      BY <3>1, <3>2
  <2>3. Kept(h) = 0
    BY <1>4 DEF Kept
  <2> HIDE DEF n, h
  <2>4. /\ Final(g) \in Seq(Gestures) /\ Len(Final(g)) = n + Kept(h)
        /\ \A k \in 1..n : Final(g)[k] = out[k]
        /\ \A k \in 1..Kept(h) : Final(g)[n + k] = held[k]
    BY <1>1, <1>2, <1>4, <2>1, <2>2, <2>3
  <2> QED
    BY <2>4 DEF g, n, h
<1>5. CASE h > 0
  <2>1. Last(g) = held[h] /\ g # <<>>
    <3>1. n + h \in 1..n + h /\ ~(n + h <= n) /\ (n + h) - n = h
      BY <1>1, <1>5
    <3>2. g[n + h] = held[h]
      BY <1>2, <3>1
    <3>3. Len(g) # 0
      BY <1>1, <1>2, <1>5
    <3>4. g # <<>>
      BY <3>3
    <3> QED
      BY <1>2, <3>2, <3>4 DEF Last
  <2>2. held[h].truncated
    <3>1. h \in 1..Len(held)
      BY <1>1, <1>5
    <3> QED
      BY <3>1
  <2>3. Final(g) = SubSeq(g, 1, n + h - 1)
    <3>1. Final(g) = Front(g)
      BY <2>1, <2>2 DEF Final
    <3> QED
      BY <1>2, <3>1 DEF Front
  <2> DEFINE f == SubSeq(g, 1, n + h - 1)
  <2>4. /\ f \in Seq(Gestures) /\ Len(f) = n + h - 1
        /\ \A i \in 1..n + h - 1 : f[i] = g[i]
    <3>1. \A i \in 1..n + h - 1 : g[i] \in Gestures
      <4>1. \A i \in 1..n + h - 1 : i \in 1..Len(g)
        BY <1>1, <1>2
      <4> QED
        BY <1>2, <4>1, ElementOfSeq
    <3>2. /\ f \in Seq(Gestures)
          /\ Len(f) = IF 1 <= n + h - 1 THEN (n + h - 1) - 1 + 1 ELSE 0
          /\ \A i \in 1..(n + h - 1) - 1 + 1 : f[i] = g[1 + i - 1]
      BY <1>1, <3>1, SubSeqProperties
    <3> HIDE DEF f
    <3> QED
      BY <1>1, <1>5, <3>2
  <2> HIDE DEF f, n, h
  <2>5. Kept(h) = h - 1
    BY <1>1, <1>5 DEF Kept
  <2>6. Len(f) = n + Kept(h)
    BY <1>1, <2>4, <2>5
  <2>7. \A k \in 1..n : f[k] = out[k]
    <3> SUFFICES ASSUME NEW k \in 1..n
                 PROVE  f[k] = out[k]
      OBVIOUS
    <3>1. k \in 1..n + h - 1 /\ k \in 1..n + h /\ k <= n
      BY <1>1, <1>5
    <3>2. f[k] = g[k]
      BY <2>4, <3>1
    <3>3. g[k] = out[k]
      BY <1>2, <3>1
    <3> QED
      BY <3>2, <3>3
  <2>8. ASSUME NEW k \in 1..Kept(h)
        PROVE  f[n + k] = held[k]
    <3>1. n + k \in 1..n + h - 1 /\ n + k \in 1..n + h /\ ~(n + k <= n) /\ (n + k) - n = k
      BY <1>1, <1>5, <2>5
    <3>2. f[n + k] = g[n + k]
      BY <2>4, <3>1
    <3>3. g[n + k] = held[(n + k) - n]
      BY <1>2, <3>1
    <3> QED
      BY <3>1, <3>2, <3>3
  <2>9. Final(g) = f
    BY <2>3 DEF f
  <2> QED
    BY <2>4, <2>6, <2>7, <2>8, <2>9 DEF g, n, h
<1>6. h = 0 \/ h > 0
  BY <1>1
<1> QED
  BY <1>4, <1>5, <1>6

\* The part of a sequence from one index to the same.
LEMMA OneElement ==
  ASSUME NEW L, NEW s, NEW m \in Int, s[m] \in L
  PROVE  SubSeq(s, m, m) = <<s[m]>>
<1>1. \A i \in m..m : s[i] \in L
  OBVIOUS
<1>2. SubSeq(s, m, m) \in Seq(L)
  BY <1>1, SubSeqProperties
<1>3. Len(SubSeq(s, m, m)) = IF m <= m THEN m - m + 1 ELSE 0
  BY <1>1, SubSeqProperties
<1>4. \A i \in 1..m - m + 1 : SubSeq(s, m, m)[i] = s[m + i - 1]
  BY <1>1, SubSeqProperties
<1>5. m <= m /\ m - m + 1 = 1 /\ 1 \in 1..m - m + 1 /\ m + 1 - 1 = m
  OBVIOUS
<1>6. Len(SubSeq(s, m, m)) = 1 /\ SubSeq(s, m, m)[1] = s[m]
  BY <1>3, <1>4, <1>5
<1> DEFINE f == SubSeq(s, m, m)
<1>7. f \in Seq(L) /\ Len(f) = 1 /\ f[1] = s[m]
  BY <1>2, <1>6
<1> HIDE DEF f
<1>8. f = <<s[m]>>
  BY <1>7
<1> QED
  BY <1>8 DEF f

\* What comes after the first n gestures, when there is at most one.
LEMMA AfterProperties ==
  ASSUME NEW g \in Seq(Gestures), NEW n \in Nat
  PROVE  /\ Len(g) = n => After(n, g) = <<>>
         /\ Len(g) = n + 1 => After(n, g) = <<g[n + 1]>> /\ g[n + 1] \in Gestures
<1>1. CASE Len(g) = n
  <2>1. SubSeq(g, n + 1, n) = <<>>
    BY SubSeqEmpty
  <2> QED
    BY <1>1, <2>1 DEF After
<1>2. CASE Len(g) = n + 1
  <2>1. n + 1 \in 1..Len(g) /\ n + 1 \in Int
    BY <1>2
  <2>2. g[n + 1] \in Gestures
    BY <2>1, ElementOfSeq
  <2>3. SubSeq(g, n + 1, n + 1) = <<g[n + 1]>>
    BY <2>1, <2>2, OneElement
  <2> QED
    BY <1>2, <2>2, <2>3 DEF After
<1> QED
  BY <1>1, <1>2

\* A line read: what becomes final is what is over, but for gestures of several.
Yields(d, e, new) ==
  \/ new = <<>> /\ Complete(e.out) = Complete(d.out)
  \/ \E g \in Gestures : new = <<g>> /\ ~Single(g) /\ Complete(e.out) = Complete(d.out)
  \/ \E g \in Gestures : new = <<g>> /\ ~g.truncated /\ e.out = Append(d.out, g)

\* One line more: the stream yields what is told new, and what several fingers hold.
LEMMA ReadYields ==
  ASSUME NEW p, NEW d, DecoderOK(p, d), NEW ev \in Lines, NEW thr, NEW ts \in Nat
  PROVE  LET e == Step(p, thr, d, ev)
             final == Final(e.out \o Held(p, e, ts, thr))
         IN  Len(final) = Counted(p, e) /\ Yields(d, e, After(Counted(p, d), final))
<1> DEFINE e == Step(p, thr, d, ev)
           held == Held(p, e, ts, thr)
           final == Final(e.out \o held)
           new == After(Counted(p, d), final)
           h == Holding(p, d)
           m == Holding(p, e)
           n == Len(d.out)
<1>1. DecoderOK(p, e) /\ Effect(d, e, h, m)
  BY StepOK
<1> HIDE DEF e
<1>2. /\ d.out \in Seq(Gestures) /\ Over(d.out) /\ h \in Nat
      /\ e.out \in Seq(Gestures) /\ Over(e.out) /\ m \in Nat
  BY <1>1, DecoderTyped
<1>3. /\ held \in Seq(Gestures) /\ Len(held) = m
      /\ \A i \in 1..m : held[i].truncated /\ (m > 1 => ~Single(held[i]))
  BY <1>1, HeldTruncated
<1> HIDE DEF held
<1>4. /\ final \in Seq(Gestures)
      /\ Len(final) = Len(e.out) + Kept(m)
      /\ \A k \in 1..Len(e.out) : final[k] = e.out[k]
      /\ \A k \in 1..Kept(m) : final[Len(e.out) + k] = held[k]
  <2>1. \A i \in 1..Len(held) : held[i].truncated
    BY <1>3
  <2> HIDE DEF m
  <2> DEFINE q == e.out
  <2>2. q \in Seq(Gestures) /\ Over(q)
    BY <1>2
  <2> HIDE DEF q
  <2>3. /\ Final(q \o held) \in Seq(Gestures)
        /\ Len(Final(q \o held)) = Len(q) + Kept(Len(held))
        /\ \A k \in 1..Len(q) : Final(q \o held)[k] = q[k]
        /\ \A k \in 1..Kept(Len(held)) : Final(q \o held)[Len(q) + k] = held[k]
    BY <1>3, <2>1, <2>2, FinalGestures
  <2>4. /\ final \in Seq(Gestures)
        /\ Len(final) = Len(e.out) + Kept(Len(held))
        /\ \A k \in 1..Len(e.out) : final[k] = e.out[k]
        /\ \A k \in 1..Kept(Len(held)) : final[Len(e.out) + k] = held[k]
    BY <2>3 DEF q
  <2> QED
    BY <1>3, <2>4
<1>5. n \in Nat /\ Counted(p, d) = n + Kept(h) /\ Counted(p, e) = Len(e.out) + Kept(m)
  BY <1>2, LenProperties DEF Counted
<1>6. Kept(h) \in Nat /\ Kept(m) \in Nat
  BY <1>2 DEF Kept
<1>7. /\ Len(final) = Counted(p, d) => new = <<>>
      /\ Len(final) = Counted(p, d) + 1 =>
           new = <<final[Counted(p, d) + 1]>> /\ final[Counted(p, d) + 1] \in Gestures
  <2>1. Counted(p, d) \in Nat
    BY <1>5, <1>6
  <2> HIDE DEF final
  <2> QED
    BY <1>4, <2>1, AfterProperties
<1> HIDE DEF final, new, h, m
<1>8. Yields(d, e, new)
  <2>1. CASE e.out = d.out /\ m = h
    <3>1. Len(final) = Counted(p, d)
      BY <1>4, <1>5, <2>1
    <3> QED
      BY <1>7, <2>1, <3>1 DEF Yields
  <2>2. CASE e.out = d.out /\ m = h + 1
    <3>1. CASE h = 0
      <4>1. Kept(m) = 0 /\ Kept(h) = 0
        BY <2>2, <3>1 DEF Kept
      <4>2. Len(final) = Counted(p, d)
        BY <1>4, <1>5, <2>2, <4>1
      <4> QED
        BY <1>7, <2>2, <4>2 DEF Yields
    <3>2. CASE h > 0
      <4>1. Kept(m) = h /\ Kept(h) = h - 1
        BY <1>2, <2>2, <3>2 DEF Kept
      <4>2. Len(final) = Counted(p, d) + 1 /\ Counted(p, d) + 1 = n + h
        BY <1>2, <1>4, <1>5, <2>2, <4>1
      <4>3. h \in 1..Kept(m) /\ h \in 1..m /\ m > 1
        BY <1>2, <2>2, <3>2, <4>1
      <4>4. final[n + h] = held[h] /\ ~Single(held[h])
        BY <1>3, <1>4, <2>2, <4>3
      <4>5. new = <<final[n + h]>> /\ final[n + h] \in Gestures
        BY <1>7, <4>2
      <4> QED
        BY <2>2, <4>4, <4>5 DEF Yields
    <3> QED
      BY <1>2, <3>1, <3>2
  <2>3. CASE Closes(d, e, h) /\ h >= 1 /\ m \in {h - 1, h}
    <3>1. PICK g \in Gestures : ~g.truncated /\ (h > 1 => ~Single(g)) /\ e.out = Append(d.out, g)
      BY <2>3 DEF Closes
    <3>2. Len(e.out) = n + 1 /\ e.out[n + 1] = g
      BY <1>2, <3>1, AppendProperties
    <3>3. CASE h = 1
      <4>1. Kept(h) = 0 /\ Kept(m) = 0
        BY <2>3, <3>3 DEF Kept
      <4>2. Len(final) = Counted(p, d) + 1 /\ Counted(p, d) + 1 = n + 1
        BY <1>4, <1>5, <3>2, <4>1
      <4>3. final[n + 1] = g
        <5>1. n + 1 \in 1..Len(e.out)
          BY <1>5, <3>2
        <5> QED
          BY <1>4, <3>2, <5>1
      <4>4. new = <<g>>
        BY <1>7, <4>2, <4>3
      <4> QED
        BY <3>1, <4>4 DEF Yields
    <3>4. CASE h > 1
      <4>1. Complete(e.out) = Complete(d.out)
        <5>1. Complete(Append(d.out, g)) = Picked(Complete(d.out), g)
          BY <1>2, CompleteSteps
        <5>2. ~Counts(g)
          BY <3>1, <3>4 DEF Counts
        <5> QED
          BY <3>1, <5>1, <5>2 DEF Picked
      <4>2. CASE m = h - 1
        <5>1. Kept(h) = h - 1 /\ Kept(m) = h - 2
          BY <1>2, <3>4, <4>2 DEF Kept
        <5>2. Len(final) = Counted(p, d)
          BY <1>2, <1>4, <1>5, <3>2, <5>1
        <5> QED
          BY <1>7, <4>1, <5>2 DEF Yields
      <4>3. CASE m = h
        <5>1. Kept(h) = h - 1 /\ Kept(m) = h - 1
          BY <1>2, <3>4, <4>3 DEF Kept
        <5>2. Len(final) = Counted(p, d) + 1 /\ Counted(p, d) + 1 = Len(e.out) + (h - 1)
          BY <1>2, <1>4, <1>5, <3>2, <5>1
        <5>3. h - 1 \in 1..Kept(m) /\ h - 1 \in 1..m /\ m > 1
          BY <1>2, <3>4, <4>3, <5>1
        <5>4. final[Len(e.out) + (h - 1)] = held[h - 1] /\ ~Single(held[h - 1])
          BY <1>3, <1>4, <5>3
        <5>5. new = <<final[Len(e.out) + (h - 1)]>> /\ final[Len(e.out) + (h - 1)] \in Gestures
          BY <1>7, <5>2
        <5> QED
          BY <4>1, <5>4, <5>5 DEF Yields
      <4> QED
        BY <2>3, <4>2, <4>3
    <3> QED
      BY <1>2, <2>3, <3>3, <3>4
  <2> QED
    BY <1>1, <2>1, <2>2, <2>3 DEF Effect
<1> QED
  BY <1>4, <1>5, <1>8 DEF final, new, e, held, m

\* The end of the stream: what is left is one truncated gesture or nothing.
LEMMA EndYields ==
  ASSUME NEW p, NEW d, DecoderOK(p, d), NEW ts \in Nat, NEW thr
  PROVE  LET new == After(Counted(p, d), d.out \o Held(p, d, ts, thr))
         IN  new = <<>> \/ \E g \in Gestures : new = <<g>> /\ g.truncated
<1> DEFINE held == Held(p, d, ts, thr)
           all == d.out \o held
           new == After(Counted(p, d), all)
           h == Holding(p, d)
           n == Len(d.out)
<1>1. d.out \in Seq(Gestures) /\ h \in Nat
  BY DecoderTyped
<1>2. held \in Seq(Gestures) /\ Len(held) = h /\ \A i \in 1..h : held[i].truncated
  BY HeldTruncated
<1> HIDE DEF held, h
<1>3. /\ all \in Seq(Gestures) /\ Len(all) = n + h
      /\ \A i \in 1..n + h : all[i] = IF i <= n THEN d.out[i] ELSE held[i - n]
  BY <1>1, <1>2, ConcatProperties
<1>4. n \in Nat /\ Counted(p, d) = n + Kept(h)
  BY <1>1, LenProperties DEF Counted, h
<1> HIDE DEF all, n
<1>5. Counted(p, d) \in Nat
  BY <1>1, <1>4 DEF Kept
<1>6. /\ Len(all) = Counted(p, d) => new = <<>>
      /\ Len(all) = Counted(p, d) + 1 =>
           new = <<all[Counted(p, d) + 1]>> /\ all[Counted(p, d) + 1] \in Gestures
  BY <1>3, <1>5, AfterProperties
<1> HIDE DEF new
<1>7. CASE h = 0
  <2>1. Len(all) = Counted(p, d)
    BY <1>3, <1>4, <1>7 DEF Kept
  <2> QED
    BY <1>6, <2>1 DEF new, all, held
<1>8. CASE h > 0
  <2>1. Len(all) = Counted(p, d) + 1 /\ Counted(p, d) + 1 = n + h
    BY <1>1, <1>3, <1>4, <1>8 DEF Kept
  <2>2. n + h \in 1..n + h /\ ~(n + h <= n) /\ (n + h) - n = h /\ h \in 1..h
    BY <1>1, <1>4, <1>8
  <2>3. all[n + h] = held[h] /\ held[h].truncated
    BY <1>2, <1>3, <2>2
  <2>4. new = <<all[n + h]>> /\ all[n + h] \in Gestures
    BY <1>6, <2>1
  <2> QED
    BY <2>3, <2>4 DEF new, all, held
<1> QED
  BY <1>1, <1>7, <1>8

-----------------------------------------------------------------------------
(* Distances *)

\* A positive factor on both sides of a comparison.
LEMMA MulCancel ==
  ASSUME NEW m \in Nat \ {0}, NEW a \in Int, NEW b \in Int
  PROVE  m * a >= m * b <=> a >= b
OBVIOUS

\* Products reordered.
LEMMA Scaled ==
  ASSUME NEW u \in Nat \ {0}, NEW v \in Nat \ {0}, NEW x \in Int, NEW y \in Int, NEW c \in Int
  PROVE  /\ (x * u) * v = (u * v) * x
         /\ (y * v) * u = (u * v) * y
         /\ (c * u) * v = (u * v) * c
OBVIOUS

\* The square of a product.
LEMMA Squared ==
  ASSUME NEW m \in Int, NEW x \in Int
  PROVE  (m * x) * (m * x) = (m * m) * (x * x)
OBVIOUS

\* Distributivity.
LEMMA Dist ==
  ASSUME NEW m \in Int, NEW x \in Int, NEW y \in Int
  PROVE  m * x + m * y = m * (x + y) /\ x * m - y * m = (x - y) * m
OBVIOUS

\* A product of positive numbers is positive.
LEMMA Pos ==
  ASSUME NEW u \in Nat \ {0}, NEW v \in Nat \ {0}
  PROVE  u * v \in Nat \ {0}
OBVIOUS

\* Measured in panel units, each axis at its own scale, a distance is at least
\* swipe_px exactly when it is in display pixels.
LEMMA FarScales ==
  ASSUME NEW u \in Nat \ {0}, NEW v \in Nat \ {0}, NEW dist \in Nat,
         NEW sx \in Nat, NEW sy \in Nat, NEW ex \in Nat, NEW ey \in Nat
  PROVE  Far(sx * u, sy * v, ex * u, ey * v, dist, u, v) <=> Far(sx, sy, ex, ey, dist, 1, 1)
<1> DEFINE k == u * v
           x == ex - sx
           y == ey - sy
           mx == (ex * u - sx * u) * v
           my == (ey * v - sy * v) * u
           ml == dist * u * v
<1>1. k \in Nat \ {0} /\ k * k \in Nat \ {0} /\ x \in Int /\ y \in Int
  BY Pos
<1>2. ex * u - sx * u = x * u /\ ey * v - sy * v = y * v
  BY Dist
<1>3. mx = k * x /\ my = k * y /\ ml = k * dist
  <2>1. mx = (x * u) * v /\ my = (y * v) * u
    BY <1>2
  <2>2. (x * u) * v = k * x /\ (y * v) * u = k * y /\ (dist * u) * v = k * dist
    <3> HIDE DEF x, y
    <3> QED BY <1>1, Scaled
  <2> QED BY <2>1, <2>2
<1>4. Far(sx * u, sy * v, ex * u, ey * v, dist, u, v) <=> mx * mx + my * my >= ml * ml
  BY DEF Far
<1>5. Far(sx, sy, ex, ey, dist, 1, 1) <=> x * x + y * y >= dist * dist
  <2>1. (ex - sx) * 1 = x /\ (ey - sy) * 1 = y /\ dist * 1 * 1 = dist
    OBVIOUS
  <2> QED BY <2>1 DEF Far
<1> HIDE DEF k, x, y, mx, my, ml
<1>6. mx * mx = (k * k) * (x * x) /\ my * my = (k * k) * (y * y) /\ ml * ml = (k * k) * (dist * dist)
  BY <1>1, <1>3, Squared
<1> DEFINE m == k * k
           a == x * x
           b == y * y
           c == dist * dist
<1>7. m \in Nat \ {0} /\ a \in Int /\ b \in Int /\ c \in Int
  BY <1>1
<1>8. mx * mx = m * a /\ my * my = m * b /\ ml * ml = m * c
  BY <1>6
<1>9. Far(sx, sy, ex, ey, dist, 1, 1) <=> a + b >= c
  BY <1>5
<1> HIDE DEF m, a, b, c
<1>10. m * a + m * b = m * (a + b)
  BY <1>7, Dist
<1>11. m * (a + b) >= m * c <=> a + b >= c
  <2>1. a + b \in Int
    BY <1>7
  <2> QED BY <1>7, <2>1, MulCancel
<1> QED BY <1>4, <1>8, <1>9, <1>10, <1>11


-----------------------------------------------------------------------------
(* What a finger alone did, and the gesture the decoders make of it *)

Places == Nat \X Nat
Contacts == [down : Nat, from : Places, at : Places, alone : BOOLEAN]
Mades == [down : Nat, up : Nat, from : Places, to : Places]

\* What a finger in a slot is to the decoder of type B.
ContactOf(s, f) == [slot |-> s, down |-> f.down, multi |-> ~f.alone,
                    sx |-> f.from[1] * PanelX, sy |-> f.from[2] * PanelY,
                    lx |-> f.at[1] * PanelX, ly |-> f.at[2] * PanelY]

Ended(f, ts) == [down |-> f.down, up |-> ts, from |-> f.from, to |-> f.at]

\* A point of the display, in panel units.
LEMMA Panels ==
  /\ PanelX \in Nat \ {0} /\ PanelY \in Nat \ {0} /\ SwipePx \in Nat
  /\ \A q \in Places : /\ q[1] \in Nat /\ q[2] \in Nat /\ q = <<q[1], q[2]>>
                      /\ q[1] * PanelX \in Nat /\ q[2] * PanelY \in Nat
BY CaptureAssumption DEF Places

\* What a decoder keeps of a finger alone closes to the gesture it made.
LEMMA AloneGesture ==
  ASSUME NEW c, NEW f, NEW ts \in Nat,
         f.from \in Places, f.at \in Places, c.down = f.down, ~c.multi,
         c.sx = f.from[1] * PanelX, c.sy = f.from[2] * PanelY,
         c.lx = f.at[1] * PanelX, c.ly = f.at[2] * PanelY
  PROVE  Closed(c, ts, FALSE, LiveThresholds) = Gestured(Ended(f, ts))
<1> DEFINE a == f.from
           b == f.at
           far == Far(a[1] * PanelX, a[2] * PanelY, b[1] * PanelX,
                      b[2] * PanelY, SwipePx, PanelX, PanelY)
           near == Far(a[1], a[2], b[1], b[2], SwipePx, 1, 1)
           kind == CASE far -> "swipe"
                     [] OTHER -> IF ts - f.down >= 1 THEN "long_press" ELSE "tap"
           kind2 == CASE near -> "swipe"
                     [] OTHER -> IF ts - f.down >= 1 THEN "long_press" ELSE "tap"
           kind3 == CASE c.multi -> "multi"
                     [] ~c.multi /\ far -> "swipe"
                     [] OTHER -> IF ts - f.down >= 1 THEN "long_press" ELSE "tap"
<1>1. a[1] \in Nat /\ a[2] \in Nat /\ b[1] \in Nat /\ b[2] \in Nat
  BY Panels
<1>2. far <=> near
  <2> HIDE DEF a, b
  <2> QED BY <1>1, Panels, FarScales
<1>3. c.sx \in Nat /\ c.sy \in Nat /\ c.lx \in Nat /\ c.ly \in Nat
  BY Panels
<1>4. c.sx # Unseen /\ c.sy # Unseen /\ c.lx # Unseen /\ c.ly # Unseen
  BY <1>3 DEF Unseen
<1>5. First(c.lx, c.sx) = c.lx /\ First(c.ly, c.sy) = c.ly
  BY <1>4 DEF First
<1>6. Closed(c, ts, FALSE, LiveThresholds)
        = make_gesture(c.down, ts, c.sx, c.sy, c.lx, c.ly, c.multi, FALSE, LiveThresholds)
  BY <1>4, <1>5 DEF Closed
<1>7. /\ LiveThresholds.dist = SwipePx
      /\ LiveThresholds.ux = PanelX /\ LiveThresholds.uy = PanelY
  BY DEF LiveThresholds
<1>8. Closed(c, ts, FALSE, LiveThresholds)
        = [kind |-> kind3, down |-> f.down, up |-> ts,
           at |-> <<a[1] * PanelX, a[2] * PanelY>>, truncated |-> FALSE]
  BY <1>6, <1>7 DEF make_gesture
<1>9. Gestured(Ended(f, ts))
        = [kind |-> kind2, down |-> f.down, up |-> ts,
           at |-> <<a[1] * PanelX, a[2] * PanelY>>, truncated |-> FALSE]
  BY DEF Gestured, Ended
<1>10. kind3 = kind2
  <2> HIDE DEF far, near
  <2> QED BY <1>2
<1> HIDE DEF kind2, kind3
<1> QED BY <1>8, <1>9, <1>10

-----------------------------------------------------------------------------
(* What a decoder becomes when it is fed some more lines *)

Feeds(p, d, ls, e) ==
  \A evs \in Seq(Lines) : Decoder(p, evs, LiveThresholds) = d
                            => Decoder(p, evs \o ls, LiveThresholds) = e

\* Concatenation.
LEMMA Concats ==
  ASSUME NEW L, NEW s \in Seq(L)
  PROVE  /\ s \o <<>> = s
         /\ \A e \in L : s \o <<e>> = Append(s, e)
         /\ \A t \in Seq(L) : /\ s \o t \in Seq(L)
                             /\ \A u \in Seq(L) : s \o (t \o u) = (s \o t) \o u
OBVIOUS

\* No line changes nothing.
LEMMA FeedNone ==
  ASSUME NEW p, NEW d
  PROVE  Feeds(p, d, <<>>, d)
<1> SUFFICES ASSUME NEW evs \in Seq(Lines), Decoder(p, evs, LiveThresholds) = d
             PROVE  Decoder(p, evs \o <<>>, LiveThresholds) = d
  BY DEF Feeds
<1>1. evs \o <<>> = evs
  BY Concats
<1> QED BY <1>1

\* One line is one step.
LEMMA FeedOne ==
  ASSUME NEW p, NEW d, NEW ev \in Lines
  PROVE  Feeds(p, d, <<ev>>, Step(p, LiveThresholds, d, ev))
<1> SUFFICES ASSUME NEW evs \in Seq(Lines), Decoder(p, evs, LiveThresholds) = d
             PROVE  Decoder(p, evs \o <<ev>>, LiveThresholds) = Step(p, LiveThresholds, d, ev)
  BY DEF Feeds
<1>1. evs \o <<ev>> = Append(evs, ev)
  BY Concats
<1>2. Decoder(p, Append(evs, ev), LiveThresholds)
        = Step(p, LiveThresholds, Decoder(p, evs, LiveThresholds), ev)
  BY DecoderSteps
<1> QED BY <1>1, <1>2

\* Lines fed one after another.
LEMMA FeedJoin ==
  ASSUME NEW p, NEW d, NEW e, NEW f, NEW ls \in Seq(Lines), NEW ms \in Seq(Lines),
         Feeds(p, d, ls, e), Feeds(p, e, ms, f)
  PROVE  Feeds(p, d, ls \o ms, f)
<1> SUFFICES ASSUME NEW evs \in Seq(Lines), Decoder(p, evs, LiveThresholds) = d
             PROVE  Decoder(p, evs \o (ls \o ms), LiveThresholds) = f
  BY DEF Feeds
<1>1. evs \o (ls \o ms) = (evs \o ls) \o ms /\ evs \o ls \in Seq(Lines)
  BY Concats
<1>2. Decoder(p, evs \o ls, LiveThresholds) = e
  BY DEF Feeds
<1> QED BY <1>1, <1>2 DEF Feeds


-----------------------------------------------------------------------------
(* Type B keeps the fingers on the glass *)

FingersOf == [Slots -> Contacts \cup {Lifted}]

\* A slot has a finger or is lifted.
LEMMA FingerKinds ==
  ASSUME NEW fs \in FingersOf, NEW s \in Slots
  PROVE  /\ fs[s] # Lifted <=> fs[s] \in Contacts
         /\ fs[s] # Lifted => /\ fs[s].down \in Nat /\ fs[s].alone \in BOOLEAN
                              /\ fs[s].from \in Places /\ fs[s].at \in Places
                              /\ fs[s] = [down |-> fs[s].down, from |-> fs[s].from,
                                          at |-> fs[s].at, alone |-> fs[s].alone]
<1>2. Lifted \notin Contacts
  <2> SUFFICES ASSUME Lifted \in Contacts PROVE FALSE
    OBVIOUS
  <2>1. Lifted.down \in Nat
    BY DEF Contacts
  <2>2. Lifted.down = -1
    BY DEF Lifted
  <2> QED BY <2>1, <2>2
<1>3. fs[s] \in Contacts \cup {Lifted}
  BY DEF FingersOf
<1>4. fs[s] # Lifted <=> fs[s] \in Contacts
  BY <1>2, <1>3
<1> DEFINE f == fs[s]
<1> HIDE DEF f
<1>5. ASSUME f \in Contacts
      PROVE  /\ f.down \in Nat /\ f.alone \in BOOLEAN
             /\ f.from \in Places /\ f.at \in Places
             /\ f = [down |-> f.down, from |-> f.from, at |-> f.at, alone |-> f.alone]
  BY <1>5 DEF Contacts
<1> QED BY <1>4, <1>5 DEF f

OnGlass(fs) == {ContactOf(t, fs[t]) : t \in {u \in Slots : fs[u] # Lifted}}

SlotsFollow(d, fs, k) == d.slot = k /\ Entries(d.open) = OnGlass(fs)

\* Naming a slot moves the decoder to it and nothing else.
LEMMA TypeBSlots ==
  ASSUME NEW d, TypeBOK(d), NEW fs, NEW k, SlotsFollow(d, fs, k), NEW s \in Slots, NEW ts,
         NEW thr
  PROVE  LET e == TypeBStep(thr, d, [code |-> "SLOT", value |-> s, ts |-> ts])
         IN  TypeBOK(e) /\ SlotsFollow(e, fs, s) /\ e.out = d.out
<1> DEFINE e == TypeBStep(thr, d, [code |-> "SLOT", value |-> s, ts |-> ts])
<1>1. e = [d EXCEPT !.slot = s]
  BY DEF TypeBStep
<1>2. s \in Nat
  BY CaptureAssumption
<1> HIDE DEF e
<1>3. e \in TypeBStates /\ e.slot = s /\ e.open = d.open /\ e.out = d.out
  BY <1>1, <1>2 DEF TypeBOK, TypeBStates
<1>4. TypeBOK(e)
  BY <1>3 DEF TypeBOK
<1> QED BY <1>3, <1>4 DEF SlotsFollow, e

\* The fingers once the one in slot s has gone.
Freed(fs, s) == [fs EXCEPT ![s] = Lifted]

\* The contact of finger f in slot s was closed, and nothing else was told.
Shuts(d, e, s, f, ts, thr) == e.out = Append(d.out, Closed(ContactOf(s, f), ts, FALSE, thr))

\* The contact of a slot that closes is the finger in it.
LEMMA TypeBLifts ==
  ASSUME NEW d, TypeBOK(d), NEW fs \in FingersOf, NEW s \in Slots, SlotsFollow(d, fs, s),
         NEW ts \in Nat, NEW thr, fs[s] # Lifted
  PROVE  LET e == close_contact(d, ts, thr)
         IN  /\ TypeBOK(e) /\ SlotsFollow(e, Freed(fs, s), s)
             /\ Shuts(d, e, s, fs[s], ts, thr)
<1> DEFINE e == close_contact(d, ts, thr)
           gs == [fs EXCEPT ![s] = Lifted]
<1>0. gs = Freed(fs, s)
  BY DEF Freed
<1>1. HasClosed(d, e, ts, thr)
  BY CloseContact
<1> HIDE DEF e
<1>2. /\ TypeBOK(e) /\ e.slot = s
      /\ \A j \in 1..Len(e.open) : e.open[j].slot # s
      /\ Entries(e.open) = {c \in OnGlass(fs) : c.slot # s}
  BY <1>1 DEF HasClosed, SlotsFollow
<1>3. \A t : ContactOf(t, fs[t]).slot = t
  BY DEF ContactOf
<1>4. ContactOf(s, fs[s]) \in OnGlass(fs)
  BY DEF OnGlass
<1>5. \A c \in OnGlass(fs) : c.slot = s => c = ContactOf(s, fs[s])
  BY <1>3 DEF OnGlass
<1>6. e # d
  <2>1. PICK i \in 1..Len(d.open) : d.open[i] = ContactOf(s, fs[s])
    BY <1>4 DEF SlotsFollow, Entries
  <2> QED BY <2>1, <1>2, <1>3
<1>7. e.out = Append(d.out, Closed(ContactOf(s, fs[s]), ts, FALSE, thr))
  <2>1. PICK c \in Entries(d.open) :
            c.slot = d.slot /\ e.out = Append(d.out, Closed(c, ts, FALSE, thr))
    BY <1>1, <1>6 DEF HasClosed
  <2>2. c = ContactOf(s, fs[s])
    BY <2>1, <1>5 DEF SlotsFollow
  <2> QED BY <2>1, <2>2
<1>8. OnGlass(gs) = {c \in OnGlass(fs) : c.slot # s}
  <2>1. \A t \in Slots : gs[t] = IF t = s THEN Lifted ELSE fs[t]
    BY DEF FingersOf
  <2> HIDE DEF gs
  <2>2. ASSUME NEW c \in OnGlass(gs) PROVE c \in OnGlass(fs) /\ c.slot # s
    <3>1. PICK t \in Slots : gs[t] # Lifted /\ c = ContactOf(t, gs[t])
      BY DEF OnGlass
    <3>2. t # s /\ gs[t] = fs[t]
      BY <2>1, <3>1
    <3> QED BY <3>1, <3>2, <1>3 DEF OnGlass
  <2>3. ASSUME NEW c \in OnGlass(fs), c.slot # s PROVE c \in OnGlass(gs)
    <3>1. PICK t \in Slots : fs[t] # Lifted /\ c = ContactOf(t, fs[t])
      BY DEF OnGlass
    <3>2. t # s /\ gs[t] = fs[t]
      BY <2>1, <2>3, <3>1, <1>3
    <3> QED BY <3>1, <3>2 DEF OnGlass
  <2> QED BY <2>2, <2>3
<1> HIDE DEF gs
<1>9. SlotsFollow(e, gs, s)
  BY <1>2, <1>8 DEF SlotsFollow
<1> QED BY <1>0, <1>2, <1>7, <1>9 DEF e, Shuts

\* Nothing closes in a slot that has no finger.
LEMMA TypeBEmpty ==
  ASSUME NEW d, TypeBOK(d), NEW fs, NEW s \in Slots, SlotsFollow(d, fs, s),
         NEW ts \in Nat, NEW thr, fs[s] = Lifted
  PROVE  /\ close_contact(d, ts, thr) = d
         /\ \A i \in 1..Len(d.open) : d.open[i].slot # d.slot
<1>1. HasClosed(d, close_contact(d, ts, thr), ts, thr)
  BY CloseContact
<1>2. \A c \in Entries(d.open) : c.slot # d.slot
  BY DEF SlotsFollow, OnGlass, ContactOf
<1> QED BY <1>1, <1>2 DEF HasClosed, Entries


\* The opposite of a Boolean is one.
LEMMA Negated ==
  ASSUME NEW b \in BOOLEAN
  PROVE  \E m \in BOOLEAN : m = (~b) /\ b = (~m)
<1>1. CASE b = TRUE
  <2>1. FALSE = (~b)
    BY <1>1
  <2> QED BY <1>1, <2>1
<1>2. CASE b = FALSE
  <2>1. TRUE = (~b)
    BY <1>2
  <2> QED BY <1>2, <2>1
<1> QED BY <1>1, <1>2

\* The fingers once one has come down in a slot.
Landed(fs, s, ts, q) ==
  [t \in Slots |-> IF t = s THEN [down |-> ts, from |-> q, at |-> q,
                                 alone |-> {u \in Slots \ {s} : fs[u] # Lifted} = {}]
                   ELSE IF fs[t] # Lifted THEN [fs[t] EXCEPT !.alone = FALSE] ELSE Lifted]

\* Fingers after one more has landed are fingers.
LEMMA LandedTyped ==
  ASSUME NEW fs \in FingersOf, NEW s \in Slots, NEW ts \in Nat, NEW q \in Places
  PROVE  Landed(fs, s, ts, q) \in FingersOf
<1> DEFINE alone == {u \in Slots \ {s} : fs[u] # Lifted} = {}
<1>1. alone \in BOOLEAN
  OBVIOUS
<1> HIDE DEF alone
<1>2. [down |-> ts, from |-> q, at |-> q, alone |-> alone] \in Contacts
  BY <1>1 DEF Contacts
<1>3. ASSUME NEW t \in Slots, fs[t] # Lifted
      PROVE  [fs[t] EXCEPT !.alone = FALSE] \in Contacts
  <2>1. fs[t] \in Contacts
    BY <1>3, FingerKinds
  <2> QED BY <2>1 DEF Contacts
<1> QED BY <1>2, <1>3 DEF Landed, FingersOf, alone

\* A finger that is no longer alone is a shared contact.
LEMMA SharedContact ==
  ASSUME NEW t \in Slots, NEW f \in Contacts
  PROVE  Shared(ContactOf(t, f)) = ContactOf(t, [f EXCEPT !.alone = FALSE])
<1> DEFINE g == [f EXCEPT !.alone = FALSE]
<1>1. f = [down |-> f.down, from |-> f.from, at |-> f.at, alone |-> f.alone]
  BY DEF Contacts
<1>2. g.down = f.down /\ g.from = f.from /\ g.at = f.at /\ g.alone = FALSE
  BY <1>1
<1> HIDE DEF g
<1>3. PICK m \in BOOLEAN : m = (~f.alone)
  BY Negated DEF Contacts
<1> DEFINE c == ContactOf(t, f)
           sx == f.from[1] * PanelX
           sy == f.from[2] * PanelY
           lx == f.at[1] * PanelX
           ly == f.at[2] * PanelY
<1>4. c = [slot |-> t, down |-> f.down, multi |-> m, sx |-> sx, sy |-> sy, lx |-> lx, ly |-> ly]
  BY <1>3 DEF ContactOf
<1>5. ContactOf(t, g) = [slot |-> t, down |-> f.down, multi |-> TRUE,
                         sx |-> sx, sy |-> sy, lx |-> lx, ly |-> ly]
  BY <1>2 DEF ContactOf
<1> HIDE DEF c, sx, sy, lx, ly
<1> DEFINE e == Shared(c)
<1>6. e = [c EXCEPT !.multi = TRUE]
  BY DEF Shared
<1> HIDE DEF e
<1>7. e = [slot |-> t, down |-> f.down, multi |-> TRUE, sx |-> sx, sy |-> sy, lx |-> lx, ly |-> ly]
  BY <1>4, <1>6
<1> QED BY <1>5, <1>7 DEF c, g, e

\* A contact that has just opened, once both its coordinates are read.
LEMMA FirstPosition ==
  ASSUME NEW c, NEW s, NEW ts, NEW multi \in BOOLEAN, NEW q \in Places, NEW alone,
         c = [slot |-> s, down |-> ts, multi |-> multi,
              sx |-> Unseen, sy |-> Unseen, lx |-> Unseen, ly |-> Unseen],
         alone = ~multi
  PROVE  LET e == SeenAt(c, "X", q[1] * PanelX)
         IN  e.slot = s /\ SeenAt(e, "Y", q[2] * PanelY)
               = ContactOf(s, [down |-> ts, from |-> q, at |-> q, alone |-> alone])
<1> DEFINE x == q[1] * PanelX
           y == q[2] * PanelY
           e == SeenAt(c, "X", x)
<1>1. x \in Nat /\ y \in Nat
  BY Panels
<1> HIDE DEF x, y
<1>2. e = [slot |-> s, down |-> ts, multi |-> multi,
           sx |-> x, sy |-> Unseen, lx |-> x, ly |-> Unseen]
  BY DEF SeenAt, First
<1> HIDE DEF e
<1>3. SeenAt(e, "Y", y) = [slot |-> s, down |-> ts, multi |-> multi,
                           sx |-> x, sy |-> y, lx |-> x, ly |-> y]
  BY <1>2 DEF SeenAt, First
<1> DEFINE f == [down |-> ts, from |-> q, at |-> q, alone |-> alone]
<1>4. (~alone) = multi
  OBVIOUS
<1>5. ContactOf(s, f) = [slot |-> s, down |-> ts, multi |-> ~alone,
                         sx |-> x, sy |-> y, lx |-> x, ly |-> y]
  BY DEF ContactOf, x, y
<1>6. SeenAt(e, "Y", y) = ContactOf(s, f)
  BY <1>3, <1>4, <1>5
<1> QED BY <1>2, <1>6 DEF x, y, e

\* A finger comes down in a slot that has none.
LEMMA TypeBLands ==
  ASSUME NEW d, TypeBOK(d), NEW fs \in FingersOf, NEW s \in Slots, SlotsFollow(d, fs, s),
         NEW ts \in Nat, NEW q \in Places, fs[s] = Lifted
  PROVE  LET d1 == open_contact(d, ts)
             d2 == Positioned(d1, "X", q[1] * PanelX)
             d3 == Positioned(d2, "Y", q[2] * PanelY)
         IN  /\ TypeBOK(d1) /\ TypeBOK(d2) /\ TypeBOK(d3)
             /\ d3.out = d.out /\ SlotsFollow(d3, Landed(fs, s, ts, q), s)
<1> DEFINE d1 == open_contact(d, ts)
           d2 == Positioned(d1, "X", q[1] * PanelX)
           d3 == Positioned(d2, "Y", q[2] * PanelY)
           x == q[1] * PanelX
           y == q[2] * PanelY
           gs == Landed(fs, s, ts, q)
           alone == {u \in Slots \ {s} : fs[u] # Lifted} = {}
           new == NewContact(s, ts)
           f == [down |-> ts, from |-> q, at |-> q, alone |-> alone]
           Sh(c) == IF alone THEN c ELSE Shared(c)
<1>1. x \in Nat /\ y \in Nat
  BY Panels
<1>2. HasOpened(d, d1, ts)
  BY TypeBEmpty, OpenContact
<1> HIDE DEF d1
<1>3. TypeBOK(d1) /\ d1.slot = s /\ d1.out = d.out
  BY <1>2 DEF HasOpened, SlotsFollow
<1>4. HasPositioned(d1, d2, "X", x)
  BY <1>1, <1>3, PositionedContact
<1> HIDE DEF d2
<1>5. TypeBOK(d2) /\ d2.slot = s /\ d2.out = d.out
  BY <1>3, <1>4 DEF HasPositioned
<1>6. HasPositioned(d2, d3, "Y", y)
  BY <1>1, <1>5, PositionedContact
<1> HIDE DEF d3
<1>7. TypeBOK(d3) /\ d3.slot = s /\ d3.out = d.out
  BY <1>5, <1>6 DEF HasPositioned
<1>8. \A t \in Slots : gs[t] = IF t = s THEN f
                              ELSE IF fs[t] # Lifted THEN [fs[t] EXCEPT !.alone = FALSE] ELSE Lifted
  BY DEF Landed
<1>9. alone <=> OnGlass(fs) = {}
  BY DEF OnGlass
<1>10. Entries(d1.open) = {Sh(c) : c \in OnGlass(fs) \cup {new}}
  <2>1. CASE alone
    <3>1. Entries(d1.open) = {new}
      BY <1>2, <1>9, <2>1 DEF HasOpened, SlotsFollow
    <3> QED BY <3>1, <1>9, <2>1
  <2>2. CASE ~alone
    <3>1. Entries(d1.open) = {Shared(c) : c \in OnGlass(fs) \cup {new}}
      BY <1>2, <1>9, <2>2 DEF HasOpened, SlotsFollow
    <3> QED BY <3>1, <2>2
  <2> QED BY <2>1, <2>2
<1>11. Entries(d2.open) = {IF c.slot = s THEN SeenAt(c, "X", x) ELSE c : c \in Entries(d1.open)}
  BY <1>3, <1>4 DEF HasPositioned
<1>12. Entries(d3.open) = {IF c.slot = s THEN SeenAt(c, "Y", y) ELSE c : c \in Entries(d2.open)}
  BY <1>5, <1>6 DEF HasPositioned
<1>13. \* The contact that has opened.
       /\ Sh(new).slot = s /\ SeenAt(Sh(new), "X", x).slot = s
       /\ SeenAt(SeenAt(Sh(new), "X", x), "Y", y) = ContactOf(s, f)
  <2>2. alone \in BOOLEAN
    OBVIOUS
  <2>4. PICK multi \in BOOLEAN : multi = (~alone) /\ alone = (~multi)
    BY <2>2, Negated
  <2> HIDE DEF alone
  <2>1. Sh(new) = [slot |-> s, down |-> ts, multi |-> multi,
                   sx |-> Unseen, sy |-> Unseen, lx |-> Unseen, ly |-> Unseen]
    <3>1. CASE alone
      <4>1. multi = FALSE
        BY <2>4, <3>1
      <4> QED BY <3>1, <4>1 DEF NewContact
    <3>2. CASE ~alone
      <4>1. multi = TRUE
        BY <2>4, <3>2
      <4> QED BY <3>2, <4>1 DEF NewContact, Shared
    <3> QED BY <3>1, <3>2
  <2> DEFINE c == Sh(new)
  <2> HIDE DEF c, alone
  <2>5. c = [slot |-> s, down |-> ts, multi |-> multi,
             sx |-> Unseen, sy |-> Unseen, lx |-> Unseen, ly |-> Unseen]
    BY <2>1 DEF c
  <2>6. alone = (~multi)
    BY <2>4
  <2>3. /\ SeenAt(c, "X", x).slot = s
        /\ SeenAt(SeenAt(c, "X", x), "Y", y) = ContactOf(s, f)
    <3> HIDE DEF Sh, new
    <3> QED BY <1>1, <2>5, <2>6, FirstPosition
  <2> QED BY <2>1, <2>3 DEF c
<1>14. ASSUME NEW t \in Slots, fs[t] # Lifted
       PROVE  /\ t # s /\ gs[t] # Lifted /\ Sh(ContactOf(t, fs[t])) = ContactOf(t, gs[t])
              /\ ContactOf(t, gs[t]).slot = t
  <2>1. t # s /\ ~alone
    BY <1>14
  <2>2. gs[t] = [fs[t] EXCEPT !.alone = FALSE]
    BY <1>8, <1>14, <2>1
  <2>3. gs \in FingersOf /\ fs[t] \in Contacts
    BY <1>14, LandedTyped, FingerKinds
  <2>4. gs[t].down = fs[t].down /\ gs[t].down \in Nat
    BY <2>2, <2>3 DEF Contacts
  <2>5. gs[t] # Lifted
    BY <2>4 DEF Lifted
  <2>6. Shared(ContactOf(t, fs[t])) = ContactOf(t, gs[t])
    BY <2>2, <2>3, SharedContact
  <2> QED BY <2>1, <2>5, <2>6 DEF ContactOf
<1>15. gs[s] = f /\ f # Lifted
  <2>1. f.down \in Nat
    OBVIOUS
  <2>2. f # Lifted
    BY <2>1 DEF Lifted
  <2> QED BY <2>2, <1>8
<1>16. ASSUME NEW t \in Slots, t # s, gs[t] # Lifted
       PROVE  fs[t] # Lifted
  BY <1>8, <1>16
<1> HIDE DEF Sh, new, f, gs, x, y, alone
<1>17. OnGlass(gs) \subseteq Entries(d3.open)
  <2> SUFFICES ASSUME NEW t \in Slots, gs[t] # Lifted
               PROVE  ContactOf(t, gs[t]) \in Entries(d3.open)
    BY DEF OnGlass
  <2>1. CASE t = s
    <3>1. Sh(new) \in Entries(d1.open)
      BY <1>10
    <3>2. SeenAt(Sh(new), "X", x) \in Entries(d2.open)
      BY <3>1, <1>11, <1>13
    <3>3. SeenAt(SeenAt(Sh(new), "X", x), "Y", y) \in Entries(d3.open)
      BY <3>2, <1>12, <1>13
    <3> QED BY <3>3, <2>1, <1>13, <1>15
  <2>2. CASE t # s
    <3>1. fs[t] # Lifted
      BY <2>2, <1>16
    <3>2. ContactOf(t, gs[t]) \in Entries(d1.open) /\ ContactOf(t, gs[t]).slot # s
      BY <1>10, <1>14, <2>2, <3>1 DEF OnGlass
    <3>3. ContactOf(t, gs[t]) \in Entries(d2.open)
      BY <3>2, <1>11
    <3> QED BY <3>2, <3>3, <1>12
  <2> QED BY <2>1, <2>2
<1>18. Entries(d3.open) \subseteq OnGlass(gs)
  <2> SUFFICES ASSUME NEW c3 \in Entries(d3.open) PROVE c3 \in OnGlass(gs)
    OBVIOUS
  <2>1. PICK c2 \in Entries(d2.open) : c3 = IF c2.slot = s THEN SeenAt(c2, "Y", y) ELSE c2
    BY <1>12
  <2>2. PICK c1 \in Entries(d1.open) : c2 = IF c1.slot = s THEN SeenAt(c1, "X", x) ELSE c1
    BY <1>11
  <2>3. PICK c \in OnGlass(fs) \cup {new} : c1 = Sh(c)
    BY <1>10
  <2>4. CASE c = new
    <3>1. c3 = ContactOf(s, f)
      BY <2>1, <2>2, <2>3, <2>4, <1>13
    <3> QED BY <3>1, <1>15 DEF OnGlass
  <2>5. CASE c \in OnGlass(fs)
    <3>1. PICK t \in Slots : fs[t] # Lifted /\ c = ContactOf(t, fs[t])
      BY <2>5 DEF OnGlass
    <3>2. c1 = ContactOf(t, gs[t]) /\ c1.slot # s
      BY <2>3, <3>1, <1>14
    <3>3. c3 = ContactOf(t, gs[t]) /\ gs[t] # Lifted
      BY <2>1, <2>2, <3>1, <3>2, <1>14
    <3> QED BY <3>3 DEF OnGlass
  <2> QED BY <2>3, <2>4, <2>5
<1>19. Entries(d3.open) = OnGlass(gs)
  BY <1>17, <1>18
<1>20. SlotsFollow(d3, gs, s)
  BY <1>7, <1>19 DEF SlotsFollow
<1> QED BY <1>3, <1>5, <1>7, <1>20 DEF d1, d2, d3, gs


\* The fingers once one has moved.
Shifted(fs, s, q) == [fs EXCEPT ![s] = [@ EXCEPT !.at = q]]

\* A finger that moves is elsewhere and is otherwise what it was.
LEMMA ShiftedFinger ==
  ASSUME NEW fs \in FingersOf, NEW s \in Slots, NEW q \in Places, fs[s] # Lifted
  PROVE  /\ Shifted(fs, s, q) \in FingersOf
         /\ Shifted(fs, s, q)[s] = [down |-> fs[s].down, from |-> fs[s].from,
                                    at |-> q, alone |-> fs[s].alone]
         /\ Shifted(fs, s, q)[s] # Lifted
         /\ \A t \in Slots : t # s => Shifted(fs, s, q)[t] = fs[t]
<1> DEFINE gs == Shifted(fs, s, q)
           f == fs[s]
           g == [f EXCEPT !.at = q]
<1>1. gs = [fs EXCEPT ![s] = g]
  BY DEF Shifted
<1>2. gs[s] = g /\ \A t \in Slots : t # s => gs[t] = fs[t]
  BY <1>1 DEF FingersOf
<1>3. f \in Contacts
  BY FingerKinds
<1>4. f = [down |-> f.down, from |-> f.from, at |-> f.at, alone |-> f.alone] /\ f.down \in Nat
  BY FingerKinds
<1> HIDE DEF f
<1>5. g = [down |-> f.down, from |-> f.from, at |-> q, alone |-> f.alone]
  BY <1>4
<1>6. g \in Contacts
  BY <1>3, <1>5 DEF Contacts
<1> HIDE DEF g
<1>7. gs \in FingersOf
  BY <1>1, <1>6 DEF FingersOf
<1>8. g # Lifted
  <2>1. g.down \in Nat
    BY <1>4, <1>5
  <2> QED BY <2>1 DEF Lifted
<1> QED BY <1>2, <1>5, <1>7, <1>8 DEF gs, f

\* A coordinate read of a finger that had both.
LEMMA NextPosition ==
  ASSUME NEW s, NEW f, NEW q \in Places, f.from \in Places, f.at \in Places, NEW axis \in {"X", "Y"},
         axis = "X" => q[2] = f.at[2], axis = "Y" => q[1] = f.at[1]
  PROVE  SeenAt(ContactOf(s, f), axis, IF axis = "X" THEN q[1] * PanelX ELSE q[2] * PanelY)
           = ContactOf(s, [down |-> f.down, from |-> f.from, at |-> q, alone |-> f.alone])
<1> DEFINE c == ContactOf(s, f)
           m == ~f.alone
           sx == f.from[1] * PanelX
           sy == f.from[2] * PanelY
           lx == f.at[1] * PanelX
           ly == f.at[2] * PanelY
           x == q[1] * PanelX
           y == q[2] * PanelY
           h == [down |-> f.down, from |-> f.from, at |-> q, alone |-> f.alone]
           k == f.down
<1>1. sx \in Nat /\ sy \in Nat /\ x \in Nat /\ y \in Nat
  BY Panels
<1>2. axis = "X" => y = ly
  OBVIOUS
<1>3. axis = "Y" => x = lx
  OBVIOUS
<1>4. c = [slot |-> s, down |-> k, multi |-> m, sx |-> sx, sy |-> sy, lx |-> lx, ly |-> ly]
  BY DEF ContactOf
<1>5. ContactOf(s, h) = [slot |-> s, down |-> k, multi |-> m, sx |-> sx, sy |-> sy, lx |-> x, ly |-> y]
  BY DEF ContactOf
<1> DEFINE e == SeenAt(c, axis, IF axis = "X" THEN x ELSE y)
<1> HIDE DEF c, m, sx, sy, lx, ly, x, y, h, k
<1>6. First(sx, x) = sx /\ First(sy, y) = sy
  BY <1>1 DEF First, Unseen
<1>7. CASE axis = "X"
  <2>1. e = [c EXCEPT !.sx = First(@, x), !.lx = x]
    BY <1>7 DEF SeenAt
  <2> HIDE DEF e
  <2>2. e = [slot |-> s, down |-> k, multi |-> m, sx |-> First(sx, x), sy |-> sy, lx |-> x, ly |-> ly]
    BY <2>1, <1>4
  <2>3. e = ContactOf(s, h)
    BY <2>2, <1>2, <1>5, <1>6, <1>7
  <2> QED BY <2>3 DEF e, c, h, x, y
<1>8. CASE axis = "Y"
  <2>1. e = [c EXCEPT !.sy = First(@, y), !.ly = y]
    BY <1>8 DEF SeenAt
  <2> HIDE DEF e
  <2>2. e = [slot |-> s, down |-> k, multi |-> m, sx |-> sx, sy |-> First(sy, y), lx |-> lx, ly |-> y]
    BY <2>1, <1>4
  <2>3. e = ContactOf(s, h)
    BY <2>2, <1>3, <1>5, <1>6, <1>8
  <2> QED BY <2>3 DEF e, c, h, x, y
<1> QED BY <1>7, <1>8

\* A finger moves along an axis.
LEMMA TypeBMoves ==
  ASSUME NEW d, TypeBOK(d), NEW fs \in FingersOf, NEW s \in Slots, SlotsFollow(d, fs, s),
         fs[s] # Lifted, NEW q \in Places, NEW axis \in {"X", "Y"},
         axis = "X" => q[2] = fs[s].at[2], axis = "Y" => q[1] = fs[s].at[1]
  PROVE  LET e == Positioned(d, axis, IF axis = "X" THEN q[1] * PanelX ELSE q[2] * PanelY)
         IN  TypeBOK(e) /\ e.out = d.out /\ SlotsFollow(e, Shifted(fs, s, q), s)
<1> DEFINE v == IF axis = "X" THEN q[1] * PanelX ELSE q[2] * PanelY
           e == Positioned(d, axis, v)
           gs == Shifted(fs, s, q)
           c == ContactOf(s, fs[s])
<1>1. v \in Nat
  BY Panels
<1> HIDE DEF v
<1>2. HasPositioned(d, e, axis, v)
  BY <1>1, PositionedContact
<1> HIDE DEF e
<1>3. TypeBOK(e) /\ e.slot = s /\ e.out = d.out
  BY <1>2 DEF HasPositioned, SlotsFollow
<1>4. Entries(e.open) = {IF b.slot = s THEN SeenAt(b, axis, v) ELSE b : b \in OnGlass(fs)}
  BY <1>2 DEF HasPositioned, SlotsFollow
<1>5. \A t \in Slots : t # s => gs[t] = fs[t]
  BY ShiftedFinger
<1>6. gs[s] # Lifted
  BY ShiftedFinger
<1>7. SeenAt(c, axis, v) = ContactOf(s, gs[s])
  <2> DEFINE f == fs[s]
  <2>1. f.from \in Places /\ f.at \in Places
    BY FingerKinds
  <2>2. gs[s] = [down |-> f.down, from |-> f.from, at |-> q, alone |-> f.alone]
    BY ShiftedFinger
  <2> HIDE DEF f, gs
  <2>3. SeenAt(ContactOf(s, f), axis, v)
          = ContactOf(s, [down |-> f.down, from |-> f.from, at |-> q, alone |-> f.alone])
    BY <2>1, NextPosition DEF f, v
  <2> QED BY <2>2, <2>3 DEF f
<1>8. \A t : ContactOf(t, fs[t]).slot = t
  BY DEF ContactOf
<1> HIDE DEF c, gs
<1>9. OnGlass(gs) \subseteq Entries(e.open)
  <2> SUFFICES ASSUME NEW t \in Slots, gs[t] # Lifted
               PROVE  ContactOf(t, gs[t]) \in Entries(e.open)
    BY DEF OnGlass
  <2>1. CASE t = s
    <3>1. c \in OnGlass(fs) /\ c.slot = s
      BY <1>8 DEF OnGlass, c
    <3> QED BY <3>1, <2>1, <1>4, <1>7
  <2>2. CASE t # s
    <3>1. gs[t] = fs[t]
      BY <2>2, <1>5
    <3>2. ContactOf(t, gs[t]) \in OnGlass(fs) /\ ContactOf(t, gs[t]).slot # s
      BY <3>1, <2>2, <1>8 DEF OnGlass
    <3> QED BY <3>2, <1>4
  <2> QED BY <2>1, <2>2
<1>10. Entries(e.open) \subseteq OnGlass(gs)
  <2> SUFFICES ASSUME NEW b \in OnGlass(fs)
               PROVE  (IF b.slot = s THEN SeenAt(b, axis, v) ELSE b) \in OnGlass(gs)
    BY <1>4
  <2>1. PICK t \in Slots : fs[t] # Lifted /\ b = ContactOf(t, fs[t])
    BY DEF OnGlass
  <2>2. b.slot = t
    BY <2>1, <1>8
  <2>3. CASE t = s
    <3>1. SeenAt(b, axis, v) = ContactOf(s, gs[s])
      BY <2>1, <2>3, <1>7 DEF c
    <3>2. ContactOf(s, gs[s]) \in OnGlass(gs)
      BY <1>6 DEF OnGlass
    <3> QED BY <2>2, <2>3, <3>1, <3>2
  <2>4. CASE t # s
    <3>1. gs[t] = fs[t]
      BY <2>4, <1>5
    <3>2. b \in OnGlass(gs)
      BY <2>1, <3>1 DEF OnGlass
    <3> QED BY <3>2, <2>2, <2>4
  <2> QED BY <2>3, <2>4
<1>11. SlotsFollow(e, gs, s)
  BY <1>3, <1>9, <1>10 DEF SlotsFollow
<1> QED BY <1>3, <1>11 DEF e, gs, v


-----------------------------------------------------------------------------
(* What a decoder becomes when it is fed what the kernel prints *)

Reaches(p, d, ls, e) == ls \in Seq(Lines) /\ Feeds(p, d, ls, e) /\ DecoderOK(p, e)

\* No line changes nothing.
LEMMA ReachNone ==
  ASSUME NEW p, NEW d, DecoderOK(p, d)
  PROVE  Reaches(p, d, <<>>, d)
<1>1. <<>> \in Seq(Lines)
  OBVIOUS
<1> QED BY <1>1, FeedNone DEF Reaches

\* One line is one step.
LEMMA ReachOne ==
  ASSUME NEW p, NEW d, DecoderOK(p, d), NEW ev \in Lines
  PROVE  Reaches(p, d, <<ev>>, Step(p, LiveThresholds, d, ev))
<1>1. <<ev>> \in Seq(Lines)
  OBVIOUS
<1>2. DecoderOK(p, Step(p, LiveThresholds, d, ev))
  BY StepOK
<1> QED BY <1>1, <1>2, FeedOne DEF Reaches

\* Lines fed one after another.
LEMMA ReachJoin ==
  ASSUME NEW p, NEW d, NEW e, NEW f, NEW ls, NEW ms, Reaches(p, d, ls, e), Reaches(p, e, ms, f)
  PROVE  Reaches(p, d, ls \o ms, f)
<1>1. ls \o ms \in Seq(Lines)
  BY Concats DEF Reaches
<1> QED BY <1>1, FeedJoin DEF Reaches

\* The lines the kernel prints are lines.
LEMMA LinesTyped ==
  ASSUME now \in Nat
  PROVE  /\ \A code \in {"SLOT", "X", "Y"}, v \in Nat : Line(code, v) \in Lines
         /\ \A v \in {"id", "lift"} : Line("TRACKING_ID", v) \in Lines
         /\ \A v \in {"DOWN", "UP"} : Line("BTN_TOUCH", v) \in Lines
<1>1. ASSUME NEW code \in {"SLOT", "X", "Y"}, NEW v \in Nat PROVE Line(code, v) \in Lines
  BY DEF Line, Lines
<1>2. ASSUME NEW v \in {"id", "lift"} PROVE Line("TRACKING_ID", v) \in Lines
  BY DEF Line, Lines
<1>3. ASSUME NEW v \in {"DOWN", "UP"} PROVE Line("BTN_TOUCH", v) \in Lines
  BY DEF Line, Lines
<1> QED BY <1>1, <1>2, <1>3

\* Two coordinates, one after the other.
LEMMA ReachAt ==
  ASSUME NEW p, NEW d, DecoderOK(p, d), now \in Nat, NEW q \in Places
  PROVE  LET x == Line("X", q[1] * PanelX)
             y == Line("Y", q[2] * PanelY)
             e == Step(p, LiveThresholds, d, x)
         IN  /\ x \in Lines /\ y \in Lines /\ DecoderOK(p, e)
             /\ Reaches(p, d, At(q), Step(p, LiveThresholds, e, y))
<1> DEFINE x == Line("X", q[1] * PanelX)
           y == Line("Y", q[2] * PanelY)
           e == Step(p, LiveThresholds, d, x)
<1>1. x \in Lines /\ y \in Lines
  BY LinesTyped, Panels
<1>2. At(q) = <<x>> \o <<y>>
  BY DEF At
<1> HIDE DEF x, y
<1>3. Reaches(p, d, <<x>>, e)
  BY <1>1, ReachOne
<1> HIDE DEF e
<1>4. DecoderOK(p, e)
  BY <1>3 DEF Reaches
<1>5. Reaches(p, e, <<y>>, Step(p, LiveThresholds, e, y))
  BY <1>1, <1>4, ReachOne
<1>6. Reaches(p, d, At(q), Step(p, LiveThresholds, e, y))
  BY <1>2, <1>3, <1>5, ReachJoin
<1> QED BY <1>1, <1>4, <1>6 DEF x, y, e

-----------------------------------------------------------------------------
(* Type B, action by action *)

\* Slotted: the decoder is at the kernel's slot.
LEMMA TypeBTurns ==
  ASSUME NEW d, TypeBOK(d), now \in Nat, SlotsFollow(d, fingers, kslot), NEW s \in Slots
  PROVE  \E e : /\ Reaches("type_b", d, Slotted(s), e) /\ TypeBOK(e)
                /\ SlotsFollow(e, fingers, s) /\ e.out = d.out
<1>1. DecoderOK("type_b", d)
  BY DEF DecoderOK
<1>2. CASE s = kslot
  <2>1. Slotted(s) = <<>>
    BY <1>2 DEF Slotted
  <2> QED BY <1>1, <1>2, <2>1, ReachNone
<1>3. CASE s # kslot
  <2> DEFINE ev == Line("SLOT", s)
             e == TypeBStep(LiveThresholds, d, ev)
  <2>1. Slotted(s) = <<ev>>
    BY <1>3 DEF Slotted
  <2>2. ev \in Lines
    BY LinesTyped, CaptureAssumption
  <2>3. ev = [code |-> "SLOT", value |-> s, ts |-> now]
    BY DEF Line
  <2>4. TypeBOK(e) /\ SlotsFollow(e, fingers, s) /\ e.out = d.out
    BY <2>3, TypeBSlots
  <2> HIDE DEF ev
  <2>5. Reaches("type_b", d, <<ev>>, Step("type_b", LiveThresholds, d, ev))
    BY <1>1, <2>2, ReachOne
  <2>6. Step("type_b", LiveThresholds, d, ev) = e
    BY DEF Step
  <2> HIDE DEF e
  <2> QED BY <2>1, <2>4, <2>5, <2>6
<1> QED BY <1>2, <1>3

\* The finger in the slot, if there is one, is replaced or lifted.
LEMMA TypeBTracks ==
  ASSUME NEW d, TypeBOK(d), now \in Nat, NEW v \in {"id", "lift"}
  PROVE  LET c == close_contact(d, now, LiveThresholds)
             e == IF v = "lift" THEN c ELSE open_contact(c, now)
         IN  Reaches("type_b", d, <<Line("TRACKING_ID", v)>>, e) /\ TypeBOK(e)
<1> DEFINE ev == Line("TRACKING_ID", v)
           c == close_contact(d, now, LiveThresholds)
           e == IF v = "lift" THEN c ELSE open_contact(c, now)
<1>1. DecoderOK("type_b", d) /\ ev \in Lines
  BY LinesTyped DEF DecoderOK
<1>2. ev.code = "TRACKING_ID" /\ ev.value = v /\ ev.ts = now
  BY DEF Line
<1> HIDE DEF ev
<1>3. TypeBStep(LiveThresholds, d, ev) = e
  BY <1>2 DEF TypeBStep
<1>4. Step("type_b", LiveThresholds, d, ev) = e
  BY <1>3 DEF Step
<1>5. Reaches("type_b", d, <<ev>>, Step("type_b", LiveThresholds, d, ev))
  BY <1>1, ReachOne
<1> HIDE DEF e
<1>6. Reaches("type_b", d, <<ev>>, e) /\ TypeBOK(e)
  BY <1>4, <1>5 DEF Reaches, DecoderOK
<1> QED BY <1>6 DEF ev, e

\* At: both coordinates, one after the other.
LEMMA TypeBAt ==
  ASSUME NEW d, TypeBOK(d), now \in Nat, NEW q \in Places
  PROVE  LET e == Positioned(d, "X", q[1] * PanelX)
         IN  Reaches("type_b", d, At(q), Positioned(e, "Y", q[2] * PanelY))
<1> DEFINE x == Line("X", q[1] * PanelX)
           y == Line("Y", q[2] * PanelY)
           e == Positioned(d, "X", q[1] * PanelX)
           f == Positioned(e, "Y", q[2] * PanelY)
<1>1. DecoderOK("type_b", d)
  BY DEF DecoderOK
<1>2. x.code = "X" /\ x.value = q[1] * PanelX /\ y.code = "Y" /\ y.value = q[2] * PanelY
  BY DEF Line
<1>3. Reaches("type_b", d, At(q),
              Step("type_b", LiveThresholds, Step("type_b", LiveThresholds, d, x), y))
  BY <1>1, ReachAt
<1> HIDE DEF x, y
<1>4. Step("type_b", LiveThresholds, d, x) = e
  BY <1>2 DEF Step, TypeBStep
<1> HIDE DEF e
<1>5. Step("type_b", LiveThresholds, e, y) = f
  BY <1>2 DEF Step, TypeBStep
<1> QED BY <1>3, <1>4, <1>5 DEF e


\* A gesture closes: it counts exactly when its finger was alone.
Tells(d, e, f, ts) ==
  Complete(e.out) = IF f.alone THEN Append(Complete(d.out), Gestured(Ended(f, ts)))
                    ELSE Complete(d.out)

\* A gesture is what Tells wants: exact of a finger alone, multi otherwise.
LEMMA GestureTells ==
  ASSUME NEW d, d.out \in Seq(Gestures), NEW e, NEW f, NEW ts, NEW g \in Gestures,
         e.out = Append(d.out, g), ~g.truncated,
         f.alone => g = Gestured(Ended(f, ts)) /\ Single(g), ~f.alone => ~Single(g)
  PROVE  Tells(d, e, f, ts)
<1> DEFINE o == d.out
<1>1. o \in Seq(Gestures)
  OBVIOUS
<1> HIDE DEF o
<1>2. Complete(Append(o, g)) = Picked(Complete(o), g)
  BY <1>1, CompleteSteps
<1>3. Complete(e.out) = Picked(Complete(d.out), g)
  BY <1>2 DEF o
<1> QED BY <1>3 DEF Tells, Picked, Counts

\* The contact of a finger, closed, tells what the finger did.
LEMMA ClosedTells ==
  ASSUME NEW d, TypeBOK(d), NEW e, NEW s \in Slots, NEW f \in Contacts, NEW ts \in Nat,
         Shuts(d, e, s, f, ts, LiveThresholds)
  PROVE  Tells(d, e, f, ts)
<1> DEFINE c == ContactOf(s, f)
           g == Closed(c, ts, FALSE, LiveThresholds)
<1>1. /\ f.from \in Places /\ f.at \in Places /\ f.down \in Nat /\ f.alone \in BOOLEAN
  BY DEF Contacts
<1>2. /\ c.down = f.down /\ c.multi = (~f.alone)
      /\ c.sx = f.from[1] * PanelX /\ c.sy = f.from[2] * PanelY
      /\ c.lx = f.at[1] * PanelX /\ c.ly = f.at[2] * PanelY
  BY DEF ContactOf
<1> HIDE DEF c
<1>3. IsContact(c)
  <2>1. c.multi \in BOOLEAN
    <3>1. PICK m \in BOOLEAN : m = (~f.alone)
      BY <1>1, Negated
    <3> QED BY <1>2, <3>1
  <2>2. c.sx \in Nat /\ c.sy \in Nat /\ c.lx \in Nat /\ c.ly \in Nat
    BY <1>1, <1>2, Panels
  <2> QED BY <1>1, <1>2, <2>1, <2>2 DEF IsContact, Coord
<1>4. g \in Gestures /\ g.truncated = FALSE /\ (Single(g) <=> ~c.multi)
  <2>1. FALSE \in BOOLEAN
    OBVIOUS
  <2> QED BY <1>3, <2>1, ClosedGesture
<1>5. f.alone => g = Gestured(Ended(f, ts))
  BY <1>1, <1>2, AloneGesture
<1>6. d.out \in Seq(Gestures) /\ e.out = Append(d.out, g)
  BY DEF TypeBOK, TypeBStates, Shuts, c
<1> HIDE DEF g
<1>7. (f.alone => Single(g)) /\ (~f.alone => ~Single(g))
  BY <1>2, <1>4
<1> QED BY <1>4, <1>5, <1>6, <1>7, GestureTells

\* Fingers that share the glass are none of them alone.
OneAlone(fs) == \A s, t \in Slots : fs[s] # Lifted /\ fs[t] # Lifted /\ s # t => ~fs[s].alone

\* The next contact starts at a point of the display.
LEMMA NextStart ==
  ASSUME contacts \in Nat, contacts < Len(Starts)
  PROVE  Starts[contacts + 1] \in Places
<1>1. Starts \in Seq(Points) /\ Points \subseteq Places
  BY CaptureAssumption DEF Places
<1> QED BY <1>1

\* A finger lands.
LEMMA TypeBLand ==
  ASSUME NEW d, TypeBOK(d), proto = "type_b", now \in Nat, contacts \in Nat, fingers \in FingersOf,
         SlotsFollow(d, fingers, kslot), NEW s \in Slots, Land(s)
  PROVE  \E e : /\ Reaches("type_b", d, wire', e)
                /\ SlotsFollow(e, fingers', kslot') /\ e.out = d.out
<1> DEFINE q == Starts[contacts + 1]
<1>1. q \in Places
  BY NextStart DEF Land
<1>2. fingers' = Landed(fingers, s, now, q) /\ kslot' = s /\ fingers[s] = Lifted
  BY DEF Land, Landed, Others, Down
<1>3. wire' = ((Slotted(s) \o <<Line("TRACKING_ID", "id")>>) \o At(q)) \o <<>>
      \/ wire' = ((Slotted(s) \o <<Line("TRACKING_ID", "id")>>) \o <<>>) \o At(q)
  BY DEF Land, Prints, Tracking, Button, TypeBDevice
<1>4. PICK e0 : /\ Reaches("type_b", d, Slotted(s), e0) /\ TypeBOK(e0)
                /\ SlotsFollow(e0, fingers, s) /\ e0.out = d.out
  BY TypeBTurns
<1> DEFINE e1 == open_contact(e0, now)
           e2 == Positioned(e1, "X", q[1] * PanelX)
           e3 == Positioned(e2, "Y", q[2] * PanelY)
<1> HIDE DEF q
<1>5. close_contact(e0, now, LiveThresholds) = e0
  BY <1>2, <1>4, TypeBEmpty
<1>6. Reaches("type_b", e0, <<Line("TRACKING_ID", "id")>>, e1)
  BY <1>4, <1>5, TypeBTracks
<1>7. /\ TypeBOK(e1) /\ e3.out = d.out /\ SlotsFollow(e3, fingers', s)
  BY <1>1, <1>2, <1>4, TypeBLands
<1>8. Reaches("type_b", e1, At(q), e3)
  BY <1>1, <1>7, TypeBAt
<1> HIDE DEF e1, e3
<1>9. DecoderOK("type_b", e1) /\ DecoderOK("type_b", e3)
  BY <1>7, <1>8 DEF DecoderOK, Reaches
<1>10. Reaches("type_b", e1, <<>>, e1) /\ Reaches("type_b", e3, <<>>, e3)
  BY <1>9, ReachNone
<1>11. Reaches("type_b", d, Slotted(s) \o <<Line("TRACKING_ID", "id")>>, e1)
  BY <1>4, <1>6, ReachJoin
<1>12. Reaches("type_b", d, wire', e3)
  <2>1. Reaches("type_b", d, (Slotted(s) \o <<Line("TRACKING_ID", "id")>>) \o At(q), e3)
    BY <1>8, <1>11, ReachJoin
  <2>2. Reaches("type_b", d, ((Slotted(s) \o <<Line("TRACKING_ID", "id")>>) \o At(q)) \o <<>>, e3)
    BY <1>10, <2>1, ReachJoin
  <2>3. Reaches("type_b", d, (Slotted(s) \o <<Line("TRACKING_ID", "id")>>) \o <<>>, e1)
    BY <1>10, <1>11, ReachJoin
  <2>4. Reaches("type_b", d, ((Slotted(s) \o <<Line("TRACKING_ID", "id")>>) \o <<>>) \o At(q), e3)
    BY <1>8, <2>3, ReachJoin
  <2> QED BY <1>3, <2>2, <2>4 DEF q
<1> QED BY <1>2, <1>7, <1>12

\* A finger moves.
LEMMA TypeBMove ==
  ASSUME NEW d, TypeBOK(d), proto = "type_b", now \in Nat, fingers \in FingersOf,
         SlotsFollow(d, fingers, kslot), NEW s \in Slots, NEW q \in Points, Move(s, q)
  PROVE  \E e : /\ Reaches("type_b", d, wire', e)
                /\ SlotsFollow(e, fingers', kslot') /\ e.out = d.out
<1> DEFINE p == fingers[s].at
           r == <<q[1], p[2]>>
           gs == Shifted(fingers, s, r)
           xs == IF p[1] = q[1] THEN <<>> ELSE <<Line("X", q[1] * PanelX)>>
           ys == IF p[2] = q[2] THEN <<>> ELSE <<Line("Y", q[2] * PanelY)>>
<1>1. fingers[s] # Lifted /\ kslot' = s
  BY DEF Move, Down
<1>2. q \in Places /\ p \in Places
  BY <1>1, FingerKinds, CaptureAssumption DEF Places
<1>3. r \in Places /\ r[1] = q[1] /\ r[2] = p[2]
  BY <1>2, Panels DEF Places
<1>4. wire' = Slotted(s) \o (xs \o ys)
  BY DEF Move, Prints, Moved
<1>5. fingers' = Shifted(fingers, s, q)
  BY DEF Move, Shifted
<1>6. PICK e0 : /\ Reaches("type_b", d, Slotted(s), e0) /\ TypeBOK(e0)
                /\ SlotsFollow(e0, fingers, s) /\ e0.out = d.out
  BY TypeBTurns
<1>7. /\ gs \in FingersOf /\ gs[s] # Lifted /\ gs[s].at = r
      /\ gs[s] = [down |-> fingers[s].down, from |-> fingers[s].from,
                  at |-> r, alone |-> fingers[s].alone]
      /\ \A t \in Slots : t # s => gs[t] = fingers[t]
  <2> HIDE DEF r
  <2> QED BY <1>1, <1>3, ShiftedFinger
<1> HIDE DEF r, gs
<1>8. \E e : /\ Reaches("type_b", e0, xs, e) /\ TypeBOK(e)
             /\ SlotsFollow(e, gs, s) /\ e.out = d.out
  <2>1. CASE p[1] = q[1]
    <3>1. r = p
      BY <1>2, <2>1, Panels DEF r
    <3>2. gs = fingers
      <4>1. gs[s] = fingers[s]
        BY <1>1, <1>7, <3>1, FingerKinds
      <4>2. \A t \in Slots : gs[t] = fingers[t]
        BY <1>7, <4>1
      <4> QED BY <1>7, <4>2 DEF FingersOf
    <3>3. Reaches("type_b", e0, <<>>, e0)
      BY <1>6, ReachNone DEF DecoderOK
    <3> QED BY <1>6, <2>1, <3>2, <3>3
  <2>2. CASE p[1] # q[1]
    <3> DEFINE ev == Line("X", q[1] * PanelX)
               e == Positioned(e0, "X", q[1] * PanelX)
    <3>1. ev \in Lines /\ ev.code = "X" /\ ev.value = q[1] * PanelX
      BY <1>2, Panels, LinesTyped DEF Line
    <3> HIDE DEF ev
    <3>2. Step("type_b", LiveThresholds, e0, ev) = e
      BY <3>1 DEF Step, TypeBStep
    <3>3. Reaches("type_b", e0, <<ev>>, e)
      BY <1>6, <3>1, <3>2, ReachOne DEF DecoderOK
    <3>4. TypeBOK(e) /\ e.out = e0.out /\ SlotsFollow(e, gs, s)
      <4>1. q[1] * PanelX = IF "X" = "X" THEN r[1] * PanelX ELSE r[2] * PanelY
        BY <1>3
      <4>2. r[2] = fingers[s].at[2]
        BY <1>3
      <4> QED BY <1>1, <1>3, <1>6, <4>1, <4>2, TypeBMoves DEF gs
    <3> HIDE DEF e
    <3> QED BY <1>6, <2>2, <3>3, <3>4 DEF ev
  <2> QED BY <2>1, <2>2
<1>9. PICK e1 : /\ Reaches("type_b", e0, xs, e1) /\ TypeBOK(e1)
                /\ SlotsFollow(e1, gs, s) /\ e1.out = d.out
  BY <1>8
<1>10. fingers' = Shifted(gs, s, q)
  <2> DEFINE hs == Shifted(fingers, s, q)
             ks == Shifted(gs, s, q)
  <2>1. /\ hs \in FingersOf /\ \A t \in Slots : t # s => hs[t] = fingers[t]
        /\ hs[s] = [down |-> fingers[s].down, from |-> fingers[s].from,
                    at |-> q, alone |-> fingers[s].alone]
    BY <1>1, <1>2, ShiftedFinger
  <2>2. /\ ks \in FingersOf /\ \A t \in Slots : t # s => ks[t] = gs[t]
        /\ ks[s] = [down |-> gs[s].down, from |-> gs[s].from,
                    at |-> q, alone |-> gs[s].alone]
    BY <1>2, <1>7, ShiftedFinger
  <2> HIDE DEF hs, ks
  <2>3. hs[s] = ks[s]
    BY <1>7, <2>1, <2>2
  <2>4. \A t \in Slots : hs[t] = ks[t]
    BY <1>7, <2>1, <2>2, <2>3
  <2>5. hs = ks
    BY <2>1, <2>2, <2>4 DEF FingersOf
  <2> QED BY <1>5, <2>5 DEF hs, ks
<1>11. \E e : /\ Reaches("type_b", e1, ys, e)
              /\ SlotsFollow(e, fingers', s) /\ e.out = d.out
  <2>1. CASE p[2] = q[2]
    <3>1. r = q
      BY <1>2, <2>1, Panels DEF r
    <3>2. gs = fingers'
      BY <3>1, <1>5 DEF gs
    <3>3. Reaches("type_b", e1, <<>>, e1)
      BY <1>9, ReachNone DEF DecoderOK
    <3> QED BY <1>9, <2>1, <3>2, <3>3
  <2>2. CASE p[2] # q[2]
    <3> DEFINE ev == Line("Y", q[2] * PanelY)
               e == Positioned(e1, "Y", q[2] * PanelY)
    <3>1. ev \in Lines /\ ev.code = "Y" /\ ev.value = q[2] * PanelY
      BY <1>2, Panels, LinesTyped DEF Line
    <3> HIDE DEF ev
    <3>2. Step("type_b", LiveThresholds, e1, ev) = e
      BY <3>1 DEF Step, TypeBStep
    <3>3. Reaches("type_b", e1, <<ev>>, e)
      BY <1>9, <3>1, <3>2, ReachOne DEF DecoderOK
    <3>4. TypeBOK(e) /\ e.out = e1.out /\ SlotsFollow(e, Shifted(gs, s, q), s)
      <4>1. q[2] * PanelY = IF "Y" = "X" THEN q[1] * PanelX ELSE q[2] * PanelY
        OBVIOUS
      <4>2. q[1] = gs[s].at[1]
        BY <1>3, <1>7
      <4> QED BY <1>2, <1>7, <1>9, <4>1, <4>2, TypeBMoves
    <3> HIDE DEF e
    <3> QED BY <1>9, <1>10, <2>2, <3>3, <3>4 DEF ev
  <2> QED BY <2>1, <2>2
<1>12. PICK e2 : Reaches("type_b", e1, ys, e2) /\ SlotsFollow(e2, fingers', s) /\ e2.out = d.out
  BY <1>11
<1> HIDE DEF xs, ys
<1>13. Reaches("type_b", e0, xs \o ys, e2)
  BY <1>9, <1>12, ReachJoin
<1>14. Reaches("type_b", d, wire', e2)
  BY <1>4, <1>6, <1>13, ReachJoin
<1> QED BY <1>1, <1>12, <1>14


\* A finger is lifted.
LEMMA TypeBLift ==
  ASSUME NEW d, TypeBOK(d), proto = "type_b", now \in Nat, fingers \in FingersOf,
         SlotsFollow(d, fingers, kslot), NEW s \in Slots, Lift(s)
  PROVE  \E e : /\ Reaches("type_b", d, wire', e)
                /\ SlotsFollow(e, fingers', kslot') /\ Tells(d, e, fingers[s], now)
<1>1. /\ fingers' = [fingers EXCEPT ![s] = Lifted] /\ kslot' = s /\ fingers[s] # Lifted
      /\ wire' = (Slotted(s) \o <<Line("TRACKING_ID", "lift")>>) \o <<>>
  BY DEF Lift, Prints, Tracking, Button, TypeBDevice, Down
<1>2. PICK e0 : /\ Reaches("type_b", d, Slotted(s), e0) /\ TypeBOK(e0)
                /\ SlotsFollow(e0, fingers, s) /\ e0.out = d.out
  BY TypeBTurns
<1> DEFINE e == close_contact(e0, now, LiveThresholds)
<1>3. Reaches("type_b", e0, <<Line("TRACKING_ID", "lift")>>, e) /\ TypeBOK(e)
  BY <1>2, TypeBTracks
<1>4. /\ SlotsFollow(e, fingers', s)
      /\ Shuts(e0, e, s, fingers[s], now, LiveThresholds)
  <2>1. fingers' = Freed(fingers, s)
    BY <1>1 DEF Freed
  <2> QED
    BY <1>1, <1>2, <2>1, TypeBLifts
<1> HIDE DEF e
<1>5. fingers[s] \in Contacts
  BY <1>1, FingerKinds
<1>6. Tells(d, e, fingers[s], now)
  <2>1. Shuts(d, e, s, fingers[s], now, LiveThresholds)
    BY <1>2, <1>4 DEF Shuts
  <2> QED
    BY <1>5, <2>1, ClosedTells
<1>7. Reaches("type_b", e, <<>>, e)
  BY <1>3, ReachNone DEF DecoderOK
<1>8. Reaches("type_b", d, Slotted(s) \o <<Line("TRACKING_ID", "lift")>>, e)
  BY <1>2, <1>3, ReachJoin
<1>9. Reaches("type_b", d, wire', e)
  BY <1>1, <1>7, <1>8, ReachJoin
<1> QED BY <1>1, <1>4, <1>6, <1>9

\* One finger replaces another: a lift and a landing that no line tells apart.
LEMMA TypeBReplace ==
  ASSUME NEW d, TypeBOK(d), now \in Nat, contacts \in Nat, fingers \in FingersOf,
         OneAlone(fingers), SlotsFollow(d, fingers, kslot), NEW s \in Slots, Replace(s)
  PROVE  \E e : /\ Reaches("type_b", d, wire', e)
                /\ SlotsFollow(e, fingers', kslot') /\ Tells(d, e, fingers[s], now)
<1> DEFINE q == Starts[contacts + 1]
           hs == [fingers EXCEPT ![s] = Lifted]
<1>1. /\ fingers' = [fingers EXCEPT ![s] =
                       [down |-> now, from |-> q, at |-> q, alone |-> Others(s) = {}]]
      /\ kslot' = s /\ fingers[s] # Lifted
      /\ wire' = (Slotted(s) \o <<Line("TRACKING_ID", "id")>>) \o At(q)
  BY DEF Replace, Prints, Tracking, Down
<1>2. q \in Places
  BY NextStart DEF Replace
<1>3. hs \in FingersOf /\ hs[s] = Lifted /\ \A t \in Slots : t # s => hs[t] = fingers[t]
  BY DEF FingersOf
<1> HIDE DEF q, hs
<1>4. fingers' = Landed(hs, s, now, q)
  <2> DEFINE alone == {u \in Slots \ {s} : hs[u] # Lifted} = {}
             gs == Landed(hs, s, now, q)
             f == [down |-> now, from |-> q, at |-> q, alone |-> alone]
  <2>1. Others(s) = {u \in Slots \ {s} : hs[u] # Lifted}
    BY <1>3 DEF Others, Down
  <2>2. fingers' = [fingers EXCEPT ![s] = f]
    BY <1>1, <2>1
  <2>3. ASSUME NEW t \in Slots, t # s, fingers[t] # Lifted
        PROVE  [hs[t] EXCEPT !.alone = FALSE] = fingers[t]
    <3> DEFINE g == fingers[t]
    <3>1. ~g.alone
      BY <1>1, <2>3 DEF OneAlone
    <3>2. /\ g.alone \in BOOLEAN
          /\ g = [down |-> g.down, from |-> g.from, at |-> g.at, alone |-> g.alone]
      BY <2>3, FingerKinds
    <3> HIDE DEF g
    <3>3. g.alone = FALSE
      BY <3>1, <3>2
    <3>4. [g EXCEPT !.alone = FALSE] = g
      BY <3>2, <3>3
    <3> QED BY <3>4, <2>3, <1>3 DEF g
  <2>4. \A t \in Slots : gs[t] = IF t = s THEN f
                                ELSE IF hs[t] # Lifted THEN [hs[t] EXCEPT !.alone = FALSE] ELSE Lifted
    BY DEF Landed
  <2>5. DOMAIN gs = Slots /\ gs = [t \in Slots |-> gs[t]]
    BY DEF Landed
  <2> HIDE DEF f, gs
  <2>6. fingers' = [t \in Slots |-> IF t = s THEN f ELSE fingers[t]]
    BY <2>2 DEF FingersOf
  <2>7. \A t \in Slots : gs[t] = IF t = s THEN f ELSE fingers[t]
    <3> SUFFICES ASSUME NEW t \in Slots, t # s PROVE gs[t] = fingers[t]
      BY <2>4
    <3>1. CASE fingers[t] = Lifted
      BY <3>1, <2>4, <1>3
    <3>2. CASE fingers[t] # Lifted
      BY <3>2, <2>3, <2>4, <1>3
    <3> QED BY <3>1, <3>2
  <2>8. fingers' = gs
    BY <2>5, <2>6, <2>7
  <2> QED BY <2>8 DEF gs
<1>5. PICK e0 : /\ Reaches("type_b", d, Slotted(s), e0) /\ TypeBOK(e0)
                /\ SlotsFollow(e0, fingers, s) /\ e0.out = d.out
  BY TypeBTurns
<1> DEFINE c == close_contact(e0, now, LiveThresholds)
           e1 == open_contact(c, now)
           e2 == Positioned(e1, "X", q[1] * PanelX)
           e3 == Positioned(e2, "Y", q[2] * PanelY)
<1>6. Reaches("type_b", e0, <<Line("TRACKING_ID", "id")>>, e1)
  BY <1>5, TypeBTracks
<1>7. /\ TypeBOK(c) /\ SlotsFollow(c, hs, s)
      /\ Shuts(e0, c, s, fingers[s], now, LiveThresholds)
  <2>1. TypeBOK(e0) /\ SlotsFollow(e0, fingers, s) /\ fingers[s] # Lifted
    BY <1>1, <1>5
  <2>2. hs = Freed(fingers, s)
    BY DEF hs, Freed
  <2> QED
    BY <2>1, <2>2, TypeBLifts
<1> HIDE DEF c
<1>8. TypeBOK(e1) /\ e3.out = c.out /\ SlotsFollow(e3, fingers', s)
  BY <1>2, <1>3, <1>4, <1>7, TypeBLands
<1>9. Reaches("type_b", e1, At(q), e3)
  BY <1>2, <1>8, TypeBAt
<1> HIDE DEF e1, e3
<1>10. fingers[s] \in Contacts
  BY <1>1, FingerKinds
<1>11. Tells(d, e3, fingers[s], now)
  <2>1. Shuts(d, e3, s, fingers[s], now, LiveThresholds)
    BY <1>5, <1>7, <1>8 DEF Shuts
  <2> QED BY <1>10, <2>1, ClosedTells
<1>12. Reaches("type_b", d, Slotted(s) \o <<Line("TRACKING_ID", "id")>>, e1)
  BY <1>5, <1>6, ReachJoin
<1>13. Reaches("type_b", d, wire', e3)
  BY <1>1, <1>9, <1>12, ReachJoin
<1> QED BY <1>1, <1>8, <1>11, <1>13


-----------------------------------------------------------------------------
(* BTN_TOUCH keeps the finger that is alone, and that several are not *)

TouchFollows(d, fs, k) ==
  /\ d.active <=> \E s \in Slots : fs[s] # Lifted
  /\ ~d.active => /\ d.max_slot = 0 /\ d.sx = Unseen /\ d.sy = Unseen
                  /\ d.lx = Unseen /\ d.ly = Unseen
  /\ \A s \in Slots : fs[s] # Lifted /\ fs[s].alone =>
       /\ s = 0 /\ k = 0 /\ d.max_slot = 0 /\ d.down = fs[s].down
       /\ d.sx = fs[s].from[1] * PanelX /\ d.sy = fs[s].from[2] * PanelY
       /\ d.lx = fs[s].at[1] * PanelX /\ d.ly = fs[s].at[2] * PanelY
  /\ d.active /\ (\A s \in Slots : fs[s] # Lifted => ~fs[s].alone) => d.max_slot > 0

\* What a line does to a touch, whichever thresholds are in force.
LEMMA BtnReads ==
  ASSUME NEW d, BtnOK(d), NEW ev \in Lines
  PROVE  LET e == BtnTouchStep(LiveThresholds, d, ev)
         IN  Reaches("btn_touch", d, <<ev>>, e) /\ BtnOK(e)
<1> DEFINE e == BtnTouchStep(LiveThresholds, d, ev)
<1>1. DecoderOK("btn_touch", d)
  BY DEF DecoderOK
<1>2. Step("btn_touch", LiveThresholds, d, ev) = e
  BY DEF Step
<1> HIDE DEF e
<1>3. Reaches("btn_touch", d, <<ev>>, e)
  BY <1>1, <1>2, ReachOne
<1>4. BtnOK(e)
  BY <1>3 DEF Reaches, DecoderOK
<1> QED BY <1>3, <1>4 DEF e

\* The line that names a slot.
HasTurned(d, e, s) ==
  /\ e.active = d.active /\ e.down = d.down /\ e.out = d.out
  /\ e.sx = d.sx /\ e.sy = d.sy /\ e.lx = d.lx /\ e.ly = d.ly
  /\ e.max_slot >= d.max_slot
  /\ s = 0 \/ s = kslot => e.max_slot = d.max_slot
  /\ s # kslot => e.max_slot >= s

\* Slotted: max_slot counts the slot in.
LEMMA BtnTurns ==
  ASSUME NEW d, BtnOK(d), now \in Nat, NEW s \in Slots
  PROVE  \E e : Reaches("btn_touch", d, Slotted(s), e) /\ BtnOK(e) /\ HasTurned(d, e, s)
<1>1. d \in BtnStates /\ d.max_slot \in Nat /\ s \in Nat
  BY CaptureAssumption DEF BtnOK, BtnStates
<1>2. CASE s = kslot
  <2>1. Slotted(s) = <<>>
    BY <1>2 DEF Slotted
  <2>2. Reaches("btn_touch", d, <<>>, d)
    BY ReachNone DEF DecoderOK
  <2>3. HasTurned(d, d, s)
    BY <1>1, <1>2 DEF HasTurned
  <2> QED BY <2>1, <2>2, <2>3
<1>3. CASE s # kslot
  <2> DEFINE ev == Line("SLOT", s)
             e == BtnTouchStep(LiveThresholds, d, ev)
             m == IF s > d.max_slot THEN s ELSE d.max_slot
  <2>1. Slotted(s) = <<ev>> /\ ev.code = "SLOT" /\ ev.value = s
    BY <1>3 DEF Slotted, Line
  <2>2. ev \in Lines
    BY LinesTyped, CaptureAssumption
  <2> HIDE DEF ev
  <2>3. Reaches("btn_touch", d, <<ev>>, e) /\ BtnOK(e)
    BY <2>2, BtnReads
  <2>4. e = Touch(d.active, m, d.down, d.sx, d.sy, d.lx, d.ly, d.out)
    BY <1>1, <2>1, <2>2, BtnLines
  <2> HIDE DEF e
  <2>5. m >= d.max_slot /\ m >= s /\ (s = 0 => m = d.max_slot)
    BY <1>1
  <2> HIDE DEF m
  <2>6. /\ e.active = d.active /\ e.down = d.down /\ e.out = d.out /\ e.max_slot = m
        /\ e.sx = d.sx /\ e.sy = d.sy /\ e.lx = d.lx /\ e.ly = d.ly
    BY <2>4 DEF Touch
  <2>7. HasTurned(d, e, s)
    BY <1>3, <2>5, <2>6 DEF HasTurned
  <2> QED BY <2>1, <2>3, <2>7
<1> QED BY <1>2, <1>3

\* A line that gives a coordinate.
HasMoved(d, e, axis, v) ==
  /\ e.active = d.active /\ e.down = d.down /\ e.out = d.out /\ e.max_slot = d.max_slot
  /\ e.sx = IF axis = "X" /\ d.active THEN First(d.sx, v) ELSE d.sx
  /\ e.sy = IF axis = "Y" /\ d.active THEN First(d.sy, v) ELSE d.sy
  /\ e.lx = IF axis = "X" THEN v ELSE d.lx
  /\ e.ly = IF axis = "Y" THEN v ELSE d.ly

\* One coordinate.
LEMMA BtnMoves ==
  ASSUME NEW d, BtnOK(d), now \in Nat, NEW axis \in {"X", "Y"}, NEW v \in Nat
  PROVE  \E e : Reaches("btn_touch", d, <<Line(axis, v)>>, e) /\ BtnOK(e) /\ HasMoved(d, e, axis, v)
<1> DEFINE ev == Line(axis, v)
           e == BtnTouchStep(LiveThresholds, d, ev)
<1>1. ev \in Lines /\ ev.code = axis /\ ev.value = v
  BY LinesTyped DEF Line
<1>2. d \in BtnStates
  BY DEF BtnOK
<1> HIDE DEF ev
<1>3. Reaches("btn_touch", d, <<ev>>, e) /\ BtnOK(e)
  BY <1>1, BtnReads
<1>4. CASE axis = "X"
  <2>1. e = Touch(d.active, d.max_slot, d.down,
                  IF d.active THEN First(d.sx, v) ELSE d.sx, d.sy, v, d.ly, d.out)
    <3>1. e = Touch(d.active, d.max_slot, d.down,
                    IF d.active THEN First(d.sx, ev.value) ELSE d.sx, d.sy, ev.value, d.ly, d.out)
      <4>1. ev.code = "X"
        BY <1>1, <1>4
      <4> QED BY <1>1, <1>2, <4>1, BtnLines
    <3> QED BY <1>1, <3>1
  <2> HIDE DEF e
  <2>2. HasMoved(d, e, axis, v)
    BY <1>4, <2>1 DEF HasMoved, Touch
  <2> QED BY <1>3, <2>2 DEF ev
<1>5. CASE axis = "Y"
  <2>1. e = Touch(d.active, d.max_slot, d.down,
                  d.sx, IF d.active THEN First(d.sy, v) ELSE d.sy, d.lx, v, d.out)
    <3>1. e = Touch(d.active, d.max_slot, d.down,
                    d.sx, IF d.active THEN First(d.sy, ev.value) ELSE d.sy, d.lx, ev.value, d.out)
      <4>1. ev.code = "Y"
        BY <1>1, <1>5
      <4> QED BY <1>1, <1>2, <4>1, BtnLines
    <3> QED BY <1>1, <3>1
  <2> HIDE DEF e
  <2>2. HasMoved(d, e, axis, v)
    BY <1>5, <2>1 DEF HasMoved, Touch
  <2> QED BY <1>3, <2>2 DEF ev
<1> QED BY <1>4, <1>5

\* Both coordinates.
HasBoth(d, e, x, y) ==
  /\ e.active = d.active /\ e.down = d.down /\ e.out = d.out /\ e.max_slot = d.max_slot
  /\ e.sx = IF d.active THEN First(d.sx, x) ELSE d.sx
  /\ e.sy = IF d.active THEN First(d.sy, y) ELSE d.sy
  /\ e.lx = x /\ e.ly = y

\* Both coordinates.
LEMMA BtnAt ==
  ASSUME NEW d, BtnOK(d), now \in Nat, NEW q \in Places
  PROVE  \E e : /\ Reaches("btn_touch", d, At(q), e) /\ BtnOK(e)
                /\ HasBoth(d, e, q[1] * PanelX, q[2] * PanelY)
<1> DEFINE x == q[1] * PanelX
           y == q[2] * PanelY
<1>1. x \in Nat /\ y \in Nat
  BY Panels
<1>2. At(q) = <<Line("X", x)>> \o <<Line("Y", y)>>
  BY DEF At
<1> HIDE DEF x, y
<1>3. PICK e : Reaches("btn_touch", d, <<Line("X", x)>>, e) /\ BtnOK(e) /\ HasMoved(d, e, "X", x)
  BY <1>1, BtnMoves
<1>4. PICK f : Reaches("btn_touch", e, <<Line("Y", y)>>, f) /\ BtnOK(f) /\ HasMoved(e, f, "Y", y)
  BY <1>1, <1>3, BtnMoves
<1>5. Reaches("btn_touch", d, At(q), f)
  BY <1>2, <1>3, <1>4, ReachJoin
<1>6. HasBoth(d, f, x, y)
  BY <1>3, <1>4 DEF HasBoth, HasMoved
<1> QED BY <1>4, <1>5, <1>6 DEF x, y

\* The finger that comes down on an empty glass.
HasDown(d, e) ==
  /\ e.active = TRUE /\ e.down = now /\ e.out = d.out /\ e.max_slot = d.max_slot
  /\ e.sx = d.lx /\ e.sy = d.ly /\ e.lx = d.lx /\ e.ly = d.ly

\* DOWN starts the touch at the last coordinates seen.
LEMMA BtnDown ==
  ASSUME NEW d, BtnOK(d), now \in Nat
  PROVE  \E e : Reaches("btn_touch", d, <<Line("BTN_TOUCH", "DOWN")>>, e) /\ BtnOK(e) /\ HasDown(d, e)
<1> DEFINE ev == Line("BTN_TOUCH", "DOWN")
           e == BtnTouchStep(LiveThresholds, d, ev)
<1>1. ev \in Lines /\ ev.code = "BTN_TOUCH" /\ ev.value = "DOWN" /\ ev.ts = now
  BY LinesTyped DEF Line
<1>2. d \in BtnStates
  BY DEF BtnOK
<1> HIDE DEF ev
<1>3. Reaches("btn_touch", d, <<ev>>, e) /\ BtnOK(e)
  BY <1>1, BtnReads
<1>4. e = Touch(TRUE, d.max_slot, now, d.lx, d.ly, d.lx, d.ly, d.out)
  <2>1. e = Touch(TRUE, d.max_slot, ev.ts, d.lx, d.ly, d.lx, d.ly, d.out)
    BY <1>1, <1>2, BtnLines
  <2> QED BY <1>1, <2>1
<1> HIDE DEF e
<1>5. HasDown(d, e)
  BY <1>4 DEF HasDown, Touch
<1> QED BY <1>3, <1>5 DEF ev

\* The last finger that goes.
HasUp(d, e) ==
  /\ e.active = FALSE /\ e.max_slot = 0
  /\ e.sx = Unseen /\ e.sy = Unseen /\ e.lx = Unseen /\ e.ly = Unseen
  /\ e.out = Append(d.out, BtnGesture(d, now, FALSE, LiveThresholds))

\* UP tells the touch and forgets everything.
LEMMA BtnUp ==
  ASSUME NEW d, BtnOK(d), d.active, now \in Nat
  PROVE  \E e : Reaches("btn_touch", d, <<Line("BTN_TOUCH", "UP")>>, e) /\ BtnOK(e) /\ HasUp(d, e)
<1> DEFINE ev == Line("BTN_TOUCH", "UP")
           e == BtnTouchStep(LiveThresholds, d, ev)
           g == BtnGesture(d, now, FALSE, LiveThresholds)
<1>1. ev \in Lines /\ ev.code = "BTN_TOUCH" /\ ev.value = "UP" /\ ev.ts = now
  BY LinesTyped DEF Line
<1>2. d \in BtnStates
  BY DEF BtnOK
<1> HIDE DEF ev
<1>3. Reaches("btn_touch", d, <<ev>>, e) /\ BtnOK(e)
  BY <1>1, BtnReads
<1>4. e = Touch(FALSE, 0, d.down, Unseen, Unseen, Unseen, Unseen, Append(d.out, g))
  <2>1. e = Touch(FALSE, 0, d.down, Unseen, Unseen, Unseen, Unseen,
                  Append(d.out, BtnGesture(d, ev.ts, FALSE, LiveThresholds)))
    BY <1>1, <1>2, BtnLines
  <2> QED BY <1>1, <2>1
<1> HIDE DEF e, g
<1>5. HasUp(d, e)
  BY <1>4 DEF HasUp, Touch, g
<1> QED BY <1>3, <1>5 DEF ev


\* A touch several fingers have shared needs no more to be followed.
LEMMA BusyFollows ==
  ASSUME NEW d, NEW fs, NEW k, d.active, d.max_slot > 0,
         \E s \in Slots : fs[s] # Lifted, \A s \in Slots : fs[s] # Lifted => ~fs[s].alone
  PROVE  TouchFollows(d, fs, k)
BY DEF TouchFollows

\* A touch by the finger in slot 0 alone has to be followed exactly.
LEMMA AloneFollows ==
  ASSUME NEW d, NEW fs, d.active, d.max_slot = 0, fs[0] # Lifted, fs[0].alone,
         \A t \in Slots : t # 0 => fs[t] = Lifted,
         d.down = fs[0].down,
         d.sx = fs[0].from[1] * PanelX, d.sy = fs[0].from[2] * PanelY,
         d.lx = fs[0].at[1] * PanelX, d.ly = fs[0].at[2] * PanelY
  PROVE  TouchFollows(d, fs, 0)
<1>1. 0 \in Slots
  BY CaptureAssumption
<1>2. \A t \in Slots : fs[t] # Lifted => t = 0
  OBVIOUS
<1> QED BY <1>1, <1>2 DEF TouchFollows

\* The first finger on the glass, whichever comes first, its place or the button.
LEMMA BtnFirst ==
  ASSUME NEW d, BtnOK(d), ~d.active, now \in Nat, NEW q \in Places,
         d.sx = Unseen, d.sy = Unseen, d.lx = Unseen, d.ly = Unseen
  PROVE  LET x == q[1] * PanelX
             y == q[2] * PanelY
             Done(e) == /\ BtnOK(e) /\ e.active /\ e.down = now /\ e.out = d.out
                        /\ e.max_slot = d.max_slot
                        /\ e.sx = x /\ e.sy = y /\ e.lx = x /\ e.ly = y
             down == <<Line("BTN_TOUCH", "DOWN")>>
         IN  /\ \E e, f : /\ Reaches("btn_touch", d, At(q), e) /\ Reaches("btn_touch", e, down, f)
                          /\ Done(f)
             /\ \E e, f : /\ Reaches("btn_touch", d, down, e) /\ Reaches("btn_touch", e, At(q), f)
                          /\ Done(f)
<1> DEFINE x == q[1] * PanelX
           y == q[2] * PanelY
           Done(e) == /\ BtnOK(e) /\ e.active /\ e.down = now /\ e.out = d.out
                      /\ e.max_slot = d.max_slot
                      /\ e.sx = x /\ e.sy = y /\ e.lx = x /\ e.ly = y
           down == <<Line("BTN_TOUCH", "DOWN")>>
<1>1. x \in Nat /\ y \in Nat
  BY Panels
<1>2. \E e, f : /\ Reaches("btn_touch", d, At(q), e) /\ Reaches("btn_touch", e, down, f)
                /\ Done(f)
  <2>1. PICK e : Reaches("btn_touch", d, At(q), e) /\ BtnOK(e) /\ HasBoth(d, e, x, y)
    BY BtnAt
  <2>2. PICK f : Reaches("btn_touch", e, down, f) /\ BtnOK(f) /\ HasDown(e, f)
    BY <2>1, BtnDown
  <2> HIDE DEF x, y, down
  <2>3. Done(f)
    BY <2>1, <2>2 DEF HasBoth, HasDown
  <2> QED BY <2>1, <2>2, <2>3
<1>3. \E e, f : /\ Reaches("btn_touch", d, down, e) /\ Reaches("btn_touch", e, At(q), f)
                /\ Done(f)
  <2>1. PICK e : Reaches("btn_touch", d, down, e) /\ BtnOK(e) /\ HasDown(d, e)
    BY BtnDown
  <2>2. PICK f : Reaches("btn_touch", e, At(q), f) /\ BtnOK(f) /\ HasBoth(e, f, x, y)
    BY <2>1, BtnAt
  <2> HIDE DEF x, y, down
  <2>3. Done(f)
    BY <2>1, <2>2 DEF HasBoth, HasDown, First
  <2> QED BY <2>1, <2>2, <2>3
<1> HIDE DEF x, y, down
<1>4. (\E e, f : /\ Reaches("btn_touch", d, At(q), e) /\ Reaches("btn_touch", e, down, f)
                 /\ Done(f))
      /\ \E e, f : /\ Reaches("btn_touch", d, down, e) /\ Reaches("btn_touch", e, At(q), f)
                   /\ Done(f)
  BY <1>2, <1>3
<1> QED BY <1>4 DEF x, y, down

\* A finger lands: the first presses the button, the others name their slot.
LEMMA BtnLand ==
  ASSUME NEW d, BtnOK(d), proto # "type_b", now \in Nat, contacts \in Nat, fingers \in FingersOf,
         TouchFollows(d, fingers, kslot), NEW s \in Slots, Land(s)
  PROVE  \E e : /\ Reaches("btn_touch", d, wire', e)
                /\ TouchFollows(e, fingers', kslot') /\ e.out = d.out
<1> DEFINE q == Starts[contacts + 1]
           x == q[1] * PanelX
           y == q[2] * PanelY
           alone == Others(s) = {}
           down == IF alone THEN <<Line("BTN_TOUCH", "DOWN")>> ELSE <<>>
           gs == Landed(fingers, s, now, q)
<1>1. q \in Places
  BY NextStart DEF Land
<1>2. /\ fingers' = gs /\ kslot' = s /\ fingers[s] = Lifted
      /\ \A t \in Slots : t < s => fingers[t] # Lifted
  BY DEF Land, Landed, Others, Down
<1>3. \/ wire' = ((Slotted(s) \o <<>>) \o At(q)) \o down
      \/ wire' = ((Slotted(s) \o <<>>) \o down) \o At(q)
  BY DEF Land, Prints, Tracking, Button, TypeBDevice
<1>4. PICK e0 : Reaches("btn_touch", d, Slotted(s), e0) /\ BtnOK(e0) /\ HasTurned(d, e0, s)
  BY BtnTurns
<1>5. Reaches("btn_touch", d, Slotted(s) \o <<>>, e0)
  <2>1. Reaches("btn_touch", e0, <<>>, e0)
    BY <1>4, ReachNone DEF DecoderOK
  <2> QED BY <1>4, <2>1, ReachJoin
<1>6. s \in Nat /\ 0 \in Slots
  BY CaptureAssumption
<1>7. \A t \in Slots : gs[t] = IF t = s THEN [down |-> now, from |-> q, at |-> q, alone |-> alone]
                              ELSE IF fingers[t] # Lifted THEN [fingers[t] EXCEPT !.alone = FALSE]
                              ELSE Lifted
  BY DEF Landed, Others, Down
<1>8. gs \in FingersOf
  BY <1>1, LandedTyped
<1>9. gs[s].down = now /\ gs[s].from = q /\ gs[s].at = q /\ (gs[s].alone <=> alone) /\ gs[s] # Lifted
  <2>1. gs[s] = [down |-> now, from |-> q, at |-> q, alone |-> alone]
    BY <1>7
  <2> HIDE DEF gs, alone
  <2>2. gs[s].down = now /\ gs[s].from = q /\ gs[s].at = q /\ (gs[s].alone <=> alone)
    BY <2>1
  <2> QED BY <2>2 DEF Lifted
<1> HIDE DEF q, gs
<1>10. CASE alone
  <2>1. \A t \in Slots : fingers[t] = Lifted
    BY <1>2, <1>10 DEF Others, Down
  <2>2. s = 0
    BY <1>2, <1>6, <2>1
  <2>3. ~d.active /\ d.max_slot = 0 /\ d.sx = Unseen /\ d.sy = Unseen /\ d.lx = Unseen /\ d.ly = Unseen
    BY <2>1 DEF TouchFollows
  <2>4. /\ ~e0.active /\ e0.max_slot = 0 /\ e0.out = d.out
        /\ e0.sx = Unseen /\ e0.sy = Unseen /\ e0.lx = Unseen /\ e0.ly = Unseen
    BY <1>4, <2>2, <2>3 DEF HasTurned
  <2>5. down = <<Line("BTN_TOUCH", "DOWN")>>
    BY <1>10
  <2> DEFINE Done(e) == /\ BtnOK(e) /\ e.active /\ e.down = now /\ e.out = d.out
                        /\ e.max_slot = 0
                        /\ e.sx = x /\ e.sy = y /\ e.lx = x /\ e.ly = y
  <2>6. /\ \E e, f : /\ Reaches("btn_touch", e0, At(q), e) /\ Reaches("btn_touch", e, down, f)
                     /\ Done(f)
        /\ \E e, f : /\ Reaches("btn_touch", e0, down, e) /\ Reaches("btn_touch", e, At(q), f)
                     /\ Done(f)
    BY <1>1, <1>4, <2>4, <2>5, BtnFirst
  <2> HIDE DEF down
  <2>7. PICK f : Reaches("btn_touch", d, wire', f) /\ Done(f)
    <3>1. CASE wire' = ((Slotted(s) \o <<>>) \o At(q)) \o down
      <4>1. PICK e, f : Reaches("btn_touch", e0, At(q), e) /\ Reaches("btn_touch", e, down, f) /\ Done(f)
        BY <2>6
      <4>2. Reaches("btn_touch", d, (Slotted(s) \o <<>>) \o At(q), e)
        BY <1>5, <4>1, ReachJoin
      <4>3. Reaches("btn_touch", d, wire', f)
        BY <3>1, <4>1, <4>2, ReachJoin
      <4> QED BY <4>1, <4>3
    <3>2. CASE wire' = ((Slotted(s) \o <<>>) \o down) \o At(q)
      <4>1. PICK e, f : Reaches("btn_touch", e0, down, e) /\ Reaches("btn_touch", e, At(q), f) /\ Done(f)
        BY <2>6
      <4>2. Reaches("btn_touch", d, (Slotted(s) \o <<>>) \o down, e)
        BY <1>5, <4>1, ReachJoin
      <4>3. Reaches("btn_touch", d, wire', f)
        BY <3>2, <4>1, <4>2, ReachJoin
      <4> QED BY <4>1, <4>3
    <3> QED BY <1>3, <3>1, <3>2
  <2>8. \A t \in Slots : t # 0 => gs[t] = Lifted
    BY <1>7, <2>1, <2>2
  <2> HIDE DEF alone
  <2>9. TouchFollows(f, gs, 0)
    BY <1>9, <1>10, <2>2, <2>7, <2>8, AloneFollows
  <2> QED BY <1>2, <2>2, <2>7, <2>9
<1>11. CASE ~alone
  <2>1. PICK t \in Slots : t # s /\ fingers[t] # Lifted
    BY <1>11 DEF Others, Down
  <2>2. d.active
    BY <2>1 DEF TouchFollows
  <2>3. e0.active /\ e0.out = d.out
    BY <1>4, <2>2 DEF HasTurned
  <2>4. e0.max_slot > 0
    <3>1. d.max_slot \in Nat /\ e0.max_slot \in Nat
      BY <1>4 DEF BtnOK, BtnStates
    <3>2. CASE \A u \in Slots : fingers[u] # Lifted => ~fingers[u].alone
      <4>1. d.max_slot > 0
        BY <2>2, <3>2 DEF TouchFollows
      <4>2. e0.max_slot >= d.max_slot
        BY <1>4 DEF HasTurned
      <4> QED BY <3>1, <4>1, <4>2
    <3>3. ASSUME NEW u \in Slots, fingers[u] # Lifted, fingers[u].alone
          PROVE  e0.max_slot > 0
      <4>1. u = 0 /\ kslot = 0
        BY <3>3 DEF TouchFollows
      <4>2. s > 0 /\ s # kslot
        BY <1>2, <1>6, <3>3, <4>1
      <4>3. e0.max_slot >= s
        BY <1>4, <4>2 DEF HasTurned
      <4> QED BY <1>6, <3>1, <4>2, <4>3
    <3> QED BY <3>2, <3>3
  <2>5. down = <<>>
    BY <1>11
  <2>6. PICK e : Reaches("btn_touch", e0, At(q), e) /\ BtnOK(e) /\ HasBoth(e0, e, x, y)
    BY <1>1, <1>4, BtnAt
  <2>7. e.active /\ e.max_slot > 0 /\ e.out = d.out
    BY <2>3, <2>4, <2>6 DEF HasBoth
  <2>8. Reaches("btn_touch", d, wire', e)
    <3>1. Reaches("btn_touch", d, (Slotted(s) \o <<>>) \o At(q), e)
      BY <1>5, <2>6, ReachJoin
    <3>2. Reaches("btn_touch", e, <<>>, e) /\ Reaches("btn_touch", e0, <<>>, e0)
      BY <1>4, <2>6, ReachNone DEF DecoderOK
    <3>3. Reaches("btn_touch", d, ((Slotted(s) \o <<>>) \o At(q)) \o <<>>, e)
      BY <3>1, <3>2, ReachJoin
    <3>4. Reaches("btn_touch", d, (Slotted(s) \o <<>>) \o <<>>, e0)
      BY <1>5, <3>2, ReachJoin
    <3>5. Reaches("btn_touch", d, ((Slotted(s) \o <<>>) \o <<>>) \o At(q), e)
      BY <2>6, <3>4, ReachJoin
    <3> HIDE DEF down
    <3> QED BY <1>3, <2>5, <3>3, <3>5
  <2>9. ASSUME NEW u \in Slots, gs[u] # Lifted PROVE ~gs[u].alone
    <3>1. CASE u = s
      BY <3>1, <1>9, <1>11
    <3>2. CASE u # s
      <4>1. fingers[u] \in Contacts
        BY <1>7, <2>9, <3>2, FingerKinds
      <4>2. gs[u] = [fingers[u] EXCEPT !.alone = FALSE]
        BY <1>7, <2>9, <3>2
      <4> QED BY <4>1, <4>2 DEF Contacts
    <3> QED BY <3>1, <3>2
  <2>10. TouchFollows(e, gs, s)
    BY <1>9, <2>7, <2>9, BusyFollows
  <2> QED BY <1>2, <2>7, <2>8, <2>10
<1> QED BY <1>10, <1>11


\* A coordinate is printed only when it has changed.
LEMMA BtnShifts ==
  ASSUME NEW d, BtnOK(d), d.active, now \in Nat, NEW axis \in {"X", "Y"}, NEW v \in Nat,
         NEW same \in BOOLEAN
  PROVE  \E e : /\ Reaches("btn_touch", d, IF same THEN <<>> ELSE <<Line(axis, v)>>, e)
                /\ BtnOK(e) /\ e.active /\ e.out = d.out /\ e.max_slot = d.max_slot /\ e.down = d.down
                /\ d.sx # Unseen => e.sx = d.sx
                /\ d.sy # Unseen => e.sy = d.sy
                /\ e.lx = IF axis = "X" /\ ~same THEN v ELSE d.lx
                /\ e.ly = IF axis = "Y" /\ ~same THEN v ELSE d.ly
<1>1. CASE same
  <2>1. Reaches("btn_touch", d, <<>>, d)
    BY ReachNone DEF DecoderOK
  <2> QED BY <1>1, <2>1
<1>2. CASE ~same
  <2>1. PICK e : Reaches("btn_touch", d, <<Line(axis, v)>>, e) /\ BtnOK(e) /\ HasMoved(d, e, axis, v)
    BY BtnMoves
  <2>2. /\ e.active /\ e.out = d.out /\ e.max_slot = d.max_slot /\ e.down = d.down
        /\ d.sx # Unseen => e.sx = d.sx
        /\ d.sy # Unseen => e.sy = d.sy
        /\ e.lx = IF axis = "X" THEN v ELSE d.lx
        /\ e.ly = IF axis = "Y" THEN v ELSE d.ly
    BY <2>1 DEF HasMoved, First
  <2> QED BY <1>2, <2>1, <2>2
<1> QED BY <1>1, <1>2

\* A finger moves.
LEMMA BtnMove ==
  ASSUME NEW d, BtnOK(d), now \in Nat, fingers \in FingersOf, OneAlone(fingers),
         TouchFollows(d, fingers, kslot), NEW s \in Slots, NEW q \in Points, Move(s, q)
  PROVE  \E e : /\ Reaches("btn_touch", d, wire', e)
                /\ TouchFollows(e, fingers', kslot') /\ e.out = d.out
<1> DEFINE f == fingers[s]
           p == f.at
           x == q[1] * PanelX
           y == q[2] * PanelY
           xs == IF p[1] = q[1] THEN <<>> ELSE <<Line("X", x)>>
           ys == IF p[2] = q[2] THEN <<>> ELSE <<Line("Y", y)>>
           gs == fingers'
<1>1. f # Lifted /\ kslot' = s /\ gs = Shifted(fingers, s, q)
  BY DEF Move, Down, Shifted
<1>2. /\ q \in Places /\ p \in Places /\ f.from \in Places /\ f.alone \in BOOLEAN
  BY <1>1, FingerKinds, CaptureAssumption DEF Places
<1>3. x \in Nat /\ y \in Nat
  BY <1>2, Panels
<1>4. wire' = Slotted(s) \o (xs \o ys)
  BY DEF Move, Prints, Moved
<1>5. /\ gs[s] # Lifted /\ gs[s] = [down |-> f.down, from |-> f.from, at |-> q, alone |-> f.alone]
      /\ \A t \in Slots : t # s => gs[t] = fingers[t]
  BY <1>1, <1>2, ShiftedFinger
<1>6. gs[s].down = f.down /\ gs[s].from = f.from /\ gs[s].at = q /\ gs[s].alone = f.alone
  <2> HIDE DEF f, gs
  <2> QED BY <1>5
<1>7. d.active
  BY <1>1 DEF TouchFollows
<1>8. PICK e0 : Reaches("btn_touch", d, Slotted(s), e0) /\ BtnOK(e0) /\ HasTurned(d, e0, s)
  BY BtnTurns
<1>9. e0.active /\ e0.out = d.out
  BY <1>7, <1>8 DEF HasTurned
<1> HIDE DEF x, y, p
<1>10. PICK e1 :
         /\ Reaches("btn_touch", e0, xs, e1)
         /\ BtnOK(e1) /\ e1.active /\ e1.out = e0.out /\ e1.max_slot = e0.max_slot /\ e1.down = e0.down
         /\ e0.sx # Unseen => e1.sx = e0.sx
         /\ e0.sy # Unseen => e1.sy = e0.sy
         /\ e1.lx = IF p[1] # q[1] THEN x ELSE e0.lx
         /\ e1.ly = e0.ly
  <2> DEFINE same == p[1] = q[1]
  <2>1. same \in BOOLEAN
    OBVIOUS
  <2> HIDE DEF same
  <2>2. PICK e :
         /\ Reaches("btn_touch", e0, IF same THEN <<>> ELSE <<Line("X", x)>>, e)
         /\ BtnOK(e) /\ e.active /\ e.out = e0.out /\ e.max_slot = e0.max_slot /\ e.down = e0.down
         /\ e0.sx # Unseen => e.sx = e0.sx
         /\ e0.sy # Unseen => e.sy = e0.sy
         /\ e.lx = IF "X" = "X" /\ ~same THEN x ELSE e0.lx
         /\ e.ly = IF "X" = "Y" /\ ~same THEN x ELSE e0.ly
    BY <1>3, <1>8, <1>9, <2>1, BtnShifts
  <2>3. e.ly = e0.ly
    BY <2>2
  <2> QED BY <2>2, <2>3 DEF same
<1>11. PICK e2 :
         /\ Reaches("btn_touch", e1, ys, e2)
         /\ BtnOK(e2) /\ e2.active /\ e2.out = e1.out /\ e2.max_slot = e1.max_slot /\ e2.down = e1.down
         /\ e1.sx # Unseen => e2.sx = e1.sx
         /\ e1.sy # Unseen => e2.sy = e1.sy
         /\ e2.lx = e1.lx
         /\ e2.ly = IF p[2] # q[2] THEN y ELSE e1.ly
  <2> DEFINE same == p[2] = q[2]
  <2>1. same \in BOOLEAN
    OBVIOUS
  <2> HIDE DEF same
  <2>2. PICK e :
         /\ Reaches("btn_touch", e1, IF same THEN <<>> ELSE <<Line("Y", y)>>, e)
         /\ BtnOK(e) /\ e.active /\ e.out = e1.out /\ e.max_slot = e1.max_slot /\ e.down = e1.down
         /\ e1.sx # Unseen => e.sx = e1.sx
         /\ e1.sy # Unseen => e.sy = e1.sy
         /\ e.lx = IF "Y" = "X" /\ ~same THEN y ELSE e1.lx
         /\ e.ly = IF "Y" = "Y" /\ ~same THEN y ELSE e1.ly
    BY <1>3, <1>10, <2>1, BtnShifts
  <2>3. e.lx = e1.lx
    BY <2>2
  <2> QED BY <2>2, <2>3 DEF same
<1> HIDE DEF xs, ys
<1>12. Reaches("btn_touch", d, wire', e2)
  <2>1. Reaches("btn_touch", e0, xs \o ys, e2)
    BY <1>10, <1>11, ReachJoin
  <2> QED BY <1>4, <1>8, <2>1, ReachJoin
<1>13. e2.active /\ e2.out = d.out /\ e2.max_slot = e0.max_slot /\ e2.down = e0.down
  BY <1>9, <1>10, <1>11
<1>14. CASE f.alone
  <2>1. /\ s = 0 /\ kslot = 0 /\ d.max_slot = 0 /\ d.down = f.down
        /\ d.sx = f.from[1] * PanelX /\ d.sy = f.from[2] * PanelY
        /\ d.lx = p[1] * PanelX /\ d.ly = p[2] * PanelY
    BY <1>1, <1>14 DEF TouchFollows, p
  <2>2. \A t \in Slots : t # 0 => fingers[t] = Lifted
    BY <1>1, <1>14, <2>1 DEF OneAlone
  <2>3. /\ e0.max_slot = 0 /\ e0.down = f.down
        /\ e0.sx = f.from[1] * PanelX /\ e0.sy = f.from[2] * PanelY
        /\ e0.lx = p[1] * PanelX /\ e0.ly = p[2] * PanelY
    BY <1>8, <2>1 DEF HasTurned
  <2>4. e0.sx # Unseen /\ e0.sy # Unseen
    <3>1. e0.sx \in Nat /\ e0.sy \in Nat
      BY <1>2, <2>3, Panels
    <3> QED BY <3>1 DEF Unseen
  <2>5. e2.sx = f.from[1] * PanelX /\ e2.sy = f.from[2] * PanelY
    BY <1>10, <1>11, <2>3, <2>4
  <2>6. e2.lx = x
    BY <1>10, <1>11, <2>3 DEF x
  <2>7. e2.ly = y
    BY <1>10, <1>11, <2>3 DEF y
  <2>8. gs[0].alone /\ gs[0] # Lifted /\ \A t \in Slots : t # 0 => gs[t] = Lifted
    BY <1>5, <1>6, <1>14, <2>1, <2>2
  <2>9. e2.lx = gs[0].at[1] * PanelX /\ e2.ly = gs[0].at[2] * PanelY
    BY <1>6, <2>1, <2>6, <2>7 DEF x, y
  <2>10. /\ e2.sx = gs[0].from[1] * PanelX /\ e2.sy = gs[0].from[2] * PanelY
         /\ e2.down = gs[0].down /\ e2.max_slot = 0
    BY <1>6, <1>13, <2>1, <2>3, <2>5
  <2> HIDE DEF gs
  <2>11. TouchFollows(e2, gs, 0)
    BY <1>13, <2>8, <2>9, <2>10, AloneFollows
  <2> QED BY <1>1, <1>12, <1>13, <2>1, <2>11 DEF gs
<1>15. CASE ~f.alone
  <2>1. \A t \in Slots : fingers[t] # Lifted => ~fingers[t].alone
    BY <1>1, <1>15 DEF OneAlone
  <2>2. d.max_slot > 0
    BY <1>7, <2>1 DEF TouchFollows
  <2>3. e2.max_slot > 0
    <3>1. d.max_slot \in Nat /\ e0.max_slot \in Nat /\ e0.max_slot >= d.max_slot
      BY <1>8 DEF BtnOK, BtnStates, HasTurned
    <3> QED BY <1>13, <2>2, <3>1
  <2>4. \A t \in Slots : gs[t] # Lifted => ~gs[t].alone
    BY <1>5, <1>6, <1>15, <2>1
  <2> HIDE DEF gs
  <2>5. TouchFollows(e2, gs, s)
    BY <1>5, <1>13, <2>3, <2>4, BusyFollows
  <2> QED BY <1>1, <1>12, <1>13, <2>5 DEF gs
<1> QED BY <1>14, <1>15

\* The gesture of a finger alone is the one it made.
LEMMA BtnTells ==
  ASSUME NEW d, BtnOK(d), NEW e, NEW f \in Contacts, now \in Nat, HasUp(d, e),
         f.alone => /\ d.max_slot = 0 /\ d.down = f.down
                    /\ d.sx = f.from[1] * PanelX /\ d.sy = f.from[2] * PanelY
                    /\ d.lx = f.at[1] * PanelX /\ d.ly = f.at[2] * PanelY,
         ~f.alone => d.max_slot > 0
  PROVE  Tells(d, e, f, now)
<1> DEFINE g == BtnGesture(d, now, FALSE, LiveThresholds)
           c == [down |-> d.down, multi |-> d.max_slot > 0, sx |-> d.sx, sy |-> d.sy,
                 lx |-> d.lx, ly |-> d.ly]
<1>1. d \in BtnStates /\ d.out \in Seq(Gestures) /\ d.max_slot \in Nat
  BY DEF BtnOK, BtnStates
<1>2. g \in Gestures /\ g.truncated = FALSE /\ (Single(g) <=> d.max_slot = 0)
  <2>1. FALSE \in BOOLEAN
    OBVIOUS
  <2> QED BY <1>1, <2>1, BtnGestureTyped
<1>3. e.out = Append(d.out, g)
  BY DEF HasUp
<1>4. g = Closed(c, now, FALSE, LiveThresholds)
  BY DEF BtnGesture
<1>5. f.alone => g = Gestured(Ended(f, now))
  <2> SUFFICES ASSUME f.alone PROVE g = Gestured(Ended(f, now))
    OBVIOUS
  <2>3. ~(d.max_slot > 0)
    BY <1>1
  <2>4. ~c.multi
    BY <2>3
  <2>5. c.down = d.down /\ c.sx = d.sx /\ c.sy = d.sy /\ c.lx = d.lx /\ c.ly = d.ly
    OBVIOUS
  <2> HIDE DEF c
  <2>1. /\ c.down = f.down
        /\ c.sx = f.from[1] * PanelX /\ c.sy = f.from[2] * PanelY
        /\ c.lx = f.at[1] * PanelX /\ c.ly = f.at[2] * PanelY
    BY <2>5
  <2>2. f.from \in Places /\ f.at \in Places
    BY DEF Contacts
  <2> HIDE DEF g
  <2> QED BY <1>4, <2>1, <2>2, <2>4, AloneGesture
<1> HIDE DEF g
<1>6. ~f.alone => ~Single(g)
  BY <1>1, <1>2
<1>7. f.alone => Single(g)
  BY <1>2
<1> QED BY <1>1, <1>2, <1>3, <1>5, <1>6, <1>7, GestureTells

\* A finger is lifted: the last one releases the button.
LEMMA BtnLift ==
  ASSUME NEW d, BtnOK(d), proto # "type_b", now \in Nat, fingers \in FingersOf, OneAlone(fingers),
         TouchFollows(d, fingers, kslot), NEW s \in Slots, Lift(s)
  PROVE  \E e : /\ Reaches("btn_touch", d, wire', e)
                /\ TouchFollows(e, fingers', kslot') /\ Tells(d, e, fingers[s], now)
<1> DEFINE f == fingers[s]
           gs == [fingers EXCEPT ![s] = Lifted]
           up == IF Others(s) = {} THEN <<Line("BTN_TOUCH", "UP")>> ELSE <<>>
<1>1. /\ fingers' = gs /\ kslot' = s /\ f # Lifted
      /\ wire' = (Slotted(s) \o <<>>) \o up
  BY DEF Lift, Prints, Tracking, Button, TypeBDevice, Down
<1>2. gs[s] = Lifted /\ \A t \in Slots : t # s => gs[t] = fingers[t]
  BY DEF FingersOf
<1>3. f \in Contacts
  BY <1>1, FingerKinds
<1>4. d.active
  BY <1>1 DEF TouchFollows
<1>5. PICK e0 : Reaches("btn_touch", d, Slotted(s), e0) /\ BtnOK(e0) /\ HasTurned(d, e0, s)
  BY BtnTurns
<1>6. Reaches("btn_touch", d, Slotted(s) \o <<>>, e0)
  <2>1. Reaches("btn_touch", e0, <<>>, e0)
    BY <1>5, ReachNone DEF DecoderOK
  <2> QED BY <1>5, <2>1, ReachJoin
<1>7. e0.active /\ e0.out = d.out
  BY <1>4, <1>5 DEF HasTurned
<1>8. d.max_slot \in Nat /\ e0.max_slot \in Nat /\ e0.max_slot >= d.max_slot
  BY <1>5 DEF BtnOK, BtnStates, HasTurned
<1>9. ~f.alone => d.max_slot > 0
  <2> SUFFICES ASSUME ~f.alone PROVE d.max_slot > 0
    OBVIOUS
  <2>1. \A t \in Slots : fingers[t] # Lifted => ~fingers[t].alone
    BY <1>1 DEF OneAlone
  <2> QED BY <1>4, <2>1 DEF TouchFollows
<1> HIDE DEF gs
<1>10. CASE Others(s) = {}
  <2>1. \A t \in Slots : gs[t] = Lifted
    BY <1>2, <1>10 DEF Others, Down
  <2>2. PICK e : /\ Reaches("btn_touch", e0, <<Line("BTN_TOUCH", "UP")>>, e)
                 /\ BtnOK(e) /\ HasUp(e0, e)
    BY <1>5, <1>7, BtnUp
  <2>3. up = <<Line("BTN_TOUCH", "UP")>>
    BY <1>10
  <2> HIDE DEF up
  <2>4. Reaches("btn_touch", d, wire', e)
    BY <1>1, <1>6, <2>2, <2>3, ReachJoin
  <2>5. TouchFollows(e, gs, s)
    BY <2>1, <2>2 DEF TouchFollows, HasUp
  <2>6. f.alone => /\ e0.max_slot = 0 /\ e0.down = f.down
                   /\ e0.sx = f.from[1] * PanelX /\ e0.sy = f.from[2] * PanelY
                   /\ e0.lx = f.at[1] * PanelX /\ e0.ly = f.at[2] * PanelY
    BY <1>1, <1>5 DEF TouchFollows, HasTurned
  <2>7. ~f.alone => e0.max_slot > 0
    BY <1>8, <1>9
  <2> HIDE DEF f
  <2>8. Tells(e0, e, f, now)
    BY <1>3, <1>5, <2>2, <2>6, <2>7, BtnTells
  <2>9. Tells(d, e, f, now)
    BY <1>7, <2>8 DEF Tells
  <2> QED BY <1>1, <2>4, <2>5, <2>9 DEF f
<1>11. CASE Others(s) # {}
  <2>1. PICK t \in Slots : t # s /\ fingers[t] # Lifted
    BY <1>11 DEF Others, Down
  <2>2. ~f.alone /\ \A u \in Slots : fingers[u] # Lifted => ~fingers[u].alone
    BY <1>1, <2>1 DEF OneAlone
  <2>3. e0.max_slot > 0
    BY <1>8, <1>9, <2>2
  <2>4. Reaches("btn_touch", d, wire', e0)
    <3>1. Reaches("btn_touch", e0, <<>>, e0)
      BY <1>5, ReachNone DEF DecoderOK
    <3>2. up = <<>>
      BY <1>11
    <3> HIDE DEF up
    <3> QED BY <1>1, <1>6, <3>1, <3>2, ReachJoin
  <2>5. \A u \in Slots : gs[u] # Lifted => ~gs[u].alone
    BY <1>2, <2>2
  <2>6. \E u \in Slots : gs[u] # Lifted
    BY <1>2, <2>1
  <2>7. TouchFollows(e0, gs, s)
    BY <1>7, <2>3, <2>5, <2>6, BusyFollows
  <2>8. Tells(d, e0, f, now)
    BY <1>7, <2>2 DEF Tells
  <2> QED BY <1>1, <2>4, <2>7, <2>8
<1> QED BY <1>10, <1>11


-----------------------------------------------------------------------------
(* Prefixes *)

\* IsPrefix, element by element.
LEMMA PrefixPointwise ==
  ASSUME NEW L, NEW s \in Seq(L), NEW t \in Seq(L)
  PROVE  IsPrefix(s, t) <=> Len(s) <= Len(t) /\ \A i \in 1..Len(s) : s[i] = t[i]
<1>1. IsPrefix(s, t) <=> Len(s) <= Len(t) /\ SubSeq(s, 1, Len(s)) = SubSeq(t, 1, Len(s))
  BY DEF IsPrefix
<1>2. ASSUME Len(s) <= Len(t)
      PROVE  SubSeq(s, 1, Len(s)) = SubSeq(t, 1, Len(s)) <=> \A i \in 1..Len(s) : s[i] = t[i]
  <2> DEFINE n == Len(s)
             u == SubSeq(s, 1, n)
             v == SubSeq(t, 1, n)
  <2>1. n \in Nat
    OBVIOUS
  <2>2. /\ u \in Seq(L) /\ Len(u) = n /\ \A i \in 1..n : u[i] = s[i]
        /\ v \in Seq(L) /\ Len(v) = n /\ \A i \in 1..n : v[i] = t[i]
    BY <1>2
  <2> HIDE DEF u, v, n
  <2>3. u = v <=> \A i \in 1..n : u[i] = v[i]
    BY <2>2, SeqEqual
  <2> QED BY <2>2, <2>3 DEF u, v, n
<1> QED BY <1>1, <1>2

\* IsPrefix is reflexive.
LEMMA PrefixSelf ==
  ASSUME NEW L, NEW s \in Seq(L)
  PROVE  IsPrefix(s, s)
BY PrefixPointwise

\* A sequence is a prefix of itself and one more.
LEMMA PrefixAppend ==
  ASSUME NEW L, NEW s \in Seq(L), NEW e \in L
  PROVE  IsPrefix(s, Append(s, e))
<1> DEFINE t == Append(s, e)
<1>1. t \in Seq(L) /\ Len(s) <= Len(t) /\ \A i \in 1..Len(s) : s[i] = t[i]
  OBVIOUS
<1> HIDE DEF t
<1>2. IsPrefix(s, t)
  BY <1>1, PrefixPointwise
<1> QED BY <1>2 DEF t

\* IsPrefix is transitive.
LEMMA PrefixTransitive ==
  ASSUME NEW L, NEW s \in Seq(L), NEW t \in Seq(L), NEW u \in Seq(L), IsPrefix(s, t), IsPrefix(t, u)
  PROVE  IsPrefix(s, u)
<1>1. Len(s) <= Len(t) /\ \A i \in 1..Len(s) : s[i] = t[i]
  BY PrefixPointwise
<1>2. Len(t) <= Len(u) /\ \A i \in 1..Len(t) : t[i] = u[i]
  BY PrefixPointwise
<1>3. Len(s) \in Nat /\ Len(t) \in Nat /\ Len(u) \in Nat
  OBVIOUS
<1>4. Len(s) <= Len(u) /\ \A i \in 1..Len(s) : s[i] = u[i]
  BY <1>1, <1>2, <1>3
<1> QED BY <1>4, PrefixPointwise

\* What a decoder has told it never takes back.
LEMMA StepGrows ==
  ASSUME NEW p, NEW d, DecoderOK(p, d), NEW ev \in Lines, NEW thr
  PROVE  IsPrefix(Complete(d.out), Complete(Step(p, thr, d, ev).out))
<1> DEFINE e == Step(p, thr, d, ev)
           o == d.out
           c == Complete(o)
<1>1. o \in Seq(Gestures)
  BY DecoderTyped
<1>2. e.out = d.out \/ \E g \in Gestures : e.out = Append(d.out, g)
  <2>1. Effect(d, e, Holding(p, d), Holding(p, e))
    BY StepOK
  <2> HIDE DEF e
  <2> QED BY <2>1 DEF Effect, Closes
<1> HIDE DEF e, o
<1>3. c \in Seq(Gestures)
  BY <1>1, CompleteIsSeq
<1>4. ASSUME e.out = d.out
      PROVE  IsPrefix(c, Complete(e.out))
  <2>1. Complete(e.out) = c
    BY <1>4 DEF o
  <2> HIDE DEF c
  <2>2. IsPrefix(c, c)
    BY <1>3, PrefixSelf
  <2> QED BY <2>1, <2>2
<1>5. ASSUME NEW g \in Gestures, e.out = Append(d.out, g)
      PROVE  IsPrefix(c, Complete(e.out))
  <2>1. Complete(e.out) = Picked(c, g)
    BY <1>1, <1>5, CompleteSteps DEF o
  <2> HIDE DEF c
  <2>2. Picked(c, g) = c \/ Picked(c, g) = Append(c, g)
    BY DEF Picked
  <2>3. IsPrefix(c, c) /\ IsPrefix(c, Append(c, g))
    BY <1>3, PrefixSelf, PrefixAppend
  <2> QED BY <2>1, <2>2, <2>3
<1>6. IsPrefix(c, Complete(e.out))
  BY <1>2, <1>4, <1>5
<1> QED BY <1>6 DEF c, o, e

\* What is told of some lines begins what is told of them and more.
LEMMA DecoderGrows ==
  ASSUME NEW p, NEW evs \in Seq(Lines), NEW w \in Seq(Lines), NEW thr
  PROVE  IsPrefix(Complete(Decoder(p, evs, thr).out), Complete(Decoder(p, evs \o w, thr).out))
<1> DEFINE C(u) == Complete(Decoder(p, u, thr).out)
           T == {u \in Seq(Lines) : IsPrefix(C(evs), C(evs \o u))}
<1>1. ASSUME NEW u \in Seq(Lines) PROVE C(u) \in Seq(Gestures)
  BY DecoderIsOK, DecoderTyped, CompleteIsSeq
<1>2. <<>> \in T
  <2>1. evs \o <<>> = evs
    BY Concats
  <2>2. C(evs) \in Seq(Gestures)
    BY <1>1
  <2> HIDE DEF C
  <2>3. IsPrefix(C(evs), C(evs))
    BY <2>2, PrefixSelf
  <2> QED BY <2>1, <2>3
<1>3. ASSUME NEW u \in Seq(Lines), NEW ev \in Lines, u \in T
      PROVE  Append(u, ev) \in T
  <2> DEFINE v == evs \o u
  <2>1. v \in Seq(Lines) /\ Append(u, ev) \in Seq(Lines)
    BY Concats
  <2>2. evs \o Append(u, ev) = Append(v, ev)
    <3>1. Append(u, ev) = u \o <<ev>> /\ <<ev>> \in Seq(Lines)
      BY Concats
    <3>2. evs \o (u \o <<ev>>) = v \o <<ev>>
      BY <3>1, Concats
    <3> HIDE DEF v
    <3>3. v \o <<ev>> = Append(v, ev)
      BY <2>1, Concats
    <3> QED BY <3>1, <3>2, <3>3
  <2>3. Append(v, ev) \in Seq(Lines)
    BY <2>1
  <2> HIDE DEF v
  <2>4. Decoder(p, Append(v, ev), thr) = Step(p, thr, Decoder(p, v, thr), ev)
    BY <2>1, DecoderSteps
  <2>5. IsPrefix(C(v), C(Append(v, ev)))
    BY <2>1, <2>4, DecoderIsOK, StepGrows
  <2>6. C(evs) \in Seq(Gestures) /\ C(v) \in Seq(Gestures) /\ C(Append(v, ev)) \in Seq(Gestures)
    BY <1>1, <2>1, <2>3
  <2>7. IsPrefix(C(evs), C(v))
    BY <1>3 DEF v
  <2> HIDE DEF C
  <2>8. IsPrefix(C(evs), C(Append(v, ev)))
    BY <2>5, <2>6, <2>7, PrefixTransitive
  <2> QED BY <2>1, <2>2, <2>8
<1> HIDE DEF T
<1>4. Seq(Lines) \subseteq T
  BY <1>2, <1>3, SeqInduction
<1> QED BY <1>4 DEF T

\* A line that is read leaves what was printed as it was.
LEMMA ReadKeeps ==
  ASSUME NEW L, NEW s \in Seq(L), NEW w \in Seq(L), w # <<>>
  PROVE  /\ Head(w) \in L /\ Tail(w) \in Seq(L) /\ Append(s, Head(w)) \in Seq(L)
         /\ Append(s, Head(w)) \o Tail(w) = s \o w
         /\ Last(Append(s, Head(w))) = Head(w)
<1> DEFINE h == Head(w)
           t == Tail(w)
<1>1. h \in L /\ t \in Seq(L) /\ w = <<h>> \o t
  OBVIOUS
<1> HIDE DEF h, t
<1>2. <<h>> \in Seq(L) /\ Append(s, h) \in Seq(L) /\ Append(s, h) = s \o <<h>>
  BY <1>1
<1>3. s \o (<<h>> \o t) = (s \o <<h>>) \o t
  BY <1>1, <1>2, Concats
<1>4. Last(Append(s, h)) = h
  BY <1>1 DEF Last
<1> QED BY <1>1, <1>2, <1>3, <1>4 DEF h, t


-----------------------------------------------------------------------------
(* The inductive invariant *)

\* The decoder of the stream, on what has been read and on what has been printed.
Seen == Decoder(proto, events, LiveThresholds)
Whole == Decoder(proto, events \o wire, LiveThresholds)

Follow(p, d, fs, k) == IF p = "type_b" THEN SlotsFollow(d, fs, k) ELSE TouchFollows(d, fs, k)

TypeOK ==
  /\ proto \in Protocols
  /\ fingers \in FingersOf /\ kslot \in Slots
  /\ wire \in Seq(Lines) /\ now \in Nat /\ contacts \in Nat /\ moves \in Nat
  /\ events \in Seq(Lines) /\ emitted \in Nat
  /\ ended \in BOOLEAN /\ stop \in BOOLEAN
  /\ gq \in Seq(Gestures) /\ made \in Seq(Mades)

\* What has been printed keeps the fingers and has told what they made.
DeviceInv ==
  /\ OneAlone(fingers)
  /\ Follow(proto, Whole, fingers, kslot)
  /\ Complete(Whole.out) = Wanted

Halves(q, over) == \A k \in 1..Len(q) : Single(q[k]) /\ q[k].truncated => over /\ k = Len(q)

\* What has been read and told is in the queue.
ReaderInv ==
  /\ emitted = Counted(proto, Seen)
  /\ ~stop /\ ~ended => Complete(gq) = Complete(Seen.out)
  /\ IsPrefix(Complete(gq), Complete(Seen.out))
  /\ Halves(gq, ended)

CaptureInv == TypeOK /\ DeviceInv /\ ReaderInv

\* The two decoders of the invariant, and what they told, have their types.
LEMMA DecoderFacts ==
  ASSUME TypeOK
  PROVE  /\ DecoderOK(proto, Seen) /\ DecoderOK(proto, Whole)
         /\ Complete(Seen.out) \in Seq(Gestures) /\ Complete(Whole.out) \in Seq(Gestures)
         /\ Complete(gq) \in Seq(Gestures)
<1>1. events \in Seq(Lines) /\ wire \in Seq(Lines) /\ gq \in Seq(Gestures)
  BY DEF TypeOK
<1>2. events \o wire \in Seq(Lines)
  BY <1>1, Concats
<1>3. DecoderOK(proto, Seen) /\ DecoderOK(proto, Whole)
  BY <1>1, <1>2, DecoderIsOK DEF Seen, Whole
<1>4. Seen.out \in Seq(Gestures) /\ Whole.out \in Seq(Gestures)
  BY <1>3, DecoderTyped
<1> QED BY <1>1, <1>3, <1>4, CompleteIsSeq

\* Nothing has happened yet.
LEMMA InitInv ==
  ASSUME Init
  PROVE  CaptureInv
<1>1. TypeOK
  <2>1. fingers \in FingersOf
    BY DEF Init, FingersOf
  <2>2. 0 \in Slots
    BY CaptureAssumption
  <2>3. <<>> \in Seq(Lines) /\ <<>> \in Seq(Gestures) /\ <<>> \in Seq(Mades)
    OBVIOUS
  <2> QED BY <2>1, <2>2, <2>3 DEF Init, TypeOK
<1>2. Seen = Fresh(proto) /\ Whole = Fresh(proto)
  <2>1. events = <<>> /\ events \o wire = <<>>
    BY DEF Init
  <2> QED BY <2>1, DecoderStarts DEF Seen, Whole
<1>3. Holding(proto, Fresh(proto)) = 0 /\ Fresh(proto).out = <<>>
  BY FreshOK
<1>4. Complete(<<>>) = <<>>
  BY CompleteStarts
<1>5. \A s \in Slots : fingers[s] = Lifted
  BY DEF Init
<1>6. Follow(proto, Fresh(proto), fingers, kslot)
  <2>1. CASE proto = "type_b"
    <3> DEFINE f == Fresh(proto)
    <3>1. f = [slot |-> 0, open |-> <<>>, out |-> <<>>]
      BY <2>1 DEF Fresh
    <3> HIDE DEF f
    <3>2. f.slot = 0 /\ f.open = <<>>
      BY <3>1
    <3>3. Entries(f.open) = {}
      BY <3>2 DEF Entries
    <3>4. OnGlass(fingers) = {}
      BY <1>5 DEF OnGlass
    <3>5. kslot = 0
      BY DEF Init
    <3> QED BY <2>1, <3>2, <3>3, <3>4, <3>5 DEF Follow, SlotsFollow, f
  <2>2. CASE proto # "type_b"
    <3> DEFINE f == Fresh(proto)
    <3>1. f = Idle
      BY <2>2 DEF Fresh
    <3> HIDE DEF f
    <3>2. /\ ~f.active /\ f.max_slot = 0 /\ f.sx = Unseen /\ f.sy = Unseen
          /\ f.lx = Unseen /\ f.ly = Unseen
      BY <3>1 DEF Idle
    <3> QED BY <1>5, <2>2, <3>2 DEF Follow, TouchFollows, f
  <2> QED BY <2>1, <2>2
<1>7. Wanted = <<>>
  BY DEF Wanted, Init
<1>8. DeviceInv
  BY <1>2, <1>3, <1>4, <1>5, <1>6, <1>7 DEF DeviceInv, OneAlone
<1>9. emitted = Counted(proto, Seen)
  BY <1>2, <1>3 DEF Counted, Kept, Init
<1>10. Complete(gq) = <<>> /\ Complete(Seen.out) = <<>> /\ Halves(gq, ended)
  BY <1>2, <1>3, <1>4 DEF Init, Halves
<1>11. IsPrefix(<<>>, <<>>)
  <2>1. <<>> \in Seq(Gestures)
    OBVIOUS
  <2> QED BY <2>1, PrefixSelf
<1>12. ReaderInv
  BY <1>9, <1>10, <1>11 DEF ReaderInv
<1> QED BY <1>1, <1>8, <1>12 DEF CaptureInv

\* What the fingers made, once one more has made something.
LEMMA WantedGrows ==
  ASSUME made \in Seq(Mades), NEW c \in Mades, made' = Append(made, c)
  PROVE  Wanted' = Append(Wanted, Gestured(c))
<1> DEFINE n == Len(made)
           W == [i \in 1..n |-> Gestured(made[i])]
           V == [i \in 1..n + 1 |-> Gestured(made'[i])]
<1>1. n \in Nat /\ Len(made') = n + 1 /\ made'[n + 1] = c /\ \A i \in 1..n : made'[i] = made[i]
  OBVIOUS
<1>2. Wanted = W /\ Wanted' = V
  BY DEF Wanted
<1>3. /\ \A i \in 1..n : V[i] = W[i]
      /\ V[n + 1] = Gestured(c)
  BY <1>1
<1> DEFINE L == {Gestured(m) : m \in Mades}
           g == Gestured(c)
<1>4. W \in Seq(L) /\ Len(W) = n /\ V \in Seq(L) /\ Len(V) = n + 1 /\ g \in L
  <2>1. \A i \in 1..n : Gestured(made[i]) \in L
    OBVIOUS
  <2>2. \A i \in 1..n + 1 : Gestured(made'[i]) \in L
    OBVIOUS
  <2> HIDE DEF L
  <2> QED BY <1>1, <2>1, <2>2
<1> HIDE DEF W, V, n, L, g
<1>5. Append(W, g) = V
  <2> DEFINE A == Append(W, g)
  <2>1. A \in Seq(L) /\ Len(A) = n + 1 /\ A[n + 1] = g /\ \A i \in 1..n : A[i] = W[i]
    BY <1>4
  <2> HIDE DEF A
  <2>2. \A i \in 1..n + 1 : A[i] = V[i]
    BY <1>1, <1>3, <2>1 DEF g
  <2>3. A = V
    BY <1>4, <2>1, <2>2, SeqEqual
  <2> QED BY <2>3 DEF A
<1> QED BY <1>2, <1>5 DEF g


\* Fingers print lines; the stream and the queue are as they were.
Quiet == UNCHANGED <<proto, events, emitted, ended, gq, stop>>

\* The reader's part of the invariant does not look at the device.
LEMMA QuietReader ==
  ASSUME ReaderInv, Quiet
  PROVE  ReaderInv'
BY DEF ReaderInv, Quiet, Seen, Halves

\* The lines that are printed are fed to the decoder that has read all the others.
LEMMA Printed ==
  ASSUME TypeOK, wire = <<>>, Quiet, NEW e, Reaches(proto, Whole, wire', e)
  PROVE  Whole' = e
<1>1. events \o wire = events
  BY Concats DEF TypeOK
<1>2. Decoder(proto, events \o wire', LiveThresholds) = e
  BY <1>1 DEF Reaches, Feeds, Whole, TypeOK
<1> QED BY <1>2 DEF Whole, Quiet

\* Whatever the protocol, the decoder of what is printed keeps up with the fingers.
LEMMA LandFollowed ==
  ASSUME CaptureInv, NEW s \in Slots, Land(s)
  PROVE  \E e : /\ Reaches(proto, Whole, wire', e)
                /\ Follow(proto, e, fingers', kslot') /\ e.out = Whole.out
<1>1. /\ now \in Nat /\ contacts \in Nat /\ fingers \in FingersOf
      /\ Follow(proto, Whole, fingers, kslot) /\ proto \in {"type_b", "btn_touch"}
  BY CaptureAssumption DEF CaptureInv, TypeOK, DeviceInv
<1>2. DecoderOK(proto, Whole)
  BY DecoderFacts DEF CaptureInv
<1> DEFINE d == Whole
<1> HIDE DEF d
<1>3. CASE proto = "type_b"
  <2>1. TypeBOK(d) /\ SlotsFollow(d, fingers, kslot)
    BY <1>1, <1>2, <1>3 DEF DecoderOK, Follow, d
  <2>2. \E e : /\ Reaches("type_b", d, wire', e)
               /\ SlotsFollow(e, fingers', kslot') /\ e.out = d.out
    BY <1>1, <1>3, <2>1, TypeBLand
  <2> QED BY <1>3, <2>2 DEF Follow, d
<1>4. CASE proto = "btn_touch"
  <2>1. BtnOK(d) /\ TouchFollows(d, fingers, kslot)
    BY <1>1, <1>2, <1>4 DEF DecoderOK, Follow, d
  <2>2. \E e : /\ Reaches("btn_touch", d, wire', e)
               /\ TouchFollows(e, fingers', kslot') /\ e.out = d.out
    BY <1>1, <1>4, <2>1, BtnLand
  <2> QED BY <1>4, <2>2 DEF Follow, d
<1> QED BY <1>1, <1>3, <1>4

\* The decoder of what is printed follows a move.
LEMMA MoveFollowed ==
  ASSUME CaptureInv, NEW s \in Slots, NEW q \in Points, Move(s, q)
  PROVE  \E e : /\ Reaches(proto, Whole, wire', e)
                /\ Follow(proto, e, fingers', kslot') /\ e.out = Whole.out
<1>1. /\ now \in Nat /\ fingers \in FingersOf /\ OneAlone(fingers)
      /\ Follow(proto, Whole, fingers, kslot) /\ proto \in {"type_b", "btn_touch"}
  BY CaptureAssumption DEF CaptureInv, TypeOK, DeviceInv
<1>2. DecoderOK(proto, Whole)
  BY DecoderFacts DEF CaptureInv
<1> DEFINE d == Whole
<1> HIDE DEF d
<1>3. CASE proto = "type_b"
  <2>1. TypeBOK(d) /\ SlotsFollow(d, fingers, kslot)
    BY <1>1, <1>2, <1>3 DEF DecoderOK, Follow, d
  <2>2. \E e : /\ Reaches("type_b", d, wire', e)
               /\ SlotsFollow(e, fingers', kslot') /\ e.out = d.out
    BY <1>1, <1>3, <2>1, TypeBMove
  <2> QED BY <1>3, <2>2 DEF Follow, d
<1>4. CASE proto = "btn_touch"
  <2>1. BtnOK(d) /\ TouchFollows(d, fingers, kslot)
    BY <1>1, <1>2, <1>4 DEF DecoderOK, Follow, d
  <2>2. \E e : /\ Reaches("btn_touch", d, wire', e)
               /\ TouchFollows(e, fingers', kslot') /\ e.out = d.out
    BY <1>1, <2>1, BtnMove
  <2> QED BY <1>4, <2>2 DEF Follow, d
<1> QED BY <1>1, <1>3, <1>4

\* The decoder of what is printed follows a lift and tells it.
LEMMA LiftFollowed ==
  ASSUME CaptureInv, NEW s \in Slots, Lift(s) \/ Replace(s)
  PROVE  \E e : /\ Reaches(proto, Whole, wire', e)
                /\ Follow(proto, e, fingers', kslot') /\ Tells(Whole, e, fingers[s], now)
<1>1. /\ now \in Nat /\ contacts \in Nat /\ fingers \in FingersOf /\ OneAlone(fingers)
      /\ Follow(proto, Whole, fingers, kslot) /\ proto \in {"type_b", "btn_touch"}
  BY CaptureAssumption DEF CaptureInv, TypeOK, DeviceInv
<1>2. DecoderOK(proto, Whole)
  BY DecoderFacts DEF CaptureInv
<1> DEFINE d == Whole
<1> HIDE DEF d
<1>3. CASE proto = "type_b"
  <2>1. TypeBOK(d) /\ SlotsFollow(d, fingers, kslot)
    BY <1>1, <1>2, <1>3 DEF DecoderOK, Follow, d
  <2>2. \E e : /\ Reaches("type_b", d, wire', e)
               /\ SlotsFollow(e, fingers', kslot') /\ Tells(d, e, fingers[s], now)
    <3>1. CASE Lift(s)
      BY <1>1, <1>3, <2>1, <3>1, TypeBLift
    <3>2. CASE Replace(s)
      BY <1>1, <2>1, <3>2, TypeBReplace
    <3> QED BY <3>1, <3>2
  <2> QED BY <1>3, <2>2 DEF Follow, d
<1>4. CASE proto = "btn_touch"
  <2>1. BtnOK(d) /\ TouchFollows(d, fingers, kslot)
    BY <1>1, <1>2, <1>4 DEF DecoderOK, Follow, d
  <2>2. Lift(s)
    BY <1>4 DEF Replace, TypeBDevice
  <2>3. \E e : /\ Reaches("btn_touch", d, wire', e)
               /\ TouchFollows(e, fingers', kslot') /\ Tells(d, e, fingers[s], now)
    BY <1>1, <1>4, <2>1, <2>2, BtnLift
  <2> QED BY <1>4, <2>3 DEF Follow, d
<1> QED BY <1>1, <1>3, <1>4

-----------------------------------------------------------------------------
(* Every step keeps the invariant *)

\* Landing keeps the invariant.
LEMMA LandInv ==
  ASSUME CaptureInv, NEW s \in Slots, Land(s)
  PROVE  CaptureInv'
<1>1. Quiet /\ wire = <<>> /\ now' = now /\ moves' = moves /\ made' = made /\ kslot' = s
  BY DEF Land, Quiet, Prints
<1>2. PICK e : /\ Reaches(proto, Whole, wire', e)
               /\ Follow(proto, e, fingers', kslot') /\ e.out = Whole.out
  BY LandFollowed
<1>3. Whole' = e
  BY <1>1, <1>2, Printed DEF CaptureInv
<1> DEFINE q == Starts[contacts + 1]
<1>4. /\ now \in Nat /\ contacts \in Nat /\ fingers \in FingersOf
  BY DEF CaptureInv, TypeOK
<1>5. q \in Places /\ contacts' \in Nat
  BY <1>4, NextStart DEF Land
<1>6. fingers' = Landed(fingers, s, now, q)
  BY DEF Land, Landed, Others, Down
<1> HIDE DEF q
<1>7. fingers' \in FingersOf
  BY <1>4, <1>5, <1>6, LandedTyped
<1>8. wire' \in Seq(Lines)
  BY <1>2 DEF Reaches
<1>9. TypeOK'
  BY <1>1, <1>5, <1>7, <1>8 DEF CaptureInv, TypeOK, Quiet
<1>10. OneAlone(fingers')
  <2> SUFFICES ASSUME NEW t \in Slots, NEW u \in Slots, fingers'[t] # Lifted, fingers'[u] # Lifted, t # u
               PROVE  ~fingers'[t].alone
    BY DEF OneAlone
  <2>1. /\ t = s => fingers'[t] = [down |-> now, from |-> q, at |-> q,
                                   alone |-> {w \in Slots \ {s} : fingers[w] # Lifted} = {}]
        /\ t # s => fingers[t] # Lifted /\ fingers'[t] = [fingers[t] EXCEPT !.alone = FALSE]
        /\ u # s => fingers[u] # Lifted
    BY <1>6 DEF Landed
  <2>2. CASE t = s
    <3> DEFINE alone == {w \in Slots \ {s} : fingers[w] # Lifted} = {}
    <3>1. ~alone
      BY <2>1, <2>2
    <3>2. fingers'[t] = [down |-> now, from |-> q, at |-> q, alone |-> alone]
      BY <2>1, <2>2
    <3> HIDE DEF alone
    <3> QED BY <3>1, <3>2
  <2>3. CASE t # s
    <3>1. fingers[t] \in Contacts
      BY <1>4, <2>1, <2>3, FingerKinds
    <3> QED BY <2>1, <2>3, <3>1 DEF Contacts
  <2> QED BY <2>2, <2>3
<1>11. Wanted' = Wanted
  BY <1>1 DEF Wanted
<1>12. DeviceInv'
  BY <1>1, <1>2, <1>3, <1>10, <1>11 DEF CaptureInv, DeviceInv, Quiet
<1>13. ReaderInv'
  BY <1>1, QuietReader DEF CaptureInv
<1> QED BY <1>9, <1>12, <1>13 DEF CaptureInv

\* Moving keeps the invariant.
LEMMA MoveInv ==
  ASSUME CaptureInv, NEW s \in Slots, NEW q \in Points, Move(s, q)
  PROVE  CaptureInv'
<1>1. Quiet /\ wire = <<>> /\ now' = now /\ contacts' = contacts /\ made' = made /\ kslot' = s
  BY DEF Move, Quiet, Prints
<1>2. PICK e : /\ Reaches(proto, Whole, wire', e)
               /\ Follow(proto, e, fingers', kslot') /\ e.out = Whole.out
  BY MoveFollowed
<1>3. Whole' = e
  BY <1>1, <1>2, Printed DEF CaptureInv
<1>4. fingers \in FingersOf /\ q \in Places /\ fingers[s] # Lifted /\ moves' \in Nat
  <2>1. fingers \in FingersOf /\ moves \in Nat
    BY DEF CaptureInv, TypeOK
  <2>2. q \in Places
    BY CaptureAssumption DEF Places
  <2>3. fingers[s] # Lifted /\ moves' = moves + 1
    BY DEF Move, Down
  <2> QED BY <2>1, <2>2, <2>3
<1>5. fingers' = Shifted(fingers, s, q)
  BY DEF Move, Shifted
<1>6. /\ fingers' \in FingersOf
      /\ fingers'[s] = [down |-> fingers[s].down, from |-> fingers[s].from,
                        at |-> q, alone |-> fingers[s].alone]
      /\ \A t \in Slots : t # s => fingers'[t] = fingers[t]
  BY <1>4, <1>5, ShiftedFinger
<1>7. wire' \in Seq(Lines)
  BY <1>2 DEF Reaches
<1>8. TypeOK'
  BY <1>1, <1>4, <1>6, <1>7 DEF CaptureInv, TypeOK, Quiet
<1>9. OneAlone(fingers')
  <2>1. OneAlone(fingers)
    BY DEF CaptureInv, DeviceInv
  <2>2. fingers'[s].alone = fingers[s].alone
    <3> DEFINE f == fingers[s]
               g == fingers'[s]
    <3>1. g = [down |-> f.down, from |-> f.from, at |-> q, alone |-> f.alone]
      BY <1>6
    <3> HIDE DEF f, g
    <3>2. g.alone = f.alone
      BY <3>1
    <3> QED BY <3>2 DEF f, g
  <2>3. \A t \in Slots : fingers'[t] # Lifted => fingers[t] # Lifted
    BY <1>4, <1>6
  <2>4. \A t \in Slots : fingers'[t].alone = fingers[t].alone
    BY <1>6, <2>2
  <2> QED BY <2>1, <2>3, <2>4 DEF OneAlone
<1>10. Wanted' = Wanted
  BY <1>1 DEF Wanted
<1>11. DeviceInv'
  BY <1>1, <1>2, <1>3, <1>9, <1>10 DEF CaptureInv, DeviceInv, Quiet
<1>12. ReaderInv'
  BY <1>1, QuietReader DEF CaptureInv
<1> QED BY <1>8, <1>11, <1>12 DEF CaptureInv

\* A finger goes, and another may take its slot: the made and the told grow together.
LEMMA LiftInv ==
  ASSUME CaptureInv, NEW s \in Slots, Lift(s) \/ Replace(s)
  PROVE  CaptureInv'
<1>1. /\ Quiet /\ wire = <<>> /\ now' = now /\ moves' = moves
      /\ kslot' = s /\ Ends(s) /\ fingers[s] # Lifted
  BY DEF Lift, Replace, Quiet, Prints, Down
<1>2. PICK e : /\ Reaches(proto, Whole, wire', e)
               /\ Follow(proto, e, fingers', kslot') /\ Tells(Whole, e, fingers[s], now)
  BY LiftFollowed
<1>3. Whole' = e
  BY <1>1, <1>2, Printed DEF CaptureInv
<1>4. /\ now \in Nat /\ contacts \in Nat /\ fingers \in FingersOf
      /\ made \in Seq(Mades) /\ OneAlone(fingers)
  BY DEF CaptureInv, TypeOK, DeviceInv
<1> DEFINE f == fingers[s]
           c == Ended(f, now)
<1>5. f \in Contacts
  BY <1>1, <1>4, FingerKinds
<1>6. c \in Mades
  BY <1>4, <1>5 DEF Ended, Mades, Contacts
<1>7. made' = IF f.alone THEN Append(made, c) ELSE made
  BY <1>1 DEF Ends, Ended
<1>8. made' \in Seq(Mades)
  BY <1>4, <1>6, <1>7
<1>9. Wanted' = IF f.alone THEN Append(Wanted, Gestured(c)) ELSE Wanted
  <2>1. CASE f.alone
    BY <1>4, <1>6, <1>7, <2>1, WantedGrows
  <2>2. CASE ~f.alone
    BY <1>7, <2>2 DEF Wanted
  <2> QED BY <2>1, <2>2
<1>10. Complete(e.out) = Wanted'
  <2>1. Complete(Whole.out) = Wanted
    BY DEF CaptureInv, DeviceInv
  <2> QED BY <1>2, <1>9, <2>1 DEF Tells
<1>11. contacts' \in Nat
  BY <1>4 DEF Lift, Replace
<1>12. fingers' \in FingersOf /\ OneAlone(fingers')
  <2>1. CASE Lift(s)
    <3>1. fingers' = [fingers EXCEPT ![s] = Lifted]
      BY <2>1 DEF Lift
    <3>2. fingers' \in FingersOf
      BY <1>4, <3>1 DEF FingersOf
    <3>3. OneAlone(fingers')
      BY <1>4, <3>1 DEF OneAlone, FingersOf
    <3> QED BY <3>2, <3>3
  <2>2. CASE Replace(s)
    <3> DEFINE q == Starts[contacts + 1]
               alone == Others(s) = {}
               g == [down |-> now, from |-> q, at |-> q, alone |-> alone]
    <3>1. fingers' = [fingers EXCEPT ![s] = g]
      BY <2>2 DEF Replace
    <3>2. q \in Places
      BY <1>4, <2>2, NextStart DEF Replace
    <3>3. alone \in BOOLEAN
      OBVIOUS
    <3> HIDE DEF q, alone
    <3>4. g \in Contacts /\ g.alone = alone
      BY <1>4, <3>2, <3>3 DEF Contacts
    <3> HIDE DEF g
    <3>5. fingers' \in FingersOf
      BY <1>4, <3>1, <3>4 DEF FingersOf
    <3>6. fingers'[s] = g /\ \A t \in Slots : t # s => fingers'[t] = fingers[t]
      BY <1>4, <3>1 DEF FingersOf
    <3>7. OneAlone(fingers')
      <4> SUFFICES ASSUME NEW t \in Slots, NEW u \in Slots,
                          fingers'[t] # Lifted, fingers'[u] # Lifted, t # u
                   PROVE  ~fingers'[t].alone
        BY DEF OneAlone
      <4>1. CASE t = s
        <5>1. u \in Others(s)
          BY <3>6, <4>1 DEF Others, Down
        <5> QED BY <3>4, <3>6, <4>1, <5>1 DEF alone
      <4>2. CASE t # s
        BY <1>1, <1>4, <3>6, <4>2 DEF OneAlone
      <4> QED BY <4>1, <4>2
    <3> QED BY <3>5, <3>7
  <2> QED BY <2>1, <2>2
<1>13. wire' \in Seq(Lines)
  BY <1>2 DEF Reaches
<1>14. TypeOK'
  BY <1>1, <1>8, <1>11, <1>12, <1>13 DEF CaptureInv, TypeOK, Quiet
<1>15. DeviceInv'
  BY <1>1, <1>2, <1>3, <1>10, <1>12 DEF DeviceInv, Quiet
<1>16. ReaderInv'
  BY <1>1, QuietReader DEF CaptureInv
<1> QED BY <1>14, <1>15, <1>16 DEF CaptureInv


\* The clock keeps the invariant: it is not read by what was printed.
LEMMA TickInv ==
  ASSUME CaptureInv, Tick
  PROVE  CaptureInv'
<1>1. now' \in Nat /\ UNCHANGED <<proto, fingers, kslot, wire, contacts, moves, made,
                                 events, emitted, ended, gq, stop>>
  BY DEF CaptureInv, TypeOK, Tick
<1>2. TypeOK'
  BY <1>1 DEF CaptureInv, TypeOK
<1>3. DeviceInv'
  BY <1>1 DEF CaptureInv, DeviceInv, Whole, Wanted
<1>4. ReaderInv'
  BY <1>1 DEF CaptureInv, ReaderInv, Seen, Halves
<1> QED BY <1>2, <1>3, <1>4 DEF CaptureInv

\* What a gesture put in the queue does to what the queue holds.
LEMMA QueueOne ==
  ASSUME NEW q \in Seq(Gestures), NEW over, Halves(q, FALSE), NEW g \in Gestures,
         Single(g) /\ g.truncated => over
  PROVE  /\ q \o <<g>> \in Seq(Gestures) /\ Complete(q \o <<g>>) = Picked(Complete(q), g)
         /\ Halves(q \o <<g>>, over)
<1> DEFINE r == Append(q, g)
<1>1. q \o <<g>> = r
  BY Concats
<1>2. /\ r \in Seq(Gestures) /\ Len(r) = Len(q) + 1 /\ r[Len(q) + 1] = g
      /\ \A k \in 1..Len(q) : r[k] = q[k]
  OBVIOUS
<1>3. Complete(r) = Picked(Complete(q), g)
  BY CompleteSteps
<1> HIDE DEF r
<1>4. Halves(r, over)
  <2> SUFFICES ASSUME NEW k \in 1..Len(r), Single(r[k]), r[k].truncated
               PROVE  over /\ k = Len(r)
    BY DEF Halves
  <2>1. Len(q) \in Nat
    OBVIOUS
  <2>2. ~(k \in 1..Len(q))
    <3> SUFFICES ASSUME k \in 1..Len(q) PROVE FALSE
      OBVIOUS
    <3>1. r[k] = q[k]
      BY <1>2
    <3> QED BY <3>1 DEF Halves
  <2>3. k = Len(q) + 1
    BY <1>2, <2>1, <2>2
  <2> QED BY <1>2, <2>3
<1> QED BY <1>1, <1>2, <1>3, <1>4

\* Reading a line keeps the invariant: what it tells new is put in the queue.
LEMMA ReadInv ==
  ASSUME CaptureInv, Read
  PROVE  CaptureInv'
<1> DEFINE ev == Head(wire)
           evs == Append(events, ev)
           d == Seen
           e == Step(proto, LiveThresholds, d, ev)
           final == Final(e.out \o Held(proto, e, ev.ts, LiveThresholds))
           new == After(emitted, final)
<1>1. /\ events \in Seq(Lines) /\ wire \in Seq(Lines) /\ wire # <<>> /\ ~ended
      /\ gq \in Seq(Gestures) /\ emitted = Counted(proto, d)
      /\ wire' = Tail(wire) /\ events' = evs
      /\ UNCHANGED <<proto, fingers, kslot, now, contacts, moves, made, ended, stop>>
  BY DEF CaptureInv, TypeOK, ReaderInv, Read
<1>2. /\ ev \in Lines /\ wire' \in Seq(Lines) /\ evs \in Seq(Lines)
      /\ evs \o wire' = events \o wire /\ Last(evs) = ev
  BY <1>1, ReadKeeps
<1>3. Seen' = e
  BY <1>1, <1>2, DecoderSteps DEF Seen
<1>4. Whole' = Whole
  BY <1>1, <1>2 DEF Whole
<1>5. DecoderOK(proto, d) /\ DecoderOK(proto, e) /\ ev.ts \in Nat
  BY <1>2, DecoderFacts, StepOK, LineKinds DEF CaptureInv
<1>6. Len(final) = Counted(proto, e) /\ Yields(d, e, new)
  BY <1>1, <1>2, <1>5, ReadYields
<1>7. emitted' = Len(final) /\ gq' = IF stop THEN gq ELSE gq \o new
  <2>1. decode(proto, evs, LiveThresholds)
          = Decoder(proto, evs, LiveThresholds).out
              \o Held(proto, Decoder(proto, evs, LiveThresholds), Last(evs).ts, LiveThresholds)
    BY DEF decode
  <2>2. Decoder(proto, evs, LiveThresholds) = e
    BY <1>1, <1>2, DecoderSteps DEF Seen
  <2> HIDE DEF evs, e, ev
  <2>3. Final(decode(proto, evs, LiveThresholds)) = final
    BY <1>2, <2>1, <2>2
  <2>4. events' = evs
    BY <1>1
  <2>5. /\ Pump(After(emitted, Final(decode(proto, evs, LiveThresholds))))
        /\ emitted' = Len(Final(decode(proto, evs, LiveThresholds)))
    BY <2>4 DEF Read
  <2> QED BY <2>3, <2>5 DEF Pump
<1> DEFINE told == Complete(d.out)
           tells == Complete(e.out)
<1> HIDE DEF ev, evs, final, new, d, e
<1>8. /\ Halves(gq, FALSE) /\ (~stop => Complete(gq) = told) /\ IsPrefix(Complete(gq), told)
  BY <1>1 DEF CaptureInv, ReaderInv, Halves, d
<1>9. d.out \in Seq(Gestures) /\ e.out \in Seq(Gestures)
  BY <1>5, DecoderTyped
<1>10. told \in Seq(Gestures) /\ tells \in Seq(Gestures) /\ Complete(gq) \in Seq(Gestures)
  BY <1>1, <1>9, CompleteIsSeq
<1>11. IsPrefix(told, tells)
  BY <1>2, <1>5, StepGrows DEF e
<1>12. /\ gq' \in Seq(Gestures) /\ Halves(gq', FALSE)
       /\ (~stop => Complete(gq') = tells) /\ IsPrefix(Complete(gq'), tells)
  <2>1. CASE stop
    <3>1. gq' = gq
      BY <1>7, <2>1
    <3> HIDE DEF told, tells
    <3>2. IsPrefix(Complete(gq), tells)
      BY <1>8, <1>10, <1>11, PrefixTransitive
    <3> QED BY <1>1, <1>8, <2>1, <3>1, <3>2
  <2>2. CASE ~stop
    <3>1. gq' = gq \o new /\ Complete(gq) = told
      BY <1>7, <1>8, <2>2
    <3>2. gq' \in Seq(Gestures) /\ Halves(gq', FALSE) /\ Complete(gq') = tells
      <4>1. CASE new = <<>> /\ tells = told
        <5>1. gq' = gq
          BY <1>1, <3>1, <4>1, Concats
        <5> QED BY <1>1, <1>8, <3>1, <4>1, <5>1
      <4>2. ASSUME NEW g \in Gestures, new = <<g>>, ~Single(g), tells = told
            PROVE  gq' \in Seq(Gestures) /\ Halves(gq', FALSE) /\ Complete(gq') = tells
        <5>1. gq' \in Seq(Gestures) /\ Halves(gq', FALSE) /\ Complete(gq') = Picked(Complete(gq), g)
          BY <1>1, <1>8, <3>1, <4>2, QueueOne
        <5>2. Picked(Complete(gq), g) = Complete(gq)
          BY <4>2 DEF Picked, Counts
        <5> QED BY <3>1, <4>2, <5>1, <5>2
      <4>3. ASSUME NEW g \in Gestures, new = <<g>>, ~g.truncated, e.out = Append(d.out, g)
            PROVE  gq' \in Seq(Gestures) /\ Halves(gq', FALSE) /\ Complete(gq') = tells
        <5>1. gq' \in Seq(Gestures) /\ Halves(gq', FALSE) /\ Complete(gq') = Picked(Complete(gq), g)
          BY <1>1, <1>8, <3>1, <4>3, QueueOne
        <5> DEFINE o == d.out
        <5> HIDE DEF o
        <5>2. o \in Seq(Gestures)
          BY <1>9 DEF o
        <5>3. Complete(Append(o, g)) = Picked(Complete(o), g)
          BY <5>2, CompleteSteps
        <5>4. tells = Picked(told, g)
          BY <4>3, <5>3 DEF o
        <5> HIDE DEF told, tells
        <5> QED BY <3>1, <5>1, <5>4
      <4> QED BY <1>6, <4>1, <4>2, <4>3 DEF Yields
    <3> HIDE DEF tells
    <3>3. IsPrefix(tells, tells)
      BY <1>10, PrefixSelf
    <3> QED BY <2>2, <3>2, <3>3
  <2> QED BY <2>1, <2>2
<1>13. Counted(proto, e) \in Nat
  <2>1. Len(e.out) \in Nat /\ Holding(proto, e) \in Nat
    BY <1>5, <1>9, DecoderTyped
  <2> HIDE DEF e
  <2> QED BY <2>1 DEF Counted, Kept
<1>14. TypeOK'
  <2>1. emitted' \in Nat
    BY <1>6, <1>7, <1>13
  <2> QED BY <1>1, <1>2, <1>12, <2>1 DEF CaptureInv, TypeOK
<1>15. DeviceInv'
  BY <1>1, <1>4 DEF CaptureInv, DeviceInv, Wanted
<1>16. ReaderInv'
  <2>1. emitted' = Counted(proto', Seen')
    BY <1>1, <1>3, <1>6, <1>7 DEF e
  <2>2. Halves(gq', ended')
    BY <1>1, <1>12 DEF Halves
  <2>3. Complete(Seen'.out) = tells
    BY <1>3 DEF e
  <2> QED BY <1>1, <1>12, <2>1, <2>2, <2>3 DEF ReaderInv
<1> QED BY <1>14, <1>15, <1>16 DEF CaptureInv

\* The flush keeps the invariant: it adds what is held, of which one is single at most.
LEMMA EndInv ==
  ASSUME CaptureInv, EndOfStream
  PROVE  CaptureInv'
<1> DEFINE r == Decoder(proto, events, RawThresholds)
           flushed == IF events = <<>> THEN <<>> ELSE decode(proto, events, RawThresholds)
           new == After(emitted, flushed)
<1>1. /\ events \in Seq(Lines) /\ ~ended /\ ended' = TRUE
      /\ gq \in Seq(Gestures) /\ emitted = Counted(proto, Seen)
      /\ gq' = (IF stop THEN gq ELSE gq \o new)
      /\ UNCHANGED <<proto, deviceVars, events, emitted, stop>>
  BY DEF CaptureInv, TypeOK, ReaderInv, EndOfStream, Pump
<1>2. DecoderOK(proto, r) /\ Counted(proto, r) = Counted(proto, Seen)
  <2>1. DecoderOK(proto, r) /\ SameFor(proto, r, Seen)
    BY <1>1, DecoderIsOK DEF Seen
  <2> HIDE DEF r
  <2>2. Len(r.out) = Len(Seen.out) /\ Holding(proto, r) = Holding(proto, Seen)
    BY <2>1, SameHolds
  <2> QED BY <2>1, <2>2 DEF Counted
<1>3. new = <<>> \/ \E g \in Gestures : new = <<g>> /\ g.truncated
  <2>1. CASE events = <<>>
    <3>1. flushed = <<>>
      BY <2>1
    <3>2. Seen = Fresh(proto)
      BY <2>1, DecoderStarts DEF Seen
    <3>3. emitted = 0
      BY <1>1, <3>2, FreshOK DEF Counted, Kept
    <3>4. <<>> \in Seq(Gestures) /\ Len(<<>>) = 0
      OBVIOUS
    <3> HIDE DEF flushed
    <3> QED BY <3>1, <3>3, <3>4, AfterProperties
  <2>2. CASE events # <<>>
    <3> DEFINE ts == Last(events).ts
    <3>1. ts \in Nat
      <4>1. Last(events) \in Lines
        <5> HIDE DEF Lines
        <5> QED BY <1>1, <2>2 DEF Last
      <4> QED BY <4>1, LineKinds
    <3>2. flushed = r.out \o Held(proto, r, ts, RawThresholds)
      BY <2>2 DEF decode
    <3>3. emitted = Counted(proto, r)
      BY <1>1, <1>2
    <3> HIDE DEF r, ts, flushed
    <3> QED BY <1>2, <3>1, <3>2, <3>3, EndYields
  <2> QED BY <2>1, <2>2
<1> HIDE DEF new
<1>4. Halves(gq, FALSE) /\ Halves(gq, TRUE)
  BY <1>1 DEF CaptureInv, ReaderInv, Halves
<1>5. gq' \in Seq(Gestures) /\ Complete(gq') = Complete(gq) /\ Halves(gq', TRUE)
  <2>1. CASE stop
    BY <1>1, <1>4, <2>1
  <2>2. CASE new = <<>>
    <3>1. gq \o <<>> = gq
      BY <1>1, Concats
    <3> QED BY <1>1, <1>4, <2>2, <3>1
  <2>3. ASSUME NEW g \in Gestures, new = <<g>>, g.truncated, ~stop
        PROVE  gq' \in Seq(Gestures) /\ Complete(gq') = Complete(gq) /\ Halves(gq', TRUE)
    <3>1. /\ gq \o <<g>> \in Seq(Gestures) /\ Complete(gq \o <<g>>) = Picked(Complete(gq), g)
          /\ Halves(gq \o <<g>>, TRUE)
      BY <1>1, <1>4, QueueOne
    <3>2. Picked(Complete(gq), g) = Complete(gq)
      BY <2>3 DEF Picked, Counts
    <3> QED BY <1>1, <2>3, <3>1, <3>2
  <2> QED BY <1>3, <2>1, <2>2, <2>3
<1>6. TypeOK'
  BY <1>1, <1>5 DEF CaptureInv, TypeOK, deviceVars
<1>7. DeviceInv'
  BY <1>1 DEF CaptureInv, DeviceInv, Whole, Wanted, deviceVars
<1>8. ReaderInv'
  <2>1. Seen' = Seen
    BY <1>1 DEF Seen
  <2> QED BY <1>1, <1>5, <2>1 DEF CaptureInv, ReaderInv, Halves
<1> QED BY <1>6, <1>7, <1>8 DEF CaptureInv

\* The deadline keeps the invariant.
LEMMA DeadlineInv ==
  ASSUME CaptureInv, Deadline
  PROVE  CaptureInv'
<1>1. stop' = TRUE /\ UNCHANGED <<proto, deviceVars, events, emitted, ended, gq>>
  BY DEF Deadline
<1>2. TypeOK'
  BY <1>1 DEF CaptureInv, TypeOK, deviceVars
<1>3. DeviceInv'
  BY <1>1 DEF CaptureInv, DeviceInv, Whole, Wanted, deviceVars
<1>4. ReaderInv'
  BY <1>1 DEF CaptureInv, ReaderInv, Seen, Halves
<1> QED BY <1>2, <1>3, <1>4 DEF CaptureInv

\* Every step keeps the invariant.
LEMMA NextInv ==
  ASSUME CaptureInv, [Next]_vars
  PROVE  CaptureInv'
<1>1. CASE UNCHANGED vars
  <2>1. UNCHANGED <<proto, fingers, kslot, wire, now, contacts, moves, made,
                   events, emitted, ended, gq, stop>>
    BY <1>1 DEF vars, deviceVars
  <2>2. TypeOK'
    BY <2>1 DEF CaptureInv, TypeOK
  <2>3. DeviceInv'
    BY <2>1 DEF CaptureInv, DeviceInv, Whole, Wanted
  <2>4. ReaderInv'
    BY <2>1 DEF CaptureInv, ReaderInv, Seen, Halves
  <2> QED BY <2>2, <2>3, <2>4 DEF CaptureInv
<1>2. ASSUME NEW s \in Slots, Land(s)
      PROVE  CaptureInv'
  BY <1>2, LandInv
<1>3. ASSUME NEW s \in Slots, Lift(s) \/ Replace(s)
      PROVE  CaptureInv'
  BY <1>3, LiftInv
<1>4. ASSUME NEW s \in Slots, NEW q \in Points, Move(s, q)
      PROVE  CaptureInv'
  BY <1>4, MoveInv
<1>5. CASE Tick
  BY <1>5, TickInv
<1>6. CASE Read
  BY <1>6, ReadInv
<1>7. CASE EndOfStream
  BY <1>7, EndInv
<1>8. CASE Deadline
  BY <1>8, DeadlineInv
<1> QED BY <1>1, <1>2, <1>3, <1>4, <1>5, <1>6, <1>7, <1>8 DEF Next

-----------------------------------------------------------------------------
(* The theorems *)

\* In every run of the device and the stream the decoder of what is printed keeps
\* the fingers and has told what they made, and the queue holds what has been read
\* and told: the inductive invariant, types included.
THEOREM Captures == Spec => []CaptureInv
<1>1. Init => CaptureInv
  BY InitInv
<1>2. CaptureInv /\ [Next]_vars => CaptureInv'
  BY NextInv
<1> QED BY <1>1, <1>2, PTL DEF Spec

\* The recorder gets exactly the gestures that one finger made alone, in order and
\* each for what it was, and all of them once the lines are read: for any panel,
\* any number of slots and contacts, both protocols.
THEOREM GesturesArriveAsMade == Spec => []GesturesAsMade
<1>1. CaptureInv => GesturesAsMade
  <2> SUFFICES ASSUME CaptureInv PROVE GesturesAsMade
    OBVIOUS
  <2>1. /\ Complete(gq) \in Seq(Gestures) /\ Complete(Seen.out) \in Seq(Gestures)
        /\ Complete(Whole.out) \in Seq(Gestures)
    BY DecoderFacts DEF CaptureInv
  <2>2. /\ events \in Seq(Lines) /\ wire \in Seq(Lines) /\ Complete(Whole.out) = Wanted
        /\ IsPrefix(Complete(gq), Complete(Seen.out))
        /\ (~stop /\ ~ended => Complete(gq) = Complete(Seen.out))
    BY DEF CaptureInv, TypeOK, DeviceInv, ReaderInv
  <2>3. IsPrefix(Complete(Seen.out), Complete(Whole.out))
    BY <2>2, DecoderGrows DEF Seen, Whole
  <2>4. IsPrefix(Complete(gq), Complete(Whole.out))
    BY <2>1, <2>2, <2>3, PrefixTransitive
  <2>5. ASSUME wire = <<>> PROVE Whole = Seen
    <3>1. events \o wire = events
      BY <2>2, <2>5, Concats
    <3> QED BY <3>1 DEF Whole, Seen
  <2> QED BY <2>2, <2>4, <2>5 DEF GesturesAsMade
<1> QED BY <1>1, Captures, PTL

\* A touch whose finger is still down reaches the queue only when the stream is
\* over, and is then the last in it.
THEOREM NoTouchHalved == Spec => []NoHalfTouch
<1>1. CaptureInv => NoHalfTouch
  <2> SUFFICES ASSUME CaptureInv, NEW i \in DOMAIN gq, Single(gq[i]), gq[i].truncated
               PROVE  ended /\ \A j \in DOMAIN gq : j > i => ~Single(gq[j])
    BY DEF NoHalfTouch
  <2>1. gq \in Seq(Gestures) /\ Halves(gq, ended)
    BY DEF CaptureInv, TypeOK, ReaderInv
  <2>2. DOMAIN gq = 1..Len(gq) /\ Len(gq) \in Nat
    BY <2>1
  <2>3. ended /\ i = Len(gq)
    BY <2>1, <2>2 DEF Halves
  <2> QED BY <2>2, <2>3
<1> QED BY <1>1, Captures, PTL
=============================================================================
