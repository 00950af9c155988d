---------------------------- MODULE RevealProofs ----------------------------
(***************************************************************************)
(* Proofs about the reveal, for every layout: any rows, bounds, recorded   *)
(* gestures, and overlay.                                                  *)
(***************************************************************************)
EXTENDS Reveal, TLAPS, SequenceTheorems

USE ScrollAssumption

(***************************************************************************)
(* A layout's numbers are integers, and so are those of the observation.   *)
(***************************************************************************)
LEMMA LayoutNumbers ==
  ASSUME lay \in Layouts
  PROVE  /\ lay.lo \in Int /\ lay.hi \in Int /\ lay.dim \in Int
         /\ \A r \in Rows : Top(r) \in Int /\ Height(r) \in Int
         /\ \A v \in lay.over : v.a \in Int /\ v.b \in Int
         /\ Furthest \in Nat
<1>1. /\ lay.lo \in Int /\ lay.hi \in Int /\ lay.dim \in Int
      /\ \A r \in Rows : Top(r) \in Int /\ Height(r) \in Int
      /\ \A v \in lay.over : v.a \in Int /\ v.b \in Int
      /\ Len(lay.rows) \in Rows
  BY LayoutsAssumption DEF Rows, Top, Height
<1>2. Furthest \in Nat
  <2>1. Length \in Int
    BY <1>1 DEF Length
  <2> QED
    BY <1>1, <2>1 DEF Furthest, Larger
<1> QED
  BY <1>1, <1>2

\* The middle of a box of two pixels or more lies inside it.
LEMMA MiddleInside ==
  ASSUME NEW t \in Int, NEW b \in Int, b - t >= 2
  PROVE  /\ (t + b) \div 2 \in Int
         /\ t < (t + b) \div 2 /\ (t + b) \div 2 < b
  OBVIOUS

LEMMA BoxNumbers ==
  ASSUME lay \in Layouts, NEW r \in Rows, NEW o \in Int
  PROVE  Box(r, o).top \in Int /\ Box(r, o).bottom \in Int
  BY LayoutNumbers DEF Box, Larger, Lesser

\* The part of a box clear of an overlay lies in the box.
LEMMA TrimmedInside ==
  ASSUME lay \in Layouts, NEW r \in Rows, NEW o \in Int
  PROVE  /\ ClearBox(r, o).top \in Int /\ ClearBox(r, o).bottom \in Int
         /\ Box(r, o).top <= ClearBox(r, o).top
         /\ ClearBox(r, o).bottom <= Box(r, o).bottom
<1> DEFINE box == Box(r, o)
           v == CHOOSE w \in lay.over : TRUE
<1>1. box.top \in Int /\ box.bottom \in Int
  BY BoxNumbers
<1>2. CASE ~Covers(box) \/ ~v.wide
  BY <1>1, <1>2 DEF ClearBox, Trimmed
<1>3. CASE Covers(box) /\ v.wide
  <2>1. v \in lay.over
    BY <1>3 DEF Covers
  <2>2. v.a \in Int /\ v.b \in Int
    BY <2>1, LayoutNumbers
  <2>3. ClearBox(r, o) =
          [top |-> IF v.a <= box.top THEN Larger(box.top, v.b) ELSE box.top,
           bottom |-> IF v.b >= box.bottom THEN Lesser(box.bottom, v.a) ELSE box.bottom]
    BY <1>3 DEF ClearBox, Trimmed
  <2> HIDE DEF v, box
  <2>4. /\ ClearBox(r, o).top \in Int /\ ClearBox(r, o).bottom \in Int
        /\ box.top <= ClearBox(r, o).top
        /\ ClearBox(r, o).bottom <= box.bottom
    BY <1>1, <2>2, <2>3 DEF Larger, Lesser
  <2> QED
    BY <2>4 DEF box
<1> QED
  BY <1>2, <1>3

\* Where a row that can be tapped is tapped: on the row, and on nothing over it.
LEMMA TapPointIsClear ==
  ASSUME lay \in Layouts, NEW r \in Rows, NEW o \in Int, CanTap(r, o)
  PROVE  /\ Box(r, o).top <= TapPoint(r, o) /\ TapPoint(r, o) <= Box(r, o).bottom
         /\ ~Overlaid(TapPoint(r, o))
<1> DEFINE clear == ClearBox(r, o)
           box == Box(r, o)
<1>1. /\ box.top \in Int /\ box.bottom \in Int /\ clear.top \in Int /\ clear.bottom \in Int
      /\ box.top <= clear.top /\ clear.bottom <= box.bottom
  BY BoxNumbers, TrimmedInside
<1>2. clear.bottom - clear.top >= 2
  BY <1>1 DEF CanTap, IsClear
<1>3. TapPoint(r, o) = (clear.top + clear.bottom) \div 2
  BY DEF TapPoint, Middle
<1> HIDE DEF clear, box
<1>4. /\ TapPoint(r, o) \in Int
      /\ clear.top < TapPoint(r, o) /\ TapPoint(r, o) < clear.bottom
  BY <1>1, <1>2, <1>3, MiddleInside
<1>5. box.top < TapPoint(r, o) /\ TapPoint(r, o) < box.bottom
  BY <1>1, <1>4
<1>6. ~Overlaid(TapPoint(r, o))
  <2>1. CASE Covers(box)
    BY <2>1 DEF CanTap, TapPoint, box
  <2>2. CASE ~Covers(box)
    <3> SUFFICES ASSUME NEW v \in lay.over, v.a <= TapPoint(r, o), TapPoint(r, o) <= v.b
                 PROVE  FALSE
      BY DEF Overlaid
    <3>1. v.a \in Int /\ v.b \in Int
      BY LayoutNumbers
    <3>2. v.b > box.top /\ v.a < box.bottom
      BY <1>1, <1>4, <1>5, <3>1
    <3> QED
      BY <2>2, <3>2 DEF Covers
  <2> QED
    BY <2>1, <2>2
<1>7. box.top <= TapPoint(r, o) /\ TapPoint(r, o) <= box.bottom
  BY <1>1, <1>4, <1>5
<1> QED
  BY <1>6, <1>7 DEF box

(***************************************************************************)
(* The run of a reveal.                                                    *)
(***************************************************************************)
Numbers ==
  /\ lay \in Layouts
  /\ offset \in Nat
  /\ left \in Seq(Pixels)
  /\ swipe.start \in Int /\ swipe.end \in Int

\* A list that is looked at has not moved since, nor has anything opened over it
\* before it was looked at.
Current == /\ pc = "look" => dump = offset
           /\ there = "list" => saw = "list"

\* A tap ends the run.
TapEnds == tapped # -1 => pc = "revealed"

RevealInv == Numbers /\ Current /\ TapEnds /\ TapHitsRow

\* A generated swipe runs forward between two pixels, at most half its band.
LEMMA AdvanceIsHalf ==
  ASSUME NEW lo \in Int, NEW hi \in Int, NEW dim \in Int
  PROVE  LET span == AdvanceSpan(lo, hi, dim)
         IN  /\ span.start \in Int /\ span.end \in Int
             /\ Travel(span) \in 0 .. Half(lo, hi)
<1> DEFINE ends == Ends(lo, hi, dim)
           half == Half(lo, hi)
           end == Capped(ends.start, ends.end, half)
           span == AdvanceSpan(lo, hi, dim)
<1>1. half \in Nat /\ half >= 1
  BY DEF Half, Larger
<1>2. ends.start \in Int /\ ends.end \in Int
  <2> DEFINE inset == Inset(lo, hi)
             clear == Clearance(lo, hi, dim)
             start == IF hi >= dim - inset THEN Lesser(hi - inset, dim - clear) ELSE hi - inset
             stop == IF lo <= inset THEN Larger(lo + inset, clear) ELSE lo + inset
  <2>1. inset \in Int
    BY DEF Inset, Larger
  <2>2. (12 * dim) \div 100 \in Int
    OBVIOUS
  <2>3. clear \in Int
    BY <2>1, <2>2 DEF Clearance, Larger
  <2>4. ends = IF start <= stop THEN [start |-> dim - clear, end |-> clear]
                                ELSE [start |-> start, end |-> stop]
    BY DEF Ends
  <2> HIDE DEF inset, clear, ends
  <2>5. start \in Int /\ stop \in Int
    BY <2>1, <2>3 DEF Lesser, Larger
  <2> HIDE DEF start, stop
  <2> QED
    BY <2>3, <2>4, <2>5
<1>3. span = IF ends.start > end THEN [start |-> ends.start, end |-> end] ELSE [start |-> lo, end |-> lo]
  BY DEF AdvanceSpan
<1> HIDE DEF ends, half, span
<1>4. end \in Int /\ ends.start - end <= half
  BY <1>1, <1>2 DEF Capped
<1> HIDE DEF end
<1>5. span.start \in Int /\ span.end \in Int /\ Travel(span) \in 0 .. half
  <2>1. CASE ends.start > end
    BY <1>1, <1>2, <1>3, <1>4, <2>1 DEF Travel
  <2>2. CASE ~(ends.start > end)
    BY <1>1, <1>3, <2>2 DEF Travel
  <2> QED
    BY <2>1, <2>2
<1> QED
  BY <1>5 DEF span, half

LEMMA BandNumbers ==
  ASSUME lay \in Layouts
  PROVE  Band.lo \in Int /\ Band.hi \in Int
<1> DEFINE covered == {v \in lay.over : v.b > lay.lo /\ v.a < lay.hi}
           w == CHOOSE v \in covered : TRUE
<1>1. covered # {} => w \in lay.over
  OBVIOUS
<1>2. covered # {} => w.a \in Int /\ w.b \in Int
  BY <1>1, LayoutNumbers
<1> DEFINE high == \E v \in covered : v.b >= lay.hi /\ v.a > lay.lo
           hi == IF high THEN Lesser(lay.hi, w.a) ELSE lay.hi
           low == hi = lay.hi /\ \E v \in covered : v.a <= lay.lo /\ v.b < lay.hi
           lo == IF low THEN Larger(lay.lo, w.b) ELSE lay.lo
<1>3. (high => covered # {}) /\ (low => covered # {})
  OBVIOUS
<1>4. Band = IF hi > lo THEN [lo |-> lo, hi |-> hi] ELSE [lo |-> lay.lo, hi |-> lay.hi]
  BY DEF Band
<1> HIDE DEF covered, w, high, low
<1>5. hi \in Int /\ lo \in Int
  BY <1>2, <1>3, LayoutNumbers DEF Lesser, Larger
<1> HIDE DEF hi, lo
<1> QED
  BY <1>4, <1>5, LayoutNumbers

LEMMA InitReveals == Init => RevealInv
<1> SUFFICES ASSUME Init PROVE RevealInv
  OBVIOUS
<1>1. lay.gestures \in Seq(Pixels)
  BY LayoutsAssumption DEF Init
<1> QED
  BY <1>1 DEF Init, RevealInv, Numbers, Current, TapEnds, TapHitsRow

LEMMA StepReveals == RevealInv /\ [Next]_vars => RevealInv'
<1> SUFFICES ASSUME RevealInv, [Next]_vars
             PROVE  RevealInv'
  OBVIOUS
<1> USE DEF RevealInv
<1>1. ASSUME pc # "revealed", UNCHANGED <<lay, tapped>>, Numbers', Current'
      PROVE  RevealInv'
  BY <1>1 DEF TapEnds, TapHitsRow
<1>2. CASE Start
  BY <1>1, <1>2 DEF Start, Observed, Numbers, Current, End
<1>3. CASE Reveals
  <2>2. /\ dump = offset /\ tapped = -1 /\ pc' = "revealed"
        /\ UNCHANGED <<lay, offset, there, saw, left, swipe>>
    BY <1>3 DEF Reveals, End, Current, TapEnds
  <2>4. TapHitsRow'
    <3> SUFFICES ASSUME tapped' # -1, saw = "list"
                 PROVE  TapHitsRow'
      BY <2>2 DEF TapHitsRow
    <3>6. PICK r \in Found(dump) : tapped' = IF lay.act = "tap" THEN TapPoint(r, dump) ELSE tapped
      BY <1>3 DEF Reveals, Taps
    <3>7. r \in Rows /\ lay.rows[r].label = lay.wanted /\ CanTap(r, offset)
      BY <2>2, <3>6 DEF Found
    <3>1. tapped' = TapPoint(r, offset)
      BY <2>2, <3>6
    <3>2. offset \in Int
      BY DEF Numbers
    <3>3. /\ Box(r, offset).top <= tapped' /\ tapped' <= Box(r, offset).bottom
          /\ ~Overlaid(tapped')
      BY <3>7, <3>1, <3>2, TapPointIsClear DEF Numbers
    <3>4. r \in Seen(offset)
      BY <3>7 DEF CanTap
    <3>5. /\ Seen(offset)' = Seen(offset) /\ Box(r, offset)' = Box(r, offset)
          /\ Overlaid(tapped)' = ~(~Overlaid(tapped'))
      BY <2>2 DEF Seen, Box, Rows, Top, Height, Overlaid
    <3> QED
      BY <2>2, <3>7, <3>3, <3>4, <3>5 DEF TapHitsRow
  <2> QED
    BY <2>2, <2>4 DEF Numbers, Current, TapEnds
<1>4. CASE Ambiguous
  BY <1>1, <1>4 DEF Ambiguous, Numbers, Current, End
<1>5. CASE OutOfBudget
  BY <1>1, <1>5 DEF OutOfBudget, NotFound, Numbers, Current, End
<1>6. CASE RefuseRetreat
  BY <1>1, <1>6 DEF RefuseRetreat, NotFound, Numbers, Current, End
<1>7. CASE Choose
  <2>1. Numbers'
    <3>1. left' \in Seq(Pixels)
      BY <1>7 DEF Choose, Numbers
    <3>2. left # <<>> => Head(left).start \in Int /\ Head(left).end \in Int
      <4>1. left # <<>> => Head(left) \in Pixels
        BY HeadTailProperties DEF Numbers
      <4> QED
        BY <4>1 DEF Pixels
    <3>3. swipe'.start \in Int /\ swipe'.end \in Int
      <4> DEFINE span == AdvanceSpan(Band.lo, Band.hi, lay.dim)
      <4>1. span.start \in Int /\ span.end \in Int
        BY BandNumbers, AdvanceIsHalf, LayoutNumbers DEF Numbers
      <4>2. swipe' = IF left # <<>> /\ ~Walks
                     THEN [start |-> Head(left).start, end |-> Head(left).end, kind |-> "recorded"]
                     ELSE [start |-> span.start, end |-> span.end, kind |-> "advance"]
        BY <1>7 DEF Choose
      <4> HIDE DEF span
      <4> QED
        BY <3>2, <4>1, <4>2
    <3> QED
      BY <1>7, <3>1, <3>3 DEF Choose, Numbers
  <2> QED
    BY <1>1, <1>7, <2>1 DEF Choose, NotFound, Current
<1>8. CASE Swipe
  <2>1. offset' \in Nat
    <3>1. ASSUME NEW extra \in Int
          PROVE  Lesser(Furthest, Larger(0, offset + Travel(swipe) + extra)) \in Nat
      <4>1. Furthest \in Nat /\ offset + Travel(swipe) + extra \in Int
        BY LayoutNumbers DEF Numbers, Travel
      <4> QED
        BY <4>1 DEF Lesser, Larger
    <3> QED
      BY <1>8, <3>1, RevealAssumption DEF Swipe, Numbers
  <2> QED
    BY <1>1, <1>8, <2>1 DEF Swipe, Numbers, Current
<1>9. CASE Observe
  BY <1>1, <1>9 DEF Observe, Observed, Numbers, Current, End
<1>10. CASE Leave
  BY <1>1, <1>10 DEF Leave, Ended, Numbers, Current
<1>11. CASE UNCHANGED vars
  BY <1>11 DEF vars, Numbers, Current, TapEnds, TapHitsRow, Overlaid, Seen, Box, Rows, Top, Height
<1> QED
  BY <1>2, <1>3, <1>4, <1>5, <1>6, <1>7, <1>8, <1>9, <1>10, <1>11 DEF Next

LEMMA InvariantReveal == Spec => []RevealInv
<1>1. Init => RevealInv
  BY InitReveals
<1>2. RevealInv /\ [Next]_vars => RevealInv'
  BY StepReveals
<1> QED
  BY <1>1, <1>2, PTL DEF Spec

\* On every layout, whatever is drawn over it, a tap hits the row it was meant for and
\* nothing drawn over it.
THEOREM TapsHitTheirRow == Spec => []TapHitsRow
<1>1. RevealInv => TapHitsRow
  BY DEF RevealInv
<1> QED
  BY <1>1, InvariantReveal, PTL

(***************************************************************************)
(* What of a row drawn from x, h pixels high, can be seen between lo and   *)
(* hi, and whether that is enough to tap.                                  *)
(***************************************************************************)
Shown(lo, hi, x, h) == [top |-> Larger(lo, x), bottom |-> Lesser(hi, x + h)]
Tall(lo, hi, x, h) == IsClear(Shown(lo, hi, x, h))
Mid(lo, hi, x, h) == Middle(Shown(lo, hi, x, h))

\* A row tall enough somewhere along a step is so at one of its ends, the step
\* being short of the space by the least a tap needs.
LEMMA TallAtAnEnd ==
  ASSUME NEW lo \in Int, NEW hi \in Int, NEW h \in Int,
         NEW x \in Int, NEW near \in Int, NEW far \in Int,
         far <= x, x <= near, near - far <= hi - lo - MinClear,
         Tall(lo, hi, x, h)
  PROVE  Tall(lo, hi, near, h) \/ Tall(lo, hi, far, h)
<1>1. /\ hi - lo >= MinClear /\ h >= MinClear
      /\ x + h - lo >= MinClear /\ hi - x >= MinClear
  BY DEF Tall, IsClear, Shown, Larger, Lesser
<1>2. CASE hi - near >= MinClear
  BY <1>1, <1>2 DEF Tall, IsClear, Shown, Larger, Lesser
<1>3. CASE hi - near < MinClear
  <2>1. far + h - lo >= MinClear /\ hi - far >= MinClear
    BY <1>1, <1>3
  <2> QED
    BY <1>1, <2>1 DEF Tall, IsClear, Shown, Larger, Lesser
<1> QED
  BY <1>2, <1>3

\* The same where an overlay over the end of the space, from a on, must be
\* missed by the middle of what is seen,
LEMMA AboveAtAnEnd ==
  ASSUME NEW lo \in Int, NEW hi \in Int, NEW h \in Int, NEW a \in Int, lo < a, a < hi,
         NEW x \in Int, NEW near \in Int, NEW far \in Int,
         far <= x, x <= near, near - far <= a - lo - MinClear,
         Tall(lo, hi, x, h), Mid(lo, hi, x, h) < a
  PROVE  \/ Tall(lo, hi, near, h) /\ Mid(lo, hi, near, h) < a
         \/ Tall(lo, hi, far, h) /\ Mid(lo, hi, far, h) < a
<1>1. /\ hi - lo >= MinClear /\ h >= MinClear
      /\ x + h - lo >= MinClear /\ hi - x >= MinClear
  BY DEF Tall, IsClear, Shown, Larger, Lesser
<1>2. Mid(lo, hi, far, h) < a
  BY DEF Mid, Middle, Shown, Larger, Lesser
<1>3. CASE far + h - lo >= MinClear
  BY <1>1, <1>2, <1>3 DEF Tall, IsClear, Shown, Larger, Lesser
<1>4. CASE far + h - lo < MinClear
  <2>1. near <= a - h - 1
    BY <1>4
  <2>2. hi - near >= MinClear /\ near + h - lo >= MinClear
    BY <1>1, <2>1
  <2>3. Tall(lo, hi, near, h)
    BY <1>1, <2>2 DEF Tall, IsClear, Shown, Larger, Lesser
  <2>4. Larger(lo, near) + Lesser(hi, near + h) < 2 * a
    BY <1>1, <2>1 DEF Larger, Lesser
  <2>5. Mid(lo, hi, near, h) < a
    BY <2>4 DEF Mid, Middle, Shown, Larger, Lesser
  <2> QED
    BY <2>3, <2>5
<1> QED
  BY <1>3, <1>4

\* or one over its beginning, up to b.
LEMMA BelowAtAnEnd ==
  ASSUME NEW lo \in Int, NEW hi \in Int, NEW h \in Int, NEW b \in Int, lo < b, b < hi,
         NEW x \in Int, NEW near \in Int, NEW far \in Int,
         far <= x, x <= near, near - far <= hi - b - MinClear,
         Tall(lo, hi, x, h), Mid(lo, hi, x, h) > b
  PROVE  \/ Tall(lo, hi, near, h) /\ Mid(lo, hi, near, h) > b
         \/ Tall(lo, hi, far, h) /\ Mid(lo, hi, far, h) > b
<1>1. /\ hi - lo >= MinClear /\ h >= MinClear
      /\ x + h - lo >= MinClear /\ hi - x >= MinClear
  BY DEF Tall, IsClear, Shown, Larger, Lesser
<1>2. Mid(lo, hi, near, h) > b
  BY DEF Mid, Middle, Shown, Larger, Lesser
<1>3. CASE hi - near >= MinClear
  BY <1>1, <1>2, <1>3 DEF Tall, IsClear, Shown, Larger, Lesser
<1>4. CASE hi - near < MinClear
  <2>1. far >= b + 1
    BY <1>4
  <2>2. hi - far >= MinClear /\ far + h - lo >= MinClear
    BY <1>1, <2>1
  <2>3. Tall(lo, hi, far, h)
    BY <1>1, <2>2 DEF Tall, IsClear, Shown, Larger, Lesser
  <2>4. Larger(lo, far) + Lesser(hi, far + h) >= 2 * (b + 1)
    BY <1>1, <2>1, <2>2 DEF Larger, Lesser
  <2>5. Mid(lo, hi, far, h) > b
    BY <2>4 DEF Mid, Middle, Shown, Larger, Lesser
  <2> QED
    BY <2>3, <2>5
<1> QED
  BY <1>3, <1>4

(***************************************************************************)
(* When a row can be tapped, by where the overlay lies.                    *)
(***************************************************************************)
From(r, o) == lay.lo + Top(r) - o
Whole(r, o) == Tall(lay.lo, lay.hi, From(r, o), Height(r))
MidOf(r, o) == Mid(lay.lo, lay.hi, From(r, o), Height(r))

Misses(v) == v.b <= lay.lo \/ v.a >= lay.hi
Foot(v) == lay.lo < v.a /\ v.a < lay.hi /\ lay.hi <= v.b
Crown(v) == v.a <= lay.lo /\ lay.lo < v.b /\ v.b < lay.hi
Hides(v) == v.a <= lay.lo /\ lay.hi <= v.b
Alone(v) == lay.over = {v}

LEMMA BoxIsShown ==
  ASSUME NEW r, NEW o
  PROVE  Box(r, o) = Shown(lay.lo, lay.hi, From(r, o), Height(r))
  BY DEF Box, Shown, From

LEMMA RowNumbers ==
  ASSUME lay \in Layouts, NEW r \in Rows, NEW o \in Int
  PROVE  From(r, o) \in Int /\ Height(r) \in Int /\ lay.lo \in Int /\ lay.hi \in Int
  BY LayoutNumbers DEF From

\* No overlay, or one beside the list.
LEMMA TapUncovered ==
  ASSUME lay \in Layouts, NEW r \in Rows, NEW o \in Int, \A v \in lay.over : Misses(v)
  PROVE  CanTap(r, o) <=> Whole(r, o)
<1> DEFINE box == Box(r, o)
<1>1. box.top \in Int /\ box.bottom \in Int /\ lay.lo <= box.top /\ box.bottom <= lay.hi
  BY RowNumbers, BoxIsShown DEF Shown, Larger, Lesser
<1> HIDE DEF box
<1>2. ~Covers(box)
  BY <1>1, LayoutNumbers DEF Covers, Misses
<1>3. ClearBox(r, o) = box
  BY <1>2 DEF ClearBox, Trimmed, box
<1>4. IsClear(box) => box.top < box.bottom
  BY <1>1 DEF IsClear
<1>5. IsClear(box) <=> Whole(r, o)
  BY BoxIsShown DEF box, Whole, Tall
<1> QED
  BY <1>2, <1>3, <1>4, <1>5 DEF CanTap, Seen, box

\* An overlay over the whole list.
LEMMA TapHidden ==
  ASSUME lay \in Layouts, NEW r \in Rows, NEW o \in Int, NEW v, Alone(v), Hides(v)
  PROVE  ~CanTap(r, o)
<1> DEFINE box == Box(r, o)
<1>1. /\ box.top \in Int /\ box.bottom \in Int /\ lay.lo <= box.top /\ box.bottom <= lay.hi
      /\ lay.lo \in Int /\ lay.hi \in Int /\ v.a \in Int /\ v.b \in Int
  BY RowNumbers, BoxIsShown, LayoutNumbers DEF Shown, Larger, Lesser, Alone
<1> SUFFICES ASSUME CanTap(r, o) PROVE FALSE
  OBVIOUS
<1>2. box.top < box.bottom
  BY DEF CanTap, Seen
<1> HIDE DEF box
<1>3. Covers(box)
  BY <1>1, <1>2 DEF Covers, Alone, Hides
<1>4. CASE v.wide
  <2>1. ClearBox(r, o) = [top |-> Larger(box.top, v.b), bottom |-> Lesser(box.bottom, v.a)]
    BY <1>1, <1>3, <1>4 DEF ClearBox, Trimmed, Alone, Hides, box
  <2>2. ~IsClear(ClearBox(r, o))
    BY <1>1, <2>1 DEF IsClear, Hides, Larger, Lesser
  <2> QED
    BY <2>2 DEF CanTap
<1>5. CASE ~v.wide
  <2>1. ClearBox(r, o) = box
    BY <1>5 DEF ClearBox, Trimmed, Alone, box
  <2>2. /\ Middle(box) \in Int /\ box.top <= Middle(box) /\ Middle(box) <= box.bottom
    BY <1>1, <1>2 DEF Middle
  <2>3. Overlaid(Middle(box))
    BY <1>1, <2>2 DEF Overlaid, Alone, Hides
  <2> QED
    BY <1>3, <2>1, <2>3 DEF CanTap, box
<1> QED
  BY <1>4, <1>5

\* A wide overlay over the list's end, or over its beginning.
LEMMA TapAboveBar ==
  ASSUME lay \in Layouts, NEW r \in Rows, NEW o \in Int, NEW v, Alone(v), Foot(v), v.wide
  PROVE  CanTap(r, o) <=> Tall(lay.lo, v.a, From(r, o), Height(r))
<1> DEFINE box == Box(r, o)
           part == Shown(lay.lo, v.a, From(r, o), Height(r))
<1>1. /\ lay.lo \in Int /\ lay.hi \in Int /\ v.a \in Int /\ v.b \in Int
      /\ From(r, o) \in Int /\ Height(r) \in Int
  BY RowNumbers, LayoutNumbers DEF Alone
<1>2. /\ box.top = Larger(lay.lo, From(r, o)) /\ box.bottom = Lesser(lay.hi, From(r, o) + Height(r))
      /\ part.top = box.top /\ part.bottom = Lesser(v.a, From(r, o) + Height(r))
  BY BoxIsShown DEF Shown
<1>3. /\ box.top \in Int /\ box.bottom \in Int /\ lay.lo <= box.top /\ box.bottom <= lay.hi
      /\ part.bottom = Lesser(v.a, box.bottom)
  BY <1>1, <1>2 DEF Larger, Lesser, Foot
<1>4. r \in Seen(o) <=> box.top < box.bottom
  BY DEF Seen
<1>5. Tall(lay.lo, v.a, From(r, o), Height(r)) <=> part.bottom - part.top >= MinClear
  BY DEF Tall, IsClear
<1>6. box = [top |-> box.top, bottom |-> box.bottom]
  BY DEF Box
<1>7. ClearBox(r, o) = Trimmed(box)
  BY DEF ClearBox
<1> HIDE DEF box, part
<1>8. CASE ~(box.top < box.bottom)
  BY <1>1, <1>2, <1>3, <1>4, <1>5, <1>8 DEF CanTap, Lesser
<1>9. CASE box.top < box.bottom /\ ~Covers(box)
  <2>1. v.a >= box.bottom
    BY <1>1, <1>3, <1>9 DEF Covers, Alone, Foot
  <2>2. Trimmed(box) = box /\ part.bottom = box.bottom
    BY <1>1, <1>3, <1>9, <2>1 DEF Trimmed, Lesser
  <2> QED
    BY <1>2, <1>4, <1>5, <1>7, <1>9, <2>2 DEF CanTap, IsClear, box
<1>10. CASE box.top < box.bottom /\ Covers(box)
  <2>1. v.a < box.bottom /\ v.b >= box.bottom
    BY <1>1, <1>3, <1>10 DEF Covers, Alone, Foot
  <2>2. CASE v.a <= box.top
    <3>1. Trimmed(box) = [top |-> Larger(box.top, v.b), bottom |-> Lesser(box.bottom, v.a)]
      BY <1>10, <2>1, <2>2 DEF Trimmed, Alone
    <3>2. ~IsClear(Trimmed(box))
      BY <1>1, <1>3, <2>1, <2>2, <3>1 DEF IsClear, Larger, Lesser
    <3>3. ~(part.bottom - part.top >= MinClear)
      BY <1>1, <1>2, <1>3, <2>2 DEF Lesser
    <3> QED
      BY <1>5, <1>7, <3>2, <3>3 DEF CanTap
  <2>3. CASE ~(v.a <= box.top)
    <3>1. Trimmed(box) = [top |-> box.top, bottom |-> v.a]
      BY <1>1, <1>3, <1>10, <2>1, <2>3 DEF Trimmed, Alone, Lesser
    <3>2. part.bottom = v.a
      BY <1>1, <1>3, <2>1 DEF Lesser
    <3>3. IsClear(Trimmed(box)) <=> part.bottom - part.top >= MinClear
      BY <1>2, <3>1, <3>2 DEF IsClear
    <3>4. Middle(Trimmed(box)) < v.a
      BY <1>1, <1>3, <2>3, <3>1 DEF Middle
    <3>5. Middle(Trimmed(box)) \in Int
      BY <1>1, <1>3, <3>1 DEF Middle
    <3>6. ~Overlaid(Middle(Trimmed(box)))
      BY <1>1, <3>4, <3>5 DEF Overlaid, Alone
    <3> QED
      BY <1>4, <1>5, <1>7, <1>10, <3>3, <3>6 DEF CanTap
  <2> QED
    BY <2>2, <2>3
<1> QED
  BY <1>8, <1>9, <1>10

LEMMA TapBelowBar ==
  ASSUME lay \in Layouts, NEW r \in Rows, NEW o \in Int, NEW v, Alone(v), Crown(v), v.wide
  PROVE  CanTap(r, o) <=> Tall(v.b, lay.hi, From(r, o), Height(r))
<1> DEFINE box == Box(r, o)
           part == Shown(v.b, lay.hi, From(r, o), Height(r))
<1>1. /\ lay.lo \in Int /\ lay.hi \in Int /\ v.a \in Int /\ v.b \in Int
      /\ From(r, o) \in Int /\ Height(r) \in Int
  BY RowNumbers, LayoutNumbers DEF Alone
<1>2. /\ box.top = Larger(lay.lo, From(r, o)) /\ box.bottom = Lesser(lay.hi, From(r, o) + Height(r))
      /\ part.top = Larger(v.b, From(r, o)) /\ part.bottom = box.bottom
  BY BoxIsShown DEF Shown
<1>3. /\ box.top \in Int /\ box.bottom \in Int /\ lay.lo <= box.top /\ box.bottom <= lay.hi
      /\ part.top = Larger(v.b, box.top)
  BY <1>1, <1>2 DEF Larger, Lesser, Crown
<1>4. r \in Seen(o) <=> box.top < box.bottom
  BY DEF Seen
<1>5. Tall(v.b, lay.hi, From(r, o), Height(r)) <=> part.bottom - part.top >= MinClear
  BY DEF Tall, IsClear
<1>6. box = [top |-> box.top, bottom |-> box.bottom]
  BY DEF Box
<1>7. ClearBox(r, o) = Trimmed(box)
  BY DEF ClearBox
<1> HIDE DEF box, part
<1>8. CASE ~(box.top < box.bottom)
  BY <1>1, <1>2, <1>3, <1>4, <1>5, <1>8 DEF CanTap, Larger
<1>9. CASE box.top < box.bottom /\ ~Covers(box)
  <2>1. v.b <= box.top
    BY <1>1, <1>3, <1>9 DEF Covers, Alone, Crown
  <2>2. Trimmed(box) = box
    BY <1>9 DEF Trimmed
  <2>3. part.top = box.top
    BY <1>1, <1>3, <2>1 DEF Larger
  <2> QED
    BY <1>2, <1>4, <1>5, <1>7, <1>9, <2>2, <2>3 DEF CanTap, IsClear, box
<1>10. CASE box.top < box.bottom /\ Covers(box)
  <2>1. v.b > box.top /\ v.a <= box.top /\ part.top = v.b
    BY <1>1, <1>3, <1>10 DEF Covers, Alone, Crown, Larger
  <2>2. CASE v.b >= box.bottom
    <3>1. Trimmed(box) = [top |-> Larger(box.top, v.b), bottom |-> Lesser(box.bottom, v.a)]
      BY <1>10, <2>1, <2>2 DEF Trimmed, Alone
    <3>2. ~IsClear(Trimmed(box))
      BY <1>1, <1>3, <2>1, <2>2, <3>1 DEF IsClear, Larger, Lesser
    <3>3. ~(part.bottom - part.top >= MinClear)
      BY <1>1, <1>2, <1>3, <2>1, <2>2
    <3> QED
      BY <1>5, <1>7, <3>2, <3>3 DEF CanTap
  <2>3. CASE ~(v.b >= box.bottom)
    <3>1. Trimmed(box) = [top |-> v.b, bottom |-> box.bottom]
      BY <1>1, <1>3, <1>10, <2>1, <2>3 DEF Trimmed, Alone, Larger
    <3>2. IsClear(Trimmed(box)) <=> part.bottom - part.top >= MinClear
      BY <1>2, <2>1, <3>1 DEF IsClear
    <3>3. Middle(Trimmed(box)) \in Int
      BY <1>1, <1>3, <3>1 DEF Middle
    <3>4. ASSUME IsClear(Trimmed(box))
          PROVE  ~Overlaid(Middle(Trimmed(box)))
      <4>1. Middle(Trimmed(box)) > v.b
        BY <1>1, <1>3, <3>1, <3>4 DEF IsClear, Middle
      <4> QED
        BY <1>1, <3>3, <4>1 DEF Overlaid, Alone
    <3> QED
      BY <1>4, <1>5, <1>7, <1>10, <3>2, <3>4 DEF CanTap
  <2> QED
    BY <2>2, <2>3
<1> QED
  BY <1>8, <1>9, <1>10

\* A narrow one over either: the row is not trimmed, its middle must miss the overlay.
LEMMA TapBesidePill ==
  ASSUME lay \in Layouts, NEW r \in Rows, NEW o \in Int, NEW v, Alone(v), ~v.wide
  PROVE  /\ Foot(v) => (CanTap(r, o) <=> Whole(r, o) /\ MidOf(r, o) < v.a)
         /\ Crown(v) => (CanTap(r, o) <=> Whole(r, o) /\ MidOf(r, o) > v.b)
<1> DEFINE box == Box(r, o)
<1>1. /\ lay.lo \in Int /\ lay.hi \in Int /\ v.a \in Int /\ v.b \in Int
      /\ box.top \in Int /\ box.bottom \in Int /\ lay.lo <= box.top /\ box.bottom <= lay.hi
  BY RowNumbers, LayoutNumbers, BoxIsShown DEF Shown, Larger, Lesser, Alone
<1>2. ClearBox(r, o) = box
  BY DEF ClearBox, Trimmed, Alone
<1>3. (IsClear(box) <=> Whole(r, o)) /\ Middle(box) = MidOf(r, o)
  BY BoxIsShown DEF Whole, Tall, MidOf, Mid
<1>4. r \in Seen(o) <=> box.top < box.bottom
  BY DEF Seen
<1> HIDE DEF box
<1>5. IsClear(box) => /\ box.top < box.bottom /\ Middle(box) \in Int
                      /\ box.top < Middle(box) /\ Middle(box) < box.bottom
  BY <1>1 DEF IsClear, Middle
<1>6. CanTap(r, o) <=> IsClear(box) /\ ~(Covers(box) /\ Overlaid(Middle(box)))
  BY <1>2, <1>4, <1>5 DEF CanTap, box
<1>7. Covers(box) <=> v.b > box.top /\ v.a < box.bottom
  BY DEF Covers, Alone
<1>8. Overlaid(Middle(box)) <=> v.a <= Middle(box) /\ Middle(box) <= v.b
  BY DEF Overlaid, Alone
<1>9. ASSUME IsClear(box), Foot(v)
      PROVE  ~(Covers(box) /\ Overlaid(Middle(box))) <=> Middle(box) < v.a
  BY <1>1, <1>5, <1>7, <1>8, <1>9 DEF Foot
<1>10. ASSUME IsClear(box), Crown(v)
       PROVE  ~(Covers(box) /\ Overlaid(Middle(box))) <=> Middle(box) > v.b
  BY <1>1, <1>5, <1>7, <1>8, <1>10 DEF Crown
<1> QED
  BY <1>3, <1>6, <1>9, <1>10

(***************************************************************************)
(* A generated step.                                                       *)
(***************************************************************************)
\* The band is what an overlay over an end of the list leaves of it.
LEMMA BandIsFree ==
  ASSUME lay \in Layouts
  PROVE  /\ (\A v \in lay.over : Misses(v)) => Band = [lo |-> lay.lo, hi |-> lay.hi]
         /\ \A v : Alone(v) /\ Foot(v) => Band = [lo |-> lay.lo, hi |-> v.a]
         /\ \A v : Alone(v) /\ Crown(v) => Band = [lo |-> v.b, hi |-> lay.hi]
<1> DEFINE covered == {v \in lay.over : v.b > lay.lo /\ v.a < lay.hi}
           w == CHOOSE v \in covered : TRUE
           high == \E v \in covered : v.b >= lay.hi /\ v.a > lay.lo
           hi == IF high THEN Lesser(lay.hi, w.a) ELSE lay.hi
           low == hi = lay.hi /\ \E v \in covered : v.a <= lay.lo /\ v.b < lay.hi
           lo == IF low THEN Larger(lay.lo, w.b) ELSE lay.lo
<1>1. Band = IF hi > lo THEN [lo |-> lo, hi |-> hi] ELSE [lo |-> lay.lo, hi |-> lay.hi]
  BY DEF Band
<1>2. /\ lay.lo \in Int /\ lay.hi \in Int
      /\ \A v \in lay.over : v.a \in Int /\ v.b \in Int
  BY LayoutNumbers
<1>3. ASSUME \A v \in lay.over : Misses(v)
      PROVE  Band = [lo |-> lay.lo, hi |-> lay.hi]
  <2>1. covered = {}
    BY <1>2, <1>3 DEF Misses
  <2>2. ~high /\ ~low
    BY <2>1
  <2> QED
    BY <1>1, <2>2
<1>4. ASSUME NEW v, Alone(v), Foot(v)
      PROVE  Band = [lo |-> lay.lo, hi |-> v.a]
  <2>1. v.a \in Int /\ v.b \in Int
    BY <1>2, <1>4 DEF Alone
  <2>2. covered = {v}
    BY <1>2, <1>4, <2>1 DEF Alone, Foot
  <2>3. high /\ w = v
    BY <1>4, <2>2 DEF Foot
  <2>4. hi = v.a
    <3>1. Lesser(lay.hi, v.a) = v.a
      BY <1>2, <1>4, <2>1 DEF Foot, Lesser
    <3> HIDE DEF high, w
    <3> QED
      BY <2>3, <3>1
  <2>5. lo = lay.lo
    BY <1>2, <1>4, <2>1, <2>4 DEF Foot
  <2> QED
    BY <1>1, <1>2, <1>4, <2>1, <2>4, <2>5 DEF Foot
<1>5. ASSUME NEW v, Alone(v), Crown(v)
      PROVE  Band = [lo |-> v.b, hi |-> lay.hi]
  <2>1. v.a \in Int /\ v.b \in Int
    BY <1>2, <1>5 DEF Alone
  <2>2. covered = {v}
    BY <1>2, <1>5, <2>1 DEF Alone, Crown
  <2>3. ~high /\ w = v
    BY <1>2, <1>5, <2>1, <2>2 DEF Crown
  <2>4. hi = lay.hi
    BY <2>3
  <2>5. low
    BY <1>5, <2>2, <2>4 DEF Crown
  <2>6. lo = v.b
    <3>1. Larger(lay.lo, v.b) = v.b
      BY <1>2, <1>5, <2>1 DEF Crown, Larger
    <3> HIDE DEF low, w
    <3> QED
      BY <2>3, <2>5, <3>1
  <2> QED
    BY <1>1, <1>2, <1>5, <2>1, <2>4, <2>6 DEF Crown
<1> QED
  BY <1>3, <1>4, <1>5

\* A row that can be tapped somewhere along a step that is shorter than the band
\* by the least a tap needs can be tapped at one of its ends.
LEMMA TapAtAnEnd ==
  ASSUME lay \in Layouts, ~Floats,
         NEW r \in Rows, NEW from \in Int, NEW to \in Int, NEW o \in Int,
         from <= o, o <= to, to - from <= Band.hi - Band.lo - MinClear,
         CanTap(r, o)
  PROVE  CanTap(r, from) \/ CanTap(r, to)
<1> DEFINE x == From(r, o)
           near == From(r, from)
           far == From(r, to)
           h == Height(r)
<1>1. /\ x \in Int /\ near \in Int /\ far \in Int /\ h \in Int
      /\ lay.lo \in Int /\ lay.hi \in Int
  BY RowNumbers
<1>2. far <= x /\ x <= near /\ near - far = to - from
  BY LayoutNumbers DEF From
<1>3. near - far <= Band.hi - Band.lo - MinClear
  BY <1>2
<1>4. CASE \A v \in lay.over : Misses(v)
  <2>1. Band = [lo |-> lay.lo, hi |-> lay.hi]
    BY <1>4, BandIsFree
  <2>2. Tall(lay.lo, lay.hi, x, h)
    BY <1>4, TapUncovered DEF Whole
  <2> HIDE DEF x, near, far, h
  <2>3. Tall(lay.lo, lay.hi, near, h) \/ Tall(lay.lo, lay.hi, far, h)
    BY <1>1, <1>2, <1>3, <2>1, <2>2, TallAtAnEnd
  <2> USE DEF x, near, far, h
  <2> QED
    BY <1>4, <2>3, TapUncovered DEF Whole
<1>5. ASSUME NEW v \in lay.over, ~Misses(v)
      PROVE  CanTap(r, from) \/ CanTap(r, to)
  <2>1. Alone(v)
    BY <1>5, LayoutsAssumption DEF Alone
  <2>2. v.a \in Int /\ v.b \in Int
    BY LayoutNumbers
  <2>3. Foot(v) \/ Crown(v) \/ Hides(v)
    BY <1>1, <1>5, <2>2 DEF Misses, Foot, Crown, Hides, Floats
  <2>4. CASE Hides(v)
    BY <2>1, <2>4, TapHidden
  <2>5. CASE Foot(v)
    <3>1. Band = [lo |-> lay.lo, hi |-> v.a]
      BY <2>1, <2>5, BandIsFree
    <3>2. near - far <= v.a - lay.lo - MinClear /\ lay.lo < v.a /\ v.a < lay.hi
      BY <1>3, <2>5, <3>1 DEF Foot
    <3>3. CASE v.wide
      <4>1. Tall(lay.lo, v.a, x, h)
        BY <2>1, <2>5, <3>3, TapAboveBar
      <4> HIDE DEF x, near, far, h
      <4>2. Tall(lay.lo, v.a, near, h) \/ Tall(lay.lo, v.a, far, h)
        BY <1>1, <1>2, <2>2, <3>2, <4>1, TallAtAnEnd
      <4> USE DEF x, near, far, h
      <4> QED
        BY <2>1, <2>5, <3>3, <4>2, TapAboveBar
    <3>4. CASE ~v.wide
      <4>1. Tall(lay.lo, lay.hi, x, h) /\ Mid(lay.lo, lay.hi, x, h) < v.a
        BY <2>1, <2>5, <3>4, TapBesidePill DEF Whole, MidOf
      <4> HIDE DEF x, near, far, h
      <4>2. \/ Tall(lay.lo, lay.hi, near, h) /\ Mid(lay.lo, lay.hi, near, h) < v.a
            \/ Tall(lay.lo, lay.hi, far, h) /\ Mid(lay.lo, lay.hi, far, h) < v.a
        BY <1>1, <1>2, <2>2, <3>2, <4>1, AboveAtAnEnd
      <4> USE DEF x, near, far, h
      <4> QED
        BY <2>1, <2>5, <3>4, <4>2, TapBesidePill DEF Whole, MidOf
    <3> QED
      BY <3>3, <3>4
  <2>6. CASE Crown(v)
    <3>1. Band = [lo |-> v.b, hi |-> lay.hi]
      BY <2>1, <2>6, BandIsFree
    <3>2. near - far <= lay.hi - v.b - MinClear /\ lay.lo < v.b /\ v.b < lay.hi
      BY <1>3, <2>6, <3>1 DEF Crown
    <3>3. CASE v.wide
      <4>1. Tall(v.b, lay.hi, x, h)
        BY <2>1, <2>6, <3>3, TapBelowBar
      <4> HIDE DEF x, near, far, h
      <4>2. Tall(v.b, lay.hi, near, h) \/ Tall(v.b, lay.hi, far, h)
        BY <1>1, <1>2, <2>2, <3>2, <4>1, TallAtAnEnd
      <4> USE DEF x, near, far, h
      <4> QED
        BY <2>1, <2>6, <3>3, <4>2, TapBelowBar
    <3>4. CASE ~v.wide
      <4>1. Tall(lay.lo, lay.hi, x, h) /\ Mid(lay.lo, lay.hi, x, h) > v.b
        BY <2>1, <2>6, <3>4, TapBesidePill DEF Whole, MidOf
      <4> HIDE DEF x, near, far, h
      <4>2. \/ Tall(lay.lo, lay.hi, near, h) /\ Mid(lay.lo, lay.hi, near, h) > v.b
            \/ Tall(lay.lo, lay.hi, far, h) /\ Mid(lay.lo, lay.hi, far, h) > v.b
        BY <1>1, <1>2, <2>2, <3>2, <4>1, BelowAtAnEnd
      <4> USE DEF x, near, far, h
      <4> QED
        BY <2>1, <2>6, <3>4, <4>2, TapBesidePill DEF Whole, MidOf
    <3> QED
      BY <3>3, <3>4
  <2> QED
    BY <2>3, <2>4, <2>5, <2>6
<1> QED
  BY <1>4, <1>5

\* A generated swipe asks for half the band at most.
Aimed == swipe.kind = "advance" => Travel(swipe) <= Half(Band.lo, Band.hi)

LEMMA StepAims == RevealInv /\ Aimed /\ [Next]_vars => Aimed'
<1> SUFFICES ASSUME RevealInv, Aimed, [Next]_vars
             PROVE  Aimed'
  OBVIOUS
<1>1. UNCHANGED lay
  BY DEF Next, vars, Start, Reveals, Ambiguous, OutOfBudget, RefuseRetreat, Choose, Swipe, Observe, Leave
<1>2. Band' = Band
  BY <1>1 DEF Band
<1>3. CASE UNCHANGED swipe
  BY <1>2, <1>3 DEF Aimed, Travel, Half, Larger
<1>4. CASE Choose
  <2> DEFINE span == AdvanceSpan(Band.lo, Band.hi, lay.dim)
  <2>1. swipe' = IF left # <<>> /\ ~Walks
                 THEN [start |-> Head(left).start, end |-> Head(left).end, kind |-> "recorded"]
                 ELSE [start |-> span.start, end |-> span.end, kind |-> "advance"]
    BY <1>4 DEF Choose
  <2>2. Travel(span) \in 0 .. Half(Band.lo, Band.hi)
    BY BandNumbers, LayoutNumbers, AdvanceIsHalf DEF RevealInv, Numbers
  <2>3. Half(Band.lo, Band.hi) \in Int
    BY BandNumbers DEF RevealInv, Numbers, Half, Larger
  <2>4. span.start - span.end <= Half(Band.lo, Band.hi)
    BY <2>2, <2>3 DEF Travel
  <2> HIDE DEF span
  <2>5. ASSUME swipe'.kind = "advance"
        PROVE  swipe'.start - swipe'.end <= Half(Band.lo, Band.hi)
    BY <2>1, <2>4, <2>5
  <2> QED
    BY <1>2, <2>5 DEF Aimed, Travel, Half, Larger
<1> QED
  BY <1>3, <1>4 DEF Next, vars, Start, Reveals, Ambiguous, OutOfBudget, RefuseRetreat, Swipe, Observe, Leave

\* A list is dragged beyond a swipe by less than the other half of its band, by
\* what a tap needs.
DragsFit == \A d \in Drags : Half(Band.lo, Band.hi) + d <= Band.hi - Band.lo - MinClear

LEMMA StepSkipsNothing ==
  ASSUME RevealInv, Aimed, DragsFit, [Next]_vars
  PROVE  NoRowSkipped
<1> SUFFICES ASSUME pc = "swipe", pc' = "observe", swipe.kind = "advance", ~Floats,
                    NEW r \in Rows, NEW o \in offset .. offset', CanTap(r, o)
             PROVE  CanTap(r, offset) \/ CanTap(r, offset')
  BY DEF NoRowSkipped
<1>1. Swipe
  BY DEF Next, vars, Start, Reveals, Ambiguous, OutOfBudget, RefuseRetreat, Choose, Observe, Leave, End
<1>2. offset \in Nat /\ lay \in Layouts /\ swipe.start \in Int /\ swipe.end \in Int
  BY DEF RevealInv, Numbers
<1>3. CASE offset' = offset
  <2>1. o = offset
    BY <1>2, <1>3
  <2> QED
    BY <2>1
<1>4. CASE offset' # offset
  <2>1. PICK extra \in Drags : offset' = Lesser(Furthest, Larger(0, offset + Travel(swipe) + extra))
    BY <1>1, <1>4 DEF Swipe
  <2>2. /\ Travel(swipe) \in Int /\ extra \in Int /\ Furthest \in Nat
        /\ Band.lo \in Int /\ Band.hi \in Int
    BY <1>2, BandNumbers, LayoutNumbers, RevealAssumption DEF Travel
  <2>3. /\ Half(Band.lo, Band.hi) \in Int /\ Travel(swipe) <= Half(Band.lo, Band.hi)
        /\ Half(Band.lo, Band.hi) + extra <= Band.hi - Band.lo - MinClear
    BY <2>2 DEF Aimed, DragsFit, Half, Larger
  <2>4. offset' \in Nat /\ (offset' <= offset \/ offset' <= offset + Travel(swipe) + extra)
    BY <1>2, <2>1, <2>2 DEF Lesser, Larger
  <2>5. o \in Int /\ offset <= o /\ o <= offset'
    BY <1>2, <2>4
  <2>6. offset' - offset <= Band.hi - Band.lo - MinClear
    BY <1>2, <1>4, <2>2, <2>3, <2>4, <2>5
  <2> QED
    BY <1>2, <2>4, <2>5, <2>6, TapAtAnEnd
<1> QED
  BY <1>3, <1>4

\* A generated step jumps over no row that could have been tapped along it: for
\* every list, whatever the heights of its rows, and an overlay over either end
\* of it, as long as the list runs on by less than half the band after a swipe.
THEOREM NothingIsSkipped == Spec /\ []DragsFit => StepsSkipNothing
<1>1. Init => Aimed
  BY DEF Init, Aimed
<1>2. RevealInv /\ Aimed /\ [Next]_vars => Aimed'
  BY StepAims
<1>3. RevealInv /\ Aimed /\ DragsFit /\ [Next]_vars => [NoRowSkipped]_vars
  BY StepSkipsNothing
<1> QED
  BY <1>1, <1>2, <1>3, InvariantReveal, PTL DEF Spec, StepsSkipNothing

(***************************************************************************)
(* What a list reads as, and how far it can move and read the same.        *)
(***************************************************************************)
\* Boxes are told apart by fiftieths of the container.
Fiftieth == Larger(1, (lay.hi - lay.lo) \div 50)

\* The list can be read: no two rows look the same, none fills it, and there is
\* always one to see.
Legible ==
  /\ \A r, s \in Rows : lay.rows[r].label = lay.rows[s].label => r = s
  /\ \A r \in Rows : Height(r) + Fiftieth <= lay.hi - lay.lo
  /\ \A o \in 0 .. Furthest : Seen(o) # {}

\* Pixels in one fiftieth are less than a fiftieth apart, and so is what lies between.
LEMMA SameFiftieth ==
  ASSUME NEW q \in Nat \ {0}, NEW x \in Int, NEW y \in Int, x \div q = y \div q
  PROVE  /\ x - y < q
         /\ \A m \in y .. x : m \div q = x \div q
<1> DEFINE k == x \div q
<1>1. /\ k \in Int /\ q * k <= x /\ x < q * k + q
      /\ q * k <= y /\ y < q * k + q
  OBVIOUS
<1>2. ASSUME NEW m \in y .. x
      PROVE  m \div q = k
  <2>1. m \in Int /\ q * k <= m /\ m < q * k + q
    BY <1>1, <1>2
  <2> QED
    BY <1>1, <2>1
<1> QED
  BY <1>1, <1>2

\* A fiftieth is a pixel at least.
LEMMA FiftiethPositive ==
  ASSUME lay \in Layouts
  PROVE  Fiftieth \in Nat \ {0}
<1>1. (lay.hi - lay.lo) \div 50 \in Int
  BY LayoutNumbers
<1> QED
  BY <1>1 DEF Fiftieth, Larger

\* A row is seen while some of it is drawn in the list.
LEMMA SeenWhere ==
  ASSUME lay \in Layouts, NEW r \in Rows, NEW o \in Int
  PROVE  r \in Seen(o) <=> /\ lay.lo < lay.hi /\ Height(r) > 0
                           /\ From(r, o) < lay.hi /\ From(r, o) + Height(r) > lay.lo
<1>1. /\ From(r, o) \in Int /\ Height(r) \in Int /\ lay.lo \in Int /\ lay.hi \in Int
  BY RowNumbers
<1>2. r \in Seen(o) <=> Box(r, o).top < Box(r, o).bottom
  BY DEF Seen
<1>3. Box(r, o) = Shown(lay.lo, lay.hi, From(r, o), Height(r))
  BY BoxIsShown
<1> QED
  BY <1>1, <1>2, <1>3 DEF Shown, Larger, Lesser

\* Where the list reads the same, each row does.
LEMMA SameRows ==
  ASSUME Legible, NEW a, NEW b, RegionState(a) = RegionState(b), NEW r \in Seen(a)
  PROVE  /\ r \in Seen(b)
         /\ Box(r, a).top \div Fiftieth = Box(r, b).top \div Fiftieth
         /\ Box(r, a).bottom \div Fiftieth = Box(r, b).bottom \div Fiftieth
<1> DEFINE Reads(s, o) == <<lay.rows[s].label, Box(s, o).top \div Fiftieth, Box(s, o).bottom \div Fiftieth>>
<1>1. \A o : RegionState(o) = {Reads(s, o) : s \in Seen(o)}
  BY DEF RegionState, Fiftieth
<1>2. Reads(r, a) \in RegionState(b)
  BY <1>1
<1>3. PICK s \in Seen(b) : Reads(r, a) = Reads(s, b)
  BY <1>1, <1>2
<1>4. r \in Rows /\ s \in Rows /\ lay.rows[r].label = lay.rows[s].label
  BY <1>3 DEF Seen
<1>5. r = s
  BY <1>4 DEF Legible
<1> QED
  BY <1>3, <1>5

\* A list that reads the same has moved by less than a fiftieth: an edge of any row
\* shows it.
LEMMA MovesLittle ==
  ASSUME lay \in Layouts, Legible, NEW a \in 0 .. Furthest, NEW b \in 0 .. Furthest, a <= b,
         RegionState(a) = RegionState(b)
  PROVE  b - a < Fiftieth
<1>1. PICK r \in Seen(a) : TRUE
  BY DEF Legible
<1>2. r \in Rows /\ a \in Int /\ b \in Int /\ Furthest \in Nat
  BY <1>1, LayoutNumbers DEF Seen
<1> DEFINE x == From(r, a)
           y == From(r, b)
           h == Height(r)
           q == Fiftieth
           box == Box(r, a)
           bax == Box(r, b)
<1>3. /\ x \in Int /\ y \in Int /\ h \in Int /\ lay.lo \in Int /\ lay.hi \in Int
      /\ Top(r) \in Int /\ x - y = b - a
  BY <1>2, RowNumbers, LayoutNumbers DEF From
<1>4. q \in Nat \ {0} /\ h + q <= lay.hi - lay.lo
  BY <1>2, FiftiethPositive DEF Legible
<1>5. /\ r \in Seen(b) /\ box.top \div q = bax.top \div q /\ box.bottom \div q = bax.bottom \div q
  BY <1>1, SameRows
<1>6. /\ lay.lo < lay.hi /\ h > 0 /\ x < lay.hi /\ x + h > lay.lo
      /\ y < lay.hi /\ y + h > lay.lo
  BY <1>1, <1>2, <1>5, SeenWhere
<1>7. /\ box.top = Larger(lay.lo, x) /\ box.bottom = Lesser(lay.hi, x + h)
      /\ bax.top = Larger(lay.lo, y) /\ bax.bottom = Lesser(lay.hi, y + h)
  BY BoxIsShown DEF Shown
<1>8. /\ box.top \in Int /\ box.bottom \in Int /\ bax.top \in Int /\ bax.bottom \in Int
  BY <1>2, BoxNumbers
<1> HIDE DEF x, y, h, q, box, bax
<1>9. box.top - bax.top < q /\ box.bottom - bax.bottom < q
  BY <1>4, <1>5, <1>8, SameFiftieth
<1>10. x - y < q
  <2>1. CASE x < lay.lo
    BY <1>3, <1>4, <1>6, <1>7, <1>9, <2>1 DEF Lesser
  <2>2. CASE y >= lay.lo
    BY <1>3, <1>4, <1>6, <1>7, <1>9, <2>2 DEF Larger
  <2>3. CASE x >= lay.lo /\ y < lay.lo
    <3>1. bax.bottom = y + h
      BY <1>3, <1>4, <1>7, <2>3 DEF Lesser
    <3>2. box.bottom = x + h
      BY <1>3, <1>4, <1>7, <1>9, <2>3, <3>1 DEF Lesser
    <3> QED
      BY <1>3, <1>9, <3>1, <3>2
  <2> QED
    BY <1>3, <2>1, <2>2, <2>3
<1> QED
  BY <1>3, <1>10 DEF q

\* And it reads so all the way between.
LEMMA ReadsBetween ==
  ASSUME lay \in Layouts, Legible, NEW a \in 0 .. Furthest, NEW b \in 0 .. Furthest,
         RegionState(a) = RegionState(b), NEW m \in a .. b
  PROVE  RegionState(m) = RegionState(a)
<1>1. Furthest \in Nat /\ a \in Int /\ b \in Int /\ m \in Int /\ a <= m /\ m <= b /\ a <= b
  BY LayoutNumbers
<1>2. b - a < Fiftieth /\ Fiftieth \in Nat \ {0}
  BY <1>1, MovesLittle, FiftiethPositive
<1>3. ASSUME NEW r \in Rows
      PROVE  /\ From(r, a) \in Int /\ From(r, m) \in Int /\ From(r, b) \in Int /\ Height(r) \in Int
             /\ From(r, b) <= From(r, m) /\ From(r, m) <= From(r, a)
             /\ From(r, a) - From(r, b) = b - a
             /\ lay.lo \in Int /\ lay.hi \in Int
  BY <1>1, LayoutNumbers DEF From
<1>4. ASSUME NEW r \in Seen(a)
      PROVE  /\ r \in Seen(m)
             /\ Box(r, m).top \div Fiftieth = Box(r, a).top \div Fiftieth
             /\ Box(r, m).bottom \div Fiftieth = Box(r, a).bottom \div Fiftieth
  <2>1. r \in Rows
    BY DEF Seen
  <2>2. /\ r \in Seen(b)
        /\ Box(r, a).top \div Fiftieth = Box(r, b).top \div Fiftieth
        /\ Box(r, a).bottom \div Fiftieth = Box(r, b).bottom \div Fiftieth
    BY <1>4, SameRows
  <2>3. r \in Seen(m)
    <3>1. /\ lay.lo < lay.hi /\ Height(r) > 0 /\ From(r, a) < lay.hi /\ From(r, b) + Height(r) > lay.lo
      BY <1>1, <1>4, <2>1, <2>2, SeenWhere
    <3>2. From(r, m) < lay.hi /\ From(r, m) + Height(r) > lay.lo
      BY <1>3, <2>1, <3>1
    <3> QED
      BY <1>1, <2>1, <3>1, <3>2, SeenWhere
  <2>4. /\ Box(r, b).top <= Box(r, m).top /\ Box(r, m).top <= Box(r, a).top
        /\ Box(r, b).bottom <= Box(r, m).bottom /\ Box(r, m).bottom <= Box(r, a).bottom
    <3>1. \A o : Box(r, o) = [top |-> Larger(lay.lo, From(r, o)),
                              bottom |-> Lesser(lay.hi, From(r, o) + Height(r))]
      BY BoxIsShown DEF Shown
    <3> QED
      BY <1>3, <2>1, <3>1 DEF Larger, Lesser
  <2>5. /\ Box(r, a).top \in Int /\ Box(r, b).top \in Int /\ Box(r, m).top \in Int
        /\ Box(r, a).bottom \in Int /\ Box(r, b).bottom \in Int /\ Box(r, m).bottom \in Int
    BY <1>1, <2>1, BoxNumbers
  <2>6. /\ Box(r, m).top \in Box(r, b).top .. Box(r, a).top
        /\ Box(r, m).bottom \in Box(r, b).bottom .. Box(r, a).bottom
    BY <2>4, <2>5
  <2> QED
    BY <1>2, <2>2, <2>3, <2>5, <2>6, SameFiftieth
<1>5. ASSUME NEW r \in Seen(m)
      PROVE  r \in Seen(a)
  <2> SUFFICES ASSUME r \notin Seen(a) PROVE FALSE
    OBVIOUS
  <2>1. r \in Rows
    BY <1>5 DEF Seen
  <2>2. r \notin Seen(b)
    BY SameRows
  <2>3. /\ lay.lo < lay.hi /\ Height(r) > 0
        /\ From(r, m) < lay.hi /\ From(r, m) + Height(r) > lay.lo
    BY <1>1, <1>5, <2>1, SeenWhere
  <2>4. ~(From(r, a) < lay.hi /\ From(r, a) + Height(r) > lay.lo)
    BY <1>1, <2>1, <2>3, SeenWhere
  <2>5. ~(From(r, b) < lay.hi /\ From(r, b) + Height(r) > lay.lo)
    BY <1>1, <2>1, <2>2, <2>3, SeenWhere
  <2>6. Height(r) + Fiftieth <= lay.hi - lay.lo
    BY <2>1 DEF Legible
  <2> QED
    BY <1>1, <1>2, <1>3, <2>1, <2>3, <2>4, <2>5, <2>6
<1> DEFINE Reads(s, o) == <<lay.rows[s].label, Box(s, o).top \div Fiftieth, Box(s, o).bottom \div Fiftieth>>
<1>6. \A o : RegionState(o) = {Reads(s, o) : s \in Seen(o)}
  BY DEF RegionState, Fiftieth
<1>7. Seen(m) = Seen(a)
  BY <1>4, <1>5
<1>8. \A s \in Seen(a) : Reads(s, m) = Reads(s, a)
  BY <1>4
<1> HIDE DEF Reads
<1> QED
  BY <1>6, <1>7, <1>8

(***************************************************************************)
(* What a reveal has looked at by the time the list no longer moves.       *)
(***************************************************************************)
Aim == AdvanceSpan(Band.lo, Band.hi, lay.dim)

\* A generated swipe starts on the list, clear of the overlay and of the system's
\* zones, and the list follows it by a fiftieth of itself at least.
Moves ==
  /\ Aim.start # Aim.end
  /\ lay.lo <= Aim.start /\ Aim.start <= lay.hi /\ ~Overlaid(Aim.start)
  /\ SystemZone < Aim.start /\ Aim.start < lay.dim - SystemZone
  /\ \A d \in Drags : Travel(Aim) + d >= Fiftieth

\* The run looks for a row with generated steps alone.
Searches == lay.gestures = <<>> /\ ~Walks /\ ~Floats

Clear(a, b) == \A o \in a .. b : Found(o) = {}
\* What can be tapped between a and b can be tapped at b.
Leads(a, b) == \A o \in a .. b : Found(o) \subseteq Found(b)

Placed == /\ offset \in 0 .. Furthest /\ dump \in Nat
          /\ pc = "start" => offset = 0
          /\ lay.gestures = <<>> => left = <<>>

Looking == pc = "look" => /\ prev = RegionState(offset)
                          /\ Searches /\ there = "list" => Leads(0, offset)

Swiping == pc = "swipe" =>
  /\ dump = offset /\ prev = RegionState(offset)
  /\ swipe.kind = "advance" => swipe.start = Aim.start /\ swipe.end = Aim.end
  /\ Searches => swipe.kind = "advance"
  /\ Searches /\ there = "list" => Clear(0, offset)

\* A step has left the list further on by a fiftieth, or at its end.
Advanced == dump <= offset /\ (offset = Furthest \/ offset - dump >= Fiftieth)

Observing == pc = "observe" =>
  /\ prev = RegionState(dump)
  /\ swipe.kind = "advance" /\ ~Floats /\ there = "list" => Advanced
  /\ Searches /\ there = "list" => Clear(0, dump) /\ Leads(dump, offset)

EndInv == Placed /\ Looking /\ Swiping /\ Observing /\ NoMovementAtEnd

\* What an observation shows depends on the layout alone.
LEMMA SameLayout ==
  ASSUME UNCHANGED lay
  PROVE  /\ Furthest' = Furthest /\ Fiftieth' = Fiftieth /\ Aim' = Aim
         /\ Floats' = Floats /\ Walks' = Walks /\ Searches' = Searches
         /\ \A o : RegionState(o)' = RegionState(o) /\ Found(o)' = Found(o)
<1>1. /\ Furthest' = Furthest /\ Fiftieth' = Fiftieth /\ Aim' = Aim
      /\ Floats' = Floats /\ Walks' = Walks
  BY DEF Furthest, Length, Top, Height, Fiftieth, Aim, Band, Floats, Walks
<1>2. Searches' = Searches
  BY <1>1 DEF Searches
<1>3. ASSUME NEW o
      PROVE  RegionState(o)' = RegionState(o)
  BY DEF RegionState, Seen, Box, Rows, Top, Height
<1>4. ASSUME NEW o
      PROVE  Found(o)' = Found(o)
  BY DEF Found, CanTap, ClearBox, Trimmed, Covers, IsClear, Overlaid, Seen, Box, Rows, Top, Height
<1> QED
  BY <1>1, <1>2, <1>3, <1>4

\* A reveal that has not begun has looked at nothing.
LEMMA InitEnds == Init => EndInv
<1> SUFFICES ASSUME Init PROVE EndInv
  OBVIOUS
<1>1. lay \in Layouts /\ offset = 0 /\ dump = 0 /\ pc = "start" /\ left = lay.gestures
  BY DEF Init
<1>2. Furthest \in Nat
  BY <1>1, LayoutNumbers
<1> QED
  BY <1>1, <1>2 DEF EndInv, Placed, Looking, Swiping, Observing, NoMovementAtEnd

\* A generated step that is taken moves the list on, and jumps over no row.
LEMMA SwipeEnds ==
  ASSUME RevealInv, Aimed, EndInv, ~Floats => DragsFit /\ Moves, Swipe
  PROVE  EndInv'
<1>1. /\ lay \in Layouts /\ offset \in Nat /\ offset <= Furthest /\ Furthest \in Nat
      /\ swipe.start \in Int /\ swipe.end \in Int
  BY LayoutNumbers DEF RevealInv, Numbers, EndInv, Placed
<1>2. /\ pc = "swipe" /\ pc' = "observe"
      /\ UNCHANGED <<lay, there, left, dump, prev, tapped, swipe>>
  BY DEF Swipe
<1>3. /\ Furthest' = Furthest /\ Fiftieth' = Fiftieth /\ Aim' = Aim
      /\ Floats' = Floats /\ Walks' = Walks /\ Searches' = Searches
      /\ \A o : RegionState(o)' = RegionState(o) /\ Found(o)' = Found(o)
  BY <1>2, SameLayout
<1>4. dump = offset /\ prev = RegionState(offset)
  BY <1>2 DEF EndInv, Swiping
<1>5. offset' \in 0 .. Furthest
  <2>1. CASE Taken
    <3>1. PICK extra \in Int : offset' = Lesser(Furthest, Larger(0, offset + Travel(swipe) + extra))
      BY <2>1, RevealAssumption DEF Swipe
    <3>2. offset + Travel(swipe) + extra \in Int
      BY <1>1 DEF Travel
    <3> QED
      BY <1>1, <3>1, <3>2 DEF Lesser, Larger
  <2>2. CASE ~Taken
    BY <1>1, <2>2 DEF Swipe
  <2> QED
    BY <2>1, <2>2
<1>6. ASSUME swipe.kind = "advance", ~Floats, there = "list"
      PROVE  offset <= offset' /\ (offset' = Furthest \/ offset' - offset >= Fiftieth)
  <2>1. swipe.start = Aim.start /\ swipe.end = Aim.end
    BY <1>2, <1>6 DEF EndInv, Swiping
  <2>2. Taken
    BY <1>6, <2>1 DEF Taken, Moves
  <2>3. PICK d \in Drags : offset' = Lesser(Furthest, Larger(0, offset + Travel(swipe) + d))
    BY <1>6, <2>2 DEF Swipe
  <2>4. Travel(swipe) \in Int /\ d \in Int /\ Fiftieth \in Nat \ {0}
    BY <1>1, RevealAssumption, FiftiethPositive DEF Travel
  <2>5. Travel(swipe) + d >= Fiftieth
    <3>1. Travel(swipe) = Travel(Aim)
      BY <2>1 DEF Travel
    <3> QED
      BY <1>6, <3>1 DEF Moves
  <2>6. offset + Travel(swipe) + d >= offset + Fiftieth
    BY <1>1, <2>4, <2>5
  <2> HIDE DEF Moves
  <2> QED
    BY <1>1, <2>3, <2>4, <2>6 DEF Lesser, Larger
<1>7. ASSUME Searches, there = "list"
      PROVE  Clear(0, dump) /\ \A o \in dump .. offset' : Found(o) \subseteq Found(offset')
  <2>1. swipe.kind = "advance" /\ Clear(0, offset) /\ ~Floats
    BY <1>2, <1>7 DEF EndInv, Swiping, Searches
  <2>2. NoRowSkipped
    BY <2>1, StepSkipsNothing DEF Next
  <2>3. Found(offset) = {}
    BY <1>1, <2>1 DEF Clear
  <2>4. ASSUME NEW o \in dump .. offset', NEW r \in Found(o)
        PROVE  r \in Found(offset')
    <3>1. r \in Rows /\ lay.rows[r].label = lay.wanted /\ CanTap(r, o)
      BY <2>4 DEF Found
    <3>2. CanTap(r, offset) \/ CanTap(r, offset')
      BY <1>2, <1>4, <2>1, <2>2, <2>4, <3>1 DEF NoRowSkipped
    <3>3. ~CanTap(r, offset)
      BY <2>3, <3>1 DEF Found
    <3> QED
      BY <3>1, <3>2, <3>3 DEF Found
  <2> QED
    BY <1>4, <2>1, <2>4
<1>8. Placed'
  BY <1>2, <1>3, <1>5 DEF EndInv, Placed
<1>9. Observing'
  <2>1. Clear(0, dump)' <=> Clear(0, dump)
    BY <1>2, <1>3 DEF Clear
  <2>2. Leads(dump, offset)' <=> \A o \in dump .. offset' : Found(o) \subseteq Found(offset')
    BY <1>2, <1>3 DEF Leads
  <2> QED
    BY <1>2, <1>3, <1>4, <1>6, <1>7, <2>1, <2>2 DEF Observing, Advanced
<1> QED
  BY <1>2, <1>8, <1>9 DEF EndInv, Looking, Swiping, NoMovementAtEnd

\* An observation that shows nothing new is made at the end of the list.
LEMMA ObserveEnds ==
  ASSUME RevealInv, EndInv, ~Floats => Legible, Observe
  PROVE  EndInv'
<1>1. /\ lay \in Layouts /\ offset \in 0 .. Furthest /\ Furthest \in Nat /\ dump \in Nat
  BY LayoutNumbers DEF RevealInv, Numbers, EndInv, Placed
<1>2. /\ pc = "observe" /\ dump' = offset /\ prev' = RegionState(offset)
      /\ UNCHANGED <<lay, offset, there, steps, left, tapped, swipe>>
  BY DEF Observe, Observed
<1>3. /\ Furthest' = Furthest /\ Fiftieth' = Fiftieth /\ Aim' = Aim
      /\ Floats' = Floats /\ Walks' = Walks /\ Searches' = Searches
      /\ \A o : RegionState(o)' = RegionState(o) /\ Found(o)' = Found(o)
  BY <1>2, SameLayout
<1>4. pc' \in {"revealed", "off_target", "no_container", "no_movement", "look"}
  BY DEF Observe, End
<1>5. /\ saw' = there
      /\ pc' = "no_movement" /\ there = "list" => RegionState(offset) = prev
  BY DEF Observe, Observed, End
<1>6. /\ prev = RegionState(dump)
      /\ swipe.kind = "advance" /\ ~Floats /\ there = "list" => Advanced
      /\ Searches /\ there = "list" => Clear(0, dump) /\ Leads(dump, offset)
  BY <1>2 DEF EndInv, Observing
<1>7. Placed'
  BY <1>1, <1>2, <1>3, <1>4 DEF EndInv, Placed
<1>8. Looking'
  <2>1. ASSUME Searches, there = "list", NEW o \in 0 .. offset
        PROVE  Found(o) \subseteq Found(offset)
    <3>1. o \in 0 .. dump \/ o \in dump .. offset
      BY <1>1
    <3> QED
      BY <1>6, <2>1, <3>1 DEF Clear, Leads
  <2>2. Leads(0, offset)' <=> \A o \in 0 .. offset : Found(o) \subseteq Found(offset)
    BY <1>2, <1>3 DEF Leads
  <2> QED
    BY <1>2, <1>3, <2>1, <2>2 DEF Looking
<1>9. NoMovementAtEnd'
  <2> SUFFICES ASSUME pc' = "no_movement", there = "list", swipe.kind = "advance", ~Floats
               PROVE  /\ offset = Furthest
                      /\ lay.gestures = <<>> /\ ~Walks =>
                           \A o \in 0 .. Furthest : Found(o) = {} \/ RegionState(o) = RegionState(offset)
    BY <1>2, <1>3, <1>5 DEF NoMovementAtEnd
  <2>1. /\ dump <= offset /\ (offset = Furthest \/ offset - dump >= Fiftieth)
        /\ RegionState(dump) = RegionState(offset) /\ Legible
    BY <1>5, <1>6 DEF Advanced
  <2>2. dump \in 0 .. Furthest
    BY <1>1, <2>1
  <2>3. offset = Furthest
    <3>1. offset - dump < Fiftieth
      BY <1>1, <2>1, <2>2, MovesLittle
    <3> QED
      BY <1>1, <2>1, <3>1, FiftiethPositive
  <2>4. ASSUME lay.gestures = <<>>, ~Walks, NEW o \in 0 .. Furthest
        PROVE  Found(o) = {} \/ RegionState(o) = RegionState(offset)
    <3>1. CASE o \in 0 .. dump
      BY <1>6, <2>4, <3>1 DEF Searches, Clear
    <3>2. CASE o \notin 0 .. dump
      <4>1. o \in dump .. offset
        BY <1>1, <2>3, <3>2
      <4> QED
        BY <1>1, <2>1, <2>2, <4>1, ReadsBetween
    <3> QED
      BY <3>1, <3>2
  <2> QED
    BY <2>3, <2>4
<1> QED
  BY <1>4, <1>7, <1>8, <1>9 DEF EndInv, Swiping, Observing

\* A step is chosen when nothing is found, generated or as recorded.
LEMMA ChooseEnds ==
  ASSUME RevealInv, EndInv, Choose
  PROVE  EndInv'
<1>1. /\ offset \in 0 .. Furthest /\ dump \in Nat /\ dump = offset /\ left \in Seq(Pixels)
      /\ lay \in Layouts /\ Furthest \in Nat
  BY LayoutNumbers DEF RevealInv, Numbers, EndInv, Placed, Current, Choose, NotFound
<1>2. /\ pc = "look" /\ pc' = "swipe" /\ (Walks \/ saw = "other" \/ Found(dump) = {})
      /\ UNCHANGED <<lay, offset, there, steps, dump, prev, tapped>>
      /\ left' = IF Walks \/ left = <<>> THEN left ELSE Tail(left)
  BY DEF Choose, NotFound
<1>3. /\ Furthest' = Furthest /\ Fiftieth' = Fiftieth /\ Aim' = Aim
      /\ Floats' = Floats /\ Walks' = Walks /\ Searches' = Searches
      /\ \A o : RegionState(o)' = RegionState(o) /\ Found(o)' = Found(o)
  BY <1>2, SameLayout
<1>4. lay.gestures = <<>> => left = <<>>
  BY DEF EndInv, Placed
<1>5. swipe' = IF left # <<>> /\ ~Walks
               THEN [start |-> Head(left).start, end |-> Head(left).end, kind |-> "recorded"]
               ELSE [start |-> Aim.start, end |-> Aim.end, kind |-> "advance"]
  BY DEF Choose, Aim
<1>6. /\ swipe'.kind = "advance" => swipe'.start = Aim.start /\ swipe'.end = Aim.end
      /\ Searches => swipe'.kind = "advance"
  BY <1>4, <1>5 DEF Searches
<1>7. prev = RegionState(offset) /\ (Searches /\ there = "list" => Leads(0, offset))
  BY <1>2 DEF EndInv, Looking
<1>8. Searches /\ there = "list" => Clear(0, offset)
  <2>1. ASSUME Searches, there = "list", NEW o \in 0 .. offset
        PROVE  Found(o) = {}
    <3>1. Found(offset) = {} /\ Found(o) \subseteq Found(offset)
      BY <1>1, <1>2, <1>7, <2>1 DEF Searches, Leads, RevealInv, Current
    <3> QED
      BY <3>1
  <2> QED
    BY <2>1 DEF Clear
<1>9. Swiping'
  <2>1. Clear(0, offset)' <=> Clear(0, offset)
    BY <1>2, <1>3 DEF Clear
  <2> QED
    BY <1>1, <1>2, <1>3, <1>6, <1>7, <1>8, <2>1 DEF Swiping
<1>10. Placed'
  BY <1>1, <1>2, <1>3, <1>4 DEF Placed
<1> QED
  BY <1>2, <1>9, <1>10 DEF EndInv, Looking, Observing, NoMovementAtEnd

\* The first observation is of the top of the list.
LEMMA StartEnds ==
  ASSUME RevealInv, EndInv, Start
  PROVE  EndInv'
<1>1. /\ lay \in Layouts /\ offset = 0 /\ Furthest \in Nat
  BY LayoutNumbers DEF RevealInv, Numbers, EndInv, Placed, Start
<1>2. /\ dump' = offset /\ prev' = RegionState(offset)
      /\ pc' \in {"not_eligible", "revealed", "off_target", "no_container", "look"}
      /\ UNCHANGED <<lay, offset, there, steps, left, tapped, swipe>>
  BY DEF Start, Observed, End
<1>3. /\ Furthest' = Furthest /\ Searches' = Searches
      /\ \A o : RegionState(o)' = RegionState(o) /\ Found(o)' = Found(o)
  BY <1>2, SameLayout
<1>4. Leads(0, offset)'
  <2>1. \A o \in 0 .. 0 : o = 0
    OBVIOUS
  <2> QED
    BY <1>1, <1>2, <2>1 DEF Leads
<1>5. Placed'
  BY <1>1, <1>2, <1>3 DEF EndInv, Placed
<1> QED
  BY <1>2, <1>3, <1>4, <1>5 DEF EndInv, Looking, Swiping, Observing, NoMovementAtEnd

\* Whatever ends the run otherwise, or comes in between, moves nothing.
LEMMA OtherEnds ==
  ASSUME RevealInv, EndInv, Reveals \/ Ambiguous \/ OutOfBudget \/ RefuseRetreat \/ Leave \/ UNCHANGED vars
  PROVE  EndInv'
<1>1. UNCHANGED <<lay, offset, left, dump, prev, swipe>>
  BY DEF Reveals, Ambiguous, OutOfBudget, RefuseRetreat, Leave, vars
<1>2. /\ Furthest' = Furthest /\ Fiftieth' = Fiftieth /\ Aim' = Aim
      /\ Floats' = Floats /\ Walks' = Walks /\ Searches' = Searches
      /\ \A o : RegionState(o)' = RegionState(o) /\ Found(o)' = Found(o)
  BY <1>1, SameLayout
<1>8. saw' = saw
  BY DEF Reveals, Ambiguous, OutOfBudget, RefuseRetreat, Leave, vars
<1>3. \/ pc' \in {"revealed", "ambiguous", "wall", "budget", "retreat"}
      \/ pc' = pc /\ (there' = there \/ there' # "list")
  BY DEF Reveals, Ambiguous, OutOfBudget, RefuseRetreat, Leave, End, vars
<1>4. /\ Clear(0, offset)' <=> Clear(0, offset)
      /\ Clear(0, dump)' <=> Clear(0, dump)
      /\ Leads(0, offset)' <=> Leads(0, offset)
      /\ Leads(dump, offset)' <=> Leads(dump, offset)
      /\ Advanced' <=> Advanced
  BY <1>1, <1>2 DEF Clear, Leads, Advanced
<1>5. Placed'
  BY <1>1, <1>2, <1>3 DEF EndInv, Placed
<1>6. Looking' /\ Swiping' /\ Observing'
  BY <1>1, <1>2, <1>3, <1>4 DEF EndInv, Looking, Swiping, Observing
<1>7. NoMovementAtEnd'
  BY <1>1, <1>2, <1>3, <1>8 DEF EndInv, NoMovementAtEnd
<1> QED
  BY <1>5, <1>6, <1>7 DEF EndInv

\* A list no overlay floats over can be read, and goes along with generated swipes.
ListMoves == ~Floats => DragsFit /\ Moves /\ Legible

\* A reveal that ends because the list no longer moves has been all the way down it,
\* and could have tapped the row nowhere, or only where the list reads as it does
\* at its end: for every list that can be read and moves.
THEOREM StopsAtTheEnd == Spec /\ []ListMoves => []NoMovementAtEnd
<1>1. Init => EndInv /\ Aimed
  BY InitEnds DEF Init, Aimed
<1>2. RevealInv /\ Aimed /\ EndInv /\ ListMoves /\ [Next]_vars => EndInv' /\ Aimed'
  <2> SUFFICES ASSUME RevealInv, Aimed, EndInv, ListMoves, [Next]_vars
               PROVE  EndInv' /\ Aimed'
    OBVIOUS
  <2>1. Aimed'
    BY StepAims
  <2>2. CASE Start
    BY <2>1, <2>2, StartEnds
  <2>3. CASE Choose
    BY <2>1, <2>3, ChooseEnds
  <2>4. CASE Swipe
    BY <2>1, <2>4, SwipeEnds DEF ListMoves
  <2>5. CASE Observe
    BY <2>1, <2>5, ObserveEnds DEF ListMoves
  <2>6. CASE Reveals \/ Ambiguous \/ OutOfBudget \/ RefuseRetreat \/ Leave \/ UNCHANGED vars
    BY <2>1, <2>6, OtherEnds
  <2> QED
    BY <2>2, <2>3, <2>4, <2>5, <2>6 DEF Next
<1>3. EndInv => NoMovementAtEnd
  BY DEF EndInv
<1> QED
  BY <1>1, <1>2, <1>3, InvariantReveal, PTL DEF Spec
=============================================================================
