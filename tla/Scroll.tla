------------------------------- MODULE Scroll -------------------------------
(***************************************************************************)
(* The geometry of one content-advance step over a list (reveal.py), on    *)
(* the axis the list scrolls along.  A list is seen between lo and hi; its *)
(* row at content position p, of height h, is drawn from lo + p - offset.  *)
(***************************************************************************)
EXTENDS Integers

CONSTANTS MinClear   \* 8 pixels: what must be clear of a row to tap it

\* A row clear by one pixel would be tapped on the edge of what covers it.
ASSUME ScrollAssumption == MinClear \in Nat /\ MinClear >= 2

Lesser(a, b) == IF a <= b THEN a ELSE b
Larger(a, b) == IF a >= b THEN a ELSE b

\* A tenth of the container, and twelve hundredths of the screen.
Inset(lo, hi) == Larger(1, (hi - lo) \div 10)
Clearance(lo, hi, dim) == Larger(Inset(lo, hi), (12 * dim) \div 100)
Half(lo, hi) == Larger(1, (hi - lo) \div 2)

\* Travel is capped at half the band, so that consecutive stops overlap.
Uncapped(start, end, half) == end
Capped(start, end, half) == IF start - end > half THEN start - half ELSE end

\* Where the swipe starts and ends: inset, cleared off the gesture zones of the
\* screen's edges, in the middle of the screen when that leaves nothing.
Ends(lo, hi, dim) ==
  LET inset == Inset(lo, hi)
      clear == Clearance(lo, hi, dim)
      start == IF hi >= dim - inset THEN Lesser(hi - inset, dim - clear) ELSE hi - inset
      end == IF lo <= inset THEN Larger(lo + inset, clear) ELSE lo + inset
  IN  IF start <= end THEN [start |-> dim - clear, end |-> clear]
                      ELSE [start |-> start, end |-> end]

AdvanceSpan(lo, hi, dim) ==
  LET ends == Ends(lo, hi, dim)
      end == Capped(ends.start, ends.end, Half(lo, hi))
  IN  IF ends.start > end THEN [start |-> ends.start, end |-> end] ELSE [start |-> lo, end |-> lo]

Travel(span) == span.start - span.end
=============================================================================
