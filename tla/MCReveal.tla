------------------------------ MODULE MCReveal ------------------------------
(* Small lists on a screen of 240 pixels. *)
EXTENDS Reveal, TLC

Row(label, height) == [label |-> label, height |-> height]

\* Rows stacked one below the other.
Stack(rows) ==
  LET top[k \in DOMAIN rows] == IF k = 1 THEN 0 ELSE top[k - 1] + rows[k - 1].height
  IN  [k \in DOMAIN rows |-> [label |-> rows[k].label, top |-> top[k], height |-> rows[k].height]]
Feed == <<Row("a", 30), Row("b", 50), Row("c", 24), Row("d", 44), Row("e", 60), Row("w", 24),
          Row("f", 36), Row("g", 60), Row("h", 28), Row("i", 50), Row("j", 60)>>
Short == <<Row("a", 60), Row("b", 60), Row("c", 50), Row("w", 26), Row("d", 20), Row("e", 38)>>
Twice == <<Row("a", 60), Row("b", 70), Row("c", 40), Row("w", 30), Row("w", 30), Row("d", 60)>>
Without == <<Row("a", 60), Row("b", 70), Row("c", 55), Row("d", 45), Row("e", 75)>>
Last == <<Row("a", 64), Row("b", 70), Row("c", 55), Row("d", 45), Row("w", 24)>>

Pill(a, b, wide) == {[a |-> a, b |-> b, wide |-> wide]}
Gesture(start, end) == [start |-> start, end |-> end]

\* A slow swipe loses the slop, or drags the list on a little.
SlowDrags == {-6, 20, 60}

\* A list on the whole screen, one inside it, one that ends at its bottom edge.
Bounds == {<<0, 240>>, <<30, 190>>, <<60, 240>>}
\* Nothing over it; a pill over its bottom, or over the middle of it; a bar over its top.
Overs(lo, hi) == {{}, Pill(hi - 24, hi, TRUE), Pill(hi - 24, hi, FALSE), Pill(lo, lo + 24, TRUE)}

Layout(rows, lo, hi, over) ==
  [rows |-> Stack(rows), lo |-> lo, hi |-> hi, over |-> over, dim |-> 240, wanted |-> "w", gestures |-> <<>>,
   eligible |-> TRUE, bound |-> TRUE, act |-> "tap", twin |-> 0, advances |-> TRUE]

Plain == UNION {{Layout(rows, b[1], b[2], over) : rows \in {Feed, Short, Twice, Without, Last},
                                                 over \in Overs(b[1], b[2])} : b \in Bounds}
Special ==
  LET base == Layout(Feed, 30, 190, {})
      at == Pill(80, 100, TRUE)
  IN  {[base EXCEPT !.gestures = <<Gesture(170, 60), Gesture(160, 90)>>],
       [base EXCEPT !.gestures = <<Gesture(170, 60)>>, !.act = "type"],
       [base EXCEPT !.act = "type"], [base EXCEPT !.over = at],
       [base EXCEPT !.eligible = FALSE], [base EXCEPT !.bound = FALSE],
       [base EXCEPT !.act = "walk", !.twin = 60], [base EXCEPT !.act = "walk", !.twin = 999],
       [base EXCEPT !.act = "walk", !.twin = 60, !.advances = FALSE]}
AllLayouts == Plain \cup Special
=============================================================================
