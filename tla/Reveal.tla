------------------------------- MODULE Reveal -------------------------------
(***************************************************************************)
(* Scroll to reveal (reveal.py): a row that is not on the screen is looked *)
(* for by advancing the list it was recorded in, gesture by gesture, until *)
(* it can be tapped, or the list does not move, or a budget ends.  The     *)
(* same skeleton walks to the twin a fork scroll leads to.                 *)
(*                                                                         *)
(* A layout is a record: the screen's extent dim, the list's bounds lo and *)
(* hi, its rows (label, top, height), an overlay drawn over it (over from a to  *)
(* b, across the whole width or over the middle only), and what was        *)
(* recorded: the label wanted, the gestures (start and end), whether the   *)
(* list is bound and the element eligible, the kind of action.  A walk     *)
(* looks for the screen that the offsets from twin on show.                *)
(***************************************************************************)
EXTENDS Scroll, FiniteSets, Sequences

CONSTANTS Layouts,
          MaxSteps,   \* 30 in the code
          Drags,      \* how far a list travels beyond, or short of, a slow swipe
          Flings,     \* the same for a recorded gesture, replayed fast
          SystemZone  \* the system takes what starts this near a screen edge

ASSUME RevealAssumption == MaxSteps \in Nat /\ Drags \subseteq Int /\ Flings \subseteq Int

\* Positions are pixels, a list has a row, and at most one overlay is over it.
Pixels == [start : Int, end : Int]
ASSUME LayoutsAssumption ==
  \A l \in Layouts :
    /\ l.lo \in Int /\ l.hi \in Int /\ l.dim \in Int
    /\ l.gestures \in Seq(Pixels)
    /\ Len(l.rows) \in DOMAIN l.rows
    /\ \A r \in DOMAIN l.rows : l.rows[r].top \in Int /\ l.rows[r].height \in Int
    /\ \A v \in l.over : v.a \in Int /\ v.b \in Int
    /\ \A v, w \in l.over : v = w

VARIABLES lay,      \* the layout
          offset,   \* how far the list has been advanced
          there,    \* what the screen shows: the "list", an "other" list where it was,
                    \* nothing known ("gone"), or a known screen without one ("foreign")
          saw,      \* what of these the last observation showed
          pc, steps,
          left,     \* recorded gestures still to be replayed
          dump,     \* the offset the last observation saw
          prev,     \* the region state before the last step
          tapped,   \* where the row was tapped, or -1
          swipe     \* the last gesture

vars == <<lay, offset, there, saw, pc, steps, left, dump, prev, tapped, swipe>>

-----------------------------------------------------------------------------
(* What an observation shows. *)
Rows == DOMAIN lay.rows
Top(r) == lay.rows[r].top
Height(r) == lay.rows[r].height
Length == Top(Len(lay.rows)) + Height(Len(lay.rows))
Furthest == Larger(0, Length - (lay.hi - lay.lo))

Box(r, o) == [top |-> Larger(lay.lo, lay.lo + Top(r) - o),
              bottom |-> Lesser(lay.hi, lay.lo + Top(r) - o + Height(r))]
Seen(o) == {r \in Rows : Box(r, o).top < Box(r, o).bottom}

\* The value-bearing state of the list: what each child says, and its box in
\* fiftieths of the container.
RegionState(o) ==
  LET q == Larger(1, (lay.hi - lay.lo) \div 50)
  IN  {<<lay.rows[r].label, Box(r, o).top \div q, Box(r, o).bottom \div q>> : r \in Seen(o)}

Covers(box) == lay.over # {} /\ \E v \in lay.over : v.b > box.top /\ v.a < box.bottom
Trimmed(box) ==
  LET v == CHOOSE w \in lay.over : TRUE
  IN  IF ~Covers(box) \/ ~v.wide THEN box
      ELSE [top |-> IF v.a <= box.top THEN Larger(box.top, v.b) ELSE box.top,
            bottom |-> IF v.b >= box.bottom THEN Lesser(box.bottom, v.a) ELSE box.bottom]
Middle(box) == (box.top + box.bottom) \div 2
Overlaid(y) == \E v \in lay.over : v.a <= y /\ y <= v.b

\* The part of a row to tap: clear of what is drawn over it, and tall enough.
ClearBox(r, o) == Trimmed(Box(r, o))
IsClear(box) == box.bottom - box.top >= MinClear
CanTap(r, o) == r \in Seen(o) /\ IsClear(ClearBox(r, o)) /\ ~(Covers(Box(r, o)) /\ Overlaid(Middle(ClearBox(r, o))))

\* A row is tapped in the middle of its clear part.
TapMiddle(r, o) == Middle(Box(r, o))
TapPoint(r, o) == Middle(ClearBox(r, o))
Found(o) == {r \in Rows : lay.rows[r].label = lay.wanted /\ CanTap(r, o)}

WholeBand == [lo |-> lay.lo, hi |-> lay.hi]

\* The band a swipe may use: short of an overlay that covers an edge of the list.
Band ==
  LET covered == {v \in lay.over : v.b > lay.lo /\ v.a < lay.hi}
      hi == IF \E v \in covered : v.b >= lay.hi /\ v.a > lay.lo
            THEN Lesser(lay.hi, (CHOOSE v \in covered : TRUE).a) ELSE lay.hi
      lo == IF hi = lay.hi /\ \E v \in covered : v.a <= lay.lo /\ v.b < lay.hi
            THEN Larger(lay.lo, (CHOOSE v \in covered : TRUE).b) ELSE lay.lo
  IN  IF hi > lo THEN [lo |-> lo, hi |-> hi] ELSE [lo |-> lay.lo, hi |-> lay.hi]

-----------------------------------------------------------------------------
Init == /\ lay \in Layouts
        /\ offset = 0 /\ there = "list" /\ saw = "list" /\ pc = "start" /\ steps = 0
        /\ left = lay.gestures /\ dump = 0 /\ prev = {} /\ tapped = -1
        /\ swipe = [start |-> 0, end |-> 0, kind |-> "none"]

End(reason) == pc' = reason
Ended == pc \notin {"start", "look", "swipe", "observe"}

\* A walk may find itself on its target, or on another known screen.
Walks == lay.act = "walk"
OnTwin == there = "list" /\ dump' >= lay.twin
Observed == dump' = offset /\ saw' = there /\ prev' = RegionState(offset)

Start ==
  /\ pc = "start" /\ Observed
  /\ CASE ~lay.eligible /\ ~Walks -> End("not_eligible")
       [] Walks /\ OnTwin -> End("revealed")
       [] Walks /\ ~OnTwin /\ there = "foreign" -> End("off_target")
       [] OTHER -> IF lay.bound /\ there \in {"list", "other"} THEN End("look") ELSE End("no_container")
  /\ UNCHANGED <<lay, offset, there, steps, left, tapped, swipe>>

\* One clear match is tapped from this same observation, whatever the screen shows
\* by now; a field is only brought to the screen.  Of the rows of another list
\* nothing is known.
Taps(y) == tapped' = IF lay.act = "tap" THEN y ELSE tapped
Reveals ==
  /\ pc = "look" /\ ~Walks
  /\ \/ saw = "list" /\ \E r \in Found(dump) : Found(dump) = {r} /\ Taps(TapPoint(r, dump))
     \/ saw = "other" /\ Taps(lay.lo)
  /\ End("revealed")
  /\ UNCHANGED <<lay, offset, there, saw, steps, left, dump, prev, swipe>>

Ambiguous ==
  /\ pc = "look" /\ ~Walks /\ (saw = "other" \/ Cardinality(Found(dump)) > 1)
  /\ End("ambiguous")
  /\ UNCHANGED <<lay, offset, there, saw, steps, left, dump, prev, tapped, swipe>>

NotFound == pc = "look" /\ (Walks \/ saw = "other" \/ Found(dump) = {})

StepsLeft == steps < MaxSteps

\* The steps are spent, or the clock is.
OutOfBudget ==
  /\ NotFound
  /\ End(IF StepsLeft THEN "wall" ELSE "budget")
  /\ UNCHANGED <<lay, offset, there, saw, steps, left, dump, prev, tapped, swipe>>

\* A walk's gesture is taken only if it advances the list.
Retreats == Walks /\ ~lay.advances
RefuseRetreat ==
  /\ NotFound /\ StepsLeft /\ Retreats
  /\ End("retreat")
  /\ UNCHANGED <<lay, offset, there, saw, steps, left, dump, prev, tapped, swipe>>

Choose ==
  /\ NotFound /\ StepsLeft /\ ~Retreats
  /\ swipe' = IF left # <<>> /\ ~Walks
              THEN [start |-> Head(left).start, end |-> Head(left).end, kind |-> "recorded"]
              ELSE LET span == AdvanceSpan(Band.lo, Band.hi, lay.dim)
                   IN  [start |-> span.start, end |-> span.end, kind |-> "advance"]
  /\ left' = IF Walks \/ left = <<>> THEN left ELSE Tail(left)
  /\ pc' = "swipe"
  /\ UNCHANGED <<lay, offset, there, saw, steps, dump, prev, tapped>>

\* The list moves with a gesture that starts on it, not on an overlay nor in the
\* system's zone at an edge of the screen; a fast one flings it on.
Taken == /\ swipe.start # swipe.end /\ there = "list"
         /\ lay.lo <= swipe.start /\ swipe.start <= lay.hi /\ ~Overlaid(swipe.start)
         /\ SystemZone < swipe.start /\ swipe.start < lay.dim - SystemZone

Swipe ==
  /\ pc = "swipe"
  /\ IF Taken
     THEN \E extra \in IF swipe.kind = "recorded" THEN Flings ELSE Drags :
            offset' = Lesser(Furthest, Larger(0, offset + Travel(swipe) + extra))
     ELSE UNCHANGED offset
  /\ steps' = steps + 1 /\ pc' = "observe"
  /\ UNCHANGED <<lay, there, saw, left, dump, prev, tapped, swipe>>

\* The list is bound again where it was, or another in its place; a state that has
\* not changed ends the run.
Observe ==
  /\ pc = "observe" /\ Observed
  /\ CASE Walks /\ OnTwin -> End("revealed")
       [] Walks /\ ~OnTwin /\ there = "foreign" -> End("off_target")
       [] OTHER -> CASE there = "list" -> End(IF RegionState(offset) = prev THEN "no_movement" ELSE "look")
                     [] there = "other" -> End("look") \/ End("no_movement")
                     [] OTHER -> End("no_container")
  /\ UNCHANGED <<lay, offset, there, steps, left, tapped, swipe>>

\* Something else opens over the list.
Leave == /\ there = "list" /\ ~Ended
         /\ there' \in {"gone", "foreign", "other"}
         /\ UNCHANGED <<lay, offset, pc, saw, steps, left, dump, prev, tapped, swipe>>

Next == Start \/ Reveals \/ Ambiguous \/ OutOfBudget \/ RefuseRetreat \/ Choose \/ Swipe \/ Observe \/ Leave
Spec == Init /\ [][Next]_vars /\ WF_vars(Start \/ Reveals \/ Ambiguous \/ OutOfBudget \/ RefuseRetreat
                                           \/ Choose \/ Swipe \/ Observe)

-----------------------------------------------------------------------------
\* An overlay inside the list, at neither of its edges, is neither kept clear of
\* by the band nor passed by in half a band.
Floats == \E v \in lay.over : v.a > lay.lo /\ v.b < lay.hi

\* A row that could have been tapped somewhere along a generated step can be
\* tapped at one of its ends: no step jumps over the wanted row
\* (_advance_span, _clear_advance_band).
NoRowSkipped ==
  pc = "swipe" /\ pc' = "observe" /\ swipe.kind = "advance" /\ ~Floats =>
    \A r \in Rows : \A o \in offset .. offset' : CanTap(r, o) => CanTap(r, offset) \/ CanTap(r, offset')
StepsSkipNothing == [][NoRowSkipped]_vars

\* The point tapped is on a row with the recorded label, and on nothing drawn
\* over it (_matches_in_container, L5), while the screen shows the list that was
\* looked at: nothing else is known of a tap on what has come up since.
TapHitsRow ==
  tapped # -1 /\ saw = "list" /\ there = "list" =>
    /\ ~Overlaid(tapped)
    /\ \E r \in Seen(offset) :
         /\ lay.rows[r].label = lay.wanted
         /\ Box(r, offset).top <= tapped /\ tapped <= Box(r, offset).bottom

\* No movement is reported at the end of the list only, and then, if nothing but
\* generated steps were taken, the row could have been tapped nowhere, or only
\* where the list reads as it does at its end (attempt_reveal).
NoMovementAtEnd ==
  pc = "no_movement" /\ saw = "list" /\ swipe.kind = "advance" /\ ~Floats =>
    /\ offset = Furthest
    /\ lay.gestures = <<>> /\ ~Walks =>
         \A o \in 0 .. Furthest : Found(o) = {} \/ RegionState(o) = RegionState(offset)
=============================================================================
