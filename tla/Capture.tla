------------------------------- MODULE Capture -------------------------------
(***************************************************************************)
(* From fingers on the glass to the gestures the recorder handles: the     *)
(* lines getevent prints (the kernel's, external), the decoders of the two *)
(* touch protocols (wendle/capture/protocols), the incremental stream over *)
(* them (wendle/record/stream.py) and the gesture queue they fill          *)
(* (wendle/record/loop.py); RecordSession models the one who empties it.   *)
(*                                                                         *)
(* A line is [code, value, ts].  Points are in display pixels; the panel   *)
(* reports them PanelX and PanelY times finer.  One tick of the clock is   *)
(* the half second that makes a press long.  Fingers wait for the lines    *)
(* printed so far to be read: a reader sees the same lines one by one      *)
(* whether or not more are printed behind them.                            *)
(***************************************************************************)
EXTENDS Integers, Sequences, SequencesExt

CONSTANTS
  Protocols,      \* subset of {"type_b", "btn_touch"}
  Slots,          \* slots of the panel: 0, 1, ..
  Starts,         \* where the contacts start, in the order they are made
  Points,         \* where a finger can move to, in display pixels
  PanelX, PanelY, \* panel units per display pixel
  SwipePx,        \* swipe_px (48 in the code)
  RawSwipe,       \* decode's default swipe_dist (30)
  MaxMoves,       \* bound: moves of fingers, all contacts together
  MaxTicks        \* bound: ticks of the clock

ASSUME CaptureAssumption ==
  /\ Protocols \subseteq {"type_b", "btn_touch"}
  /\ Slots \subseteq Nat /\ 0 \in Slots
  /\ Points \subseteq Nat \X Nat /\ Starts \in Seq(Points)
  /\ {PanelX, PanelY} \subseteq Nat \ {0}
  /\ {SwipePx, RawSwipe, MaxMoves, MaxTicks} \subseteq Nat

VARIABLES
  proto,   \* the profile's touch protocol
  fingers, \* the finger in each slot, or Lifted
  kslot,   \* the slot the kernel named last
  wire,    \* lines printed and not yet read
  now,     \* ticks
  contacts, moves, \* counts against the bounds
  events,  \* the buffer of stream_gestures
  emitted, \* how many gestures it has yielded
  ended,   \* its input is over
  gq,      \* the gestures put in the queue
  stop,    \* the recording's deadline is past
  made     \* history: contacts made by one finger alone, in the order they ended

deviceVars == <<fingers, kslot, wire, now, contacts, moves, made>>
vars == <<proto, deviceVars, events, emitted, ended, gq, stop>>

Lifted == [down |-> -1]
Down(s) == fingers[s] # Lifted

\* None of the decoders.
Unseen == -1
First(seen, v) == IF seen = Unseen THEN v ELSE seen

-----------------------------------------------------------------------------
(* Gestures *)

\* dist >= swipe_dist, where one unit of distance is ux and uy panel units.
Far(sx, sy, ex, ey, dist, ux, uy) ==
  LET dx == (ex - sx) * uy  dy == (ey - sy) * ux
      limit == dist * ux * uy
  IN dx * dx + dy * dy >= limit * limit

make_gesture(down, up, sx, sy, ex, ey, multi, truncated, thr) ==
  [kind |-> CASE multi -> "multi"
              [] ~multi /\ Far(sx, sy, ex, ey, thr.dist, thr.ux, thr.uy) -> "swipe"
              [] OTHER -> IF up - down >= 1 THEN "long_press" ELSE "tap",
   down |-> down, up |-> up, at |-> <<sx, sy>>, truncated |-> truncated]

\* A bug: panel deltas compared as if they were display pixels.
UnscaledThresholds == [dist |-> SwipePx, ux |-> 1, uy |-> 1]

\* The thresholds of live capture, and those decode falls back to.
LiveThresholds == [dist |-> SwipePx, ux |-> PanelX, uy |-> PanelY]
RawThresholds == [dist |-> RawSwipe, ux |-> 1, uy |-> 1]

-----------------------------------------------------------------------------
(* Protocol type B: a contact per slot, in the order they were opened *)

Opened(slot, ts, open) ==
  LET all == Append(open, [slot |-> slot, down |-> ts, multi |-> FALSE,
                           sx |-> Unseen, sy |-> Unseen, lx |-> Unseen, ly |-> Unseen])
  IN IF Len(all) > 1 THEN [i \in DOMAIN all |-> [all[i] EXCEPT !.multi = TRUE]] ELSE all

\* The gesture of a contact that closes (coordinates never seen count as 0).
Closed(c, ts, truncated, thr) ==
  LET sx == IF c.sx = Unseen THEN 0 ELSE c.sx
      sy == IF c.sy = Unseen THEN 0 ELSE c.sy
  IN make_gesture(c.down, ts, sx, sy, First(c.lx, sx), First(c.ly, sy), c.multi, truncated, thr)

close_contact(d, ts, thr) ==
  IF \E i \in DOMAIN d.open : d.open[i].slot = d.slot
  THEN LET i == CHOOSE i \in DOMAIN d.open : d.open[i].slot = d.slot IN
       [d EXCEPT !.open = RemoveAt(@, i), !.out = Append(@, Closed(d.open[i], ts, FALSE, thr))]
  ELSE d

open_contact(d, ts) == [d EXCEPT !.open = Opened(d.slot, ts, d.open)]

Positioned(d, axis, v) ==
  [d EXCEPT !.open = [i \in DOMAIN d.open |->
     LET c == d.open[i] IN
     IF c.slot # d.slot THEN c
     ELSE IF axis = "X" THEN [c EXCEPT !.sx = First(@, v), !.lx = v]
     ELSE [c EXCEPT !.sy = First(@, v), !.ly = v]]]

TypeBStep(thr, d, ev) ==
  CASE ev.code = "SLOT" -> [d EXCEPT !.slot = ev.value]
    [] ev.code = "TRACKING_ID" ->
         IF ev.value = "lift" THEN close_contact(d, ev.ts, thr)
         ELSE open_contact(close_contact(d, ev.ts, thr), ev.ts)
    [] ev.code \in {"X", "Y"} -> Positioned(d, ev.code, ev.value)
    [] OTHER -> d

\* The contacts still open when the lines end.
TypeBHeld(d, ts, thr) == [i \in DOMAIN d.open |-> Closed(d.open[i], ts, TRUE, thr)]

-----------------------------------------------------------------------------
(* Protocol BTN_TOUCH: one gesture from DOWN to UP *)

Idle == [active |-> FALSE, max_slot |-> 0, down |-> 0, sx |-> Unseen, sy |-> Unseen,
         lx |-> Unseen, ly |-> Unseen, out |-> <<>>]

BtnGesture(d, ts, truncated, thr) ==
  Closed([down |-> d.down, multi |-> d.max_slot > 0, sx |-> d.sx, sy |-> d.sy,
          lx |-> d.lx, ly |-> d.ly], ts, truncated, thr)

BtnTouchStep(thr, d, ev) ==
  CASE ev.code = "X" -> [d EXCEPT !.lx = ev.value, !.sx = IF d.active THEN First(@, ev.value) ELSE @]
    [] ev.code = "Y" -> [d EXCEPT !.ly = ev.value, !.sy = IF d.active THEN First(@, ev.value) ELSE @]
    [] ev.code = "SLOT" -> [d EXCEPT !.max_slot = IF ev.value > @ THEN ev.value ELSE @]
    [] ev.code = "BTN_TOUCH" /\ ev.value = "DOWN" ->
         [d EXCEPT !.active = TRUE, !.down = ev.ts, !.sx = d.lx, !.sy = d.ly]
    [] ev.code = "BTN_TOUCH" /\ ev.value = "UP" /\ d.active ->
         [Idle EXCEPT !.down = d.down, !.out = Append(d.out, BtnGesture(d, ev.ts, FALSE, thr))]
    [] OTHER -> d

BtnTouchHeld(d, ts, thr) == IF d.active THEN <<BtnGesture(d, ts, TRUE, thr)>> ELSE <<>>

-----------------------------------------------------------------------------
(* decode: a decoder fed line by line; what it still holds is truncated *)

Fresh(p) == IF p = "type_b" THEN [slot |-> 0, open |-> <<>>, out |-> <<>>] ELSE Idle

Step(p, thr, d, ev) == IF p = "type_b" THEN TypeBStep(thr, d, ev) ELSE BtnTouchStep(thr, d, ev)

Decoder(p, evs, thr) ==
  LET after[n \in 0..Len(evs)] ==
        IF n = 0 THEN Fresh(p) ELSE Step(p, thr, after[n - 1], evs[n])
  IN after[Len(evs)]

Held(p, d, ts, thr) == IF p = "type_b" THEN TypeBHeld(d, ts, thr) ELSE BtnTouchHeld(d, ts, thr)

decode(p, evs, thr) ==
  LET d == Decoder(p, evs, thr) IN d.out \o Held(p, d, Last(evs).ts, thr)

-----------------------------------------------------------------------------
(* The device: what fingers do, and the lines the kernel prints for it *)

Line(code, value) == [code |-> code, value |-> value, ts |-> now]

Slotted(s) == IF s = kslot THEN <<>> ELSE <<Line("SLOT", s)>>
At(p) == <<Line("X", p[1] * PanelX), Line("Y", p[2] * PanelY)>>
Moved(p, q) ==
  (IF p[1] = q[1] THEN <<>> ELSE <<Line("X", q[1] * PanelX)>>)
    \o (IF p[2] = q[2] THEN <<>> ELSE <<Line("Y", q[2] * PanelY)>>)

TypeBDevice == proto = "type_b"
Tracking(v) == IF TypeBDevice THEN <<Line("TRACKING_ID", v)>> ELSE <<>>
Button(v) == IF TypeBDevice THEN <<>> ELSE <<Line("BTN_TOUCH", v)>>
Others(s) == {t \in Slots \ {s} : Down(t)}

Prints(lines) ==
  /\ wire = <<>>
  /\ wire' = lines

\* A finger that comes down makes every contact that is on the glass a shared one.
Land(s) ==
  LET p == Starts[contacts + 1] IN
  /\ ~Down(s) /\ contacts < Len(Starts)
  /\ \A t \in Slots : t < s => Down(t)
  /\ contacts' = contacts + 1
  /\ LET alone == Others(s) = {} IN
       /\ fingers' = [t \in Slots |->
            IF t = s THEN [down |-> now, from |-> p, at |-> p, alone |-> alone]
            ELSE IF Down(t) THEN [fingers[t] EXCEPT !.alone = FALSE] ELSE Lifted]
       /\ \/ Prints(Slotted(s) \o Tracking("id") \o At(p) \o (IF alone THEN Button("DOWN") ELSE <<>>))
          \/ Prints(Slotted(s) \o Tracking("id") \o (IF alone THEN Button("DOWN") ELSE <<>>) \o At(p))
  /\ kslot' = s
  /\ UNCHANGED <<proto, now, moves, made, events, emitted, ended, gq, stop>>

Move(s, p) ==
  /\ Down(s) /\ p # fingers[s].at /\ moves < MaxMoves
  /\ moves' = moves + 1
  /\ fingers' = [fingers EXCEPT ![s].at = p]
  /\ Prints(Slotted(s) \o Moved(fingers[s].at, p))
  /\ kslot' = s
  /\ UNCHANGED <<proto, now, contacts, made, events, emitted, ended, gq, stop>>

\* A contact that was alone from first to last is one the recorder must see.
Ends(s) ==
  LET f == fingers[s] IN
  made' = IF f.alone THEN Append(made, [down |-> f.down, up |-> now, from |-> f.from, to |-> f.at])
          ELSE made

Lift(s) ==
  /\ Down(s)
  /\ fingers' = [fingers EXCEPT ![s] = Lifted]
  /\ Ends(s)
  /\ Prints(Slotted(s) \o Tracking("lift") \o (IF Others(s) = {} THEN Button("UP") ELSE <<>>))
  /\ kslot' = s
  /\ UNCHANGED <<proto, now, contacts, moves, events, emitted, ended, gq, stop>>

\* One finger replaces another in its slot within a frame: no lift is printed.
Replace(s) ==
  LET p == Starts[contacts + 1] IN
  /\ TypeBDevice /\ Down(s) /\ contacts < Len(Starts)
  /\ contacts' = contacts + 1
  /\ Ends(s)
  /\ fingers' = [fingers EXCEPT ![s] =
                   [down |-> now, from |-> p, at |-> p, alone |-> Others(s) = {}]]
  /\ Prints(Slotted(s) \o Tracking("id") \o At(p))
  /\ kslot' = s
  /\ UNCHANGED <<proto, now, moves, events, emitted, ended, gq, stop>>

Tick ==
  /\ \E s \in Slots : Down(s)
  /\ now < MaxTicks
  /\ now' = now + 1
  /\ UNCHANGED <<proto, fingers, kslot, wire, contacts, moves, made, events, emitted, ended, gq, stop>>

-----------------------------------------------------------------------------
(* stream_gestures, and the queue *)

\* A bug: open gestures are yielded too.
FinalAll(g) == g

\* A trailing gesture that is still open is held back.
Final(g) == IF g # <<>> /\ Last(g).truncated THEN Front(g) ELSE g

After(n, g) == SubSeq(g, n + 1, Len(g))

\* pump leaves the stream once the recording stops.
Pump(g) == gq' = IF stop THEN gq ELSE gq \o g

Read ==
  /\ ~ended /\ wire # <<>>
  /\ wire' = Tail(wire)
  /\ events' = Append(events, Head(wire))
  /\ LET final == Final(decode(proto, events', LiveThresholds)) IN
       /\ Pump(After(emitted, final))
       /\ emitted' = Len(final)
  /\ UNCHANGED <<proto, fingers, kslot, now, contacts, moves, made, ended, stop>>

\* getevent is over (the phone is gone, or the recording has stopped): what is
\* left is flushed, decoded with the defaults of decode.
EndOfStream ==
  /\ ~ended
  /\ ended' = TRUE
  /\ Pump(After(emitted, IF events = <<>> THEN <<>> ELSE decode(proto, events, RawThresholds)))
  /\ UNCHANGED <<proto, deviceVars, events, emitted, stop>>

Deadline ==
  /\ ~stop
  /\ stop' = TRUE
  /\ UNCHANGED <<proto, deviceVars, events, emitted, ended, gq>>

Init ==
  /\ proto \in Protocols
  /\ fingers = [s \in Slots |-> Lifted]
  /\ kslot = 0 /\ wire = <<>> /\ now = 0 /\ contacts = 0 /\ moves = 0
  /\ events = <<>> /\ emitted = 0 /\ ended = FALSE
  /\ gq = <<>> /\ stop = FALSE /\ made = <<>>

Next ==
  \/ \E s \in Slots : Land(s) \/ Replace(s) \/ Lift(s)
  \/ \E s \in Slots, p \in Points : Move(s, p)
  \/ Tick
  \/ Read \/ EndOfStream \/ Deadline

Spec == Init /\ [][Next]_vars

-----------------------------------------------------------------------------
(* Properties *)

\* What a contact was, to the finger that made it.
Gestured(c) ==
  [kind |-> CASE Far(c.from[1], c.from[2], c.to[1], c.to[2], SwipePx, 1, 1) -> "swipe"
              [] OTHER -> IF c.up - c.down >= 1 THEN "long_press" ELSE "tap",
   down |-> c.down, up |-> c.up,
   at |-> <<c.from[1] * PanelX, c.from[2] * PanelY>>, truncated |-> FALSE]

\* The loop skips what several fingers did together.
Single(g) == g.kind # "multi"

Complete(q) ==
  LET upto[n \in 0..Len(q)] ==
        IF n = 0 THEN <<>>
        ELSE IF Single(q[n]) /\ ~q[n].truncated THEN Append(upto[n - 1], q[n]) ELSE upto[n - 1]
  IN upto[Len(q)]

Wanted == [i \in DOMAIN made |-> Gestured(made[i])]

\* The recorder gets exactly the gestures that one finger made alone: none
\* invented, lost, doubled, reordered or taken for another kind, whatever
\* several fingers did in between and however the stream is cut into lines; and
\* once the lines are read none is withheld.
GesturesAsMade ==
  /\ IsPrefix(Complete(gq), Wanted)
  /\ wire = <<>> /\ ~ended /\ ~stop => Complete(gq) = Wanted

\* A touch whose finger is still down is handled only when the stream is over,
\* and is then the last: the recorder never acts on half a touch and then on
\* the whole of it.
NoHalfTouch ==
  \A i \in DOMAIN gq :
    Single(gq[i]) /\ gq[i].truncated => ended /\ \A j \in DOMAIN gq : j > i => ~Single(gq[j])
=============================================================================
