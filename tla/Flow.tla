-------------------------------- MODULE Flow --------------------------------
(***************************************************************************)
(* A recording turned into the linear command list that replay runs        *)
(* (replay/commands.py).  A recording is a record with fields              *)
(*   trace    its transitions in chronological order, each                 *)
(*            [from, to, act, typed]: act is "tap" (a label), "row" (a     *)
(*            label inside an adapter region), "key" (a key code) or       *)
(*            "scroll" (a fork hop); typed says that text was typed before *)
(*   anchored the screens that carry a verified am_start anchor            *)
(*   swiped   the screens with recorded reveal gestures                    *)
(* The anchor of a screen launches that screen.                            *)
(***************************************************************************)
EXTENDS Integers, Sequences, SequencesExt

CONSTANTS Screen,      \* the recorded screens
          Launcher,    \* those of the home screen
          Package,     \* the package of each
          Nothing      \* no screen, no package

ASSUME FlowAssumption == /\ Launcher \subseteq Screen
                         /\ Nothing \notin Screen
                         /\ \A s \in Screen : Package[s] # Nothing
                         /\ \A s, u \in Screen : Package[s] = Package[u] =>
                              (s \in Launcher <=> u \in Launcher)

\* The recorded screens in the order the recording met them.
Met(rec) == [k \in 1 .. 2 * Len(rec.trace) |->
               LET e == rec.trace[(k + 1) \div 2] IN IF k % 2 = 1 THEN e.from ELSE e.to]

\* The first screen of a sequence that is one of a set.
FirstOf(seq, set) ==
  LET places == {k \in DOMAIN seq : seq[k] \in set}
  IN  IF places = {} THEN Nothing ELSE seq[CHOOSE k \in places : \A j \in places : k <= j]

\* The screen replay starts on: the first with an am_start anchor, else the home
\* screen a recording began on, whose anchor is a key event.
LaunchAnchor(rec) ==
  LET first == FirstOf(Met(rec), rec.anchored)
  IN  IF first = Nothing /\ rec.trace # <<>> /\ rec.trace[1].from \in Launcher
      THEN rec.trace[1].from
      ELSE first

\* The anchor that launches screen s: its own, else any of its package.
AnchorFor(rec, s) ==
  IF s \in rec.anchored THEN s
  ELSE FirstOf(Met(rec), {a \in rec.anchored : Package[a] = Package[s]})

LaunchCmd(ei, s) == [kind |-> "launch", edge |-> ei, anchor |-> s]
Own(rec, ei) ==
  (IF rec.trace[ei].typed THEN <<[kind |-> "pre", edge |-> ei, anchor |-> Nothing]>> ELSE <<>>)
    \o <<[kind |-> "action", edge |-> ei, anchor |-> Nothing]>>

NeverReanchor(rec, start, flow, ei) == <<>>

\* The re-anchoring launch of an edge that departs from another screen than the
\* one the flow has reached, but for the first command on the start screen.
Reanchor(rec, start, flow, ei) ==
  LET from == rec.trace[ei].from
      s == AnchorFor(rec, from)
  IN  IF flow.last \in {Nothing, from} \/ s = Nothing \/ (flow.cmds = <<>> /\ s = start)
      THEN <<>>
      ELSE <<LaunchCmd(ei, s)>>

Enters(flow, e) == Package[e.to] # flow.package

\* One transition: what it adds to the flow once the start screen has been met.
Emit(rec, start, flow, ei) ==
  LET e == rec.trace[ei]
      entry == IF Enters(flow, e) THEN AnchorFor(rec, e.to) ELSE Nothing
      opened == Package[e.from] # Package[e.to]
  IN  CASE e.act = "scroll" -> [flow EXCEPT !.last = e.to]
        [] e.act # "scroll" /\ e.to \in Launcher -> [flow EXCEPT !.package = Nothing]
        [] e.act # "scroll" /\ e.to \notin Launcher /\ entry # Nothing /\ opened ->
             [flow EXCEPT !.package = Package[e.to], !.cmds = Append(@, LaunchCmd(ei, entry))]
        [] OTHER ->
             [flow EXCEPT !.package = Package[e.to], !.last = e.to,
                !.cmds = @ \o (IF entry # Nothing THEN <<LaunchCmd(ei, entry)>>
                               ELSE Reanchor(rec, start, flow, ei))
                           \o Own(rec, ei)]

\* Nothing is emitted before the trace leaves the start screen, or enters it: the
\* cold launch supersedes what led there.
FlowStep(rec, start, flow, ei) ==
  LET e == rec.trace[ei]
  IN  IF flow.started \/ e.from = start THEN Emit(rec, start, [flow EXCEPT !.started = TRUE], ei)
      ELSE [flow EXCEPT !.started = e.to = start]

FlowStart(start) == [started |-> start = Nothing, last |-> start, cmds |-> <<>>,
                     package |-> IF start = Nothing THEN Nothing ELSE Package[start]]

FlowOf(rec, start) ==
  LET built[n \in 0 .. Len(rec.trace)] == IF n = 0 THEN FlowStart(start)
                                          ELSE FlowStep(rec, start, built[n - 1], n)
  IN  built[Len(rec.trace)].cmds

\* The screens the recorded scroll hops lead to from s, and s: the least set that
\* is closed under the hops.
ScrollsFrom(rec, s) ==
  LET hops == {rec.trace[k] : k \in {j \in DOMAIN rec.trace : rec.trace[j].act = "scroll"}}
      twins == {s} \cup {e.to : e \in hops}
      closed == {S \in SUBSET twins : s \in S /\ \A e \in hops : e.from \in S => e.to \in S}
  IN  {t \in twins : \A S \in closed : t \in S}

ResumeAtArrival(rec, flow, target) ==
  LET arrives == {p \in DOMAIN flow : /\ flow[p].kind # "launch"
                                      /\ rec.trace[flow[p].edge].to \in ScrollsFrom(rec, target)}
  IN  IF arrives = {} THEN 0 ELSE CHOOSE p \in arrives : \A q \in arrives : p <= q

\* Where a run resumes after a goto: the first command that departs the target or
\* a screen its scroll hops lead to; 0 when none does.
ResumeAt(rec, flow, target) ==
  LET departs == {p \in DOMAIN flow : /\ flow[p].kind # "launch"
                                      /\ rec.trace[flow[p].edge].from \in ScrollsFrom(rec, target)}
  IN  IF departs = {} THEN 0 ELSE CHOOSE p \in departs : \A q \in departs : p <= q

\* The flow is empty although the recording has steps the start screen never
\* departs from.
NothingReplayable(rec, start, flow) ==
  LET sources == {rec.trace[k].from : k \in {j \in DOMAIN rec.trace : rec.trace[j].act # "scroll"}}
  IN  flow = <<>> /\ start # Nothing /\ sources # {} /\ start \notin sources
=============================================================================
