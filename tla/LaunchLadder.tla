---------------------------- MODULE LaunchLadder ----------------------------
(***************************************************************************)
(* The launch ladder (wendle/launch.py): the rungs that may bring up a     *)
(* recorded anchor, tried in turn behind one gate that waits for the       *)
(* recorded activity, and what the ladder learns from a launch that opened *)
(* the wrong one.  The caller starts it and takes its result.              *)
(*                                                                         *)
(* A rung only asks: what it asks for opens later, maybe after the gate    *)
(* has given up and the next rung has been issued.                         *)
(***************************************************************************)
EXTENDS Screens

CONSTANTS
  HomeScreen,  \* the launcher's place
  NoPlace,
  Worlds       \* what each rung brings up for each anchor (see WorldAssumption)

\* AM_START_LADDER: the rungs, their order, and how each resolves what opens.
RungNames == {"recorded_component", "icon_tap", "package_default", "monkey_launcher"}
Rank == [recorded_component |-> 1, icon_tap |-> 2, package_default |-> 3, monkey_launcher |-> 4]
Mechanism == [recorded_component |-> "component", icon_tap |-> "gesture",
              package_default |-> "intent_default", monkey_launcher |-> "intent_default"]

\* A rung's world outcome is a place of some app, "refused" (it raises) or
\* "nothing" (HOME stays in front too).  The two intent-default rungs resolve the
\* same entry, when either opens one.
Outcomes == Places \cup {"refused", "nothing"}
AmStart == {n \in Nodes : Node(n).anchor = "am_start"}

ASSUME WorldAssumption ==
  /\ HomeScreen \in Places /\ Place(HomeScreen).ns = LauncherNs
  /\ Worlds \subseteq [AmStart -> [RungNames -> Outcomes]]
  /\ {"refused", "nothing"} \cap Places = {}
  /\ \A w \in Worlds, a \in AmStart, r \in RungNames :
       w[a][r] \in Places => Place(w[a][r]).ns # LauncherNs
  /\ \A w \in Worlds, a \in AmStart :
       {w[a]["package_default"], w[a]["monkey_launcher"]} \subseteq Places =>
         w[a]["package_default"] = w[a]["monkey_launcher"]

VARIABLES
  at,       \* the place on display
  opening,  \* the places asked for and not open yet
  ladder,   \* the launch under way: where it is, and its locals
  winning,  \* _winning: the rung that last landed each anchor, or "none"
  world,    \* what the rungs bring up, a member of Worlds
  prompt,   \* whatever is asked for opens before the gate gives up
  residue   \* history: a rung of this launch was judged by a surface it had not opened

ladderVars == <<at, opening, ladder, winning, world, prompt, residue>>

Idle == [pc |-> "idle", anchor |-> None, left |-> {}, rung |-> "none",
         wrong |-> {}, seen |-> NoPlace]

LadderInit ==
  /\ at \in Places /\ opening = {} /\ ladder = Idle
  /\ winning = [a \in AmStart |-> "none"]
  /\ world \in Worlds /\ prompt \in BOOLEAN /\ residue = FALSE

\* The surface in front is neither the anchor's nor the launcher.
Wrong(p, a) == Place(p).ns # Node(a).ns /\ Place(p).ns # LauncherNs
Landed(p, a) == Place(p).ns = Node(a).ns /\ Place(p).ns # LauncherNs

-----------------------------------------------------------------------------
(***************************************************************************)
(* The device.                                                             *)
(***************************************************************************)
\* What was asked for opens.
Open(p) ==
  /\ p \in opening
  /\ at' = p /\ opening' = opening \ {p}
  /\ UNCHANGED <<ladder, winning, world, prompt, residue>>

\* Force-stopping a package takes its screens, shown or coming, away.
Stopped(pkg) == IF Place(at).pkg = pkg THEN HomeScreen ELSE at
Cancelled(pkg) == {p \in opening : Place(p).pkg # pkg}

-----------------------------------------------------------------------------
(***************************************************************************)
(* The ladder.                                                             *)
(***************************************************************************)
\* The proven rung first, the others in taxonomy order.
NextRung ==
  IF winning[ladder.anchor] \in ladder.left THEN winning[ladder.anchor]
  ELSE CHOOSE r \in ladder.left : \A q \in ladder.left : Rank[r] <= Rank[q]

\* launch(anchor): a key anchor is pressed and nothing is gated.
Launch(a) ==
  /\ ladder.pc = "idle"
  /\ IF Node(a).anchor = "keyevent"
     THEN at' = HomeScreen /\ ladder' = [Idle EXCEPT !.pc = "deferred", !.anchor = a]
     ELSE at' = at /\ ladder' = [Idle EXCEPT !.pc = "rung", !.anchor = a, !.left = RungNames]
  /\ residue' = FALSE
  /\ UNCHANGED <<opening, winning, world, prompt>>

\* launch_tap: the first recorded launcher edge that opens this activity.
IconEdges(a) == {e \in Edges : IsLauncher(e.from) /\ Node(e.to).ns = Node(a).ns}
IconEdge(a) == CHOOSE e \in IconEdges(a) : \A f \in IconEdges(a) : e.id <= f.id

Applicable(r, a) ==
  /\ r = "recorded_component" => ~Node(a).splash
  /\ r = "icon_tap" => IconEdges(a) # {}

\* Mutant: a landing back on the launcher condemns the mechanism too.
CondemnsAnything(p, a) == Place(p).ns # Node(a).ns

Condemns(p, a) == Wrong(p, a)

Past(r) == [ladder EXCEPT !.left = @ \ {r}]

\* A condemned mechanism, a rung that does not apply: the next one.
SkipRung ==
  LET r == NextRung IN
  /\ ladder.pc = "rung" /\ ladder.left # {}
  /\ Mechanism[r] \in ladder.wrong \/ ~Applicable(r, ladder.anchor)
  /\ ladder' = Past(r)
  /\ UNCHANGED <<at, opening, winning, world, prompt, residue>>

\* HOME when the launcher's own anchor is recorded, then the icon if it shows.
AfterHome(a) == IF Node(IconEdge(a).from).anchor = "keyevent" THEN HomeScreen ELSE at
IconShows(a) == IconEdge(a).sel \in Place(AfterHome(a)).shows

\* Issue a rung.  One that raises, or finds no icon, has still stopped the app or
\* pressed HOME.
IssueRung ==
  LET a == ladder.anchor
      r == NextRung
      stops == r \in {"recorded_component", "package_default"}
      out == world[a][r]
      issued == out # "refused" /\ (r = "icon_tap" => IconShows(a))
  IN
  /\ ladder.pc = "rung" /\ ladder.left # {}
  /\ Mechanism[r] \notin ladder.wrong /\ Applicable(r, a)
  /\ at' = IF stops THEN Stopped(Node(a).pkg) ELSE IF r = "icon_tap" THEN AfterHome(a) ELSE at
  /\ opening' = (IF stops THEN Cancelled(Node(a).pkg) ELSE opening)
                  \cup (IF issued /\ out \in Places THEN {out} ELSE {})
  /\ ladder' = IF issued THEN [Past(r) EXCEPT !.pc = "gate", !.rung = r]
               ELSE Past(r)
  /\ UNCHANGED <<winning, world, prompt, residue>>

\* The gate: the recorded activity is in front; the caller takes this observation.
GatePasses ==
  /\ ladder.pc = "gate" /\ Landed(at, ladder.anchor)
  /\ winning' = [winning EXCEPT ![ladder.anchor] = ladder.rung]
  /\ ladder' = [ladder EXCEPT !.pc = "landed", !.seen = at]
  /\ UNCHANGED <<at, opening, world, prompt, residue>>

\* ... or its window ends.
GateTimesOut ==
  /\ ladder.pc = "gate" /\ ~Landed(at, ladder.anchor)
  /\ prompt => opening = {}
  /\ ladder' = [ladder EXCEPT !.pc = "judge"]
  /\ residue' = (residue \/ (/\ Wrong(at, ladder.anchor)
                             /\ at # world[ladder.anchor][ladder.rung]))
  /\ UNCHANGED <<at, opening, winning, world, prompt>>

\* A fresh observation: a wrong surface condemns the rung's mechanism.
Judge ==
  /\ ladder.pc = "judge"
  /\ ladder' = [ladder EXCEPT !.pc = "rung",
                              !.wrong = @ \cup (IF Condemns(at, ladder.anchor)
                                                THEN {Mechanism[ladder.rung]} ELSE {})]
  /\ UNCHANGED <<at, opening, winning, world, prompt, residue>>

\* No rung is left: the proven one is forgotten.
Exhaust ==
  /\ ladder.pc = "rung" /\ ladder.left = {}
  /\ winning' = [winning EXCEPT ![ladder.anchor] = "none"]
  /\ ladder' = [ladder EXCEPT !.pc = "exhausted"]
  /\ UNCHANGED <<at, opening, world, prompt, residue>>

LadderStep == SkipRung \/ IssueRung \/ GatePasses \/ GateTimesOut \/ Judge \/ Exhaust
=============================================================================
