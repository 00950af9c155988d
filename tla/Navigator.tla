----------------------------- MODULE Navigator -----------------------------
(***************************************************************************)
(* The navigator's closed loop (wendle/navigate/navigator.py): observe,    *)
(* decide which recorded node this is, then arrive, recover through the    *)
(* launch ladder, switch tabs, or walk one edge of the cheapest route, and *)
(* observe again.                                                          *)
(*                                                                         *)
(* Between any two steps the device may move: what was asked for opens     *)
(* late, or a bounded number of surprises brings up another place; the two *)
(* are not combined in one behaviour.                                      *)
(***************************************************************************)
EXTENDS LaunchLadder

CONSTANTS
  Targets,        \* the nodes navigate() is asked for
  Starts,         \* the places it may find the device on
  Bolts,          \* the places a move nobody asked for may bring up
  Leads(_, _),    \* the place a tap on a selector leads to, from a place
  Scrolled(_),    \* the place a content-advance swipe leaves it on
  Restless,       \* the places a settle may give up on
  StepCap, MaxRestarts, MaxWalks,  \* STEP_CAP, MAX_RESTARTS, walks per scroll edge
  MaxSwipes,      \* the swipe budget of one walk
  MaxSurprises    \* bound: moves of the device nobody asked for

ASSUME NavigatorAssumption ==
  /\ Targets \subseteq Nodes /\ Restless \cup Starts \cup Bolts \subseteq Places
  /\ {StepCap, MaxRestarts, MaxWalks, MaxSwipes, MaxSurprises} \subseteq Nat
  /\ \A p \in Places : Scrolled(p) \in Places /\ \A h \in Place(p).shows \cup Place(p).rows :
       Leads(p, h) \in Places

VARIABLES
  nav,       \* navigate(): where it is, its locals, and its outcome
  calm,      \* the device makes no move nobody asked for, and settles
  surprises  \* those it has made
vars == <<ladderVars, nav, calm, surprises>>

ScrollEdges == {e \in Routable : e.kind = "scroll"}
Handles == UNION {Place(p).shows \cup Place(p).rows : p \in Places}
NoOutcome == [status |-> "none", tier |-> 0]
Affordance == 5   \* the tier of an arrival the navigation bar shows

Init ==
  /\ LadderInit /\ at \in Starts
  /\ nav \in {[pc |-> "look", to |-> n, step |-> 0, obs |-> NoPlace, settled |-> TRUE,
               pending |-> FALSE, actual |-> None, tier |-> 0, forced |-> None,
               corroborated |-> FALSE, waypoint |-> FALSE, walked |-> [e \in ScrollEdges |-> 0],
               tried |-> {}, prev |-> 0, stale |-> 0, restarts |-> 0, why |-> "none",
               hop |-> None, last |-> NoPlace, swipes |-> 0, out |-> NoOutcome]
              : n \in {m \in Targets : SeedAnchor(m) # None}}
  /\ calm \in BOOLEAN /\ (prompt \/ calm) /\ surprises = 0

Seed == SeedAnchor(nav.to)
EdgeOf(id) == CHOOSE e \in Edges : e.id = id

Continue(n) == [n EXCEPT !.pc = "look", !.step = @ + 1]
Stop(n, status, tier) ==
  [n EXCEPT !.pc = "done", !.out = [status |-> status, tier |-> tier]]
Max2(a, b) == IF a < b THEN b ELSE a
Unverified(n) == Stop(n, "arrived_unverified", Max2(n.tier, Tier.unverifiable))

Still == UNCHANGED <<ladderVars, calm, surprises>>
Tapped(p) ==
  /\ at' = p
  /\ UNCHANGED <<opening, ladder, winning, world, prompt, residue, calm, surprises>>

-----------------------------------------------------------------------------
(***************************************************************************)
(* The device.                                                             *)
(***************************************************************************)
Surprise ==
  /\ ~calm /\ surprises < MaxSurprises /\ nav.pc # "done"
  /\ surprises' = surprises + 1
  /\ \E p \in Bolts \ {at} : at' = p
  /\ UNCHANGED <<opening, ladder, winning, world, prompt, residue, nav, calm>>

Opens == (\E p \in opening : Open(p)) /\ UNCHANGED <<nav, calm, surprises>>

SettledFlags(p) == IF p \in Restless /\ ~calm THEN BOOLEAN ELSE {TRUE}

-----------------------------------------------------------------------------
(***************************************************************************)
(* The top of the loop.                                                    *)
(***************************************************************************)
\* Recognise a place; an anchor just forced is trusted by its namespace until a
\* node is recognised.
Recognised(n, p, settled) ==
  LET a == ActualNode(p, n.to)
      trusted == /\ n.forced # None
                 /\ Place(p).ns = Node(n.forced).ns /\ Place(p).pkg = Node(n.forced).pkg
  IN  [n EXCEPT !.pc = "decide", !.obs = p, !.settled = settled, !.pending = FALSE,
                !.actual = IF a = None /\ trusted THEN n.forced ELSE a,
                !.forced = IF a = None THEN @ ELSE None,
                !.tier = VerifyMatch(p, at, n.to)]

\* Observe, or take the observation a launch was gated on.
Look ==
  /\ nav.pc = "look" /\ nav.step < StepCap
  /\ IF nav.pending THEN nav' = Recognised(nav, nav.obs, nav.settled)
     ELSE \E settled \in SettledFlags(at) : nav' = Recognised(nav, at, settled)
  /\ Still

GiveUp ==
  /\ nav.pc = "look" /\ nav.step = StepCap
  /\ nav' = Stop(nav, "force_failed", 0)
  /\ Still

InTargetApp == Place(nav.obs).pkg = Node(nav.to).pkg
CanReach == nav.actual # None /\ Reach(nav.actual, nav.to)
OnSection == CurrentSection(nav.obs, Tab(nav.to)) = "yes"

\* Which branch of the loop's body the observation takes, in the code's order.
Situation ==
  IF nav.actual = nav.to THEN "target"
  ELSE IF nav.settled /\ InTargetApp /\ Tab(nav.to) # NoHandle /\ OnSection THEN "section"
  ELSE IF /\ nav.tier = Tier.weak /\ nav.actual = None
          /\ nav.corroborated \/ nav.restarts > 0 THEN "weak"
  ELSE IF ~InTargetApp /\ ~CanReach THEN "foreign"
  ELSE IF nav.actual = None THEN "unknown"
  ELSE IF ~CanReach THEN "cut off"
  ELSE "route"

Decide(s) == nav.pc = "decide" /\ Situation = s

-----------------------------------------------------------------------------
(***************************************************************************)
(* Arrival.                                                                *)
(***************************************************************************)
ExactOk == nav.tier = Tier.exact /\ ~FingerprintAmbiguous(nav.to)
StructOk ==
  /\ nav.tier >= Tier.structure
  /\ ~FingerprintAmbiguous(nav.to) /\ ~StructureAmbiguous(nav.to)
Suspect == HasSuspectSelfLoop(nav.to) \/ nav.waypoint
Confident ==
  /\ ExactOk \/ StructOk
  /\ ~Suspect
  /\ (ExactOk /\ ValueBearingOnSight(nav.to)) \/ nav.corroborated

Arrive ==
  /\ Decide("target") /\ Confident
  /\ nav' = Stop(nav, "arrived", IF ExactOk THEN Tier.exact ELSE Tier.structure)
  /\ Still

\* One gated re-anchor through the ladder.
Recover(a, why) ==
  /\ nav.restarts < MaxRestarts
  /\ Launch(a)
  /\ nav' = [nav EXCEPT !.pc = "ladder", !.restarts = @ + 1, !.why = why]
  /\ UNCHANGED <<calm, surprises>>

\* Evidence that another place could also give is verified by re-anchoring.
ArriveAgain ==
  /\ Decide("target") /\ ~Confident /\ (ExactOk \/ StructOk)
  /\ Recover(Seed, "arrival")

ArriveUnverified ==
  /\ Decide("target") /\ ~Confident
  /\ ~(ExactOk \/ StructOk) \/ nav.restarts = MaxRestarts
  /\ nav' = Unverified(nav)
  /\ Still

\* The target's own tab is the selected one.
BySection(n) ==
  Stop(n, IF IsSectionLanding(n.to) THEN "arrived" ELSE "arrived_unverified", Affordance)

ArriveBySection == Decide("section") /\ nav' = BySection(nav) /\ Still

ArriveWeak ==
  /\ Decide("weak")
  /\ nav' = Stop(nav, "arrived_unverified", Tier.weak)
  /\ Still

-----------------------------------------------------------------------------
(***************************************************************************)
(* Recovery.                                                               *)
(***************************************************************************)
RecoverForeign ==
  LET a == AnchorInPkg(Node(nav.to).pkg) IN
  /\ Decide("foreign")
  /\ IF a # None THEN Recover(a, "loop") ELSE Reach(Seed, nav.to) /\ Recover(Seed, "loop")

RefuseForeign ==
  LET a == AnchorInPkg(Node(nav.to).pkg) IN
  /\ Decide("foreign")
  /\ nav.restarts = MaxRestarts \/ (a = None /\ ~Reach(Seed, nav.to))
  /\ nav' = Stop(nav, IF a = None THEN "cross_app_boundary" ELSE "force_failed", 0)
  /\ Still

\* Mutant: the place a launch landed on has to be recognised as well.
CorroboratedOnly(n, a) == [n EXCEPT !.corroborated = @ \/ a # None]

\* An anchor that landed is trusted by its namespace; None is not trusted.
Trusted(n, a) == [n EXCEPT !.forced = a, !.corroborated = @ \/ a # None]

\* The launch landed, or was handed on: trust the anchor.
Recovered ==
  /\ nav.pc = "ladder" /\ ladder.pc \in {"landed", "deferred"}
  /\ \E settled \in SettledFlags(ladder.seen) :
       nav' = Continue([Trusted(nav, ladder.anchor) EXCEPT
                          !.pending = ladder.pc = "landed", !.obs = ladder.seen,
                          !.settled = settled])
  /\ ladder' = Idle
  /\ UNCHANGED <<at, opening, winning, world, prompt, residue, calm, surprises>>

\* The ladder is exhausted: go on from a recognised place, without trust.
Exhausted ==
  /\ nav.pc = "ladder" /\ ladder.pc = "exhausted"
  /\ \E settled \in SettledFlags(at) :
       nav' = IF ActualNode(at, nav.to) # None
              THEN Continue([Trusted(nav, None) EXCEPT
                               !.pending = TRUE, !.obs = at, !.settled = settled])
              ELSE IF nav.why = "arrival" THEN Unverified(nav)
              ELSE Stop(nav, "force_failed", 0)
  /\ ladder' = Idle
  /\ UNCHANGED <<at, opening, winning, world, prompt, residue, calm, surprises>>

-----------------------------------------------------------------------------
(***************************************************************************)
(* Global navigation.                                                      *)
(***************************************************************************)
\* _global_affordance_action: the target's tab is on this screen, and untried.
TabEdges ==
  {e \in GlobalEdges(nav.to) : e.kind = "tap" /\ e.sel \in Place(nav.obs).tabs \ nav.tried}
TabEdge == FirstInbound(TabEdges)

\* _walk_global_affordance applies.
Switches == InTargetApp /\ Tab(nav.to) # NoHandle /\ (OnSection \/ TabEdges # {})
MaySwitch == nav.pc = "decide" /\ Situation \in {"unknown", "cut off"} /\ Switches

\* Already on the section, by a frame that has not settled.
ArriveUnsettled == MaySwitch /\ OnSection /\ nav' = BySection(nav) /\ Still

\* Tap the tab.
Switch ==
  LET e == TabEdge
      tapped == [nav EXCEPT !.tried = @ \cup {e.sel}, !.hop = e.id]
  IN
  /\ MaySwitch /\ ~OnSection
  /\ IF e.sel \in Place(at).shows
     THEN Tapped(Leads(at, e.sel)) /\ nav' = [tapped EXCEPT !.pc = "switched"]
     ELSE Still /\ nav' = Continue(tapped)

\* ... and judge what it shows.
Switched ==
  LET verdict == VerifyByAffordance(nav.obs, at, EdgeOf(nav.hop).sel, Node(nav.to).pkg) IN
  /\ nav.pc = "switched"
  /\ nav' = CASE verdict = "arrived" -> Stop(nav, "arrived", Affordance)
              [] verdict = "unverified" -> Stop(nav, "arrived_unverified", Affordance)
              [] OTHER -> Continue(nav)
  /\ Still

RecoverUnknown == Decide("unknown") /\ ~Switches /\ Recover(Seed, "loop")
RecoverCutOff ==
  Decide("cut off") /\ ~Switches /\ nav.actual # Seed /\ Recover(Seed, "loop")

StopUnknown ==
  /\ Decide("unknown") /\ ~Switches /\ nav.restarts = MaxRestarts
  /\ nav' = Stop(nav, "off_graph", 0)
  /\ Still

\* No way on but a recorded affordance into the target, wherever it was seen.
Inwards ==
  IF InTargetApp THEN {e \in Inbound(nav.to) : e.kind = "tap" /\ e.sel \notin nav.tried} ELSE {}
TryInwards ==
  LET e == FirstInbound(Inwards)
      tried == [nav EXCEPT !.tried = @ \cup {e.sel}]
  IN
  /\ Decide("cut off") /\ ~Switches
  /\ nav.actual = Seed \/ nav.restarts = MaxRestarts
  /\ IF Inwards # {} /\ e.sel \in Place(at).shows
     THEN Tapped(Leads(at, e.sel)) /\ nav' = Continue(tried)
     ELSE Still /\ nav' = Stop(nav, "off_graph", 0)

-----------------------------------------------------------------------------
(***************************************************************************)
(* Walking the route.                                                      *)
(***************************************************************************)
\* The progress debounce: two plans in a row that are no shorter.
Progress(n, remaining) ==
  [n EXCEPT !.stale = IF n.prev # 0 /\ remaining >= n.prev THEN @ + 1 ELSE 0,
            !.prev = remaining]

\* Plan, and take up the first edge.
Plan ==
  /\ Decide("route")
  /\ \E path \in Cheapest[nav.actual][nav.to] :
       LET n == Progress(nav, Len(path))
           e == BestEdge(path[1], path[2])
           m == [n EXCEPT !.hop = e.id]
       IN  nav' =
             IF n.stale >= 2 THEN Stop(n, "off_graph", 0)
             ELSE IF e.kind # "scroll" THEN [m EXCEPT !.pc = "act"]
             ELSE IF nav.walked[e] = MaxWalks \/ ~Exact(nav.obs, e.from)
                  THEN Stop(m, "off_graph", 0)
             ELSE [m EXCEPT !.pc = "walk", !.walked[e] = @ + 1, !.last = NoPlace, !.swipes = 0]
  /\ Still

\* walk_to_node, between two observations: stop at the edge's target, at another
\* node, without a list, without movement or budget; else swipe on.
Walk ==
  LET e == EdgeOf(nav.hop)
      other == ActualStrict(at) \notin {None, e.from, e.to}
  IN
  /\ nav.pc = "walk"
  /\ IF Resolves(at, e.to)
     THEN Still /\ nav' = Continue([nav EXCEPT !.waypoint = @ \/ HasSuspectSelfLoop(e.to)])
     ELSE IF other \/ Place(at).rows = {} \/ nav.last = at \/ nav.swipes = MaxSwipes
     THEN Still /\ nav' = Stop(nav, "content_drift", 0)
     ELSE Tapped(Scrolled(at)) /\ nav' = [nav EXCEPT !.last = at, !.swipes = @ + 1]

\* The edge's fields are typed into, then its action runs: by a row of the list
\* when it was recorded in one and the source is exact, else by its selector,
\* else by scrolling when that source recorded reveals.
Act ==
  LET e == EdgeOf(nav.hop)
      exact == Exact(nav.obs, e.from)
      inRows == e.sel \in Place(at).rows
      found == IF e.region /\ exact THEN inRows
               ELSE e.sel \in Place(at).shows \/ (exact /\ Node(e.from).reveals /\ inRows)
  IN
  /\ nav.pc = "act"
  /\ IF e.lacks THEN Still /\ nav' = Stop(nav, "credential_required", 0)
     ELSE IF e.kind = "coords" THEN Still /\ nav' = Stop(nav, "coordinate_only_refused", 0)
     ELSE IF ~found THEN Still /\ nav' = Stop(nav, "content_drift", 0)
     ELSE Tapped(Leads(at, e.sel)) /\ nav' = Continue([nav EXCEPT !.corroborated = TRUE])

-----------------------------------------------------------------------------
Launching == nav.pc = "ladder" /\ LadderStep /\ UNCHANGED <<nav, calm, surprises>>

Step ==
  \/ Look \/ GiveUp
  \/ Arrive \/ ArriveAgain \/ ArriveUnverified \/ ArriveBySection \/ ArriveWeak
  \/ RecoverForeign \/ RefuseForeign \/ Recovered \/ Exhausted
  \/ ArriveUnsettled \/ Switch \/ Switched \/ RecoverUnknown \/ RecoverCutOff
  \/ StopUnknown \/ TryInwards \/ Plan \/ Walk \/ Act
  \/ Launching

Next == Step \/ Opens \/ Surprise
\* The loop goes on, and what was asked for opens in the end.
Spec == Init /\ [][Next]_vars /\ WF_vars(Step) /\ WF_vars(Opens)

-----------------------------------------------------------------------------
Done(statuses) == nav.pc = "done" /\ nav.out.status \in statuses

\* What a place looks like to every check of the navigator.
Looks(p) == [Place(p) EXCEPT !.shows = {}, !.rows = {}]

\* Reported as arrived on the evidence of a full fingerprint, or of a structure
\* that folds no value in.
Claims ==
  /\ Done({"arrived"}) /\ nav.out.tier \in {Tier.structure, Tier.exact}
  /\ nav.out.tier = Tier.structure => Node(nav.to).kind \notin {"text", "refined"}

\* What is claimed was not observed on the screen another node was recorded on,
\* whatever the device did meanwhile (_fingerprint_ambiguous,
\* _structure_ambiguous).
NoTwinArrival ==
  Claims => \A n \in Nodes \ {nav.to} :
              nav.obs = Home(n) => Looks(Home(n)) = Looks(Home(nav.to))

\* No confident wrong arrival: not at a recorded twin; nor, when the device made no
\* move of its own, on a place the recording never saw (navigate, 596-631).
NoFalseArrival ==
  NoTwinArrival /\ (Claims /\ surprises = 0 => \E n \in Nodes : nav.obs = Home(n))

\* What the ladder would open for the anchor, on a rung that applies.
WouldLand(r, a) ==
  /\ Applicable(r, a) /\ world[a][r] \in Places /\ Landed(world[a][r], a)
  /\ r = "icon_tap" => /\ Node(IconEdge(a).from).anchor = "keyevent"
                       /\ IconEdge(a).sel \in Place(HomeScreen).shows

\* A launch the device followed promptly and nobody disturbed is given up only if
\* no rung would have landed: no mechanism is condemned that still could.  A rung
\* judged by a surface an earlier one had opened is the residual launch.py accepts.
NoFalseExhaustion ==
  /\ ladder.pc = "exhausted" /\ prompt /\ surprises = 0 /\ ~residue
  => \A r \in RungNames : ~WouldLand(r, ladder.anchor)

\* A device that opens what it is asked for, and makes no move of its own, is
\* brought to the target, when some rung lands the seed, none lands elsewhere in
\* its activity, and no rung does nothing in front of another's wrong surface.
Reachable ==
  LET opened == {world[Seed][r] : r \in {q \in RungNames : Applicable(q, Seed)}}
      wrong == {p \in opened \cap Places : Wrong(p, Seed)}
  IN
  /\ calm /\ prompt /\ Reach(Seed, nav.to)
  /\ \E r \in RungNames : WouldLand(r, Seed)
  /\ \A p \in opened \cap Places : Landed(p, Seed) => p = Home(Seed)
  /\ wrong = {} \/ "nothing" \notin opened
ArrivesWhenCalm == Reachable ~> Done({"arrived", "arrived_unverified"})
=============================================================================
