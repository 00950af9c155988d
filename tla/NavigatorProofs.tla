--------------------------- MODULE NavigatorProofs ---------------------------
(***************************************************************************)
(* Proofs about the navigator and its launch ladder, for every graph,      *)
(* every device and every set of rungs' outcomes.                          *)
(***************************************************************************)
EXTENDS Navigator, WellFoundedInduction, TLAPS

(***************************************************************************)
(* Sets of natural numbers.                                                *)
(***************************************************************************)
\* A set of naturals that is not empty has a least element.
LEMMA LeastNatural ==
  ASSUME NEW T \in SUBSET Nat, T # {}
  PROVE  \E x \in T : \A y \in T : x <= y
<1>1. \E R : IsWellFoundedOn(R, Nat) /\ \A x, y \in Nat : y < x => <<y, x>> \in R
  <2>1. IsWellFoundedOn(OpToRel(<, Nat), Nat)
    BY NatLessThanWellFounded
  <2>2. \A x, y \in Nat : y < x => <<y, x>> \in OpToRel(<, Nat)
    BY DEF OpToRel
  <2> QED
    BY <2>1, <2>2
<1>2. PICK R : IsWellFoundedOn(R, Nat) /\ \A x, y \in Nat : y < x => <<y, x>> \in R
  BY <1>1
<1>3. PICK x \in T : \A y \in T : ~(<<y, x>> \in R)
  BY <1>2, WFMin
<1>4. ASSUME NEW y \in T
      PROVE  x <= y
  <2>1. ~(<<y, x>> \in R)
    BY <1>3
  <2>2. x \in Nat /\ y \in Nat
    OBVIOUS
  <2>3. ~(y < x)
    BY <1>2, <2>1, <2>2
  <2> QED
    BY <2>2, <2>3
<1> QED
  BY <1>4

(***************************************************************************)
(* The launch ladder.                                                      *)
(***************************************************************************)
\* The anchor of a launch under way is one that is started, and only the loop that
\* started it waits for it; what has been asked for is no launcher.
Fields == {"pc", "anchor", "left", "rung", "wrong", "seen"}
NavFields == {"pc", "to", "obs", "tier", "out"}
Searching == ladder.pc \in {"rung", "gate", "judge", "exhausted"}

Shape ==
  /\ Anchors # {}
  /\ at \in Places /\ world \in Worlds
  /\ \A p \in opening : p \in Places /\ Place(p).ns # LauncherNs
  /\ DOMAIN ladder = Fields /\ NavFields \subseteq DOMAIN nav
  /\ ladder.pc # "idle" => nav.pc = "ladder"
  /\ Searching => ladder.anchor \in AmStart /\ ladder.left \subseteq RungNames
  /\ ladder.pc \in {"gate", "judge"} => ladder.rung \in RungNames
  /\ ladder.pc = "exhausted" => ladder.left = {}
  /\ surprises \in Nat

Product == world[ladder.anchor][ladder.rung]
Prompt == prompt /\ surprises = 0 /\ ~residue

\* A rung that would land is still to be tried, or has just been issued.
Untried ==
  \A r \in RungNames :
    WouldLand(r, ladder.anchor) => r \in ladder.left \/ (ladder.pc = "gate" /\ r = ladder.rung)

\* A mechanism is condemned for the surface one of its own rungs opens.
CondemnedRightly ==
  \A m \in ladder.wrong : \E r \in RungNames :
    /\ Mechanism[r] = m /\ world[ladder.anchor][r] \in Places
    /\ Wrong(world[ladder.anchor][r], ladder.anchor)

\* What a rung asked for is coming, or came; something else may have opened since.
Coming ==
  ladder.pc = "gate" /\ Product \in Places =>
    Product \in opening \/ at = Product \/ Place(at).ns # LauncherNs

\* What is judged is what the rung opened, and nothing more is to come.
JudgesItsOwn ==
  ladder.pc = "judge" => opening = {} /\ (Wrong(at, ladder.anchor) => at = Product)

Search == Searching /\ Prompt => Untried /\ CondemnedRightly /\ Coming /\ JudgesItsOwn
LadderInv == Shape /\ Search

\* A set of nodes has a first one.
LEMMA FirstNode ==
  ASSUME NEW S \in SUBSET Nodes, S # {}
  PROVE  Min(S) \in S
<1>1. S \in SUBSET Nat
  BY ScreensAssumption
<1>2. \E x \in S : \A y \in S : x <= y
  BY <1>1, LeastNatural
<1> QED
  BY <1>2 DEF Min

\* Where there is an anchor there is a seed, whatever the target.
LEMMA SeedIsAnchor ==
  ASSUME NEW to
  PROVE  /\ Anchors # {} => SeedAnchor(to) \in Anchors
         /\ SeedAnchor(to) # None => Anchors # {}
<1> DEFINE reaching == {n \in Anchors : Reach(n, to)}
           own == AnchorInPkg(Node(to).pkg)
<1>1. SeedAnchor(to) = IF own # None THEN own
                       ELSE IF reaching # {} THEN Min(reaching)
                       ELSE IF Anchors # {} THEN Min(Anchors) ELSE None
  BY DEF SeedAnchor
<1>2. own # None => own \in Anchors
  <2>1. AnchorsIn(Node(to).pkg) \in SUBSET Nodes /\ AnchorsIn(Node(to).pkg) \subseteq Anchors
    BY DEF AnchorsIn, Anchors
  <2> QED
    BY <2>1, FirstNode DEF AnchorInPkg
<1>3. reaching # {} => Min(reaching) \in Anchors
  <2>1. reaching \in SUBSET Nodes /\ reaching \subseteq Anchors
    BY DEF Anchors
  <2> HIDE DEF reaching
  <2> QED
    BY <2>1, FirstNode
<1>4. Anchors # {} => Min(Anchors) \in Anchors
  BY FirstNode DEF Anchors
<1> HIDE DEF reaching, own
<1> QED
  BY <1>1, <1>2, <1>3, <1>4

LEMMA OwnAnchor ==
  ASSUME NEW pkg, AnchorInPkg(pkg) # None
  PROVE  AnchorInPkg(pkg) \in Anchors
<1>1. AnchorsIn(pkg) \in SUBSET Nodes /\ AnchorsIn(pkg) \subseteq Anchors
  BY DEF AnchorsIn, Anchors
<1> QED
  BY <1>1, FirstNode DEF AnchorInPkg

\* The rung tried next is one of those left.
LEMMA NextIsLeft ==
  ASSUME ladder.left \subseteq RungNames, ladder.left # {}
  PROVE  NextRung \in ladder.left
<1>1. ASSUME NEW S \in SUBSET RungNames, S # {}
      PROVE  \E r \in S : \A q \in S : Rank[r] <= Rank[q]
  <2>1. CASE "recorded_component" \in S
    BY <2>1 DEF RungNames, Rank
  <2>2. CASE "recorded_component" \notin S /\ "icon_tap" \in S
    BY <2>2 DEF RungNames, Rank
  <2>3. CASE S \subseteq {"package_default", "monkey_launcher"} /\ "package_default" \in S
    BY <2>3 DEF RungNames, Rank
  <2>4. CASE S = {"monkey_launcher"}
    BY <2>4 DEF Rank
  <2> QED
    BY <1>1, <2>1, <2>2, <2>3, <2>4 DEF RungNames
<1>2. \E r \in ladder.left : \A q \in ladder.left : Rank[r] <= Rank[q]
  BY <1>1
<1> QED
  BY <1>2 DEF NextRung

LEMMA InitShape == Init => Shape /\ Search
<1> SUFFICES ASSUME Init PROVE Shape /\ Search
  OBVIOUS
<1>1. PICK n \in Targets : SeedAnchor(n) # None
  BY DEF Init
<1>2. Anchors # {}
  BY <1>1, SeedIsAnchor
<1>3. ladder = Idle /\ NavFields \subseteq DOMAIN nav
  BY DEF Init, LadderInit, NavFields
<1>4. DOMAIN ladder = Fields /\ ladder.pc = "idle"
  BY <1>3 DEF Idle, Fields
<1> QED
  BY <1>2, <1>3, <1>4 DEF Init, LadderInit, Shape, Search, Searching
\* The device moves, the loop does not.
LEMMA DeviceShape ==
  ASSUME Shape, at' \in Places, opening' \subseteq opening,
         UNCHANGED <<ladder, world, nav>>, surprises' \in Nat
  PROVE  Shape'
  BY DEF Shape, Searching, AmStart

\* The loop goes on, while no launch is under way.
LEMMA LoopShape ==
  ASSUME Shape, ladder.pc = "idle", at' \in Places, DOMAIN nav' = DOMAIN nav,
         UNCHANGED <<opening, ladder, world, surprises>>
  PROVE  Shape'
  BY DEF Shape, Searching

\* A launch is started from an anchor.
LEMMA RecoverShape ==
  ASSUME Shape, NEW a \in Anchors, NEW why, Recover(a, why)
  PROVE  Shape'
<1>1. ladder.pc = "idle" /\ UNCHANGED <<opening, world, surprises>>
  BY DEF Recover, Launch
<1>2. nav'.pc = "ladder" /\ DOMAIN nav' = DOMAIN nav
  BY DEF Recover, Shape, NavFields
<1>3. CASE Node(a).anchor = "keyevent"
  <2>1. at' = HomeScreen /\ ladder' = [Idle EXCEPT !.pc = "deferred", !.anchor = a]
    BY <1>3 DEF Recover, Launch
  <2>2. DOMAIN ladder' = Fields /\ ladder'.pc = "deferred"
    BY <2>1 DEF Idle, Fields
  <2> QED
    BY <1>1, <1>2, <2>1, <2>2, WorldAssumption DEF Shape, Searching
<1>4. CASE Node(a).anchor # "keyevent"
  <2>1. at' = at /\ ladder' = [Idle EXCEPT !.pc = "rung", !.anchor = a, !.left = RungNames]
    BY <1>4 DEF Recover, Launch
  <2>2. /\ DOMAIN ladder' = Fields /\ ladder'.pc = "rung"
        /\ ladder'.anchor = a /\ ladder'.left = RungNames
    BY <2>1 DEF Idle, Fields
  <2>3. a \in AmStart
    BY <1>4, ScreensAssumption DEF Anchors, AmStart
  <2> QED
    BY <1>1, <1>2, <2>1, <2>2, <2>3 DEF Shape, Searching
<1> QED
  BY <1>3, <1>4

\* The ladder takes a step.
LEMMA LadderShape ==
  ASSUME Shape, LadderStep, UNCHANGED <<nav, surprises>>
  PROVE  Shape'
<1> USE DEF Shape, Searching, Fields
<1>1. CASE SkipRung
  BY <1>1 DEF SkipRung, Past
<1>2. CASE IssueRung
  <2> DEFINE a == ladder.anchor
             r == NextRung
             out == world[a][r]
             stops == r \in {"recorded_component", "package_default"}
             issued == out # "refused" /\ (r = "icon_tap" => IconShows(a))
  <2>1. ladder.pc = "rung" /\ a \in AmStart /\ r \in RungNames
    BY <1>2, NextIsLeft DEF IssueRung
  <2>2. out \in Places => Place(out).ns # LauncherNs
    BY <2>1, WorldAssumption
  <2>3. /\ at' = IF stops THEN Stopped(Node(a).pkg) ELSE IF r = "icon_tap" THEN AfterHome(a) ELSE at
        /\ opening' = (IF stops THEN Cancelled(Node(a).pkg) ELSE opening)
                        \cup (IF issued /\ out \in Places THEN {out} ELSE {})
        /\ ladder' = IF issued THEN [Past(r) EXCEPT !.pc = "gate", !.rung = r] ELSE Past(r)
        /\ UNCHANGED world
    BY <1>2 DEF IssueRung
  <2> HIDE DEF issued, stops, r, out
  <2>4. at' \in Places
    BY <2>3, WorldAssumption DEF Stopped, AfterHome
  <2>5. \A p \in opening' : p \in Places /\ Place(p).ns # LauncherNs
    BY <2>2, <2>3 DEF Cancelled
  <2>6. /\ DOMAIN ladder' = Fields /\ ladder'.pc \in {"rung", "gate"}
        /\ ladder'.anchor = a /\ ladder'.left \subseteq ladder.left
        /\ ladder'.pc = "gate" => ladder'.rung = r
    BY <2>1, <2>3 DEF Past
  <2> QED
    BY <2>1, <2>3, <2>4, <2>5, <2>6
<1>3. CASE GatePasses
  BY <1>3 DEF GatePasses
<1>4. CASE GateTimesOut
  BY <1>4 DEF GateTimesOut
<1>5. CASE Judge
  BY <1>5 DEF Judge
<1>6. CASE Exhaust
  BY <1>6 DEF Exhaust
<1> QED
  BY <1>1, <1>2, <1>3, <1>4, <1>5, <1>6 DEF LadderStep

\* What the loop writes down keeps its fields.
LEMMA NavKeepsFields ==
  ASSUME [Next]_vars
  PROVE  DOMAIN nav' = DOMAIN nav
<1> USE DEF Continue, Stop, Unverified, Recover, BySection, Trusted, Progress
<1>1. CASE Look
  BY <1>1 DEF Look, Recognised
<1>2. CASE GiveUp \/ Arrive \/ ArriveAgain \/ ArriveUnverified \/ ArriveBySection \/ ArriveWeak
  BY <1>2 DEF GiveUp, Arrive, ArriveAgain, ArriveUnverified, ArriveBySection, ArriveWeak
<1>3. CASE RecoverForeign \/ RefuseForeign \/ RecoverUnknown \/ RecoverCutOff
  BY <1>3 DEF RecoverForeign, RefuseForeign, RecoverUnknown, RecoverCutOff
<1>4. CASE Recovered
  BY <1>4 DEF Recovered
<1>5. CASE Exhausted
  BY <1>5 DEF Exhausted
<1>6. CASE ArriveUnsettled \/ StopUnknown
  BY <1>6 DEF ArriveUnsettled, StopUnknown
<1>7. CASE Switch
  BY <1>7 DEF Switch
<1>8. CASE Switched
  BY <1>8 DEF Switched
<1>9. CASE TryInwards
  BY <1>9 DEF TryInwards
<1>10. CASE Plan
  BY <1>10 DEF Plan
<1>11. CASE Walk
  BY <1>11 DEF Walk
<1>12. CASE Act
  BY <1>12 DEF Act
<1>13. CASE Launching \/ Opens \/ Surprise \/ UNCHANGED vars
  BY <1>13 DEF Launching, Opens, Surprise, vars
<1> QED
  BY <1>1, <1>2, <1>3, <1>4, <1>5, <1>6, <1>7, <1>8, <1>9, <1>10, <1>11, <1>12, <1>13 DEF Next, Step

LEMMA StepShape == Shape /\ [Next]_vars => Shape'
<1> SUFFICES ASSUME Shape, [Next]_vars PROVE Shape'
  OBVIOUS
<1>1. DOMAIN nav' = DOMAIN nav
  BY NavKeepsFields
<1>2. nav.pc # "ladder" => ladder.pc = "idle"
  BY DEF Shape
<1>3. CASE \/ Look \/ GiveUp \/ Arrive \/ ArriveUnverified \/ ArriveBySection \/ ArriveWeak
           \/ RefuseForeign \/ ArriveUnsettled \/ Switched \/ StopUnknown \/ Plan
  <2>1. nav.pc # "ladder" /\ UNCHANGED <<ladderVars, surprises>>
    BY <1>3 DEF Look, GiveUp, Arrive, ArriveUnverified, ArriveBySection, ArriveWeak, RefuseForeign,
                ArriveUnsettled, Switched, StopUnknown, Plan, Decide, MaySwitch, Still
  <2>2. at' \in Places
    BY <2>1 DEF Shape, ladderVars
  <2> QED
    BY <1>1, <1>2, <2>1, <2>2, LoopShape DEF ladderVars
<1>4. CASE ArriveAgain \/ RecoverForeign \/ RecoverUnknown \/ RecoverCutOff
  <2>1. Seed \in Anchors
    BY SeedIsAnchor DEF Seed, Shape
  <2>2. PICK a \in Anchors, why \in {"arrival", "loop"} : Recover(a, why)
    BY <1>4, <2>1, OwnAnchor DEF ArriveAgain, RecoverForeign, RecoverUnknown, RecoverCutOff
  <2> QED
    BY <2>2, RecoverShape
<1>5. CASE Recovered \/ Exhausted
  <2>1. ladder' = Idle /\ UNCHANGED <<at, opening, world, surprises>>
    BY <1>5 DEF Recovered, Exhausted
  <2>2. DOMAIN ladder' = Fields /\ ladder'.pc = "idle"
    BY <2>1 DEF Idle, Fields
  <2> QED
    BY <1>1, <2>1, <2>2 DEF Shape, Searching
<1>6. CASE Switch \/ TryInwards \/ Walk \/ Act
  <2>1. nav.pc # "ladder"
    BY <1>6 DEF Switch, TryInwards, Walk, Act, Decide, MaySwitch
  <2>2. UNCHANGED <<opening, ladder, world, surprises>>
    BY <1>6 DEF Switch, TryInwards, Walk, Act, Still, Tapped, ladderVars
  <2>3. at' \in Places
    <3>1. CASE Switch
      BY <3>1, NavigatorAssumption DEF Switch, Still, Tapped, ladderVars, Shape
    <3>2. CASE TryInwards
      BY <3>2, NavigatorAssumption DEF TryInwards, Still, Tapped, ladderVars, Shape
    <3>3. CASE Walk
      BY <3>3, NavigatorAssumption DEF Walk, Still, Tapped, ladderVars, Shape
    <3>4. CASE Act
      BY <3>4, NavigatorAssumption DEF Act, Still, Tapped, ladderVars, Shape
    <3> QED
      BY <1>6, <3>1, <3>2, <3>3, <3>4
  <2> QED
    BY <1>1, <1>2, <2>1, <2>2, <2>3, LoopShape
<1>7. CASE Launching
  BY <1>7, LadderShape DEF Launching
<1>8. CASE Opens \/ Surprise
  <2>1. at' \in Places /\ opening' \subseteq opening /\ UNCHANGED <<ladder, world, nav>> /\ surprises' \in Nat
    BY <1>8, NavigatorAssumption DEF Opens, Open, Surprise, Shape
  <2> QED
    BY <2>1, DeviceShape
<1>9. CASE UNCHANGED vars
  <2>1. at' \in Places /\ opening' \subseteq opening /\ UNCHANGED <<ladder, world, nav>> /\ surprises' \in Nat
    BY <1>9 DEF vars, ladderVars, Shape
  <2> QED
    BY <2>1, DeviceShape
<1> QED
  BY <1>3, <1>4, <1>5, <1>6, <1>7, <1>8, <1>9 DEF Next, Step
\* No rung of a condemned mechanism would land.
LEMMA CondemnedFails ==
  ASSUME Shape, CondemnedRightly, Searching,
         NEW r \in RungNames, Mechanism[r] \in ladder.wrong
  PROVE  ~WouldLand(r, ladder.anchor)
<1> DEFINE a == ladder.anchor
<1>1. PICK q \in RungNames : /\ Mechanism[q] = Mechanism[r] /\ world[a][q] \in Places
                             /\ Wrong(world[a][q], a)
  BY DEF CondemnedRightly
<1>2. world[a][r] \in Places => world[a][r] = world[a][q]
  <2>1. \/ q = r
        \/ {q, r} = {"package_default", "monkey_launcher"}
    BY <1>1 DEF RungNames, Mechanism
  <2>2. CASE q = r
    BY <2>2
  <2>3. CASE {q, r} = {"package_default", "monkey_launcher"}
    <3>1. world \in Worlds /\ a \in AmStart
      BY DEF Shape
    <3>2. {world[a]["package_default"], world[a]["monkey_launcher"]} \subseteq Places =>
            world[a]["package_default"] = world[a]["monkey_launcher"]
      BY <3>1, WorldAssumption
    <3> QED
      BY <1>1, <2>3, <3>2
  <2> QED
    BY <2>1, <2>2, <2>3
<1> QED
  BY <1>1, <1>2 DEF WouldLand, Wrong, Landed

\* A launch's step keeps the search.
LEMMA LadderSearch ==
  ASSUME Shape, Search, LadderStep, UNCHANGED <<nav, surprises>>
  PROVE  Search'
<1> SUFFICES ASSUME Searching', Prompt'
             PROVE  (Untried /\ CondemnedRightly /\ Coming /\ JudgesItsOwn)'
  BY DEF Search
<1> DEFINE a == ladder.anchor
<1>1. Searching /\ Prompt
  <2>1. Searching
    BY DEF LadderStep, SkipRung, IssueRung, GatePasses, GateTimesOut, Judge, Exhaust, Searching
  <2>2. prompt /\ surprises = 0
    BY DEF LadderStep, SkipRung, IssueRung, GatePasses, GateTimesOut, Judge, Exhaust, Prompt
  <2>3. residue' = residue \/ (GateTimesOut /\ ~residue')
    BY ZenonT(20) DEF LadderStep, SkipRung, IssueRung, GatePasses, Judge, Exhaust, Prompt
  <2>4. ~residue
    BY <2>3 DEF GateTimesOut, Prompt
  <2> QED
    BY <2>1, <2>2, <2>4 DEF Prompt
<1>2. Untried /\ CondemnedRightly /\ Coming /\ JudgesItsOwn
  BY <1>1 DEF Search
<1>3. /\ a \in AmStart /\ ladder.left \subseteq RungNames /\ DOMAIN ladder = Fields
      /\ ladder.pc \in {"gate", "judge"} => ladder.rung \in RungNames
  BY <1>1 DEF Shape
<1>4. UNCHANGED world
  BY DEF LadderStep, SkipRung, IssueRung, GatePasses, GateTimesOut, Judge, Exhaust
<1>5. CASE SkipRung
  <2> DEFINE r == NextRung
  <2>1. /\ ladder.pc = "rung" /\ r \in ladder.left
        /\ Mechanism[r] \in ladder.wrong \/ ~Applicable(r, a)
        /\ ladder' = [ladder EXCEPT !.left = @ \ {r}]
    BY <1>3, <1>5, NextIsLeft DEF SkipRung, Past
  <2>2. ~WouldLand(r, a)
    BY <1>1, <1>2, <1>3, <2>1, CondemnedFails DEF WouldLand
  <2> HIDE DEF r
  <2>3. /\ ladder'.pc = "rung" /\ ladder'.anchor = a /\ ladder'.left = ladder.left \ {r}
        /\ ladder'.wrong = ladder.wrong
    BY <1>3, <2>1 DEF Fields
  <2>4. Untried'
    BY <1>2, <1>4, <2>1, <2>2, <2>3 DEF Untried, WouldLand
  <2> QED
    BY <1>2, <1>4, <2>3, <2>4 DEF CondemnedRightly, Coming, JudgesItsOwn
<1>6. CASE IssueRung
  <2> DEFINE r == NextRung
             out == world[a][r]
             issued == out # "refused" /\ (r = "icon_tap" => IconShows(a))
  <2>1. /\ ladder.pc = "rung" /\ r \in ladder.left
        /\ ladder' = IF issued THEN [Past(r) EXCEPT !.pc = "gate", !.rung = r] ELSE Past(r)
        /\ issued /\ out \in Places => out \in opening'
    BY <1>3, <1>6, NextIsLeft DEF IssueRung
  <2>2. WouldLand(r, a) => issued
    BY WorldAssumption DEF WouldLand, IconShows, AfterHome
  <2> HIDE DEF r, issued
  <2>3. /\ ladder'.anchor = a /\ ladder'.left = ladder.left \ {r} /\ ladder'.wrong = ladder.wrong
        /\ IF issued THEN ladder'.pc = "gate" /\ ladder'.rung = r ELSE ladder'.pc = "rung"
    BY <1>3, <2>1 DEF Past, Fields
  <2>4. Untried'
    BY <1>2, <1>4, <2>1, <2>2, <2>3 DEF Untried, WouldLand
  <2>5. Coming'
    BY <1>4, <2>1, <2>3 DEF Coming, Product
  <2> QED
    BY <1>2, <1>4, <2>3, <2>4, <2>5 DEF CondemnedRightly, JudgesItsOwn
<1>7. CASE GatePasses
  BY <1>3, <1>7 DEF GatePasses, Searching, Fields
<1>8. CASE GateTimesOut
  <2>1. /\ ladder.pc = "gate" /\ ~Landed(at, a) /\ opening = {}
        /\ Wrong(at, a) => at = Product
        /\ UNCHANGED <<at, opening>>
    BY <1>1, <1>8 DEF GateTimesOut, Prompt, Product
  <2>2. /\ ladder'.pc = "judge" /\ ladder'.anchor = a /\ ladder'.left = ladder.left
        /\ ladder'.wrong = ladder.wrong /\ ladder'.rung = ladder.rung
    BY <1>3, <1>8 DEF GateTimesOut, Fields
  <2>3. ~WouldLand(ladder.rung, a)
    BY <1>2, <2>1 DEF Coming, Product, WouldLand, Wrong, Landed
  <2>4. Untried'
    BY <1>2, <1>4, <2>1, <2>2, <2>3 DEF Untried, WouldLand
  <2> QED
    BY <1>2, <1>4, <2>1, <2>2, <2>4 DEF CondemnedRightly, Coming, JudgesItsOwn, Product, Wrong
<1>9. CASE Judge
  <2>1. /\ ladder.pc = "judge"
        /\ Wrong(at, a) => at = Product /\ at \in Places
    BY <1>2, <1>9 DEF Judge, JudgesItsOwn, Shape
  <2>2. /\ ladder'.pc = "rung" /\ ladder'.anchor = a /\ ladder'.left = ladder.left
        /\ \A m \in ladder'.wrong \ ladder.wrong : m = Mechanism[ladder.rung] /\ Wrong(at, a)
    BY <1>3, <1>9 DEF Judge, Condemns, Fields
  <2>3. CondemnedRightly'
    BY <1>2, <1>3, <1>4, <2>1, <2>2 DEF CondemnedRightly, Product, Wrong
  <2>4. Untried'
    BY <1>2, <1>4, <2>1, <2>2 DEF Untried, WouldLand
  <2> QED
    BY <2>2, <2>3, <2>4 DEF Coming, JudgesItsOwn
<1>10. CASE Exhaust
  <2>1. /\ ladder.pc = "rung" /\ ladder'.pc = "exhausted" /\ ladder'.anchor = a
        /\ ladder'.left = ladder.left /\ ladder'.wrong = ladder.wrong
    BY <1>3, <1>10 DEF Exhaust, Fields
  <2>2. Untried'
    BY <1>2, <1>4, <2>1 DEF Untried, WouldLand
  <2> QED
    BY <1>2, <1>4, <2>1, <2>2 DEF CondemnedRightly, Coming, JudgesItsOwn
<1> QED
  BY <1>5, <1>6, <1>7, <1>8, <1>9, <1>10 DEF LadderStep
LEMMA StepSearch == LadderInv /\ [Next]_vars => LadderInv'
<1> SUFFICES ASSUME Shape, Search, [Next]_vars PROVE Search'
  BY StepShape DEF LadderInv
<1>1. nav.pc # "ladder" => ladder.pc = "idle"
  BY DEF Shape
<1>2. ASSUME UNCHANGED ladder, ladder.pc = "idle"
      PROVE  Search'
  BY <1>2 DEF Search, Searching
<1>3. CASE \/ Look \/ GiveUp \/ Arrive \/ ArriveUnverified \/ ArriveBySection \/ ArriveWeak
           \/ RefuseForeign \/ ArriveUnsettled \/ Switched \/ StopUnknown \/ Plan
  <2>1. nav.pc # "ladder" /\ UNCHANGED ladder
    BY <1>3 DEF Look, GiveUp, Arrive, ArriveUnverified, ArriveBySection, ArriveWeak, RefuseForeign,
                ArriveUnsettled, Switched, StopUnknown, Plan, Decide, MaySwitch, Still, ladderVars
  <2> QED
    BY <1>1, <1>2, <2>1
<1>4. CASE ArriveAgain \/ RecoverForeign \/ RecoverUnknown \/ RecoverCutOff
  <2>1. PICK a, why : Recover(a, why)
    BY <1>4 DEF ArriveAgain, RecoverForeign, RecoverUnknown, RecoverCutOff
  <2>2. \/ ladder' = [Idle EXCEPT !.pc = "deferred", !.anchor = a]
        \/ ladder' = [Idle EXCEPT !.pc = "rung", !.anchor = a, !.left = RungNames]
    BY <2>1 DEF Recover, Launch
  <2>3. /\ ladder'.pc \in {"deferred", "rung"}
        /\ ladder'.pc = "rung" => ladder'.left = RungNames /\ ladder'.wrong = {}
    BY <2>2 DEF Idle
  <2> QED
    BY <2>3 DEF Search, Searching, Untried, CondemnedRightly, Coming, JudgesItsOwn
<1>5. CASE Recovered \/ Exhausted
  <2>1. ladder' = Idle
    BY <1>5 DEF Recovered, Exhausted
  <2>2. ladder'.pc = "idle"
    BY <2>1 DEF Idle
  <2> QED
    BY <2>2 DEF Search, Searching
<1>6. CASE Switch \/ TryInwards \/ Walk \/ Act
  <2>1. nav.pc # "ladder" /\ UNCHANGED ladder
    BY <1>6 DEF Switch, TryInwards, Walk, Act, Decide, MaySwitch, Still, Tapped, ladderVars
  <2> QED
    BY <1>1, <1>2, <2>1
<1>7. CASE Launching
  BY <1>7, LadderSearch DEF Launching
<1>8. CASE Opens
  <2> SUFFICES ASSUME Searching', Prompt'
               PROVE  (Untried /\ CondemnedRightly /\ Coming /\ JudgesItsOwn)'
    BY DEF Search
  <2>1. PICK p \in opening : at' = p /\ opening' = opening \ {p}
    BY <1>8 DEF Opens, Open
  <2>2. UNCHANGED <<ladder, world, prompt, residue, surprises>>
    BY <1>8 DEF Opens, Open
  <2>3. Untried /\ CondemnedRightly /\ Coming /\ JudgesItsOwn
    BY <2>2 DEF Search, Searching, Prompt
  <2>4. Untried' /\ CondemnedRightly'
    BY <2>2, <2>3 DEF Untried, CondemnedRightly, WouldLand
  <2>5. Place(p).ns # LauncherNs
    BY <2>1 DEF Shape
  <2>6. Coming'
    BY <2>1, <2>2, <2>3, <2>5 DEF Coming, Product
  <2>7. JudgesItsOwn'
    BY <2>1, <2>2, <2>3 DEF JudgesItsOwn
  <2> QED
    BY <2>4, <2>6, <2>7
<1>9. CASE Surprise
  <2>1. surprises' # 0
    BY <1>9 DEF Surprise, Shape
  <2> QED
    BY <2>1 DEF Search, Prompt
<1>10. CASE UNCHANGED vars
  BY <1>10 DEF vars, ladderVars, Search, Searching, Prompt, Untried, CondemnedRightly, Coming,
               JudgesItsOwn, Product, WouldLand
<1> QED
  BY <1>3, <1>4, <1>5, <1>6, <1>7, <1>8, <1>9, <1>10 DEF Next, Step

LEMMA InvariantLadder == Spec => []LadderInv
<1>1. Init => LadderInv
  BY InitShape DEF LadderInv
<1> QED
  BY <1>1, StepSearch, PTL DEF Spec

\* A launch that is followed promptly and that nobody disturbs is given up only if
\* no rung would have landed, whatever the rungs open and whatever is still to
\* open from an earlier launch.
THEOREM NoneGivenUpTooEarly == Spec => []NoFalseExhaustion
<1>1. LadderInv => NoFalseExhaustion
  BY DEF LadderInv, Shape, Search, Searching, Prompt, Untried, NoFalseExhaustion
<1> QED
  BY <1>1, InvariantLadder, PTL
(***************************************************************************)
(* Arrival.                                                                *)
(***************************************************************************)
\* The tier is what the observation shows of the target, and what is claimed rests
\* on it and on a target nothing else could be.
Evident ==
  nav.pc = "decide" =>
    /\ nav.tier \in 0 .. 4
    /\ nav.tier = Tier.exact => Exact(nav.obs, nav.to)
    /\ nav.tier = Tier.structure => SameStructure(nav.obs, nav.to)
Proven ==
  Done({"arrived"}) /\ nav.out.tier \in {Tier.structure, Tier.exact} =>
    /\ ~FingerprintAmbiguous(nav.to)
    /\ nav.out.tier = Tier.exact => Exact(nav.obs, nav.to)
    /\ nav.out.tier = Tier.structure => SameStructure(nav.obs, nav.to)

ArrivalInv == Shape /\ nav.to \in Nodes /\ Evident /\ Proven

\* The tiers.
LEMMA MatchMeans ==
  ASSUME NEW p, NEW live, NEW n
  PROVE  /\ VerifyMatch(p, live, n) \in 0 .. 4
         /\ VerifyMatch(p, live, n) = Tier.exact => Exact(p, n)
         /\ VerifyMatch(p, live, n) = Tier.structure => SameStructure(p, n)
  BY DEF VerifyMatch, Tier

\* A step that neither looks nor claims.
Claimless ==
  /\ nav'.to = nav.to /\ nav'.pc # "decide"
  /\ nav'.pc = "done" => nav'.out.status # "arrived" \/ nav'.out.tier = Affordance

LEMMA StepClaims == ArrivalInv /\ [Next]_vars => ArrivalInv'
<1> SUFFICES ASSUME ArrivalInv, [Next]_vars PROVE ArrivalInv'
  OBVIOUS
<1>1. Shape' /\ NavFields \subseteq DOMAIN nav
  BY StepShape DEF ArrivalInv, Shape
<1>2. ASSUME Claimless
      PROVE  ArrivalInv'
  BY <1>1, <1>2 DEF Claimless, ArrivalInv, Evident, Proven, Done, Tier, Affordance
<1>3. ASSUME UNCHANGED nav
      PROVE  ArrivalInv'
  BY <1>1, <1>3 DEF ArrivalInv, Evident, Proven, Done
<1> USE DEF NavFields
<1> DEFINE Derived(n) == DOMAIN n = DOMAIN nav /\ n.to = nav.to
<1>20. ASSUME NEW n, Derived(n), NEW status, NEW tier, nav' = Stop(n, status, tier),
              status # "arrived" \/ tier = Affordance
       PROVE  ArrivalInv'
  <2>1. /\ nav'.pc = "done" /\ nav'.to = nav.to
        /\ nav'.out = [status |-> status, tier |-> tier]
    BY <1>1, <1>20 DEF Stop
  <2> QED
    BY <1>2, <1>20, <2>1 DEF Claimless
<1>21. ASSUME NEW n, Derived(n), nav' = Continue(n)
       PROVE  ArrivalInv'
  <2>1. nav'.pc = "look" /\ nav'.to = nav.to
    BY <1>1, <1>21 DEF Continue
  <2> QED
    BY <1>2, <2>1 DEF Claimless
<1>22. ASSUME nav'.to = nav.to, nav'.pc \in {"ladder", "switched", "act", "walk"}
       PROVE  ArrivalInv'
  BY <1>2, <1>22 DEF Claimless
<1>23. Derived(nav)
  OBVIOUS
<1> HIDE DEF Derived
<1>4. CASE Look
  <2>1. PICK p, settled : nav' = Recognised(nav, p, settled)
    BY <1>4 DEF Look
  <2>2. /\ nav'.pc = "decide" /\ nav'.to = nav.to /\ nav'.obs = p
        /\ nav'.tier = VerifyMatch(p, at, nav.to)
    BY <1>1, <2>1 DEF Recognised
  <2> QED
    BY <1>1, <2>2, MatchMeans DEF ArrivalInv, Evident, Proven, Done
<1>5. CASE Arrive
  <2> DEFINE tier == IF ExactOk THEN Tier.exact ELSE Tier.structure
  <2>1. /\ nav.pc = "decide" /\ (ExactOk \/ StructOk)
        /\ nav' = [nav EXCEPT !.pc = "done", !.out = [status |-> "arrived", tier |-> tier]]
    BY <1>5 DEF Arrive, Decide, Confident, Stop
  <2>2. /\ nav'.pc = "done" /\ nav'.to = nav.to /\ nav'.obs = nav.obs
        /\ nav'.out.tier = tier
    BY <1>1, <2>1
  <2>3. ~FingerprintAmbiguous(nav.to)
    BY <2>1 DEF ExactOk, StructOk
  <2>4. ~ExactOk => nav.tier = Tier.structure
    BY <2>1, <2>3 DEF ExactOk, StructOk, ArrivalInv, Evident, Tier
  <2>5. /\ tier = Tier.exact => Exact(nav.obs, nav.to)
        /\ tier = Tier.structure => SameStructure(nav.obs, nav.to)
    BY <2>1, <2>4 DEF ExactOk, ArrivalInv, Evident, Tier
  <2> HIDE DEF tier
  <2> QED
    BY <1>1, <2>2, <2>3, <2>5 DEF ArrivalInv, Evident, Proven
<1>6. CASE ArriveAgain \/ RecoverForeign \/ RecoverUnknown \/ RecoverCutOff
  <2>1. PICK a, why : Recover(a, why)
    BY <1>6 DEF ArriveAgain, RecoverForeign, RecoverUnknown, RecoverCutOff
  <2>2. nav'.pc = "ladder" /\ nav'.to = nav.to
    BY <1>1, <2>1 DEF Recover
  <2> QED
    BY <1>22, <2>2
<1>7. CASE GiveUp \/ ArriveWeak \/ StopUnknown
  <2>1. \/ nav' = Stop(nav, "force_failed", 0)
        \/ nav' = Stop(nav, "arrived_unverified", Tier.weak)
        \/ nav' = Stop(nav, "off_graph", 0)
    BY <1>7 DEF GiveUp, ArriveWeak, StopUnknown
  <2> QED
    BY <1>20, <1>23, <2>1
<1>8. CASE ArriveUnverified
  BY <1>8, <1>20, <1>23 DEF ArriveUnverified, Unverified
<1>9. CASE ArriveBySection \/ ArriveUnsettled
  <2>1. nav' = BySection(nav)
    BY <1>9 DEF ArriveBySection, ArriveUnsettled
  <2> QED
    BY <1>20, <1>23, <2>1 DEF BySection
<1>10. CASE RefuseForeign
  <2>1. PICK status \in {"cross_app_boundary", "force_failed"} : nav' = Stop(nav, status, 0)
    BY <1>10 DEF RefuseForeign
  <2> QED
    BY <1>20, <1>23, <2>1
<1>11. CASE Recovered
  <2>1. PICK n : Derived(n) /\ nav' = Continue(n)
    BY <1>1, <1>11 DEF Recovered, Trusted, Derived
  <2> QED
    BY <1>21, <2>1
<1>12. CASE Exhausted
  <2>1. \/ nav' = Unverified(nav)
        \/ nav' = Stop(nav, "force_failed", 0)
        \/ \E n : Derived(n) /\ nav' = Continue(n)
    BY <1>1, <1>12 DEF Exhausted, Trusted, Derived
  <2>2. CASE nav' = Unverified(nav)
    BY <1>20, <1>23, <2>2 DEF Unverified
  <2>3. CASE nav' = Stop(nav, "force_failed", 0)
    BY <1>20, <1>23, <2>3
  <2> QED
    BY <1>21, <2>1, <2>2, <2>3
<1>13. CASE Switch
  <2>1. \/ nav'.pc = "switched" /\ nav'.to = nav.to
        \/ \E n : Derived(n) /\ nav' = Continue(n)
    BY <1>1, <1>13 DEF Switch, Derived
  <2> QED
    BY <1>21, <1>22, <2>1
<1>14. CASE Switched
  <2>1. \/ nav' = Stop(nav, "arrived", Affordance)
        \/ nav' = Stop(nav, "arrived_unverified", Affordance)
        \/ nav' = Continue(nav)
    BY <1>14 DEF Switched
  <2> QED
    BY <1>20, <1>21, <1>23, <2>1
<1>15. CASE TryInwards
  <2>1. \/ nav' = Stop(nav, "off_graph", 0)
        \/ \E n : Derived(n) /\ nav' = Continue(n)
    BY <1>1, <1>15 DEF TryInwards, Derived
  <2> QED
    BY <1>20, <1>21, <1>23, <2>1
<1>16. CASE Plan
  <2>1. \/ \E n : Derived(n) /\ nav' = Stop(n, "off_graph", 0)
        \/ nav'.pc \in {"act", "walk"} /\ nav'.to = nav.to
    <3>1. PICK path : LET n == Progress(nav, Len(path))
                          e == BestEdge(path[1], path[2])
                          m == [n EXCEPT !.hop = e.id]
                      IN  nav' = IF n.stale >= 2 THEN Stop(n, "off_graph", 0)
                                 ELSE IF e.kind # "scroll" THEN [m EXCEPT !.pc = "act"]
                                 ELSE IF nav.walked[e] = MaxWalks \/ ~Exact(nav.obs, e.from)
                                      THEN Stop(m, "off_graph", 0)
                                 ELSE [m EXCEPT !.pc = "walk", !.walked[e] = @ + 1,
                                                !.last = NoPlace, !.swipes = 0]
      BY <1>16 DEF Plan
    <3> DEFINE n == Progress(nav, Len(path))
               e == BestEdge(path[1], path[2])
               m == [n EXCEPT !.hop = e.id]
    <3>2. Derived(n)
      BY <1>1 DEF Progress, Derived
    <3> HIDE DEF n, e
    <3>3. Derived(m)
      BY <1>1, <3>2 DEF Derived
    <3>4. \/ nav' = Stop(n, "off_graph", 0) \/ nav' = Stop(m, "off_graph", 0)
          \/ nav' = [m EXCEPT !.pc = "act"]
          \/ nav' = [m EXCEPT !.pc = "walk", !.walked[e] = @ + 1, !.last = NoPlace, !.swipes = 0]
      BY <3>1 DEF n, e
    <3> HIDE DEF m
    <3> QED
      BY <1>1, <3>2, <3>3, <3>4 DEF Derived
  <2> QED
    BY <1>20, <1>22, <2>1
<1>17. CASE Walk
  <2>1. \/ nav' = Stop(nav, "content_drift", 0)
        \/ \E n : Derived(n) /\ nav' = Continue(n)
        \/ nav'.pc = "walk" /\ nav'.to = nav.to
    BY <1>1, <1>17 DEF Walk, Derived
  <2> QED
    BY <1>20, <1>21, <1>22, <1>23, <2>1
<1>18. CASE Act
  <2>1. \/ nav' = Stop(nav, "credential_required", 0)
        \/ nav' = Stop(nav, "coordinate_only_refused", 0)
        \/ nav' = Stop(nav, "content_drift", 0)
        \/ \E n : Derived(n) /\ nav' = Continue(n)
    BY <1>1, <1>18 DEF Act, Derived
  <2> QED
    BY <1>20, <1>21, <1>23, <2>1
<1>19. CASE Launching \/ Opens \/ Surprise \/ UNCHANGED vars
  BY <1>3, <1>19 DEF Launching, Opens, Surprise, vars
<1> QED
  BY <1>4, <1>5, <1>6, <1>7, <1>8, <1>9, <1>10, <1>11, <1>12, <1>13, <1>14, <1>15, <1>16, <1>17,
     <1>18, <1>19 DEF Next, Step

LEMMA InvariantArrival == Spec => []ArrivalInv
<1>1. Init => ArrivalInv
  <2> SUFFICES ASSUME Init PROVE ArrivalInv
    OBVIOUS
  <2>1. nav.to \in Nodes /\ nav.pc = "look"
    BY NavigatorAssumption DEF Init
  <2> QED
    BY <2>1, InitShape DEF ArrivalInv, Evident, Proven, Done
<1> QED
  BY <1>1, StepClaims, PTL DEF Spec

\* A screen shows the structure another was recorded with only if it was recorded
\* with it too, or before it had settled.
Undrifted ==
  \A m, n \in Nodes : m # n /\ SameStructure(Home(m), n) =>
    Twins(m, n) \/ (Node(m).kind = "volatile" /\ Node(m).ns = Node(n).ns)

\* An id that folds values in is that of one screen.
Telling ==
  \A n \in Nodes, p \in Places : Node(n).kind \in {"text", "refined"} /\ Exact(p, n) =>
    Looks(p) = Looks(Home(n))

\* On any graph, whatever the device does, no arrival is claimed on the screen of
\* another recorded node, unless a screen's structure has drifted since.
THEOREM NeverAtATwin ==
  ASSUME Undrifted, Telling
  PROVE  Spec => []NoTwinArrival
<1>1. ArrivalInv => NoTwinArrival
  <2> SUFFICES ASSUME ArrivalInv, Claims, NEW n \in Nodes \ {nav.to}, nav.obs = Home(n)
               PROVE  Looks(Home(n)) = Looks(Home(nav.to))
    BY DEF NoTwinArrival
  <2>1. /\ nav.to \in Nodes /\ ~FingerprintAmbiguous(nav.to)
        /\ nav.out.tier = Tier.exact => Exact(Home(n), nav.to)
        /\ nav.out.tier = Tier.structure => SameStructure(Home(n), nav.to)
        /\ nav.out.tier \in {Tier.structure, Tier.exact}
    BY DEF ArrivalInv, Proven, Claims
  <2>2. SameStructure(Home(n), nav.to)
    BY <2>1 DEF Exact, SameStructure
  <2>3. Twins(n, nav.to) \/ (Node(n).kind = "volatile" /\ Node(n).ns = Node(nav.to).ns)
    BY <2>1, <2>2 DEF Undrifted
  <2>4. Node(nav.to).kind \in {"text", "refined"}
    BY <2>1, <2>3, ScreensAssumption DEF FingerprintAmbiguous
  <2>5. Exact(Home(n), nav.to)
    BY <2>1, <2>4 DEF Claims
  <2>6. Home(n) \in Places
    BY ScreensAssumption DEF Home
  <2> QED
    BY <2>1, <2>4, <2>5, <2>6 DEF Telling
<1> QED
  BY <1>1, InvariantArrival, PTL
=============================================================================
