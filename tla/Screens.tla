------------------------------ MODULE Screens ------------------------------
(***************************************************************************)
(* How the screen on display is compared with the recorded ones            *)
(* (wendle/navigate/verify.py, affordance_verify.py and the identity       *)
(* helpers of wendle/navigate/navigator.py) and how the recorded graph is  *)
(* routed over (Graph.routable_subgraph and the planner's shortest path).  *)
(*                                                                         *)
(* A place is what the device can display, recorded or not:                *)
(*   ns, pkg        its foreground activity and its package                *)
(*   look           its text-free structure                                *)
(*   value          the text on it (what a text-bearing id folds in)       *)
(*   listy          an adapter list dominates it                           *)
(*   tabs, active   the tabs of its navigation bar, and the selected one   *)
(*   shows, rows    the selectors that resolve on it; the rows its list    *)
(*                  shows, at once or after scrolling                      *)
(* A recorded node has the ns, pkg, look and value seen at record time and *)
(*   kind    "plain": text-free id; "text": value-bearing text id;         *)
(*           "refined": coarse id and chrome; "volatile": never settled    *)
(*   listy   it was adapter-list-dominant                                  *)
(*   probe   its first resource-id selector, or NoHandle                   *)
(*   anchor  its verified force action: "am_start", "keyevent" or "none"   *)
(*   splash  the anchor was deferred past a splash (self_routing)          *)
(*   home    the place it was recorded on                                  *)
(* An edge has an id (recording order), from, to, sel (its selector),      *)
(*   kind "tap", "coords" or "scroll", weight, and the flags global,       *)
(*   suspect and region, and pre (the fields typed into before it).        *)
(***************************************************************************)
EXTENDS Integers, FiniteSets, Sequences, FiniteSetsExt, SequencesExt

CONSTANTS
  Places, Place(_),
  Nodes, Node(_),   \* numbered in recording order, which stands for id order too
  Edges,
  LauncherNs, NoHandle

ASSUME ScreensAssumption ==
  /\ Nodes \subseteq Nat \ {0} /\ IsFiniteSet(Nodes)
  /\ \A n \in Nodes : /\ Node(n).home \in Places
                       /\ Node(n).kind \in {"plain", "text", "refined", "volatile"}
                       /\ Node(n).anchor \in {"am_start", "keyevent", "none"}
  /\ \A e \in Edges : {e.from, e.to} \subseteq Nodes /\ e.weight \in Nat \ {0}
  /\ \A e, f \in Edges : e.id = f.id => e = f

None == 0
Home(n) == Node(n).home

-----------------------------------------------------------------------------
(***************************************************************************)
(* Identity.                                                               *)
(***************************************************************************)
\* observed_matches_id: the place reproduces the id of n.
Exact(p, n) ==
  /\ Node(n).kind # "volatile"
  /\ Place(p).ns = Node(n).ns /\ Place(p).look = Node(n).look
  /\ Node(n).kind \in {"text", "refined"} => Place(p).value = Node(n).value

SameStructure(p, n) == Place(p).ns = Node(n).ns /\ Place(p).look = Node(n).look
Twins(m, n) == Node(m).ns = Node(n).ns /\ Node(m).look = Node(n).look

Tier == [mismatch |-> 0, unverifiable |-> 1, weak |-> 2, structure |-> 3, exact |-> 4]

\* verify_match of the observed place p; the probe asks the device, on place live.
VerifyMatch(p, live, n) ==
  IF Exact(p, n) THEN Tier.exact
  ELSE IF SameStructure(p, n)
       THEN IF Place(p).listy THEN Tier.unverifiable ELSE Tier.structure
  ELSE IF Place(p).ns # Node(n).ns THEN Tier.mismatch
  ELSE IF Node(n).probe = NoHandle THEN Tier.unverifiable
  ELSE IF Node(n).probe \in Place(live).shows THEN Tier.weak ELSE Tier.mismatch

StructureAmbiguous(n) == \E m \in Nodes \ {n} : Twins(m, n)

\* Mutant: only a node recorded with the same structure can be a twin.
TwinRecorded(n) ==
  /\ Node(n).kind \in {"plain", "volatile"}
  /\ \E m \in Nodes \ {n} : Twins(m, n)

\* Another node may carry the fingerprint of n: a structure twin, or a volatile
\* node of the activity, which may settle into it.  Ids that fold values in are
\* exempt.
FingerprintAmbiguous(n) ==
  /\ Node(n).kind \in {"plain", "volatile"}
  /\ \E m \in Nodes \ {n} :
       Twins(m, n) \/ (Node(m).kind = "volatile" /\ Node(m).ns = Node(n).ns)

ValueBearingOnSight(n) ==
  Node(n).kind = "text" \/ (Node(n).kind = "refined" /\ ~Node(n).listy)

HasSuspectSelfLoop(n) == \E e \in Edges : e.from = n /\ e.to = n /\ e.suspect

-----------------------------------------------------------------------------
(***************************************************************************)
(* Routing.                                                                *)
(***************************************************************************)
IsLauncher(n) == Node(n).ns = LauncherNs

\* routable_subgraph: no self-loop, no launcher-incident edge.
Routable == {e \in Edges : e.from # e.to /\ ~IsLauncher(e.from) /\ ~IsLauncher(e.to)}
Hops(m, n) == {e \in Routable : e.from = m /\ e.to = n}

\* _best_edge: the least weight, a coordinate selector last, then the oldest.
Better(e, f) ==
  \/ e.weight < f.weight
  \/ e.weight = f.weight /\ e.kind = "tap" /\ f.kind # "tap"
  \/ e.weight = f.weight /\ (e.kind = "tap") = (f.kind = "tap") /\ e.id < f.id
BestEdge(m, n) ==
  CHOOSE e \in Hops(m, n) : \A f \in Hops(m, n) \ {e} : Better(e, f)

Extended(paths) ==
  {Append(q[1], q[2]) : q \in {r \in paths \X Nodes :
                                 Hops(Last(r[1]), r[2]) # {} /\ r[2] \notin ToSet(r[1])}}
\* The simple paths of the routable graph.
Paths ==
  LET grow[k \in 1 .. Cardinality(Nodes)] ==
        IF k = 1 THEN {<<n>> : n \in Nodes} ELSE grow[k - 1] \cup Extended(grow[k - 1])
  IN  grow[Cardinality(Nodes)]

\* What the planner knows of every pair of nodes.
Routes ==
  [m \in Nodes |-> [n \in Nodes |-> {p \in Paths : Head(p) = m /\ Last(p) = n}]]
Cost(p) == MapThenSumSet(LAMBDA i : BestEdge(p[i], p[i + 1]).weight, 1 .. Len(p) - 1)
Cheapest ==
  [m \in Nodes |-> [n \in Nodes |->
     {p \in Routes[m][n] : \A q \in Routes[m][n] : Cost(p) <= Cost(q)}]]
Reach(m, n) == Cheapest[m][n] # {}
Distance(m, n) == Cost(CHOOSE p \in Cheapest[m][n] : TRUE)

-----------------------------------------------------------------------------
(***************************************************************************)
(* Which node is this place?                                               *)
(***************************************************************************)
ExactNodes(p) == {n \in Nodes : Exact(p, n)}
Candidates(p) == {n \in Nodes : SameStructure(p, n)}

\* _actual_node, on the way to node to: an exact match, else the structure twin
\* nearest to it, else it itself, else the first.
ActualNode(p, to) ==
  LET cands == Candidates(p)
      routed == {n \in cands \ {to} : Reach(n, to)}
      near == {n \in routed : \A m \in routed : Distance(n, to) <= Distance(m, to)}
  IN  IF ExactNodes(p) # {} THEN Min(ExactNodes(p))
      ELSE IF cands = {} THEN None
      ELSE IF Cardinality(cands) > 1 /\ routed # {} THEN Min(near)
      ELSE IF to \in cands THEN to ELSE Min(cands)

\* _actual_node(strict=True): a node only when no other one could be meant.
ActualStrict(p) ==
  IF ExactNodes(p) # {}
  THEN LET n == Min(ExactNodes(p)) IN IF FingerprintAmbiguous(n) THEN None ELSE n
  ELSE LET cands == Candidates(p) IN
       IF Cardinality(cands) # 1 THEN None
       ELSE LET n == Min(cands) IN
            IF FingerprintAmbiguous(n) \/ StructureAmbiguous(n) THEN None ELSE n

\* _walk_scroll_edge's resolves: the place is node n and no other.
Resolves(p, n) == Exact(p, n) /\ ~FingerprintAmbiguous(n) /\ ~StructureAmbiguous(n)

-----------------------------------------------------------------------------
(***************************************************************************)
(* Anchors, and the navigation bar.                                        *)
(***************************************************************************)
Anchors == {n \in Nodes : Node(n).anchor # "none"}
AnchorsIn(pkg) == {n \in Anchors : Node(n).pkg = pkg}
AnchorInPkg(pkg) == IF AnchorsIn(pkg) = {} THEN None ELSE Min(AnchorsIn(pkg))

SeedAnchor(to) ==
  LET reaching == {n \in Anchors : Reach(n, to)} IN
  IF AnchorInPkg(Node(to).pkg) # None THEN AnchorInPkg(Node(to).pkg)
  ELSE IF reaching # {} THEN Min(reaching)
  ELSE IF Anchors # {} THEN Min(Anchors) ELSE None

\* The inbound edges of a node that open it, in the graph's order: by the first
\* edge from their source, then by recording order.
FirstHop(e) == Min({f.id : f \in {g \in Edges : g.from = e.from /\ g.to = e.to}})
Inbound(n) == {e \in Edges : e.to = n}
FirstInbound(S) ==
  CHOOSE e \in S : \A f \in S \ {e} :
    FirstHop(e) < FirstHop(f) \/ (FirstHop(e) = FirstHop(f) /\ e.id < f.id)

GlobalEdges(n) == {e \in Inbound(n) : e.global}
\* _target_global_affordance_value
Tab(n) == IF GlobalEdges(n) = {} THEN NoHandle ELSE FirstInbound(GlobalEdges(n)).sel
IsSectionLanding(n) == \A e \in Inbound(n) : e.global

\* current_section, for a place of the target's package.
CurrentSection(p, tab) ==
  IF tab \notin Place(p).tabs THEN "no"
  ELSE IF Place(p).active = tab THEN "yes" ELSE "unverified"

\* verify_by_affordance: the app is in front and the content has changed too.
VerifyByAffordance(before, after, tab, pkg) ==
  IF \/ Place(after).pkg # pkg \/ CurrentSection(after, tab) = "no"
     \/ Place(before).value = Place(after).value THEN "no"
  ELSE IF CurrentSection(after, tab) = "yes" THEN "arrived" ELSE "unverified"
=============================================================================
