------------------------------- MODULE Crawler -------------------------------
(***************************************************************************)
(* The reference explorer (wendle/crawl/explorer.py) over the ingestion    *)
(* seam (wendle/crawl/ingester.py), on an app that answers its touches.    *)
(*                                                                         *)
(* A place is what the device can display: a screen at one scroll position *)
(* [id, family, package, volatile, rows, nav, goes, scroll, back].  rows   *)
(* are the keys of its candidates from top to bottom, nav those in a       *)
(* navigation container, goes[k] the place row k leads to, scroll and back *)
(* where an advance swipe and BACK lead.                                   *)
(*                                                                         *)
(* family is the screen's coarse fingerprint, id its exact identity: a     *)
(* node has its family's name until a twin is met, its own afterwards      *)
(* (TwinIdentity models the gate).  The builder repairs the graph then;    *)
(* the explorer's own tables keep the names they were given.               *)
(* Navigator models navigate().                                            *)
(***************************************************************************)
EXTENDS Naturals, Sequences, FiniteSets, SequencesExt

CONSTANTS
  Apps,       \* app -> place -> record
  RootOf(_),  \* the place an app's crawl starts from
  None,       \* no place: nothing to scroll
  Package,    \* the package crawled
  MaxActions, MaxDepth, MaxScrolls, MaxBacks, \* the budgets of explore()
  MaxLost     \* bound: navigations that end anywhere

ASSUME CrawlerAssumption ==
  /\ \A a \in DOMAIN Apps : RootOf(a) \in DOMAIN Apps[a] /\ None \notin DOMAIN Apps[a]
  /\ \A a \in DOMAIN Apps : \A p \in DOMAIN Apps[a] :
       /\ DOMAIN Apps[a][p].rows \subseteq Nat /\ None \notin Range(Apps[a][p].rows)
       /\ Apps[a][p].goes \in [Range(Apps[a][p].rows) -> DOMAIN Apps[a]]
       /\ Apps[a][p].back \in DOMAIN Apps[a]
       /\ Apps[a][p].scroll \in DOMAIN Apps[a] \cup {None}
       /\ Apps[a][p].volatile => Apps[a][p].id = Apps[a][p].family
       /\ \A q \in DOMAIN Apps[a] : Apps[a][p].id = Apps[a][q].family =>
            /\ Apps[a][p].family = Apps[a][q].family
            /\ Apps[a][q].id = Apps[a][p].id
       /\ Apps[a][p].id # Apps[a][p].family =>
            \E q \in DOMAIN Apps[a] : /\ Apps[a][q].family = Apps[a][p].family
                                       /\ Apps[a][q].id # Apps[a][p].id
  /\ {MaxActions, MaxDepth, MaxScrolls, MaxBacks, MaxLost} \subseteq Nat

VARIABLES
  app,     \* the app crawled
  pc,      \* where explore() is: "pop", "reposition", "back", "work", "done"
  then,    \* where _reposition returns to: "enter" or "again"
  device,  \* the place on display, observed after every touch (last_entered)
  entered, \* the snapshot candidates are taken from
  sid,     \* the screen being worked
  expand,  \* its depth allows its candidates to be tapped
  queue, seen_screens, depth_of, tried, scrolls, actions, retreats,
  backs,   \* BACKs of the current _reposition
  recorded, \* the touches committed: transitions, and those that stayed (from = to)
  visited, \* history: the places observed
  lost     \* count against MaxLost

vars == <<app, pc, then, device, entered, sid, expand, queue, seen_screens, depth_of, tried,
          scrolls, actions, retreats, backs, recorded, visited, lost>>

Place == Apps[app]
Id(p) == Place[p].id

\* The node a place is, once the places of a set were observed: its family's
\* until a twin of another identity is known, its own from then on.
Called(seen, p) ==
  IF \E q \in seen : Place[q].family = Place[p].family /\ Id(q) # Id(p)
  THEN Id(p) ELSE Place[p].family
Name(p) == Called(visited, p)
current_id == Name(device)

\* The graph has a node of this name.
Live(name) == \E p \in visited : Name(p) = name

\* What a dict answers for a key it may lack.
Get(f, k, default) == IF k \in DOMAIN f THEN f[k] ELSE default
Put(f, k, v) == [x \in DOMAIN f \cup {k} |-> IF x = k THEN v ELSE f[x]]

Observe(p) ==
  /\ device' = p
  /\ visited' = visited \cup {p}

\* A bug: a key tried on one screen counts as tried on all.
TriedAnywhere(id) == UNION Range(tried)

\* The candidate keys tried on a screen.
Tried(id) == Get(tried, id, {})

Untried == Range(Place[entered].rows) \ Tried(sid)
Exhausted == ~expand \/ Untried = {}

RowAt(p, k) == CHOOSE i \in DOMAIN Place[p].rows : Place[p].rows[i] = k

\* The next candidate: global-nav members first, and from top to bottom.
NavFirst(keys) == LET navs == keys \cap Place[entered].nav IN IF navs # {} THEN navs ELSE keys
Candidate ==
  CHOOSE k \in NavFirst(Untried) :
    \A j \in NavFirst(Untried) : RowAt(entered, k) <= RowAt(entered, j)

\* A tap falls on whatever is now where the candidate's row was.
Hit(k) ==
  LET i == RowAt(entered, k) IN
  IF i \in DOMAIN Place[device].rows THEN Place[device].rows[i] ELSE None
TapLeadsTo(k) == IF Hit(k) = None THEN device ELSE Place[device].goes[Hit(k)]

\* discover(): a screen met for the first time joins the frontier if it is in
\* the package, stable and not too deep.
Expandable(p) == Place[p].package = Package /\ ~Place[p].volatile
Discover(p, depth) ==
  LET new == Name(p) \notin seen_screens IN
  /\ seen_screens' = seen_screens \cup {Name(p)}
  /\ depth_of' = IF new THEN Put(depth_of, Name(p), depth) ELSE depth_of
  /\ queue' = IF new /\ Expandable(p) /\ depth <= MaxDepth THEN Append(queue, Name(p)) ELSE queue

\* The recorded transitions lead to a place, from here or from the root, which
\* is anchored, so navigate() can start over from it: no set of screens that
\* holds both and is closed under the transitions leaves it out.
RoutedTo(p) ==
  LET starts == {Id(device), Id(RootOf(app))}
      ids == starts \cup {e.to : e \in recorded}
  IN  /\ Id(p) \in ids
      /\ \A S \in SUBSET (ids \ {Id(p)}) :
           starts \subseteq S => {e \in recorded : e.from \in S /\ e.to \notin S} # {}

\* The screen being worked is still a node, and one a route leads to.
Routed == \E p \in visited : Name(p) = sid /\ RoutedTo(p)

-----------------------------------------------------------------------------
Init ==
  /\ app \in DOMAIN Apps
  /\ device = RootOf(app) /\ entered = device /\ visited = {device}
  /\ sid = Place[device].family
  /\ pc = "pop" /\ then = "enter" /\ expand = FALSE /\ backs = 0
  /\ queue = <<sid>> /\ seen_screens = {sid} /\ depth_of = [x \in {sid} |-> 0]
  /\ tried = [x \in {} |-> {}] /\ scrolls = [x \in {} |-> 0]
  /\ actions = 0 /\ retreats = 0 /\ recorded = {} /\ lost = 0

\* The outer loop: the next frontier screen is one to reposition to, unless it is
\* the root and never settles, or its name is no node's any more.
NeverSettles(name) == \E p \in visited : Name(p) = name /\ Place[p].volatile
Pop ==
  /\ pc = "pop"
  /\ IF queue = <<>> \/ actions >= MaxActions
     THEN pc' = "done" /\ UNCHANGED <<queue, sid, then>>
     ELSE /\ queue' = Tail(queue)
          /\ IF \/ ~Live(Head(queue)) \/ NeverSettles(Head(queue))
                \/ Get(depth_of, Head(queue), 0) >= MaxDepth + 1
             THEN UNCHANGED <<pc, sid, then>>
             ELSE pc' = "reposition" /\ sid' = Head(queue) /\ then' = "enter"
  /\ UNCHANGED <<app, device, entered, expand, seen_screens, depth_of, tried, scrolls, actions,
                 retreats, backs, recorded, visited, lost>>

\* _reposition has its answer.
Return(arrived, p) ==
  IF ~arrived
  THEN /\ retreats' = retreats + 1
       /\ pc' = "pop"
       /\ UNCHANGED <<entered, tried, expand>>
  ELSE /\ pc' = "work"
       /\ retreats' = retreats
       /\ entered' = p
       /\ tried' = IF then = "enter" THEN Put(tried, sid, Tried(sid)) ELSE tried
       /\ expand' = IF then = "enter" THEN Get(depth_of, sid, 0) < MaxDepth ELSE expand

AlreadyThere ==
  /\ pc = "reposition" /\ current_id = sid
  /\ Return(TRUE, device)
  /\ UNCHANGED <<app, then, device, sid, queue, seen_screens, depth_of, scrolls, actions, backs,
                 recorded, visited, lost>>

\* navigate() arrives at the screen where the app left it, or ends elsewhere; a
\* name that is no node's any more is no target, and moves nothing.
Navigate ==
  /\ pc = "reposition" /\ current_id # sid
  /\ backs' = 0
  /\ \/ /\ Routed
        /\ \E p \in visited : Name(p) = sid /\ Observe(p) /\ Return(TRUE, p)
        /\ lost' = lost
     \/ /\ ~Routed \/ lost < MaxLost
        /\ lost' = IF Routed THEN lost + 1 ELSE lost
        /\ \E p \in IF Routed THEN DOMAIN Place ELSE {device} :
             Name(p) # sid /\ Observe(p)
        /\ pc' = "back"
        /\ UNCHANGED <<entered, tried, expand, retreats>>
  /\ UNCHANGED <<app, then, sid, queue, seen_screens, depth_of, scrolls, actions, recorded>>

\* Up to max_backs BACKs, an observation after each.  (Bugs: no bound; no look
\* at where they ended.)
BacksForever == TRUE
BacksLeft == backs < MaxBacks

GotBackAnyway == TRUE
GotBack == current_id = sid

Back ==
  /\ pc = "back" /\ current_id # sid /\ BacksLeft
  /\ backs' = (backs + 1) % (MaxBacks + 1)
  /\ Observe(Place[device].back)
  /\ UNCHANGED <<app, pc, then, entered, sid, expand, queue, seen_screens, depth_of, tried, scrolls,
                 actions, retreats, recorded, lost>>

BacksDone ==
  /\ pc = "back" /\ (current_id = sid \/ ~BacksLeft)
  /\ Return(GotBack, device)
  /\ UNCHANGED <<app, then, device, sid, queue, seen_screens, depth_of, scrolls, actions, backs,
                 recorded, visited, lost>>

\* What is recorded is the nodes' own, whatever they are called: a split moves
\* the family's recordings to the twin they were made on.
Commits(key, hit, p) ==
  recorded' = recorded \cup {[from |-> Id(device), key |-> key, hit |-> hit, to |-> Id(p)]}

\* The next untried candidate is tapped, the outcome committed (a probe of the
\* screen, when it stayed); a screen out of the package is left by BACK, another
\* one discovered; then back to sid.
Tap ==
  /\ pc = "work" /\ actions < MaxActions /\ ~Exhausted
  /\ LET key == Candidate
         p == TapLeadsTo(key)
         moved == Name(p) # current_id
         foreign == moved /\ Place[p].package # Package IN
       /\ tried' = [tried EXCEPT ![sid] = @ \cup {key}]
       /\ Commits(key, Hit(key), p)
       /\ device' = IF foreign THEN Place[p].back ELSE p
       /\ visited' = visited \cup {p, device'}
       /\ retreats' = IF foreign THEN retreats + 1 ELSE retreats
       /\ IF moved /\ ~foreign THEN Discover(p, Get(depth_of, sid, 0) + 1)
          ELSE UNCHANGED <<queue, seen_screens, depth_of>>
       /\ pc' = IF moved THEN "reposition" ELSE "work"
  /\ actions' = actions + 1
  /\ then' = "again"
  /\ UNCHANGED <<app, entered, sid, expand, scrolls, backs, lost>>

Scrollable ==
  /\ Get(scrolls, sid, 0) < MaxScrolls
  /\ Place[entered].scroll # None

\* A screen the swipe moved to inherits the depth, the keys tried and the duty.
Inherits(to) ==
  IF to = sid THEN tried ELSE Put(tried, to, Tried(to) \cup Tried(sid))

\* The viewport is exhausted: a swipe reveals more rows, or moves to another screen.
Scroll ==
  /\ pc = "work" /\ actions < MaxActions /\ Exhausted /\ Scrollable
  /\ LET p == IF Place[device].scroll = None THEN device ELSE Place[device].scroll IN
       /\ scrolls' = Put(scrolls, sid, Get(scrolls, sid, 0) + 1)
       /\ Commits("swipe", "swipe", p)
       /\ Observe(p)
       /\ entered' = p
       /\ tried' = Inherits(Name(p))
       /\ sid' = Name(p)
       /\ IF Name(p) = sid THEN UNCHANGED <<queue, seen_screens, depth_of>>
          ELSE Discover(p, Get(depth_of, sid, 0))
  /\ actions' = actions + 1
  /\ UNCHANGED <<app, pc, then, expand, retreats, backs, lost>>

\* Nothing is left to do here.
Leave ==
  /\ pc = "work" /\ (actions >= MaxActions \/ (Exhausted /\ ~Scrollable))
  /\ pc' = "pop"
  /\ UNCHANGED <<app, then, device, entered, sid, expand, queue, seen_screens, depth_of, tried,
                 scrolls, actions, retreats, backs, recorded, visited, lost>>

Next == Pop \/ AlreadyThere \/ Navigate \/ Back \/ BacksDone \/ Tap \/ Scroll \/ Leave

\* explore() is one loop on one thread: it goes on while it can.
Spec == Init /\ [][Next]_vars /\ WF_vars(Next)

-----------------------------------------------------------------------------
(* Properties *)

\* A candidate is tapped, and its edge committed, only with the device on the
\* screen being worked and from a snapshot of that screen, whatever wandered off
\* in between: no transition is recorded out of a screen it did not start on.
WorksOneScreen == pc = "work" => current_id = sid /\ Name(entered) = sid

\* No other screen has its coarse fingerprint: its name never changes.
Lone(p) == Id(p) = Place[p].family

\* The screens a breadth-first walk of the app itself finds at a depth: those
\* one tap away from a row in view of a shallower one.  The walk stops at twins,
\* which the crawl may forget.
Level[n \in 0..MaxDepth] ==
  IF n = 0 THEN {RootOf(app)}
  ELSE UNION {{Place[p].goes[k] : k \in Range(Place[p].rows)} :
                p \in {q \in Level[n - 1] : Expandable(q) /\ Lone(q)}}

\* Unless a budget ran out or it was lost, the crawl has touched every row of
\* every stable screen of the package that has no twin and is less than max_depth
\* taps away: whatever order screens were met in and whatever twins of other
\* screens were renamed meanwhile, no depth was overstated, no return to a
\* screen forgotten and no key of one screen taken for another's.
AllTried ==
  pc = "done" /\ actions < MaxActions /\ lost = 0 =>
    \A n \in 0..(MaxDepth - 1) : \A p \in Level[n] :
      Expandable(p) /\ Lone(p) =>
        Range(Place[p].rows) \subseteq {e.key : e \in {x \in recorded : x.from = Id(p)}}

\* The crawl ends, though BACK may lead in circles and screens be out of reach.
Terminates == <>(pc = "done")
=============================================================================
