---------------------------- MODULE CrawlerProofs ----------------------------
(***************************************************************************)
(* Proofs about the explorer, for every app and every budget.              *)
(***************************************************************************)
EXTENDS Crawler, SequenceTheorems, WellFoundedInduction, TLAPS

(***************************************************************************)
(* Induction over sets of natural numbers.                                 *)
(***************************************************************************)
\* A set of naturals that is not empty has a least element.
LEMMA LeastNatural ==
  ASSUME NEW T \in SUBSET Nat, T # {}
  PROVE  \E x \in T : \A y \in T : x <= y
<1>1. \E R : IsWellFoundedOn(R, Nat) /\ \A x, y \in Nat : y < x => <<y, x>> \in R
  <2>1. IsWellFoundedOn(OpToRel(<, Nat), Nat)
    BY NatLessThanWellFounded
  <2>2. \A x, y \in Nat : y < x => <<y, x>> \in OpToRel(<, Nat)
    BY DEF OpToRel
  <2> QED
    BY <2>1, <2>2
<1>2. PICK R : IsWellFoundedOn(R, Nat) /\ \A x, y \in Nat : y < x => <<y, x>> \in R
  BY <1>1
<1>3. PICK x \in T : \A y \in T : ~(<<y, x>> \in R)
  BY <1>2, WFMin
<1>4. ASSUME NEW y \in T
      PROVE  x <= y
  <2>1. ~(<<y, x>> \in R)
    BY <1>3
  <2>2. x \in Nat /\ y \in Nat
    OBVIOUS
  <2>3. ~(y < x)
    BY <1>2, <2>1, <2>2
  <2> QED
    BY <2>2, <2>3
<1> QED
  BY <1>4

\* Induction, over a set: one that holds 0 and every successor of its own holds
\* every natural number.
LEMMA NatSetInduction ==
  ASSUME NEW S, 0 \in S, \A n \in Nat : n \in S => n + 1 \in S
  PROVE  Nat \subseteq S
<1> SUFFICES ASSUME Nat \ S # {} PROVE FALSE
  OBVIOUS
<1>1. PICK x \in Nat \ S : \A y \in Nat \ S : x <= y
  BY LeastNatural
<1>2. x # 0
  OBVIOUS
<1>3. x - 1 \in Nat /\ x - 1 \in S
  BY <1>1, <1>2
<1> QED
  BY <1>3

(***************************************************************************)
(* Names of nodes.                                                         *)
(***************************************************************************)
\* An identity that is a family's name is that of all its places.
LEMMA FamilyName ==
  ASSUME app \in DOMAIN Apps, NEW p \in DOMAIN Place, NEW q \in DOMAIN Place, Id(p) = Place[q].family
  PROVE  Place[p].family = Place[q].family /\ Id(q) = Id(p)
  BY CrawlerAssumption DEF Place, Id

\* A name belongs to one identity for good: whatever is met in between, places
\* that were called the same are.
LEMMA SameNode ==
  ASSUME app \in DOMAIN Apps, NEW W \in SUBSET DOMAIN Place, NEW V \in SUBSET W,
         NEW p \in V, NEW q \in W, Called(V, p) = Called(W, q)
  PROVE  Id(p) = Id(q)
<1> DEFINE split(S, x) == \E y \in S : Place[y].family = Place[x].family /\ Id(y) # Id(x)
<1>1. /\ Called(V, p) = IF split(V, p) THEN Id(p) ELSE Place[p].family
      /\ Called(W, q) = IF split(W, q) THEN Id(q) ELSE Place[q].family
  BY DEF Called
<1>2. p \in DOMAIN Place /\ q \in DOMAIN Place /\ p \in W
  OBVIOUS
<1>3. CASE split(V, p) /\ split(W, q)
  BY <1>1, <1>3
<1>4. CASE split(V, p) /\ ~split(W, q)
  <2>1. Id(p) = Place[q].family
    BY <1>1, <1>4
  <2> HIDE DEF split
  <2> QED
    BY <1>2, <2>1, FamilyName
<1>5. CASE ~split(V, p) /\ split(W, q)
  <2>1. Id(q) = Place[p].family
    BY <1>1, <1>5
  <2> HIDE DEF split
  <2> QED
    BY <1>2, <2>1, FamilyName
<1>6. CASE ~split(V, p) /\ ~split(W, q)
  <2>1. Place[p].family = Place[q].family
    BY <1>1, <1>6
  <2> QED
    BY <1>2, <1>6, <2>1
<1> QED
  BY <1>3, <1>4, <1>5, <1>6

\* The name of a screen without a twin never changes.
LEMMA LoneName ==
  ASSUME NEW p, NEW V, Lone(p)
  PROVE  Called(V, p) = Id(p)
  BY DEF Called, Lone

\* The observation of a place changes no name of its own identity.
LEMMA NameKept ==
  ASSUME NEW p, NEW q, NEW V, Id(p) = Id(q)
  PROVE  Called(V \cup {p}, q) = Called(V, q)
  BY DEF Called

-----------------------------------------------------------------------------
(***************************************************************************)
(* What the crawler knows.                                                 *)
(***************************************************************************)
Ids == {Id(p) : p \in DOMAIN Place}
Root == RootOf(app)
RootName == Place[Root].family

Typed ==
  /\ app \in DOMAIN Apps /\ visited \subseteq DOMAIN Place /\ {device, entered, Root} \subseteq visited
  /\ depth_of \in [seen_screens -> Nat]
  /\ sid \in seen_screens /\ queue \in Seq(seen_screens)
  /\ \A e \in recorded : {e.from, e.to} \subseteq Ids
  /\ RootName \in seen_screens /\ depth_of[RootName] = 0
  /\ then \in {"enter", "again"} /\ actions \in Nat /\ lost \in Nat

\* The places of the app crawled.
LEMMA Places ==
  ASSUME app \in DOMAIN Apps, NEW p \in DOMAIN Place
  PROVE  /\ DOMAIN Place[p].rows \subseteq Nat /\ None \notin Range(Place[p].rows)
         /\ \A k \in Range(Place[p].rows) : Place[p].goes[k] \in DOMAIN Place
         /\ Place[p].back \in DOMAIN Place
         /\ Place[p].scroll # None => Place[p].scroll \in DOMAIN Place
         /\ RootOf(app) \in DOMAIN Place /\ Id(p) \in Ids
  BY CrawlerAssumption DEF Place, Ids

LEMMA TapStaysInApp ==
  ASSUME app \in DOMAIN Apps, device \in DOMAIN Place, NEW k
  PROVE  TapLeadsTo(k) \in DOMAIN Place
<1>1. Hit(k) = None \/ Hit(k) \in Range(Place[device].rows)
  BY DEF Hit, Range
<1> QED
  BY <1>1, Places DEF TapLeadsTo

\* discover() keeps the types, and never changes a depth.
LEMMA DiscoverKeeps ==
  ASSUME Typed, NEW p \in DOMAIN Place, NEW d \in Nat, Discover(p, d)
  PROVE  /\ seen_screens \subseteq seen_screens' /\ Name(p) \in seen_screens'
         /\ seen_screens' = seen_screens \cup {Name(p)}
         /\ depth_of' \in [seen_screens' -> Nat]
         /\ \A x \in seen_screens : depth_of'[x] = depth_of[x]
         /\ Name(p) \notin seen_screens => depth_of'[Name(p)] = d
         /\ queue' \in Seq(seen_screens')
         /\ \/ queue' = queue
            \/ Name(p) \notin seen_screens /\ d <= MaxDepth /\ queue' = Append(queue, Name(p))
         /\ Name(p) \notin seen_screens /\ Expandable(p) /\ d <= MaxDepth => queue' = Append(queue, Name(p))
<1>2. seen_screens' = seen_screens \cup {Name(p)}
  BY DEF Discover
<1>3. /\ depth_of' \in [seen_screens' -> Nat]
      /\ \A x \in seen_screens : depth_of'[x] = depth_of[x]
      /\ Name(p) \notin seen_screens => depth_of'[Name(p)] = d
  <2>1. CASE Name(p) \in seen_screens
    BY <1>2, <2>1 DEF Discover, Typed
  <2>2. CASE Name(p) \notin seen_screens
    <3>1. depth_of' = [x \in seen_screens \cup {Name(p)} |-> IF x = Name(p) THEN d ELSE depth_of[x]]
      BY <2>2 DEF Discover, Put, Typed
    <3> QED
      BY <1>2, <2>2, <3>1 DEF Typed
  <2> QED
    BY <2>1, <2>2
<1>4. queue \in Seq(seen_screens')
  <2>1. seen_screens \subseteq seen_screens'
    BY <1>2
  <2>2. queue \in Seq(seen_screens)
    BY DEF Typed
  <2> QED
    BY <2>1, <2>2, SeqMonotonic
<1>5. Append(queue, Name(p)) \in Seq(seen_screens')
  BY <1>2, <1>4, AppendProperties
<1>6. \/ queue' = queue
      \/ Name(p) \notin seen_screens /\ d <= MaxDepth /\ queue' = Append(queue, Name(p))
  BY DEF Discover
<1>7. Name(p) \notin seen_screens /\ Expandable(p) /\ d <= MaxDepth => queue' = Append(queue, Name(p))
  BY DEF Discover
<1> QED
  BY <1>2, <1>3, <1>4, <1>5, <1>6, <1>7

LEMMA InitTyped == Init => Typed
<1> SUFFICES ASSUME Init PROVE Typed
  OBVIOUS
<1>1. Root \in DOMAIN Place
  BY CrawlerAssumption DEF Init, Place, Root
<1>2. sid = RootName /\ seen_screens = {sid} /\ depth_of = [x \in {sid} |-> 0]
  BY DEF Init, Root, RootName
<1>3. queue \in Seq(seen_screens)
  BY <1>2 DEF Init
<1>5. depth_of \in [seen_screens -> Nat] /\ depth_of[RootName] = 0 /\ sid \in seen_screens
  BY <1>2
<1>6. /\ app \in DOMAIN Apps /\ device = Root /\ entered = device /\ visited = {device}
      /\ recorded = {} /\ then = "enter" /\ actions = 0 /\ lost = 0
  BY DEF Init, Root
<1> QED
  BY <1>1, <1>2, <1>3, <1>5, <1>6 DEF Typed

LEMMA StepTyped == Typed /\ [Next]_vars => Typed' /\ app' = app
<1> SUFFICES ASSUME Typed, [Next]_vars PROVE Typed' /\ app' = app
  OBVIOUS
<1> USE DEF Typed
<1>0. MaxDepth \in Nat
  BY CrawlerAssumption
<1>1. CASE Pop
  <2>1. UNCHANGED <<app, device, entered, visited, seen_screens, depth_of, actions, lost, recorded>> /\ then' \in {then, "enter"}
    BY <1>1 DEF Pop
  <2>2. /\ queue' = queue \/ (queue # <<>> /\ queue' = Tail(queue))
        /\ sid' = sid \/ (queue # <<>> /\ sid' = Head(queue))
    BY <1>1 DEF Pop
  <2>3. queue # <<>> => Tail(queue) \in Seq(seen_screens) /\ Head(queue) \in seen_screens
    BY HeadTailProperties
  <2> QED
    BY <2>1, <2>2, <2>3 DEF Place, Ids, Id, Root, RootName
<1>2. CASE AlreadyThere
  <2>1. UNCHANGED <<app, device, visited, seen_screens, depth_of, actions, lost, sid, queue, recorded, then>>
    BY <1>2 DEF AlreadyThere
  <2>2. entered' = device
    BY <1>2 DEF AlreadyThere, Return
  <2> QED
    BY <2>1, <2>2 DEF Place, Ids, Id, Root, RootName
<1>3. CASE Navigate
  <2>1. UNCHANGED <<app, seen_screens, depth_of, actions, sid, queue, recorded, then>> /\ lost' \in {lost, lost + 1}
    BY <1>3 DEF Navigate
  <2>2. PICK p \in DOMAIN Place : Observe(p) /\ entered' \in {p, entered}
    BY <1>3 DEF Navigate, Return
  <2> QED
    BY <2>1, <2>2 DEF Place, Ids, Id, Root, RootName, Observe
<1>4. CASE Back
  <2>1. UNCHANGED <<app, entered, seen_screens, depth_of, actions, lost, sid, queue, recorded, then>>
    BY <1>4 DEF Back
  <2>2. Observe(Place[device].back) /\ Place[device].back \in DOMAIN Place
    BY <1>4, Places DEF Back
  <2> QED
    BY <2>1, <2>2 DEF Place, Ids, Id, Root, RootName, Observe
<1>5. CASE BacksDone
  <2>1. UNCHANGED <<app, device, visited, seen_screens, depth_of, actions, lost, sid, queue, recorded, then>>
    BY <1>5 DEF BacksDone
  <2>2. entered' \in {device, entered}
    BY <1>5 DEF BacksDone, Return
  <2> QED
    BY <2>1, <2>2 DEF Place, Ids, Id, Root, RootName
<1>6. CASE Tap
  <2> DEFINE p == TapLeadsTo(Candidate)
             q == IF Name(p) # current_id /\ Place[p].package # Package THEN Place[p].back ELSE p
             d == Get(depth_of, sid, 0) + 1
  <2>1. p \in DOMAIN Place /\ q \in DOMAIN Place
    BY TapStaysInApp, Places
  <2>2. d \in Nat
    BY DEF Get
  <2>3. UNCHANGED <<app, entered, sid, lost>> /\ actions' = actions + 1 /\ device' = q /\ visited' = visited \cup {p, q}
    BY <1>6 DEF Tap
  <2>4. Discover(p, d) \/ UNCHANGED <<queue, seen_screens, depth_of>>
    BY <1>6 DEF Tap
  <2>6. recorded' = recorded \cup {[from |-> Id(device), key |-> Candidate, hit |-> Hit(Candidate), to |-> Id(p)]}
    BY <1>6 DEF Tap, Commits
  <2>7. then' = "again"
    BY <1>6 DEF Tap
  <2>8. Id(p) \in Ids /\ Id(device) \in Ids
    BY <2>1 DEF Ids
  <2> HIDE DEF p, q, d
  <2>5. /\ depth_of' \in [seen_screens' -> Nat]
        /\ sid \in seen_screens' /\ queue' \in Seq(seen_screens')
        /\ seen_screens \subseteq seen_screens' /\ \A x \in seen_screens : depth_of'[x] = depth_of[x]
    BY <2>1, <2>2, <2>4, DiscoverKeeps
  <2>9. \A e \in recorded' : {e.from, e.to} \subseteq Ids
    BY <2>6, <2>8
  <2> QED
    BY <2>1, <2>3, <2>5, <2>7, <2>9 DEF Place, Ids, Id, Root, RootName, Observe
<1>7. CASE Scroll
  <2> DEFINE p == IF Place[device].scroll = None THEN device ELSE Place[device].scroll
             d == Get(depth_of, sid, 0)
  <2>1. p \in DOMAIN Place
    BY Places
  <2>2. d \in Nat
    BY DEF Get
  <2>3. UNCHANGED <<app, lost>> /\ actions' = actions + 1 /\ Observe(p) /\ entered' = p /\ sid' = Name(p)
    BY <1>7 DEF Scroll
  <2>4. Discover(p, d) \/ (Name(p) = sid /\ UNCHANGED <<queue, seen_screens, depth_of>>)
    BY <1>7 DEF Scroll
  <2>6. recorded' = recorded \cup {[from |-> Id(device), key |-> "swipe", hit |-> "swipe", to |-> Id(p)]}
    BY <1>7 DEF Scroll, Commits
  <2>7. then' = then
    BY <1>7 DEF Scroll
  <2>8. Id(p) \in Ids /\ Id(device) \in Ids
    BY <2>1 DEF Ids
  <2> HIDE DEF p, d
  <2>5. /\ depth_of' \in [seen_screens' -> Nat]
        /\ Name(p) \in seen_screens' /\ queue' \in Seq(seen_screens')
        /\ seen_screens \subseteq seen_screens' /\ \A x \in seen_screens : depth_of'[x] = depth_of[x]
    BY <2>1, <2>2, <2>4, DiscoverKeeps
  <2>9. \A e \in recorded' : {e.from, e.to} \subseteq Ids
    BY <2>6, <2>8
  <2> QED
    BY <2>1, <2>3, <2>5, <2>7, <2>9 DEF Place, Ids, Id, Root, RootName, Observe
<1>8. CASE Leave
  BY <1>8 DEF Leave, Place, Ids, Id, Root, RootName
<1>9. CASE UNCHANGED vars
  BY <1>9 DEF vars, Place, Ids, Id, Root, RootName
<1> QED
  BY <1>1, <1>2, <1>3, <1>4, <1>5, <1>6, <1>7, <1>8, <1>9 DEF Next

-----------------------------------------------------------------------------
(***************************************************************************)
(* The screen being worked.                                                *)
(***************************************************************************)
LEMMA ReturnWorksThere ==
  ASSUME NEW arrived \in BOOLEAN, NEW p, Return(arrived, p),
         arrived => Name(p) = sid /\ Name(p)' = Name(p) /\ device' = p, sid' = sid
  PROVE  WorksOneScreen'
<1>1. CASE arrived
  <2>1. device' = p /\ entered' = p /\ Name(p)' = sid'
    BY <1>1 DEF Return
  <2>2. Name(device)' = Name(p)' /\ Name(entered)' = Name(p)'
    BY <2>1 DEF Name, Called, Id, Place
  <2> QED
    BY <2>1, <2>2 DEF WorksOneScreen, current_id
<1>2. CASE ~arrived
  BY <1>2 DEF Return, WorksOneScreen
<1> QED
  BY <1>1, <1>2

\* A place observed already keeps every name.
LEMMA SeenBefore ==
  ASSUME app' = app, visited' = visited, NEW p
  PROVE  Name(p)' = Name(p)
  BY DEF Name, Called, Id, Place

LEMMA StepWorksOneScreen == Typed /\ WorksOneScreen /\ [Next]_vars => WorksOneScreen'
<1> SUFFICES ASSUME Typed, WorksOneScreen, [Next]_vars
             PROVE  WorksOneScreen'
  OBVIOUS
<1>0. Typed' /\ app' = app
  BY StepTyped
<1>1. CASE Pop
  BY <1>1 DEF Pop, WorksOneScreen
<1>2. CASE AlreadyThere
  <2>1. Name(device)' = Name(device') /\ Name(device) = sid /\ device' = device /\ sid' = sid
    BY <1>2, <1>0, SeenBefore DEF AlreadyThere, current_id
  <2>2. \A p : Name(p)' = Name(p)
    BY <1>0, <1>2, SeenBefore DEF AlreadyThere
  <2> QED
    BY <1>2, <2>1, <2>2, ReturnWorksThere DEF AlreadyThere
<1>3. CASE Navigate
  <2>1. UNCHANGED <<app, sid>>
    BY <1>3 DEF Navigate
  <2>2. CASE \E p \in visited : Name(p) = sid /\ Observe(p) /\ Return(TRUE, p)
    <3>1. PICK p \in visited : Name(p) = sid /\ Observe(p) /\ Return(TRUE, p)
      BY <2>2
    <3>2. device' = p /\ visited' = visited
      BY <3>1 DEF Observe
    <3>3. Name(p)' = Name(p)
      BY <1>0, <3>2, SeenBefore
    <3> QED
      BY <2>1, <3>1, <3>2, <3>3, ReturnWorksThere
  <2>3. CASE pc' = "back"
    BY <2>3 DEF WorksOneScreen
  <2> QED
    BY <1>3, <2>2, <2>3 DEF Navigate
<1>4. CASE Back
  BY <1>4 DEF Back, WorksOneScreen
<1>5. CASE BacksDone
  <2>1. GotBack \in BOOLEAN /\ (GotBack => Name(device) = sid)
    BY DEF GotBack, current_id
  <2>2. Name(device)' = Name(device') /\ device' = device /\ sid' = sid /\ \A p : Name(p)' = Name(p)
    BY <1>0, <1>5, SeenBefore DEF BacksDone
  <2> QED
    BY <1>5, <2>1, <2>2, ReturnWorksThere DEF BacksDone
<1>6. CASE Tap
  <2> DEFINE p == TapLeadsTo(Candidate)
  <2>1. pc = "work" /\ pc' = (IF Name(p) # current_id THEN "reposition" ELSE "work")
    BY <1>6 DEF Tap
  <2>2. UNCHANGED <<app, sid, entered>>
    BY <1>6 DEF Tap
  <2>3. p \in DOMAIN Place
    BY TapStaysInApp DEF Typed
  <2>4. Name(p) = current_id => device' = p /\ visited' = visited \cup {p}
    BY <1>6 DEF Tap
  <2> HIDE DEF p
  <2>5. CASE Name(p) = current_id
    <3>1. Name(p) = sid /\ Name(entered) = sid
      BY <2>1, <2>5 DEF WorksOneScreen
    <3> DEFINE W == visited \cup {p}
    <3>2. Called(W, p) = Called(visited, p)
      BY NameKept
    <3>3. Id(p) = Id(entered)
      <4>1. W \in SUBSET DOMAIN Place /\ visited \in SUBSET W /\ entered \in visited /\ p \in W
        BY <2>3 DEF Typed
      <4>2. Called(visited, entered) = Called(W, p)
        BY <3>1, <3>2 DEF Name
      <4>3. app \in DOMAIN Apps
        BY DEF Typed
      <4> HIDE DEF W
      <4>4. Id(entered) = Id(p)
        BY <4>1, <4>2, <4>3, SameNode
      <4> QED
        BY <4>4
    <3>4. Called(W, entered) = Called(visited, entered)
      BY <3>3, NameKept
    <3>5. /\ Name(device)' = Called(W, p) /\ Name(entered)' = Called(W, entered)
      BY <2>2, <2>4, <2>5 DEF Name, Called, Id, Place
    <3> QED
      BY <2>2, <3>1, <3>2, <3>4, <3>5 DEF WorksOneScreen, current_id, Name
  <2>6. CASE Name(p) # current_id
    BY <2>1, <2>6 DEF WorksOneScreen
  <2> QED
    BY <2>5, <2>6
<1>7. CASE Scroll
  <2> DEFINE p == IF Place[device].scroll = None THEN device ELSE Place[device].scroll
  <2>1. device' = p /\ entered' = p /\ sid' = Name(p) /\ visited' = visited \cup {p}
    BY <1>7 DEF Scroll, Observe
  <2> HIDE DEF p
  <2>2. Called(visited \cup {p}, p) = Called(visited, p)
    BY NameKept
  <2>3. Name(device)' = Called(visited \cup {p}, p) /\ Name(entered)' = Called(visited \cup {p}, p)
    BY <1>0, <2>1 DEF Name, Called, Id, Place
  <2> QED
    BY <2>1, <2>2, <2>3 DEF WorksOneScreen, current_id, Name
<1>8. CASE Leave
  BY <1>8 DEF Leave, WorksOneScreen
<1>9. CASE UNCHANGED vars
  <2>1. UNCHANGED <<pc, sid, device, entered, visited>>
    BY <1>9 DEF vars
  <2>2. Name(device)' = Name(device) /\ Name(entered)' = Name(entered)
    BY <1>0, <2>1 DEF Name, Called, Id, Place
  <2> QED
    BY <2>1, <2>2 DEF WorksOneScreen, current_id
<1> QED
  BY <1>1, <1>2, <1>3, <1>4, <1>5, <1>6, <1>7, <1>8, <1>9 DEF Next

\* Whatever the app does, and whatever nodes are renamed meanwhile, a candidate is
\* tapped and its outcome committed only with the device on the screen being
\* worked, from a snapshot of that screen.
THEOREM AlwaysOnTheScreenWorked == Spec => []WorksOneScreen
<1>1. Init => Typed /\ WorksOneScreen
  BY InitTyped DEF Init, WorksOneScreen
<1>2. Typed /\ WorksOneScreen /\ [Next]_vars => (Typed /\ WorksOneScreen)'
  BY StepTyped, StepWorksOneScreen
<1> QED
  BY <1>1, <1>2, PTL DEF Spec

-----------------------------------------------------------------------------
(***************************************************************************)
(* The breadth-first search.                                               *)
(***************************************************************************)
Depth(x) == depth_of[x]
Working == pc \in {"reposition", "back", "work"}

\* What is recorded leads from the root to an identity.
Reached(id) ==
  \A S \in SUBSET Ids :
    /\ Id(Root) \in S
    /\ \A e \in recorded : e.from \in S => e.to \in S
    => id \in S

\* Every screen met had its name from a place that is reached, of those observed.
Linked ==
  \A x \in seen_screens : \E V \in SUBSET visited : \E p \in V : Called(V, p) = x /\ Reached(Id(p))

\* The queue is in order of depth, and spans two depths at most.
Layered ==
  /\ \A i \in DOMAIN queue : Depth(queue[i]) <= MaxDepth
  /\ \A i, j \in DOMAIN queue : i <= j => Depth(queue[i]) <= Depth(queue[j])
  /\ pc = "pop" => \A x \in seen_screens, i \in DOMAIN queue : Depth(x) <= Depth(queue[i]) + 1
  /\ Working => /\ \A i \in DOMAIN queue : Depth(sid) <= Depth(queue[i])
                /\ \A x \in seen_screens : Depth(x) <= Depth(sid) + 1

\* A place is another package's or has a twin, or its screen was met at depth d or
\* above.
Met(p, d) ==
  Place[p].package = Package /\ Lone(p) => Id(p) \in seen_screens /\ Depth(Id(p)) <= d

\* A row has its transition, and where it leads was met.
RowDone(p, k) ==
  /\ \E e \in recorded : e.from = Id(p) /\ e.key = k
  /\ Met(Place[p].goes[k], Depth(Id(p)) + 1)
AllDone(p) == \A k \in Range(Place[p].rows) : RowDone(p, k)

TriedDone ==
  \A p \in DOMAIN Place : \A k \in Tried(Id(p)) \cap Range(Place[p].rows) :
    Lone(p) => Id(p) \in seen_screens /\ RowDone(p, k)

\* A screen to expand waits, or is the one being worked, or is done.
NoneForgotten ==
  \A p \in DOMAIN Place :
    Expandable(p) /\ Lone(p) /\ Id(p) \in seen_screens /\ Depth(Id(p)) < MaxDepth =>
      Id(p) \in Range(queue) \/ (Working /\ sid = Id(p)) \/ AllDone(p)

Expanding ==
  pc = "work" \/ (pc \in {"reposition", "back"} /\ then = "again") => expand = (Depth(sid) < MaxDepth)

\* Only a twin is not found again.
StrayIsTwin == pc = "back" => \A p \in DOMAIN Place : Lone(p) => Id(p) # sid

Search == /\ Linked /\ Layered /\ TriedDone /\ NoneForgotten /\ Expanding /\ StrayIsTwin
          /\ (pc = "done" => queue = <<>>)
Within == lost = 0 /\ actions < MaxActions

\* The app's screens have one viewport each, and no two places are one screen:
\* they may be twins.
OneViewport ==
  /\ \A p, q \in DOMAIN Place : Id(p) = Id(q) => p = q
  /\ \A p \in DOMAIN Place : Place[p].scroll = None

CrawlInv == WorksOneScreen /\ Typed /\ (OneViewport /\ Within => Search)

LEMMA OnePlace ==
  ASSUME OneViewport, NEW p \in DOMAIN Place
  PROVE  Place[p].scroll = None /\ \A q \in DOMAIN Place : Id(p) = Id(q) => p = q
  BY DEF OneViewport

\* The name of a screen without a twin is no other's.
LEMMA NameOfLone ==
  ASSUME app \in DOMAIN Apps, NEW p \in DOMAIN Place, NEW q \in DOMAIN Place, Lone(q),
         NEW V, Called(V, p) = Id(q)
  PROVE  Id(p) = Id(q)
<1>1. Id(p) = Id(q) \/ Id(q) = Place[p].family
  BY DEF Called
<1>2. CASE Id(q) = Place[p].family
  BY <1>2, FamilyName
<1> QED
  BY <1>1, <1>2

\* A place that is called as a screen met was is reached.
LEMMA MetIsReached ==
  ASSUME Typed, Linked, NEW p \in visited, Name(p) \in seen_screens
  PROVE  Reached(Id(p))
<1>1a. PICK V \in SUBSET visited : \E q \in V : Called(V, q) = Name(p) /\ Reached(Id(q))
  BY DEF Linked
<1>1. PICK q \in V : Called(V, q) = Name(p) /\ Reached(Id(q))
  BY <1>1a
<1>2. Id(q) = Id(p)
  BY <1>1, SameNode DEF Typed, Name
<1> QED
  BY <1>1, <1>2

\* A screen met that has no twin is still a node.
LEMMA LoneIsLive ==
  ASSUME OneViewport, Typed, Linked, NEW q \in DOMAIN Place, Lone(q), Id(q) \in seen_screens
  PROVE  q \in visited /\ Name(q) = Id(q)
<1>1a. PICK V \in SUBSET visited : \E p \in V : Called(V, p) = Id(q)
  BY DEF Linked
<1>1. PICK p \in V : Called(V, p) = Id(q)
  BY <1>1a
<1>2. p \in DOMAIN Place /\ app \in DOMAIN Apps
  BY DEF Typed
<1>3. Id(p) = Id(q)
  BY <1>1, <1>2, NameOfLone
<1>4. p = q
  BY <1>2, <1>3, OnePlace
<1> QED
  BY <1>4, LoneName DEF Name

\* The router finds the screen being worked, as long as it is a node.
LEMMA AlwaysRouted ==
  ASSUME Typed, Linked, NEW p \in visited, Name(p) = sid
  PROVE  Routed
<1> DEFINE starts == {Id(device), Id(Root)}
           ids == starts \cup {e.to : e \in recorded}
<1>1. ids \subseteq Ids
  <2>1. Id(device) \in Ids /\ Id(Root) \in Ids
    BY DEF Typed, Ids
  <2>2. \A e \in recorded : e.to \in Ids
    BY DEF Typed
  <2> QED
    BY <2>1, <2>2
<1>2. Reached(Id(p))
  BY MetIsReached DEF Typed
<1>3. Id(p) \in ids
  BY <1>1, <1>2 DEF Reached
<1>4. ASSUME NEW S \in SUBSET (ids \ {Id(p)}), starts \subseteq S
      PROVE  {e \in recorded : e.from \in S /\ e.to \notin S} # {}
  <2> SUFFICES ASSUME \A e \in recorded : e.from \in S => e.to \in S
               PROVE  FALSE
    OBVIOUS
  <2>1. S \in SUBSET Ids /\ Id(Root) \in S /\ Id(p) \notin S
    BY <1>1, <1>4
  <2> QED
    BY <1>2, <2>1 DEF Reached
<1>5. RoutedTo(p)
  BY <1>3, <1>4 DEF RoutedTo, Root
<1> QED
  BY <1>5 DEF Routed

\* The row tapped is the candidate's own.
LEMMA CandidateIsUntried ==
  ASSUME Typed, Untried # {}
  PROVE  Candidate \in Untried
<1> DEFINE pool == NavFirst(Untried)
           places == {RowAt(entered, k) : k \in pool}
<1>1. pool # {} /\ pool \subseteq Untried
  BY DEF NavFirst
<1>2. \A k \in Untried : RowAt(entered, k) \in Nat
  <2>1. DOMAIN Place[entered].rows \subseteq Nat
    BY Places DEF Typed
  <2>2. ASSUME NEW k \in Untried PROVE RowAt(entered, k) \in DOMAIN Place[entered].rows
    <3>1. \E i \in DOMAIN Place[entered].rows : Place[entered].rows[i] = k
      BY DEF Untried, Range
    <3> QED
      BY <3>1 DEF RowAt
  <2> QED
    BY <2>1, <2>2
<1>3. places \in SUBSET Nat /\ places # {}
  BY <1>1, <1>2
<1>4. PICK x \in places : \A y \in places : x <= y
  BY <1>3, LeastNatural
<1>5. PICK k \in pool : RowAt(entered, k) = x
  BY <1>4
<1>6. \A j \in pool : RowAt(entered, k) <= RowAt(entered, j)
  BY <1>4, <1>5
<1>7. Candidate \in pool
  BY <1>6 DEF Candidate
<1> QED
  BY <1>1, <1>7

LEMMA TapsItsRow ==
  ASSUME Typed, device = entered, NEW k \in Untried
  PROVE  Hit(k) = k /\ TapLeadsTo(k) = Place[entered].goes[k]
<1>1. \E i \in DOMAIN Place[entered].rows : Place[entered].rows[i] = k
  BY DEF Untried, Range
<1>2. Hit(k) = k
  BY <1>1 DEF Hit, RowAt
<1>3. k # None
  BY Places DEF Typed, Untried
<1> QED
  BY <1>2, <1>3 DEF TapLeadsTo

\* What is known of a screen stays known.
LEMMA KnowledgeGrows ==
  ASSUME Typed, app' = app, recorded \subseteq recorded', seen_screens \subseteq seen_screens',
         \A x \in seen_screens : depth_of'[x] = depth_of[x],
         NEW p \in DOMAIN Place, Id(p) \in seen_screens
  PROVE  /\ \A k : RowDone(p, k) => RowDone(p, k)'
         /\ AllDone(p) => AllDone(p)'
<1>1. ASSUME NEW k, RowDone(p, k) PROVE RowDone(p, k)'
  <2>1. \E e \in recorded' : e.from = Id(p)' /\ e.key = k
    BY <1>1 DEF RowDone, Id, Place
  <2>2. (Depth(Id(p)) + 1)' = Depth(Id(p)) + 1
    BY DEF Depth, Id, Place
  <2>3. Met(Place[p].goes[k], Depth(Id(p)) + 1)
    BY <1>1 DEF RowDone
  <2> DEFINE q == Place[p].goes[k]
  <2>4. q' = q /\ (Place[q].package)' = Place[q].package /\ Id(q)' = Id(q) /\ (Lone(q)' <=> Lone(q))
    BY DEF Place, Id, Lone
  <2>5. Id(q) \in seen_screens => Depth(Id(q))' = Depth(Id(q))
    BY DEF Depth, Id, Place
  <2>6. Met(q, Depth(Id(p)) + 1)'
    BY <2>2, <2>3, <2>4, <2>5 DEF Met
  <2> QED
    BY <2>1, <2>6 DEF RowDone
<1>2. AllDone(p) => AllDone(p)'
  BY <1>1 DEF AllDone, Place
<1> QED
  BY <1>1, <1>2

\* A step that records nothing keeps what is known.
LEMMA QuietStep ==
  ASSUME Typed, Search, UNCHANGED <<app, recorded, seen_screens, depth_of>>,
         visited \subseteq visited', \A x : Tried(x)' = Tried(x)
  PROVE  /\ Linked' /\ TriedDone'
         /\ \A p \in DOMAIN Place : Id(p) \in seen_screens /\ AllDone(p) => AllDone(p)'
<1>1. Linked'
  <2>1. ASSUME NEW x \in seen_screens
        PROVE  \E V \in SUBSET visited' : \E p \in V : Called(V, p) = x /\ Reached(Id(p))
    BY DEF Search, Linked
  <2>2. /\ \A V, p : Called(V, p)' = Called(V, p)
        /\ \A p : Reached(Id(p))' <=> Reached(Id(p))
    BY DEF Called, Reached, Ids, Id, Place, Root
  <2> QED
    BY <2>1, <2>2 DEF Linked
<1>2. \A p \in DOMAIN Place : Id(p) \in seen_screens =>
        (\A k : RowDone(p, k) => RowDone(p, k)') /\ (AllDone(p) => AllDone(p)')
  BY KnowledgeGrows
<1>3. ASSUME NEW p \in DOMAIN Place, NEW k \in Tried(Id(p)) \cap Range(Place[p].rows), Lone(p)
      PROVE  Id(p) \in seen_screens /\ RowDone(p, k)'
  BY <1>2, <1>3 DEF Search, TriedDone
<1>4. TriedDone'
  <2> SUFFICES ASSUME NEW p \in DOMAIN Place', NEW k \in (Tried(Id(p)) \cap Range(Place[p].rows))',
                      Lone(p)'
               PROVE  Id(p)' \in seen_screens' /\ RowDone(p, k)'
    BY DEF TriedDone
  <2>1. p \in DOMAIN Place /\ Id(p)' = Id(p) /\ Range(Place[p].rows)' = Range(Place[p].rows) /\ Lone(p)
    BY DEF Place, Id, Lone
  <2>2. k \in Tried(Id(p)) \cap Range(Place[p].rows)
    <3>1. Tried(Id(p))' = Tried(Id(p))
      BY <2>1 DEF Tried
    <3> QED
      BY <2>1, <3>1
  <2> QED
    BY <1>3, <2>1, <2>2
<1> QED
  BY <1>1, <1>2, <1>4

\* The queue stays in order when the screen being worked is left.
LEMMA LayeredAtPop ==
  ASSUME Typed, Layered, Working, ~Working', pc' = "pop",
         UNCHANGED <<seen_screens, depth_of, queue>>
  PROVE  Layered'
<1>1. \A x \in seen_screens, i \in DOMAIN queue : Depth(x) <= Depth(queue[i]) + 1
  <2> SUFFICES ASSUME NEW x \in seen_screens, NEW i \in DOMAIN queue
               PROVE  Depth(x) <= Depth(queue[i]) + 1
    OBVIOUS
  <2>1. Depth(x) <= Depth(sid) + 1 /\ Depth(sid) <= Depth(queue[i])
    BY DEF Layered
  <2>2. queue[i] \in seen_screens
    <3>1. queue \in Seq(seen_screens)
      BY DEF Typed
    <3> QED
      BY <3>1, LenProperties, ElementOfSeq
  <2>3. Depth(x) \in Nat /\ Depth(sid) \in Nat /\ Depth(queue[i]) \in Nat
    BY <2>2 DEF Typed, Depth
  <2> QED
    BY <2>1, <2>3
<1> QED
  BY <1>1 DEF Layered, Depth

\* So does the arrival at the screen to work.
LEMMA ArriveStep ==
  ASSUME OneViewport, CrawlInv, Within, pc \in {"reposition", "back"}, NEW p \in DOMAIN Place,
         Return(TRUE, p), UNCHANGED <<app, recorded, seen_screens, depth_of, then, sid, queue>>,
         visited \subseteq visited'
  PROVE  Search'
<1>0. Typed /\ Search
  BY DEF CrawlInv
<1>1. \A x : Tried(x)' = Tried(x)
  <2>1. tried' = tried \/ tried' = Put(tried, sid, Tried(sid))
    BY DEF Return
  <2> QED
    BY <2>1 DEF Tried, Get, Put
<1>2. /\ Linked' /\ TriedDone'
      /\ \A q \in DOMAIN Place : Id(q) \in seen_screens /\ AllDone(q) => AllDone(q)'
  BY <1>0, <1>1, QuietStep
<1>3. pc' = "work" /\ Working /\ Working'
  BY DEF Return, Working
<1>4. Layered'
  BY <1>0, <1>3 DEF Search, Layered, Depth
<1>5. NoneForgotten'
  <2> SUFFICES ASSUME NEW q \in DOMAIN Place', (Expandable(q) /\ Lone(q))', (Id(q) \in seen_screens)',
                      (Depth(Id(q)) < MaxDepth)'
               PROVE  (Id(q) \in Range(queue) \/ (Working /\ sid = Id(q)) \/ AllDone(q))'
    BY DEF NoneForgotten
  <2>1. q \in DOMAIN Place /\ Expandable(q) /\ Lone(q) /\ Id(q) \in seen_screens
        /\ Depth(Id(q)) < MaxDepth /\ Id(q)' = Id(q)
    BY DEF Place, Expandable, Lone, Id, Depth
  <2>2. Id(q) \in Range(queue) \/ sid = Id(q) \/ AllDone(q)
    BY <1>0, <2>1 DEF Search, NoneForgotten
  <2> QED
    BY <1>2, <1>3, <2>1, <2>2
<1>6. Expanding'
  <2>1. CASE then = "enter"
    <3>1. expand' = (Get(depth_of, sid, 0) < MaxDepth)
      BY <2>1 DEF Return
    <3>2. Get(depth_of, sid, 0) = depth_of[sid]
      BY <1>0 DEF Typed, Get
    <3> QED
      BY <3>1, <3>2 DEF Expanding, Depth
  <2>2. CASE then # "enter"
    <3>1. then = "again" /\ expand' = expand
      BY <1>0, <2>2 DEF Return, Typed
    <3> QED
      BY <1>0, <3>1 DEF Search, Expanding, Depth
  <2> QED
    BY <2>1, <2>2
<1> QED
  BY <1>2, <1>3, <1>4, <1>5, <1>6 DEF Search, StrayIsTwin

\* So does the way back to a screen that has become another node.
LEMMA StrayStep ==
  ASSUME OneViewport, CrawlInv, Within, pc \in {"reposition", "back"}, pc' = "back",
         UNCHANGED <<app, recorded, seen_screens, depth_of, tried, then, expand, sid, queue>>,
         visited \subseteq visited', pc = "reposition" => ~Routed
  PROVE  Search'
<1>0. Typed /\ Search
  BY DEF CrawlInv
<1>1. \A x : Tried(x)' = Tried(x)
  BY DEF Tried
<1>2. /\ Linked' /\ TriedDone'
      /\ \A q \in DOMAIN Place : Id(q) \in seen_screens /\ AllDone(q) => AllDone(q)'
  BY <1>0, <1>1, QuietStep
<1>3. Working /\ Working'
  BY DEF Working
<1>4. Layered'
  BY <1>0, <1>3 DEF Search, Layered, Depth
<1>5. NoneForgotten'
  <2> SUFFICES ASSUME NEW q \in DOMAIN Place', (Expandable(q) /\ Lone(q))', (Id(q) \in seen_screens)',
                      (Depth(Id(q)) < MaxDepth)'
               PROVE  (Id(q) \in Range(queue) \/ (Working /\ sid = Id(q)) \/ AllDone(q))'
    BY DEF NoneForgotten
  <2>1. q \in DOMAIN Place /\ Expandable(q) /\ Lone(q) /\ Id(q) \in seen_screens
        /\ Depth(Id(q)) < MaxDepth /\ Id(q)' = Id(q)
    BY DEF Place, Expandable, Lone, Id, Depth
  <2>2. Id(q) \in Range(queue) \/ sid = Id(q) \/ AllDone(q)
    BY <1>0, <2>1 DEF Search, NoneForgotten
  <2> QED
    BY <1>2, <1>3, <2>1, <2>2
<1>6. Expanding'
  BY <1>0 DEF Search, Expanding, Depth
<1>7. StrayIsTwin'
  <2> SUFFICES ASSUME NEW p \in DOMAIN Place', Lone(p)', Id(p)' = sid' PROVE FALSE
    BY DEF StrayIsTwin
  <2>1. p \in DOMAIN Place /\ Lone(p) /\ Id(p) = sid
    BY DEF Place, Lone, Id
  <2>2. pc = "reposition"
    BY <1>0, <2>1 DEF Search, StrayIsTwin
  <2>3. p \in visited /\ Name(p) = sid
    BY <1>0, <2>1, LoneIsLive DEF Search, Typed
  <2>4. Routed
    BY <1>0, <2>3, AlwaysRouted DEF Search
  <2> QED
    BY <2>2, <2>4
<1> QED
  BY <1>2, <1>4, <1>5, <1>6, <1>7 DEF Search

\* A screen that cannot be got back to is dropped.
LEMMA DropStep ==
  ASSUME OneViewport, CrawlInv, Within, pc = "back", pc' = "pop",
         UNCHANGED <<app, recorded, seen_screens, depth_of, tried, sid, queue, visited>>
  PROVE  Search'
<1>0. Typed /\ Search /\ Working /\ ~Working'
  BY DEF CrawlInv, Working
<1>1. \A x : Tried(x)' = Tried(x)
  BY DEF Tried
<1>2. /\ Linked' /\ TriedDone'
      /\ \A q \in DOMAIN Place : Id(q) \in seen_screens /\ AllDone(q) => AllDone(q)'
  BY <1>0, <1>1, QuietStep
<1>3. Layered'
  BY <1>0, LayeredAtPop DEF Search
<1>4. NoneForgotten'
  <2> SUFFICES ASSUME NEW q \in DOMAIN Place', (Expandable(q) /\ Lone(q))', (Id(q) \in seen_screens)',
                      (Depth(Id(q)) < MaxDepth)'
               PROVE  (Id(q) \in Range(queue) \/ (Working /\ sid = Id(q)) \/ AllDone(q))'
    BY DEF NoneForgotten
  <2>1. q \in DOMAIN Place /\ Expandable(q) /\ Lone(q) /\ Id(q) \in seen_screens
        /\ Depth(Id(q)) < MaxDepth /\ Id(q)' = Id(q)
    BY DEF Place, Expandable, Lone, Id, Depth
  <2>2. Id(q) # sid
    BY <1>0, <2>1 DEF Search, StrayIsTwin
  <2>3. Id(q) \in Range(queue) \/ AllDone(q)
    BY <1>0, <2>1, <2>2 DEF Search, NoneForgotten
  <2> QED
    BY <1>2, <2>1, <2>3
<1> QED
  BY <1>2, <1>3, <1>4 DEF Search, Expanding, StrayIsTwin

LEMMA PopStep ==
  ASSUME OneViewport, CrawlInv, Within, Within', Pop
  PROVE  Search'
<1>0. Typed /\ Search /\ pc = "pop" /\ ~Working
  BY DEF CrawlInv, Pop, Working
<1>1. UNCHANGED <<app, recorded, seen_screens, depth_of, tried, expand, visited>>
  BY DEF Pop
<1>2. /\ Linked' /\ TriedDone'
      /\ \A q \in DOMAIN Place : Id(q) \in seen_screens /\ AllDone(q) => AllDone(q)'
  <2>1. \A x : Tried(x)' = Tried(x)
    BY <1>1 DEF Tried
  <2> QED
    BY <1>0, <1>1, <2>1, QuietStep
<1>3. ~(actions >= MaxActions)
  BY <1>0, CrawlerAssumption DEF Within, Typed
<1>4. ASSUME NEW q \in DOMAIN Place', (Expandable(q) /\ Lone(q))', (Id(q) \in seen_screens)',
             (Depth(Id(q)) < MaxDepth)'
      PROVE  /\ q \in DOMAIN Place /\ Expandable(q) /\ Lone(q) /\ Id(q)' = Id(q)
             /\ Id(q) \in seen_screens /\ (Id(q) \in Range(queue) \/ AllDone(q)')
  <2>1. q \in DOMAIN Place /\ Expandable(q) /\ Lone(q) /\ Id(q) \in seen_screens
        /\ Depth(Id(q)) < MaxDepth /\ Id(q)' = Id(q)
    BY <1>1, <1>4 DEF Place, Expandable, Lone, Id, Depth
  <2>2. Id(q) \in Range(queue) \/ AllDone(q)
    BY <1>0, <2>1 DEF Search, NoneForgotten
  <2> QED
    BY <1>2, <2>1, <2>2
<1>5. CASE queue = <<>>
  <2>1. pc' = "done" /\ queue' = queue
    BY <1>5 DEF Pop
  <2>2. Range(queue) = {} /\ DOMAIN queue = {}
    BY <1>5 DEF Range
  <2>3. Layered' /\ Expanding'
    BY <1>5, <2>1, <2>2 DEF Layered, Expanding, Working
  <2>4. NoneForgotten'
    BY <1>4, <2>2 DEF NoneForgotten
  <2> QED
    BY <1>2, <1>5, <2>1, <2>3, <2>4 DEF Search, StrayIsTwin
<1>6. CASE queue # <<>>
  <2> DEFINE h == Head(queue)
             t == Tail(queue)
  <2>1. /\ queue' = t /\ h \in seen_screens /\ h = queue[1] /\ 1 \in DOMAIN queue
        /\ DOMAIN queue = 1 .. Len(queue) /\ DOMAIN t = 1 .. Len(queue) - 1 /\ Len(queue) \in Nat
        /\ \A i \in DOMAIN t : i + 1 \in DOMAIN queue /\ t[i] = queue[i + 1]
    <3>1. queue \in Seq(seen_screens)
      BY <1>0 DEF Typed
    <3>2. Len(queue) \in Nat /\ DOMAIN queue = 1 .. Len(queue)
      BY <3>1, LenProperties
    <3>3. /\ h \in seen_screens /\ h = queue[1] /\ t \in Seq(seen_screens) /\ Len(t) = Len(queue) - 1
          /\ \A i \in 1 .. Len(t) : t[i] = queue[i + 1]
      BY <1>6, <3>1, HeadTailProperties
    <3>4. DOMAIN t = 1 .. Len(t) /\ Len(t) \in Nat
      BY <3>3, LenProperties
    <3>5. queue' = t
      BY <1>3, <1>6 DEF Pop
    <3> HIDE DEF h, t
    <3> QED
      BY <3>2, <3>3, <3>4, <3>5
  <2> HIDE DEF h, t
  <2>2. /\ \A i \in DOMAIN t : Depth(t[i]) <= MaxDepth /\ Depth(h) <= Depth(t[i])
        /\ \A i, j \in DOMAIN t : i <= j => Depth(t[i]) <= Depth(t[j])
        /\ \A x \in seen_screens : Depth(x) <= Depth(h) + 1
        /\ \A x \in seen_screens, i \in DOMAIN t : Depth(x) <= Depth(t[i]) + 1
        /\ Depth(h) <= MaxDepth
    <3>1. \A i, j \in DOMAIN t : 1 <= i + 1 /\ (i <= j => i + 1 <= j + 1)
      BY <2>1
    <3> QED
      BY <1>0, <2>1, <3>1 DEF Search, Layered
  <2>3. Range(queue) \subseteq {h} \cup Range(t)
    <3>1. ASSUME NEW i \in DOMAIN queue PROVE queue[i] = h \/ queue[i] \in Range(t)
      <4>1. CASE i = 1
        BY <2>1, <4>1
      <4>2. CASE i # 1
        <5>1. i - 1 \in DOMAIN t /\ i = (i - 1) + 1
          BY <2>1, <4>2
        <5> QED
          BY <2>1, <5>1 DEF Range
      <4> QED
        BY <4>1, <4>2
    <3> QED
      BY <3>1 DEF Range
  <2>4. CASE ~Live(h) \/ NeverSettles(h)
    <3>1. pc' = "pop" /\ sid' = sid
      BY <1>0, <1>3, <1>6, <2>4 DEF Pop, h
    <3>2. Layered' /\ Expanding'
      BY <1>1, <2>1, <2>2, <3>1 DEF Layered, Depth, Expanding, Working
    <3>3. \A q \in DOMAIN Place : Id(q) = h /\ Lone(q) => ~Expandable(q)
      <4> SUFFICES ASSUME NEW q \in DOMAIN Place, Id(q) = h, Lone(q) PROVE ~Expandable(q)
        OBVIOUS
      <4>1. q \in visited /\ Name(q) = h
        BY <1>0, <2>1, LoneIsLive DEF Search
      <4>2. NeverSettles(h)
        BY <2>4, <4>1 DEF Live
      <4>3. PICK p \in visited : Name(p) = h /\ Place[p].volatile
        BY <4>2 DEF NeverSettles
      <4>4. p \in DOMAIN Place /\ app \in DOMAIN Apps
        BY <1>0 DEF Typed
      <4>5. Id(p) = Id(q)
        BY <4>3, <4>4, NameOfLone DEF Name
      <4>6. p = q
        BY <4>4, <4>5, OnePlace
      <4> QED
        BY <4>3, <4>6 DEF Expandable
    <3>4. NoneForgotten'
      BY <1>4, <2>1, <2>3, <3>3 DEF NoneForgotten
    <3> QED
      BY <1>2, <3>1, <3>2, <3>4 DEF Search, StrayIsTwin
  <2>5. CASE ~(~Live(h) \/ NeverSettles(h))
    <3>1. ~(Get(depth_of, h, 0) >= MaxDepth + 1)
      <4>1. Get(depth_of, h, 0) = Depth(h) /\ Depth(h) \in Nat /\ MaxDepth \in Nat
        BY <1>0, <2>1, CrawlerAssumption DEF Get, Depth, Typed
      <4> QED
        BY <2>2, <4>1
    <3>2. pc' = "reposition" /\ sid' = h /\ then' = "enter"
      BY <1>3, <1>6, <2>5, <3>1 DEF Pop, h
    <3>3. Layered' /\ Expanding'
      BY <1>1, <2>1, <2>2, <3>2 DEF Layered, Depth, Expanding, Working
    <3>4. NoneForgotten'
      BY <1>4, <2>1, <2>3, <3>2 DEF NoneForgotten, Working
    <3> QED
      BY <1>2, <3>2, <3>3, <3>4 DEF Search, StrayIsTwin
  <2> QED
    BY <2>4, <2>5
<1> QED
  BY <1>5, <1>6

LEMMA TapStep ==
  ASSUME OneViewport, CrawlInv, Within, Within', Tap, Typed', app' = app
  PROVE  Search'
<1>0. Typed /\ Search /\ pc = "work" /\ Working /\ MaxDepth \in Nat
  BY CrawlerAssumption DEF CrawlInv, Tap, Working
<1>1. PICK P \in visited : device = P /\ entered = P /\ Name(P) = sid /\ current_id = sid
  <2>1. Name(device) = sid /\ Name(entered) = sid /\ current_id = sid
    BY <1>0 DEF CrawlInv, WorksOneScreen, current_id
  <2>2. {device, entered} \subseteq visited /\ visited \subseteq DOMAIN Place /\ app \in DOMAIN Apps
    BY <1>0 DEF Typed
  <2>3. Id(device) = Id(entered)
    <3>1. Called(visited, device) = Called(visited, entered)
      BY <2>1 DEF Name
    <3> QED
      BY <2>2, <3>1, SameNode
  <2>4. device = entered
    BY <2>2, <2>3, OnePlace
  <2> QED
    BY <2>1, <2>2, <2>4
<1>p. P \in DOMAIN Place /\ app \in DOMAIN Apps
  BY <1>0 DEF Typed
<1>2. PICK key \in Untried, p \in DOMAIN Place :
        /\ key = Candidate /\ p = TapLeadsTo(key) /\ Hit(key) = key /\ p = Place[P].goes[key]
  <2> DEFINE k == Candidate
  <2>1. Untried # {}
    BY DEF Tap, Exhausted
  <2>2. k \in Untried
    BY <1>0, <2>1, CandidateIsUntried
  <2> HIDE DEF k
  <2>3. Hit(k) = k /\ TapLeadsTo(k) = Place[P].goes[k]
    BY <1>0, <1>1, <2>2, TapsItsRow
  <2>4. TapLeadsTo(k) \in DOMAIN Place
    BY <1>0, TapStaysInApp DEF Typed
  <2> QED
    BY <2>2, <2>3, <2>4 DEF k
<1> DEFINE moved == Name(p) # sid
           foreign == moved /\ Place[p].package # Package
<1>3. key \in Range(Place[P].rows)
  BY <1>1, <1>2 DEF Untried
<1>4. Depth(sid) < MaxDepth /\ Depth(sid) \in Nat /\ sid \in seen_screens
  <2>1. expand
    BY DEF Tap, Exhausted
  <2>2. expand = (Depth(sid) < MaxDepth)
    BY <1>0 DEF Search, Expanding
  <2> QED
    BY <1>0, <2>1, <2>2 DEF Typed, Depth
<1>5. Get(depth_of, sid, 0) + 1 = Depth(sid) + 1
  BY <1>4, <1>0 DEF Get, Depth, Typed
<1>6. /\ sid' = sid /\ expand' = expand /\ then' = "again"
      /\ pc' = (IF moved THEN "reposition" ELSE "work")
      /\ recorded' = recorded \cup {[from |-> Id(P), key |-> key, hit |-> Hit(key), to |-> Id(p)]}
      /\ tried' = [tried EXCEPT ![sid] = @ \cup {key}]
      /\ IF moved /\ ~foreign THEN Discover(p, Depth(sid) + 1)
         ELSE UNCHANGED <<queue, seen_screens, depth_of>>
      /\ visited \subseteq visited' /\ p \in visited'
  BY <1>1, <1>2, <1>5 DEF Tap, Commits
\* What was met, and how deep.
<1>7. /\ seen_screens \subseteq seen_screens' /\ seen_screens' \subseteq seen_screens \cup {Name(p)}
      /\ \A x \in seen_screens : depth_of'[x] = depth_of[x]
      /\ \A x \in seen_screens' : depth_of'[x] <= Depth(sid) + 1
      /\ Place[p].package = Package => Name(p) \in seen_screens'
      /\ \/ queue' = queue
         \/ Name(p) \notin seen_screens /\ depth_of'[Name(p)] = Depth(sid) + 1 /\ queue' = Append(queue, Name(p))
      /\ Name(p) \in seen_screens' \ seen_screens /\ Expandable(p) => queue' = Append(queue, Name(p))
  <2>1. \A x \in seen_screens : depth_of[x] <= Depth(sid) + 1
    BY <1>0 DEF Search, Layered, Depth
  <2>2. CASE moved /\ ~foreign
    <3>1. Discover(p, Depth(sid) + 1) /\ Depth(sid) + 1 \in Nat /\ Depth(sid) + 1 <= MaxDepth
      BY <1>0, <1>4, <1>6, <2>2
    <3>2. /\ seen_screens \subseteq seen_screens' /\ Name(p) \in seen_screens'
          /\ seen_screens' = seen_screens \cup {Name(p)}
          /\ \A x \in seen_screens : depth_of'[x] = depth_of[x]
          /\ Name(p) \notin seen_screens => depth_of'[Name(p)] = Depth(sid) + 1
          /\ \/ queue' = queue
             \/ Name(p) \notin seen_screens /\ queue' = Append(queue, Name(p))
          /\ Name(p) \notin seen_screens /\ Expandable(p) => queue' = Append(queue, Name(p))
      BY <1>0, <1>2, <3>1, DiscoverKeeps
    <3> QED
      BY <1>4, <2>1, <3>2
  <2>3. CASE ~(moved /\ ~foreign)
    <3>1. UNCHANGED <<queue, seen_screens, depth_of>>
      BY <1>6, <2>3
    <3>2. Place[p].package = Package => Name(p) \in seen_screens
      BY <1>1, <1>4, <2>3
    <3> QED
      BY <2>1, <3>1, <3>2
  <2> QED
    BY <2>2, <2>3
<1> HIDE DEF moved, foreign
<1>8. Working' /\ pc' # "back" /\ pc' # "pop" /\ pc' # "done"
  BY <1>6 DEF Working
<1>9. \A q \in DOMAIN Place : Id(q) \in seen_screens =>
        (\A k : RowDone(q, k) => RowDone(q, k)') /\ (AllDone(q) => AllDone(q)')
  <2>1. recorded \subseteq recorded'
    BY <1>6
  <2> QED
    BY <1>0, <1>7, <2>1, KnowledgeGrows
<1>n. Lone(p) => Name(p) = Id(p)
  BY LoneName DEF Name
<1>10. Linked'
  <2>1. /\ \A V, q : Called(V, q)' = Called(V, q)
        /\ \A q : Id(q)' = Id(q)
    BY DEF Called, Id, Place
  <2>2. ASSUME NEW S \in SUBSET Ids', (Id(Root) \in S)',
               \A e \in recorded' : e.from \in S => e.to \in S
        PROVE  \A i : Reached(i) => i \in S
    <3>1. Ids' = Ids /\ Id(Root)' = Id(Root) /\ recorded \subseteq recorded'
      BY <1>6 DEF Ids, Id, Place, Root
    <3> QED
      BY <2>2, <3>1 DEF Reached
  <2>3. Reached(Id(P))
    BY <1>0, <1>1, <1>4, MetIsReached DEF Search
  <2>4. Reached(Id(p))'
    <3> SUFFICES ASSUME NEW S \in SUBSET Ids', (Id(Root) \in S)',
                        \A e \in recorded' : e.from \in S => e.to \in S
                 PROVE  Id(p) \in S
      BY <2>1 DEF Reached
    <3>1. Id(P) \in S
      BY <2>2, <2>3
    <3>2. [from |-> Id(P), key |-> key, hit |-> Hit(key), to |-> Id(p)] \in recorded'
      BY <1>6
    <3> QED
      BY <3>1, <3>2
  <2>5. ASSUME NEW x \in seen_screens'
        PROVE  \E V \in SUBSET visited' : \E q \in V : Called(V, q)' = x /\ Reached(Id(q))'
    <3>1. CASE x \in seen_screens
      <4>1a. PICK V \in SUBSET visited : \E q \in V : Called(V, q) = x /\ Reached(Id(q))
        BY <1>0, <3>1 DEF Search, Linked
      <4>1. PICK q \in V : Called(V, q) = x /\ Reached(Id(q))
        BY <4>1a
      <4>2. V \in SUBSET visited'
        BY <1>6
      <4>3. Reached(Id(q))'
        <5> SUFFICES ASSUME NEW S \in SUBSET Ids', (Id(Root) \in S)',
                            \A e \in recorded' : e.from \in S => e.to \in S
                     PROVE  Id(q) \in S
          BY <2>1 DEF Reached
        <5> QED
          BY <2>2, <4>1
      <4> QED
        BY <2>1, <4>1, <4>2, <4>3
    <3>2. CASE x = Name(p)
      <4> DEFINE V == visited \cup {p}
      <4>1. V \in SUBSET visited' /\ p \in V
        BY <1>6
      <4>2. Called(V, p) = x
        BY <3>2, NameKept DEF Name
      <4> HIDE DEF V
      <4> QED
        BY <2>1, <2>4, <4>1, <4>2
    <3> QED
      BY <1>7, <3>1, <3>2
  <2> QED
    BY <2>5 DEF Linked
\* The queue grows by the next depth.
<1>11. Layered'
  <2>1. queue \in Seq(seen_screens) /\ Len(queue) \in Nat /\ DOMAIN queue = 1 .. Len(queue)
        /\ \A i \in DOMAIN queue : queue[i] \in seen_screens
    <3>1. queue \in Seq(seen_screens)
      BY <1>0 DEF Typed
    <3> QED
      BY <3>1, LenProperties, ElementOfSeq
  <2>2. /\ \A i \in DOMAIN queue : depth_of'[queue[i]] = depth_of[queue[i]]
        /\ depth_of'[sid] = depth_of[sid]
    BY <1>4, <1>7, <2>1
  <2>3. /\ \A i \in DOMAIN queue : /\ depth_of[queue[i]] <= MaxDepth /\ depth_of[sid] <= depth_of[queue[i]]
                                 /\ depth_of[queue[i]] <= depth_of[sid] + 1
        /\ \A i, j \in DOMAIN queue : i <= j => depth_of[queue[i]] <= depth_of[queue[j]]
    BY <1>0, <2>1 DEF Search, Layered, Depth
  <2>4. CASE queue' = queue
    BY <1>6, <1>7, <1>8, <2>2, <2>3, <2>4 DEF Layered, Depth
  <2>5. CASE depth_of'[Name(p)] = Depth(sid) + 1 /\ queue' = Append(queue, Name(p))
    <3> DEFINE n == Len(queue) + 1
               d == depth_of[sid]
    <3>1. /\ DOMAIN queue' = 1 .. n /\ queue'[n] = Name(p)
          /\ \A i \in DOMAIN queue : queue'[i] = queue[i]
      <4>1. queue \in Seq(seen_screens \cup {Name(p)})
        BY <2>1, SeqMonotonic
      <4>2. /\ Append(queue, Name(p)) \in Seq(seen_screens \cup {Name(p)}) /\ Len(Append(queue, Name(p))) = n
            /\ \A i \in 1 .. Len(queue) : Append(queue, Name(p))[i] = queue[i]
            /\ Append(queue, Name(p))[n] = Name(p)
        BY <4>1, AppendProperties
      <4>3. DOMAIN Append(queue, Name(p)) = 1 .. n
        BY <4>2, LenProperties
      <4> QED
        BY <2>1, <2>5, <4>2, <4>3
    <3>2. d \in Nat /\ d + 1 <= MaxDepth
      BY <1>0, <1>4 DEF Depth
    <3>3. /\ \A i \in DOMAIN queue : depth_of[queue[i]] \in Nat
      BY <1>0, <2>1 DEF Typed
    <3>4. /\ depth_of'[queue'[n]] = d + 1
          /\ \A i \in 1 .. n : i # n => i \in DOMAIN queue /\ depth_of'[queue'[i]] = depth_of[queue[i]]
      <4>1. \A i \in 1 .. n : i # n => i \in 1 .. Len(queue)
        BY <2>1
      <4>2. depth_of'[queue'[n]] = d + 1
        BY <2>5, <3>1 DEF Depth
      <4> HIDE DEF n, d
      <4> QED
        BY <2>1, <2>2, <3>1, <4>1, <4>2
    <3>5. \A i \in 1 .. n : depth_of'[queue'[i]] <= MaxDepth /\ d <= depth_of'[queue'[i]]
      <4> TAKE i \in 1 .. n
      <4>1. CASE i = n
        <5>1. depth_of'[queue'[i]] = d + 1
          BY <3>4, <4>1
        <5>2. d <= d + 1
          BY <3>2
        <5> HIDE DEF n, d
        <5> QED
          BY <3>2, <5>1, <5>2
      <4>2. CASE i # n
        <5>1. i \in DOMAIN queue /\ depth_of'[queue'[i]] = depth_of[queue[i]]
          BY <3>4, <4>2
        <5> QED
          BY <2>3, <5>1
      <4> QED
        BY <4>1, <4>2
    <3>6. \A i, j \in 1 .. n : i <= j => depth_of'[queue'[i]] <= depth_of'[queue'[j]]
      <4> SUFFICES ASSUME NEW i \in 1 .. n, NEW j \in 1 .. n, i <= j
                   PROVE  depth_of'[queue'[i]] <= depth_of'[queue'[j]]
        OBVIOUS
      <4>1. CASE i = n
        <5>1. j = n
          BY <2>1, <4>1
        <5>2. depth_of'[queue'[i]] = d + 1 /\ depth_of'[queue'[j]] = d + 1
          BY <3>4, <4>1, <5>1
        <5>3. d + 1 <= d + 1
          BY <3>2
        <5> HIDE DEF n, d
        <5> QED
          BY <5>2, <5>3
      <4>2. CASE i # n /\ j = n
        <5>1. i \in DOMAIN queue /\ depth_of'[queue'[i]] = depth_of[queue[i]]
          BY <3>4, <4>2
        <5>2. depth_of'[queue'[j]] = d + 1
          BY <3>4, <4>2
        <5> QED
          BY <2>3, <5>1, <5>2
      <4>3. CASE i # n /\ j # n
        <5>1. /\ i \in DOMAIN queue /\ depth_of'[queue'[i]] = depth_of[queue[i]]
              /\ j \in DOMAIN queue /\ depth_of'[queue'[j]] = depth_of[queue[j]]
          BY <3>4, <4>3
        <5> QED
          BY <2>3, <5>1
      <4> QED
        BY <4>1, <4>2, <4>3
    <3>7. \A x \in seen_screens' : depth_of'[x] <= depth_of'[sid'] + 1
      BY <1>6, <1>7, <2>2 DEF Depth
    <3> HIDE DEF n
    <3> QED
      BY <1>6, <1>8, <2>2, <3>1, <3>5, <3>6, <3>7 DEF Layered, Depth
  <2> QED
    BY <1>7, <2>4, <2>5
<1>12. Id(P)' = Id(P) /\ Id(p)' = Id(p) /\ Place' = Place
  BY <1>1 DEF Id, Place
\* The row tapped is done.
<1>13. ASSUME Lone(P), Id(P) = sid
       PROVE  RowDone(P, key)'
  <2> DEFINE e == [from |-> Id(P), key |-> key, hit |-> Hit(key), to |-> Id(p)]
  <2>1. e \in recorded' /\ e.from = Id(P) /\ e.key = key
    BY <1>6
  <2>2. Met(p, Depth(sid) + 1)'
    <3>1. Place[p].package = Package /\ Lone(p) =>
            Id(p) \in seen_screens' /\ depth_of'[Id(p)] <= Depth(sid) + 1
      BY <1>7, <1>n
    <3>2. Depth(sid)' = Depth(sid)
      BY <1>4, <1>6, <1>7 DEF Depth
    <3> QED
      BY <1>12, <3>1, <3>2 DEF Met, Depth, Lone, Id
  <2> QED
    <3>1. \E x \in recorded' : x.from = Id(P)' /\ x.key = key
      BY <1>12, <2>1
    <3>2. (Place[P].goes[key])' = p /\ (Depth(Id(P)) + 1)' = (Depth(sid) + 1)'
      BY <1>2, <1>6, <1>12, <1>13 DEF Depth
    <3> HIDE DEF e
    <3>3. Met(Place[P].goes[key], Depth(Id(P)) + 1)'
      BY <2>2, <3>2 DEF Met, Id, Depth, Lone
    <3> QED
      BY <3>1, <3>3 DEF RowDone
<1>14. TriedDone'
  <2> SUFFICES ASSUME NEW q \in DOMAIN Place', NEW k \in (Tried(Id(q)) \cap Range(Place[q].rows))',
                      Lone(q)'
               PROVE  (Id(q) \in seen_screens)' /\ RowDone(q, k)'
    BY DEF TriedDone
  <2>1. q \in DOMAIN Place /\ Id(q)' = Id(q) /\ Range(Place[q].rows)' = Range(Place[q].rows) /\ Lone(q)
    BY <1>12 DEF Id, Lone
  <2>2. k \in Tried(Id(q)) \/ (Id(q) = sid /\ k = key)
    BY <1>6, <2>1 DEF Tried, Get
  <2>3. CASE k \in Tried(Id(q))
    <3>1. Id(q) \in seen_screens /\ RowDone(q, k)
      BY <1>0, <2>1, <2>3 DEF Search, TriedDone
    <3> QED
      BY <1>7, <1>9, <2>1, <3>1
  <2>4. CASE Id(q) = sid /\ k = key
    <3>1. Id(P) = Id(q)
      BY <1>1, <1>p, <2>1, <2>4, NameOfLone DEF Name
    <3>2. q = P
      BY <1>p, <2>1, <3>1, OnePlace
    <3> QED
      BY <1>4, <1>7, <1>13, <2>1, <2>4, <3>2
  <2> QED
    BY <2>2, <2>3, <2>4
<1>15. Range(queue) \subseteq Range(queue)' /\ (queue' = Append(queue, Name(p)) => Name(p) \in Range(queue)')
  <2>1. queue \in Seq(seen_screens \cup {Name(p)}) /\ DOMAIN queue = 1 .. Len(queue) /\ Len(queue) \in Nat
    BY <1>0, SeqMonotonic, LenProperties DEF Typed
  <2>2. /\ Append(queue, Name(p)) \in Seq(seen_screens \cup {Name(p)})
        /\ Len(Append(queue, Name(p))) = Len(queue) + 1
        /\ \A i \in 1 .. Len(queue) : Append(queue, Name(p))[i] = queue[i]
        /\ Append(queue, Name(p))[Len(queue) + 1] = Name(p)
    BY <2>1, AppendProperties
  <2>3. DOMAIN Append(queue, Name(p)) = 1 .. Len(queue) + 1
    BY <2>2, LenProperties
  <2>4. Range(queue) \subseteq Range(Append(queue, Name(p))) /\ Name(p) \in Range(Append(queue, Name(p)))
    <3>1. Len(queue) + 1 \in 1 .. Len(queue) + 1 /\ \A i \in 1 .. Len(queue) : i \in 1 .. Len(queue) + 1
      BY <2>1
    <3> QED
      BY <2>1, <2>2, <2>3, <3>1 DEF Range
  <2> QED
    BY <1>7, <2>4
<1>16. NoneForgotten'
  <2> SUFFICES ASSUME NEW q \in DOMAIN Place', (Expandable(q) /\ Lone(q))', (Id(q) \in seen_screens)',
                      (Depth(Id(q)) < MaxDepth)'
               PROVE  (Id(q) \in Range(queue) \/ (Working /\ sid = Id(q)) \/ AllDone(q))'
    BY DEF NoneForgotten
  <2>1. q \in DOMAIN Place /\ Expandable(q) /\ Lone(q) /\ Id(q)' = Id(q) /\ Id(q) \in seen_screens'
        /\ depth_of'[Id(q)] < MaxDepth
    BY <1>12 DEF Expandable, Lone, Id, Depth
  <2>2. CASE Id(q) \in seen_screens
    <3>1. Id(q) \in Range(queue) \/ sid = Id(q) \/ AllDone(q)
      BY <1>0, <1>7, <2>1, <2>2 DEF Search, NoneForgotten, Depth
    <3> QED
      BY <1>6, <1>8, <1>9, <1>15, <2>1, <2>2, <3>1
  <2>3. CASE Id(q) \notin seen_screens
    <3>1. Id(q) = Name(p)
      BY <1>7, <2>1, <2>3
    <3>2. q = p
      <4>1. Id(p) = Id(q)
        BY <1>2, <1>p, <2>1, <3>1, NameOfLone DEF Name
      <4> QED
        BY <2>1, <4>1, OnePlace
    <3>3. queue' = Append(queue, Name(p))
      BY <1>7, <2>1, <2>3, <3>1, <3>2
    <3> QED
      BY <1>15, <2>1, <3>1, <3>3
  <2> QED
    BY <2>2, <2>3
<1>17. Expanding'
  <2>1. expand = (Depth(sid) < MaxDepth)
    BY <1>0 DEF Search, Expanding
  <2>2. Depth(sid)' = Depth(sid)
    BY <1>4, <1>6, <1>7 DEF Depth
  <2> QED
    BY <1>6, <2>1, <2>2 DEF Expanding
<1> QED
  BY <1>8, <1>10, <1>11, <1>14, <1>16, <1>17 DEF Search, StrayIsTwin

LEMMA LeaveStep ==
  ASSUME OneViewport, CrawlInv, Within, Leave
  PROVE  Search'
<1>0. Typed /\ Search /\ pc = "work" /\ Working
  BY DEF CrawlInv, Leave, Working
<1>1. UNCHANGED <<app, recorded, seen_screens, depth_of, tried, queue, sid, visited>> /\ pc' = "pop"
  BY DEF Leave
<1>2. /\ Linked' /\ TriedDone'
      /\ \A q \in DOMAIN Place : Id(q) \in seen_screens /\ AllDone(q) => AllDone(q)'
  <2>1. \A x : Tried(x)' = Tried(x)
    BY <1>1 DEF Tried
  <2> QED
    BY <1>0, <1>1, <2>1, QuietStep
<1>3. Exhausted
  <2>1. ~(actions >= MaxActions)
    BY <1>0, CrawlerAssumption DEF Within, Typed
  <2> QED
    BY <2>1 DEF Leave
<1>4. PICK P \in DOMAIN Place : entered = P /\ Name(P) = sid
  BY <1>0 DEF CrawlInv, WorksOneScreen, Typed
<1>5. ASSUME Depth(sid) < MaxDepth, Lone(P), Id(P) = sid PROVE AllDone(P)
  <2>1. expand
    BY <1>0, <1>5 DEF Search, Expanding
  <2>2. Range(Place[P].rows) \subseteq Tried(Id(P))
    BY <1>3, <1>4, <1>5, <2>1 DEF Exhausted, Untried
  <2> QED
    BY <1>0, <1>5, <2>2 DEF Search, TriedDone, AllDone
<1>6. Layered'
  <2>1. ~Working'
    BY <1>1 DEF Working
  <2> QED
    BY <1>0, <1>1, <2>1, LayeredAtPop DEF Search
<1>7. NoneForgotten'
  <2> SUFFICES ASSUME NEW q \in DOMAIN Place', (Expandable(q) /\ Lone(q))', (Id(q) \in seen_screens)',
                      (Depth(Id(q)) < MaxDepth)'
               PROVE  (Id(q) \in Range(queue) \/ (Working /\ sid = Id(q)) \/ AllDone(q))'
    BY DEF NoneForgotten
  <2>1. q \in DOMAIN Place /\ Expandable(q) /\ Lone(q) /\ Id(q)' = Id(q) /\ Id(q) \in seen_screens
        /\ Depth(Id(q)) < MaxDepth
    BY <1>1 DEF Place, Expandable, Lone, Id, Depth
  <2>2. CASE sid = Id(q)
    <3>1. q = P
      <4>1. Id(P) = Id(q)
        BY <1>0, <1>4, <2>1, <2>2, NameOfLone DEF Name, Typed
      <4> QED
        BY <1>4, <2>1, <4>1, OnePlace
    <3> QED
      BY <1>2, <1>5, <2>1, <2>2, <3>1
  <2>3. CASE sid # Id(q)
    <3>1. Id(q) \in Range(queue) \/ AllDone(q)
      BY <1>0, <2>1, <2>3 DEF Search, NoneForgotten
    <3> QED
      BY <1>1, <1>2, <2>1, <3>1
  <2> QED
    BY <2>2, <2>3
<1>8. Expanding'
  BY <1>1 DEF Expanding
<1> QED
  BY <1>1, <1>2, <1>6, <1>7, <1>8 DEF Search, StrayIsTwin

LEMMA InitSearch == Init => Search
<1> SUFFICES ASSUME Init PROVE Search
  OBVIOUS
<1>1. Typed /\ sid = RootName /\ seen_screens = {sid} /\ queue = <<sid>> /\ pc = "pop" /\ visited = {Root}
  BY InitTyped DEF Init, Root, RootName
<1>2. depth_of[sid] = 0 /\ MaxDepth \in Nat
  BY <1>1, CrawlerAssumption DEF Typed
<1>3. Linked
  <2>1. Called({Root}, Root) = sid /\ Reached(Id(Root))
    BY <1>1 DEF Called, RootName, Reached
  <2> QED
    BY <1>1, <2>1 DEF Linked
<1>4. DOMAIN queue = {1} /\ queue[1] = sid /\ Range(queue) = {sid}
  BY <1>1 DEF Range
<1>5. Layered
  BY <1>1, <1>2, <1>4 DEF Layered, Depth, Working
<1>6. TriedDone
  <2>1. tried = [x \in {} |-> {}]
    BY DEF Init
  <2> QED
    BY <2>1 DEF TriedDone, Tried, Get
<1>7. NoneForgotten
  BY <1>1, <1>4 DEF NoneForgotten
<1> QED
  BY <1>1, <1>3, <1>5, <1>6, <1>7 DEF Search, Expanding, StrayIsTwin

LEMMA StepCrawlInv ==
  ASSUME CrawlInv, [Next]_vars
  PROVE  CrawlInv'
<1>1. Typed' /\ app' = app /\ WorksOneScreen'
  BY StepTyped, StepWorksOneScreen DEF CrawlInv
<1>2. Typed
  BY DEF CrawlInv
<1>3. ASSUME Within' PROVE Within
  <2>1. lost' \in {lost, lost + 1} /\ actions' \in {actions, actions + 1}
    <3>1. CASE Navigate
      BY <3>1 DEF Navigate
    <3>2. CASE ~Navigate
      BY <3>2 DEF Next, Pop, AlreadyThere, Back, BacksDone, Tap, Scroll, Leave, vars
    <3> QED
      BY <3>1, <3>2
  <2> QED
    BY <1>2, <1>3, <2>1, CrawlerAssumption DEF Within, Typed
<1>4. ASSUME OneViewport', Within' PROVE Search'
  <2>0. OneViewport /\ Within /\ Search
    <3>1. OneViewport
      BY <1>1, <1>4 DEF OneViewport, Id, Place
    <3> QED
      BY <1>3, <1>4, <3>1 DEF CrawlInv
  <2>1. CASE Pop
    BY <1>4, <2>0, <2>1, PopStep
  <2>2. CASE AlreadyThere
    <3>1. /\ pc = "reposition" /\ device \in DOMAIN Place /\ Return(TRUE, device)
          /\ UNCHANGED <<app, recorded, seen_screens, depth_of, then, sid, queue, visited>>
      BY <1>2, <2>2 DEF AlreadyThere, Typed
    <3> QED
      BY <2>0, <3>1, ArriveStep
  <2>3. CASE Navigate
    <3>1. lost' # lost + 1
      BY <1>2, <1>4, <2>0 DEF Within, Typed
    <3>2. /\ pc = "reposition" /\ visited \subseteq visited'
          /\ UNCHANGED <<app, recorded, seen_screens, depth_of, then, sid, queue>>
      BY <2>3 DEF Navigate, Observe
    <3>3. CASE \E p \in visited : Return(TRUE, p)
      <4>1. PICK p \in visited : Return(TRUE, p)
        BY <3>3
      <4>2. p \in DOMAIN Place
        BY <1>2 DEF Typed
      <4> QED
        BY <2>0, <3>2, <4>1, <4>2, ArriveStep
    <3>4. CASE ~Routed /\ pc' = "back" /\ UNCHANGED <<tried, expand>>
      BY <2>0, <3>2, <3>4, StrayStep
    <3> QED
      BY <2>3, <3>1, <3>3, <3>4 DEF Navigate
  <2>4. CASE Back \/ BacksDone
    <3>1. CASE Back
      <4>1. /\ pc = "back" /\ pc' = "back" /\ visited \subseteq visited'
            /\ UNCHANGED <<app, recorded, seen_screens, depth_of, tried, then, expand, sid, queue>>
        BY <3>1 DEF Back, Observe
      <4> QED
        BY <2>0, <4>1, StrayStep
    <3>2. CASE BacksDone
      <4>1. /\ pc = "back" /\ Return(GotBack, device) /\ device \in DOMAIN Place
            /\ UNCHANGED <<app, recorded, seen_screens, depth_of, then, sid, queue, visited>>
        BY <1>2, <3>2 DEF BacksDone, Typed
      <4>2. CASE GotBack
        <5>1. Return(TRUE, device)
          BY <4>1, <4>2 DEF Return
        <5> QED
          BY <2>0, <4>1, <5>1, ArriveStep
      <4>3. CASE ~GotBack
        <5>1. pc' = "pop" /\ tried' = tried
          BY <4>1, <4>3 DEF Return
        <5> QED
          BY <2>0, <4>1, <5>1, DropStep
      <4> QED
        BY <4>2, <4>3
    <3> QED
      BY <2>4, <3>1, <3>2
  <2>5. CASE Tap
    BY <1>1, <1>4, <2>0, <2>5, TapStep
  <2>6. CASE Scroll
    BY <1>2, <2>0, <2>6, OnePlace DEF Scroll, Scrollable, Typed
  <2>7. CASE Leave
    BY <2>0, <2>7, LeaveStep
  <2>8. CASE UNCHANGED vars
    <3>1. /\ UNCHANGED <<app, recorded, seen_screens, depth_of, tried, queue, sid, pc, then, expand, visited>>
          /\ UNCHANGED Place
      BY <2>8 DEF vars, Place
    <3>2. \A x : Tried(x)' = Tried(x)
      BY <3>1 DEF Tried
    <3>3. /\ Linked' /\ TriedDone'
          /\ \A p \in DOMAIN Place : Id(p) \in seen_screens /\ AllDone(p) => AllDone(p)'
      BY <1>2, <2>0, <3>1, <3>2, QuietStep
    <3>4. Layered' /\ Expanding' /\ StrayIsTwin' /\ (pc' = "done" => queue' = <<>>)
      BY <2>0, <3>1 DEF Search, Layered, Expanding, StrayIsTwin, Working, Depth, Id, Lone
    <3>5. NoneForgotten'
      BY <2>0, <3>1, <3>3 DEF Search, NoneForgotten, Working, Depth, Id, Lone, Expandable
    <3> QED
      BY <3>3, <3>4, <3>5 DEF Search
  <2> QED
    BY <2>1, <2>2, <2>3, <2>4, <2>5, <2>6, <2>7, <2>8 DEF Next
<1> QED
  BY <1>1, <1>4 DEF CrawlInv

LEMMA InvariantCrawl == Spec => []CrawlInv
<1>1. Init => CrawlInv
  BY InitTyped, InitSearch DEF CrawlInv, Init, WorksOneScreen
<1> QED
  BY <1>1, StepCrawlInv, PTL DEF Spec

-----------------------------------------------------------------------------
(***************************************************************************)
(* The levels of the app.                                                  *)
(***************************************************************************)
Leads(S) == UNION {{Place[p].goes[k] : k \in Range(Place[p].rows)} : p \in {q \in S : Expandable(q) /\ Lone(q)}}

\* The recursion of Level defines a function.
LEMMA LevelsDefined ==
  ASSUME MaxDepth \in Nat
  PROVE  Level = [n \in 0 .. MaxDepth |-> IF n = 0 THEN {RootOf(app)} ELSE Leads(Level[n - 1])]
<1> DEFINE F(f, m) == f = [n \in 0 .. m |-> IF n = 0 THEN {RootOf(app)} ELSE Leads(f[n - 1])]
           S == {m \in Nat : \E f : F(f, m)}
<1>1. 0 \in S
  <2> DEFINE f == [n \in 0 .. 0 |-> {RootOf(app)}]
  <2>1. F(f, 0)
    OBVIOUS
  <2> QED
    BY <2>1
<1>2. ASSUME NEW m \in Nat, m \in S PROVE m + 1 \in S
  <2>1. PICK f : F(f, m)
    BY <1>2
  <2> DEFINE g == [n \in 0 .. m + 1 |-> IF n = m + 1 THEN Leads(f[m]) ELSE f[n]]
  <2>2. ASSUME NEW n \in 0 .. m + 1
        PROVE  g[n] = IF n = 0 THEN {RootOf(app)} ELSE Leads(g[n - 1])
    <3>1. CASE n = m + 1
      <4>1. n # 0 /\ n - 1 = m /\ m \in 0 .. m + 1 /\ m # m + 1
        BY <3>1
      <4>2. g[n] = Leads(f[m]) /\ g[m] = f[m]
        BY <3>1, <4>1
      <4> HIDE DEF g
      <4> QED
        BY <4>1, <4>2
    <3>2. CASE n # m + 1
      <4>1. n \in 0 .. m /\ (n # 0 => n - 1 \in 0 .. m + 1 /\ n - 1 # m + 1)
        BY <3>2
      <4>2. f[n] = IF n = 0 THEN {RootOf(app)} ELSE Leads(f[n - 1])
        BY <2>1, <4>1
      <4>3. g[n] = f[n] /\ (n # 0 => g[n - 1] = f[n - 1])
        BY <3>2, <4>1
      <4> HIDE DEF g
      <4> QED
        BY <4>2, <4>3
    <3> QED
      BY <3>1, <3>2
  <2>3. g = [n \in 0 .. m + 1 |-> IF n = 0 THEN {RootOf(app)} ELSE Leads(g[n - 1])]
    BY <2>2
  <2> HIDE DEF g
  <2>4. F(g, m + 1)
    BY <2>3
  <2> QED
    BY <2>4
<1>3. MaxDepth \in S
  <2> HIDE DEF S
  <2> QED
    BY <1>1, <1>2, NatSetInduction
<1>4. PICK f : F(f, MaxDepth)
  BY <1>3
<1>5. Level = CHOOSE g : g = [n \in 0 .. MaxDepth |-> IF n = 0 THEN {RootOf(app)} ELSE Leads(g[n - 1])]
  BY DEF Level, Leads
<1> QED
  BY <1>4, <1>5

\* When the crawl is over every place of a level was met, no deeper than that.
LEMMA LevelsMet ==
  ASSUME OneViewport, CrawlInv, Within, pc = "done"
  PROVE  \A n \in 0 .. MaxDepth : \A p \in Level[n] : p \in DOMAIN Place /\ Met(p, n)
<1>0. Typed /\ Search /\ MaxDepth \in Nat /\ queue = <<>> /\ ~Working
  BY CrawlerAssumption DEF CrawlInv, Search, Working
<1> DEFINE S == {n \in Nat : n <= MaxDepth => \A p \in Level[n] : p \in DOMAIN Place /\ Met(p, n)}
<1>1. 0 \in S
  <2>1. Level[0] = {RootOf(app)}
    BY <1>0, LevelsDefined
  <2>2. RootOf(app) \in DOMAIN Place /\ Met(RootOf(app), 0)
    <3>1. Root \in DOMAIN Place /\ RootName \in seen_screens /\ Depth(RootName) = 0
      BY <1>0 DEF Typed, Depth
    <3> QED
      BY <3>1 DEF Met, Lone, Root, RootName
  <2> QED
    BY <2>1, <2>2
<1>2. ASSUME NEW n \in Nat, n \in S PROVE n + 1 \in S
  <2> SUFFICES ASSUME n + 1 <= MaxDepth, NEW q \in Level[n + 1]
               PROVE  q \in DOMAIN Place /\ Met(q, n + 1)
    OBVIOUS
  <2>1. n \in 0 .. MaxDepth /\ n + 1 \in 0 .. MaxDepth /\ (n + 1) - 1 = n /\ n + 1 # 0 /\ n < MaxDepth
    BY <1>0
  <2>2. Level[n + 1] = Leads(Level[n])
    BY <1>0, <2>1, LevelsDefined
  <2>3. PICK p \in Level[n] : Expandable(p) /\ Lone(p) /\ \E k \in Range(Place[p].rows) : q = Place[p].goes[k]
    BY <2>2 DEF Leads
  <2>4. PICK k \in Range(Place[p].rows) : q = Place[p].goes[k]
    BY <2>3
  <2>5. p \in DOMAIN Place /\ Id(p) \in seen_screens /\ Depth(Id(p)) <= n
    BY <1>2, <2>1, <2>3 DEF Met, Expandable
  <2>6. Depth(Id(p)) \in Nat
    BY <1>0, <2>5 DEF Typed, Depth
  <2>7. AllDone(p)
    <3>1. Depth(Id(p)) < MaxDepth
      BY <1>0, <2>1, <2>5, <2>6
    <3>2. Range(queue) = {}
      BY <1>0 DEF Range
    <3> QED
      BY <1>0, <2>3, <2>5, <3>1, <3>2 DEF Search, NoneForgotten
  <2>8. Met(q, Depth(Id(p)) + 1)
    BY <2>4, <2>7 DEF AllDone, RowDone
  <2>9. Met(q, n + 1)
    <3>1. Id(q) \in seen_screens => Depth(Id(q)) \in Nat
      BY <1>0 DEF Typed, Depth
    <3> QED
      BY <2>5, <2>6, <2>8, <3>1 DEF Met
  <2>10. q \in DOMAIN Place
    BY <1>0, <2>4, <2>5, Places DEF Typed
  <2> QED
    BY <2>9, <2>10
<1>3. Nat \subseteq S
  <2> HIDE DEF S
  <2> QED
    BY <1>1, <1>2, NatSetInduction
<1> QED
  BY <1>0, <1>3

\* Of an app whose screens have one viewport each, however its BACK wanders,
\* whatever other packages it opens and however its twins are renamed, a crawl that
\* no budget ended and no lost navigation disturbed has touched every row of every
\* stable screen without a twin that is less than max_depth taps away.
THEOREM NoScreenIsForgotten == Spec => [](OneViewport => AllTried)
<1>1. CrawlInv => (OneViewport => AllTried)
  <2> SUFFICES ASSUME OneViewport, CrawlInv, pc = "done", actions < MaxActions, lost = 0,
                      NEW n \in 0 .. (MaxDepth - 1), NEW p \in Level[n], Expandable(p), Lone(p),
                      NEW k \in Range(Place[p].rows)
               PROVE  k \in {e.key : e \in {x \in recorded : x.from = Id(p)}}
    BY DEF AllTried
  <2>0. Within /\ Typed /\ Search /\ MaxDepth \in Nat /\ queue = <<>> /\ ~Working
    BY CrawlerAssumption DEF CrawlInv, Search, Working, Within
  <2>1. n \in 0 .. MaxDepth /\ n < MaxDepth
    BY <2>0
  <2>2. p \in DOMAIN Place /\ Met(p, n)
    BY <2>0, <2>1, LevelsMet
  <2>3. Id(p) \in seen_screens /\ Depth(Id(p)) <= n /\ Depth(Id(p)) \in Nat
    BY <2>0, <2>2 DEF Met, Expandable, Typed, Depth
  <2>4. AllDone(p)
    <3>1. Depth(Id(p)) < MaxDepth
      BY <2>0, <2>1, <2>3
    <3>2. Range(queue) = {}
      BY <2>0 DEF Range
    <3> QED
      BY <2>0, <2>2, <2>3, <3>1, <3>2 DEF Search, NoneForgotten
  <2> QED
    BY <2>4 DEF AllDone, RowDone
<1> QED
  BY <1>1, InvariantCrawl, PTL
=============================================================================
