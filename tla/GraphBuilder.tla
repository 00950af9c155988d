---------------------------- MODULE GraphBuilder ----------------------------
(***************************************************************************)
(* The graph-build core both front-ends share (wendle/record/builder.py),  *)
(* over the recorded graph (wendle/graph.py), with the human's edits of    *)
(* RecordSession (confirm, reject, correct, mark_same, resume).            *)
(*                                                                         *)
(* One step is one call made by the recording thread: an observed screen   *)
(* entered through the identity gate, the repair of every holder of a      *)
(* renamed id, and the commit of the action that led there.  The module    *)
(* implements TwinIdentity (GateSpec).                                     *)
(*                                                                         *)
(* Facts of a dump that the code computes from pixels (is the screen       *)
(* interactive, did the region's content change, did a swipe advance it)   *)
(* are chosen freely, each once per step.                                  *)
(***************************************************************************)
EXTENDS Naturals, FiniteSets, Sequences, EdgeTrace

CONSTANTS
  Coarse, Launchers, Digest, NoDigest, FamilyMax, Observable, Merges,
  Namespace(_),  \* the package/activity a coarse fingerprint belongs to
  Shows(_),      \* the digests, of those in Observable, its dumps show
  Gestures,      \* the gestures made: subset of {"click", "swipe"}
  Unsettled,     \* the coarse fingerprints that may be seen not to settle
  Edits,         \* the human edits made: "confirm", "reject", "correct", "resume"
  MaxCommits,    \* bound: edges committed
  MaxStaged,     \* bound: set_text and set_checked pre-actions staged
  MaxFocused     \* bound: fields gain focus while fewer than this are staged

ASSUME BuilderAssumption ==
  /\ \A c \in Coarse : Shows(c) # {} /\ Shows(c) \subseteq Observable
  /\ Gestures \subseteq {"click", "swipe"}
  /\ Unsettled \subseteq Coarse
  /\ Edits \subseteq {"confirm", "reject", "correct", "resume"}
  /\ MaxCommits \in Nat /\ MaxStaged \in Nat /\ MaxFocused \in Nat

VARIABLES
  screens, exhausted, current, raised,   \* as in TwinIdentity
  edges,        \* graph.g: edge key -> edge data
  order,        \* _edge_order
  provisional,  \* the edge ids waiting for the human's confirmation
  pending,      \* _pending, as a set (its order is no property's business): the
                \* staged pre-actions, each with its screen tag
  typing,       \* the field in flight (_typing_*): none, or one with its tag
  launching,    \* _launching
  force,        \* node id -> the screen's force_action
  settledBy,    \* history: commits the human confirmed or rejected
  discarded,    \* history: staged pre-actions dropped with a marker
  committed,    \* number of edges committed so far
  staged        \* number of pre-actions staged so far

gateVars == <<screens, exhausted, current, raised>>
traceVars == <<edges, order, provisional, committed, settledBy>>
stagingVars == <<pending, typing, staged, discarded>>
launchVars == <<launching, force>>
vars == <<gateVars, traceVars, stagingVars, launchVars>>

PendingTags == {p.screen : p \in pending \cup typing}

Gate == INSTANCE TwinIdentity WITH tags <- PendingTags

-----------------------------------------------------------------------------
(***************************************************************************)
(* What is known of a node from its id and its screen record.              *)
(***************************************************************************)
nodes == DOMAIN screens
CoarseOf(n)   == n[2]
Volatile(n)   == n[1] = "V"
OnLauncher(n) == CoarseOf(n) \in Launchers
NsOf(n)       == Namespace(CoarseOf(n))

NoForce == [kind |-> "none", verified_fp |-> Gate!NoScreen, provenance |-> "unknown"]

(***************************************************************************)
(* The entered screen.  o is one observation: its coarse fingerprint, its  *)
(* chrome digest, whether it settled.                                      *)
(***************************************************************************)
Observation ==
  {o \in [c : Coarse, d : Observable, settled : BOOLEAN] :
     /\ o.d \in Shows(o.c)
     /\ o.settled \/ (o.c \in Unsettled /\ o.d = CHOOSE d \in Shows(o.c) : TRUE)}

Target(o) == IF o.settled THEN Gate!ResolvedId(o.c, o.d) ELSE Gate!Vid(o.c)

\* node_remap of this observation's decision.
Renames(o) == IF o.settled THEN Gate!Renaming(o.c, o.d) ELSE [n \in {} |-> n]

\* The order in which the gate renames the members of a family.
RenameOrders(r) == SetToSeqs(DOMAIN r)

\* enter(): the node map after the gate and the mint.
Enters(o) ==
  /\ IF o.settled
     THEN /\ ~Gate!Clashes(o.c, o.d)
          /\ screens' = Gate!ScreensAfter(o.c, o.d)
          /\ exhausted' = IF Gate!Overflows(o.c, o.d) THEN exhausted \cup {o.c} ELSE exhausted
     ELSE Gate!MintPlain(Gate!Vid(o.c)) /\ UNCHANGED exhausted
  /\ UNCHANGED raised

\* Mutant: verified_fp keeps the id the screen had before it was renamed.
ForceUnpinned(ms, r, id) ==
  [n \in (nodes \ DOMAIN r) \cup {r[m] : m \in DOMAIN r} \cup {id} |->
     IF n \in nodes THEN force[n]
     ELSE IF ms # <<>> /\ n = r[ms[1]] THEN force[ms[1]] ELSE NoForce]

\* A node's force action after the members ms were renamed by r and the node
\* id was minted or revisited: the first member's screen survives a rename and
\* its verified_fp follows; a launcher screen always has its keyevent anchor.
ForceAfter(ms, r, id) ==
  LET keep == IF ms = <<>> THEN NoForce ELSE force[ms[1]]
      Kept(n) ==
        IF ms # <<>> /\ n = r[ms[1]]
        THEN [keep EXCEPT !.verified_fp = IF @ = ms[1] THEN n ELSE @]
        ELSE IF n \in nodes THEN force[n] ELSE NoForce
      Home(n) == [kind |-> "keyevent", verified_fp |-> n, provenance |-> "unknown"]
  IN  [n \in (nodes \ DOMAIN r) \cup {r[m] : m \in DOMAIN r} \cup {id} |->
         IF n = id /\ OnLauncher(n) /\ Kept(n) = NoForce THEN Home(n) ELSE Kept(n)]

\* Mutant: staged entries keep the id their screen was renamed from.
TagsUnrenamed(r, p) == p

\* remap_holders: the holders of renamed ids other than current_id.
Retagged(r, p) == {[x EXCEPT !.screen = Gate!Renamed(r, @)] : x \in p}

-----------------------------------------------------------------------------
(***************************************************************************)
(* Staged pre-actions.                                                     *)
(***************************************************************************)
\* take_pending and drop_stale_pending match by tag, and a volatile screen
\* also by namespace.
Bridges(p, screen) ==
  p.screen = screen \/ (screen # Gate!NoScreen /\ Volatile(screen) /\ p.ns = NsOf(screen))

Mine(p, screen) == {x \in p : Bridges(x, screen)}
\* Mutant: what an edge takes stays staged.
RestAll(p, screen) == p

Rest(p, screen) == p \ Mine(p, screen)
Ids(p) == {x.id : x \in p}

\* A field with the tag it got when it gained focus.  on and here are history:
\* the screen the tag named, and whether the recorder, with no gesture under
\* way, stood on it then.
Field(tag, here) ==
  [screen |-> tag, ns |-> NsOf(tag), on |-> CoarseOf(tag), here |-> here]

\* The fields the refresher may see gain focus (_track_text).
Fields(atRest) ==
  {Field(t, atRest /\ t = current) : t \in {x \in Gate!FocusTags : staged < MaxFocused}}

\* The n-th staged entry, of field f; after is history: the last commit before.
Entry(f, n) ==
  [id |-> n, screen |-> f.screen, ns |-> f.ns, on |-> f.on, here |-> f.here,
   after |-> committed]

\* _finalize_field: what is pending once the field in flight is done.  Its
\* text is staged under its tag; with nothing typed nothing is.
FieldDone ==
  {[pending |-> pending, staged |-> staged]} \cup
  {[pending |-> pending \cup {Entry(f, staged + 1)}, staged |-> staged + 1] :
     f \in {x \in typing : staged < MaxStaged}}

Carried(p) == {[id |-> x.id, ns |-> x.ns, on |-> x.on] : x \in p}

(***************************************************************************)
(* Edges.                                                                  *)
(***************************************************************************)
\* _duplicate_edge: the same action was already recorded between the two.
Duplicate(es, u, v, a) ==
  \E e \in DOMAIN es : e[1] = u /\ e[2] = v /\ es[e].action = a

HasScroll(es, u, v) ==
  \E e \in DOMAIN es : e[1] = u /\ e[2] = v /\ es[e].class = "scroll"

EdgeData(u, v, a, class, pre, unsure) ==
  [action |-> a, class |-> class, pre |-> pre, needs_confirmation |-> unsure,
   at |-> committed + 1, from |-> CoarseOf(u), to |-> CoarseOf(v)]

\* add_transition, on the graph g that the renames of this step left.
Adds(g, prov, u, v, data) ==
  LET e == <<u, v, NewKey(g.edges, u, v)>>
  IN  /\ committed < MaxCommits
      /\ edges' = WithEdge(g.edges, e, data)
      /\ order' = Append(g.order, e)
      /\ provisional' = IF data.needs_confirmation THEN Append(prov, e) ELSE prov
      /\ committed' = committed + 1

KeepsTrace(g, prov) ==
  /\ edges' = g.edges /\ order' = g.order /\ provisional' = prov
  /\ UNCHANGED committed

(***************************************************************************)
(* commit_transition, part (1): the launch anchor goes on the first        *)
(* interactive app screen out of the launcher; a splash defers it.  The    *)
(* screen's own action, if it has one, is kept.                            *)
(***************************************************************************)
Launches(source, id, fa) ==
  LET inFlight == launching /\ ~OnLauncher(id)
      reached  == (OnLauncher(source) \/ inFlight) /\ ~OnLauncher(id)
      anchor   == [kind |-> "am_start", verified_fp |-> id,
                   provenance |-> IF inFlight THEN "self_routing" ELSE "launcher_entry"]
  IN  \/ ~reached /\ launching' = inFlight /\ force' = fa
      \/ reached /\ launching' = TRUE /\ force' = fa
      \/ /\ reached /\ launching' = FALSE
         /\ force' = [fa EXCEPT ![id] = IF @ = NoForce THEN anchor ELSE @]

(***************************************************************************)
(* Part (2b): did the action stay on the same logical screen?  A swipe     *)
(* also does when it scrolled a region across two ids of one namespace,    *)
(* and a click does not when the region's content changed under it.        *)
(***************************************************************************)
SameCoarse(source, id) ==
  LET logical(n) == IF screens'[n].coarse # Gate!NoScreen THEN screens'[n].coarse ELSE n
  IN  logical(source) = logical(id)

Steady(source, id) == ~Volatile(source) /\ ~Volatile(id)

MayStay(type, source, id) ==
  /\ Steady(source, id)
  /\ IF type = "swipe" THEN SameCoarse(source, id) \/ NsOf(source) = NsOf(id)
     ELSE source = id

MayMove(type, source, id) ==
  type = "swipe" /\ Steady(source, id) => ~SameCoarse(source, id)

\* What the edge may say of itself: sure only out of a settled screen, by a
\* click that left it, and then only if the tap was bound with confidence.
Certainty(type, source, id) ==
  IF Volatile(source) \/ (type = "click" /\ MayStay(type, source, id))
  THEN {TRUE} ELSE BOOLEAN

(***************************************************************************)
(* The ways out of one commit, (2a), (2b) and (3); g and prov are the      *)
(* trace and the provisional ids, k the pending entries and their count,   *)
(* after the renames of this step.                                         *)
(***************************************************************************)
\* (2a): the tapped checkable is found again, flipped.
Flip(g, prov, k, source) ==
  /\ k.staged < MaxStaged
  /\ pending' = k.pending \cup {Entry(Field(source, TRUE), k.staged + 1)}
  /\ staged' = k.staged + 1
  /\ current' = source
  /\ KeepsTrace(g, prov)
  /\ UNCHANGED discarded

\* (2b): no state change, no edge.
Probe(g, prov, k, id) ==
  /\ pending' = k.pending
  /\ staged' = k.staged
  /\ current' = id
  /\ KeepsTrace(g, prov)
  /\ UNCHANGED discarded

\* (2b): a region-advancing swipe that forked the id leaves one scroll edge
\* behind, which carries no pre-action.
Scroll(g, prov, k, source, id) ==
  /\ id # source
  /\ pending' = k.pending
  /\ staged' = k.staged
  /\ current' = id
  /\ IF HasScroll(g.edges, source, id) THEN KeepsTrace(g, prov)
     ELSE Adds(g, prov, source, id, EdgeData(source, id, "swipe", "scroll", {}, FALSE))
  /\ UNCHANGED discarded

\* (3): the edge, with the pre-actions staged on its source; a repeated bare
\* action is not recorded twice (one of the same type may be another action,
\* on another element).
Commit(g, prov, k, source, id, type, unsure) ==
  LET pre == Carried(Mine(k.pending, source))
  IN  /\ pending' = Rest(k.pending, source)
      /\ staged' = k.staged
      /\ current' = id
      /\ \/ Adds(g, prov, source, id, EdgeData(source, id, type, type, pre, unsure))
         \/ pre = {} /\ Duplicate(g.edges, source, id, type) /\ KeepsTrace(g, prov)
      /\ UNCHANGED discarded

Outcomes(g, prov, k, source, id, type) ==
  \/ type = "click" /\ Flip(g, prov, k, source)
  \/ MayStay(type, source, id) /\ Probe(g, prov, k, id)
  \/ type = "swipe" /\ MayStay(type, source, id) /\ Scroll(g, prov, k, source, id)
  \/ /\ MayMove(type, source, id)
     /\ \E unsure \in Certainty(type, source, id) :
          Commit(g, prov, k, source, id, type, unsure)

\* A field may gain focus while a screen settles, and its tag is renamed too.
FocusedMeanwhile(r) == {{}} \cup {{f} : f \in Retagged(r, Fields(FALSE))}

\* record_gesture or ingest: the field in flight is done, the screen after is
\* entered, every holder of a renamed id repaired, the action committed.
Gesture(o, type) ==
  /\ ~raised /\ current # Gate!NoScreen
  /\ Enters(o)
  /\ \E done \in FieldDone, ms \in RenameOrders(Renames(o)) :
       LET r      == Renames(o)
           g      == RedirectAll(edges, order, ms, r)
           source == Gate!Renamed(r, current)
           k      == [done EXCEPT !.pending = Retagged(r, @)]
       IN  /\ Launches(source, Target(o), ForceAfter(ms, r, Target(o)))
           /\ Outcomes(g, Trace(g.remap, provisional), k, source, Target(o), type)
  /\ typing' \in FocusedMeanwhile(Renames(o))
  /\ UNCHANGED settledBy

\* The gate's rekey raises: the session is over.
Raises(o) ==
  /\ ~raised
  /\ o.settled /\ Gate!Clashes(o.c, o.d)
  /\ raised' = TRUE
  /\ \E done \in FieldDone : pending' = done.pending /\ staged' = done.staged
  /\ typing' = {}
  /\ UNCHANGED <<screens, exhausted, current, traceVars, discarded, launchVars>>

\* start(), and resume() after a pause (which ended the field in flight):
\* observe, repair, stand there.
Anchors(o) ==
  /\ ~raised
  /\ current = Gate!NoScreen \/ "resume" \in Edits
  /\ Enters(o)
  /\ current' = Target(o)
  /\ \E done \in FieldDone, ms \in RenameOrders(Renames(o)) :
       LET r == Renames(o)
           g == RedirectAll(edges, order, ms, r)
       IN  /\ KeepsTrace(g, Trace(g.remap, provisional))
           /\ pending' = Retagged(r, done.pending)
           /\ staged' = done.staged
           /\ force' = ForceAfter(ms, r, Target(o))
  /\ typing' \in FocusedMeanwhile(Renames(o))
  /\ UNCHANGED <<settledBy, discarded, launching>>

\* One cycle of the refresher (_track_text): the field in flight, if any, is
\* done, and another may gain focus.
TrackText ==
  /\ ~raised /\ current # Gate!NoScreen
  /\ \E done \in FieldDone : pending' = done.pending /\ staged' = done.staged
  /\ typing' \in {{}} \cup {{f} : f \in Fields(TRUE)}
  /\ UNCHANGED <<gateVars, traceVars, discarded, launchVars>>

\* Mutant: the reconcile path takes the coarse id, whatever was refined.
LiveCoarse(c, d) == Gate!Fid(c)

\* What the live frame is looked up as.
Live(c, d) == Gate!LookupId(c, d)

\* The reconcile path: the live screen is structurally another one, so the
\* session follows it without an edge and drops what was staged elsewhere.
Reconcile(c, d) ==
  LET id == Live(c, d)
  IN  /\ ~raised /\ current # Gate!NoScreen
      /\ c # CoarseOf(current)
      /\ id \notin {Gate!NoScreen, current}
      /\ Gate!MintPlain(id)
      /\ current' = id
      /\ \E done \in FieldDone :
           /\ pending' = {x \in done.pending : x.screen = id}
           /\ staged' = done.staged
           /\ discarded' = discarded \cup Ids(done.pending \ pending')
      /\ typing' = {}
      /\ force' = [n \in nodes \cup {id} |-> IF n \in nodes THEN force[n] ELSE NoForce]
      /\ launching' = (launching /\ ~OnLauncher(id))
      /\ UNCHANGED <<exhausted, raised, traceVars>>

(***************************************************************************)
(* The human's edits.                                                      *)
(***************************************************************************)
CarriedIds(e) == {p.id : p \in edges[e].pre}

Dropped(e) == RemoveFirst(provisional, e)

ConfirmEdge(e) ==
  /\ ~raised /\ "confirm" \in Edits
  /\ e \in ToSet(provisional)
  /\ provisional' = Dropped(e)
  /\ settledBy' = settledBy \cup {edges[f].at : f \in {e} \cap DOMAIN edges}
  /\ UNCHANGED <<gateVars, edges, order, committed, stagingVars, launchVars>>

\* The edge leaves the graph; _edge_order is not touched.
RejectEdge(e) ==
  /\ ~raised /\ "reject" \in Edits
  /\ provisional' = Dropped(e)
  /\ edges' = Without(edges, {e})
  /\ settledBy' = settledBy \cup {edges[f].at : f \in {e} \cap DOMAIN edges}
  /\ discarded' = discarded \cup UNION {CarriedIds(f) : f \in {e} \cap DOMAIN edges}
  /\ UNCHANGED <<gateVars, order, committed, pending, typing, staged, launchVars>>

CorrectEdge(e) ==
  /\ ~raised /\ "correct" \in Edits
  /\ e \in DOMAIN edges
  /\ edges' = [edges EXCEPT ![e].action = "corrected"]
  /\ provisional' = Dropped(e)
  /\ settledBy' = settledBy \cup {edges[e].at}
  /\ UNCHANGED <<gateVars, order, committed, stagingVars, launchVars>>

\* mark_same on two twins of a family: the whole family is coarsened and every
\* holder of a member's id is repaired.
MarkTwins(c) ==
  LET r == [n \in Gate!Family(c) |-> Gate!Fid(c)]
  IN  /\ ~raised /\ "twins" \in Merges
      /\ Cardinality(Gate!Family(c)) >= 2
      /\ IF Gate!Fid(c) \in nodes
         THEN /\ raised' = TRUE
              /\ UNCHANGED <<screens, exhausted, current, traceVars, stagingVars, launchVars>>
         ELSE /\ screens' = [n \in (nodes \ DOMAIN r) \cup {Gate!Fid(c)} |->
                               IF n \in nodes THEN screens[n]
                               ELSE [digest |-> NoDigest, coarse |-> Gate!NoScreen]]
              /\ exhausted' = exhausted \cup {c}
              /\ current' = Gate!Renamed(r, current)
              /\ pending' = Retagged(r, pending)
              /\ typing' = Retagged(r, typing)
              /\ \E ms \in RenameOrders(r) :
                   LET g == RedirectAll(edges, order, ms, r)
                   IN  /\ KeepsTrace(g, Trace(g.remap, provisional))
                       /\ force' = ForceAfter(ms, r, Gate!Fid(c))
              /\ UNCHANGED <<raised, settledBy, staged, discarded, launching>>

\* mark_same on other screens: the merge's remap is not used, and only
\* current_id is repaired.
MarkPlain(keep, dup) ==
  /\ ~raised /\ "plain" \in Merges
  /\ keep # dup
  /\ screens[keep].coarse = Gate!NoScreen \/ screens[keep].coarse # screens[dup].coarse
  /\ screens' = [n \in nodes \ {dup} |-> screens[n]]
  /\ current' = IF current = dup THEN keep ELSE current
  /\ LET g == RedirectAll(edges, order, <<dup>>, [n \in {dup} |-> keep])
     IN  edges' = g.edges /\ order' = g.order
  /\ force' = [n \in nodes \ {dup} |-> force[n]]
  /\ UNCHANGED <<exhausted, raised, provisional, committed, settledBy, stagingVars, launching>>

-----------------------------------------------------------------------------
Init ==
  /\ screens = [n \in {} |-> NoForce]
  /\ exhausted = {} /\ current = Gate!NoScreen /\ raised = FALSE
  /\ edges = [e \in {} |-> NoForce]
  /\ order = <<>> /\ provisional = <<>> /\ pending = {} /\ typing = {}
  /\ launching = FALSE
  /\ force = [n \in {} |-> NoForce]
  /\ settledBy = {} /\ discarded = {} /\ committed = 0 /\ staged = 0

HumanEdit ==
  \/ \E e \in ToSet(provisional) : ConfirmEdge(e)
  \/ \E e \in DOMAIN edges : RejectEdge(e) \/ CorrectEdge(e)
  \/ \E c \in Coarse : MarkTwins(c)
  \/ \E keep, dup \in nodes : MarkPlain(keep, dup)

Next ==
  \/ \E o \in Observation :
        \/ \E type \in Gestures : Gesture(o, type)
        \/ Anchors(o)
        \/ Raises(o)
  \/ \E c \in Coarse : \E d \in Shows(c) : Reconcile(c, d)
  \/ TrackText
  \/ HumanEdit

Spec == Init /\ [][Next]_vars

-----------------------------------------------------------------------------
(***************************************************************************)
(* Properties.                                                             *)
(***************************************************************************)
\* The trace replay re-enacts lists every edge of the graph once, in the order
\* the transitions were committed, whatever was split, coarsened, merged or
\* edited in between: a renamed edge keeps its chronological slot although it
\* was added again under a fresh key.
TraceFaithful ==
  /\ ToSet(order) = DOMAIN edges
  /\ \A i, j \in DOMAIN order : i < j => edges[order[i]].at < edges[order[j]].at

\* No rename loses a committed transition.
CommitsKept == {edges[e].at : e \in DOMAIN edges} \cup settledBy = 1 .. committed

\* Every edge still joins the screens it was recorded between, though their
\* ids changed.
EndpointsFaithful ==
  \A e \in DOMAIN edges :
    /\ {e[1], e[2]} \subseteq nodes
    /\ CoarseOf(e[1]) = edges[e].from /\ CoarseOf(e[2]) = edges[e].to

\* The human is asked about exactly the uncertain edges not yet answered, and
\* each provisional id names the live edge it was minted for.
ProvisionalExact ==
  /\ ToSet(provisional) \subseteq DOMAIN edges
  /\ {edges[e].at : e \in ToSet(provisional)} =
       {edges[e].at : e \in {f \in DOMAIN edges : edges[f].needs_confirmation}} \ settledBy

\* Every staged pre-action is, once and only once, still staged, or riding one
\* edge, or dropped with a marker.
StagedOnce ==
  LET riding(i) == {e \in DOMAIN edges : i \in CarriedIds(e)}
      waiting(i) == {p \in pending : p.id = i}
  IN  \A i \in 1 .. staged :
        Cardinality(riding(i)) + Cardinality(waiting(i)) + (IF i \in discarded THEN 1 ELSE 0) = 1

\* And text whose field gained focus while the recorder stood at rest on a
\* screen of its app is left behind by no later edge out of that screen, though
\* the screen was renamed between the focus and the submit, the text staged
\* only by the submit's own tap, and other fields gained focus meanwhile.
SubmitCarriesAll ==
  \A p \in pending, e \in DOMAIN edges :
    p.here /\ edges[e].from = p.on /\ edges[e].class # "scroll" => edges[e].at <= p.after

\* A launch anchor pins the screen it is on, after any rename (verified_fp is
\* the flow's start id).
AnchorsPinned ==
  \A n \in nodes : force[n].kind # "none" => force[n].verified_fp = n

\* The builder implements the identity gate's specification.
GateSpec == Gate!Spec
=============================================================================
