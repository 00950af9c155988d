---------------------------- MODULE TwinIdentity ----------------------------
(***************************************************************************)
(* The screen-identity gate of the recorder (wendle/record/identity.py)    *)
(* and the two holders of node ids that must follow its renames: the       *)
(* current screen and the tags of typing, staged or still in a field       *)
(* (wendle/record/builder.py and session.py).                              *)
(*                                                                         *)
(* A screen is observed as a coarse fingerprint c and a chrome digest d    *)
(* (NoDigest when the dump shows no stable chrome).  Hashes are abstract:  *)
(* the coarse id, the refined-twin id and the volatile id of an            *)
(* observation are distinct values built from c and d, as sha1 makes them. *)
(***************************************************************************)
EXTENDS Naturals, FiniteSets

CONSTANTS
  Coarse,       \* the coarse fingerprints screens of this device have
  Launchers,    \* those of them that belong to a launcher namespace
  Digest,       \* the chrome digests
  NoDigest,     \* "this dump has no stable chrome" (None)
  FamilyMax,    \* FAMILY_MAX
  Observable,   \* the digests, NoDigest perhaps among them, dumps show
  Merges,       \* which human merges this session makes: "twins", "plain"
  Namespace(_)  \* the package/activity a coarse fingerprint belongs to

ASSUME NoDigestAssumption  == NoDigest \notin Digest
ASSUME FamilyMaxAssumption == FamilyMax \in Nat /\ FamilyMax >= 2
ASSUME ObservableAssumption == Observable \subseteq Digest \cup {NoDigest}
ASSUME MergesAssumption == Merges \subseteq {"twins", "plain"}
ASSUME LaunchersAssumption == Launchers \subseteq Coarse

VARIABLES
  screens,      \* node id -> [digest, coarse]: the graph's nodes
  exhausted,    \* coarse ids whose family was abandoned (_twin_exhausted)
  current,      \* current_id, or NoScreen before begin()
  tags,         \* the ids that typing is tagged with: what is staged, and the
                \* fields in flight
  raised        \* rekey_screen raised: the recording has crashed

vars == <<screens, exhausted, current, tags, raised>>

(***************************************************************************)
(* Node ids.                                                               *)
(***************************************************************************)
Fid(c)    == <<"F", c, NoDigest>>
Tid(c, d) == <<"T", c, d>>
Vid(c)    == <<"V", c, NoDigest>>
NoScreen  == <<"none", NoDigest, NoDigest>>

CoarseIds == {Fid(c) : c \in Coarse}
NodeId == CoarseIds \cup {Tid(c, d) : c \in Coarse, d \in Digest}
                    \cup {Vid(c) : c \in Coarse}

Screen == [digest : Digest \cup {NoDigest}, coarse : CoarseIds \cup {NoScreen}]

nodes == DOMAIN screens

Family(c) == {n \in nodes : screens[n].coarse = Fid(c)}

(***************************************************************************)
(* The gate's decision for a settled capture of (c, d).                    *)
(***************************************************************************)
\* Mutant: the blacklist is not consulted.
RefinableAgain(c) == c \notin Launchers

Refinable(c) == c \notin Launchers /\ c \notin exhausted

\* Mutant: a coarse node that has shown no chrome yet collides too.
CollidesBlank(c, d) ==
  Refinable(c) /\ Fid(c) \in nodes /\ d \notin {NoDigest, screens[Fid(c)].digest}

\* 4c: the coarse node exists and shows another stable chrome.
Collides(c, d) ==
  /\ Refinable(c)
  /\ Fid(c) \in nodes
  /\ screens[Fid(c)].digest # NoDigest
  /\ d \notin {NoDigest, screens[Fid(c)].digest}

OldTwin(c) == Tid(c, screens[Fid(c)].digest)

\* 5: only refined members exist.
InFamily(c) == Refinable(c) /\ Fid(c) \notin nodes /\ Family(c) # {}

\* Mutant: the cap is compared with > instead of >=.
OverflowsLate(c, d) ==
  InFamily(c) /\ d # NoDigest /\ Tid(c, d) \notin nodes /\ Cardinality(Family(c)) > FamilyMax

Overflows(c, d) ==
  /\ InFamily(c)
  /\ d # NoDigest
  /\ Tid(c, d) \notin nodes
  /\ Cardinality(Family(c)) >= FamilyMax

IsTwin(c, d) ==
  \/ Collides(c, d)
  \/ InFamily(c) /\ d # NoDigest /\ ~Overflows(c, d)

ResolvedId(c, d) == IF IsTwin(c, d) THEN Tid(c, d) ELSE Fid(c)

\* node_remap: the existing nodes this decision renames.
Renaming(c, d) ==
  IF Collides(c, d) THEN [n \in {Fid(c)} |-> OldTwin(c)]
  ELSE IF Overflows(c, d) THEN [n \in Family(c) |-> Fid(c)]
  ELSE [n \in {} |-> NoScreen]

Renamed(r, n) == IF n \in DOMAIN r THEN r[n] ELSE n

\* rekey_screen refuses a target that is already a node.
Clashes(c, d) == Collides(c, d) /\ OldTwin(c) \in nodes

\* Mutant: enter() mints a twin without its coarse id.
CarriersUnmarked(c, d) ==
  [digest |-> IF Refinable(c) THEN d ELSE NoDigest, coarse |-> NoScreen]

(***************************************************************************)
(* The screen record a node carries after the gate ran and enter() minted  *)
(* or revisited the resolved id: a new node takes the decision's carriers, *)
(* an existing node keeps its own, except that a split stamps the old node *)
(* with its coarse id, a coarsening clears both fields, and the first      *)
(* stable chrome is backfilled into a coarse node that had none.           *)
(***************************************************************************)
Carriers(c, d) ==
  IF IsTwin(c, d) THEN [digest |-> d, coarse |-> Fid(c)]
  ELSE [digest |-> IF Refinable(c) /\ ~InFamily(c) THEN d ELSE NoDigest,
        coarse |-> NoScreen]

Backfills(c, d) ==
  Refinable(c) /\ Fid(c) \in nodes /\ screens[Fid(c)].digest = NoDigest

ScreensAfter(c, d) ==
  [n \in {Renamed(Renaming(c, d), m) : m \in nodes} \cup {ResolvedId(c, d)} |->
     IF Collides(c, d) /\ n = OldTwin(c)
     THEN [digest |-> screens[Fid(c)].digest, coarse |-> Fid(c)]
     ELSE IF Overflows(c, d) /\ n = Fid(c)
     THEN [digest |-> NoDigest, coarse |-> NoScreen]
     ELSE IF Backfills(c, d) /\ n = Fid(c)
     THEN [digest |-> d, coarse |-> screens[n].coarse]
     ELSE IF n \in nodes THEN screens[n] ELSE Carriers(c, d)]

(***************************************************************************)
(* Tags of typing.  A field is tagged when it gains focus: with the screen *)
(* the recorder stands on if that is of the field's namespace, and with    *)
(* the raw coarse id of the refresher's dump if not, which may be the id   *)
(* of no node.                                                             *)
(***************************************************************************)
FocusTags ==
  IF current = NoScreen THEN {}
  ELSE {current} \cup {Fid(c) : c \in {x \in Coarse : Namespace(x) # Namespace(current[2])}}

\* What an observation that renames by r may leave of the tags: fields gain
\* focus while it settles, and the commit that follows drains or drops tags
\* (which ones is GraphBuilder's).
TagsLeft(r) == SUBSET {Renamed(r, n) : n \in tags \cup FocusTags}

-----------------------------------------------------------------------------
Init ==
  /\ screens = [n \in {} |-> NoScreen]
  /\ exhausted = {}
  /\ current = NoScreen
  /\ tags = {}
  /\ raised = FALSE

\* Mutant: a family that overflows is coarsened and not blacklisted.
ObserveForgetsBlacklist(c, d) ==
  /\ ~raised /\ ~Clashes(c, d)
  /\ screens' = ScreensAfter(c, d)
  /\ current' = ResolvedId(c, d)
  /\ tags' \in TagsLeft(Renaming(c, d))
  /\ UNCHANGED <<exhausted, raised>>

\* enter() on a settled dump, then the repair of every holder of a renamed id.
ObserveSettled(c, d) ==
  /\ ~raised
  /\ ~Clashes(c, d)
  /\ current' = ResolvedId(c, d)
  /\ screens' = ScreensAfter(c, d)
  /\ exhausted' = IF Overflows(c, d) THEN exhausted \cup {c} ELSE exhausted
  /\ tags' \in TagsLeft(Renaming(c, d))
  /\ UNCHANGED raised

\* Mutant: the flip stages under the id its screen had before the settle.
FlipStale(c, d) ==
  /\ ~raised /\ current # NoScreen /\ ~Clashes(c, d)
  /\ screens' = ScreensAfter(c, d)
  /\ exhausted' = IF Overflows(c, d) THEN exhausted \cup {c} ELSE exhausted
  /\ \E left \in TagsLeft(Renaming(c, d)) : tags' = left \cup {current}
  /\ UNCHANGED <<current, raised>>

\* A flip on a same-screen checkbox stages a tag and leaves current_id alone.
FlipSettled(c, d) ==
  /\ ~raised
  /\ current # NoScreen
  /\ ~Clashes(c, d)
  /\ current' = Renamed(Renaming(c, d), current)
  /\ screens' = ScreensAfter(c, d)
  /\ exhausted' = IF Overflows(c, d) THEN exhausted \cup {c} ELSE exhausted
  /\ \E left \in TagsLeft(Renaming(c, d)) : tags' = left \cup {current'}
  /\ UNCHANGED raised

ObserveRaises(c, d) ==
  /\ ~raised
  /\ Clashes(c, d)
  /\ raised' = TRUE
  /\ tags' \in SUBSET tags
  /\ UNCHANGED <<screens, exhausted, current>>

\* A dump that never settles is identified by structure and never refined.
MintPlain(id) ==
  screens' = [n \in nodes \cup {id} |->
                IF n \in nodes THEN screens[n]
                ELSE [digest |-> NoDigest, coarse |-> NoScreen]]

ObserveUnsettled(c) ==
  /\ ~raised
  /\ MintPlain(Vid(c))
  /\ current' = Vid(c)
  /\ tags' \in TagsLeft([n \in {} |-> NoScreen])
  /\ UNCHANGED <<exhausted, raised>>

FlipUnsettled(c) ==
  /\ ~raised
  /\ current # NoScreen
  /\ MintPlain(Vid(c))
  /\ \E left \in TagsLeft([n \in {} |-> NoScreen]) : tags' = left \cup {current}
  /\ UNCHANGED <<exhausted, current, raised>>

\* Mutant: a family whose members do not match is given its coarse id.
LookupResurrects(c, d) ==
  IF c \notin Launchers /\ Fid(c) \notin nodes /\ d # NoDigest /\ Tid(c, d) \in nodes
  THEN Tid(c, d) ELSE Fid(c)

\* Mutant: the lookup knows nothing of refined twins.
LookupUnrefined(c, d) ==
  IF Fid(c) \notin nodes /\ Family(c) # {} THEN NoScreen ELSE Fid(c)

\* lookup_identity: read-only; NoScreen means "do not mint".
LookupId(c, d) ==
  CASE c \in Launchers \/ Fid(c) \in nodes -> Fid(c)
    [] c \notin Launchers /\ Fid(c) \notin nodes
         /\ d # NoDigest /\ Tid(c, d) \in nodes -> Tid(c, d)
    [] OTHER -> IF Family(c) # {} THEN NoScreen ELSE Fid(c)

\* The reconcile path: an unrecorded navigation is followed, staged typing of
\* other screens is dropped, and a node is minted only for a new family.
Reconcile(c, d) ==
  /\ ~raised
  /\ current # NoScreen
  /\ LookupId(c, d) \notin {NoScreen, current}
  /\ MintPlain(LookupId(c, d))
  /\ current' = LookupId(c, d)
  /\ tags' \in SUBSET (tags \cap {LookupId(c, d)})
  /\ UNCHANGED <<exhausted, raised>>

\* One cycle of the refresher: the field in flight may be done, with nothing
\* typed into it (the tag of staged text stays), and another gain focus.
TrackText ==
  /\ ~raised
  /\ \E gone \in {{}} \cup {{t} : t \in tags}, new \in {{}} \cup {{t} : t \in FocusTags} :
       tags' = (tags \ gone) \cup new
  /\ UNCHANGED <<screens, exhausted, current, raised>>

(***************************************************************************)
(* mark_same(keep, dup): a human says that two ids are one screen.         *)
(***************************************************************************)
MergeTwins(c) ==
  /\ ~raised
  /\ "twins" \in Merges
  /\ Cardinality(Family(c)) >= 2
  /\ IF Fid(c) \in nodes
     THEN raised' = TRUE /\ UNCHANGED <<screens, exhausted, current, tags>>
     ELSE LET r == [n \in Family(c) |-> Fid(c)]
          IN /\ screens' = [n \in (nodes \ Family(c)) \cup {Fid(c)} |->
                              IF n \in nodes THEN screens[n]
                              ELSE [digest |-> NoDigest, coarse |-> NoScreen]]
             /\ exhausted' = exhausted \cup {c}
             /\ current' = Renamed(r, current)
             /\ tags' = {Renamed(r, n) : n \in tags}
             /\ UNCHANGED raised

\* Mutant: the merge leaves the recorder on the duplicate's id.
MergeKeepsCurrent(keep, dup) ==
  /\ ~raised /\ "plain" \in Merges
  /\ keep # dup
  /\ screens[keep].coarse = NoScreen \/ screens[keep].coarse # screens[dup].coarse
  /\ screens' = [n \in nodes \ {dup} |-> screens[n]]
  /\ UNCHANGED <<exhausted, current, tags, raised>>

\* Not twins of one family: only current_id is repaired.
MergePlain(keep, dup) ==
  /\ ~raised
  /\ "plain" \in Merges
  /\ keep # dup
  /\ \/ screens[keep].coarse = NoScreen
     \/ screens[keep].coarse # screens[dup].coarse
  /\ screens' = [n \in nodes \ {dup} |-> screens[n]]
  /\ current' = IF current = dup THEN keep ELSE current
  /\ UNCHANGED <<exhausted, tags, raised>>

Next ==
  \/ \E c \in Coarse, d \in Observable :
        \/ ObserveSettled(c, d)
        \/ FlipSettled(c, d)
        \/ ObserveRaises(c, d)
        \/ Reconcile(c, d)
  \/ \E c \in Coarse : ObserveUnsettled(c) \/ FlipUnsettled(c) \/ MergeTwins(c)
  \/ \E keep, dup \in nodes : MergePlain(keep, dup)
  \/ TrackText

Spec == Init /\ [][Next]_vars

-----------------------------------------------------------------------------
(***************************************************************************)
(* Properties.                                                             *)
(***************************************************************************)
\* Type correctness of the gate's state.
TypeOK ==
  /\ nodes \subseteq NodeId
  /\ screens \in [nodes -> Screen]
  /\ exhausted \subseteq Coarse
  /\ current \in NodeId \cup {NoScreen}
  /\ tags \subseteq NodeId
  /\ raised \in BOOLEAN

\* A coarse node never stands beside refined twins of its own family: one
\* screen would then have two ids (the identity fork lookup_identity and
\* resolve_identity promise never to create).
NoForkedFamily == \A c \in Coarse : Fid(c) \in nodes => Family(c) = {}

\* No observation or merge makes rekey_screen raise, which would end the
\* recording in the middle of a walk.
GateNeverRaises == ~raised

\* A node marked as a refined twin is found again at its own id by a reader
\* that has only its coarse id and its digest (refined_id is recomputable),
\* and no other node carries twin marks, whatever was split or merged since.
TwinsRecomputable ==
  \A n \in nodes :
    \A c \in Coarse :
      /\ screens[n].coarse = Fid(c) <=> \E d \in Digest : n = Tid(c, d)
      /\ screens[n].coarse = Fid(c) => n = Tid(c, screens[n].digest)

\* Runaway chrome churn is bounded: no family outgrows FAMILY_MAX.
FamilyBounded == \A c \in Coarse : Cardinality(Family(c)) <= FamilyMax

\* An abandoned family stays abandoned: no later visit, settled or not, and no
\* reconcile brings a refined twin of it back.
ExhaustedStaysCoarse == \A c \in exhausted : Family(c) = {}

\* No split, coarsening, reconcile or merge leaves the recorder standing on an
\* id that is no longer a node (the split-while-source crash).
CurrentIsNode == current = NoScreen \/ current \in nodes

\* Nor does a split, a coarsening or a merge of twins leave typing behind under
\* an id it took away: a tag that named a node names one after the step, though
\* the field was in flight or only gained focus while the screen settled.  (A
\* raw tag that never named a node is of no rename's making.)
TagsFollow == [][tags' \cap nodes \subseteq nodes']_vars

\* Refinement goes one way: once twins of a family were told apart, they are
\* merged again only by abandoning the family, never silently.
NoSilentRemerge ==
  [][\A c \in Coarse : Family(c) # {} => (Family(c)' # {} \/ c \in exhausted')]_vars

\* The read-only lookup of the refresher agrees with the gate: whenever a
\* settled visit would find an existing node without renaming anything, a live
\* dump of the same screen is attributed to that same node.
LookupAgreesWithGate ==
  \A c \in Coarse, d \in Observable :
    ResolvedId(c, d) \in nodes /\ DOMAIN Renaming(c, d) = {}
      => LookupId(c, d) = ResolvedId(c, d)
=============================================================================
