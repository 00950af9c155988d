------------------------- MODULE TwinIdentityProofs -------------------------
(***************************************************************************)
(* TLAPS proofs about the identity gate, for every set of fingerprints and *)
(* digests and every FAMILY_MAX.                                           *)
(*                                                                         *)
(* Shape of the argument: a step either splits one coarse node, or         *)
(* coarsens one family, or only adds a node, or removes one (a plain human *)
(* merge).  Each of the four kinds is a lemma about the node map alone     *)
(* (SplitGraph, CoarsenGraph, MintGraph, DropGraph); the step lemmas then  *)
(* say which kind every action is.                                         *)
(***************************************************************************)
EXTENDS TwinIdentity, TLAPS, FiniteSetTheorems

USE NoDigestAssumption, ObservableAssumption, LaunchersAssumption

(***************************************************************************)
(* The part of the invariant that only speaks of the node map, as an       *)
(* operator of the node map so that it can be read before and after a step.*)
(***************************************************************************)
GraphOK(s) ==
  /\ DOMAIN s \subseteq NodeId
  /\ s \in [DOMAIN s -> Screen]
  /\ \A n \in DOMAIN s : \A c \in Coarse :
       /\ s[n].coarse = Fid(c) <=> \E d \in Digest : n = Tid(c, d)
       /\ s[n].coarse = Fid(c) => n = Tid(c, s[n].digest)

\* Neither an abandoned family nor a launcher ever has a twin.
StaysCoarse(s, e) == \A c \in e \cup Launchers : \A n \in DOMAIN s : s[n].coarse # Fid(c)

\* The ids an observation builds are distinct, as their hashes are.
LEMMA IdsDistinct ==
  /\ \A c1, c2 : Fid(c1) = Fid(c2) => c1 = c2
  /\ \A c1, c2, d1, d2 : Tid(c1, d1) = Tid(c2, d2) => c1 = c2 /\ d1 = d2
  /\ \A c1, c2, d : Fid(c1) # Tid(c2, d)
  /\ \A c1, c2 : Fid(c1) # Vid(c2)
  /\ \A c1, c2, d : Tid(c1, d) # Vid(c2)
  /\ \A c : Fid(c) # NoScreen /\ Vid(c) # NoScreen
  /\ \A c, d : Tid(c, d) # NoScreen
BY DEF Fid, Tid, Vid, NoScreen

\* Which ids are node ids.
LEMMA IdsAreNodeIds ==
  /\ \A c \in Coarse : Fid(c) \in NodeId /\ Vid(c) \in NodeId /\ Fid(c) \in CoarseIds
  /\ \A c \in Coarse, d \in Digest : Tid(c, d) \in NodeId
BY DEF NodeId, CoarseIds

\* A step that adds one node carrying the marks its id calls for keeps the
\* node map well formed.
LEMMA MintGraph ==
  ASSUME NEW s, NEW t, NEW id \in NodeId, GraphOK(s),
         t \in [DOMAIN s \cup {id} -> Screen],
         \A n \in DOMAIN s : t[n].coarse = s[n].coarse /\
              (t[n].digest = s[n].digest \/ s[n].coarse = NoScreen),
         id \notin DOMAIN s =>
            \/ /\ \E c \in Coarse : id \in {Fid(c), Vid(c)}
               /\ t[id].coarse = NoScreen
            \/ \E c \in Coarse, d \in Digest :
                  id = Tid(c, d) /\ t[id].coarse = Fid(c) /\ t[id].digest = d
  PROVE  GraphOK(t)
<1>1. DOMAIN t = DOMAIN s \cup {id}
  OBVIOUS
<1>2. DOMAIN t \subseteq NodeId
  BY <1>1 DEF GraphOK
<1>3. ASSUME NEW n \in DOMAIN t, NEW c \in Coarse
      PROVE  /\ t[n].coarse = Fid(c) <=> \E d \in Digest : n = Tid(c, d)
             /\ t[n].coarse = Fid(c) => n = Tid(c, t[n].digest)
  <2>1. CASE n \in DOMAIN s
    BY <2>1, IdsDistinct DEF GraphOK
  <2>2. CASE n \notin DOMAIN s
    <3>1. n = id
      BY <1>1, <2>2
    <3> QED
      BY <2>2, <3>1, IdsDistinct
  <2> QED
    BY <2>1, <2>2
<1> QED
  BY <1>1, <1>2, <1>3 DEF GraphOK

\* A step that only removes nodes does too.
LEMMA DropGraph ==
  ASSUME NEW s, NEW t, GraphOK(s), DOMAIN t \subseteq DOMAIN s,
         t = [n \in DOMAIN t |-> s[n]]
  PROVE  GraphOK(t)
BY DEF GraphOK

\* Replacing every twin of one family by its coarse node does too.
LEMMA CoarsenGraph ==
  ASSUME NEW s, NEW t, NEW c \in Coarse, GraphOK(s),
         t = [n \in {m \in DOMAIN s : s[m].coarse # Fid(c)} \cup {Fid(c)} |->
                IF n = Fid(c) THEN [digest |-> NoDigest, coarse |-> NoScreen] ELSE s[n]]
  PROVE  GraphOK(t) /\ \A n \in DOMAIN t : t[n].coarse # Fid(c)
<1>1. DOMAIN t \subseteq NodeId
  BY IdsAreNodeIds DEF GraphOK
<1>2. t \in [DOMAIN t -> Screen]
  BY DEF GraphOK, Screen
<1>3. ASSUME NEW n \in DOMAIN t, NEW b \in Coarse
      PROVE  /\ t[n].coarse = Fid(b) <=> \E d \in Digest : n = Tid(b, d)
             /\ t[n].coarse = Fid(b) => n = Tid(b, t[n].digest)
  BY IdsDistinct DEF GraphOK
<1>4. \A n \in DOMAIN t : t[n].coarse # Fid(c)
  BY IdsDistinct
<1> QED
  BY <1>1, <1>2, <1>3, <1>4 DEF GraphOK

\* A split replaces the coarse node by its twin and adds the new one.
LEMMA SplitGraph ==
  ASSUME NEW s, NEW t, NEW c \in Coarse, NEW d \in Digest, GraphOK(s),
         Fid(c) \in DOMAIN s, s[Fid(c)].digest \in Digest,
         NEW old, old = Tid(c, s[Fid(c)].digest), old \notin DOMAIN s,
         t = [n \in (DOMAIN s \ {Fid(c)}) \cup {old, Tid(c, d)} |->
                IF n = old THEN [digest |-> s[Fid(c)].digest, coarse |-> Fid(c)]
                ELSE IF n \in DOMAIN s THEN s[n]
                ELSE [digest |-> d, coarse |-> Fid(c)]]
  PROVE  GraphOK(t)
<1>1. DOMAIN t \subseteq NodeId
  BY IdsAreNodeIds DEF GraphOK
<1>2. t \in [DOMAIN t -> Screen]
  BY IdsAreNodeIds DEF GraphOK, Screen
<1>3. ASSUME NEW n \in DOMAIN t, NEW b \in Coarse
      PROVE  /\ t[n].coarse = Fid(b) <=> \E e \in Digest : n = Tid(b, e)
             /\ t[n].coarse = Fid(b) => n = Tid(b, t[n].digest)
  <2>1. CASE n = old
    BY <2>1, IdsDistinct
  <2>2. CASE n # old /\ n \in DOMAIN s
    BY <2>2, IdsDistinct DEF GraphOK
  <2>3. CASE n # old /\ n \notin DOMAIN s
    BY <2>3, IdsDistinct
  <2> QED
    BY <2>1, <2>2, <2>3
<1> QED
  BY <1>1, <1>2, <1>3 DEF GraphOK

-----------------------------------------------------------------------------
(***************************************************************************)
(* The gate's decision, on a node map that is well formed.                 *)
(***************************************************************************)
ExhaustedAfter(c, d) == IF Overflows(c, d) THEN exhausted \cup {c} ELSE exhausted

\* Every id that was a node is renamed to a node, and the resolved id is one.
LEMMA RenamedAreNodes ==
  ASSUME NEW c, NEW d
  PROVE  /\ ResolvedId(c, d) \in DOMAIN ScreensAfter(c, d)
         /\ \A n \in nodes : Renamed(Renaming(c, d), n) \in DOMAIN ScreensAfter(c, d)
BY DEF ScreensAfter

\* The node map after a split.
LEMMA SplitForm ==
  ASSUME NEW c \in Coarse, NEW d \in Observable, Collides(c, d), GraphOK(screens)
  PROVE  /\ ~Overflows(c, d) /\ ~Backfills(c, d) /\ IsTwin(c, d)
         /\ Fid(c) \in DOMAIN screens /\ d \in Digest
         /\ c \notin exhausted \cup Launchers
         /\ screens[Fid(c)].digest \in Digest
         /\ OldTwin(c) = Tid(c, screens[Fid(c)].digest)
         /\ OldTwin(c) # Tid(c, d)
         /\ ScreensAfter(c, d) =
              [n \in (DOMAIN screens \ {Fid(c)}) \cup {OldTwin(c), Tid(c, d)} |->
                IF n = OldTwin(c)
                THEN [digest |-> screens[Fid(c)].digest, coarse |-> Fid(c)]
                ELSE IF n \in DOMAIN screens THEN screens[n]
                ELSE [digest |-> d, coarse |-> Fid(c)]]
<1>1. ~Overflows(c, d) /\ ~Backfills(c, d) /\ IsTwin(c, d)
  BY DEF Collides, Overflows, InFamily, Backfills, IsTwin
<1>2. Fid(c) \in DOMAIN screens /\ d \in Digest /\ c \notin exhausted \cup Launchers
  BY DEF Collides, nodes, Refinable
<1>3. screens[Fid(c)].digest \in Digest
  BY <1>2 DEF Collides, GraphOK, Screen
<1>4. OldTwin(c) = Tid(c, screens[Fid(c)].digest) /\ OldTwin(c) # Tid(c, d)
  BY IdsDistinct DEF OldTwin, Collides
<1>5. {Renamed(Renaming(c, d), m) : m \in nodes}
        = (DOMAIN screens \ {Fid(c)}) \cup {OldTwin(c)}
  BY <1>2 DEF Renamed, Renaming, nodes
<1>6. ResolvedId(c, d) = Tid(c, d) /\ Carriers(c, d) = [digest |-> d, coarse |-> Fid(c)]
  BY <1>1 DEF ResolvedId, Carriers
<1>7. ScreensAfter(c, d) =
        [n \in (DOMAIN screens \ {Fid(c)}) \cup {OldTwin(c), Tid(c, d)} |->
           IF n = OldTwin(c)
           THEN [digest |-> screens[Fid(c)].digest, coarse |-> Fid(c)]
           ELSE IF n \in DOMAIN screens THEN screens[n]
           ELSE [digest |-> d, coarse |-> Fid(c)]]
  BY <1>1, <1>5, <1>6 DEF ScreensAfter, nodes
<1> QED
  BY <1>1, <1>2, <1>3, <1>4, <1>7

\* The node map after a coarsening.
LEMMA CoarsenForm ==
  ASSUME NEW c \in Coarse, NEW d \in Observable, Overflows(c, d)
  PROVE  /\ c \notin exhausted \cup Launchers
         /\ ScreensAfter(c, d) =
              [n \in {m \in DOMAIN screens : screens[m].coarse # Fid(c)} \cup {Fid(c)} |->
                IF n = Fid(c) THEN [digest |-> NoDigest, coarse |-> NoScreen]
                ELSE screens[n]]
<1>1. ~Collides(c, d) /\ ~IsTwin(c, d) /\ ~Backfills(c, d)
  BY DEF Collides, Overflows, InFamily, Backfills, IsTwin
<1>2. Fid(c) \notin DOMAIN screens /\ Family(c) # {} /\ c \notin exhausted \cup Launchers
  BY DEF Overflows, InFamily, Refinable, nodes
<1>3. {Renamed(Renaming(c, d), m) : m \in nodes} \cup {ResolvedId(c, d)}
        = {m \in DOMAIN screens : screens[m].coarse # Fid(c)} \cup {Fid(c)}
  BY <1>1, <1>2 DEF Renamed, Renaming, nodes, Family, ResolvedId
<1>4. ScreensAfter(c, d) =
        [n \in {m \in DOMAIN screens : screens[m].coarse # Fid(c)} \cup {Fid(c)} |->
           IF n = Fid(c) THEN [digest |-> NoDigest, coarse |-> NoScreen]
           ELSE screens[n]]
  BY <1>1, <1>3 DEF ScreensAfter, nodes
<1> QED
  BY <1>2, <1>4

\* The node map after a visit that renames nothing.
LEMMA VisitForm ==
  ASSUME NEW c \in Coarse, NEW d \in Observable, ~Collides(c, d), ~Overflows(c, d),
         GraphOK(screens)
  PROVE  /\ ScreensAfter(c, d) =
              [n \in DOMAIN screens \cup {ResolvedId(c, d)} |->
                IF Backfills(c, d) /\ n = Fid(c)
                THEN [digest |-> d, coarse |-> NoScreen]
                ELSE IF n \in DOMAIN screens THEN screens[n] ELSE Carriers(c, d)]
         /\ Backfills(c, d) => Fid(c) \in DOMAIN screens /\ screens[Fid(c)].coarse = NoScreen
         /\ IsTwin(c, d) => d \in Digest /\ InFamily(c) /\ c \notin exhausted \cup Launchers
<1>1. {Renamed(Renaming(c, d), m) : m \in nodes} = DOMAIN screens
  BY DEF Renamed, Renaming, nodes
<1>2. Backfills(c, d) => Fid(c) \in DOMAIN screens /\ screens[Fid(c)].coarse = NoScreen
  BY IdsDistinct DEF Backfills, nodes, GraphOK, Screen, CoarseIds
<1>3. ScreensAfter(c, d) =
              [n \in DOMAIN screens \cup {ResolvedId(c, d)} |->
                IF Backfills(c, d) /\ n = Fid(c)
                THEN [digest |-> d, coarse |-> NoScreen]
                ELSE IF n \in DOMAIN screens THEN screens[n] ELSE Carriers(c, d)]
  BY <1>1, <1>2 DEF ScreensAfter, nodes
<1>4. IsTwin(c, d) => d \in Digest /\ InFamily(c) /\ c \notin exhausted \cup Launchers
  BY DEF IsTwin, InFamily, Refinable
<1> QED
  BY <1>2, <1>3, <1>4

\* Whatever the gate decides short of raising, the node map stays well formed
\* and no twin of an abandoned family appears.
LEMMA DecisionKeepsGraph ==
  ASSUME NEW c \in Coarse, NEW d \in Observable, ~Clashes(c, d),
         GraphOK(screens), StaysCoarse(screens, exhausted)
  PROVE  /\ GraphOK(ScreensAfter(c, d))
         /\ StaysCoarse(ScreensAfter(c, d), ExhaustedAfter(c, d))
<1> DEFINE t == ScreensAfter(c, d)
<1>1. CASE Collides(c, d)
  <2> DEFINE old == OldTwin(c)
  <2>1. old \notin DOMAIN screens
    BY <1>1 DEF Clashes, nodes
  <2>2. /\ ~Overflows(c, d) /\ c \notin exhausted \cup Launchers
        /\ Fid(c) \in DOMAIN screens /\ d \in Digest
        /\ screens[Fid(c)].digest \in Digest
        /\ old = Tid(c, screens[Fid(c)].digest)
        /\ t = [n \in (DOMAIN screens \ {Fid(c)}) \cup {old, Tid(c, d)} |->
                 IF n = old THEN [digest |-> screens[Fid(c)].digest, coarse |-> Fid(c)]
                 ELSE IF n \in DOMAIN screens THEN screens[n]
                 ELSE [digest |-> d, coarse |-> Fid(c)]]
    BY <1>1, SplitForm
  <2> HIDE DEF t, old
  <2>3. GraphOK(t)
    BY <2>1, <2>2, SplitGraph
  <2>4. ASSUME NEW b \in exhausted \cup Launchers, NEW n \in DOMAIN t
        PROVE  t[n].coarse # Fid(b)
    BY <2>2, IdsDistinct DEF StaysCoarse
  <2>5. StaysCoarse(t, ExhaustedAfter(c, d))
    BY <2>2, <2>4 DEF StaysCoarse, ExhaustedAfter
  <2> QED
    BY <2>3, <2>5 DEF t
<1>2. CASE Overflows(c, d)
  <2>1. t = [n \in {m \in DOMAIN screens : screens[m].coarse # Fid(c)} \cup {Fid(c)} |->
               IF n = Fid(c) THEN [digest |-> NoDigest, coarse |-> NoScreen]
               ELSE screens[n]]
    BY <1>2, CoarsenForm
  <2> HIDE DEF t
  <2>2. GraphOK(t) /\ \A n \in DOMAIN t : t[n].coarse # Fid(c)
    BY <2>1, CoarsenGraph
  <2>3. ASSUME NEW b \in exhausted \cup {c} \cup Launchers, NEW n \in DOMAIN t
        PROVE  t[n].coarse # Fid(b)
    BY <2>1, <2>2, IdsDistinct DEF StaysCoarse
  <2>4. StaysCoarse(t, ExhaustedAfter(c, d))
    BY <1>2, <2>3 DEF ExhaustedAfter, StaysCoarse
  <2> QED
    BY <2>2, <2>4 DEF t
<1>3. CASE ~Collides(c, d) /\ ~Overflows(c, d)
  <2> DEFINE id == ResolvedId(c, d)
  <2>1. /\ t = [n \in DOMAIN screens \cup {id} |->
                  IF Backfills(c, d) /\ n = Fid(c)
                  THEN [digest |-> d, coarse |-> NoScreen]
                  ELSE IF n \in DOMAIN screens THEN screens[n] ELSE Carriers(c, d)]
        /\ Backfills(c, d) => Fid(c) \in DOMAIN screens /\ screens[Fid(c)].coarse = NoScreen
        /\ IsTwin(c, d) => d \in Digest /\ c \notin exhausted \cup Launchers
    BY <1>3, VisitForm
  <2>2. id \in NodeId /\ Carriers(c, d) \in Screen
    BY <2>1, IdsAreNodeIds DEF ResolvedId, Carriers, Screen
  <2>3. t \in [DOMAIN screens \cup {id} -> Screen]
    BY <2>1, <2>2 DEF GraphOK, Screen
  <2>4. ASSUME NEW n \in DOMAIN screens
        PROVE  t[n].coarse = screens[n].coarse /\
                 (t[n].digest = screens[n].digest \/ screens[n].coarse = NoScreen)
    BY <2>1, <2>4
  <2>5. id \notin DOMAIN screens =>
            \/ /\ \E b \in Coarse : id \in {Fid(b), Vid(b)}
               /\ t[id].coarse = NoScreen
            \/ \E b \in Coarse, e \in Digest :
                  id = Tid(b, e) /\ t[id].coarse = Fid(b) /\ t[id].digest = e
    <3> SUFFICES ASSUME id \notin DOMAIN screens
                 PROVE  \/ /\ \E b \in Coarse : id \in {Fid(b), Vid(b)}
                           /\ t[id].coarse = NoScreen
                        \/ \E b \in Coarse, e \in Digest :
                              id = Tid(b, e) /\ t[id].coarse = Fid(b) /\ t[id].digest = e
      OBVIOUS
    <3>1. t[id] = Carriers(c, d)
      BY <2>1
    <3>2. CASE IsTwin(c, d)
      BY <2>1, <3>1, <3>2 DEF ResolvedId, Carriers
    <3>3. CASE ~IsTwin(c, d)
      BY <3>1, <3>3 DEF ResolvedId, Carriers
    <3> QED
      BY <3>2, <3>3
  <2>6. GraphOK(t)
    BY <2>2, <2>3, <2>4, <2>5, MintGraph
  <2>7. StaysCoarse(t, exhausted)
    <3> SUFFICES ASSUME NEW b \in exhausted \cup Launchers, NEW n \in DOMAIN t
                 PROVE  t[n].coarse # Fid(b)
      BY DEF StaysCoarse
    <3>1. CASE n \in DOMAIN screens
      BY <2>4, <3>1 DEF StaysCoarse
    <3>2. CASE n \notin DOMAIN screens
      BY <2>1, <3>2, IdsDistinct DEF Carriers
    <3> QED
      BY <3>1, <3>2
  <2> QED
    BY <1>3, <2>6, <2>7 DEF ExhaustedAfter
<1> QED
  BY <1>1, <1>2, <1>3

-----------------------------------------------------------------------------
(***************************************************************************)
(* The inductive invariant that needs no assumption on the session.        *)
(* TypeOK alone is not inductive: a split stamps the new twin with the     *)
(* digest of the old node, which is one only if the node map is well       *)
(* formed; and a coarsening renames every twin only if twins are exactly   *)
(* the nodes with twin ids.                                                *)
(***************************************************************************)
IInv ==
  /\ GraphOK(screens)
  /\ StaysCoarse(screens, exhausted)
  /\ exhausted \subseteq Coarse
  /\ current = NoScreen \/ current \in nodes
  /\ tags \subseteq NodeId
  /\ raised \in BOOLEAN

\* A rename map that an observation has none of.
NoRename == [n \in {} |-> NoScreen]

LEMMA NothingRenamed == \A n : Renamed(NoRename, n) = n
BY DEF Renamed, NoRename

\* Whatever a field is tagged with is a node id.
LEMMA FocusTagsAreIds == IInv => FocusTags \subseteq NodeId
BY IdsAreNodeIds DEF IInv, FocusTags, GraphOK, nodes

LEMMA InitIInv == Init => IInv
BY DEF Init, IInv, GraphOK, StaysCoarse, nodes

\* Renaming a node id gives a node id.
LEMMA RenamedIsNodeId ==
  ASSUME GraphOK(screens), NEW c \in Coarse, NEW d, NEW n \in NodeId
  PROVE  Renamed(Renaming(c, d), n) \in NodeId
<1>1. CASE Collides(c, d)
  <2>1. screens[Fid(c)].digest \in Digest
    BY <1>1 DEF Collides, GraphOK, Screen, nodes
  <2> QED
    BY <1>1, <2>1, IdsAreNodeIds DEF Renamed, Renaming, OldTwin
<1>2. CASE ~Collides(c, d)
  BY <1>2, IdsAreNodeIds DEF Renamed, Renaming
<1> QED
  BY <1>1, <1>2

\* Minting a node without carriers keeps the graph part.
LEMMA MintPlainKeepsGraph ==
  ASSUME IInv, NEW id, MintPlain(id),
         \/ \E c \in Coarse : id \in {Fid(c), Vid(c)}
         \/ id \in nodes
  PROVE  /\ GraphOK(screens') /\ StaysCoarse(screens', exhausted)
         /\ nodes \cup {id} = nodes'
<1>1. /\ DOMAIN screens' = DOMAIN screens \cup {id}
      /\ screens' = [n \in DOMAIN screens \cup {id} |->
                       IF n \in DOMAIN screens THEN screens[n]
                       ELSE [digest |-> NoDigest, coarse |-> NoScreen]]
  BY DEF MintPlain, nodes
<1>2. id \in NodeId
  BY IdsAreNodeIds DEF IInv, GraphOK, nodes
<1>3. screens' \in [DOMAIN screens \cup {id} -> Screen]
  BY <1>1 DEF Screen, IInv, GraphOK
<1>4. \A n \in DOMAIN screens : screens'[n] = screens[n]
  BY <1>1
<1>5. GraphOK(screens')
  BY <1>1, <1>2, <1>3, <1>4, MintGraph DEF IInv, nodes
<1>6. StaysCoarse(screens', exhausted)
  BY <1>1, IdsDistinct DEF IInv, StaysCoarse
<1> QED
  BY <1>1, <1>5, <1>6 DEF nodes

LEMMA LookupIsMintable ==
  ASSUME NEW c \in Coarse, NEW d, LookupId(c, d) # NoScreen
  PROVE  \/ \E b \in Coarse : LookupId(c, d) \in {Fid(b), Vid(b)}
         \/ LookupId(c, d) \in nodes
BY DEF LookupId

\* Every step of the gate and of the session around it keeps IInv.
LEMMA StepIInv == IInv /\ [Next]_vars => IInv'
<1> SUFFICES ASSUME IInv, [Next]_vars
             PROVE  IInv'
  OBVIOUS
<1> USE DEF IInv
<1>1. ASSUME NEW c \in Coarse, NEW d \in Observable, ObserveSettled(c, d)
      PROVE  IInv'
  <2>1. GraphOK(screens') /\ StaysCoarse(screens', exhausted')
    BY <1>1, DecisionKeepsGraph DEF ObserveSettled, ExhaustedAfter
  <2>2. current' \in nodes'
    BY <1>1, RenamedAreNodes DEF ObserveSettled, nodes
  <2>3. tags' \subseteq NodeId
    BY <1>1, RenamedIsNodeId, FocusTagsAreIds DEF ObserveSettled, TagsLeft
  <2> QED
    BY <1>1, <2>1, <2>2, <2>3 DEF ObserveSettled
<1>2. ASSUME NEW c \in Coarse, NEW d \in Observable, FlipSettled(c, d)
      PROVE  IInv'
  <2>1. GraphOK(screens') /\ StaysCoarse(screens', exhausted')
    BY <1>2, DecisionKeepsGraph DEF FlipSettled, ExhaustedAfter
  <2>2. current' \in nodes'
    BY <1>2, RenamedAreNodes DEF FlipSettled, nodes
  <2>3. tags' \subseteq NodeId
    <3>1. current' \in NodeId
      BY <2>1, <2>2 DEF nodes, GraphOK
    <3>2. PICK left \in TagsLeft(Renaming(c, d)) : tags' = left \cup {current'}
      BY <1>2 DEF FlipSettled
    <3>3. left \subseteq NodeId
      BY <3>2, RenamedIsNodeId, FocusTagsAreIds DEF TagsLeft
    <3> QED
      BY <3>1, <3>2, <3>3
  <2> QED
    BY <1>2, <2>1, <2>2, <2>3 DEF FlipSettled
<1>3. ASSUME NEW c \in Coarse, NEW d \in Observable, ObserveRaises(c, d)
      PROVE  IInv'
  BY <1>3 DEF ObserveRaises, nodes
<1>4. ASSUME NEW c \in Coarse, NEW d \in Observable, Reconcile(c, d)
      PROVE  IInv'
  <2>1. /\ GraphOK(screens') /\ StaysCoarse(screens', exhausted)
        /\ LookupId(c, d) \in nodes'
    BY <1>4, LookupIsMintable, MintPlainKeepsGraph DEF Reconcile
  <2> QED
    BY <1>4, <2>1 DEF Reconcile
<1>5. ASSUME NEW c \in Coarse, ObserveUnsettled(c)
      PROVE  IInv'
  <2>1. /\ GraphOK(screens') /\ StaysCoarse(screens', exhausted)
        /\ Vid(c) \in nodes'
    BY <1>5, MintPlainKeepsGraph DEF ObserveUnsettled
  <2>2. tags' \subseteq NodeId
    BY <1>5, NothingRenamed, FocusTagsAreIds DEF ObserveUnsettled, TagsLeft, NoRename
  <2> QED
    BY <1>5, <2>1, <2>2 DEF ObserveUnsettled
<1>6. ASSUME NEW c \in Coarse, FlipUnsettled(c)
      PROVE  IInv'
  <2>1. /\ GraphOK(screens') /\ StaysCoarse(screens', exhausted)
        /\ nodes \subseteq nodes'
    BY <1>6, MintPlainKeepsGraph DEF FlipUnsettled
  <2>2. current \in NodeId
    BY <1>6 DEF FlipUnsettled, nodes, GraphOK
  <2>3. PICK left \in TagsLeft(NoRename) : tags' = left \cup {current}
    BY <1>6 DEF FlipUnsettled, NoRename
  <2>4. left \subseteq NodeId
    BY <2>3, NothingRenamed, FocusTagsAreIds DEF TagsLeft
  <2> QED
    BY <1>6, <2>1, <2>2, <2>3, <2>4 DEF FlipUnsettled
<1>7. ASSUME NEW c \in Coarse, MergeTwins(c)
      PROVE  IInv'
  <2>1. CASE Fid(c) \in nodes
    BY <1>7, <2>1 DEF MergeTwins, nodes
  <2>2. CASE Fid(c) \notin nodes
    <3>1. screens' = [n \in {m \in DOMAIN screens : screens[m].coarse # Fid(c)}
                               \cup {Fid(c)} |->
                        IF n = Fid(c) THEN [digest |-> NoDigest, coarse |-> NoScreen]
                        ELSE screens[n]]
      <4>1. nodes \ Family(c) = {m \in DOMAIN screens : screens[m].coarse # Fid(c)}
        BY DEF Family, nodes
      <4> QED
        BY <1>7, <2>2, <4>1 DEF MergeTwins, nodes
    <3>2. GraphOK(screens') /\ \A n \in DOMAIN screens' : screens'[n].coarse # Fid(c)
      BY <3>1, CoarsenGraph
    <3>3. StaysCoarse(screens', exhausted \cup {c})
      BY <3>1, <3>2, IdsDistinct DEF StaysCoarse
    <3>4. current' = NoScreen \/ current' \in nodes'
      BY <1>7, <2>2, <3>1 DEF MergeTwins, Renamed, Family, nodes
    <3>5. tags' \subseteq NodeId
      BY <1>7, <2>2, IdsAreNodeIds DEF MergeTwins, Renamed
    <3> QED
      BY <1>7, <2>2, <3>2, <3>3, <3>4, <3>5 DEF MergeTwins
  <2> QED
    BY <2>1, <2>2
<1>8. ASSUME NEW keep \in nodes, NEW dup \in nodes, MergePlain(keep, dup)
      PROVE  IInv'
  <2>1. DOMAIN screens' = DOMAIN screens \ {dup} /\
        screens' = [n \in DOMAIN screens' |-> screens[n]]
    BY <1>8 DEF MergePlain, nodes
  <2>2. GraphOK(screens')
    BY <2>1, DropGraph
  <2>3. StaysCoarse(screens', exhausted)
    BY <2>1 DEF StaysCoarse
  <2>4. current' = NoScreen \/ current' \in nodes'
    BY <1>8, <2>1 DEF MergePlain, nodes
  <2> QED
    BY <1>8, <2>2, <2>3, <2>4 DEF MergePlain
<1>9. ASSUME TrackText
      PROVE  IInv'
  BY <1>9, FocusTagsAreIds DEF TrackText, nodes
<1>10. CASE UNCHANGED vars
  BY <1>10 DEF vars, nodes
<1> QED
  BY <1>1, <1>2, <1>3, <1>4, <1>5, <1>6, <1>7, <1>8, <1>9, <1>10 DEF Next

\* IInv implies the four properties that hold of every session.
LEMMA IInvImplies ==
  IInv => TypeOK /\ TwinsRecomputable /\ ExhaustedStaysCoarse /\ CurrentIsNode
<1> SUFFICES ASSUME IInv
             PROVE  TypeOK /\ TwinsRecomputable /\ ExhaustedStaysCoarse /\ CurrentIsNode
  OBVIOUS
<1>1. TypeOK
  BY DEF IInv, TypeOK, GraphOK, nodes
<1>2. TwinsRecomputable
  BY DEF IInv, TwinsRecomputable, GraphOK, nodes
<1>3. ExhaustedStaysCoarse
  BY DEF IInv, ExhaustedStaysCoarse, StaysCoarse, Family, nodes
<1>4. CurrentIsNode
  BY DEF IInv, CurrentIsNode
<1> QED
  BY <1>1, <1>2, <1>3, <1>4

LEMMA InvariantIInv == Spec => []IInv
BY InitIInv, StepIInv, PTL DEF Spec

\* The gate's state is well typed in every session.
THEOREM TypeCorrect == Spec => []TypeOK
BY InvariantIInv, IInvImplies, PTL

\* Twin marks and twin ids agree in every session, blank chrome, human merges
\* and raised rekeys included.
THEOREM TwinsAlwaysRecomputable == Spec => []TwinsRecomputable
BY InvariantIInv, IInvImplies, PTL

\* The blacklist is honoured for ever.
THEOREM BlacklistHonoured == Spec => []ExhaustedStaysCoarse
BY InvariantIInv, IInvImplies, PTL

\* No rename, coarsening or merge leaves the recorder on a vanished screen.
THEOREM CurrentNeverDangles == Spec => []CurrentIsNode
BY InvariantIInv, IInvImplies, PTL

\* The read-only lookup of the refresher and the gate agree on every settled
\* screen the gate would find without renaming anything.
THEOREM LookupAgrees == Spec => []LookupAgreesWithGate
<1>1. LookupAgreesWithGate
  <2> SUFFICES ASSUME NEW c \in Coarse, NEW d \in Observable,
                      ResolvedId(c, d) \in nodes, DOMAIN Renaming(c, d) = {}
               PROVE  LookupId(c, d) = ResolvedId(c, d)
    BY DEF LookupAgreesWithGate
  <2>1. ~Collides(c, d)
    BY DEF Renaming
  <2>2. CASE IsTwin(c, d)
    <3>1. InFamily(c) /\ d # NoDigest /\ ResolvedId(c, d) = Tid(c, d)
      BY <2>1, <2>2 DEF IsTwin, ResolvedId
    <3>2. c \notin Launchers /\ Fid(c) \notin nodes
      BY <3>1 DEF InFamily, Refinable
    <3> QED
      BY <3>1, <3>2 DEF LookupId
  <2>3. CASE ~IsTwin(c, d)
    <3>1. ResolvedId(c, d) = Fid(c)
      BY <2>3 DEF ResolvedId
    <3> QED
      BY <3>1 DEF LookupId
  <2> QED
    BY <2>2, <2>3
<1> QED
  BY <1>1, PTL

(***************************************************************************)
(* Families of twins: what the gate promises of a session whose dumps      *)
(* always show stable chrome (NoDigest is not observable), and of one in   *)
(* which no plain merge is made.                                           *)
(*                                                                         *)
(* Both premises are needed: a blank dump of a refined family forks it,    *)
(* and a plain merge orphans tags.                                         *)
(***************************************************************************)
(***************************************************************************)
(* How one step may change a family F into G: shrink it, add one member    *)
(* while there is room, or start it as the two halves of a split.          *)
(***************************************************************************)
Grows(F, G) ==
  \/ G \subseteq F
  \/ ~(Cardinality(F) >= FamilyMax) /\ \E x : G \subseteq F \cup {x}
  \/ \E x, y : G \subseteq {x, y}

Bounded(F) == IsFiniteSet(F) /\ Cardinality(F) <= FamilyMax

\* A bounded family is bounded after any such change.
LEMMA GrowsBounded ==
  ASSUME NEW F, NEW G, Bounded(F), Grows(F, G)
  PROVE  Bounded(G)
<1> USE FamilyMaxAssumption
<1>1. CASE G \subseteq F
  <2>1. IsFiniteSet(G) /\ Cardinality(G) <= Cardinality(F)
    BY <1>1, FS_Subset DEF Bounded
  <2>2. Cardinality(G) \in Nat /\ Cardinality(F) \in Nat
    BY <2>1, FS_CardinalityType DEF Bounded
  <2> QED
    BY <2>1, <2>2 DEF Bounded
<1>2. CASE ~(Cardinality(F) >= FamilyMax) /\ \E x : G \subseteq F \cup {x}
  <2>1. PICK x : G \subseteq F \cup {x}
    BY <1>2
  <2>2. /\ IsFiniteSet(F \cup {x})
        /\ Cardinality(F \cup {x}) = Cardinality(F) \/
           Cardinality(F \cup {x}) = Cardinality(F) + 1
    BY FS_AddElement DEF Bounded
  <2>3. IsFiniteSet(G) /\ Cardinality(G) <= Cardinality(F \cup {x})
    BY <2>1, <2>2, FS_Subset
  <2>4. Cardinality(G) \in Nat /\ Cardinality(F) \in Nat
    BY <2>3, FS_CardinalityType DEF Bounded
  <2> QED
    BY <1>2, <2>2, <2>3, <2>4 DEF Bounded
<1>3. CASE \E x, y : G \subseteq {x, y}
  <2>1. PICK x, y : G \subseteq {x, y}
    BY <1>3
  <2>2. IsFiniteSet({x}) /\ Cardinality({x}) = 1
    BY FS_Singleton
  <2>3. /\ IsFiniteSet({x} \cup {y})
        /\ Cardinality({x} \cup {y}) \in {1, 2}
    BY <2>2, FS_AddElement
  <2>4. {x, y} = {x} \cup {y}
    OBVIOUS
  <2>5. IsFiniteSet(G) /\ Cardinality(G) <= Cardinality({x} \cup {y})
    BY <2>1, <2>3, <2>4, FS_Subset
  <2>6. Cardinality(G) \in Nat
    BY <2>5, FS_CardinalityType
  <2> QED
    BY <2>3, <2>5, <2>6 DEF Bounded
<1> QED
  BY <1>1, <1>2, <1>3 DEF Grows

-----------------------------------------------------------------------------
(***************************************************************************)
(* One decision of the gate and the families it leaves.                    *)
(***************************************************************************)
Members(s, b) == {n \in DOMAIN s : s[n].coarse = Fid(b)}
Unforked(s) == \A b \in Coarse : Fid(b) \in DOMAIN s => Members(s, b) = {}

\* A decision about a dump with stable chrome forks no family, and lets each
\* family grow only as Grows allows.
LEMMA DecisionFamilies ==
  ASSUME NEW c \in Coarse, NEW d \in Observable, d # NoDigest, ~Clashes(c, d),
         GraphOK(screens), StaysCoarse(screens, exhausted), Unforked(screens)
  PROVE  /\ Unforked(ScreensAfter(c, d))
         /\ \A b \in Coarse : Grows(Family(b), Members(ScreensAfter(c, d), b))
<1> DEFINE t == ScreensAfter(c, d)
<1>0. \A b \in Coarse : Family(b) = Members(screens, b)
  BY DEF Family, Members, nodes
<1>1. CASE Collides(c, d)
  <2> DEFINE old == OldTwin(c)
  <2>1. /\ Fid(c) \in DOMAIN screens
        /\ old = Tid(c, screens[Fid(c)].digest)
        /\ t = [n \in (DOMAIN screens \ {Fid(c)}) \cup {old, Tid(c, d)} |->
                 IF n = old THEN [digest |-> screens[Fid(c)].digest, coarse |-> Fid(c)]
                 ELSE IF n \in DOMAIN screens THEN screens[n]
                 ELSE [digest |-> d, coarse |-> Fid(c)]]
    BY <1>1, SplitForm
  <2> HIDE DEF t, old
  <2>2. ASSUME NEW b \in Coarse
        PROVE  Fid(b) \in DOMAIN t => Members(t, b) = {}
    BY <2>1, IdsDistinct DEF Unforked, Members
  <2>3. ASSUME NEW b \in Coarse
        PROVE  Grows(Family(b), Members(t, b))
    <3>1. CASE b = c
      <4>1. Members(screens, c) = {}
        BY <2>1 DEF Unforked
      <4>2. Members(t, c) \subseteq {old, Tid(c, d)}
        BY <2>1, <4>1 DEF Members
      <4> QED
        BY <3>1, <4>2 DEF Grows
    <3>2. CASE b # c
      <4>1. Members(t, b) \subseteq Members(screens, b)
        BY <2>1, <3>2, IdsDistinct DEF Members
      <4> QED
        BY <1>0, <4>1 DEF Grows
    <3> QED
      BY <3>1, <3>2
  <2> QED
    BY <2>2, <2>3 DEF Unforked, t
<1>2. CASE Overflows(c, d)
  <2>1. t = [n \in {m \in DOMAIN screens : screens[m].coarse # Fid(c)} \cup {Fid(c)} |->
               IF n = Fid(c) THEN [digest |-> NoDigest, coarse |-> NoScreen]
               ELSE screens[n]]
    BY <1>2, CoarsenForm
  <2> HIDE DEF t
  <2>2. ASSUME NEW b \in Coarse
        PROVE  Fid(b) \in DOMAIN t => Members(t, b) = {}
    BY <2>1, IdsDistinct DEF Unforked, Members
  <2>3. ASSUME NEW b \in Coarse
        PROVE  Grows(Family(b), Members(t, b))
    BY <1>0, <2>1, IdsDistinct DEF Grows, Members
  <2> QED
    BY <2>2, <2>3 DEF Unforked, t
<1>3. CASE ~Collides(c, d) /\ ~Overflows(c, d)
  <2> DEFINE id == ResolvedId(c, d)
  <2>1. /\ t = [n \in DOMAIN screens \cup {id} |->
                  IF Backfills(c, d) /\ n = Fid(c)
                  THEN [digest |-> d, coarse |-> NoScreen]
                  ELSE IF n \in DOMAIN screens THEN screens[n] ELSE Carriers(c, d)]
        /\ Backfills(c, d) => Fid(c) \in DOMAIN screens /\ screens[Fid(c)].coarse = NoScreen
    BY <1>3, VisitForm
  <2>2. CASE IsTwin(c, d)
    <3>1. InFamily(c) /\ ~Overflows(c, d)
      BY <1>3, <2>2 DEF IsTwin
    <3>2. id = Tid(c, d) /\ Carriers(c, d) = [digest |-> d, coarse |-> Fid(c)]
      BY <2>2 DEF ResolvedId, Carriers
    <3>3. Fid(c) \notin DOMAIN screens
      BY <3>1 DEF InFamily, nodes
    <3>4. id \in DOMAIN screens \/ ~(Cardinality(Family(c)) >= FamilyMax)
      BY <3>1, <3>2 DEF Overflows, nodes, IsTwin, Collides
    <3> HIDE DEF t, id
    <3>5. \A b \in Coarse : Members(t, b) \subseteq Members(screens, b) \cup
                              (IF b = c /\ id \notin DOMAIN screens THEN {id} ELSE {})
      BY <2>1, <3>2, IdsDistinct DEF Members
    <3>6. ASSUME NEW b \in Coarse, Fid(b) \in DOMAIN t
          PROVE  Members(t, b) = {}
      <4>1. Fid(b) \in DOMAIN screens /\ b # c
        BY <2>1, <3>2, <3>3, <3>6, IdsDistinct
      <4> QED
        BY <3>5, <4>1 DEF Unforked
    <3>7. ASSUME NEW b \in Coarse
          PROVE  Grows(Family(b), Members(t, b))
      BY <1>0, <3>4, <3>5 DEF Grows
    <3> QED
      BY <3>6, <3>7 DEF t, Unforked
  <2>3. CASE ~IsTwin(c, d)
    <3>1. id = Fid(c) /\ Carriers(c, d).coarse = NoScreen
      BY <2>3 DEF ResolvedId, Carriers
    <3>2. Members(screens, c) = {}
      <4>1. CASE Fid(c) \in DOMAIN screens
        BY <4>1 DEF Unforked
      <4>2. CASE Fid(c) \notin DOMAIN screens /\ Refinable(c)
        BY <1>0, <1>3, <2>3, <4>2 DEF IsTwin, InFamily, nodes
      <4>3. CASE ~Refinable(c)
        BY <4>3 DEF Refinable, StaysCoarse, Members
      <4> QED
        BY <4>1, <4>2, <4>3
    <3> HIDE DEF t, id
    <3>3. \A b \in Coarse : Members(t, b) \subseteq Members(screens, b)
      BY <2>1, <3>1, IdsDistinct DEF Members
    <3>4. Unforked(t)
      BY <2>1, <3>1, <3>2, <3>3, IdsDistinct DEF Unforked
    <3>5. ASSUME NEW b \in Coarse
          PROVE  Grows(Family(b), Members(t, b))
      BY <1>0, <3>3 DEF Grows
    <3> QED
      BY <3>4, <3>5 DEF t
  <2> QED
    BY <2>2, <2>3
<1> QED
  BY <1>1, <1>2, <1>3

-----------------------------------------------------------------------------
(***************************************************************************)
(* Sessions without blank dumps.  The three facts are proved together:     *)
(* a rekey clashes, and mark_same finds a coarse node, only in a forked    *)
(* family, and a split starts a family of two only if it was not forked.   *)
(***************************************************************************)
FInv ==
  /\ IInv
  /\ Unforked(screens)
  /\ ~raised
  /\ \A c \in Coarse : Bounded(Family(c))

LEMMA InitFInv == Init => FInv
<1> SUFFICES ASSUME Init PROVE FInv
  OBVIOUS
<1>1. DOMAIN screens = {}
  BY DEF Init
<1>2. ASSUME NEW c \in Coarse PROVE Bounded(Family(c))
  <2>1. Family(c) = {}
    BY <1>1 DEF Family, nodes
  <2> QED
    BY <2>1, FS_EmptySet, FamilyMaxAssumption DEF Bounded
<1> QED
  BY <1>1, <1>2, InitIInv DEF FInv, Unforked, Init

\* In an unforked graph no rekey target exists.
LEMMA UnforkedNeverClashes ==
  ASSUME IInv, Unforked(screens), NEW c \in Coarse, NEW d \in Observable
  PROVE  ~Clashes(c, d)
<1> SUFFICES ASSUME Collides(c, d), OldTwin(c) \in nodes PROVE FALSE
  BY DEF Clashes
<1>1. Fid(c) \in DOMAIN screens /\ screens[Fid(c)].digest \in Digest
  BY DEF Collides, IInv, GraphOK, Screen, nodes
<1>2. OldTwin(c) \in Members(screens, c)
  BY <1>1, IdsDistinct DEF IInv, GraphOK, Members, OldTwin, nodes
<1> QED
  BY <1>1, <1>2 DEF Unforked

\* Minting a volatile node, or the id a lookup returned, forks no family.
LEMMA MintPlainFamilies ==
  ASSUME IInv, Unforked(screens), NEW id, MintPlain(id),
         \A b \in Coarse : id = Fid(b) => id \in nodes \/ Members(screens, b) = {}
  PROVE  /\ Unforked(screens')
         /\ \A b \in Coarse : Grows(Family(b), Members(screens', b))
<1>1. screens' = [n \in DOMAIN screens \cup {id} |->
                    IF n \in DOMAIN screens THEN screens[n]
                    ELSE [digest |-> NoDigest, coarse |-> NoScreen]]
  BY DEF MintPlain, nodes
<1>2. \A b \in Coarse : Members(screens', b) \subseteq Members(screens, b)
  BY <1>1, IdsDistinct DEF Members
<1>3. Unforked(screens')
  BY <1>1, <1>2 DEF Unforked, nodes
<1> QED
  BY <1>2, <1>3 DEF Grows, Family, Members, nodes

LEMMA StepFInv ==
  ASSUME NoDigest \notin Observable, FInv, [Next]_vars
  PROVE  FInv'
<1> USE DEF FInv
<1>1. IInv'
  BY StepIInv
<1>2. \A b \in Coarse : Family(b) = Members(screens, b) /\ Family(b)' = Members(screens', b)
  BY DEF Family, Members, nodes
<1> DEFINE Kept == /\ Unforked(screens') /\ ~raised'
                   /\ \A b \in Coarse : Grows(Family(b), Members(screens', b))
<1>3. Kept
  <2>1. ASSUME NEW c \in Coarse, NEW d \in Observable,
               ObserveSettled(c, d) \/ FlipSettled(c, d)
        PROVE  Kept
    BY <2>1, DecisionFamilies DEF ObserveSettled, FlipSettled, IInv
  <2>2. ASSUME NEW c \in Coarse, NEW d \in Observable, ObserveRaises(c, d)
        PROVE  FALSE
    BY <2>2, UnforkedNeverClashes DEF ObserveRaises
  <2>3. ASSUME NEW c \in Coarse, NEW d \in Observable, Reconcile(c, d)
        PROVE  Kept
    <3>1. \A b \in Coarse : LookupId(c, d) = Fid(b) =>
             LookupId(c, d) \in nodes \/ Members(screens, b) = {}
      BY <2>3, <1>2, IdsDistinct DEF LookupId, Reconcile, StaysCoarse, IInv, Members
    <3> QED
      BY <2>3, <3>1, MintPlainFamilies DEF Reconcile
  <2>4. ASSUME NEW c \in Coarse, ObserveUnsettled(c) \/ FlipUnsettled(c)
        PROVE  Kept
    BY <2>4, MintPlainFamilies, IdsDistinct DEF ObserveUnsettled, FlipUnsettled
  <2>5. ASSUME NEW c \in Coarse, MergeTwins(c)
        PROVE  Kept
    <3>1. Family(c) # {}
      BY <2>5, FS_EmptySet DEF MergeTwins
    <3>2. Fid(c) \notin nodes
      BY <1>2, <3>1 DEF Unforked, nodes
    <3>3. screens' = [n \in (DOMAIN screens \ Members(screens, c)) \cup {Fid(c)} |->
                        IF n \in DOMAIN screens THEN screens[n]
                        ELSE [digest |-> NoDigest, coarse |-> NoScreen]]
      BY <1>2, <2>5, <3>2 DEF MergeTwins, nodes
    <3>4. \A b \in Coarse : Members(screens', b) \subseteq Members(screens, b)
      BY <3>3, IdsDistinct DEF Members
    <3>5. ASSUME NEW b \in Coarse, Fid(b) \in DOMAIN screens'
          PROVE  Members(screens', b) = {}
      <4>1. CASE b = c
        BY <3>2, <3>3, <4>1, IdsDistinct DEF Members, nodes
      <4>2. CASE b # c
        BY <3>3, <3>4, <3>5, <4>2, IdsDistinct DEF Unforked
      <4> QED
        BY <4>1, <4>2
    <3>6. \A b \in Coarse : Grows(Family(b), Members(screens', b))
      BY <1>2, <3>4 DEF Grows
    <3> QED
      BY <2>5, <3>2, <3>5, <3>6 DEF MergeTwins, Unforked
  <2>6. ASSUME NEW keep \in nodes, NEW dup \in nodes, MergePlain(keep, dup)
        PROVE  Kept
    <3>1. screens' = [n \in DOMAIN screens \ {dup} |-> screens[n]] /\ raised' = raised
      BY <2>6 DEF MergePlain, nodes
    <3>2. \A b \in Coarse : Members(screens', b) \subseteq Members(screens, b)
      BY <3>1 DEF Members
    <3> QED
      BY <1>2, <3>1, <3>2 DEF Unforked, Grows
  <2>7. ASSUME UNCHANGED <<screens, raised>>
        PROVE  Kept
    BY <1>2, <2>7 DEF Grows
  <2>8. CASE TrackText \/ UNCHANGED vars
    BY <2>7, <2>8 DEF TrackText, vars
  <2> QED
    BY <2>1, <2>2, <2>3, <2>4, <2>5, <2>6, <2>8 DEF Next
<1>4. \A b \in Coarse : Bounded(Members(screens', b))
  BY <1>3, GrowsBounded
<1> QED
  BY <1>1, <1>2, <1>3, <1>4

LEMMA FInvImplies == FInv => NoForkedFamily /\ GateNeverRaises /\ FamilyBounded
BY DEF FInv, NoForkedFamily, GateNeverRaises, FamilyBounded, Unforked, Bounded,
       Family, Members, nodes

LEMMA InvariantFInv ==
  ASSUME NoDigest \notin Observable
  PROVE  Spec => []FInv
BY InitFInv, StepFInv, PTL DEF Spec

\* A session whose settled dumps all show stable chrome never forks a screen
\* into a coarse node and refined twins.
THEOREM NeverForked ==
  ASSUME NoDigest \notin Observable
  PROVE  Spec => []NoForkedFamily
BY InvariantFInv, FInvImplies, PTL

\* Nor does one of its rekeys ever raise.
THEOREM RekeyNeverRaises ==
  ASSUME NoDigest \notin Observable
  PROVE  Spec => []GateNeverRaises
BY InvariantFInv, FInvImplies, PTL

\* Nor does a family ever outgrow FAMILY_MAX.
THEOREM ChurnIsBounded ==
  ASSUME NoDigest \notin Observable
  PROVE  Spec => []FamilyBounded
BY InvariantFInv, FInvImplies, PTL

-----------------------------------------------------------------------------
(***************************************************************************)
(* Sessions without plain merges, blank dumps or not.                      *)
(***************************************************************************)
\* Tags U follow the nodes of s into those of t.
Follow(s, t, U) == U \cap DOMAIN s \subseteq DOMAIN t

\* What a step without a plain merge does to the nodes: every tag follows its
\* node, and a family disappears only into the blacklist.
LEMMA StepFollowsNodes ==
  ASSUME "plain" \notin Merges, IInv, [Next]_vars
  PROVE  /\ Follow(screens, screens', tags')
         /\ \A b \in Coarse : Family(b) # {} => Family(b)' # {} \/ b \in exhausted'
<1> DEFINE Followed ==
      /\ Follow(screens, screens', tags')
      /\ \A b \in Coarse : Family(b) # {} => Family(b)' # {} \/ b \in exhausted'
<1>1. ASSUME NEW s, DOMAIN screens \subseteq DOMAIN s,
             \A n \in DOMAIN screens : s[n].coarse = screens[n].coarse
      PROVE  \A b \in Coarse : Members(screens, b) \subseteq Members(s, b)
  BY <1>1 DEF Members
<1>2. \A b \in Coarse : Family(b) = Members(screens, b) /\ Family(b)' = Members(screens', b)
  BY DEF Family, Members, nodes
<1>3. ASSUME NEW c \in Coarse, NEW d \in Observable,
             ObserveSettled(c, d) \/ FlipSettled(c, d)
      PROVE  Followed
  <2>1. /\ screens' = ScreensAfter(c, d) /\ ~Clashes(c, d)
        /\ exhausted' = ExhaustedAfter(c, d)
        /\ tags' \subseteq {Renamed(Renaming(c, d), n) : n \in tags \cup FocusTags} \cup {current'}
    BY <1>3 DEF ObserveSettled, FlipSettled, ExhaustedAfter, TagsLeft
  <2>2. IInv'
    BY StepIInv
  <2>3. current' \in nodes'
    BY <1>3, RenamedAreNodes DEF ObserveSettled, FlipSettled, nodes, IInv
  <2>4. Follow(screens, screens', tags')
    <3> SUFFICES ASSUME NEW t \in tags', t \in nodes PROVE t \in nodes'
      BY DEF Follow, nodes
    <3>1. CASE t = current'
      BY <2>3, <3>1
    <3>2. CASE t # current'
      <4>1. PICK n \in tags \cup FocusTags : t = Renamed(Renaming(c, d), n)
        BY <2>1, <3>2
      <4>2. CASE n \in DOMAIN Renaming(c, d)
        <5>1. n \in nodes
          BY <4>2 DEF Renaming, Collides, Family
        <5> QED
          BY <2>1, <4>1, <5>1, RenamedAreNodes DEF nodes
      <4>3. CASE n \notin DOMAIN Renaming(c, d)
        <5>1. t = n
          BY <4>1, <4>3 DEF Renamed
        <5>2. Renamed(Renaming(c, d), n) \in DOMAIN ScreensAfter(c, d)
          BY <5>1, RenamedAreNodes
        <5> QED
          BY <2>1, <4>1, <5>2 DEF nodes
      <4> QED
        BY <4>2, <4>3
    <3> QED
      BY <3>1, <3>2
  <2>5. ASSUME NEW b \in Coarse, Members(screens, b) # {}
        PROVE  Members(screens', b) # {} \/ b \in exhausted'
    <3>1. CASE Collides(c, d)
      <4>1. PICK n \in DOMAIN screens : screens[n].coarse = Fid(b)
        BY <2>5 DEF Members
      <4>2. n # Fid(c) /\ n # OldTwin(c)
        BY <2>1, <3>1, <4>1, IdsDistinct DEF IInv, GraphOK, Clashes, nodes
      <4>3. /\ n \in DOMAIN ScreensAfter(c, d)
            /\ ScreensAfter(c, d)[n] = screens[n]
        <5>1. ScreensAfter(c, d) =
                [m \in (DOMAIN screens \ {Fid(c)}) \cup {OldTwin(c), Tid(c, d)} |->
                  IF m = OldTwin(c)
                  THEN [digest |-> screens[Fid(c)].digest, coarse |-> Fid(c)]
                  ELSE IF m \in DOMAIN screens THEN screens[m]
                  ELSE [digest |-> d, coarse |-> Fid(c)]]
          BY <3>1, SplitForm DEF IInv
        <5> QED
          BY <4>1, <4>2, <5>1
      <4> QED
        BY <2>1, <4>1, <4>3 DEF Members
    <3>2. CASE Overflows(c, d)
      <4>1. CASE b = c
        BY <2>1, <3>2, <4>1 DEF ExhaustedAfter
      <4>2. CASE b # c
        <5>1. PICK n \in DOMAIN screens : screens[n].coarse = Fid(b)
          BY <2>5 DEF Members
        <5>2. n # Fid(c) /\ screens[n].coarse # Fid(c)
          BY <4>2, <5>1, IdsDistinct DEF IInv, GraphOK
        <5>3. n \in DOMAIN ScreensAfter(c, d) /\ ScreensAfter(c, d)[n] = screens[n]
          <6>1. ScreensAfter(c, d) =
                  [m \in {k \in DOMAIN screens : screens[k].coarse # Fid(c)} \cup {Fid(c)} |->
                    IF m = Fid(c) THEN [digest |-> NoDigest, coarse |-> NoScreen]
                    ELSE screens[m]]
            BY <3>2, CoarsenForm
          <6> QED
            BY <5>1, <5>2, <6>1
        <5>4. n \in Members(ScreensAfter(c, d), b)
          BY <5>1, <5>3 DEF Members
        <5> QED
          BY <2>1, <5>4
      <4> QED
        BY <4>1, <4>2
    <3>3. CASE ~Collides(c, d) /\ ~Overflows(c, d)
      <4>1. /\ DOMAIN screens \subseteq DOMAIN ScreensAfter(c, d)
            /\ \A n \in DOMAIN screens : ScreensAfter(c, d)[n].coarse = screens[n].coarse
        <5>1. /\ ScreensAfter(c, d) =
                   [n \in DOMAIN screens \cup {ResolvedId(c, d)} |->
                     IF Backfills(c, d) /\ n = Fid(c)
                     THEN [digest |-> d, coarse |-> NoScreen]
                     ELSE IF n \in DOMAIN screens THEN screens[n] ELSE Carriers(c, d)]
              /\ Backfills(c, d) => screens[Fid(c)].coarse = NoScreen
          BY <3>3, VisitForm DEF IInv
        <5> QED
          BY <5>1
      <4> QED
        BY <1>1, <2>1, <2>5, <4>1
    <3> QED
      BY <3>1, <3>2, <3>3
  <2> QED
    BY <1>2, <2>4, <2>5
<1>4. ASSUME NEW id, MintPlain(id)
      PROVE  Followed
  <2>1. /\ DOMAIN screens \subseteq DOMAIN screens'
        /\ \A n \in DOMAIN screens : screens'[n].coarse = screens[n].coarse
    BY <1>4 DEF MintPlain, nodes
  <2>2. Follow(screens, screens', tags')
    BY <2>1 DEF Follow
  <2> QED
    BY <1>1, <1>2, <2>1, <2>2
<1>5. ASSUME NEW c \in Coarse, MergeTwins(c), Fid(c) \notin nodes
      PROVE  Followed
  <2>1. /\ screens' = [n \in (DOMAIN screens \ Members(screens, c)) \cup {Fid(c)} |->
                         IF n \in DOMAIN screens THEN screens[n]
                         ELSE [digest |-> NoDigest, coarse |-> NoScreen]]
        /\ exhausted' = exhausted \cup {c}
        /\ tags' = {Renamed([m \in Family(c) |-> Fid(c)], n) : n \in tags}
    BY <1>2, <1>5 DEF MergeTwins, nodes
  <2>2. Follow(screens, screens', tags')
    BY <1>2, <2>1 DEF Follow, Renamed
  <2>3. \A b \in Coarse : b # c => Members(screens, b) \subseteq Members(screens', b)
    BY <2>1, IdsDistinct DEF Members
  <2> QED
    BY <1>2, <2>1, <2>2, <2>3
<1>6. CASE UNCHANGED <<screens, exhausted>>
  BY <1>2, <1>6 DEF Follow
<1>7. ASSUME NEW c \in Coarse, NEW d \in Observable,
             ObserveRaises(c, d) \/ Reconcile(c, d)
      PROVE  Followed
  BY <1>4, <1>6, <1>7 DEF ObserveRaises, Reconcile
<1>8. ASSUME NEW c \in Coarse, ObserveUnsettled(c) \/ FlipUnsettled(c)
      PROVE  Followed
  BY <1>4, <1>8 DEF ObserveUnsettled, FlipUnsettled
<1>9. ASSUME NEW c \in Coarse, MergeTwins(c), Fid(c) \in nodes
      PROVE  Followed
  BY <1>6, <1>9 DEF MergeTwins
<1>10. CASE TrackText \/ UNCHANGED vars
  BY <1>6, <1>10 DEF TrackText, vars
<1>11. \A keep, dup : ~MergePlain(keep, dup)
  BY DEF MergePlain
<1> QED
  BY <1>3, <1>5, <1>7, <1>8, <1>9, <1>10, <1>11 DEF Next

\* Without plain merges no split, coarsening or merge of twins leaves typing,
\* staged or in flight, under an id it took away.
THEOREM TagsNeverDangle ==
  ASSUME "plain" \notin Merges
  PROVE  Spec => TagsFollow
<1>1. IInv /\ [Next]_vars => [tags' \cap nodes \subseteq nodes']_vars
  BY StepFollowsNodes DEF Follow, nodes
<1> QED
  BY <1>1, InvariantIInv, PTL DEF Spec, TagsFollow

\* Without plain merges twins are merged again only by abandoning the family.
THEOREM RefinementIsOneWay ==
  ASSUME "plain" \notin Merges
  PROVE  Spec => NoSilentRemerge
<1>1. IInv /\ [Next]_vars =>
        [\A c \in Coarse : Family(c) # {} => (Family(c)' # {} \/ c \in exhausted')]_vars
  BY StepFollowsNodes
<1> QED
  BY <1>1, InvariantIInv, PTL DEF Spec, NoSilentRemerge
=============================================================================
