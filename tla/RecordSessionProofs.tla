------------------------ MODULE RecordSessionProofs ------------------------
(***************************************************************************)
(* TLAPS proofs about the recording session, for every device (its views,  *)
(* fields and namespaces), every human and every interleaving of the two   *)
(* threads.                                                                *)
(***************************************************************************)
EXTENDS RecordSession, TLAPS

(***************************************************************************)
(* What a stop leaves.  Once a join succeeded the refresher has ended, so  *)
(* nobody tracks a field behind the last commit and the report; and if it  *)
(* timed out, the one dump still running finds no field to finalize.       *)
(***************************************************************************)
Closing == {"last text", "report", "stopped"}

Drained == {"report", "stopped"}

\* A field in flight after the last drain is one a late dump entered.
Late ==
  /\ ~main.joined /\ refresher.pc \in {"store", "wait", "ended"}
  /\ typing.text = LastFrame.text

StopInv ==
  /\ "pc" \in DOMAIN main
  /\ main.pc \in Closing => "joined" \in DOMAIN main
  /\ main.pc \in Closing /\ main.joined => refresher.pc = "ended"
  /\ main.pc \in Drained => typing = NoTyping \/ Late
  /\ main.pc = "stopped" => pending = {}

\* Initially the main thread observes the first screen.
LEMMA InitStopInv == Init => StopInv
BY DEF Init, StopInv, Closing, Drained, Settling

\* The human moves nothing that the stop reports.
LEMMA HumanKeepsSession ==
  Human => UNCHANGED <<graphVars, textVars, csnap, fresh, paused, main, refresher, eager>>
BY DEF Human, TapField, PressKey, HideKeyboard, TapControl, Drift, Touches

\* No step makes a patient human hasty, or the other way round.
LEMMA HasteIsKept == [Next]_vars => eager' = eager
<1>1. CASE Human
  BY <1>1, HumanKeepsSession
<1>2. CASE ~Human
  BY <1>2 DEF Next, Main, Refresh, vars, deviceVars, Ignore, TakeTap, Submit, Reconcile, Follow,
     Bind, SettleDump, SettleGivesUp, Enter, Repair, CommitTap, Anchor, PauseSet,
     ResetTyping, Join, LastText, Report, RefreshDump, RefreshTrack, RefreshStore,
     RefreshEnd, Pause, Resume, Stop
<1> QED
  BY <1>1, <1>2

\* Every step keeps it.
LEMMA StepStopInv == StopInv /\ [Next]_vars => StopInv'
<1> SUFFICES ASSUME StopInv, [Next]_vars PROVE StopInv'
  OBVIOUS
<1> USE DEF StopInv, Closing, Drained, Late, LastFrame, Idle, graphVars, textVars
<1>1. CASE Ignore
  BY <1>1 DEF Ignore
<1>2. CASE TakeTap
  BY <1>2 DEF TakeTap
<1>3. CASE Submit
  BY <1>3 DEF Submit, CommitInFlight
<1>4. CASE Reconcile
  <2>1. main'.pc \in {"follow", "bind"} /\ "pc" \in DOMAIN main'
    BY <1>4 DEF Reconcile
  <2> QED
    BY <2>1
<1>5. CASE Follow
  BY <1>5 DEF Follow
<1>6. CASE Bind
  BY <1>6 DEF Bind
<1>7. CASE SettleDump
  BY <1>7 DEF SettleDump
<1>8. CASE SettleGivesUp
  BY <1>8 DEF SettleGivesUp
<1>9. CASE Enter
  BY <1>9 DEF Enter
<1>10. CASE Repair
  BY <1>10 DEF Repair
<1>11. CASE CommitTap
  BY <1>11 DEF CommitTap
<1>12. CASE Anchor
  BY <1>12 DEF Anchor
<1>13. CASE PauseSet
  BY <1>13 DEF PauseSet
<1>14. CASE ResetTyping
  BY <1>14 DEF ResetTyping, Settling
<1>15. CASE Join
  BY <1>15 DEF Join
<1>16. CASE LastText
  BY <1>16 DEF LastText, CommitInFlight
<1>17. CASE Report
  BY <1>17 DEF Report
<1>18. CASE RefreshDump
  BY <1>18 DEF RefreshDump, Stopping
<1>19. CASE RefreshTrack
  <2>1. /\ refresher.pc = "track" /\ main' = main
        /\ refresher' = [pc |-> "store", frame |-> refresher.frame, prev |-> fresh]
    BY <1>19 DEF RefreshTrack
  <2>2. ~(main.pc \in Closing /\ main.joined)
    BY <2>1
  <2>3. ASSUME main.pc \in Drained
        PROVE  /\ pending' = pending
               /\ typing' = NoTyping \/ typing'.text = refresher.frame.text
    <3>1. typing = NoTyping
      BY <2>1, <2>3
    <3>2. typing.field = NoField /\ Finalized(typing) = {}
      BY <3>1 DEF NoTyping, Finalized
    <3>3. CASE ImeTarget(refresher.frame) = NoField
      BY <1>19, <3>1, <3>2, <3>3 DEF RefreshTrack, CommitInFlight
    <3>4. CASE ImeTarget(refresher.frame) # NoField
      <4>1. /\ pending' = pending \cup Finalized(typing)
            /\ typing' = StartedOn(fresh, refresher.frame)
        BY <1>19, <3>2, <3>4 DEF RefreshTrack
      <4>2. typing'.text = refresher.frame.text
        BY <4>1 DEF StartedOn
      <4> QED
        BY <3>2, <4>1, <4>2
    <3> QED
      BY <3>3, <3>4
  <2> QED
    BY <2>1, <2>2, <2>3
<1>20. CASE RefreshStore
  BY <1>20 DEF RefreshStore
<1>21. CASE RefreshEnd
  BY <1>21 DEF RefreshEnd
<1>22. CASE Pause
  BY <1>22 DEF Pause, CommitInFlight, Caught
<1>23. CASE Resume
  BY <1>23 DEF Resume
<1>24. CASE Stop
  BY <1>24 DEF Stop
<1>25. CASE Human
  BY <1>25, HumanKeepsSession
<1>26. CASE UNCHANGED vars
  BY <1>26 DEF vars
<1> QED
  BY <1>1, <1>2, <1>3, <1>4, <1>5, <1>6, <1>7, <1>8, <1>9, <1>10, <1>11,
     <1>12, <1>13, <1>14, <1>15, <1>16, <1>17, <1>18, <1>19, <1>20, <1>21,
     <1>22, <1>23, <1>24, <1>25, <1>26 DEF Next, Main, Refresh

\* After a stop nothing staged is left unreported, wherever the two threads were
\* when the deadline came, and whether or not the join timed out; a field is left
\* in flight only by a join that did, with the text of the dump it gave up on.
THEOREM NothingTypedIsUnreported == Spec => []StopReports
<1>1. StopInv => StopReports
  BY DEF StopInv, StopReports, Drained, Late
<1> QED
  BY InitStopInv, StepStopInv, <1>1, PTL DEF Spec

(***************************************************************************)
(* Typed text stays in its app.  A namespace belongs to the coarse         *)
(* fingerprint of an id, and no rename of the gate changes that: a split   *)
(* or a coarsening renames inside one family.                              *)
(***************************************************************************)
\* Only twins are marked, and with their own coarse fingerprint.
MarksOwn(s) ==
  \A n \in DOMAIN s : \A c : s[n].coarse = Gate!Fid(c) => n[1] = "T" /\ CoarseOf(n) = c

KeepsCoarse(r) == \A n \in DOMAIN r : CoarseOf(r[n]) = CoarseOf(n)

\* What the gate renames keeps its coarse fingerprint.
LEMMA RenamingKeepsCoarse ==
  ASSUME NEW c, NEW d, MarksOwn(screens)
  PROVE  KeepsCoarse(Gate!Renaming(c, d))
<1>1. CASE Gate!Collides(c, d)
  BY <1>1 DEF Gate!Renaming, KeepsCoarse, CoarseOf, Gate!OldTwin, Gate!Fid, Gate!Tid
<1>2. CASE ~Gate!Collides(c, d) /\ Gate!Overflows(c, d)
  <2>1. Gate!Renaming(c, d) = [n \in Gate!Family(c) |-> Gate!Fid(c)]
    BY <1>2 DEF Gate!Renaming
  <2>2. \A n \in Gate!Family(c) : CoarseOf(n) = c
    BY DEF Gate!Family, Gate!nodes, MarksOwn
  <2> QED
    BY <2>1, <2>2 DEF KeepsCoarse, CoarseOf, Gate!Fid
<1>3. CASE ~Gate!Collides(c, d) /\ ~Gate!Overflows(c, d)
  BY <1>3 DEF Gate!Renaming, KeepsCoarse
<1> QED
  BY <1>1, <1>2, <1>3

\* So a renamed id stays in its namespace.
LEMMA RenamedKeepsNs ==
  ASSUME NEW r, NEW n, KeepsCoarse(r)
  PROVE  NsOf(Gate!Renamed(r, n)) = NsOf(n)
BY DEF KeepsCoarse, NsOf, Gate!Renamed

\* A node minted with no mark.
LEMMA MintKeepsMarks ==
  ASSUME NEW id, MarksOwn(screens), Gate!MintPlain(id)
  PROVE  MarksOwn(screens')
BY DEF MarksOwn, Gate!MintPlain, Gate!nodes, Gate!Fid, Gate!NoScreen

\* And the nodes the gate leaves after a settled observation.
LEMMA GateKeepsMarks ==
  ASSUME NEW c, NEW d, MarksOwn(screens), screens' = Gate!ScreensAfter(c, d)
  PROVE  MarksOwn(screens')
<1> SUFFICES ASSUME NEW n \in DOMAIN screens', NEW k, screens'[n].coarse = Gate!Fid(k)
             PROVE  n[1] = "T" /\ CoarseOf(n) = k
  BY DEF MarksOwn
<1>1. Gate!Fid(k) # Gate!NoScreen /\ \A j : Gate!Fid(j) = Gate!Fid(k) => j = k
  BY DEF Gate!Fid, Gate!NoScreen
<1>2. CASE Gate!Collides(c, d) /\ n = Gate!OldTwin(c)
  <2>1. screens'[n].coarse = Gate!Fid(c)
    BY <1>2 DEF Gate!ScreensAfter
  <2> QED
    BY <1>1, <1>2, <2>1 DEF Gate!OldTwin, Gate!Tid, CoarseOf
<1>3. CASE Gate!Overflows(c, d) /\ n = Gate!Fid(c) /\ ~(Gate!Collides(c, d) /\ n = Gate!OldTwin(c))
  <2>1. screens'[n].coarse = Gate!NoScreen
    BY <1>3 DEF Gate!ScreensAfter
  <2> QED
    BY <1>1, <2>1
<1>4. CASE n \in DOMAIN screens /\ screens'[n].coarse = screens[n].coarse
  BY <1>4 DEF MarksOwn
<1>5. CASE /\ ~(Gate!Collides(c, d) /\ n = Gate!OldTwin(c))
           /\ ~(Gate!Overflows(c, d) /\ n = Gate!Fid(c))
           /\ ~(n \in DOMAIN screens /\ screens'[n].coarse = screens[n].coarse)
  <2>1. n \notin DOMAIN screens
    BY <1>5 DEF Gate!ScreensAfter, Gate!nodes, Gate!Backfills
  <2>2. screens'[n] = Gate!Carriers(c, d)
    BY <1>5, <2>1 DEF Gate!ScreensAfter, Gate!nodes, Gate!Backfills
  <2>3. n = Gate!ResolvedId(c, d)
    BY <1>5, <2>1 DEF Gate!ScreensAfter, Gate!nodes, Gate!Renamed, Gate!Renaming
  <2>4. CASE Gate!IsTwin(c, d)
    BY <1>1, <2>2, <2>3, <2>4 DEF Gate!Carriers, Gate!ResolvedId, Gate!Tid, CoarseOf
  <2>5. CASE ~Gate!IsTwin(c, d)
    BY <1>1, <2>2, <2>5 DEF Gate!Carriers
  <2> QED
    BY <2>4, <2>5
<1> QED
  BY <1>2, <1>3, <1>4, <1>5

EdgeShape(e) == {"from", "to", "on", "bound", "known"} \subseteq DOMAIN e

\* Whatever was typed carries the namespace of the id it is tagged with, and the
\* renames the main thread is about to repair keep that namespace.
AppInv ==
  /\ MarksOwn(screens)
  /\ \A p \in pending : {"screen", "ns"} \subseteq DOMAIN p /\ p.ns = NsOf(p.screen)
  /\ {"field", "screen", "ns", "text"} \subseteq DOMAIN typing
  /\ typing.field = NoField => typing.text = typing.old
  /\ typing.field # NoField => typing.ns = NsOf(typing.screen)
  /\ \A e \in edges : EdgeShape(e) /\ \A p \in e.pre : p.ns = NsOf(e.from)
  /\ "pc" \in DOMAIN main
  /\ main.pc = "repair" => "renames" \in DOMAIN main /\ KeepsCoarse(main.renames)

AppVars == <<screens, pending, typing, edges, main>>

\* What finalizing the field in flight stages.
LEMMA FinalizedInApp ==
  ASSUME AppInv, NEW p \in Finalized(typing)
  PROVE  {"screen", "ns"} \subseteq DOMAIN p /\ p.ns = NsOf(p.screen)
<1>1. typing.text # typing.old
  BY DEF Finalized
<1>2. p = [screen |-> typing.screen, ns |-> typing.ns, text |-> typing.text, on |-> typing.on]
  BY DEF Finalized
<1> QED
  BY <1>1, <1>2 DEF AppInv

\* Nothing is in flight after it.
LEMMA CommitInApp ==
  ASSUME AppInv, CommitInFlight
  PROVE  /\ \A p \in pending' : {"screen", "ns"} \subseteq DOMAIN p /\ p.ns = NsOf(p.screen)
         /\ {"field", "screen", "ns", "text"} \subseteq DOMAIN typing'
         /\ typing'.field = NoField /\ typing'.text = typing'.old
BY FinalizedInApp DEF AppInv, CommitInFlight, NoTyping

\* A field is tagged with a screen of its own app.
LEMMA TagInApp ==
  ASSUME NEW f, NEW prev
  PROVE  StartedOn(prev, f).ns = NsOf(StartedOn(prev, f).screen)
BY DEF StartedOn, TagOf, NsIn, NsOf, CoarseOf, Gate!Fid

\* Initially nothing was typed.
LEMMA InitAppInv == Init => AppInv
BY DEF Init, AppInv, MarksOwn, NoTyping, Settling

\* The steps that leave screens, edges and typing alone and commit no rename.
LEMMA QuietKeepsAppInv ==
  ASSUME AppInv,
         UNCHANGED <<screens, edges, typing>>, pending' \subseteq pending,
         "pc" \in DOMAIN main', main'.pc = "repair" => main' = main
  PROVE  AppInv'
BY DEF AppInv

\* The steps that finalize the field in flight.
LEMMA CommitKeepsAppInv ==
  ASSUME AppInv, CommitInFlight, UNCHANGED <<screens, edges>>,
         "pc" \in DOMAIN main', main'.pc # "repair"
  PROVE  AppInv'
BY CommitInApp DEF AppInv

\* Every step keeps it.
LEMMA StepAppInv == AppInv /\ [Next]_vars => AppInv'
<1> SUFFICES ASSUME AppInv, [Next]_vars PROVE AppInv'
  OBVIOUS
<1>1. CASE Ignore
  BY <1>1, QuietKeepsAppInv DEF Ignore, graphVars, textVars, AppInv
<1>2. CASE TakeTap
  BY <1>2, QuietKeepsAppInv DEF TakeTap, graphVars, textVars, AppInv
<1>3. CASE Submit
  BY <1>3, CommitKeepsAppInv DEF Submit, graphVars, AppInv
<1>4. CASE Reconcile
  <2>1. "pc" \in DOMAIN main' /\ main'.pc \in {"follow", "bind"}
    BY <1>4 DEF Reconcile, AppInv
  <2>2. CASE Moved
    BY <1>4, <2>1, <2>2, CommitKeepsAppInv DEF Reconcile, graphVars
  <2>3. CASE ~Moved
    BY <1>4, <2>1, <2>3, QuietKeepsAppInv DEF Reconcile, graphVars
  <2> QED
    BY <2>2, <2>3
<1>5. CASE Follow
  <2>1. MarksOwn(screens')
    BY <1>5, MintKeepsMarks DEF Follow, AppInv
  <2> QED
    BY <1>5, <2>1 DEF Follow, AppInv
<1>6. CASE Bind
  BY <1>6, QuietKeepsAppInv DEF Bind, graphVars, textVars, AppInv
<1>7. CASE SettleDump
  BY <1>7, QuietKeepsAppInv DEF SettleDump, graphVars, textVars, AppInv
<1>8. CASE SettleGivesUp
  BY <1>8, QuietKeepsAppInv DEF SettleGivesUp, graphVars, textVars, AppInv
<1>9. CASE Enter
  <2> DEFINE v == main.frame.view
             settled == main.streak >= Need
             id == IF settled THEN Gate!ResolvedId(v[1], v[2]) ELSE Gate!Vid(v[1])
             r == IF settled THEN Gate!Renaming(v[1], v[2]) ELSE [n \in {} |-> Nobody]
  <2>1. MarksOwn(screens')
    <3>1. CASE settled
      <4>1. screens' = Gate!ScreensAfter(v[1], v[2])
        BY <1>9, <3>1 DEF Enter
      <4> QED
        BY <4>1, GateKeepsMarks DEF AppInv
    <3>2. CASE ~settled
      <4>1. Gate!MintPlain(id)
        BY <1>9, <3>2 DEF Enter
      <4> QED
        BY <4>1, MintKeepsMarks DEF AppInv
    <3> QED
      BY <3>1, <3>2
  <2>2. KeepsCoarse(r)
    <3>1. CASE settled
      BY <3>1, RenamingKeepsCoarse DEF AppInv
    <3>2. CASE ~settled
      BY <3>2 DEF KeepsCoarse
    <3> QED
      BY <3>1, <3>2
  <2>3. /\ edges' = Renames(r, edges)
        /\ main' = [pc |-> "repair", why |-> main.why, gesture |-> main.gesture,
                    source |-> Gate!Renamed(r, main.source), bound |-> main.bound,
                    known |-> main.known, frame |-> main.frame, target |-> id, renames |-> r]
        /\ UNCHANGED <<pending, typing>>
    BY <1>9 DEF Enter, textVars
  <2> HIDE DEF r, id, v, settled
  <2>4. ASSUME NEW e \in edges'
        PROVE  EdgeShape(e) /\ \A p \in e.pre : p.ns = NsOf(e.from)
    <3>1. PICK o \in edges :
            e = [o EXCEPT !.from = Gate!Renamed(r, o.from), !.to = Gate!Renamed(r, o.to)]
      BY <2>3 DEF Renames
    <3>2. EdgeShape(o) /\ \A p \in o.pre : p.ns = NsOf(o.from)
      BY DEF AppInv
    <3>3. e.from = Gate!Renamed(r, o.from) /\ e.pre = o.pre /\ DOMAIN e = DOMAIN o
      BY <3>1, <3>2 DEF EdgeShape
    <3> QED
      BY <2>2, <3>2, <3>3, RenamedKeepsNs DEF EdgeShape
  <2> QED
    BY <2>1, <2>2, <2>3, <2>4 DEF AppInv
<1>10. CASE Repair
  <2>1. KeepsCoarse(main.renames)
    BY <1>10 DEF Repair, AppInv
  <2>2. ASSUME NEW p \in pending'
        PROVE  {"screen", "ns"} \subseteq DOMAIN p /\ p.ns = NsOf(p.screen)
    <3>1. PICK o \in pending : p = [o EXCEPT !.screen = Gate!Renamed(main.renames, o.screen)]
      BY <1>10 DEF Repair
    <3> QED
      BY <2>1, <3>1, RenamedKeepsNs DEF AppInv
  <2>3. typing' = [typing EXCEPT !.screen = Gate!Renamed(main.renames, typing.screen)]
    BY <1>10 DEF Repair, TypingAfter
  <2>4. /\ {"field", "screen", "ns", "text"} \subseteq DOMAIN typing'
        /\ typing'.field = NoField => typing'.text = typing'.old
        /\ typing'.field # NoField => typing'.ns = NsOf(typing'.screen)
    BY <2>1, <2>3, RenamedKeepsNs DEF AppInv
  <2>5. "pc" \in DOMAIN main' /\ main'.pc = "commit"
    BY <1>10 DEF Repair, AppInv
  <2> QED
    BY <1>10, <2>2, <2>4, <2>5 DEF Repair, AppInv
<1>11. CASE CommitTap
  <2>1. main' = Idle /\ UNCHANGED <<screens, typing>>
    BY <1>11 DEF CommitTap
  <2>2. CASE main.source = main.target /\ ~Volatile(main.source)
    BY <1>11, <2>1, <2>2, QuietKeepsAppInv DEF CommitTap, Idle
  <2>3. CASE ~(main.source = main.target /\ ~Volatile(main.source))
    <3> DEFINE pre == {[ns |-> p.ns, on |-> p.on, text |-> p.text] : p \in Mine(main.source)}
    <3>1. edges' = edges \cup {Edge(pre)} /\ pending' \subseteq pending
      BY <1>11, <2>3 DEF CommitTap, Rest
    <3>2. \A p \in Mine(main.source) : p.ns = NsOf(main.source)
      BY DEF Mine, Bridges, AppInv
    <3>3. \A q \in pre : q.ns = NsOf(main.source)
      BY <3>2
    <3> HIDE DEF pre
    <3>4. ASSUME NEW e \in edges'
          PROVE  EdgeShape(e) /\ \A p \in e.pre : p.ns = NsOf(e.from)
      BY <3>1, <3>3 DEF Edge, EdgeShape, AppInv
    <3> QED
      BY <2>1, <3>1, <3>4 DEF AppInv, Idle
  <2> QED
    BY <2>2, <2>3
<1>12. CASE Anchor
  BY <1>12, QuietKeepsAppInv DEF Anchor, Idle, graphVars, textVars, AppInv
<1>13. CASE PauseSet
  BY <1>13, QuietKeepsAppInv DEF PauseSet, Idle, graphVars, textVars, AppInv
<1>14. CASE ResetTyping
  BY <1>14 DEF ResetTyping, AppInv, Settling, NoTyping, graphVars
<1>15. CASE Join
  BY <1>15, QuietKeepsAppInv DEF Join, graphVars, textVars, AppInv
<1>16. CASE LastText
  BY <1>16, CommitKeepsAppInv DEF LastText, graphVars, AppInv
<1>17. CASE Report
  BY <1>17, QuietKeepsAppInv DEF Report, graphVars, textVars, AppInv
<1>18. CASE RefreshDump
  BY <1>18, QuietKeepsAppInv DEF RefreshDump, graphVars, textVars, AppInv
<1>19. CASE RefreshTrack
  <2> DEFINE f == refresher.frame
             t == ImeTarget(f)
             entered == StartedOn(fresh, f)
  <2>0. UNCHANGED <<screens, edges, main>>
    BY <1>19 DEF RefreshTrack, graphVars
  <2>1. CASE /\ t # NoField /\ t # typing.field
             /\ pending' = pending \cup Finalized(typing)
             /\ typing' = entered
    <3>1. {"field", "screen", "ns", "text"} \subseteq DOMAIN entered /\ entered.field = t
      BY DEF StartedOn
    <3>2. entered.ns = NsOf(entered.screen)
      BY TagInApp
    <3> HIDE DEF f, entered, t
    <3>3. \A p \in pending' : {"screen", "ns"} \subseteq DOMAIN p /\ p.ns = NsOf(p.screen)
      BY <2>1, FinalizedInApp DEF AppInv
    <3> QED
      BY <2>0, <2>1, <3>1, <3>2, <3>3 DEF AppInv
  <2>2. CASE /\ t # NoField /\ t = typing.field
             /\ typing' = [typing EXCEPT !.text = f.text]
             /\ UNCHANGED pending
    BY <2>0, <2>2 DEF AppInv
  <2>3. CASE CommitInFlight
    BY <2>0, <2>3, CommitInApp DEF AppInv
  <2> QED
    BY <1>19, <2>1, <2>2, <2>3 DEF RefreshTrack
<1>20. CASE RefreshStore
  BY <1>20, QuietKeepsAppInv DEF RefreshStore, graphVars, textVars, AppInv
<1>21. CASE RefreshEnd
  BY <1>21, QuietKeepsAppInv DEF RefreshEnd, graphVars, textVars, AppInv
<1>22. CASE Pause
  BY <1>22, CommitKeepsAppInv DEF Pause, graphVars, AppInv
<1>23. CASE Resume
  BY <1>23, QuietKeepsAppInv DEF Resume, graphVars, textVars, AppInv
<1>24. CASE Stop
  BY <1>24, QuietKeepsAppInv DEF Stop, graphVars, textVars, AppInv
<1>25. CASE Human
  BY <1>25, HumanKeepsSession, QuietKeepsAppInv DEF graphVars, textVars, AppInv
<1>26. CASE UNCHANGED vars
  BY <1>26, QuietKeepsAppInv DEF vars, graphVars, textVars, AppInv
<1> QED
  BY <1>1, <1>2, <1>3, <1>4, <1>5, <1>6, <1>7, <1>8, <1>9, <1>10, <1>11,
     <1>12, <1>13, <1>14, <1>15, <1>16, <1>17, <1>18, <1>19, <1>20, <1>21,
     <1>22, <1>23, <1>24, <1>25, <1>26 DEF Next, Main, Refresh

\* Typed text never rides an edge out of another app, however far the main
\* thread lags behind the human and whatever the gate renames meanwhile.
THEOREM TextNeverLeavesItsApp == Spec => []TextStaysInApp
<1>1. AppInv => TextStaysInApp
  BY DEF AppInv, TextStaysInApp
<1> QED
  BY InitAppInv, StepAppInv, <1>1, PTL DEF Spec

(***************************************************************************)
(* A patient human's taps.  The recorder had caught up when the tap was    *)
(* made and the refresher cannot outrun its handling, so the live frame    *)
(* stays the one that was tapped until the tap is bound; reconcile then    *)
(* moves the recorder to that frame's screen, unless the gate cannot tell  *)
(* which one it is.                                                        *)
(***************************************************************************)
Handling == {"submit", "reconcile", "follow", "bind"}
Observing == {"settle", "enter", "repair", "commit"}

\* Which locals the main thread has at each point.
MainShape ==
  /\ "pc" \in DOMAIN main
  /\ main.pc \in Handling => "gesture" \in DOMAIN main
  /\ main.pc \in Observing =>
       {"why", "gesture", "source", "bound", "known", "frame"} \subseteq DOMAIN main
  /\ main.pc \in {"repair", "commit"} => {"target", "renames"} \subseteq DOMAIN main

\* The live frame is the one the gesture touched, and stays it.
Live(g) ==
  /\ fresh.frame.view = g.on /\ fresh.stable = 1
  /\ refresher.pc \notin {"track", "store"}

\* The screen the recorder stands on is a node, once repaired, and is the screen
\* of its arrival frame.
StandsOnNode ==
  /\ Nobody \notin DOMAIN screens
  /\ current = Nobody \/ (main.pc # "repair" => current \in DOMAIN screens)
  /\ main.pc = "repair" =>
       /\ Nobody \notin DOMAIN main.renames
       /\ current # Nobody => Gate!Renamed(main.renames, current) \in DOMAIN screens \ {Nobody}
  /\ CoarseOf(current) = CoarseIn(csnap)
  /\ main.pc \in {"repair", "commit"} =>
       /\ main.target \in DOMAIN screens
       /\ CoarseOf(main.target) = CoarseIn(main.frame)
  /\ main.pc = "follow" => main.id # Nobody /\ CoarseOf(main.id) = CoarseIn(main.frame)
  /\ fresh # NoFresh \/ refresher.pc \in {"track", "store"} => current # Nobody

\* Where the tap being handled is attributed.
Attributed ==
  /\ queue = <<>> \/ \E g : /\ queue = <<g>>
                            /\ main.pc \in Closing \cup {"idle", "join"}
                            /\ paused \/ Live(g)
  /\ main.pc \in Handling => queue = <<>> /\ Live(main.gesture)
  /\ main.pc = "follow" => main.frame = fresh.frame
  /\ main.pc = "bind" => CoarseOf(current) = main.gesture.on[1] \/ LiveId = Nobody
  /\ main.pc \in Observing /\ main.known =>
       CoarseOf(main.source) = main.gesture.on[1] /\ main.bound = TRUE

TapInv ==
  /\ AppInv
  /\ MainShape
  /\ StandsOnNode
  /\ ~eager => Attributed
  /\ TapAttributed

\* The locals the main thread has follow from where it is.
LEMMA StepMainShape == MainShape /\ [Next]_vars => MainShape'
<1> SUFFICES ASSUME MainShape, [Next]_vars PROVE MainShape'
  OBVIOUS
<1> USE DEF MainShape, Handling, Observing, Idle
<1>1. CASE Ignore
  BY <1>1 DEF Ignore
<1>2. CASE TakeTap
  BY <1>2 DEF TakeTap
<1>3. CASE Submit
  BY <1>3 DEF Submit
<1>4. CASE Reconcile
  BY <1>4 DEF Reconcile
<1>5. CASE Follow
  BY <1>5 DEF Follow
<1>6. CASE Bind
  BY <1>6 DEF Bind
<1>7. CASE SettleDump
  BY <1>7 DEF SettleDump
<1>8. CASE SettleGivesUp
  BY <1>8 DEF SettleGivesUp
<1>9. CASE Enter
  BY <1>9 DEF Enter
<1>10. CASE Repair
  BY <1>10 DEF Repair
<1>11. CASE CommitTap
  BY <1>11 DEF CommitTap
<1>12. CASE Anchor
  BY <1>12 DEF Anchor
<1>13. CASE PauseSet
  BY <1>13 DEF PauseSet
<1>14. CASE ResetTyping
  BY <1>14 DEF ResetTyping, Settling
<1>15. CASE Join
  BY <1>15 DEF Join
<1>16. CASE LastText
  BY <1>16 DEF LastText
<1>17. CASE Report
  BY <1>17 DEF Report
<1>18. CASE RefreshDump
  BY <1>18 DEF RefreshDump
<1>19. CASE RefreshTrack
  BY <1>19 DEF RefreshTrack
<1>20. CASE RefreshStore
  BY <1>20 DEF RefreshStore
<1>21. CASE RefreshEnd
  BY <1>21 DEF RefreshEnd
<1>22. CASE Pause
  BY <1>22 DEF Pause, Caught
<1>23. CASE Resume
  BY <1>23 DEF Resume
<1>24. CASE Stop
  BY <1>24 DEF Stop
<1>25. CASE Human
  BY <1>25, HumanKeepsSession
<1>26. CASE UNCHANGED vars
  BY <1>26 DEF vars
<1> QED
  BY <1>1, <1>2, <1>3, <1>4, <1>5, <1>6, <1>7, <1>8, <1>9, <1>10, <1>11,
     <1>12, <1>13, <1>14, <1>15, <1>16, <1>17, <1>18, <1>19, <1>20, <1>21,
     <1>22, <1>23, <1>24, <1>25, <1>26 DEF Next, Main, Refresh

\* The gate loses no id: a renamed one is a node under its new name, and the id of
\* the observation is one.
LEMMA GateKeepsNodes ==
  ASSUME NEW c, NEW d, Nobody \notin DOMAIN screens
  PROVE  LET r == Gate!Renaming(c, d)
             s == Gate!ScreensAfter(c, d)
         IN  /\ Nobody \notin DOMAIN r
             /\ \A n \in DOMAIN screens : Gate!Renamed(r, n) \in DOMAIN s
             /\ Nobody \notin DOMAIN s
             /\ Gate!ResolvedId(c, d) \in DOMAIN s
<1> DEFINE r == Gate!Renaming(c, d)
           s == Gate!ScreensAfter(c, d)
<1>1. DOMAIN s = {Gate!Renamed(r, m) : m \in DOMAIN screens} \cup {Gate!ResolvedId(c, d)}
  BY DEF Gate!ScreensAfter, Gate!nodes
<1>2. DOMAIN r \subseteq DOMAIN screens
  BY DEF Gate!Renaming, Gate!Collides, Gate!Family, Gate!nodes
<1>3. Gate!ResolvedId(c, d) # Nobody
  BY DEF Gate!ResolvedId, Gate!Tid, Gate!Fid, Nobody, Gate!NoScreen
<1>4. \A n \in DOMAIN r : r[n] # Nobody
  BY DEF Gate!Renaming, Gate!OldTwin, Gate!Tid, Gate!Fid, Nobody, Gate!NoScreen
<1>5. \A n \in DOMAIN screens : Gate!Renamed(r, n) # Nobody
  BY <1>4 DEF Gate!Renamed
<1> QED
  BY <1>1, <1>2, <1>3, <1>5

\* Minting one loses none either.
LEMMA MintKeepsNodes ==
  ASSUME NEW id, id # Nobody, Nobody \notin DOMAIN screens, Gate!MintPlain(id)
  PROVE  DOMAIN screens' = DOMAIN screens \cup {id} /\ Nobody \notin DOMAIN screens'
BY DEF Gate!MintPlain, Gate!nodes

\* The id an observation resolves to, and the one a lookup finds, are of the view
\* that was seen.
LEMMA IdsOfView ==
  ASSUME NEW c, NEW d
  PROVE  /\ CoarseOf(Gate!ResolvedId(c, d)) = c
         /\ CoarseOf(Gate!Vid(c)) = c /\ Gate!Vid(c) # Nobody
         /\ Gate!LookupId(c, d) # Nobody => CoarseOf(Gate!LookupId(c, d)) = c
<1>1. CoarseOf(Gate!ResolvedId(c, d)) = c
  BY DEF Gate!ResolvedId, Gate!Fid, Gate!Tid, CoarseOf
<1>2. CoarseOf(Gate!Vid(c)) = c /\ Gate!Vid(c) # Nobody
  BY DEF Gate!Vid, Nobody, Gate!NoScreen, CoarseOf
<1>3. CASE c \in Launchers \/ Gate!Fid(c) \in Gate!nodes
  BY <1>1, <1>2, <1>3 DEF Gate!LookupId, Gate!Fid, CoarseOf
<1>4. CASE c \notin Launchers /\ Gate!Fid(c) \notin Gate!nodes
           /\ d # NoDigest /\ Gate!Tid(c, d) \in Gate!nodes
  BY <1>1, <1>2, <1>4 DEF Gate!LookupId, Gate!Tid, CoarseOf
<1>5. CASE /\ ~(c \in Launchers \/ Gate!Fid(c) \in Gate!nodes)
           /\ ~(c \notin Launchers /\ Gate!Fid(c) \notin Gate!nodes
                /\ d # NoDigest /\ Gate!Tid(c, d) \in Gate!nodes)
  <2>1. Gate!LookupId(c, d) = IF Gate!Family(c) # {} THEN Nobody ELSE Gate!Fid(c)
    BY <1>5 DEF Gate!LookupId, Nobody
  <2> QED
    BY <1>1, <1>2, <2>1 DEF Gate!Fid, CoarseOf
<1> QED
  BY <1>3, <1>4, <1>5

\* Initially the recorder stands nowhere.
LEMMA InitStandsOnNode == Init => StandsOnNode
BY DEF Init, StandsOnNode, Settling, NoFresh, Nobody, Gate!NoScreen, NoFrame, CoarseOf, CoarseIn

\* Every step keeps the recorder on a node of its arrival frame's screen.
LEMMA StepStandsOnNode ==
  AppInv /\ MainShape /\ StandsOnNode /\ [Next]_vars => StandsOnNode'
<1> SUFFICES ASSUME AppInv, MainShape, StandsOnNode, [Next]_vars PROVE StandsOnNode'
  OBVIOUS
<1> USE DEF StandsOnNode, Idle
<1>1. CASE Ignore
  BY <1>1 DEF Ignore, graphVars
<1>2. CASE TakeTap
  BY <1>2 DEF TakeTap, graphVars
<1>3. CASE Submit
  <2>1. main'.pc \in {"reconcile", "report", "stopped"}
    BY <1>3 DEF Submit, MainShape
  <2> QED
    BY <1>3, <2>1 DEF Submit, graphVars
<1>4. CASE Reconcile
  <2>1. UNCHANGED <<screens, current, csnap, fresh, refresher>>
    BY <1>4 DEF Reconcile, graphVars
  <2>2. CASE Moved
    <3>1. main' = [pc |-> "follow", gesture |-> main.gesture, frame |-> fresh.frame, id |-> LiveId]
      BY <1>4, <2>2 DEF Reconcile
    <3>2. LiveId # Nobody /\ CoarseOf(LiveId) = CoarseIn(fresh.frame)
      BY <2>2, IdsOfView DEF Moved, LiveId, CoarseIn
    <3> QED
      BY <1>4, <2>1, <3>1, <3>2 DEF Reconcile
  <2>3. CASE ~Moved
    BY <1>4, <2>1, <2>3 DEF Reconcile, MainShape
  <2> QED
    BY <2>2, <2>3
<1>5. CASE Follow
  <2>1. DOMAIN screens' = DOMAIN screens \cup {main.id} /\ Nobody \notin DOMAIN screens'
    BY <1>5, MintKeepsNodes DEF Follow
  <2> QED
    BY <1>5, <2>1 DEF Follow
<1>6. CASE Bind
  BY <1>6 DEF Bind, graphVars
<1>7. CASE SettleDump
  <2>1. main'.pc \in {"settle", "enter"}
    BY <1>7 DEF SettleDump, MainShape
  <2> QED
    BY <1>7, <2>1 DEF SettleDump, graphVars
<1>8. CASE SettleGivesUp
  <2>1. main'.pc \in {"settle", "enter"}
    BY <1>8 DEF SettleGivesUp, MainShape
  <2> QED
    BY <1>8, <2>1 DEF SettleGivesUp, graphVars
<1>9. CASE Enter
  <2> DEFINE v == main.frame.view
             settled == main.streak >= Need
             id == IF settled THEN Gate!ResolvedId(v[1], v[2]) ELSE Gate!Vid(v[1])
             r == IF settled THEN Gate!Renaming(v[1], v[2]) ELSE [n \in {} |-> Nobody]
  <2>1. /\ main' = [pc |-> "repair", why |-> main.why, gesture |-> main.gesture,
                    source |-> Gate!Renamed(r, main.source), bound |-> main.bound,
                    known |-> main.known, frame |-> main.frame, target |-> id, renames |-> r]
        /\ UNCHANGED <<current, csnap, refresher>>
        /\ fresh' \in {fresh, NoFresh}
        /\ main.pc = "enter"
    BY <1>9 DEF Enter
  <2>2. /\ Nobody \notin DOMAIN r
        /\ \A n \in DOMAIN screens : Gate!Renamed(r, n) \in DOMAIN screens'
        /\ Nobody \notin DOMAIN screens'
        /\ id \in DOMAIN screens'
    <3>1. CASE settled
      <4>1. screens' = Gate!ScreensAfter(v[1], v[2])
        BY <1>9, <3>1 DEF Enter
      <4> QED
        BY <3>1, <4>1, GateKeepsNodes
    <3>2. CASE ~settled
      <4>1. Gate!MintPlain(id)
        BY <1>9, <3>2 DEF Enter
      <4>2. id # Nobody
        BY <3>2, IdsOfView
      <4>3. DOMAIN screens' = DOMAIN screens \cup {id} /\ Nobody \notin DOMAIN screens'
        BY <4>1, <4>2, MintKeepsNodes
      <4> QED
        BY <3>2, <4>3 DEF Gate!Renamed
    <3> QED
      BY <3>1, <3>2
  <2>3. CoarseOf(id) = CoarseIn(main.frame)
    BY IdsOfView DEF CoarseIn
  <2> HIDE DEF id, r
  <2>4. current # Nobody => Gate!Renamed(r, current) \in DOMAIN screens' \ {Nobody}
    BY <2>1, <2>2
  <2> QED
    BY <2>1, <2>2, <2>3, <2>4
<1>10. CASE Repair
  <2>1. /\ current' = Gate!Renamed(main.renames, current)
        /\ UNCHANGED <<screens, csnap, fresh, refresher>>
        /\ main' = [main EXCEPT !.pc = "commit", !.renames = [n \in {} |-> Nobody]]
        /\ main.pc = "repair"
    BY <1>10 DEF Repair
  <2>2. /\ main'.pc = "commit" /\ main'.target = main.target /\ main'.frame = main.frame
    BY <2>1 DEF MainShape, Observing
  <2>3. CoarseOf(current') = CoarseOf(current)
    BY <2>1 DEF AppInv, KeepsCoarse, Gate!Renamed
  <2>4. current = Nobody => current' = Nobody
    BY <2>1 DEF Gate!Renamed
  <2> QED
    BY <2>1, <2>2, <2>3, <2>4
<1>11. CASE CommitTap
  BY <1>11 DEF CommitTap, graphVars
<1>12. CASE Anchor
  BY <1>12 DEF Anchor, graphVars
<1>13. CASE PauseSet
  BY <1>13 DEF PauseSet, graphVars
<1>14. CASE ResetTyping
  BY <1>14 DEF ResetTyping, Settling, graphVars
<1>15. CASE Join
  BY <1>15 DEF Join, graphVars
<1>16. CASE LastText
  <2>1. main'.pc \in {"reconcile", "report", "stopped"}
    BY <1>16 DEF LastText, MainShape
  <2> QED
    BY <1>16, <2>1 DEF LastText, graphVars
<1>17. CASE Report
  <2>1. main'.pc \in {"reconcile", "report", "stopped"}
    BY <1>17 DEF Report, MainShape
  <2> QED
    BY <1>17, <2>1 DEF Report, graphVars
<1>18. CASE RefreshDump
  BY <1>18 DEF RefreshDump, graphVars
<1>19. CASE RefreshTrack
  BY <1>19 DEF RefreshTrack, graphVars
<1>20. CASE RefreshStore
  BY <1>20 DEF RefreshStore, graphVars
<1>21. CASE RefreshEnd
  BY <1>21 DEF RefreshEnd, graphVars
<1>22. CASE Pause
  BY <1>22 DEF Pause, Caught, graphVars
<1>23. CASE Resume
  BY <1>23 DEF Resume, graphVars
<1>24. CASE Stop
  BY <1>24 DEF Stop, graphVars
<1>25. CASE Human
  BY <1>25, HumanKeepsSession DEF graphVars
<1>26. CASE UNCHANGED vars
  BY <1>26 DEF vars, graphVars
<1> QED
  BY <1>1, <1>2, <1>3, <1>4, <1>5, <1>6, <1>7, <1>8, <1>9, <1>10, <1>11,
     <1>12, <1>13, <1>14, <1>15, <1>16, <1>17, <1>18, <1>19, <1>20, <1>21,
     <1>22, <1>23, <1>24, <1>25, <1>26 DEF Next, Main, Refresh

\* What the lookup says changes only with the live frame and the nodes.
LEMMA LiveIdKept == UNCHANGED <<fresh, screens>> => LiveId' = LiveId
BY DEF LiveId, Gate!LookupId, Gate!nodes, Gate!Family

\* A patient human touches what the recorder has caught up with.
LEMMA PatientTouch ==
  ASSUME ~eager, Human
  PROVE  \/ queue' = queue
         \/ /\ Caught
            /\ \E g : queue' = Append(queue, g) /\ g.on = display.view
BY DEF Human, TapField, PressKey, HideKeyboard, TapControl, Drift, Touches

\* Facts of sequences and records that the steps below need.
LEMMA TailOfOne == ASSUME NEW g PROVE Tail(<<g>>) = <<>>
OBVIOUS

LEMMA BindsLiveFirst ==
  ASSUME fresh # NoFresh, NsIn(fresh.frame) = NsOf(current)
  PROVE  Bindable[1] = fresh.frame.view
<1>1. Bindable = <<fresh.frame.view>> \o <<csnap.view>>
  BY DEF Bindable
<1>2. \A a, b : (<<a>> \o <<b>>)[1] = a
  OBVIOUS
<1> QED
  BY <1>1, <1>2

LEMMA LiveIsFresh == ASSUME NEW f, f.stable = 1 PROVE f # NoFresh /\ f.stable >= 1
<1>1. NoFresh.stable = 0
  BY DEF NoFresh
<1> QED
  BY <1>1

\* Nothing waits, nothing is handled at first.
LEMMA InitAttributed == Init => Attributed
BY DEF Init, Attributed, Settling, Handling, Observing, Closing

\* Every step keeps a patient human's tap with the screen it was made on.
LEMMA StepAttributed ==
  AppInv /\ MainShape /\ StandsOnNode /\ Attributed /\ ~eager /\ [Next]_vars => Attributed'
<1> SUFFICES ASSUME AppInv, MainShape, StandsOnNode, Attributed, ~eager, [Next]_vars
             PROVE  Attributed'
  OBVIOUS
<1> USE DEF Attributed, Live, Handling, Observing, Closing, Idle
<1>1. CASE Ignore
  <2>1. main' = main /\ main.pc = "idle"
    BY <1>1 DEF Ignore
  <2>2. PICK g : queue = <<g>>
    BY <1>1 DEF Ignore
  <2>3. queue' = Tail(queue)
    BY <1>1 DEF Ignore
  <2>4. queue' = <<>>
    BY <2>2, <2>3, TailOfOne
  <2> QED
    BY <2>1, <2>4
<1>2. CASE TakeTap
  <2>1. PICK g : queue = <<g>> /\ Live(g)
    BY <1>2 DEF TakeTap
  <2>2. queue' = <<>> /\ main' = [pc |-> "submit", gesture |-> g] /\ UNCHANGED <<fresh, refresher>>
    BY <1>2, <2>1 DEF TakeTap
  <2> QED
    BY <2>1, <2>2
<1>3. CASE Submit
  <2>1. /\ main.pc = "submit" /\ main'.pc = "reconcile" /\ main'.gesture = main.gesture
        /\ UNCHANGED <<queue, fresh, refresher>>
    BY <1>3 DEF Submit, MainShape
  <2> QED
    BY <2>1
<1>4. CASE Reconcile
  <2>1. UNCHANGED <<screens, current, queue, fresh, refresher>> /\ main.pc = "reconcile"
    BY <1>4 DEF Reconcile, graphVars
  <2>2. CASE Moved
    <3>1. main' = [pc |-> "follow", gesture |-> main.gesture, frame |-> fresh.frame, id |-> LiveId]
      BY <1>4, <2>2 DEF Reconcile
    <3> QED
      BY <2>1, <3>1
  <2>3. CASE ~Moved
    <3>1. main'.pc = "bind" /\ main'.gesture = main.gesture
      BY <1>4, <2>3 DEF Reconcile, MainShape
    <3>2. fresh.frame.view = main.gesture.on /\ fresh.stable = 1
      BY <2>1
    <3>3. fresh # NoFresh /\ fresh.stable >= 1
      BY <3>2, LiveIsFresh
    <3>4. current \in DOMAIN screens
      BY <2>1, <3>3 DEF StandsOnNode
    <3>5. \/ CoarseIn(fresh.frame) \in {CoarseOf(current), CoarseIn(csnap)}
          \/ LiveId \in {Nobody, current}
      BY <2>3, <3>2, <3>3, <3>4 DEF Moved
    <3>6. LiveId # Nobody => CoarseOf(LiveId) = CoarseIn(fresh.frame)
      BY IdsOfView DEF LiveId, CoarseIn
    <3>7. CoarseOf(current) = main.gesture.on[1] \/ LiveId = Nobody
      BY <3>2, <3>5, <3>6 DEF StandsOnNode, CoarseIn
    <3> QED
      BY <2>1, <3>1, <3>7, LiveIdKept
  <2> QED
    BY <2>2, <2>3
<1>5. CASE Follow
  <2>1. /\ main.pc = "follow" /\ main' = [pc |-> "bind", gesture |-> main.gesture]
        /\ current' = main.id /\ UNCHANGED <<queue, fresh, refresher>>
    BY <1>5 DEF Follow
  <2>2. CoarseOf(current') = main.gesture.on[1]
    BY <2>1 DEF StandsOnNode, CoarseIn
  <2> QED
    BY <2>1, <2>2
<1>6. CASE Bind
  <2>1. PICK bound \in IF Bindable[1] = main.gesture.on THEN {Bindable[1]} ELSE ToSet(Bindable) :
          main' = [pc |-> "settle", why |-> "gesture", gesture |-> main.gesture, source |-> current,
                   bound |-> bound = main.gesture.on, known |-> LiveId # Nobody,
                   frame |-> NoFrame, streak |-> 0]
    BY <1>6 DEF Bind
  <2>2. main.pc = "bind" /\ UNCHANGED queue
    BY <1>6 DEF Bind
  <2>3. ASSUME LiveId # Nobody
        PROVE  CoarseOf(current) = main.gesture.on[1] /\ bound = main.gesture.on
    <3>1. CoarseOf(current) = main.gesture.on[1]
      BY <2>2, <2>3
    <3>2. fresh.frame.view = main.gesture.on /\ fresh # NoFresh
      BY <2>2, LiveIsFresh
    <3>3. NsIn(fresh.frame) = NsOf(current)
      BY <3>1, <3>2 DEF NsIn, NsOf, CoarseIn
    <3>4. Bindable[1] = fresh.frame.view
      BY <3>2, <3>3, BindsLiveFirst
    <3> QED
      BY <2>1, <3>1, <3>2, <3>4
  <2>4. /\ main'.pc = "settle" /\ main'.source = current /\ main'.gesture = main.gesture
        /\ main'.known = (LiveId # Nobody) /\ main'.bound = (bound = main.gesture.on)
    BY <2>1
  <2>5. main'.known => CoarseOf(main'.source) = main'.gesture.on[1] /\ main'.bound = TRUE
    BY <2>3, <2>4
  <2> QED
    BY <2>2, <2>4, <2>5
<1>7. CASE SettleDump
  <2>1. /\ main.pc = "settle" /\ main'.pc \in {"settle", "enter"} /\ UNCHANGED queue
        /\ main'.source = main.source /\ main'.gesture = main.gesture
        /\ main'.known = main.known /\ main'.bound = main.bound
    BY <1>7 DEF SettleDump, MainShape
  <2> QED
    BY <2>1
<1>8. CASE SettleGivesUp
  <2>1. /\ main.pc = "settle" /\ main'.pc \in {"settle", "enter"} /\ UNCHANGED queue
        /\ main'.source = main.source /\ main'.gesture = main.gesture
        /\ main'.known = main.known /\ main'.bound = main.bound
    BY <1>8 DEF SettleGivesUp, MainShape
  <2> QED
    BY <2>1
<1>9. CASE Enter
  <2> DEFINE v == main.frame.view
             settled == main.streak >= Need
             id == IF settled THEN Gate!ResolvedId(v[1], v[2]) ELSE Gate!Vid(v[1])
             r == IF settled THEN Gate!Renaming(v[1], v[2]) ELSE [n \in {} |-> Nobody]
  <2>1. /\ main' = [pc |-> "repair", why |-> main.why, gesture |-> main.gesture,
                    source |-> Gate!Renamed(r, main.source), bound |-> main.bound,
                    known |-> main.known, frame |-> main.frame, target |-> id, renames |-> r]
        /\ main.pc = "enter" /\ UNCHANGED queue
    BY <1>9 DEF Enter
  <2>2. CoarseOf(main'.source) = CoarseOf(main.source)
    BY <2>1, RenamingKeepsCoarse DEF AppInv, KeepsCoarse, Gate!Renamed
  <2> HIDE DEF id, r
  <2> QED
    BY <2>1, <2>2
<1>10. CASE Repair
  <2>1. /\ main.pc = "repair" /\ main'.pc = "commit" /\ UNCHANGED queue
        /\ main'.source = main.source /\ main'.gesture = main.gesture
        /\ main'.known = main.known /\ main'.bound = main.bound
    BY <1>10 DEF Repair, MainShape
  <2> QED
    BY <2>1
<1>11. CASE CommitTap
  BY <1>11 DEF CommitTap
<1>12. CASE Anchor
  BY <1>12 DEF Anchor
<1>13. CASE PauseSet
  BY <1>13 DEF PauseSet
<1>14. CASE ResetTyping
  BY <1>14 DEF ResetTyping, Settling
<1>15. CASE Join
  BY <1>15 DEF Join
<1>16. CASE LastText
  <2>1. main.pc \in Closing /\ main'.pc \in Closing /\ UNCHANGED <<queue, paused, fresh, refresher>>
    BY <1>16 DEF LastText, MainShape
  <2> QED
    BY <2>1
<1>17. CASE Report
  <2>1. main.pc \in Closing /\ main'.pc \in Closing /\ UNCHANGED <<queue, paused, fresh, refresher>>
    BY <1>17 DEF Report, MainShape
  <2> QED
    BY <2>1
<1>18. CASE RefreshDump
  <2>1. queue = <<>> /\ main.pc \notin Handling
    BY <1>18 DEF RefreshDump, Prompt
  <2>2. UNCHANGED <<queue, main>>
    BY <1>18 DEF RefreshDump
  <2> QED
    BY <2>1, <2>2
<1>19. CASE RefreshTrack
  <2>1. UNCHANGED <<queue, main, paused>> /\ refresher.pc \in {"track", "store"}
    BY <1>19 DEF RefreshTrack
  <2>2. main.pc \notin Handling /\ \A g : ~Live(g)
    BY <2>1
  <2> QED
    BY <2>1, <2>2
<1>20. CASE RefreshStore
  <2>1. UNCHANGED <<queue, main, paused>> /\ refresher.pc \in {"track", "store"}
    BY <1>20 DEF RefreshStore
  <2>2. main.pc \notin Handling /\ \A g : ~Live(g)
    BY <2>1
  <2> QED
    BY <2>1, <2>2
<1>21. CASE RefreshEnd
  <2>1. /\ UNCHANGED <<queue, main, paused, fresh>> /\ refresher'.pc = "ended"
        /\ main.pc \in {"join", "last text", "report", "stopped"}
    BY <1>21 DEF RefreshEnd, Stopping
  <2> QED
    BY <2>1
<1>22. CASE Pause
  BY <1>22 DEF Pause, Caught
<1>23. CASE Resume
  BY <1>23 DEF Resume
<1>24. CASE Stop
  BY <1>24 DEF Stop
<1>25. CASE Human
  <2>1. UNCHANGED <<screens, current, fresh, refresher, paused, main>>
    BY <1>25, HumanKeepsSession DEF graphVars
  <2>2. CASE queue' = queue
    BY <2>1, <2>2, LiveIdKept
  <2>3. CASE Caught /\ \E g : queue' = Append(queue, g) /\ g.on = display.view
    <3>1. PICK g : queue' = Append(queue, g) /\ g.on = display.view
      BY <2>3
    <3>2. queue = <<>> /\ main.pc = "idle"
      BY <2>3 DEF Caught
    <3>3. queue' = <<g>>
      BY <3>1, <3>2
    <3>4. paused \/ Live(g)
      BY <2>3, <3>1 DEF Caught
    <3> QED
      BY <2>1, <3>2, <3>3, <3>4
  <2> QED
    BY <1>25, <2>2, <2>3, PatientTouch
<1>26. CASE UNCHANGED vars
  BY <1>26, LiveIdKept DEF vars, graphVars
<1> QED
  BY <1>1, <1>2, <1>3, <1>4, <1>5, <1>6, <1>7, <1>8, <1>9, <1>10, <1>11,
     <1>12, <1>13, <1>14, <1>15, <1>16, <1>17, <1>18, <1>19, <1>20, <1>21,
     <1>22, <1>23, <1>24, <1>25, <1>26 DEF Next, Main, Refresh

\* Every step keeps the taps of a patient human where they were made.
LEMMA StepTapInv == TapInv /\ [Next]_vars => TapInv'
<1> SUFFICES ASSUME TapInv, [Next]_vars PROVE TapInv'
  OBVIOUS
<1>1. AppInv /\ MainShape /\ StandsOnNode /\ TapAttributed
  BY DEF TapInv
<1>2. AppInv' /\ MainShape' /\ StandsOnNode'
  BY <1>1, StepAppInv, StepMainShape, StepStandsOnNode
<1>3. eager' = eager
  BY HasteIsKept
<1>4. ~eager => Attributed'
  BY <1>1, StepAttributed DEF TapInv
<1>5. TapAttributed'
  <2>1. CASE edges' = edges
    BY <1>1, <1>3, <2>1 DEF TapAttributed
  <2>2. CASE Enter
    <3> DEFINE v == main.frame.view
               settled == main.streak >= Need
               r == IF settled THEN Gate!Renaming(v[1], v[2]) ELSE [n \in {} |-> Nobody]
    <3>1. edges' = Renames(r, edges)
      BY <2>2 DEF Enter
    <3>2. KeepsCoarse(r)
      BY <1>1, RenamingKeepsCoarse DEF AppInv, KeepsCoarse
    <3> HIDE DEF r
    <3> SUFFICES ASSUME NEW e \in edges', ~eager, e.known
                 PROVE  CoarseOf(e.from) = e.on[1] /\ e.bound
      BY <1>3 DEF TapAttributed
    <3>3. PICK o \in edges :
            e = [o EXCEPT !.from = Gate!Renamed(r, o.from), !.to = Gate!Renamed(r, o.to)]
      BY <3>1 DEF Renames
    <3>4. {"from", "to", "on", "bound", "known"} \subseteq DOMAIN o
      BY <1>1 DEF AppInv, EdgeShape
    <3>5. /\ e.from = Gate!Renamed(r, o.from)
          /\ e.on = o.on /\ e.bound = o.bound /\ e.known = o.known
      BY <3>3, <3>4
    <3>6. CoarseOf(e.from) = CoarseOf(o.from)
      BY <3>2, <3>5 DEF KeepsCoarse, Gate!Renamed
    <3> QED
      BY <1>1, <3>5, <3>6 DEF TapAttributed
  <2>3. CASE CommitTap /\ edges' # edges
    <3>1. PICK pre : edges' = edges \cup {Edge(pre)}
      BY <2>3 DEF CommitTap
    <3>2. ~eager /\ main.known => CoarseOf(main.source) = main.gesture.on[1] /\ main.bound = TRUE
      BY <2>3 DEF TapInv, Attributed, CommitTap, Observing
    <3> QED
      BY <1>1, <1>3, <3>1, <3>2 DEF TapAttributed, Edge
  <2>4. CASE Human
    BY <2>1, <2>4, HumanKeepsSession DEF graphVars
  <2>5. CASE ~Human /\ ~Enter /\ ~CommitTap
    <3>1. edges' = edges
      BY <2>5 DEF Next, Main, Refresh, vars, graphVars, Ignore, TakeTap, Submit, Reconcile, Follow,
             Bind, SettleDump, SettleGivesUp, Repair, Anchor, PauseSet,
             ResetTyping, Join, LastText, Report, RefreshDump, RefreshTrack, RefreshStore,
             RefreshEnd, Pause, Resume, Stop
    <3> QED
      BY <2>1, <3>1
  <2> QED
    BY <2>1, <2>2, <2>3, <2>4, <2>5
<1> QED
  BY <1>2, <1>3, <1>4, <1>5 DEF TapInv

\* A patient human's edge starts on the screen that was tapped, though a tap was
\* dropped or the device had moved there by itself, and is bound to a frame of it.
THEOREM TapsStartWhereMade == Spec => []TapAttributed
<1>1. Init => TapInv
  <2>1. Init => MainShape
    BY DEF Init, MainShape, Settling, Handling, Observing
  <2>2. Init => TapAttributed
    BY DEF Init, TapAttributed
  <2> QED
    BY <2>1, <2>2, InitAppInv, InitStandsOnNode, InitAttributed DEF TapInv
<1>2. TapInv => TapAttributed
  BY DEF TapInv
<1> QED
  BY <1>1, <1>2, StepTapInv, PTL DEF Spec

(***************************************************************************)
(* What a patient human types.  The field in flight is the one the device  *)
(* shows, or none: before each touch the refresher has tracked the frame   *)
(* on display, so no other view with a field of the same identity comes up *)
(* unnoticed, and while capture pauses nothing is in flight.               *)
(***************************************************************************)
\* Of the fields of one identity at most one opens with the keyboard up, and
\* then there is no other.
OneFieldPerKeyboard ==
  \A v, w \in Views : v[1] \in Autofocus /\ Field(w[1]) = Field(v[1]) => w = v

\* The frame f shows the field being typed into.
ShowsTyped(f) == typing.field # NoField /\ ImeTarget(f) = typing.field

FieldInv ==
  /\ DOMAIN content = Views
  /\ {"view", "field", "text"} \subseteq DOMAIN display
  /\ display.view \in Views /\ display.text = content[display.view]
  /\ {"field", "screen", "old", "text", "on"} \subseteq DOMAIN typing
  /\ refresher.pc \in {"wait", "track", "store", "ended"}
  /\ typing.field # NoField =>
       /\ typing.on \in Views /\ typing.field = Field(typing.on[1])
       /\ typing.text \subseteq content[typing.on]
  /\ ShowsTyped(display) => display.view = typing.on
  /\ refresher.pc = "track" =>
       LET f == refresher.frame
       IN  /\ f.view \in Views /\ f.text \subseteq content[f.view]
           /\ ShowsTyped(f) => f.view = typing.on /\ typing.text \subseteq f.text
           /\ ImeTarget(f) # NoField /\ ImeTarget(display) = ImeTarget(f) => display.view = f.view
  /\ refresher.pc = "store" => typing.field \in {NoField, ImeTarget(refresher.frame)}
  /\ refresher.pc = "wait" /\ fresh # NoFresh => typing.field \in {NoField, ImeTarget(fresh.frame)}
  /\ paused \/ main.pc = "pause" => typing.field = NoField /\ refresher.pc \in {"wait", "ended"}

LEMMA InitFieldInv == Init => FieldInv
<1> SUFFICES ASSUME Init PROVE FieldInv
  OBVIOUS
<1>1. /\ content = [v \in Views |-> {}]
      /\ typing = NoTyping /\ refresher = [pc |-> "wait"] /\ fresh = NoFresh
      /\ paused = FALSE /\ main.pc # "pause"
  BY DEF Init, Settling
<1>2. /\ {"view", "field", "text"} \subseteq DOMAIN display
      /\ display.view \in Views /\ display.text = {}
  BY SessionAssumption DEF Init
<1> QED
  BY <1>1, <1>2 DEF FieldInv, ShowsTyped, NoTyping

\* The main thread finalizes the field in flight, or renames its screen; it may
\* forget the live dump.
LEMMA MainKeepsFields ==
  ASSUME FieldInv,
         UNCHANGED <<refresher, display, content>>,
         fresh' \in {fresh, NoFresh},
         \/ typing' = NoTyping
         \/ /\ DOMAIN typing' = DOMAIN typing
            /\ typing'.field = typing.field /\ typing'.on = typing.on /\ typing'.text = typing.text,
         paused' \/ main'.pc = "pause" =>
           \/ paused \/ main.pc = "pause"
           \/ typing'.field = NoField /\ refresher.pc = "wait"
  PROVE  FieldInv'
<1>1. CASE typing' = NoTyping
  BY <1>1 DEF FieldInv, ShowsTyped, NoTyping
<1>2. CASE /\ DOMAIN typing' = DOMAIN typing
           /\ typing'.field = typing.field /\ typing'.on = typing.on /\ typing'.text = typing.text
  <2>1. \A f : ShowsTyped(f) <=> typing'.field # NoField /\ ImeTarget(f) = typing'.field
    BY <1>2 DEF ShowsTyped
  <2> QED
    BY <1>2, <2>1 DEF FieldInv, ShowsTyped
<1> QED
  BY <1>1, <1>2

\* The refresher of a patient human's recorder.
LEMMA RefresherKeepsFields ==
  ASSUME FieldInv, ~eager, Refresh
  PROVE  FieldInv'
<1>1. CASE RefreshDump
  <2>1. /\ ~paused /\ main.pc # "pause" /\ refresher.pc = "wait"
        /\ refresher' = [pc |-> "track", frame |-> display]
        /\ UNCHANGED <<typing, fresh, paused, main, display, content>>
    BY <1>1 DEF RefreshDump, Prompt, textVars, deviceVars
  <2>2. \A f : ShowsTyped(f)' <=> ShowsTyped(f')
    BY <2>1 DEF ShowsTyped, ImeTarget
  <2>3. ShowsTyped(display) => display.view = typing.on /\ typing.text \subseteq display.text
    BY DEF FieldInv, ShowsTyped
  <2> QED
    BY <2>1, <2>3 DEF FieldInv, ShowsTyped, ImeTarget
<1>2. CASE RefreshTrack
  <2> DEFINE f == refresher.frame
             t == ImeTarget(f)
             entered == StartedOn(fresh, f)
  <2>1. /\ refresher.pc = "track" /\ refresher'.pc = "store" /\ refresher'.frame = f
        /\ UNCHANGED <<fresh, paused, main, display, content>>
    BY <1>2 DEF RefreshTrack, deviceVars
  <2>2. /\ f.view \in Views /\ f.text \subseteq content[f.view]
        /\ ShowsTyped(f) => f.view = typing.on /\ typing.text \subseteq f.text
        /\ t # NoField /\ ImeTarget(display) = t => display.view = f.view
        /\ ~paused /\ main.pc # "pause"
    BY <2>1 DEF FieldInv
  <2>3. t # NoField => t = Field(f.view[1])
    BY DEF ImeTarget, CoarseIn
  <2>4. /\ DOMAIN content = Views
        /\ {"view", "field", "text"} \subseteq DOMAIN display
        /\ display.view \in Views /\ display.text = content[display.view]
    BY DEF FieldInv
  <2>5. ASSUME {"field", "screen", "old", "text", "on"} \subseteq DOMAIN typing',
               typing'.field \in {NoField, t},
               typing'.field # NoField =>
                 typing'.on = f.view /\ typing'.text \subseteq content[f.view]
        PROVE  FieldInv'
    <3>1. ImeTarget(refresher.frame)' = t /\ ImeTarget(display)' = ImeTarget(display)
      BY <2>1 DEF ImeTarget
    <3> HIDE DEF t
    <3> QED
      BY <2>1, <2>2, <2>3, <2>4, <2>5, <3>1 DEF FieldInv, ShowsTyped
  <2>6. CASE t # NoField /\ t # typing.field /\ typing' = entered
    <3>1. entered.field = t /\ entered.on = f.view /\ entered.text = f.text
          /\ {"field", "screen", "old", "text", "on"} \subseteq DOMAIN entered
      BY DEF StartedOn
    <3> HIDE DEF entered, t
    <3> QED
      BY <2>2, <2>5, <2>6, <3>1
  <2>7. CASE t # NoField /\ t = typing.field /\ typing' = [typing EXCEPT !.text = f.text]
    <3>1. f.view = typing.on
      BY <2>2, <2>7 DEF ShowsTyped
    <3>2. /\ {"field", "screen", "old", "text", "on"} \subseteq DOMAIN typing'
          /\ typing'.field = t /\ typing'.on = f.view /\ typing'.text = f.text
      BY <2>7, <3>1 DEF FieldInv
    <3> HIDE DEF t
    <3> QED
      BY <2>2, <2>5, <3>2
  <2>8. CASE t = NoField /\ typing' = NoTyping
    BY <2>5, <2>8 DEF NoTyping
  <2> QED
    BY <1>2, <2>6, <2>7, <2>8 DEF RefreshTrack, CommitInFlight
<1>3. CASE RefreshStore
  <2>1. /\ refresher.pc = "store" /\ refresher' = [pc |-> "wait"] /\ fresh'.frame = refresher.frame
        /\ UNCHANGED <<typing, paused, main, display, content>>
    BY <1>3 DEF RefreshStore, textVars, deviceVars
  <2> QED
    BY <2>1 DEF FieldInv, ShowsTyped, ImeTarget
<1>4. CASE RefreshEnd
  <2>1. /\ refresher.pc = "wait" /\ refresher' = [pc |-> "ended"]
        /\ UNCHANGED <<typing, fresh, paused, main, display, content>>
    BY <1>4 DEF RefreshEnd, textVars, deviceVars
  <2> QED
    BY <2>1 DEF FieldInv, ShowsTyped, ImeTarget
<1> QED
  BY <1>1, <1>2, <1>3, <1>4 DEF Refresh

\* A view comes up with the field of another one only if it had none in flight.
LEMMA OpeningKeepsFields ==
  ASSUME OneFieldPerKeyboard, FieldInv, NEW v \in Views, v # display.view,
         UNCHANGED content, display' = Shows(v, Opens(v)),
         UNCHANGED <<typing, fresh, paused, main, refresher>>
  PROVE  FieldInv'
<1>1. display'.view = v /\ display'.text = content[v] /\ {"view", "field", "text"} \subseteq DOMAIN display'
  BY DEF Shows
<1>2. ImeTarget(display') # NoField => v[1] \in Autofocus /\ ImeTarget(display') = Field(v[1])
  BY DEF Shows, Opens, ImeTarget, CoarseIn
<1>3. typing.field # NoField /\ ImeTarget(display') = typing.field => typing.on = v
  BY <1>2 DEF FieldInv, OneFieldPerKeyboard
<1>4. refresher.pc = "track" /\ ImeTarget(refresher.frame) # NoField
        /\ ImeTarget(display') = ImeTarget(refresher.frame) => refresher.frame.view = v
  <2>1. ImeTarget(refresher.frame) # NoField => ImeTarget(refresher.frame) = Field(refresher.frame.view[1])
    BY DEF ImeTarget, CoarseIn
  <2> QED
    BY <1>2, <2>1 DEF FieldInv, OneFieldPerKeyboard
<1>5. ImeTarget(display)' = ImeTarget(display') /\ ImeTarget(refresher.frame)' = ImeTarget(refresher.frame)
      /\ ImeTarget(fresh.frame)' = ImeTarget(fresh.frame)
  BY DEF ImeTarget
<1> QED
  BY <1>1, <1>3, <1>4, <1>5 DEF FieldInv, ShowsTyped

\* A patient human touches a screen whose field, if any, is the one in flight.
LEMMA CaughtField ==
  ASSUME FieldInv, Caught
  PROVE  refresher.pc # "track" /\ refresher.pc # "store"
         /\ typing.field \in {NoField, ImeTarget(display)}
<1>1. CASE paused
  BY <1>1 DEF FieldInv
<1>2. CASE refresher.pc = "wait" /\ fresh = [frame |-> display, stable |-> 1]
  <2>1. fresh # NoFresh /\ fresh.frame = display
    BY <1>2, LiveIsFresh
  <2> QED
    BY <1>2, <2>1 DEF FieldInv
<1> QED
  BY <1>1, <1>2 DEF Caught

\* Or stays on the view it is on, and what the field shows changes.
LEMMA StayingKeepsFields ==
  ASSUME FieldInv, Caught,
         UNCHANGED <<typing, fresh, paused, main, refresher>>,
         {"view", "field", "text"} \subseteq DOMAIN display', display'.view = display.view,
         DOMAIN content' = Views, display'.text = content'[display.view],
         \A w \in Views : content[w] \subseteq content'[w]
  PROVE  FieldInv'
<1>1. refresher.pc # "track" /\ refresher.pc # "store"
      /\ typing.field \in {NoField, ImeTarget(display)}
  BY CaughtField
<1>2. typing.field # NoField => display.view = typing.on
  BY <1>1 DEF FieldInv, ShowsTyped
<1>3. ImeTarget(fresh.frame)' = ImeTarget(fresh.frame)
  BY DEF ImeTarget
<1> QED
  BY <1>1, <1>2, <1>3 DEF FieldInv, ShowsTyped

LEMMA HumanKeepsFields ==
  ASSUME OneFieldPerKeyboard, FieldInv, ~eager, Human
  PROVE  FieldInv'
<1>0. UNCHANGED <<typing, fresh, paused, main, refresher>>
  BY HumanKeepsSession DEF textVars
<1>1. CASE TapField
  <2>1. Caught /\ display' = [display EXCEPT !.field = "kb"] /\ UNCHANGED content
    BY <1>1 DEF TapField, Touches
  <2>2. /\ {"view", "field", "text"} \subseteq DOMAIN display' /\ display'.view = display.view
        /\ DOMAIN content' = Views /\ display'.text = content'[display.view]
        /\ \A w \in Views : content[w] \subseteq content'[w]
    BY <2>1 DEF FieldInv
  <2> QED
    BY <1>0, <2>1, <2>2, StayingKeepsFields
<1>2. CASE PressKey
  <2>1. /\ Caught /\ content' = [content EXCEPT ![display.view] = @ \cup {touches'}]
        /\ display' = [view |-> display.view, field |-> "kb", text |-> content'[display.view]]
    BY <1>2 DEF PressKey, Touches, Shows
  <2>2. /\ {"view", "field", "text"} \subseteq DOMAIN display' /\ display'.view = display.view
        /\ display'.text = content'[display.view]
    BY <2>1
  <2>3. DOMAIN content' = Views /\ \A w \in Views : content[w] \subseteq content'[w]
    BY <2>1 DEF FieldInv
  <2> QED
    BY <1>0, <2>1, <2>2, <2>3, StayingKeepsFields
<1>3. CASE HideKeyboard
  <2>1. /\ Caught /\ UNCHANGED content
        /\ \E st \in {"off", "focused"} : display' = [display EXCEPT !.field = st]
    BY <1>3 DEF HideKeyboard
  <2>2. /\ {"view", "field", "text"} \subseteq DOMAIN display' /\ display'.view = display.view
        /\ DOMAIN content' = Views /\ display'.text = content'[display.view]
        /\ \A w \in Views : content[w] \subseteq content'[w]
    BY <2>1 DEF FieldInv
  <2> QED
    BY <1>0, <2>1, <2>2, StayingKeepsFields
<1>4. ASSUME NEW v \in Views, TapControl(v)
      PROVE  FieldInv'
  <2>1. /\ Caught /\ UNCHANGED content
        /\ display' = Shows(v, IF v = display.view THEN display.field ELSE Opens(v))
    BY <1>4 DEF TapControl, Touches
  <2>2. CASE v = display.view
    <3>1. /\ {"view", "field", "text"} \subseteq DOMAIN display' /\ display'.view = display.view
          /\ DOMAIN content' = Views /\ display'.text = content'[display.view]
          /\ \A w \in Views : content[w] \subseteq content'[w]
      BY <2>1, <2>2 DEF FieldInv, Shows
    <3> QED
      BY <1>0, <2>1, <3>1, StayingKeepsFields
  <2>3. CASE v # display.view
    BY <1>0, <2>1, <2>3, OpeningKeepsFields
  <2> QED
    BY <2>2, <2>3
<1>5. ASSUME NEW v \in Views, Drift(v)
      PROVE  FieldInv'
  BY <1>0, <1>5, OpeningKeepsFields DEF Drift
<1> QED
  BY <1>1, <1>2, <1>3, <1>4, <1>5 DEF Human

LEMMA StepFieldInv ==
  ASSUME OneFieldPerKeyboard, MainShape, FieldInv, ~eager, [Next]_vars
  PROVE  FieldInv'
<1> USE DEF MainShape, Idle, graphVars, textVars, deviceVars
<1>1. CASE Ignore
  BY <1>1, MainKeepsFields DEF Ignore
<1>2. CASE TakeTap
  BY <1>2, MainKeepsFields DEF TakeTap
<1>3. CASE Submit
  BY <1>3, MainKeepsFields DEF Submit, CommitInFlight
<1>4. CASE Reconcile
  <2>1. main'.pc \in {"follow", "bind"} /\ typing' \in {typing, NoTyping}
        /\ UNCHANGED <<fresh, paused, refresher, display, content>>
    BY <1>4 DEF Reconcile, CommitInFlight
  <2> QED
    BY <2>1, MainKeepsFields
<1>5. CASE Follow
  BY <1>5, MainKeepsFields DEF Follow
<1>6. CASE Bind
  BY <1>6, MainKeepsFields DEF Bind
<1>7. CASE SettleDump
  BY <1>7, MainKeepsFields DEF SettleDump
<1>8. CASE SettleGivesUp
  BY <1>8, MainKeepsFields DEF SettleGivesUp
<1>9. CASE Enter
  <2>1. fresh' \in {fresh, NoFresh} /\ main'.pc = "repair"
        /\ UNCHANGED <<typing, paused, refresher, display, content>>
    BY <1>9 DEF Enter
  <2> QED
    BY <2>1, MainKeepsFields
<1>10. CASE Repair
  <2>1. /\ typing' = [typing EXCEPT !.screen = Gate!Renamed(main.renames, @)]
        /\ main'.pc = "commit"
        /\ UNCHANGED <<fresh, paused, refresher, display, content>>
    BY <1>10 DEF Repair, TypingAfter
  <2>2. /\ DOMAIN typing' = DOMAIN typing
        /\ typing'.field = typing.field /\ typing'.on = typing.on /\ typing'.text = typing.text
    BY <2>1 DEF FieldInv
  <2> QED
    BY <2>1, <2>2, MainKeepsFields
<1>11. CASE CommitTap
  BY <1>11, MainKeepsFields DEF CommitTap
<1>12. CASE Anchor
  BY <1>12, MainKeepsFields DEF Anchor
<1>13. CASE PauseSet
  BY <1>13, MainKeepsFields DEF PauseSet
<1>14. CASE ResetTyping
  BY <1>14, MainKeepsFields DEF ResetTyping, Settling
<1>15. CASE Join
  BY <1>15, MainKeepsFields DEF Join
<1>16. CASE LastText
  BY <1>16, MainKeepsFields DEF LastText, CommitInFlight
<1>17. CASE Report
  BY <1>17, MainKeepsFields DEF Report
<1>18. CASE Refresh
  BY <1>18, RefresherKeepsFields
<1>19. CASE Pause
  <2>1. typing' = NoTyping /\ refresher.pc = "wait"
        /\ UNCHANGED <<fresh, paused, refresher, display, content>>
    BY <1>19 DEF Pause, Caught, CommitInFlight
  <2> QED
    BY <2>1, MainKeepsFields DEF NoTyping
<1>20. CASE Resume
  BY <1>20, MainKeepsFields DEF Resume
<1>21. CASE Stop
  BY <1>21, MainKeepsFields DEF Stop
<1>22. CASE Human
  BY <1>22, HumanKeepsFields
<1>23. CASE UNCHANGED vars
  BY <1>23, MainKeepsFields DEF vars
<1> QED
  BY <1>1, <1>2, <1>3, <1>4, <1>5, <1>6, <1>7, <1>8, <1>9, <1>10, <1>11,
     <1>12, <1>13, <1>14, <1>15, <1>16, <1>17, <1>18, <1>19, <1>20, <1>21,
     <1>22, <1>23 DEF Next, Main

(***************************************************************************)
(* Where a noticed keystroke is kept: in the field in flight beyond what   *)
(* the field held when it was entered, staged, on an edge, or reported.    *)
(***************************************************************************)
Kept == (typing.text \ typing.old) \cup Texts(pending) \cup Ridden \cup dropped

KeptInv ==
  /\ noticed \subseteq Kept
  /\ \A p \in pending : {"screen", "text"} \subseteq DOMAIN p
  /\ \A e \in edges : {"from", "to", "pre"} \subseteq DOMAIN e

\* What one step moves from one place to another stays kept.
LEMMA KeptMoves ==
  ASSUME noticed \subseteq Kept,
         noticed' \subseteq noticed \cup (typing'.text \ typing'.old),
         typing.text \ typing.old \subseteq Kept',
         Texts(pending) \subseteq Kept',
         Ridden \subseteq Ridden', dropped \subseteq dropped'
  PROVE  noticed' \subseteq Kept'
BY DEF Kept

\* The texts of more entries are more texts, and the edges of more edges.
LEMMA TextsGrow ==
  ASSUME NEW P, NEW Q, P \subseteq Q PROVE Texts(P) \subseteq Texts(Q)
BY DEF Texts

LEMMA RiddenGrows == edges \subseteq edges' => Ridden \subseteq Ridden'
BY DEF Ridden

\* Finalizing the field in flight stages its text.
LEMMA FinalizedKept ==
  ASSUME KeptInv, pending' = pending \cup Finalized(typing)
  PROVE  /\ \A p \in pending' : {"screen", "text"} \subseteq DOMAIN p
         /\ typing.text \ typing.old \subseteq Texts(pending')
         /\ Texts(pending) \subseteq Texts(pending')
<1>1. \A p \in Finalized(typing) :
        p = [screen |-> typing.screen, ns |-> typing.ns, text |-> typing.text, on |-> typing.on]
  BY DEF Finalized
<1>2. \A p \in pending' : {"screen", "text"} \subseteq DOMAIN p
  BY <1>1 DEF KeptInv
<1>3. ASSUME NEW k \in typing.text \ typing.old
      PROVE  k \in Texts(pending')
  <2> DEFINE p == [screen |-> typing.screen, ns |-> typing.ns, text |-> typing.text, on |-> typing.on]
  <2>1. typing # NoTyping /\ typing.text # typing.old
    BY <1>3 DEF NoTyping
  <2>2. p \in Finalized(typing)
    BY <2>1 DEF Finalized
  <2>3. p \in pending' /\ k \in p.text
    BY <1>3, <2>2
  <2> HIDE DEF p
  <2> QED
    BY <2>3 DEF Texts
<1> QED
  BY <1>2, <1>3, TextsGrow

LEMMA CommitKeepsText ==
  ASSUME KeptInv, CommitInFlight, UNCHANGED <<edges, noticed, dropped>>
  PROVE  KeptInv'
<1>1. pending' = pending \cup Finalized(typing)
  BY DEF CommitInFlight
<1>2. noticed' \subseteq Kept'
  BY <1>1, FinalizedKept, KeptMoves, RiddenGrows DEF KeptInv, Kept
<1> QED
  BY <1>1, <1>2, FinalizedKept DEF KeptInv

\* The steps that type, stage, commit and report nothing.
LEMMA QuietKeepsText ==
  ASSUME KeptInv, UNCHANGED <<typing, pending, edges, noticed, dropped>>
  PROVE  KeptInv'
BY DEF KeptInv, Kept, Ridden, Texts

\* A rename moves the ends of an edge, not what rides it.
LEMMA RenamesKeepText ==
  ASSUME KeptInv, NEW r, edges' = Renames(r, edges),
         UNCHANGED <<typing, pending, noticed, dropped>>
  PROVE  KeptInv'
<1>1. \A e \in edges' : {"from", "to", "pre"} \subseteq DOMAIN e
  BY DEF Renames, KeptInv
<1>2. ASSUME NEW k \in Ridden PROVE k \in Ridden'
  <2>1. PICK e \in edges : k \in UNION {p.text : p \in e.pre}
    BY DEF Ridden
  <2> DEFINE m == [e EXCEPT !.from = Gate!Renamed(r, e.from), !.to = Gate!Renamed(r, e.to)]
  <2>2. m \in edges'
    BY DEF Renames
  <2>3. m.pre = e.pre
    BY DEF KeptInv
  <2> HIDE DEF m
  <2> QED
    BY <2>1, <2>2, <2>3 DEF Ridden
<1>3. noticed' \subseteq Kept'
  BY <1>2, KeptMoves DEF KeptInv, Kept
<1> QED
  BY <1>1, <1>3 DEF KeptInv

LEMMA RepairKeepsText == KeptInv /\ FieldInv /\ Repair => KeptInv'
<1> SUFFICES ASSUME KeptInv, FieldInv, Repair PROVE KeptInv'
  OBVIOUS
<1> DEFINE r == main.renames
           new(p) == [p EXCEPT !.screen = Gate!Renamed(r, p.screen)]
<1>1. /\ pending' = {new(p) : p \in pending}
      /\ typing' = [typing EXCEPT !.screen = Gate!Renamed(r, @)]
      /\ UNCHANGED <<edges, noticed, dropped>>
  BY DEF Repair, TypingAfter
<1>2. typing'.text = typing.text /\ typing'.old = typing.old
  BY <1>1 DEF FieldInv
<1>3. \A p \in pending : DOMAIN new(p) = DOMAIN p /\ new(p).text = p.text
  BY DEF KeptInv
<1> HIDE DEF new, r
<1>4. \A p \in pending' : {"screen", "text"} \subseteq DOMAIN p
  BY <1>1, <1>3 DEF KeptInv
<1>5. ASSUME NEW k \in Texts(pending) PROVE k \in Texts(pending')
  <2>1. PICK p \in pending : k \in p.text
    BY DEF Texts
  <2>2. new(p) \in pending' /\ k \in new(p).text
    BY <1>1, <1>3, <2>1
  <2> QED
    BY <2>2 DEF Texts
<1>6. noticed' \subseteq Kept'
  BY <1>1, <1>2, <1>5, KeptMoves, RiddenGrows DEF KeptInv, Kept
<1> QED
  BY <1>1, <1>4, <1>6 DEF KeptInv

LEMMA CommitTapKeepsText == KeptInv /\ CommitTap => KeptInv'
<1> SUFFICES ASSUME KeptInv, CommitTap PROVE KeptInv'
  OBVIOUS
<1> DEFINE pre == {[ns |-> p.ns, on |-> p.on, text |-> p.text] : p \in Mine(main.source)}
<1>0. UNCHANGED <<typing, noticed, dropped>>
  BY DEF CommitTap
<1>1. CASE UNCHANGED <<edges, pending>>
  BY <1>0, <1>1, QuietKeepsText
<1>2. CASE edges' = edges \cup {Edge(pre)} /\ pending' = Rest(main.source)
  <2>1. Edge(pre).pre = pre /\ {"from", "to", "pre"} \subseteq DOMAIN Edge(pre)
    BY DEF Edge
  <2>2. ASSUME NEW k \in Texts(pending) PROVE k \in Texts(pending') \cup Ridden'
    <3>1. PICK p \in pending : k \in p.text
      BY DEF Texts
    <3>2. CASE p \in Mine(main.source)
      <4> DEFINE q == [ns |-> p.ns, on |-> p.on, text |-> p.text]
      <4>1. q \in pre /\ k \in q.text
        BY <3>1, <3>2
      <4>2. Edge(pre) \in edges'
        BY <1>2
      <4> HIDE DEF q, pre
      <4> QED
        BY <2>1, <4>1, <4>2 DEF Ridden
    <3>3. CASE p \notin Mine(main.source)
      BY <1>2, <3>1, <3>3 DEF Rest, Texts
    <3> QED
      BY <3>2, <3>3
  <2> HIDE DEF pre
  <2>3. noticed' \subseteq Kept'
    BY <1>0, <1>2, <2>2, KeptMoves, RiddenGrows DEF KeptInv, Kept
  <2>4. \A e \in edges' : {"from", "to", "pre"} \subseteq DOMAIN e
    BY <1>2, <2>1 DEF KeptInv
  <2>5. pending' \subseteq pending
    BY <1>2 DEF Rest
  <2> QED
    BY <2>3, <2>4, <2>5 DEF KeptInv
<1> QED
  BY <1>1, <1>2 DEF CommitTap

\* The refresher notices keystrokes in the field in flight, and stages what it
\* replaces.
LEMMA TrackKeepsText == KeptInv /\ FieldInv /\ RefreshTrack => KeptInv'
<1> SUFFICES ASSUME KeptInv, FieldInv, RefreshTrack PROVE KeptInv'
  OBVIOUS
<1> DEFINE f == refresher.frame
           t == ImeTarget(f)
           entered == StartedOn(fresh, f)
<1>1. UNCHANGED <<edges, dropped>>
  BY DEF RefreshTrack, graphVars
<1>2. CASE /\ pending' = pending \cup Finalized(typing)
           /\ typing' = entered
           /\ noticed' = noticed \cup (entered.text \ entered.old)
  <2> HIDE DEF entered
  <2>1. noticed' \subseteq Kept'
    BY <1>1, <1>2, FinalizedKept, KeptMoves, RiddenGrows DEF KeptInv, Kept
  <2> QED
    BY <1>1, <1>2, <2>1, FinalizedKept DEF KeptInv
<1>3. CASE /\ t # NoField /\ t = typing.field
           /\ typing' = [typing EXCEPT !.text = f.text]
           /\ noticed' = noticed \cup (f.text \ typing.old)
           /\ UNCHANGED pending
  <2>1. refresher.pc = "track"
    BY DEF RefreshTrack
  <2>2. typing.text \subseteq f.text
    BY <1>3, <2>1 DEF FieldInv, ShowsTyped
  <2>3. typing'.text = f.text /\ typing'.old = typing.old
    BY <1>3 DEF FieldInv
  <2> HIDE DEF f, t
  <2>4. noticed' \subseteq Kept'
    BY <1>1, <1>3, <2>2, <2>3, KeptMoves, RiddenGrows DEF KeptInv, Kept
  <2> QED
    BY <1>1, <1>3, <2>4 DEF KeptInv
<1>4. CASE CommitInFlight /\ UNCHANGED noticed
  BY <1>1, <1>4, CommitKeepsText
<1> QED
  BY <1>2, <1>3, <1>4 DEF RefreshTrack

\* Text staged for another screen than the one followed to, and text in flight
\* when capture resumes, is reported.
LEMMA ReportsKeepText == KeptInv /\ (Follow \/ ResetTyping \/ Report) => KeptInv'
<1> SUFFICES ASSUME KeptInv, Follow \/ ResetTyping \/ Report PROVE KeptInv'
  OBVIOUS
<1>1. CASE pending' \subseteq pending /\ dropped' = dropped \cup Texts(pending \ pending')
           /\ UNCHANGED <<typing, edges, noticed>>
  <2>1. Texts(pending) \subseteq Texts(pending') \cup dropped'
    BY <1>1 DEF Texts
  <2>2. noticed' \subseteq Kept'
    BY <1>1, <2>1, KeptMoves, RiddenGrows DEF KeptInv, Kept
  <2> QED
    BY <1>1, <2>2 DEF KeptInv
<1>2. CASE Follow
  BY <1>1, <1>2 DEF Follow
<1>3. CASE Report
  <2>1. pending' = {} /\ dropped' = dropped \cup Texts(pending) /\ pending \ pending' = pending
    BY <1>3 DEF Report
  <2> QED
    BY <1>1, <1>3, <2>1 DEF Report, graphVars
<1>4. CASE ResetTyping
  <2>1. dropped' = dropped \cup typing.text /\ typing' = NoTyping
        /\ UNCHANGED <<pending, edges, noticed>>
    BY <1>4 DEF ResetTyping, graphVars
  <2>2. noticed' \subseteq Kept'
    BY <2>1, KeptMoves, RiddenGrows DEF KeptInv, Kept
  <2> QED
    BY <2>1, <2>2 DEF KeptInv
<1> QED
  BY <1>2, <1>3, <1>4

LEMMA InitKeptInv == Init => KeptInv
BY DEF Init, KeptInv, Kept

LEMMA StepKeptInv == KeptInv /\ FieldInv /\ [Next]_vars => KeptInv'
<1> SUFFICES ASSUME KeptInv, FieldInv, [Next]_vars PROVE KeptInv'
  OBVIOUS
<1> USE DEF graphVars, textVars
<1>1. CASE Follow \/ ResetTyping \/ Report
  BY <1>1, ReportsKeepText
<1>2. CASE Repair
  BY <1>2, RepairKeepsText
<1>3. CASE CommitTap
  BY <1>3, CommitTapKeepsText
<1>4. CASE RefreshTrack
  BY <1>4, TrackKeepsText
<1>5. CASE Enter
  <2>1. PICK r : edges' = Renames(r, edges)
    BY <1>5 DEF Enter
  <2>2. UNCHANGED <<typing, pending, noticed, dropped>>
    BY <1>5 DEF Enter
  <2> QED
    BY <2>1, <2>2, RenamesKeepText
<1>6. CASE Reconcile
  <2>1. UNCHANGED <<edges, noticed, dropped>>
        /\ (CommitInFlight \/ UNCHANGED <<pending, typing>>)
    BY <1>6 DEF Reconcile
  <2> QED
    BY <2>1, CommitKeepsText, QuietKeepsText
<1>7. CASE Submit \/ Pause \/ LastText
  BY <1>7, CommitKeepsText DEF Submit, Pause, LastText
<1>8. CASE Human
  BY <1>8, HumanKeepsSession, QuietKeepsText
<1>9. CASE \/ Ignore \/ TakeTap \/ Bind \/ SettleDump \/ SettleGivesUp \/ Anchor \/ PauseSet
           \/ Join \/ RefreshDump \/ RefreshStore \/ RefreshEnd \/ Resume \/ Stop
  BY <1>9, QuietKeepsText DEF Ignore, TakeTap, Bind, SettleDump, SettleGivesUp, Anchor, PauseSet,
     Join, RefreshDump, RefreshStore, RefreshEnd, Resume, Stop
<1>10. CASE UNCHANGED vars
  BY <1>10, QuietKeepsText DEF vars
<1> QED
  BY <1>1, <1>2, <1>3, <1>4, <1>5, <1>6, <1>7, <1>8, <1>9, <1>10 DEF Next, Main, Refresh

TextInv == MainShape /\ (~eager => FieldInv /\ KeptInv)

\* Of what a patient human types no keystroke the recorder noticed is lost
\* without a word, whatever the threads interleave with, the gate renames, and
\* the human pauses or stops in; wherever a keyboard does not come up over a
\* field of the same identity as another.
THEOREM NoKeystrokeIsLost ==
  ASSUME OneFieldPerKeyboard PROVE Spec => []NoTextLost
<1>1. Init => TextInv
  <2>1. Init => MainShape
    BY DEF Init, MainShape, Settling, Handling, Observing
  <2> QED
    BY <2>1, InitFieldInv, InitKeptInv DEF TextInv
<1>2. TextInv /\ [Next]_vars => TextInv'
  BY OneFieldPerKeyboard, StepMainShape, StepFieldInv, StepKeptInv, HasteIsKept DEF TextInv
<1>3. TextInv => NoTextLost
  BY DEF TextInv, KeptInv, Kept, NoTextLost
<1> QED
  BY <1>1, <1>2, <1>3, PTL DEF Spec

(***************************************************************************)
(* The tags of typed text.  While nobody disturbs the session both threads *)
(* dump the screen the device shows, and the recorder stands on it between *)
(* gestures, unless a tap taken for a keystroke left it behind: in the app *)
(* that was typed in, where it has the only fields.  So text is tagged     *)
(* with the node the recorder stands on; or, on the way into another app,  *)
(* with the raw id of a screen that opens with its keyboard up, which is   *)
(* never split and is a node once the tap is entered.                      *)
(***************************************************************************)
Calm == Undisturbed /\ (OneTypingApp \/ ~missed)

Leaving == Closing \cup {"join"}

\* Where the main thread can be.
AtPlace == main.pc \in {"idle", "pause", "reset"} \cup Handling \cup Observing \cup Leaving

\* A frame with a keyboard is of a view with a field.
OnField(f) == f.field = "kb" => f.view \in Views /\ Field(CoarseIn(f)) # NoField

\* The recorder stands in the only app with fields: whatever is typed is typed there.
InTypingApp ==
  OneTypingApp /\ \E v \in Views : Field(v[1]) # NoField /\ Namespace(v[1]) = NsIn(csnap)

\* Since the view touched was on display, no field but an autofocused one came up.
OpenedFrom(view) ==
  view = display.view \/ display.field = "off" \/ CoarseIn(display) \in Autofocus

\* The frames of both threads are of what is on display, and so is the recorder, as
\* long as it is not left behind in the only app with fields.
Together ==
  /\ {"view", "field"} \subseteq DOMAIN display /\ display.view \in Views
  /\ OnField(display) /\ OnField(csnap) /\ OnField(fresh.frame)
  /\ ~paused /\ main.pc \notin {"pause", "reset"}
  /\ refresher.pc \in {"track", "store"} => refresher.frame = display
  /\ main.pc = "settle" => main.streak = 0 \/ main.frame = display
  /\ main.pc \in {"enter", "repair", "commit"} => main.frame = display
  /\ main.pc = "idle" /\ queue = <<>> => csnap.view = display.view \/ InTypingApp
  /\ main.pc = "idle" => \A g : queue = <<g>> =>
       /\ OpenedFrom(g.on)
       /\ InTypingApp \/ (g.on = csnap.view /\ (g.kind # "tap" => display.view = g.on))
  /\ main.pc \in Handling => /\ OpenedFrom(main.gesture.on)
                             /\ main.gesture.on = csnap.view \/ InTypingApp
  /\ current = Nobody \/ OpenedFrom(csnap.view) \/ InTypingApp

\* In the nodes s the coarse fingerprint of v was never split, nor does it collide.
AloneIn(s, v) ==
  /\ \A n \in DOMAIN s : s[n].coarse # Gate!Fid(v[1])
  /\ Gate!Fid(v[1]) \in DOMAIN s => s[Gate!Fid(v[1])].digest \in {NoDigest, v[2]}

NeverSplit == \A v \in Views : v[1] \in Autofocus => AloneIn(screens, v)

\* What an id will be once the rename under way is repaired.
Repaired(id) == IF main.pc = "repair" THEN Gate!Renamed(main.renames, id) ELSE id

\* The raw id of the screen being entered, before it is a node.
Raw(t) == /\ main.pc \in {"settle", "enter"} /\ CoarseIn(display) \in Autofocus
          /\ t.screen = Gate!Fid(CoarseIn(display)) /\ t.ns = NsIn(display)

\* An edge may start from the screen that t is tagged with.
Placed(t) == \/ Repaired(t.screen) \in DOMAIN screens
             \/ \E n \in DOMAIN screens : Volatile(n) /\ t.ns = NsOf(n)
             \/ Raw(t)

\* What was typed and is not on an edge yet.
Tracked == pending \cup ({typing} \ {NoTyping})

TagsPlaced == main.pc \notin Leaving => \A t \in Tracked : Placed(t)

\* Once entered, the screen on display has a node: under the raw id, if it opens
\* with its keyboard up; under what the rename makes of it, where the rename took
\* the id the recorder stood on; or under the volatile id.
Entered ==
  LET c == CoarseIn(display)
  IN  /\ main.pc \in {"repair", "commit"} /\ c \in Autofocus
           => \/ Gate!Fid(c) \in DOMAIN screens /\ Repaired(Gate!Fid(c)) = Gate!Fid(c)
              \/ Gate!Vid(c) \in DOMAIN screens
      /\ main.pc = "repair" /\ current \notin DOMAIN screens \cup {Nobody}
           => \/ Repaired(Gate!Fid(c)) \in DOMAIN screens
              \/ Gate!Vid(c) \in DOMAIN screens

TagInv ==
  /\ TapInv
  /\ AtPlace /\ disturbances \in Nat
  /\ Calm => Together
  /\ Calm /\ PlainAutofocus => NeverSplit /\ Entered /\ TagsPlaced

\* Disturbances and missed taps are never undone.
LEMMA CalmWas ==
  ASSUME disturbances \in Nat, [Next]_vars
  PROVE  disturbances' \in Nat /\ (Calm' => Calm)
<1>1. disturbances' \in {disturbances, disturbances + 1}
  BY DEF Next, Main, Refresh, vars, counts, Ignore, TakeTap, Submit, Reconcile, Follow,
     Bind, SettleDump, SettleGivesUp, Enter, Repair, CommitTap, Anchor, PauseSet,
     ResetTyping, Join, LastText, Report, RefreshDump, RefreshTrack, RefreshStore,
     RefreshEnd, Pause, Resume, Stop, Human, TapField, PressKey, HideKeyboard, TapControl,
     Drift, Touches
<1>2. missed => missed'
  BY DEF Next, Main, Refresh, vars, counts, Ignore, TakeTap, Submit, Reconcile, Follow,
     Bind, SettleDump, SettleGivesUp, Enter, Repair, CommitTap, Anchor, PauseSet,
     ResetTyping, Join, LastText, Report, RefreshDump, RefreshTrack, RefreshStore,
     RefreshEnd, Pause, Resume, Stop, Human, TapField, PressKey, HideKeyboard, TapControl,
     Drift, Touches
<1> QED
  BY <1>1, <1>2, HasteIsKept DEF Calm, Undisturbed

\* What the human does then: touch, or hide the keyboard, once the recorder has
\* caught up.
LEMMA CalmHuman ==
  ASSUME Calm, Calm', Together, Human
  PROVE  /\ main.pc = "idle" /\ queue = <<>> /\ refresher.pc = "wait"
         /\ {"view", "field"} \subseteq DOMAIN display' /\ display'.view \in Views
         /\ OnField(display')
         /\ \/ queue' = queue /\ display'.view = display.view
            \/ \E g : /\ queue' = <<g>> /\ g.on = display.view
                      /\ g.kind # "tap" => display'.view = display.view
         /\ \/ display'.view = display.view
            \/ display'.field = "off" \/ CoarseIn(display') \in Autofocus
<1> USE DEF Together
<1>1. ASSUME Caught
      PROVE  main.pc = "idle" /\ queue = <<>> /\ refresher.pc = "wait"
  BY <1>1 DEF Caught, Idle
<1>2. ASSUME NEW kind, Touches(kind)
      PROVE  /\ Caught
             /\ \E g : queue' = <<g>> /\ g.on = display.view /\ g.kind = kind
  <2>1. Caught
    BY <1>2 DEF Touches, Calm, Undisturbed
  <2>2. queue = <<>>
    BY <1>1, <2>1
  <2>3. queue' = Append(queue, [kind |-> kind, on |-> display.view, kb |-> display.field = "kb"])
    BY <1>2 DEF Touches
  <2>4. queue' = <<[kind |-> kind, on |-> display.view, kb |-> display.field = "kb"]>>
    BY <2>2, <2>3
  <2> QED
    BY <2>1, <2>4
<1>3. CASE TapField
  <2>1. Touches("tap") /\ display' = [display EXCEPT !.field = "kb"]
    BY <1>3 DEF TapField
  <2>2. display'.view = display.view /\ {"view", "field"} \subseteq DOMAIN display'
    BY <2>1
  <2>3. OnField(display')
    BY <1>3, <2>2 DEF TapField, OnField, CoarseIn
  <2> QED
    BY <1>1, <1>2, <2>1, <2>2, <2>3
<1>4. CASE PressKey
  <2>1. Touches("key") /\ display' = Shows(display.view, "kb")
    BY <1>4 DEF PressKey
  <2>2. display'.view = display.view /\ {"view", "field"} \subseteq DOMAIN display'
    BY <2>1 DEF Shows
  <2>3. OnField(display')
    BY <1>4, <2>2 DEF PressKey, OnField, CoarseIn
  <2> QED
    BY <1>1, <1>2, <2>1, <2>2, <2>3
<1>5. CASE HideKeyboard
  <2>1. Caught /\ queue' = queue
    BY <1>5 DEF HideKeyboard, Calm, Undisturbed
  <2>2. PICK st \in {"off", "focused"} : display' = [display EXCEPT !.field = st]
    BY <1>5 DEF HideKeyboard
  <2>3. display'.view = display.view /\ {"view", "field"} \subseteq DOMAIN display'
    BY <2>2
  <2>4. OnField(display')
    BY <2>2 DEF OnField
  <2> QED
    BY <1>1, <2>1, <2>3, <2>4
<1>6. CASE \E v \in Views : TapControl(v)
  <2>1. PICK v \in Views : TapControl(v)
    BY <1>6
  <2>2. Touches("tap") /\ display' = Shows(v, IF v = display.view THEN display.field ELSE Opens(v))
    BY <2>1 DEF TapControl
  <2>3. display'.view = v /\ {"view", "field"} \subseteq DOMAIN display'
    BY <2>2 DEF Shows
  <2>4. v # display.view => display'.field = "off" \/ CoarseIn(display') \in Autofocus
    BY <2>2, <2>3 DEF Shows, Opens, CoarseIn
  <2>5. OnField(display')
    <3>1. display'.field = IF v = display.view THEN display.field ELSE Opens(v)
      BY <2>2 DEF Shows
    <3>2. Opens(v) = "kb" => Field(v[1]) # NoField
      BY SessionAssumption DEF Opens
    <3> QED
      BY <2>3, <3>1, <3>2 DEF OnField, CoarseIn
  <2> QED
    BY <1>1, <1>2, <2>2, <2>3, <2>4, <2>5
<1>7. CASE \E v \in Views : Drift(v)
  <2>1. disturbances' = disturbances + 1 /\ disturbances = 0 /\ disturbances' = 0
    BY <1>7 DEF Drift, Calm, Undisturbed
  <2> QED
    BY <2>1
<1> QED
  BY <1>3, <1>4, <1>5, <1>6, <1>7 DEF Human

\* Where a step takes the main thread, other than those of a commit.
LEMMA NextPlace ==
  ASSUME MainShape, [Next]_vars
  PROVE  \/ Enter \/ Repair \/ Human
         \/ UNCHANGED <<main, screens, current, display>>
         \/ main'.pc \in {"idle", "pause", "reset", "settle", "enter"} \cup Handling \cup Leaving
<1> USE DEF Handling, Leaving, Closing
<1>1. CASE TakeTap
  <2>1. main'.pc = "submit"
    BY <1>1 DEF TakeTap
  <2> QED
    BY <2>1
<1>2. CASE Submit
  <2>1. main'.pc = "reconcile"
    BY <1>2 DEF Submit, MainShape
  <2> QED
    BY <2>1
<1>3. CASE Reconcile
  <2>1. CASE Moved
    <3>1. main' = [pc |-> "follow", gesture |-> main.gesture, frame |-> fresh.frame, id |-> LiveId]
      BY <1>3, <2>1 DEF Reconcile
    <3>2. main'.pc = "follow"
      BY <3>1
    <3> QED
      BY <3>2
  <2>2. CASE ~Moved
    <3>1. main' = [main EXCEPT !.pc = "bind"]
      BY <1>3, <2>2 DEF Reconcile
    <3>2. main'.pc = "bind"
      BY <3>1 DEF MainShape
    <3> QED
      BY <3>2
  <2> QED
    BY <2>1, <2>2
<1>4. CASE Follow
  <2>1. main'.pc = "bind"
    BY <1>4 DEF Follow
  <2> QED
    BY <2>1
<1>5. CASE Bind
  <2>1. main'.pc = "settle"
    BY <1>5 DEF Bind
  <2> QED
    BY <2>1
<1>6. CASE SettleDump
  <2>1. main'.pc \in {"settle", "enter"}
    BY <1>6 DEF SettleDump, MainShape
  <2> QED
    BY <2>1
<1>7. CASE SettleGivesUp
  <2>1. main'.pc = "enter"
    BY <1>7 DEF SettleGivesUp, MainShape
  <2> QED
    BY <2>1
<1>8. CASE CommitTap
  <2>1. main'.pc = "idle"
    BY <1>8 DEF CommitTap, Idle
  <2> QED
    BY <2>1
<1>9. CASE Anchor
  <2>1. main'.pc = "idle"
    BY <1>9 DEF Anchor, Idle
  <2> QED
    BY <2>1
<1>10. CASE PauseSet
  <2>1. main'.pc = "idle"
    BY <1>10 DEF PauseSet, Idle
  <2> QED
    BY <2>1
<1>11. CASE ResetTyping
  <2>1. main'.pc = "settle"
    BY <1>11 DEF ResetTyping, Settling
  <2> QED
    BY <2>1
<1>12. CASE Join
  <2>1. main'.pc = "last text"
    BY <1>12 DEF Join
  <2> QED
    BY <2>1
<1>13. CASE LastText
  <2>1. main'.pc = "report"
    BY <1>13 DEF LastText, MainShape
  <2> QED
    BY <2>1
<1>14. CASE Report
  <2>1. main'.pc = "stopped"
    BY <1>14 DEF Report, MainShape
  <2> QED
    BY <2>1
<1>15. CASE Pause
  <2>1. main'.pc = "pause"
    BY <1>15 DEF Pause
  <2> QED
    BY <2>1
<1>16. CASE Resume
  <2>1. main'.pc = "reset"
    BY <1>16 DEF Resume
  <2> QED
    BY <2>1
<1>17. CASE Stop
  <2>1. main'.pc = "join"
    BY <1>17 DEF Stop
  <2> QED
    BY <2>1
<1>18. CASE Ignore \/ RefreshDump \/ RefreshTrack \/ RefreshStore \/ RefreshEnd \/ UNCHANGED vars
  BY <1>18 DEF Ignore, RefreshDump, RefreshTrack, RefreshStore, RefreshEnd, vars, graphVars,
     deviceVars
<1> QED
  BY <1>1, <1>2, <1>3, <1>4, <1>5, <1>6, <1>7, <1>8, <1>9, <1>10,
     <1>11, <1>12, <1>13, <1>14, <1>15, <1>16, <1>17, <1>18 DEF Next, Main, Refresh

\* So it stays at one of its places.
LEMMA StepAtPlace == MainShape /\ AtPlace /\ [Next]_vars => AtPlace'
<1> SUFFICES ASSUME MainShape, AtPlace, [Next]_vars PROVE AtPlace'
  OBVIOUS
<1>1. CASE Enter \/ Repair
  <2>1. Enter => main'.pc = "repair"
    BY DEF Enter
  <2>2. Repair => main'.pc = "commit"
    BY DEF Repair, MainShape
  <2> QED
    BY <1>1, <2>1, <2>2 DEF AtPlace, Observing
<1>2. CASE Human
  BY <1>2, HumanKeepsSession DEF AtPlace
<1>3. CASE ~Enter /\ ~Repair /\ ~Human
  BY <1>3, NextPlace DEF AtPlace, Observing
<1> QED
  BY <1>1, <1>2, <1>3

\* The start: the first screen is still to be observed.
LEMMA InitTogether == Init => Together
<1> SUFFICES ASSUME Init PROVE Together
  OBVIOUS
<1>1. {"view", "field"} \subseteq DOMAIN display /\ display.view \in Views
  BY SessionAssumption DEF Init
<1>2. OnField(display)
  BY <1>1 DEF Init, OnField, CoarseIn
<1>3. OnField(NoFrame)
  BY DEF OnField, NoFrame
<1>4. fresh.frame = NoFrame /\ csnap = NoFrame
  BY DEF Init, NoFresh
<1> QED
  BY <1>1, <1>2, <1>3, <1>4 DEF Init, Together, Settling, Handling

\* Every step leaves the recorder and the device together.
LEMMA StepTogether ==
  ASSUME MainShape, StandsOnNode, Attributed, Attributed', Together, Calm, Calm', [Next]_vars
  PROVE  Together'
<1> USE DEF Together, Handling, Idle
<1>1. CASE Ignore
  <2>1. PICK g : queue = <<g>>
    BY <1>1 DEF Ignore, Attributed
  <2>2. Head(queue) = g /\ Tail(queue) = <<>>
    BY <2>1
  <2>3. /\ UNCHANGED <<display, paused, refresher, main, csnap, fresh, current>> /\ main.pc = "idle"
        /\ queue' = <<>>
    BY <1>1, <2>2 DEF Ignore, graphVars, deviceVars
  <2>4. csnap.view = display.view \/ InTypingApp
    <3>1. SUFFICES ASSUME ~InTypingApp PROVE csnap.view = display.view
      OBVIOUS
    <3>2. g.on = csnap.view /\ (g.kind # "tap" => display.view = g.on)
      BY <2>1, <2>3, <3>1
    <3>3. g.kind # "tap"
      <4>1. SUFFICES ASSUME g.kind = "tap" PROVE FALSE
        OBVIOUS
      <4>2. OneTypingApp
        BY <1>1, <2>2, <4>1 DEF Ignore, Calm, OneTypingApp
      <4>3. PICK f \in {fresh.frame, csnap} : f.field = "kb"
        BY <1>1, <2>2 DEF Ignore, MayBeKey, KeyboardFrames
      <4>4. f.view = csnap.view
        BY <2>1, <2>3, <3>2, <4>3 DEF Attributed, Live
      <4>5. csnap.view \in Views /\ Field(CoarseIn(csnap)) # NoField
        BY <4>3, <4>4 DEF OnField, CoarseIn
      <4> QED
        BY <3>1, <4>2, <4>5 DEF InTypingApp, CoarseIn, NsIn
    <3> QED
      BY <3>2, <3>3
  <2> QED
    BY <2>3, <2>4 DEF InTypingApp, OneTypingApp, OpenedFrom, OnField
<1>2. CASE TakeTap
  <2>1. PICK g : queue = <<g>>
    BY <1>2 DEF TakeTap, Attributed
  <2>2. Head(queue) = g
    BY <2>1
  <2>3. /\ UNCHANGED <<display, paused, refresher, csnap, fresh, current>>
        /\ main' = [pc |-> "submit", gesture |-> g] /\ main.pc = "idle"
    BY <1>2, <2>2 DEF TakeTap, graphVars, deviceVars
  <2>4. OpenedFrom(g.on) /\ (g.on = csnap.view \/ InTypingApp)
    BY <2>1, <2>3
  <2> QED
    BY <2>3, <2>4 DEF InTypingApp, OneTypingApp, OpenedFrom, OnField
<1>3. CASE Submit
  <2>1. /\ UNCHANGED <<display, paused, refresher, csnap, fresh, current>> /\ main.pc = "submit"
        /\ main'.pc = "reconcile" /\ main'.gesture = main.gesture
    BY <1>3 DEF Submit, graphVars, deviceVars, MainShape
  <2> QED
    BY <2>1 DEF InTypingApp, OneTypingApp, OpenedFrom, OnField
<1>4. CASE Reconcile
  <2>1. main.pc = "reconcile" /\ UNCHANGED <<display, paused, refresher, csnap, fresh, current>>
    BY <1>4 DEF Reconcile, graphVars, deviceVars
  <2>2. main'.pc \in {"follow", "bind"} /\ main'.gesture = main.gesture
    <3>1. CASE Moved
      <4>1. main' = [pc |-> "follow", gesture |-> main.gesture, frame |-> fresh.frame, id |-> LiveId]
        BY <1>4, <3>1 DEF Reconcile
      <4>2. main'.pc = "follow" /\ main'.gesture = main.gesture
        BY <4>1
      <4> QED
        BY <4>2
    <3>2. CASE ~Moved
      BY <1>4, <3>2 DEF Reconcile, MainShape
    <3> QED
      BY <3>1, <3>2
  <2> QED
    BY <2>1, <2>2 DEF InTypingApp, OneTypingApp, OpenedFrom, OnField
<1>5. CASE Follow
  <2>1. /\ UNCHANGED <<display, paused, refresher, fresh>> /\ main.pc = "follow"
        /\ main' = [pc |-> "bind", gesture |-> main.gesture] /\ csnap' = main.frame
    BY <1>5 DEF Follow, deviceVars
  <2>2. main'.pc = "bind" /\ main'.gesture = main.gesture
    BY <2>1
  <2>3. csnap' = fresh.frame /\ fresh.frame.view = main.gesture.on
    BY <2>1 DEF Attributed, Live
  <2> QED
    BY <2>1, <2>2, <2>3 DEF OpenedFrom, OnField
<1>6. CASE Bind
  <2>1. /\ UNCHANGED <<display, paused, refresher, csnap, fresh, current>>
        /\ main'.pc = "settle" /\ main'.streak = 0
    BY <1>6 DEF Bind, graphVars, deviceVars
  <2> QED
    BY <2>1 DEF InTypingApp, OneTypingApp, OpenedFrom, OnField
<1>7. CASE SettleDump
  <2>1. /\ UNCHANGED <<display, paused, refresher, csnap, fresh, current>>
        /\ main'.pc \in {"settle", "enter"} /\ main'.frame = display
    BY <1>7 DEF SettleDump, graphVars, deviceVars, MainShape, Observing
  <2> QED
    BY <2>1 DEF InTypingApp, OneTypingApp, OpenedFrom, OnField
<1>8. CASE SettleGivesUp
  <2>1. /\ UNCHANGED <<display, paused, refresher, csnap, fresh, current>>
        /\ main'.pc = "enter" /\ main'.frame = main.frame
        /\ main.pc = "settle" /\ main.streak \in 1 .. Need - 1
    BY <1>8 DEF SettleGivesUp, graphVars, deviceVars, MainShape, Observing
  <2>2. main.streak # 0
    BY <2>1, SessionAssumption
  <2> QED
    BY <2>1, <2>2 DEF InTypingApp, OneTypingApp, OpenedFrom, OnField
<1>9. CASE Enter
  <2>1. /\ UNCHANGED <<display, paused, refresher, csnap, current>>
        /\ main.pc = "enter" /\ main'.pc = "repair" /\ main'.frame = main.frame
    BY <1>9 DEF Enter, graphVars, deviceVars
  <2>2. fresh' = fresh \/ fresh' = NoFresh
    BY <1>9 DEF Enter
  <2>3. OnField(fresh'.frame)
    BY <2>2 DEF OnField, NoFresh, NoFrame
  <2> QED
    BY <2>1, <2>3 DEF InTypingApp, OneTypingApp, OpenedFrom, OnField
<1>10. CASE Repair
  <2>1. /\ UNCHANGED <<display, paused, refresher, csnap, fresh>>
        /\ main.pc = "repair" /\ main'.pc = "commit" /\ main'.frame = main.frame
        /\ current' = Gate!Renamed(main.renames, current)
    BY <1>10 DEF Repair, graphVars, deviceVars, MainShape, Observing
  <2>2. current = Nobody => current' = Nobody
    BY <2>1 DEF StandsOnNode, Gate!Renamed
  <2> QED
    BY <2>1, <2>2 DEF InTypingApp, OneTypingApp, OpenedFrom, OnField
<1>11. CASE CommitTap \/ Anchor
  <2>1. /\ UNCHANGED <<display, paused, refresher, queue, fresh>> /\ main.pc = "commit"
        /\ main' = Idle /\ csnap' = main.frame
    BY <1>11 DEF CommitTap, Anchor, graphVars, deviceVars
  <2>2. queue = <<>>
    BY <2>1 DEF Attributed, Closing
  <2> QED
    BY <2>1, <2>2 DEF OpenedFrom, OnField
<1>12. CASE PauseSet \/ ResetTyping
  BY <1>12 DEF PauseSet, ResetTyping
<1>13. CASE Join \/ LastText \/ Report \/ Stop
  <2>1. /\ UNCHANGED <<display, paused, refresher, csnap, fresh, current>>
        /\ main'.pc \in Leaving
    <3>1. CASE Join
      <4>1. main'.pc = "last text"
        BY <3>1 DEF Join
      <4> QED
        BY <3>1, <4>1 DEF Join, graphVars, deviceVars, Leaving, Closing
    <3>2. CASE LastText
      BY <3>2 DEF LastText, graphVars, deviceVars, MainShape, Leaving, Closing
    <3>3. CASE Report
      BY <3>3 DEF Report, graphVars, deviceVars, MainShape, Leaving, Closing
    <3>4. CASE Stop
      BY <3>4 DEF Stop, graphVars, deviceVars, Leaving, Closing
    <3> QED
      BY <1>13, <3>1, <3>2, <3>3, <3>4
  <2> QED
    BY <2>1 DEF Leaving, Closing, InTypingApp, OneTypingApp, OpenedFrom, OnField
<1>14. CASE RefreshDump
  <2>1. /\ UNCHANGED <<display, paused, main, csnap, fresh, current, queue>>
        /\ refresher'.frame = display
    BY <1>14 DEF RefreshDump, graphVars, deviceVars
  <2> QED
    BY <2>1 DEF InTypingApp, OneTypingApp, OpenedFrom, OnField
<1>15. CASE RefreshTrack
  <2>1. /\ UNCHANGED <<display, paused, main, csnap, fresh, current, queue>>
        /\ refresher.pc = "track" /\ refresher'.frame = refresher.frame
    BY <1>15 DEF RefreshTrack, graphVars, deviceVars
  <2> QED
    BY <2>1 DEF InTypingApp, OneTypingApp, OpenedFrom, OnField
<1>16. CASE RefreshStore \/ RefreshEnd
  <2>1. /\ UNCHANGED <<display, paused, main, csnap, current, queue>>
        /\ refresher'.pc \in {"wait", "ended"}
    BY <1>16 DEF RefreshStore, RefreshEnd, graphVars, deviceVars
  <2>2. fresh'.frame = fresh.frame \/ fresh'.frame = display
    <3>1. RefreshStore => fresh'.frame = refresher.frame /\ refresher.pc = "store"
      BY DEF RefreshStore
    <3>2. RefreshEnd => fresh' = fresh
      BY DEF RefreshEnd
    <3> QED
      BY <1>16, <3>1, <3>2
  <2>3. OnField(fresh'.frame)
    BY <2>2
  <2> QED
    BY <2>1, <2>3 DEF InTypingApp, OneTypingApp, OpenedFrom, OnField
<1>17. CASE Pause
  <2>1. disturbances' = disturbances + 1 /\ disturbances = 0 /\ disturbances' = 0
    BY <1>17 DEF Pause, Calm, Undisturbed
  <2> QED
    BY <2>1
<1>18. CASE Resume
  BY <1>18 DEF Resume
<1>19. CASE Human
  <2>1. /\ main.pc = "idle" /\ queue = <<>> /\ refresher.pc = "wait"
        /\ {"view", "field"} \subseteq DOMAIN display' /\ display'.view \in Views
        /\ OnField(display')
        /\ \/ queue' = queue /\ display'.view = display.view
           \/ \E g : /\ queue' = <<g>> /\ g.on = display.view
                     /\ g.kind # "tap" => display'.view = display.view
        /\ \/ display'.view = display.view
           \/ display'.field = "off" \/ CoarseIn(display') \in Autofocus
    BY <1>19, CalmHuman
  <2>2. UNCHANGED <<current, csnap, fresh, paused, main, refresher>>
    BY <1>19, HumanKeepsSession DEF graphVars
  <2>3. csnap.view = display.view \/ InTypingApp
    BY <2>1
  <2>4. InTypingApp' = InTypingApp
    BY <2>2 DEF InTypingApp, OneTypingApp
  <2>5. CASE queue' = queue /\ display'.view = display.view
    BY <2>1, <2>2, <2>3, <2>4, <2>5 DEF OpenedFrom, OnField
  <2>6. ASSUME NEW g, queue' = <<g>>, g.on = display.view,
               g.kind # "tap" => display'.view = display.view
        PROVE  Together'
    <3>1. \A h : queue' = <<h>> => h = g
      BY <2>6
    <3>2. queue' # <<>>
      BY <2>6
    <3> QED
      BY <2>1, <2>2, <2>3, <2>4, <2>6, <3>1, <3>2 DEF OpenedFrom, OnField
  <2> QED
    BY <2>1, <2>5, <2>6
<1>20. CASE UNCHANGED vars
  <2>1. UNCHANGED <<display, paused, main, refresher, csnap, fresh, current, queue>>
    BY <1>20 DEF vars, graphVars, deviceVars
  <2> QED
    BY <2>1 DEF InTypingApp, OneTypingApp, OpenedFrom, OnField
<1> QED
  BY <1>1, <1>2, <1>3, <1>4, <1>5, <1>6, <1>7, <1>8, <1>9, <1>10, <1>11,
     <1>12, <1>13, <1>14, <1>15, <1>16, <1>17, <1>18, <1>19, <1>20 DEF Next, Main, Refresh

\* The gate leaves the screen of v alone when it sees that view, or a view of
\* another coarse fingerprint.
LEMMA GateKeepsAlone ==
  ASSUME NEW c, NEW d, NEW v, AloneIn(screens, v), c = v[1] => d = v[2]
  PROVE  AloneIn(Gate!ScreensAfter(c, d), v)
<1> DEFINE s == Gate!ScreensAfter(c, d)
<1>1. Gate!Family(v[1]) = {}
  BY DEF AloneIn, Gate!Family, Gate!nodes
<1>2. \A k : /\ Gate!Fid(k) # Gate!NoScreen
             /\ \A j : Gate!Fid(j) = Gate!Fid(k) => j = k
             /\ \A j, e : Gate!Tid(j, e) # Gate!Fid(k)
  BY DEF Gate!Fid, Gate!Tid, Gate!NoScreen
<1>3. CASE c = v[1]
  <2>1. ~Gate!Collides(c, d) /\ ~Gate!Overflows(c, d) /\ ~Gate!IsTwin(c, d)
    BY <1>1, <1>3 DEF AloneIn, Gate!Collides, Gate!Overflows, Gate!IsTwin, Gate!InFamily, Gate!nodes
  <2>2. Gate!Renaming(c, d) = [n \in {} |-> Gate!NoScreen] /\ Gate!ResolvedId(c, d) = Gate!Fid(c)
    BY <2>1 DEF Gate!Renaming, Gate!ResolvedId
  <2>3. DOMAIN s = DOMAIN screens \cup {Gate!Fid(c)}
    BY <2>2 DEF Gate!ScreensAfter, Gate!nodes, Gate!Renamed
  <2>4. \A n \in DOMAIN s :
          s[n] = IF Gate!Backfills(c, d) /\ n = Gate!Fid(c)
                 THEN [digest |-> d, coarse |-> screens[n].coarse]
                 ELSE IF n \in DOMAIN screens THEN screens[n] ELSE Gate!Carriers(c, d)
    BY <2>1, <2>3 DEF Gate!ScreensAfter, Gate!nodes
  <2>5. /\ Gate!Carriers(c, d).coarse = Gate!NoScreen
        /\ Gate!Carriers(c, d).digest \in {NoDigest, d}
    BY <2>1 DEF Gate!Carriers
  <2>6. Gate!Backfills(c, d) => Gate!Fid(c) \in DOMAIN screens
    BY DEF Gate!Backfills, Gate!nodes
  <2> HIDE DEF s
  <2>7. ASSUME NEW n \in DOMAIN s PROVE s[n].coarse # Gate!Fid(v[1])
    <3>1. CASE n \in DOMAIN screens
      BY <2>4, <2>7, <3>1 DEF AloneIn
    <3>2. CASE n \notin DOMAIN screens
      BY <1>2, <2>4, <2>5, <2>6, <2>7, <3>2
    <3> QED
      BY <3>1, <3>2
  <2>8. s[Gate!Fid(c)].digest \in {NoDigest, d}
    <3>1. s[Gate!Fid(c)] = IF Gate!Backfills(c, d)
                           THEN [digest |-> d, coarse |-> screens[Gate!Fid(c)].coarse]
                           ELSE IF Gate!Fid(c) \in DOMAIN screens THEN screens[Gate!Fid(c)]
                           ELSE Gate!Carriers(c, d)
      BY <2>3, <2>4
    <3> QED
      BY <1>3, <2>5, <3>1 DEF AloneIn
  <2> QED
    BY <1>3, <2>7, <2>8 DEF AloneIn, s
<1>4. CASE c # v[1]
  <2>1. ASSUME NEW n \in DOMAIN s, n = Gate!Fid(v[1]) \/ s[n].coarse = Gate!Fid(v[1])
        PROVE  n \in DOMAIN screens /\ s[n] = screens[n]
    <3>1. Gate!Fid(v[1]) # Gate!Fid(c) /\ Gate!Fid(v[1]) # Gate!NoScreen
      BY <1>2, <1>4
    <3>2. n # Gate!Fid(c) \/ s[n].coarse = Gate!Fid(v[1])
      BY <2>1, <3>1
    <3>3. ~(Gate!Collides(c, d) /\ n = Gate!OldTwin(c))
      <4>1. SUFFICES ASSUME Gate!Collides(c, d), n = Gate!OldTwin(c) PROVE FALSE
        OBVIOUS
      <4>2. s[n].coarse = Gate!Fid(c)
        BY <4>1 DEF Gate!ScreensAfter
      <4>3. n # Gate!Fid(v[1])
        BY <1>2, <4>1 DEF Gate!OldTwin
      <4> QED
        BY <2>1, <3>1, <4>2, <4>3
    <3>4. ~(Gate!Overflows(c, d) /\ n = Gate!Fid(c))
      <4>1. SUFFICES ASSUME Gate!Overflows(c, d), n = Gate!Fid(c) PROVE FALSE
        OBVIOUS
      <4>2. s[n].coarse = Gate!NoScreen
        BY <3>3, <4>1 DEF Gate!ScreensAfter
      <4> QED
        BY <2>1, <3>1, <4>1, <4>2
    <3>5. ~(Gate!Backfills(c, d) /\ n = Gate!Fid(c))
      <4>1. SUFFICES ASSUME Gate!Backfills(c, d), n = Gate!Fid(c) PROVE FALSE
        OBVIOUS
      <4>2. s[n].coarse = screens[n].coarse /\ n \in DOMAIN screens
        BY <3>3, <3>4, <4>1 DEF Gate!ScreensAfter, Gate!Backfills, Gate!nodes
      <4> QED
        BY <2>1, <3>1, <4>1, <4>2 DEF AloneIn
    <3>6. s[n] = IF n \in DOMAIN screens THEN screens[n] ELSE Gate!Carriers(c, d)
      BY <3>3, <3>4, <3>5 DEF Gate!ScreensAfter, Gate!nodes
    <3>7. ASSUME n \notin DOMAIN screens PROVE FALSE
      <4>1. Gate!Carriers(c, d).coarse \in {Gate!Fid(c), Gate!NoScreen}
        BY DEF Gate!Carriers
      <4>2. n = Gate!Fid(v[1])
        BY <2>1, <3>1, <3>6, <3>7, <4>1
      <4>3. n = Gate!ResolvedId(c, d) \/ \E m \in DOMAIN screens : n = Gate!Renamed(Gate!Renaming(c, d), m)
        BY <2>1 DEF Gate!ScreensAfter, Gate!nodes
      <4>4. n # Gate!ResolvedId(c, d)
        BY <1>2, <3>1, <4>2 DEF Gate!ResolvedId
      <4>5. PICK m \in DOMAIN screens : n = Gate!Renamed(Gate!Renaming(c, d), m)
        BY <4>3, <4>4
      <4>6. n = Gate!OldTwin(c) \/ n = Gate!Fid(c)
        BY <3>7, <4>5 DEF Gate!Renamed, Gate!Renaming
      <4> QED
        BY <1>2, <3>1, <4>2, <4>6 DEF Gate!OldTwin
    <3> QED
      BY <3>6, <3>7
  <2> HIDE DEF s
  <2> QED
    BY <2>1 DEF AloneIn, s
<1> QED
  BY <1>3, <1>4

\* So does the minting of an id.
LEMMA MintKeepsAlone ==
  ASSUME NEW v, NEW id, AloneIn(screens, v), Gate!MintPlain(id)
  PROVE  AloneIn(screens', v)
<1>1. Gate!Fid(v[1]) # Gate!NoScreen
  BY DEF Gate!Fid, Gate!NoScreen
<1> QED
  BY <1>1 DEF AloneIn, Gate!MintPlain, Gate!nodes

\* No step splits a screen that opens with its keyboard up.
LEMMA StepNeverSplit ==
  ASSUME PlainAutofocus, Together, NeverSplit, [Next]_vars
  PROVE  NeverSplit'
<1>1. CASE screens' = screens
  BY <1>1 DEF NeverSplit
<1>2. CASE Follow
  BY <1>2, MintKeepsAlone DEF Follow, NeverSplit
<1>3. CASE Enter
  <2> DEFINE v == main.frame.view
  <2>1. v \in Views
    BY <1>3 DEF Enter, Together
  <2>2. ASSUME NEW u \in Views, u[1] \in Autofocus PROVE AloneIn(screens', u)
    <3>1. AloneIn(screens, u)
      BY <2>2 DEF NeverSplit
    <3>2. v[1] = u[1] => v[2] = u[2]
      BY <2>1, <2>2 DEF PlainAutofocus
    <3>3. CASE main.streak >= Need
      <4>1. screens' = Gate!ScreensAfter(v[1], v[2])
        BY <1>3, <3>3 DEF Enter
      <4> HIDE DEF v
      <4>2. AloneIn(Gate!ScreensAfter(v[1], v[2]), u)
        BY <3>1, <3>2, GateKeepsAlone
      <4> QED
        BY <4>1, <4>2
    <3>4. CASE ~(main.streak >= Need)
      <4>1. Gate!MintPlain(Gate!Vid(v[1]))
        BY <1>3, <3>4 DEF Enter
      <4> QED
        BY <3>1, <4>1, MintKeepsAlone
    <3> QED
      BY <3>3, <3>4
  <2> QED
    BY <2>2 DEF NeverSplit
<1>4. CASE Human
  BY <1>1, <1>4, HumanKeepsSession DEF graphVars
<1>5. CASE ~Follow /\ ~Enter /\ ~Human
  <2>1. screens' = screens
    BY <1>5 DEF Next, Main, Refresh, vars, graphVars, Ignore, TakeTap, Submit, Reconcile,
       Bind, SettleDump, SettleGivesUp, Repair, CommitTap, Anchor, PauseSet,
       ResetTyping, Join, LastText, Report, RefreshDump, RefreshTrack, RefreshStore,
       RefreshEnd, Pause, Resume, Stop
  <2> QED
    BY <1>1, <2>1
<1> QED
  BY <1>2, <1>3, <1>4, <1>5

\* The screen just entered has its node.
LEMMA StepEntered ==
  ASSUME MainShape, StandsOnNode, StandsOnNode', Together, NeverSplit, Entered, Calm, Calm', [Next]_vars
  PROVE  Entered'
<1>1. CASE Enter
  <2> DEFINE v == main.frame.view
             settled == main.streak >= Need
             id == IF settled THEN Gate!ResolvedId(v[1], v[2]) ELSE Gate!Vid(v[1])
             r == IF settled THEN Gate!Renaming(v[1], v[2]) ELSE [n \in {} |-> Nobody]
  <2>1. /\ main'.pc = "repair" /\ main'.renames = r /\ main'.target = id
        /\ main.pc = "enter" /\ UNCHANGED <<current, display>>
    BY <1>1 DEF Enter, deviceVars
  <2>2. main.frame = display /\ v \in Views /\ v[1] = CoarseIn(display')
    BY <2>1 DEF Together, CoarseIn
  <2>3. id \in DOMAIN screens'
    BY <2>1 DEF StandsOnNode
  <2>4. CASE ~settled
    BY <2>2, <2>3, <2>4 DEF Entered
  <2>5. CASE settled
    <3>1. id = Gate!ResolvedId(v[1], v[2]) /\ r = Gate!Renaming(v[1], v[2])
      BY <2>5
    <3>2. ASSUME v[1] \in Autofocus
          PROVE  id = Gate!Fid(v[1]) /\ Gate!Renamed(r, Gate!Fid(v[1])) = Gate!Fid(v[1])
      <4>1. AloneIn(screens, v)
        BY <2>2, <3>2 DEF NeverSplit
      <4>2. Gate!Family(v[1]) = {}
        BY <4>1 DEF AloneIn, Gate!Family, Gate!nodes
      <4>3. ~Gate!Collides(v[1], v[2]) /\ ~Gate!Overflows(v[1], v[2]) /\ ~Gate!IsTwin(v[1], v[2])
        BY <4>1, <4>2 DEF AloneIn, Gate!Collides, Gate!Overflows, Gate!IsTwin, Gate!InFamily,
           Gate!nodes
      <4> QED
        BY <3>1, <4>3 DEF Gate!ResolvedId, Gate!Renaming, Gate!Renamed
    <3>3. ASSUME current' \notin DOMAIN screens' \cup {Nobody}
          PROVE  Gate!Renamed(r, Gate!Fid(v[1])) \in DOMAIN screens'
      <4>1. Gate!Renamed(r, current) \in DOMAIN screens' /\ current \notin DOMAIN screens'
        BY <2>1, <3>3 DEF StandsOnNode
      <4>2. DOMAIN r # {}
        BY <4>1 DEF Gate!Renamed
      <4>3. DOMAIN screens' = {Gate!Renamed(r, m) : m \in DOMAIN screens} \cup {id}
        BY <1>1, <2>5, <3>1 DEF Enter, Gate!ScreensAfter, Gate!nodes
      <4>4. CASE Gate!Collides(v[1], v[2])
        BY <4>3, <4>4 DEF Gate!Collides, Gate!nodes
      <4>5. CASE ~Gate!Collides(v[1], v[2])
        <5>1. Gate!Overflows(v[1], v[2]) /\ DOMAIN r = Gate!Family(v[1])
          BY <3>1, <4>2, <4>5 DEF Gate!Renaming
        <5>2. Gate!Fid(v[1]) \notin DOMAIN r
          BY <5>1 DEF Gate!Overflows, Gate!InFamily, Gate!Family
        <5>3. id = Gate!Fid(v[1])
          BY <3>1, <4>5, <5>1 DEF Gate!ResolvedId, Gate!IsTwin
        <5> QED
          BY <2>3, <5>2, <5>3 DEF Gate!Renamed
      <4> QED
        BY <4>4, <4>5
    <3> HIDE DEF id, r, v
    <3> QED
      BY <2>1, <2>2, <2>3, <3>2, <3>3 DEF Entered, Repaired
  <2> QED
    BY <2>4, <2>5
<1>2. CASE Repair
  <2>1. /\ main.pc = "repair" /\ main'.pc = "commit" /\ UNCHANGED <<screens, display>>
    BY <1>2 DEF Repair, deviceVars, MainShape
  <2> QED
    BY <2>1 DEF Entered, Repaired
<1>3. CASE Human
  BY <1>3, CalmHuman, HumanKeepsSession DEF Entered
<1>4. CASE UNCHANGED <<main, screens, current, display>>
  BY <1>4 DEF Entered, Repaired
<1>5. CASE main'.pc \in {"idle", "pause", "reset", "settle", "enter"} \cup Handling \cup Leaving
  BY <1>5 DEF Entered, Handling, Leaving, Closing
<1> QED
  BY <1>1, <1>2, <1>3, <1>4, <1>5, NextPlace

\* A text of the same tag and namespace is placed alike.
LEMMA PlacedAlike ==
  ASSUME NEW t, NEW u, t.screen = u.screen, t.ns = u.ns, Placed(u)
  PROVE  Placed(t)
BY DEF Placed, Raw

\* The steps that tag nothing anew, and leave the renames and the nodes there are.
LEMMA QuietKeepsTags ==
  ASSUME TagsPlaced,
         \A t \in Tracked' : \E u \in Tracked : t.screen = u.screen /\ t.ns = u.ns,
         DOMAIN screens \subseteq DOMAIN screens',
         (main.pc # "repair" /\ main'.pc # "repair") \/ main' = main,
         main.pc \in {"settle", "enter"} =>
           main'.pc \in {"settle", "enter"} \cup Leaving /\ display' = display,
         main.pc \in Leaving => main'.pc \in Leaving
  PROVE  TagsPlaced'
<1> SUFFICES ASSUME main'.pc \notin Leaving, NEW t \in Tracked' PROVE Placed(t)'
  BY DEF TagsPlaced
<1>1. PICK u \in Tracked : t.screen = u.screen /\ t.ns = u.ns
  OBVIOUS
<1>2. Placed(t)
  BY <1>1, PlacedAlike DEF TagsPlaced
<1>3. Repaired(t.screen)' = Repaired(t.screen)
  BY DEF Repaired
<1>4. Raw(t) => Raw(t)'
  BY DEF Raw
<1> QED
  BY <1>2, <1>3, <1>4 DEF Placed

\* Finalizing moves the field in flight to what is staged.
LEMMA CommitTracks ==
  ASSUME CommitInFlight
  PROVE  \A t \in Tracked' : \E u \in Tracked : t.screen = u.screen /\ t.ns = u.ns
<1> SUFFICES ASSUME NEW t \in Tracked' PROVE \E u \in Tracked : t.screen = u.screen /\ t.ns = u.ns
  OBVIOUS
<1>1. t \in pending \cup Finalized(typing)
  BY DEF Tracked, CommitInFlight
<1>2. CASE t \in pending
  BY <1>2 DEF Tracked
<1>3. CASE t \in Finalized(typing)
  <2>1. typing # NoTyping /\ t.screen = typing.screen /\ t.ns = typing.ns
    BY <1>3 DEF Finalized
  <2> QED
    BY <2>1 DEF Tracked
<1> QED
  BY <1>1, <1>2, <1>3

\* A field entered on the screen on display is tagged with its node, or with the
\* raw id of a screen being entered.
LEMMA TagPlaced ==
  ASSUME MainShape, AtPlace, StandsOnNode, Attributed, Together, Entered,
         main.pc \notin Leaving, refresher.pc = "track", ImeTarget(refresher.frame) # NoField
  PROVE  Placed(StartedOn(fresh, refresher.frame))
<1> DEFINE t == StartedOn(fresh, refresher.frame)
           c == CoarseIn(display)
<1>1. refresher.frame = display /\ current # Nobody
  BY DEF Together, StandsOnNode
<1>2. t.screen = TagOf(display) /\ t.ns = NsIn(display)
  BY <1>1 DEF StartedOn
<1>3. display.field # "off"
  BY <1>1 DEF ImeTarget
<1>4. NsOf(Gate!Vid(c)) = NsIn(display) /\ Volatile(Gate!Vid(c))
  BY DEF NsOf, NsIn, CoarseOf, Volatile, Gate!Vid
<1> SUFFICES Placed(t)
  OBVIOUS
<1> HIDE DEF t
<1>5. CASE current \in DOMAIN screens /\ NsOf(current) = NsIn(display)
  <2>1. t.screen = current
    BY <1>2, <1>5 DEF TagOf
  <2>2. Repaired(current) \in DOMAIN screens
    BY <1>1, <1>5 DEF Repaired, StandsOnNode
  <2> QED
    BY <2>1, <2>2 DEF Placed
<1>6. CASE ~(current \in DOMAIN screens /\ NsOf(current) = NsIn(display))
  <2>1. t.screen = Gate!Fid(c)
    BY <1>2, <1>6 DEF TagOf
  <2>2. ASSUME \/ Repaired(Gate!Fid(c)) \in DOMAIN screens
               \/ Gate!Vid(c) \in DOMAIN screens
        PROVE  Placed(t)
    BY <1>2, <1>4, <2>1, <2>2 DEF Placed
  <2>3. CASE current \notin DOMAIN screens
    <3>1. main.pc = "repair"
      BY <1>1, <2>3 DEF StandsOnNode
    <3> QED
      BY <1>1, <2>2, <2>3, <3>1 DEF Entered
  <2>4. CASE current \in DOMAIN screens
    <3>1. csnap.view # display.view /\ NsIn(csnap) # NsIn(display)
      BY <1>6, <2>4 DEF StandsOnNode, NsOf, NsIn, CoarseIn
    <3>2. ~InTypingApp
      <4>1. Field(c) # NoField /\ display.view \in Views
        BY <1>1 DEF ImeTarget, Together
      <4> QED
        BY <3>1, <4>1 DEF InTypingApp, OneTypingApp, NsIn, CoarseIn
    <3>3. c \in Autofocus
      BY <1>1, <1>3, <3>1, <3>2 DEF Together, OpenedFrom
    <3>4. CASE main.pc \in {"repair", "commit"}
      BY <2>2, <3>3, <3>4 DEF Entered
    <3>5. CASE main.pc \in {"settle", "enter"}
      BY <1>2, <2>1, <3>3, <3>5 DEF Placed, Raw
    <3>6. CASE main.pc = "idle"
      <4>1. queue = <<>>
        BY <1>1, <3>6 DEF Attributed, Live, Together
      <4> QED
        BY <3>1, <3>2, <3>6, <4>1 DEF Together
    <3>7. main.pc \notin Handling
      BY DEF Attributed, Live
    <3> QED
      BY <3>4, <3>5, <3>6, <3>7 DEF AtPlace, Observing, Together
  <2> QED
    BY <2>3, <2>4
<1> QED
  BY <1>5, <1>6

\* Entering a screen renames nodes, and no volatile one.
LEMMA EnterKeepsTags ==
  ASSUME AppInv, StandsOnNode, Together, Entered', TagsPlaced, Enter
  PROVE  TagsPlaced'
<1> DEFINE v == main.frame.view
           settled == main.streak >= Need
           id == IF settled THEN Gate!ResolvedId(v[1], v[2]) ELSE Gate!Vid(v[1])
           r == IF settled THEN Gate!Renaming(v[1], v[2]) ELSE [n \in {} |-> Nobody]
<1>1. /\ main'.pc = "repair" /\ main'.renames = r
      /\ main.pc = "enter" /\ UNCHANGED <<pending, typing, display>>
  BY DEF Enter, textVars, deviceVars
<1>2. \A n \in DOMAIN screens : Gate!Renamed(r, n) \in DOMAIN screens'
  <2>1. CASE settled
    <3>1. screens' = Gate!ScreensAfter(v[1], v[2])
      BY <2>1 DEF Enter
    <3> QED
      BY <2>1, <3>1, GateKeepsNodes DEF StandsOnNode
  <2>2. CASE ~settled
    <3>1. Gate!MintPlain(id)
      BY <2>2 DEF Enter
    <3> QED
      BY <2>2, <3>1 DEF Gate!MintPlain, Gate!nodes, Gate!Renamed
  <2> QED
    BY <2>1, <2>2
<1>3. \A n \in DOMAIN r : ~Volatile(n)
  <2>1. CASE settled
    <3>1. \A n \in Gate!Family(v[1]) : n[1] = "T"
      BY DEF AppInv, MarksOwn, Gate!Family, Gate!nodes
    <3>2. DOMAIN r \subseteq {Gate!Fid(v[1])} \cup Gate!Family(v[1])
      BY <2>1 DEF Gate!Renaming
    <3> QED
      BY <3>1, <3>2 DEF Volatile, Gate!Fid
  <2>2. CASE ~settled
    BY <2>2
  <2> QED
    BY <2>1, <2>2
<1> HIDE DEF r
<1> SUFFICES ASSUME NEW t \in Tracked' PROVE Placed(t)'
  BY DEF TagsPlaced
<1>4. Placed(t) /\ t \in Tracked
  BY <1>1 DEF TagsPlaced, Tracked, Leaving, Closing
<1>5. CASE t.screen \in DOMAIN screens
  BY <1>1, <1>2, <1>5 DEF Placed, Repaired
<1>6. CASE \E n \in DOMAIN screens : Volatile(n) /\ t.ns = NsOf(n)
  <2>1. PICK n \in DOMAIN screens : Volatile(n) /\ t.ns = NsOf(n)
    BY <1>6
  <2>2. n \in DOMAIN screens'
    BY <1>2, <1>3, <2>1 DEF Gate!Renamed
  <2> QED
    BY <2>1, <2>2 DEF Placed
<1>7. CASE Raw(t)
  <2> DEFINE c == CoarseIn(display)
  <2>1. t.screen = Gate!Fid(c) /\ t.ns = NsIn(display) /\ c \in Autofocus
    BY <1>7 DEF Raw
  <2>2. \/ Gate!Fid(c) \in DOMAIN screens' /\ Repaired(Gate!Fid(c))' = Gate!Fid(c)
        \/ Gate!Vid(c) \in DOMAIN screens'
    BY <1>1, <2>1 DEF Entered, Repaired
  <2>3. Volatile(Gate!Vid(c)) /\ t.ns = NsOf(Gate!Vid(c))
    BY <2>1 DEF Volatile, NsOf, NsIn, CoarseOf, Gate!Vid
  <2>4. CASE Gate!Fid(c) \in DOMAIN screens' /\ Repaired(Gate!Fid(c))' = Gate!Fid(c)
    <3>1. c' = c
      BY <1>1 DEF CoarseIn
    <3> QED
      BY <1>1, <2>1, <2>4, <3>1 DEF Placed, Repaired
  <2>5. CASE Gate!Vid(c) \in DOMAIN screens'
    BY <2>3, <2>5 DEF Placed
  <2> QED
    BY <2>2, <2>4, <2>5
<1> QED
  BY <1>1, <1>4, <1>5, <1>6, <1>7 DEF Placed, Repaired

\* The repair renames every tag.
LEMMA RepairKeepsTags ==
  ASSUME AppInv, MainShape, StandsOnNode, TagsPlaced, Repair
  PROVE  TagsPlaced'
<1> DEFINE r == main.renames
<1>1. /\ main.pc = "repair" /\ main'.pc = "commit" /\ screens' = screens
      /\ pending' = {[p EXCEPT !.screen = Gate!Renamed(r, @)] : p \in pending}
      /\ typing' = [typing EXCEPT !.screen = Gate!Renamed(r, @)]
  BY DEF Repair, TypingAfter, MainShape
<1> SUFFICES ASSUME NEW t \in Tracked' PROVE Placed(t)'
  BY DEF TagsPlaced
<1>2. \E u \in Tracked : t.screen = Gate!Renamed(r, u.screen) /\ t.ns = u.ns
  <2>1. CASE t \in pending'
    <3>1. PICK p \in pending : t = [p EXCEPT !.screen = Gate!Renamed(r, @)]
      BY <1>1, <2>1
    <3>2. t.screen = Gate!Renamed(r, p.screen) /\ t.ns = p.ns
      BY <3>1 DEF AppInv
    <3> QED
      BY <3>2 DEF Tracked
  <2>2. CASE t = typing' /\ typing' # NoTyping
    <3>1. t.screen = Gate!Renamed(r, typing.screen) /\ t.ns = typing.ns
      BY <1>1, <2>2 DEF AppInv
    <3>2. typing # NoTyping
      <4>1. SUFFICES ASSUME typing = NoTyping PROVE FALSE
        OBVIOUS
      <4>2. Gate!Renamed(r, typing.screen) = typing.screen
        BY <1>1, <4>1 DEF StandsOnNode, NoTyping, Gate!Renamed
      <4>3. typing' = [typing EXCEPT !.screen = typing.screen]
        BY <1>1, <4>2
      <4>4. typing' = NoTyping
        BY <4>1, <4>3 DEF NoTyping
      <4> QED
        BY <2>2, <4>4
    <3> QED
      BY <3>1, <3>2 DEF Tracked
  <2> QED
    BY <2>1, <2>2 DEF Tracked
<1>3. PICK u \in Tracked : t.screen = Gate!Renamed(r, u.screen) /\ t.ns = u.ns
  BY <1>2
<1>4. Placed(u)
  BY <1>1 DEF TagsPlaced, Leaving, Closing
<1>5. CASE Repaired(u.screen) \in DOMAIN screens
  BY <1>1, <1>3, <1>5 DEF Placed, Repaired
<1>6. CASE \E n \in DOMAIN screens : Volatile(n) /\ u.ns = NsOf(n)
  BY <1>1, <1>3, <1>6 DEF Placed
<1> QED
  BY <1>1, <1>4, <1>5, <1>6 DEF Placed, Raw

\* Tracking enters a field, types on, or finalizes.
LEMMA TrackKeepsTags ==
  ASSUME AppInv, MainShape, AtPlace, StandsOnNode, Attributed, Together, Entered, TagsPlaced,
         RefreshTrack
  PROVE  TagsPlaced'
<1> DEFINE f == refresher.frame
           entered == StartedOn(fresh, f)
<1>1. /\ UNCHANGED <<screens, main, display>>
      /\ refresher.pc = "track"
  BY DEF RefreshTrack, graphVars, deviceVars
<1>2. CASE /\ ImeTarget(f) # NoField
           /\ pending' = pending \cup Finalized(typing)
           /\ typing' = entered
  <2>1. main.pc \notin Leaving => Placed(entered)
    BY <1>1, <1>2, TagPlaced
  <2> HIDE DEF entered
  <2> SUFFICES ASSUME main.pc \notin Leaving, NEW t \in Tracked' PROVE Placed(t)'
    BY <1>1 DEF TagsPlaced
  <2>2. t = entered \/ t \in pending \/ t \in Finalized(typing)
    BY <1>2 DEF Tracked
  <2>3. Placed(t)
    <3>1. CASE t = entered
      BY <2>1, <3>1
    <3>2. CASE t \in pending
      BY <3>2 DEF TagsPlaced, Tracked
    <3>3. CASE t \in Finalized(typing)
      <4>1. typing # NoTyping /\ t.screen = typing.screen /\ t.ns = typing.ns
        BY <3>3 DEF Finalized
      <4>2. Placed(typing)
        BY <4>1 DEF TagsPlaced, Tracked
      <4> QED
        BY <4>1, <4>2 DEF Placed, Raw
    <3> QED
      BY <2>2, <3>1, <3>2, <3>3
  <2> QED
    BY <1>1, <2>3 DEF Placed, Raw, Repaired
<1>3. CASE /\ ImeTarget(f) # NoField /\ ImeTarget(f) = typing.field
           /\ typing' = [typing EXCEPT !.text = f.text]
           /\ UNCHANGED pending
  <2>1. typing'.screen = typing.screen /\ typing'.ns = typing.ns /\ typing # NoTyping
    BY <1>3 DEF AppInv, NoTyping
  <2>2. \A t \in Tracked' : \E u \in Tracked : t.screen = u.screen /\ t.ns = u.ns
    BY <1>3, <2>1 DEF Tracked
  <2> QED
    BY <1>1, <2>2, QuietKeepsTags
<1>4. CASE CommitInFlight
  BY <1>1, <1>4, CommitTracks, QuietKeepsTags
<1> QED
  BY <1>2, <1>3, <1>4 DEF RefreshTrack

\* Every step keeps the tags placed.
LEMMA StepTagsPlaced ==
  ASSUME AppInv, MainShape, AtPlace, StandsOnNode, Attributed, Together, Entered, Entered',
         TagsPlaced, Calm, Calm', [Next]_vars
  PROVE  TagsPlaced'
<1>1. ASSUME main.pc \notin {"settle", "enter", "repair"} \cup Leaving, main'.pc # "repair",
             UNCHANGED <<screens, pending, typing>>
      PROVE  TagsPlaced'
  BY <1>1, QuietKeepsTags DEF Tracked
<1>2. ASSUME UNCHANGED <<screens, pending, typing, main>>,
             display' = display \/ main.pc \notin {"settle", "enter"}
      PROVE  TagsPlaced'
  BY <1>2, QuietKeepsTags DEF Tracked, Leaving
<1>3. ASSUME main'.pc \in Leaving PROVE TagsPlaced'
  BY <1>3 DEF TagsPlaced
<1>4. CASE Ignore \/ RefreshDump \/ RefreshStore \/ RefreshEnd \/ UNCHANGED vars
  <2>1. UNCHANGED <<screens, pending, typing, main, display>>
    BY <1>4 DEF Ignore, RefreshDump, RefreshStore, RefreshEnd, vars, graphVars, textVars, deviceVars
  <2> QED
    BY <1>2, <2>1
<1>5. CASE TakeTap \/ Bind
  <2>1. UNCHANGED <<screens, pending, typing>> /\ main.pc \in {"idle", "bind"}
    BY <1>5 DEF TakeTap, Bind, graphVars, textVars, Idle
  <2>2. main'.pc \in {"submit", "settle"}
    <3>1. TakeTap => main'.pc = "submit"
      BY DEF TakeTap
    <3>2. Bind => main'.pc = "settle"
      BY DEF Bind
    <3> QED
      BY <1>5, <3>1, <3>2
  <2> QED
    BY <1>1, <2>1, <2>2 DEF Leaving, Closing
<1>6. CASE Submit
  <2>1. CommitInFlight /\ screens' = screens /\ main.pc = "submit" /\ main'.pc = "reconcile"
    BY <1>6 DEF Submit, graphVars, MainShape
  <2> QED
    BY <2>1, CommitTracks, QuietKeepsTags DEF Leaving, Closing
<1>7. CASE Reconcile
  <2>1. screens' = screens /\ main.pc = "reconcile"
    BY <1>7 DEF Reconcile, graphVars
  <2>2. CASE Moved
    <3>1. main' = [pc |-> "follow", gesture |-> main.gesture, frame |-> fresh.frame, id |-> LiveId]
      BY <1>7, <2>2 DEF Reconcile
    <3>2. CommitInFlight /\ main'.pc = "follow"
      BY <1>7, <2>2, <3>1 DEF Reconcile
    <3> QED
      BY <2>1, <3>2, CommitTracks, QuietKeepsTags DEF Leaving, Closing
  <2>3. CASE ~Moved
    <3>1. UNCHANGED <<pending, typing>> /\ main'.pc = "bind"
      BY <1>7, <2>3 DEF Reconcile, MainShape
    <3> QED
      BY <1>1, <2>1, <3>1 DEF Leaving, Closing
  <2> QED
    BY <2>2, <2>3
<1>8. CASE SettleDump \/ SettleGivesUp
  <2>1. UNCHANGED <<screens, pending, typing, display>> /\ main.pc = "settle"
    BY <1>8 DEF SettleDump, SettleGivesUp, graphVars, textVars, deviceVars
  <2>2. main'.pc \in {"settle", "enter"}
    <3>1. SettleDump => main'.pc \in {"settle", "enter"}
      BY DEF SettleDump, MainShape
    <3>2. SettleGivesUp => main'.pc = "enter"
      BY DEF SettleGivesUp, MainShape
    <3> QED
      BY <1>8, <3>1, <3>2
  <2> QED
    BY <2>1, <2>2, QuietKeepsTags DEF Tracked, Leaving, Closing
<1>9. CASE CommitTap \/ Anchor
  <2>1. screens' = screens /\ typing' = typing /\ main.pc = "commit" /\ main' = Idle
    BY <1>9 DEF CommitTap, Anchor, textVars, graphVars
  <2>2. CommitTap => pending' \in {pending, Rest(main.source)}
    BY DEF CommitTap
  <2>3. Anchor => pending' = pending
    BY DEF Anchor, textVars
  <2>4. pending' \subseteq pending
    BY <1>9, <2>2, <2>3 DEF Rest
  <2>5. \A t \in Tracked' : \E u \in Tracked : t.screen = u.screen /\ t.ns = u.ns
    BY <2>1, <2>4 DEF Tracked
  <2>6. main'.pc = "idle"
    BY <2>1 DEF Idle
  <2> QED
    BY <2>1, <2>5, <2>6, QuietKeepsTags DEF Leaving, Closing
<1>10. CASE Join \/ LastText \/ Report \/ Stop
  <2>1. ASSUME Join PROVE main'.pc = "last text"
    BY <2>1 DEF Join
  <2>2. LastText => main'.pc = "report"
    BY DEF LastText, MainShape
  <2>3. Report => main'.pc = "stopped"
    BY DEF Report, MainShape
  <2>4. Stop => main'.pc = "join"
    BY DEF Stop
  <2> QED
    BY <1>3, <1>10, <2>1, <2>2, <2>3, <2>4 DEF Leaving, Closing
<1>11. CASE Human
  <2>1. main.pc = "idle"
    BY <1>11, CalmHuman
  <2> QED
    BY <1>2, <1>11, <2>1, HumanKeepsSession DEF graphVars, textVars
<1>12. CASE Follow
  <2>1. /\ pending' \subseteq pending /\ typing' = typing /\ Gate!MintPlain(main.id)
        /\ main.pc = "follow"
    BY <1>12 DEF Follow
  <2>2. main'.pc = "bind"
    BY <1>12 DEF Follow
  <2>3. DOMAIN screens \subseteq DOMAIN screens'
    BY <2>1 DEF Gate!MintPlain, Gate!nodes
  <2>4. \A t \in Tracked' : \E u \in Tracked : t.screen = u.screen /\ t.ns = u.ns
    BY <2>1 DEF Tracked
  <2> QED
    BY <2>1, <2>2, <2>3, <2>4, QuietKeepsTags DEF Leaving, Closing
<1>13. CASE Pause
  <2>1. disturbances' = disturbances + 1 /\ disturbances = 0 /\ disturbances' = 0
    BY <1>13 DEF Pause, Calm, Undisturbed
  <2> QED
    BY <2>1
<1>14. CASE PauseSet \/ ResetTyping \/ Resume
  BY <1>14 DEF Together, PauseSet, ResetTyping, Resume
<1>15. CASE Enter \/ Repair \/ RefreshTrack
  BY <1>15, EnterKeepsTags, RepairKeepsTags, TrackKeepsTags
<1> QED
  BY <1>4, <1>5, <1>6, <1>7, <1>8, <1>9, <1>10, <1>11, <1>12, <1>13, <1>14, <1>15
     DEF Next, Main, Refresh

\* And every step keeps all of it.
LEMMA StepTagInv == TagInv /\ [Next]_vars => TagInv'
<1> SUFFICES ASSUME TagInv, [Next]_vars PROVE TagInv'
  OBVIOUS
<1>1. TapInv /\ TapInv' /\ AtPlace /\ disturbances \in Nat
  BY StepTapInv DEF TagInv
<1>2. AtPlace' /\ disturbances' \in Nat /\ (Calm' => Calm)
  BY <1>1, StepAtPlace, CalmWas DEF TapInv
<1>3. ASSUME Calm' PROVE Together'
  <2>1. Calm /\ Together
    BY <1>2, <1>3 DEF TagInv
  <2>2. Attributed /\ Attributed'
    BY <1>1, <1>3, <2>1 DEF TapInv, Calm, Undisturbed
  <2> QED
    BY <1>1, <1>3, <2>1, <2>2, StepTogether DEF TapInv
<1>4. ASSUME Calm', PlainAutofocus PROVE NeverSplit' /\ Entered' /\ TagsPlaced'
  <2>1. Calm /\ Together /\ NeverSplit /\ Entered /\ TagsPlaced
    BY <1>2, <1>4 DEF TagInv
  <2>2. Attributed
    BY <1>1, <2>1 DEF TapInv, Calm, Undisturbed
  <2>3. NeverSplit'
    BY <1>4, <2>1, StepNeverSplit
  <2>4. Entered'
    BY <1>1, <1>4, <2>1, StepEntered DEF TapInv
  <2>5. TagsPlaced'
    BY <1>1, <1>4, <2>1, <2>2, <2>4, StepTagsPlaced DEF TapInv
  <2> QED
    BY <2>3, <2>4, <2>5
<1> QED
  BY <1>1, <1>2, <1>3, <1>4 DEF TagInv, PlainAutofocus

\* Between gestures, undisturbed, text is never left under an id no edge can start
\* from: however the gate splits and coarsens the screens meanwhile, and wherever
\* the refresher tracks a field while a tap is being handled.
THEOREM TagsStayNodes == Spec => []TagsAreNodes
<1>1. Init => TagInv
  <2>1. Init => TapInv
    <3>1. Init => MainShape
      BY DEF Init, MainShape, Settling, Handling, Observing
    <3>2. Init => TapAttributed
      BY DEF Init, TapAttributed
    <3> QED
      BY <3>1, <3>2, InitAppInv, InitStandsOnNode, InitAttributed DEF TapInv
  <2>2. Init => AtPlace /\ disturbances \in Nat
    BY DEF Init, AtPlace, Observing, Settling
  <2>3. Init => NeverSplit /\ Entered /\ TagsPlaced
    BY DEF Init, NeverSplit, AloneIn, Entered, TagsPlaced, Tracked, Settling
  <2> QED
    BY <2>1, <2>2, <2>3, InitTogether DEF TagInv
<1>2. TagInv => TagsAreNodes
  <2> SUFFICES ASSUME TagInv, PlainAutofocus, Undisturbed, OneTypingApp \/ ~missed,
                      main = Idle, NEW p \in Tracked
               PROVE  \E n \in DOMAIN screens : Bridges(p, n)
    BY DEF TagsAreNodes, Tracked
  <2>1. Placed(p)
    BY DEF TagInv, Calm, TagsPlaced, Idle, Leaving, Closing
  <2> QED
    BY <2>1 DEF Placed, Repaired, Raw, Bridges, Idle
<1> QED
  BY <1>1, <1>2, StepTagInv, PTL DEF Spec
=============================================================================
