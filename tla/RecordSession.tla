--------------------------- MODULE RecordSession ---------------------------
(***************************************************************************)
(* The recording session (wendle/record/session.py) with its threads: the  *)
(* main thread that handles queued gestures (wendle/record/loop.py), the   *)
(* refresher that dumps the live screen and tracks typed text, and the     *)
(* human with the device, who is ahead of both.                            *)
(*                                                                         *)
(* A view is what the device can display, <<coarse fingerprint, digest>>.  *)
(* A frame is one dump of it: the view, the state of its text field ("kb": *)
(* focused under the keyboard, "focused", "off") and the keystrokes the    *)
(* field holds.  A step of a thread is what it does between two points     *)
(* where the other one can interleave; a hold of self.lock is one step.    *)
(*                                                                         *)
(* Nodes and their renames are those of the identity gate.  Launch         *)
(* anchors, swipes, checkables and the human's edits are GraphBuilder's.   *)
(***************************************************************************)
EXTENDS Naturals, FiniteSets, Sequences, SequencesExt

CONSTANTS
  Coarse, Launchers, Digest, NoDigest, FamilyMax, Observable, Merges,
  Views,          \* the views, a subset of Coarse \X Digest
  Home,           \* the view a patient human starts from
  HastyHome,      \* and an eager one
  Namespace(_),   \* the namespace of a coarse fingerprint
  Field(_),       \* the identity of its text field, or NoField
  NoField,
  Autofocus,      \* the coarse fingerprints that open with the keyboard up
  Unsettled,      \* the coarse fingerprints a settle may give up on
  Need,           \* settle(need): equal consecutive dumps that settle a screen
  MaxTouches,     \* bound: touches of a patient human
  MaxHasty,       \* bound: touches of an eager one
  MaxQueue,       \* bound: touches waiting in the queue
  MaxDisturbances \* bound: pauses, and moves of the device nobody touched it for

ASSUME SessionAssumption ==
  /\ Views \subseteq Coarse \X Digest /\ {Home, HastyHome} \subseteq Views
  /\ Unsettled \subseteq Coarse
  /\ Autofocus \subseteq {c \in Coarse : Field(c) # NoField}
  /\ Need \in Nat \ {0}
  /\ {MaxTouches, MaxHasty, MaxQueue, MaxDisturbances} \subseteq Nat

VARIABLES
  screens, exhausted, current,   \* as in TwinIdentity
  edges,     \* the recorded transitions
  pending,   \* _pending, as a set: its order is no property's business
  csnap,     \* current_snapshot
  fresh,     \* _fresh
  typing,    \* the text-entry state machine (_typing_before, ..._screen, ...)
  paused,
  queue,     \* gq: the gestures not yet handled
  main,      \* main thread: where it is, and its locals
  refresher, \* refresher thread: where it is, and its locals
  display,   \* the frame the device shows now
  content,   \* what every view's field holds
  eager,     \* the human does not wait for the recorder
  touches, disturbances,  \* counts against the bounds
  noticed,   \* history: keystrokes the text-entry machine saw typed
  dropped,   \* history: those reported as uncommitted, or discarded by resume
  missed     \* history: a tap was taken for a keystroke

graphVars == <<screens, exhausted, current, edges>>
textVars == <<pending, typing, noticed, dropped>>
deviceVars == <<display, content, eager, touches>>
counts == <<disturbances, missed>>
vars == <<graphVars, textVars, csnap, fresh, paused, queue, main, refresher,
          deviceVars, counts>>

Gate == INSTANCE TwinIdentity WITH tags <- {}, raised <- FALSE

Nobody == Gate!NoScreen
CoarseOf(n) == n[2]
Volatile(n) == n[1] = "V"
NsOf(n) == Namespace(CoarseOf(n))

Keys == 1 .. MaxTouches + MaxHasty
NoFrame == [view |-> <<NoDigest, NoDigest>>, field |-> "off", text |-> {}]
Frame == [view : Views, field : {"off", "focused", "kb"}, text : SUBSET Keys]
NoFresh == [frame |-> NoFrame, stable |-> 0]
NoTyping == [field |-> NoField, screen |-> Nobody, ns |-> NoField,
             old |-> {}, text |-> {}, on |-> <<NoDigest, NoDigest>>]

CoarseIn(f) == f.view[1]
NsIn(f) == Namespace(CoarseIn(f))
Idle == [pc |-> "idle"]
Gesture == [kind : {"tap", "key"}, on : Views, kb : BOOLEAN]
NoGesture == [kind |-> "none", on |-> <<NoDigest, NoDigest>>, kb |-> FALSE]

-----------------------------------------------------------------------------
(***************************************************************************)
(* Text entry.                                                             *)
(***************************************************************************)
\* pick_ime_target: the identity of the field being typed into, if any.
ImeTarget(f) == IF f.field = "off" THEN NoField ELSE Field(CoarseIn(f))

\* _capture_before and the old text detect_text_entry diffs against: the cycle
\* before is the baseline if it shows the field at all; there the field counts
\* as empty unless it had the focus.
Baseline(prev, f) ==
  IF prev # NoFresh /\ Field(CoarseIn(prev.frame)) = ImeTarget(f)
  THEN IF ImeTarget(prev.frame) = ImeTarget(f) THEN prev.frame.text ELSE {}
  ELSE f.text

\* Mutant: a field is always tagged with the screen the recorder stands on.
TagCurrent(f) == current

\* The screen a field is tagged with: the recorder's own, if it is on the
\* field's app already, else the refresher's raw id.
TagOf(f) ==
  IF current \in DOMAIN screens /\ NsOf(current) = NsIn(f)
  THEN current ELSE Gate!Fid(CoarseIn(f))

StartedOn(prev, f) ==
  [field |-> ImeTarget(f), screen |-> TagOf(f), ns |-> NsIn(f),
   old |-> Baseline(prev, f), text |-> f.text, on |-> f.view]

\* _finalize_field and stage_pending: the field's text, if it changed.
Finalized(t) ==
  IF t = NoTyping \/ t.text = t.old THEN {}
  ELSE {[screen |-> t.screen, ns |-> t.ns, text |-> t.text, on |-> t.on]}

\* Mutant: the field in flight is forgotten, not finalized.
ForgetInFlight ==
  /\ typing' = NoTyping
  /\ UNCHANGED pending

\* _commit_in_flight, under the lock.
CommitInFlight ==
  /\ pending' = pending \cup Finalized(typing)
  /\ typing' = NoTyping

Texts(p) == UNION {x.text : x \in p}

\* take_pending and drop_stale_pending: by tag, a volatile screen by namespace.
Bridges(p, n) == p.screen = n \/ (Volatile(n) /\ p.ns = NsOf(n))
Mine(n) == {p \in pending : Bridges(p, n)}
Rest(n) == pending \ Mine(n)

-----------------------------------------------------------------------------
(***************************************************************************)
(* The refresher: dump, track the text, store the frame.                   *)
(***************************************************************************)
Stopping == main.pc \in {"join", "last text", "report", "stopped"}

\* A dump takes longer than the handling of a tap up to its settle, or a pause:
\* it outruns a tap only when taps are queued.
Prompt == eager \/ (queue = <<>> /\ main.pc \notin {"submit", "reconcile", "follow", "bind", "pause"})

\* One dump, under the lock, unless the session is paused or stopped.
RefreshDump ==
  /\ refresher.pc = "wait" /\ ~paused /\ ~Stopping /\ Prompt
  /\ current # Nobody   \* the thread starts after begin()
  /\ refresher' = [pc |-> "track", frame |-> display]
  /\ UNCHANGED <<graphVars, textVars, csnap, fresh, paused, queue, main, deviceVars, counts>>

\* The previous frame is read; then _track_text, under the lock: the field is
\* entered, typed into, or left.
RefreshTrack ==
  LET f == refresher.frame
      t == ImeTarget(f)
      entered == StartedOn(fresh, f)
  IN  /\ refresher.pc = "track"
      /\ \/ /\ t # NoField /\ t # typing.field
            /\ pending' = pending \cup Finalized(typing)
            /\ typing' = entered
            /\ noticed' = noticed \cup (entered.text \ entered.old)
         \/ /\ t # NoField /\ t = typing.field
            /\ typing' = [typing EXCEPT !.text = f.text]
            /\ noticed' = noticed \cup (f.text \ typing.old)
            /\ UNCHANGED pending
         \/ t = NoField /\ CommitInFlight /\ UNCHANGED noticed
      /\ refresher' = [pc |-> "store", frame |-> f, prev |-> fresh]
      /\ UNCHANGED <<graphVars, dropped, csnap, fresh, paused, queue, main, deviceVars, counts>>

\* stable counts the consecutive cycles of one id (kept up to 1: what is asked
\* of it is whether it is at least 1).
RefreshStore ==
  /\ refresher.pc = "store"
  /\ fresh' = [frame  |-> refresher.frame,
               stable |-> IF /\ refresher.prev # NoFresh
                             /\ CoarseIn(refresher.prev.frame) = CoarseIn(refresher.frame)
                          THEN 1 ELSE 0]
  /\ refresher' = [pc |-> "wait"]
  /\ UNCHANGED <<graphVars, textVars, csnap, paused, queue, main, deviceVars, counts>>

RefreshEnd ==
  /\ refresher.pc = "wait" /\ Stopping
  /\ refresher' = [pc |-> "ended"]
  /\ UNCHANGED <<graphVars, textVars, csnap, fresh, paused, queue, main, deviceVars, counts>>

Refresh == RefreshDump \/ RefreshTrack \/ RefreshStore \/ RefreshEnd

-----------------------------------------------------------------------------
(***************************************************************************)
(* record_gesture, step by step.                                           *)
(***************************************************************************)
\* The frames of the two the session holds that show a keyboard.
KeyboardFrames == {f \in {fresh.frame, csnap} : f.field = "kb"}

\* A keystroke lies in the keyboard's region; a tap beside it is told from one
\* only if the frame is of the view that was touched, keyboard up.
MayBeKey(g) == \E f \in KeyboardFrames : g.kind = "key" \/ ~(g.kb /\ f.view = g.on)

\* The loop takes the next gesture: a paused session ignores it, and so does
\* the keyboard's suppression.
Ignore ==
  /\ main = Idle /\ queue # <<>>
  /\ paused \/ MayBeKey(Head(queue))
  /\ queue' = Tail(queue)
  /\ missed' = (missed \/ Head(queue).kind = "tap")
  /\ UNCHANGED <<graphVars, textVars, csnap, fresh, paused, main, refresher, deviceVars, disturbances>>

TakeTap ==
  /\ main = Idle /\ queue # <<>> /\ ~paused
  /\ Head(queue).kind = "key" => KeyboardFrames = {}
  /\ queue' = Tail(queue)
  /\ main' = [pc |-> "submit", gesture |-> Head(queue)]
  /\ UNCHANGED <<graphVars, textVars, csnap, fresh, paused, refresher, deviceVars, counts>>

\* The field being typed into is finalized before the edge is built.
Submit ==
  /\ main.pc = "submit"
  /\ CommitInFlight
  /\ main' = [main EXCEPT !.pc = "reconcile"]
  /\ UNCHANGED <<graphVars, noticed, dropped, csnap, fresh, paused, queue, refresher, deviceVars, counts>>

(***************************************************************************)
(* _reconcile_current_screen: an unrecorded navigation is followed once    *)
(* the live frame held for a cycle and is structurally another screen      *)
(* (frames of different fingerprints share few elements).                  *)
(***************************************************************************)
LiveId == Gate!LookupId(fresh.frame.view[1], fresh.frame.view[2])

Moved ==
  /\ fresh # NoFresh /\ fresh.stable >= 1 /\ current \in DOMAIN screens
  /\ CoarseIn(fresh.frame) \notin {CoarseOf(current), CoarseIn(csnap)}
  /\ LiveId \notin {Nobody, current}

Reconcile ==
  /\ main.pc = "reconcile"
  /\ IF Moved
     THEN /\ CommitInFlight
          /\ main' = [pc |-> "follow", gesture |-> main.gesture, frame |-> fresh.frame, id |-> LiveId]
     ELSE /\ main' = [main EXCEPT !.pc = "bind"]
          /\ UNCHANGED <<pending, typing>>
  /\ UNCHANGED <<graphVars, noticed, dropped, csnap, fresh, paused, queue, refresher, deviceVars, counts>>

Follow ==
  /\ main.pc = "follow"
  /\ pending' = {p \in pending : p.screen = main.id}
  /\ dropped' = dropped \cup Texts(pending \ pending')
  /\ Gate!MintPlain(main.id)
  /\ current' = main.id
  /\ csnap' = main.frame
  /\ main' = [pc |-> "bind", gesture |-> main.gesture]
  /\ UNCHANGED <<exhausted, edges, typing, noticed, fresh, paused, queue, refresher, deviceVars, counts>>

\* Mutant: the arrival frame is asked first.
ArrivalFirst ==
  <<csnap.view>>
    \o (IF fresh # NoFresh /\ NsIn(fresh.frame) = NsOf(current) THEN <<fresh.frame.view>> ELSE <<>>)

\* _source_snapshot: the live dump if it is of the source's namespace, then the
\* arrival frame.
Bindable ==
  (IF fresh # NoFresh /\ NsIn(fresh.frame) = NsOf(current) THEN <<fresh.frame.view>> ELSE <<>>)
    \o <<csnap.view>>

\* The first of them that shows something to tap at that point, else the first:
\* the view that was touched shows it, another one may.  (known, a history:
\* whether the live screen is one the gate can tell.)
Bind ==
  /\ main.pc = "bind"
  /\ \E bound \in IF Bindable[1] = main.gesture.on THEN {Bindable[1]} ELSE ToSet(Bindable) :
       main' = [pc |-> "settle", why |-> "gesture", gesture |-> main.gesture, source |-> current,
                bound |-> bound = main.gesture.on, known |-> LiveId # Nobody,
                frame |-> NoFrame, streak |-> 0]
  /\ UNCHANGED <<graphVars, textVars, csnap, fresh, paused, queue, refresher, deviceVars, counts>>

\* settle: the dumps of one signature in a row.
Streak(f) == IF main.streak > 0 /\ CoarseIn(main.frame) = CoarseIn(f) THEN main.streak + 1 ELSE 1

\* One dump of settle, under the lock.
SettleDump ==
  /\ main.pc = "settle"
  /\ main' = [main EXCEPT !.frame = display, !.streak = Streak(display),
                           !.pc = IF Streak(display) >= Need THEN "enter" ELSE "settle"]
  /\ UNCHANGED <<graphVars, textVars, csnap, fresh, paused, queue, refresher, deviceVars, counts>>

\* max_wait is over: the screen counts as volatile.
SettleGivesUp ==
  /\ main.pc = "settle" /\ main.streak \in 1 .. Need - 1
  /\ CoarseIn(main.frame) \in Unsettled
  /\ main' = [main EXCEPT !.pc = "enter"]
  /\ UNCHANGED <<graphVars, textVars, csnap, fresh, paused, queue, refresher, deviceVars, counts>>

Renames(r, es) ==
  {[e EXCEPT !.from = Gate!Renamed(r, e.from), !.to = Gate!Renamed(r, e.to)] : e \in es}

\* builder.enter: the gate renames nodes and edges and mints the screen; the
\* live dump is forgotten when the tap left its screen.
Enter ==
  LET v == main.frame.view
      settled == main.streak >= Need
      id == IF settled THEN Gate!ResolvedId(v[1], v[2]) ELSE Gate!Vid(v[1])
      r == IF settled THEN Gate!Renaming(v[1], v[2]) ELSE [n \in {} |-> Nobody]
  IN  /\ main.pc = "enter"
      /\ IF settled
         THEN /\ screens' = Gate!ScreensAfter(v[1], v[2])
              /\ exhausted' = IF Gate!Overflows(v[1], v[2]) THEN exhausted \cup {v[1]} ELSE exhausted
         ELSE Gate!MintPlain(id) /\ UNCHANGED exhausted
      /\ edges' = Renames(r, edges)
      /\ fresh' = IF main.why = "gesture" /\ id # main.source THEN NoFresh ELSE fresh
      /\ main' = [pc |-> "repair", why |-> main.why, gesture |-> main.gesture,
                  source |-> Gate!Renamed(r, main.source), bound |-> main.bound,
                  known |-> main.known, frame |-> main.frame, target |-> id, renames |-> r]
      /\ UNCHANGED <<current, textVars, csnap, paused, queue, refresher, deviceVars, counts>>

\* Mutant: the field being typed into keeps the id its screen had.
TypingKept(r) == typing

TypingAfter(r) == [typing EXCEPT !.screen = Gate!Renamed(r, @)]

\* remap_holders: current_id, then staged entries and the field in flight under
\* one hold of the lock.
Repair ==
  LET r == main.renames
  IN  /\ main.pc = "repair"
      /\ current' = Gate!Renamed(r, current)
      /\ pending' = {[p EXCEPT !.screen = Gate!Renamed(r, @)] : p \in pending}
      /\ typing' = TypingAfter(r)
      /\ main' = [main EXCEPT !.pc = "commit", !.renames = [n \in {} |-> Nobody]]
      /\ UNCHANGED <<screens, exhausted, edges, noticed, dropped, csnap, fresh, paused, queue,
                     refresher, deviceVars, counts>>

Edge(pre) ==
  [from |-> main.source, to |-> main.target, kind |-> main.gesture.kind,
   on |-> main.gesture.on, pre |-> pre, bound |-> main.bound, known |-> main.known]

\* commit_transition: a tap that changed nothing is no edge; else the edge
\* takes what was typed on its source.
CommitTap ==
  /\ main.pc = "commit" /\ main.why = "gesture"
  /\ IF main.source = main.target /\ ~Volatile(main.source)
     THEN UNCHANGED <<edges, pending>>
     ELSE /\ edges' = edges \cup {Edge({[ns |-> p.ns, on |-> p.on, text |-> p.text] :
                                        p \in Mine(main.source)})}
          /\ pending' = Rest(main.source)
  /\ current' = main.target
  /\ csnap' = main.frame
  /\ main' = Idle
  /\ UNCHANGED <<screens, exhausted, typing, noticed, dropped, fresh, paused, queue, refresher,
                 deviceVars, counts>>

\* begin() and the end of resume(): stand on the observed screen.
Anchor ==
  /\ main.pc = "commit" /\ main.why = "anchor"
  /\ current' = main.target
  /\ csnap' = main.frame
  /\ main' = Idle
  /\ UNCHANGED <<screens, exhausted, edges, textVars, fresh, paused, queue, refresher,
                 deviceVars, counts>>

-----------------------------------------------------------------------------
(***************************************************************************)
(* pause, resume and stop, called by the main thread between gestures.     *)
(***************************************************************************)
Settling == [pc |-> "settle", why |-> "anchor", gesture |-> NoGesture, source |-> Nobody,
             bound |-> FALSE, known |-> FALSE, frame |-> NoFrame, streak |-> 0]

\* The recorder has caught up with the device.
Caught ==
  /\ main = Idle /\ queue = <<>>
  /\ paused \/ (refresher.pc = "wait" /\ fresh = [frame |-> display, stable |-> 1])

\* Two steps: the text in flight is finalized, then capture pauses.
Pause ==
  /\ ~eager /\ Caught /\ ~paused /\ disturbances < MaxDisturbances
  /\ CommitInFlight
  /\ main' = [pc |-> "pause"] /\ disturbances' = disturbances + 1
  /\ UNCHANGED <<graphVars, noticed, dropped, csnap, fresh, paused, queue, refresher, deviceVars, missed>>

PauseSet ==
  /\ main.pc = "pause"
  /\ paused' = TRUE /\ main' = Idle
  /\ UNCHANGED <<graphVars, textVars, csnap, fresh, queue, refresher, deviceVars, counts>>

\* Three steps: capture resumes, the text in flight is forgotten, the screen is
\* observed again.  The human pauses and resumes when no touch waits.
Resume ==
  /\ main = Idle /\ paused
  /\ queue = <<>>
  /\ paused' = FALSE /\ main' = [pc |-> "reset"]
  /\ UNCHANGED <<graphVars, textVars, csnap, fresh, queue, refresher, deviceVars, counts>>

ResetTyping ==
  /\ main.pc = "reset"
  /\ typing' = NoTyping
  /\ dropped' = dropped \cup typing.text
  /\ main' = Settling
  /\ UNCHANGED <<graphVars, pending, noticed, csnap, fresh, paused, queue, refresher, deviceVars, counts>>

\* The recording ends at its deadline, whatever is still queued.
Stop ==
  /\ main = Idle
  /\ main' = [pc |-> "join"]
  /\ UNCHANGED <<graphVars, textVars, csnap, fresh, paused, queue, refresher, deviceVars, counts>>

\* The refresher is joined, or the join times out on a long dump.
Join ==
  /\ main.pc = "join"
  /\ main' = [pc |-> "last text", joined |-> refresher.pc = "ended"]
  /\ UNCHANGED <<graphVars, textVars, csnap, fresh, paused, queue, refresher, deviceVars, counts>>

\* Mutant: a field being typed into when the session stops is left alone.
LastTextSkipped ==
  /\ main.pc = "last text"
  /\ main' = [main EXCEPT !.pc = "report"]
  /\ UNCHANGED <<graphVars, textVars, csnap, fresh, paused, queue, refresher, deviceVars, counts>>

LastText ==
  /\ main.pc = "last text"
  /\ CommitInFlight
  /\ main' = [main EXCEPT !.pc = "report"]
  /\ UNCHANGED <<graphVars, noticed, dropped, csnap, fresh, paused, queue, refresher, deviceVars, counts>>

Report ==
  /\ main.pc = "report"
  /\ pending' = {} /\ dropped' = dropped \cup Texts(pending)
  /\ main' = [main EXCEPT !.pc = "stopped"]
  /\ UNCHANGED <<graphVars, typing, noticed, csnap, fresh, paused, queue, refresher, deviceVars, counts>>

Main ==
  \/ Ignore \/ TakeTap \/ Submit \/ Reconcile \/ Follow \/ Bind
  \/ SettleDump \/ SettleGivesUp \/ Enter \/ Repair \/ CommitTap \/ Anchor
  \/ PauseSet \/ ResetTyping \/ Join \/ LastText \/ Report

-----------------------------------------------------------------------------
(***************************************************************************)
(* The human and the device.  A patient human follows record()'s advice to *)
(* walk deliberately, pausing on each screen: before the next touch the    *)
(* recorder is idle and the refresher has held what is on display.         *)
(***************************************************************************)
Touches(kind) ==
  /\ touches < (IF eager THEN MaxHasty ELSE MaxTouches) /\ touches' = touches + 1
  /\ eager \/ Caught
  /\ Len(queue) < MaxQueue
  /\ queue' = Append(queue, [kind |-> kind, on |-> display.view, kb |-> display.field = "kb"])
  /\ UNCHANGED <<graphVars, textVars, csnap, fresh, paused, main, refresher, eager, counts>>

\* A view as it opens.
Opens(v) == IF v[1] \in Autofocus THEN "kb" ELSE "off"

Shows(v, st) == [view |-> v, field |-> st, text |-> content'[v]]

\* A tap on the field raises the keyboard.
TapField ==
  /\ display.field # "kb" /\ Field(CoarseIn(display)) # NoField
  /\ Touches("tap")
  /\ display' = [display EXCEPT !.field = "kb"]
  /\ UNCHANGED content

PressKey ==
  /\ display.field = "kb"
  /\ Touches("key")
  /\ content' = [content EXCEPT ![display.view] = @ \cup {touches'}]
  /\ display' = Shows(display.view, "kb")

\* A tap on a control leads to another view or, a patient human's, nowhere.
TapControl(v) ==
  /\ eager => v # display.view
  /\ Touches("tap")
  /\ UNCHANGED content
  /\ display' = Shows(v, IF v = display.view THEN display.field ELSE Opens(v))

\* The keyboard is sent away (no gesture); the field may keep the focus.
HideKeyboard ==
  /\ display.field = "kb"
  /\ eager \/ Caught
  /\ \E st \in {"off", "focused"} : display' = [display EXCEPT !.field = st]
  /\ UNCHANGED <<graphVars, textVars, csnap, fresh, paused, queue, main, refresher,
                 content, eager, touches, counts>>

\* The device moves on without a recorded touch (an eager human moves it enough).
Drift(v) ==
  /\ v # display.view /\ ~eager
  /\ disturbances < MaxDisturbances /\ disturbances' = disturbances + 1
  /\ UNCHANGED content
  /\ display' = Shows(v, Opens(v))
  /\ UNCHANGED <<graphVars, textVars, csnap, fresh, paused, queue, main, refresher,
                 eager, touches, missed>>

Human ==
  \/ TapField \/ PressKey \/ HideKeyboard
  \/ \E v \in Views : TapControl(v) \/ Drift(v)

Init ==
  /\ screens = [n \in {} |-> Nobody] /\ exhausted = {} /\ current = Nobody
  /\ edges = {} /\ pending = {}
  /\ csnap = NoFrame /\ fresh = NoFresh /\ typing = NoTyping
  /\ paused = FALSE /\ queue = <<>>
  /\ main = Settling /\ refresher = [pc |-> "wait"]
  /\ content = [v \in Views |-> {}]
  /\ \E st \in {"off", "kb"} :
       \/ /\ eager = FALSE /\ (st = "kb" => Field(Home[1]) # NoField)
          /\ display = [view |-> Home, field |-> st, text |-> {}]
       \/ /\ eager = TRUE /\ st = "off"
          /\ display = [view |-> HastyHome, field |-> st, text |-> {}]
  /\ touches = 0 /\ disturbances = 0 /\ missed = FALSE
  /\ noticed = {} /\ dropped = {}

Next == Main \/ Refresh \/ Pause \/ Resume \/ Stop \/ Human

Spec == Init /\ [][Next]_vars

-----------------------------------------------------------------------------
(***************************************************************************)
(* Properties.                                                             *)
(***************************************************************************)
Ridden == UNION {UNION {p.text : p \in e.pre} : e \in edges}

\* A patient human, a device that moves only when touched, no pause: during a
\* resume a field may be tagged with the screen capture had left.
Undisturbed == ~eager /\ disturbances = 0

\* Of what a patient human types, no keystroke the recorder noticed is lost without
\* a word: it is in the field being typed into, staged, on an edge, or reported.
\* (Fields of one identity on two screens that open with the keyboard up overwrite
\* each other; MCRecordSession has none.)
NoTextLost ==
  ~eager => noticed \subseteq typing.text \cup Texts(pending) \cup Ridden \cup dropped

\* Typed text never rides an edge out of another app, however far the main
\* thread lags behind an eager human.
TextStaysInApp ==
  \A e \in edges : \A p \in e.pre : p.ns = NsOf(e.from)

Of(n, view) == CoarseOf(n) = view[1] /\ (n[1] = "T" => n[3] = view[2])

\* What was typed on one form, undisturbed, never rides an edge out of another:
\* session.py:286-287 says that two settled forms of one app do not steal each
\* other's typing.  (They do, where the second one opens with the keyboard up: the
\* refresher sees its field while current_id is still the first.)
TextRidesOwnForm ==
  Undisturbed => \A e \in edges : \A p \in e.pre : CoarseOf(e.from) = p.on[1]

\* A patient human's edge starts on the screen that was tapped, though the
\* device had moved there by itself, and is bound to a frame of it: unless that
\* screen is an unknown member of a split family, which reconcile leaves alone.
TapAttributed ==
  \A e \in edges : ~eager /\ e.known => CoarseOf(e.from) = e.on[1] /\ e.bound

\* No screen that can be split opens with the keyboard up: entered from another
\* app, its text would be tagged with the refresher's raw id, which is no node once
\* the screen is split.
PlainAutofocus == \A v, w \in Views : v[1] = w[1] /\ v[1] \in Autofocus => v = w

\* Only one app has text fields.
OneTypingApp ==
  \A v, w \in Views :
    Field(v[1]) # NoField /\ Field(w[1]) # NoField => Namespace(v[1]) = Namespace(w[1])

\* Between gestures, undisturbed, text is never left under an id no edge can start
\* from, whatever a rename did to the ids meanwhile.  (A tap taken for a keystroke may
\* leave the recorder in one app while the human types in another, and that text is
\* tagged with a raw id, too.)
TagsAreNodes ==
  PlainAutofocus /\ Undisturbed /\ (OneTypingApp \/ ~missed) /\ main = Idle
    => \A p \in pending \cup ({typing} \ {NoTyping}) :
         \E n \in DOMAIN screens : Bridges(p, n)

\* The frame of the refresher's last dump, once its text was tracked.
LastFrame == IF refresher.pc = "store" THEN refresher.frame ELSE fresh.frame

\* After a stop nothing is left staged, though the join timed out on a dump that
\* was tracked only after the last drain; and nothing is left in flight, but what
\* that dump showed after such a timeout.
StopReports ==
  main.pc = "stopped" =>
    /\ pending = {}
    /\ typing = NoTyping \/ (~main.joined /\ typing.text = LastFrame.text)
=============================================================================
