# Verification of wendle

wendle records a human's walk through an Android app as a graph of screens
(nodes) and actions (edges), and replays or navigates it later.  This directory
holds TLA+ models of it, the TLC runs that check them, and TLAPS proofs of what
matters most of them: which id a screen has, what becomes of the edges and of
the text recorded under an id that changes, and the order of a replay.

## The system

| Part | Code | State it keeps | Operations |
|---|---|---|---|
| Identity gate | `record/identity.py` | none of its own; edits existing nodes, `_twin_exhausted` | `resolve_identity`, `lookup_identity`, `coarsen_family` |
| Recorded graph | `graph.py` | nodes, parallel edges with integer keys, `_edge_order`, force actions, blacklist | `upsert_screen`, `add_transition`, `rekey_screen`, `merge_screens`, JSON |
| Graph builder | `record/builder.py` | `current_id`, `provisional`, `_pending`, `_launching`, last dumps | `enter`, `begin`, `commit_transition`, `stage_pending`, `take_pending`, `drop_stale_pending`, `remap_holders` |
| Record session | `record/session.py`, `record/observe.py` | `_fresh`, the typing state machine, `paused`, the refresher thread | `start`, `record_gesture`, `pause`, `resume`, `stop`, `confirm/reject/correct_edge`, `mark_same` |
| Record loop and capture | `record/loop.py`, `record/stream.py`, `capture/*` | gesture queue, pump thread, the buffer of touch events | `record`, `stream_gestures`, the two touch decoders |
| Fingerprints | `fingerprint/*` | none | tree hashing, launcher rule, the settle loop |
| Launch ladder | `launch.py` | winning-rung cache | `launch` |
| Navigator | `navigate/*` | step budget, edges tried, restarts, walks | `navigate` |
| Reveal | `reveal.py` | steps, the last region state | `attempt_reveal`, the scroll walk |
| Replay | `replay/*`, `actions.py` | command index, hook registry, gotos, steps | `run`, hooks, goto, retry, stop |
| Crawler | `crawl/*` | frontier, depths, keys tried, scroll counts | `explore`, `CrawlIngester` |
| Drivers, calibration, emitters, command line | rest | none, or the device | input and output, formatting |

How they interact: the human's session and the crawler both call `enter` and
`commit_transition` of one builder; `enter` calls the gate, which may rename
nodes of the graph; the commit then repairs every holder of a renamed id.  In a
live session a pump thread decodes touches into a queue, the recording thread
empties it, and a refresher thread dumps the screen, tracks the text field in
focus and stages what was typed, under the lock it shares with the recording
thread.  Navigator and replay load a finished graph and never refine it; both
launch through the ladder and scroll through `reveal.py`, replay's goto is a
`navigate`, and the crawler repositions itself with one.

What is hard: ids change while they are held (a *split* renames a coarse node
when a second chrome is seen under the same coarse fingerprint; a *coarsening*
renames a whole family back); edges of a renamed node get fresh keys while a
chronological trace, a list of edges to confirm and staged credentials refer to
them; a launch is deferred over several screens; human edits arrive at any
point; two threads share the session and the human is ahead of both; a launch
opens after it was given up; the device moves on its own while the navigator
acts on what it saw; hooks steer a replay back over what it has run; a list is
seen only in dumps between two swipes.

What makes each part correct:

* gate: one screen never has two ids at once, refinement is one-way, bounded
  and honoured once abandoned, the read-only lookup agrees with the gate;
* graph: the trace lists each live edge once in commit order across renames;
* builder: no holder of a renamed id is left behind, staged input rides exactly
  one edge, out of the screen it was typed on;
* session: what is typed is kept, in its app; a gesture is
  attributed to the screen it was made on; a stop loses nothing silently;
* capture: one finger's gesture is one gesture, when it is over;
* launch: no mechanism is condemned that works;
* navigation: no confident wrong arrival, and arrival when nothing disturbs;
* reveal: no row scrolled past, none tapped under an overlay;
* replay: the recorded order, hooks once per visit, an end;
* crawler: no edge out of a screen it did not start on, no screen forgotten that keeps
  its id.

`PROJECT.json` lists every part with its status, and every hazard at its line.

## Modules

| Module | Models | Notes |
|---|---|---|
| `TwinIdentity` | the gate, and the holders of its ids | the abstract specification of recorded identity |
| `TwinIdentityProofs` | | theorems about `TwinIdentity` |
| `EdgeTrace` | edge keys, renames and the trace | operators only |
| `GraphBuilder` | builder, graph, the human's edits | implements `TwinIdentity` (`GateSpec`) |
| `BuilderProofs` | | lemmas about `EdgeTrace`, theorems about `GraphBuilder` |
| `RecordSession` | the session with its threads, the human and the device | takes its identity decisions from `TwinIdentity` |
| `RecordSessionProofs` | | theorems about `RecordSession` |
| `Capture` | touch lines, decoders, stream, gesture queue | feeds the queue `RecordSession` empties |
| `CaptureProofs` | | lemmas about the decoders, theorems about `Capture` |
| `Screens` | comparison of screens with nodes, routing | operators only |
| `LaunchLadder` | the launch ladder and launches that open late | extends `Screens` |
| `Navigator` | `navigate()` | extends `LaunchLadder`: ladder and loop run as one |
| `NavigatorProofs` | | theorems about `LaunchLadder` and `Navigator` |
| `Scroll` | geometry of one swipe | operators only |
| `Reveal` | `attempt_reveal` and the scroll walk over a list | extends `Scroll` |
| `RevealProofs` | | theorems about `Reveal` |
| `Flow` | compiling a recording to commands | operators only |
| `Replay` | the replay engine and its hooks | extends `Flow` |
| `ReplayProofs` | | theorems about `Flow` and `Replay` |
| `Crawler` | `explore()` | |
| `CrawlerProofs` | | theorems about `Crawler` |
| `MC...` | | the small instances of the runs |

The definitions commented *Mutant* or *A bug* are faulty variants of the
definition that follows them.  No specification uses them; replacing the
definition by its variant must break the property named in `PROJECT.json`,
which shows that the property depends on that code.

### TwinIdentity

A settled dump is a pair (c, d): the coarse fingerprint and the chrome digest,
`NoDigest` where `chrome_digest` returns None.  Ids are distinct values built
from them, as sha1 makes them: `Fid(c)` the coarse id, `Tid(c, d)` the refined
twin, `Vid(c)` the volatile one.  `screens` maps each node to the two fields the
gate reads, `chrome_digest` and `coarse_id`.  `ResolvedId`, `Renaming` and
`ScreensAfter` are the decision, the rename and the nodes after the mint;
`ObserveSettled`, `ObserveUnsettled`, `FlipSettled`, `FlipUnsettled` are one
`enter` and the commit's repair, `Reconcile` the read-only lookup's path,
`MergeTwins` and `MergePlain` are `mark_same`, and `ObserveRaises` is
`rekey_screen` raising.  `tags` are the ids typing is tagged with, staged or still
in a field: a field that gains focus (`TrackText`, `FocusTags`) is tagged with the
screen the recorder is on or, in another app, with the raw id of the dump, of
which there may be no node.  Volatile ids are keyed by structure in the code; here
by coarse fingerprint, which refines structure.

### EdgeTrace and GraphBuilder

An edge key is `<<u, v, k>>` with networkx's rule for k (the number of parallel
edges, then the next free integer).  `Redirect` is what `rekey_screen` and
`merge_screens` do to edges, `RedirectAll` a whole coarsening with its composed
and chain-resolved remap (`Updated` is `dict.update`).  Families are renamed in
every order (`RenameOrders`): the code's is the node order of the graph.  The
loops over edges and nodes are recursive functions, one entry per iteration.
`provisional` is a list and an answer removes the first occurrence, as
`list.remove` does; `pending` is a set, since no property is about its order.

A `Gesture` is one `record_gesture` or one crawler `commit`, whole: enter, repair,
anchor placement (`Launches`), and one of `Flip`, `Probe`, `Scroll`, `Commit` as
in parts (1), (2a), (2b), (3) of `commit_transition`.  What the code computes
from pixels is chosen freely: is the screen interactive, did the content of a
region change, did a swipe advance it, is the tap bound with confidence.
Selectors are not modelled: a second action of one type between the same screens
may be the same one (`Duplicate`) or another.  `typing` is the field in flight
with the tag it got when it gained focus; every gesture, pause, reconcile and
cycle of the refresher (`TrackText`) may find it done, with text or without
(`FieldDone`), and another may gain focus while a screen settles
(`FocusedMeanwhile`).  `settledBy`, `discarded`, `at`, `from`, `to`, `on`, `here`
and `after` are history, read by properties only.

### RecordSession

A view is what the device can display; a frame is one dump of it, with the
state of its text field and the keystrokes in it.  The main thread's
`record_gesture` is split where the other threads can come between: keyboard
suppression (`Ignore`), the commit of the field in flight (`Submit`), the
reconcile against the refresher's frame (`Reconcile`, `Follow`), the choice of
the frame a tap is bound to (`Bind`), each dump of `settle` (`SettleDump`,
`SettleGivesUp`), `Enter`, `Repair` under one lock hold, and the commit.  The
refresher's cycle is `RefreshDump`, `RefreshTrack` (the typing state machine)
and `RefreshStore`.  `Pause`, `Resume` and `Stop` keep the code's order of
steps; `Join` may time out on a dump.  The human is *patient* (waits for the
recorder before each touch, as `record()` advises) or *eager* (does not).
Anchors, swipes, checkables and edits of the graph are `GraphBuilder`'s.
`noticed`, `dropped` and an edge's `known` are history, read by properties only;
`pending` is a set here too.

One assumption about time (`Prompt`): a dump takes longer than the main thread
needs from taking a tap to its settle, so it outruns one only when taps queue.

### Capture

The device side (what fingers do, which lines the kernel prints) is external;
both axes are reported at touch-down, and the kernel's suppression of unchanged
values is left out.  `Decoder` feeds either decoder line by line (`TypeBStep`,
`BtnTouchStep`), `Held` is what it truncates when the lines end, `decode` the two
together, with display-pixel thresholds or with its defaults; `Read` is one line
of `stream_gestures` (which decodes the whole buffer again), `EndOfStream` its
flush, `Pump` the thread that fills the queue until the deadline.  Fingers wait
until the lines printed so far are read: a reader sees the same lines one by
one whether or not more are printed behind them.

### Screens, LaunchLadder and Navigator

A place is what the device can display; a recorded node is what was seen of one
at record time.  `VerifyMatch` is `verify.py`'s tiers, `ActualNode` and
`FingerprintAmbiguous` the navigator's identity helpers, `Routable` and the
route operators the planner.  `Worlds` says what each rung of the ladder brings
up; what a rung asks for waits in `opening` and opens later, maybe after its
verification window (`GateTimesOut`) and after the next rung was issued.  The
navigator's loop is one action per branch of its body, from `Look` over the
arrivals, recoveries and stops to `Plan`, `Walk` and `Act`, in the code's order.
Between any two steps a late launch opens or, in other behaviours, a surprise
moves the device.  Selector resolution on a screen is membership in the
place's `shows` and `rows`.

### Flow and Replay

`FlowOf` is `flow_from_recording`, one `FlowStep` per recorded transition from
`FlowStart`: the cold launch, each transition's typed
text and action, re-anchoring launches where the recording has a gap, entries
into another app, scroll hops left out.  `ResumeAt` is where a goto resumes.
The list rung asks nothing of the screen: `TapsRow` is the row in its list or, where
a list of another screen is at the recorded point (`OtherList`, `Alike`), one
with the same label there; either way the list may end or show two such rows
(`RungStops`).  The engine is `Launch`, `NextCommand`, `Boundary` with its hooks (`HookContinues`,
`HookStops`, `HookJumps`), the gotos, and one action per outcome of a command,
`Retry` included.  Ladder, navigator and reveal are taken by the contracts their
own modules check.  Values, events and reports are left out.
`RecordingAssumption` is the type of a saved recording; `FlowAssumption` has the
home screen told by its package, as `is_launcher_namespace` does.
A text field below the fold is revealed and then typed into where the reveal
ended, on the twin it was recorded on; anything else the reveal rung acts on itself.

`CalmRunCompletes` is about the recordings that are `Anchorable`.  Without any one
of its clauses TLC finds a recording of three transitions at most whose flow has
a command that does not find its element; only the last, that a scroll hop stays in its
package, is not known to be needed, and the recorder makes no other (same coarse id
or same namespace):

* every app is anchored where it is entered, at one screen: without an anchor the
  gesture that opened it is replayed from wherever the last launch led, and a
  second anchor may be the one a gap is bridged to;
* a gap in the trace is at an anchor, and not right after an entry (see the
  divergences below);
* what is touched on a twin has its screen's reveal gestures, or is a row.

### Scroll and Reveal

Geometry is in pixels, on the axis the list scrolls along.  `AdvanceSpan` is the
generated swipe, `Band` the part of the list clear of an overlay, `Found` the
matches that can be tapped, `RegionState` the value state two observations are
compared by.  The list may give way to another at any time, between a dump and the
tap from it too (`Leave`): to a screen that has a list in its place, which the code
binds and goes on with, knowing nothing of it, or to one that has none.  Once it
has, it does not come back.  A slow swipe loses the touch slop or drags on a little (`Drags`),
a replayed fast one flings (`Flings`); a gesture the system or an overlay
swallows moves nothing.

### Crawler

`Pop`, `AlreadyThere`, `Navigate`, `Back`, `BacksDone`, `Tap`, `Scroll` and
`Leave` are the steps of `explore` with its four budgets, `then` the place
`_reposition` returns to, `Routed` whether the recorded transitions lead there
(no set closed under them separates it from where they start).  `Candidate` is
the row tapped next.  A place is one scroll position of a screen; a tap falls on
whatever is now where its row was (`Hit`).  A place has its screen's exact identity
and its family's: `Name` is the node it is, the family's until a twin has been
observed.  The explorer's own tables (`queue`, `seen_screens`, `depth_of`,
`tried`, `scrolls`, `sid`) keep the names they were given, and a name that is no
node's any more (`Live`) is skipped, and navigated to in vain, as in the code.
`recorded` holds the touches committed, those that stayed on their screen too.
A family is not coarsened again: the crawl never outgrows `FAMILY_MAX`.

## Runs

| Run | Instance | What it shows |
|---|---|---|
| `TwinGate` | 2 screens of 2 activities, 3 chromes, `FamilyMax` 2 | without blank dumps and plain merges: no fork, no raise, bounded families, no tag left under a name taken away, lookup and gate agree |
| `TwinGateAll` | 1 screen, blank dumps, both merges | the recorder still stands on a node of the graph |
| `BuilderTwins` | 1 screen, 3 chromes, blank or volatile at times, 2 edges, 2 staged entries, a field in flight, doubts answered, edges corrected | trace, edges, provisional ids, fields and staging follow split, overflow and human coarsening; a submit takes what was typed on its screen |
| `BuilderGate` | app screen with 2 chromes, launcher; swipes, fields, resume, reject, plain merges | every builder step is a gate step or a stutter; anchors follow renames |
| `BuilderReject` | 1 screen, rejects | the first finding below |
| `Session` | 2 forms of one app (one with twins, one that opens with its keyboard up), another app | text is kept, in its app and under ids that live, taps belong to the screen they were made on, a stop reports what is left |
| `SessionForms` | 2 forms of one app, the second opening with its keyboard up | the second finding below |
| `Navigator` | 8 nodes, 11 places, 5 worlds | no arrival at a look-alike, no working launch condemned, arrival when calm |
| `Replay` | 7 recordings, 3 hook registries, lookalikes and lists like those recorded | order, list rows, hooks per visit, completion when undisturbed, termination |
| `Reveal` | 69 layouts, of a list that may give way to another screen | no row scrolled past, taps hit the row, the end of the list is the end |
| `Capture` | 2 slots, 3 contacts, both protocols | gestures as made, once, when over |
| `Crawler` | 6 apps, 2 of them with twins | no edge out of a wrong screen, all rows of screens without a twin tried, termination |

### Bounds

* *Gate and builder.*  A split needs two chromes, a coarsening one more than
  `FamilyMax`; the code's `FAMILY_MAX` is 32 and the gate only compares against
  it, so 2 (the least the assumption allows: a split makes a family of two at
  once) with three chromes reaches the limit.  `MaxCommits` 2 allows
  parallel edges, self-loops and an edge before and one after a rename, each
  between twins; two staged entries let a field in flight be joined by a flipped
  checkbox.  `BuilderGate` needs one, its questions being about ids; its fields are
  tagged (`MaxFocused`), but nothing is staged there, as what becomes of staged text is
  `BuilderTwins`' business, which in turn has no swipes: `SubmitCarriesAll` is
  about clicks, and a click is to the gate what a swipe is.  Only `TwinGate` uses
  symmetry: the rename order in `EdgeTrace` is picked by CHOOSE, which symmetry
  does not respect.
* *Session.*  `Need` 2 is the least for which a settle can be interrupted (the
  code's default is 3); three touches of a patient human are a field, a
  keystroke and a submit, with one pause or one unasked move; two of an eager
  one, both of which can wait in the queue.  `SessionForms` needs four: to the
  second form, a keystroke, back, and out of the first.
* *Capture.*  Three contacts let one finger come, share the glass, be replaced
  and leave while another stays; points lie under, between and over the two
  thresholds (48 display pixels, 30 raw units); a tick is the half second of a
  long press.  One move is enough to make one contact a swipe.
* *Navigator.*  `StepCap` 7 (12 in the code) leaves one more step than the
  longest undisturbed way needs; `MaxRestarts` 2 (3), two walks per scroll
  edge, two surprises.  Late openings and surprises are not combined in one
  behaviour.
* *Replay.*  The recordings are the shapes `flow_from_recording` tells apart: two
  apps over the home screen, a gap, a fork, an app without anchor, no anchor,
  nothing replayable.  `GotoBudget` 2 (16) is reached; one unasked move; a screen
  whose list has a row of the same label, and one with a lookalike outside its list.
* *Reveal.*  A screen of 240 pixels, `MinClear` 8 as in the code, four steps (30):
  the lists are three bands long.  Overlays at either edge, across the width
  or over the middle only.
* *Crawler.*  The defaults of `explore()`: 12 actions, depth 2, 2 scrolls, 4 BACKs;
  the router ends elsewhere at most twice.  Twins are met while their family waits
  in the queue, while it is worked, by a tap and by a swipe.

Deadlock is not checked in any run: a bounded session ends, and a loop that has
its answer stops.

### Fairness

The recorder's modules assume none: it reacts to the human and the device,
neither of which has to act, and what is stated of it is safety.  The others
are single-threaded loops that go on while they can:

* `Navigator`: WF of the loop's own step, and WF of what was asked for opening in
  the end (a launch intent the system accepted); `ArrivesWhenCalm` states both
  as conditions of the device too (`calm`, `prompt`).  Surprises are never forced.
* `Replay`: WF of the engine; a hook is a call that returns.  The device never has
  to move.
* `Reveal`: WF of the loop (its properties are safety).
* `Crawler`: WF of `explore`'s loop.

## Findings

`BuilderReject`: `reject_edge` (session.py:629-635) leaves `_edge_order` with a
dead key: `ordered_transitions`, so replay and save, raise KeyError; a later edge
may reuse the key and appear twice in the trace.

`SessionForms`: session.py:284-287 tags a field with `current_id`, if that is on the
field's app, as "the SETTLED form screen", which "keeps two settled forms of one
app from stealing each other's typing".  A second form that opens with its
keyboard up is met by the refresher while `current_id` is still the first one:
during the settle of the tap that led there, or after that tap was suppressed
because the arrival frame of the first form shows a keyboard.  Its text is then
tagged with the first form; its own submit takes nothing, and the next tap out
of the first form carries it.  What does hold, and is proved, is that text never
leaves its app and is not lost.

## Divergences met while modelling

The models do what the code does; where that disagrees with its own docs, or
with a property one would state, the property is stated for the rest.

Gate and builder:

* A settled dump without chrome of an already refined family (identity.py:115)
  revives its coarse node; families then grow past `FAMILY_MAX`, or a later split
  raises ValueError out of `record_gesture`.  `TwinGate` has no blank dumps.
* The plain path of `mark_same` (session.py:662) ignores the remap
  `merge_screens` returns: provisional ids dangle.  `ProvisionalExact` is checked
  with twin merges.
* `resume` on the launcher keeps `_launching` (session.py:618, builder.py:268):
  the next app's anchor is stamped `self_routing`.
* A chrome-fork scroll moves `current_id` to a twin and leaves staged text tagged
  with the old one (builder.py:374): the submit from there drains nothing.
  `SubmitCarriesAll` is checked for clicks.
* A field that gains focus before `current_id` has followed the device is tagged
  with the screen before, or with a raw id of which there may be no node
  (session.py:292-296): its own submit then takes nothing.  `SubmitCarriesAll`
  is about fields that gain focus with the recorder at rest on their screen;
  `TagsFollow` says what renames owe to a tag, whatever it is.

Session:

* A keystroke still queued when the keyboard has gone is not suppressed and
  becomes a click edge (session.py:523-524, 540), for a human who types ahead.
* `resume` clears `paused` before it resets the typing baseline (616): a field
  may be tagged with the screen capture had left; a dump in flight across a
  pause loses text.  The text properties are stated for an undisturbed session.
* A field of the same identity that opens focused on the next screen overwrites
  the text of the first (293).  The instance has none.
* A stale arrival frame that shows a keyboard suppresses a tap on the next screen
  (535-545 err that way on purpose); the recorder then stays behind.
  What is typed meanwhile in another app is tagged with the refresher's raw id,
  which may be no node.  `TagsAreNodes` is stated for a device on which one app
  has text fields (`OneTypingApp`), or as long as no tap was taken for a keystroke
  (`missed`).
* A screen that is split and opens with its keyboard up, entered from another
  app: its field is tagged with that raw id, too.  `TagsAreNodes` is stated
  without such screens (`PlainAutofocus`).
* While a tap of a human ahead of the recorder waits, the refresher's frame may be of
  a later screen than the one tapped, and reconcile goes there (473-496, 553-588):
  the edge starts there.  `TapAttributed` is about a patient human.
* A tap on a member of a split family that was never recorded (`lookup_identity`
  returns None, session.py:482-487) is attributed to the node the recorder
  stood on.  `TapAttributed` leaves such taps out (`known`).

Capture:

* Only the last open contact is held back (stream.py:22-27, 40): with two fingers
  down a truncated multi-finger gesture is yielded early and again when it is
  closed, another one skipped.  The loop skips them all, so the properties are
  about gestures of one finger.
* The flush at the end of the stream decodes with raw defaults, though
  base.py:36-40 asks for the scales in live capture.
* Gestures queued when the deadline passes are lost.

Navigator:

* navigator.py:608-610 asks that a structure match, too, honour a volatile node
  that may settle into the target's skeleton; `_fingerprint_ambiguous` (259-294)
  exempts text-bearing and refined targets because their *id* folds text in, but
  a structure match does not compare text: such a node is taken for the target.
  `NoFalseArrival` covers structure matches of value-free ids only.
* A rung's landing may be read off the residue of the previous rung's late
  opening; launch.py accepts it (`residue`), and the winning-rung cache may then
  learn the wrong rung.
* The trust in a restarted anchor is not retired by an edge that was executed
  but recognised nothing; the "never confident" of 545-551 does not hold
  for an arrival by the navigation bar; `len(path) < 2` (768) cannot happen;
  refined twins that differ by chrome alone are not resolved by the scroll walk.

Replay and reveal:

* A recording home, A, home, B, B2 launches B twice (commands.py:125-127,
  138-141), against the comment at 153-154.  Likewise the contiguity cursor stays
  where it was when an entry is superseded by its launch: the next departure is
  re-anchored though the trace is contiguous, against the same comment, and a
  departure from the screen the cursor is still on, the way back unrecorded, is
  not, and runs in the app just entered.  `CalmRunCompletes` is about the rest.
* The engine does not verify where a tap led, although engine.py:1-3 speaks of
  verified steps, nor which screen it is on: the pre-route and the reveal rung
  (engine.py:98-134, reveal.py:496-515) act in whatever list is at the recorded
  point, though 115-116 takes the screen for verified.  After a surprise, or in
  a recording with a gap and no anchor to bridge it, a row with the recorded label
  is tapped in the list of another screen.  `RowsInTheirList` excludes that for
  undisturbed runs of the recordings that are `Anchorable`.
* A list hardly higher than its insets at an edge of the screen gets a swipe
  outside its bounds (reveal.py:410-411, against 16).
* An overlay that floats inside the list is neither trimmed from the band nor
  passed by in half of it (`Floats`); movement under a fiftieth of the container
  reads as none; two rows that look the same can hide a movement.

Crawler:

* After a tap that changed the screen in place `entered` stays the old snapshot
  (explorer.py:213-228): the next tap may fall on another row than the one it
  is recorded for, against lines 8-9.  `AllTried` is about the committed keys.
* A swipe that leaves the package, or lands on a volatile screen, makes it the
  one worked (192-199), against 18-19: the guard looks at taps.
* The explorer's tables hold ids and nothing repairs them (ingester.py:28 passes no
  `on_rename`).  A queued screen whose family is split before its turn is
  skipped (explorer.py:154-156) and forgotten, unless it is met again under its
  twin's id; a screen whose twin is met while it is worked cannot be got back
  to (224-227), and the rest of its rows is not tried.  The former is not even
  counted as a retreat.  `AllTried` is about the screens that have
  no twin, `Terminates` and `WorksOneScreen` about all.
* Rows a scroll revealed are lost when the list is reset on return, its scroll
  budget being spent, against 12-16; the depth check at 155 never holds.

## Proofs

The theorems hold for any sets of screens, digests, views, recordings and hooks,
finite or not, for every bound, and for every interleaving.  They assume the
named ASSUMEs of the modules, and what is said below.  Each invariant was checked
by TLC on the run of its module before it was proved.

| Theorem | Property | Assumed | Inductive invariant |
|---|---|---|---|
| `TypeCorrect`, `TwinsAlwaysRecomputable`, `BlacklistHonoured`, `CurrentNeverDangles` | `TypeOK`, `TwinsRecomputable`, `ExhaustedStaysCoarse`, `CurrentIsNode` | | their conjunction |
| `LookupAgrees` | `LookupAgreesWithGate` | | true of every state |
| `NeverForked`, `RekeyNeverRaises`, `ChurnIsBounded` | `NoForkedFamily`, `GateNeverRaises`, `FamilyBounded` | no blank dumps | and a coarse node has no twins |
| `TagsNeverDangle`, `RefinementIsOneWay` | `TagsFollow`, `NoSilentRemerge` | no plain merges | |
| `BuilderImplementsGate` | `GateSpec` | | `PendingShape` |
| `NoCommitIsLost` | `CommitsKept` | | `CommitInv` |
| `TraceIsChronological` | `TraceFaithful` | no rejects | `OrderInv` |
| `EdgesJoinTheirScreens` | `EndpointsFaithful` | no plain merges | `EndInv` |
| `EachDoubtIsAskedOnce` | `ProvisionalExact` | no plain merges | `AskInv` |
| `NothingStagedIsLost` | `StagedOnce` | | `StageInv` |
| `SubmitTakesAll` | `SubmitCarriesAll` | clicks only, no resume, no plain merges | `SubmitInv` |
| `AnchorsStayPinned` | `AnchorsPinned` | | `AnchorInv` |
| `NothingTypedIsUnreported` | `StopReports` | | `StopInv` |
| `TextNeverLeavesItsApp` | `TextStaysInApp` | | `AppInv` |
| `TapsStartWhereMade` | `TapAttributed` | | `TapInv` |
| `NoKeystrokeIsLost` | `NoTextLost` | `OneFieldPerKeyboard` | `TextInv` |
| `TagsStayNodes` | `TagsAreNodes` | | `TagInv` |
| `RunsInOrder` | `InOrder` | | `OrderInv` |
| `RowsStayInTheirList` | `RowsInTheirList` | | `RowInv`, with `CalmInv` |
| `HooksOncePerVisit` | `OncePerVisit` | | `VisitInv` |
| `CalmRunsComplete` | `CalmRunCompletes` | | `CalmInv` |
| `NoneGivenUpTooEarly` | `NoFalseExhaustion` | | `LadderInv` |
| `NeverAtATwin` | `NoTwinArrival`, a part of `NoFalseArrival` | `Undrifted`, `Telling` | `ArrivalInv` |
| `AlwaysOnTheScreenWorked` | `WorksOneScreen` | | and `Typed` |
| `NoScreenIsForgotten` | `AllTried` | `OneViewport` | `CrawlInv` |
| `GesturesArriveAsMade` | `GesturesAsMade` | | `CaptureInv` |
| `NoTouchHalved` | `NoHalfTouch` | | `CaptureInv` |
| `TapsHitTheirRow` | `TapHitsRow` | | `RevealInv` |
| `NothingIsSkipped` | `StepsSkipNothing` | `DragsFit` | and `Aimed` |
| `StopsAtTheEnd` | `NoMovementAtEnd` | `ListMoves` | `EndInv` |

Why the assumptions are needed:

* blank dumps, plain merges: the first two divergences above;
* no rejects: the first finding (`BuilderReject` shows `TraceFaithful` violated);
* `SubmitTakesAll`: a swipe between twins of one family and a resume onto another
  screen leave staged text behind under the old id;
* `OneFieldPerKeyboard`: a view that opens with its keyboard up over a field of
  the same identity as another view's overwrites the text of the first;
* `Undrifted`, `Telling`: once a screen's structure has drifted into that of
  another node, or where an element with values is on two screens of one
  activity, the code has nothing left to tell the two apart by.  Both hold of the
  places and nodes of the `Navigator` run;
* `OneViewport`, of the app crawled: its screens do not scroll, and no two places
  are one screen (they may be twins).  A scrolled list is entered wherever the app left it, and what
  its other viewports show may never be tapped (the divergences above); a
  screen met by a swipe is queued out of order.  Apps with a scroll are left to
  the run;
* `DragsFit`: travel is capped at half the band, so a list may run on after the
  swipe by the other half, less what a tap needs, and no further.  It is a fact of
  the device.  Every layout of the `Reveal` run satisfies it.
* `ListMoves`, of a list no overlay floats over (the property is not about others):
  `DragsFit`; a generated swipe starts on the list, clear of the overlay and the
  system's zones, and the list follows it by a fiftieth of its height (`Moves`; a
  list hardly higher than its insets gets a swipe that does not, see the
  divergences); and the list can be read (`Legible`): two rows that look the same,
  or one that fills the list, can make a movement look like none.  The layouts of
  the `Reveal` run satisfy it, but for `Twice`, whose two rows look the same: for
  that one the property is only model-checked.

### The identity gate

The blacklist needs `TwinsRecomputable`: only because twin marks sit exactly on
`Tid` ids can a mint of a coarse or volatile node not grow a family.  The
absence of forks needs that a coarse node's family is empty, from which a
split's target cannot exist.  The bound uses the library's facts on cardinality.

### The builder

The first part of `BuilderProofs` says what `Redirect`, `RedirectAll` and `Updated` do to a set of
edges, whatever the order of the renames: `Moves(h, edges, after)` holds when h
takes each edge to the one it has become, one to one and onto, with its data.
A family is renamed one node at a time; its remap is the composition of the
steps'.  These are inductions over the loops, each about a *set* of naturals
(`NatSetInduction`, derived from the well-foundedness of `<` in each module that
needs it), since the library's induction theorems, about an operator,
cannot be instantiated.

The rest splits each step by what it does to the graph (`StepKinds`):
it renames (`RenameMovesEdges` applies the lemmas above), commits one new edge,
answers a doubt, or leaves the edges alone.  Most invariants are `CommitInv`
(finitely many nodes and edges, each commit on an edge or settled by the human)
plus one idea: `Chronicles` (the trace is the keys, in order of commit), `Joins`
(both ends are nodes, of the fingerprints the edge was recorded between), `Asks`
(the provisional list has the unanswered doubts, each once, and no two edges are
one commit), `Accounts` (what was staged is split between pending, edges and
discarded), `TagInv` and `NoneLeft` (a field focused with the recorder at rest keeps
the recorder's id, renamed as it is, until an edge leaves that screen and takes it).  `AnchorInv` needs the nodes only.
`BuilderImplementsGate` needs none of it: one lemma per action maps it to a step
of the gate or a stutter.

### The session

* `StopInv`: once the join succeeded the refresher has ended and stages no more;
  when it timed out, a dump still under way may put a field in flight (`Late`), and
  what was staged is reported none the less.
* `AppInv`: text is tagged with a screen of its own namespace, and no rename of
  the gate leaves a coarse fingerprint; a rename decided (`Enter`) but not yet
  applied to the holders (`Repair`) is covered by `KeepsCoarse(main.renames)`.
* `TapInv`: between a patient human's tap and its binding the live frame stays the
  one that was tapped, since the refresher does not outrun the handling
  (`Prompt`), and the recorder stands on a node, the screen of its arrival frame.
* `TextInv`: the field in flight is the one the device shows (`FieldInv`), so
  nothing replaces its text but more of it; each noticed keystroke is beyond
  the field's old text, staged, on an edge, or reported (`KeptInv`).  That the
  old text is subtracted matters: what a field already held is not kept anew.
* `TagInv`: undisturbed, both threads dump what is on display and the recorder is
  there whenever it is idle, or was left behind by a tap taken for a keystroke, in
  the app that was typed in (`Together`, on top of `TapInv`).  If no other app has
  fields (`InTypingApp`), a field seen later is of the recorder's own app.  So a
  field is tagged with the node the recorder stands on or, while a tap leads into
  another app, with the raw id of a screen that opens with its keyboard up.  Such
  a screen is never split (`NeverSplit`), so the raw id is a node once the screen
  is entered (`Entered`).  `TagsPlaced` puts the three together; between a rename
  and its repair it speaks of what the ids will be (`Repaired`).

### The capture

The first part of `CaptureProofs` is about the decoders alone, fed any lines
whatever.  What was told stays as it was and each line tells one gesture more at
most, when a contact closes (`StepOK`); so what is told of some lines begins what
is told of them and more (`DecoderGrows`).  Thresholds decide what a gesture is
told as, never whether or when (`SameFor`, `DecoderIsOK`): the flush, which
decodes the whole buffer anew with the raw defaults, finds as many gestures in it
as were yielded.  Of the contacts still open `Final` withholds the last, and if
there are others all are of several fingers (`HeldTruncated`, `FinalGestures`),
so what is yielded early is never a single finger's (`ReadYields`).

The second part is about the device.  The decoder of all that was printed, read or
not (`Whole`), follows the fingers on the glass (`DeviceInv`): under type B it holds one contact
per finger, with the finger's own start, place and time (`SlotsFollow`); under
BTN_TOUCH it holds the one finger that was alone from first to last, in slot 0, or has
seen a higher slot (`TouchFollows`), which is why the kernel's giving out the
lowest free slot matters.  A finger that ends is told as what it did
(`AloneGesture`, with `FarScales`: a distance in panel units against a threshold
scaled likewise is the distance in pixels against the threshold), or as multi.

`ReaderInv` ties the queue to the lines read so far (`Seen`): the stream has
yielded what `Counted` says, the queue's whole gestures of one finger are those
told, or those told before the deadline, and a truncated one is the last of a
stream that is over.  `GesturesAsMade` is then the chain of two prefixes: the
queue's in what was read, that in what was printed, which is what was made.

### The launch ladder and the navigator

`LadderInv` follows a launch that is prompt and undisturbed.  A rung that would
land is still to be tried, or has just been issued (`Untried`), for which the
other parts are needed: a condemned mechanism is one whose own rung opens a wrong
surface (`CondemnedRightly`; the two intent-default rungs resolve one entry, so
neither would have landed), what the gate waits for is coming or came (`Coming`),
and what is judged is what the rung opened (`JudgesItsOwn`).  The last is where
`residue` matters: a surface another launch had asked for is told from the
rung's own only by being different, and the code does not tell it at all.

`ArrivalInv` says that a claim rests on what was observed: the tier in the report
is the one the observation shows of the target, and the target is not one whose
fingerprint another node shares.  `NeverAtATwin` then compares the observation
with any other node's home, tier by tier.

### The reveal

The layouts are any: rows of any height, any bounds, any overlay (one: the code
trims by several, the model does not).
`TapPointIsClear` says that the middle of a clear box of two pixels or more lies
inside the row and on nothing drawn over it (`ScrollAssumption`: of a row clear by
one pixel the middle is the overlay's own edge); `RevealInv` that the tap is
computed from the offset still on display.

For `NothingIsSkipped`, `AdvanceIsHalf` bounds a generated swipe by half its band;
`TapUncovered`, `TapAboveBar`, `TapBelowBar`, `TapBesidePill` and `TapHidden` say
for each place of the overlay when a row can be tapped, in terms of where it is
drawn; and `TallAtAnEnd`, `AboveAtAnEnd` and `BelowAtAnEnd` are the geometry: as the
row moves by less than the band, short of what a tap needs, it cannot become
tappable and cease to be so in between.

`StopsAtTheEnd` rests on what an unchanged reading of the list says.  `SameFiftieth`
is the arithmetic of the code's rounding; by `SameRows` each row reads the same,
and `MovesLittle` concludes that the list has moved by less than a fiftieth, since
an edge of any row in sight would show more; `ReadsBetween`, that it reads so at
every offset in between.  `EndInv` says what has been looked at: before a swipe
nothing could have been tapped anywhere up to the offset on display, and after it
what could be tapped along the step can be tapped where the step ends
(`StepSkipsNothing`), which is a fiftieth further on or the end of the list.

### Replay

`FlowOf` yields commands of its recording (induction over the trace as above);
`OrderInv` says the command at the engine's index follows the one run before, or
is the first of its edge a goto resumes at, which `ResumesAt` ties to the goto's
target.  `RowInv`: no row is waited for, acted on or retried outside a list, and in
a run that `CalmInv` keeps on track its own list is the one on display; `VisitInv`: a visit under way is one to the
screen the device is on and the hooks' tracker holds.

`CalmRunsComplete` has two halves.  `FlowIsSound`, by induction over the trace: every
command of the flow runs from where those before it leave the device, `RunsFrom`
being its own screen or one whose scroll hops lead to it.  Under construction
the flow's two cursors are in one of three relations to the recording's screen:
`AtTwin`, both in step and the device on the screen or short of it by scroll hops;
`AtEntry`, just launched on it, the contiguity cursor left behind; `AtHome`, which
the device is not brought to.  `EmitSound` takes one transition through them.
Then `OnTrack`: while nothing unasked has happened, the device is where the
commands run so far leave it, and no step of the engine stops.

### The crawler

Names come first: once two places have been observed, they have the same name
only if they are one node (`SameNode`), and observing a place of a node known
already renames nothing (`NameKept`).  `WorksOneScreen` is then inductive with the
types: only `Tap` and `Scroll` rely on where the device is, and each way back
re-establishes it.

`AllTried` is the correctness of the breadth-first search, whose invariant is
`CrawlInv`: the queue is in order of depth and spans two depths, so no screen is
met deeper than it lies (`Layered`); every key counted as tried has been touched,
and where it leads was met one deeper at most (`TriedDone`); a screen without a
twin that is to be expanded waits in the queue, or is being worked, or has all its
rows done (`NoneForgotten`); and the transitions lead from the root to every screen
met (`Linked`), from which `AlwaysRouted` says that the way back to the screen
being worked never fails for want of a route.  So only a name that is no node's
any more is given up (`StrayIsTwin`), and a screen without a twin keeps its name
(`LoneIsLive`).  `LevelsMet` then goes through the levels of the app, an induction
over their set.

### Model-checked only

* Liveness and what needs ENABLED, out of the prover's reach: `ArrivesWhenCalm`,
  and both `Terminates`.
* The second part of `NoFalseArrival`, about places the recording never saw: they
  are the instance's.

## Not modelled

* Tree hashing, dump parsing, selector synthesis, redaction, affordance
  scoring: pure functions over UI trees.  A dump is a view, a selector a value;
  two different screens have different fingerprints.
* The JSON conversion of the graph, emitters, rendering, the command line:
  formatting of a finished graph.
* Drivers: input and output.  Calibration and gate metrics: arithmetic on
  samples, without state.
* The snapshot ring buffer: nothing outside the tests uses it.
* A blind coordinate tap recorded inside a list (actions.py refuses it), and families
  coarsened again under a crawl.
* Several overlays over one list: `Trimmed` and `Band` read one.
* Compositions not run as one: `RecordSession` with the full builder (each
  models the other's steps by the same gate operators), `Capture` with
  `RecordSession` (their interface is the queue), and replay's goto with the
  whole navigator.
