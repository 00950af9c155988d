------------------------------- MODULE Replay -------------------------------
(***************************************************************************)
(* The replay engine (replay/engine.py, replay/hooks.py, actions.py): it   *)
(* cold-launches the app, runs the flow of a recording command by command, *)
(* and between commands calls the hooks of the developer, which may steer  *)
(* it.  The device moves on its own a bounded number of times, and nothing *)
(* in the engine looks at the screen a tap has led to.                     *)
(*                                                                         *)
(* The launch ladder, the navigator and the reveal rung are the contracts  *)
(* their own modules check: a launch that landed is in the package, a goto *)
(* that arrived is on its target, a reveal acts inside the list at the     *)
(* recorded point, on whatever screen that list is.                        *)
(***************************************************************************)
EXTENDS Flow, FiniteSets

CONSTANTS Recordings, \* the recordings a run may be given
          Registries, \* the hook registries: key -> sequence of hooks
          Goals,      \* what a hook may send the run to
          Namespace,  \* the namespace of each recorded screen
          Elsewhere,  \* a screen that was never recorded
          Decoys,     \* <<s, t>>: s shows, outside any list, a label of t
          Alike,      \* <<s, t>>: a list of s, at the point recorded for t, has a
                      \* row with a label of t
          Blurred,    \* the screens whose node may not be told
          GotoBudget, \* 16 in the code
          MaxMoves    \* moves of the device nobody asked for

ASSUME ReplayAssumption == /\ GotoBudget \in Nat /\ MaxMoves \in Nat
                           /\ Elsewhere \notin Screen /\ Nothing # Elsewhere
                           /\ Decoys \subseteq (Screen \cup {Elsewhere}) \X Screen
                           /\ Alike \subseteq (Screen \cup {Elsewhere}) \X Screen

\* What the recorder saves.
ASSUME RecordingAssumption ==
  \A r \in Recordings :
    /\ r.trace \in Seq([from : Screen, to : Screen, act : {"tap", "row", "key", "scroll"}, typed : BOOLEAN])
    /\ r.anchored \subseteq Screen /\ r.swiped \subseteq Screen

VARIABLES rec, hooks,   \* the recording and the hooks of this run
          at,           \* the screen the device is on
          pc, flow, i,  \* where the run is; its flow and the command it is at
          todo,         \* the hooks this boundary has still to call
          jump,         \* the goto under way, or the last: its target and its issuer
          suppress,     \* the hook to be skipped once
          gotos,        \* gotos of this run
          seenNs, seenCur, \* the last namespace and node a boundary told
          last,         \* history: the command run before, 0 after a goto
          visited,      \* history: the screen of the device, if its hooks have fired
                        \* since the device came to it
          twice,        \* history: a hook fired again on one visit
          wrong,        \* history: where a row's label was tapped and should not: outside
                        \* any list; undisturbed, in a list of another screen
          calm, moves   \* nothing unasked happened so far; unasked moves

vars == <<rec, hooks, at, pc, flow, i, todo, jump, suppress, gotos, seenNs, seenCur,
          last, visited, twice, wrong, calm, moves>>
run == <<rec, hooks, flow>>
sight == <<seenNs, seenCur, twice>>
steer == <<todo, jump, suppress, gotos>>

NoJump == [target |-> Nothing, issuer |-> Nothing]
Hooked == \E key \in DOMAIN hooks : hooks[key] # <<>>
Cmd == flow[i]
EdgeOf(cmd) == rec.trace[cmd.edge]

Init == /\ rec \in Recordings /\ hooks \in Registries
        /\ at \in {Elsewhere} \cup Launcher
        /\ pc = "launch" /\ flow = <<>> /\ i = 1
        /\ todo = <<>> /\ jump = NoJump /\ suppress = {} /\ gotos = 0
        /\ seenNs = Nothing /\ seenCur = Nothing
        /\ last = 0 /\ visited = Nothing /\ twice = FALSE /\ wrong = {}
        /\ calm = TRUE /\ moves = 0

Stop == pc' = "stopped" /\ UNCHANGED <<todo, jump, suppress, gotos, i, last>>

(***************************************************************************)
(* Launching.                                                              *)
(***************************************************************************)
\* The ladder lands on the anchor; another screen of its package also passes.
LandsOn(s) == /\ at' \in {t \in Screen : Package[t] = Package[s]}
              /\ calm' = (calm /\ at' = s)
              /\ UNCHANGED moves
LaunchFails == calm' = FALSE /\ UNCHANGED <<at, moves>>

Compile(start) ==
  /\ flow' = FlowOf(rec, start)
  /\ pc' = IF NothingReplayable(rec, start, flow') THEN "stopped" ELSE "next"

Launch ==
  /\ pc = "launch" /\ LaunchAnchor(rec) # Nothing
  /\ \/ LandsOn(LaunchAnchor(rec)) /\ Compile(LaunchAnchor(rec))
     \/ LaunchFails /\ pc' = "stopped" /\ UNCHANGED flow
  /\ UNCHANGED <<rec, hooks, i, last, wrong, steer, sight>>

LaunchNothing ==
  /\ pc = "launch" /\ LaunchAnchor(rec) = Nothing
  /\ Compile(Nothing)
  /\ UNCHANGED <<rec, hooks, i, at, last, wrong, calm, moves, steer, sight>>

(***************************************************************************)
(* The loop, and the hooks at its boundaries.                              *)
(***************************************************************************)
NextCommand ==
  /\ pc = "next"
  /\ pc' = IF i > Len(flow) THEN "completed" ELSE IF Hooked THEN "before" ELSE "run"
  /\ UNCHANGED <<run, at, i, last, wrong, calm, moves, steer, sight>>

Called(keys) == SelectSeq(FlattenSeq([k \in DOMAIN keys |-> IF keys[k] \in DOMAIN hooks
                                                            THEN hooks[keys[k]] ELSE <<>>]),
                          LAMBDA h : h \notin suppress)

\* What the trackers hold once a boundary has seen x: no sight changes nothing.
TrackedAll(seen, x) == x
Tracked(seen, x) == IF x = Nothing THEN seen ELSE x

\* A boundary: one observation, the keys it raises (a screen's on arrival only),
\* the trackers moved on before the first hook is called.
Boundary ==
  /\ pc \in {"before", "after"}
  /\ \E cur \in IF at \in Screen THEN {at} \cup (IF at \in Blurred THEN {Nothing} ELSE {}) ELSE {Nothing} :
       LET ns == IF at \in Screen THEN Namespace[at] ELSE Nothing
           arrives == cur # Nothing /\ cur # seenCur
           keys == <<<<pc, i>>>>
                     \o (IF ns # Nothing /\ ns # seenNs THEN <<<<"ns", ns>>>> ELSE <<>>)
                     \o (IF arrives THEN <<<<"screen", cur>>>> ELSE <<>>)
       IN  /\ todo' = Called(keys)
           /\ seenNs' = Tracked(seenNs, ns) /\ seenCur' = Tracked(seenCur, cur)
           /\ visited' = IF arrives THEN cur ELSE visited
           /\ twice' = (twice \/ (arrives /\ cur = visited))
  /\ suppress' = {}
  /\ pc' = IF pc = "before" THEN "hooks before" ELSE "hooks after"
  /\ UNCHANGED <<run, at, i, jump, gotos, last, wrong, calm, moves>>

InHooks == pc \in {"hooks before", "hooks after"}

HookContinues == /\ InHooks /\ todo # <<>>
                 /\ todo' = Tail(todo)
                 /\ UNCHANGED <<run, at, pc, i, jump, suppress, gotos, last, wrong, calm, moves, sight>>

\* It asks to stop, or raises.
HookStops == /\ InHooks /\ todo # <<>>
             /\ calm' = FALSE
             /\ Stop
             /\ UNCHANGED <<run, at, wrong, moves, sight>>

HookJumps == /\ InHooks /\ todo # <<>>
             /\ \E g \in Goals : jump' = [target |-> g, issuer |-> Head(todo)]
             /\ pc' = "goto" /\ todo' = <<>> /\ calm' = FALSE
             /\ UNCHANGED <<run, at, i, suppress, gotos, last, wrong, moves, sight>>

HooksDone ==
  /\ InHooks /\ todo = <<>>
  /\ IF pc = "hooks before" THEN pc' = "run" /\ UNCHANGED i
                            ELSE pc' = "next" /\ i' = i + 1
  /\ UNCHANGED <<run, at, last, wrong, calm, moves, steer, sight>>

(***************************************************************************)
(* A goto: navigate, then resume the recorded flow where it departs there. *)
(***************************************************************************)
NeverSpent(n) == n
Spent(n) == n + 1
Affords(n) == n <= GotoBudget

GotoRefused ==
  /\ pc = "goto"
  /\ ~Affords(Spent(gotos)) \/ jump.target \notin Screen
  /\ pc' = "stopped" /\ gotos' = Spent(gotos)
  /\ UNCHANGED <<run, at, i, todo, jump, suppress, last, wrong, calm, moves, sight>>

GotoTries == /\ pc = "goto" /\ Affords(Spent(gotos)) /\ jump.target \in Screen
             /\ gotos' = Spent(gotos)

\* No route, off the graph, unverified: the device may have been moved.
GotoFails == /\ GotoTries
             /\ at' \in Screen \cup {Elsewhere}
             /\ pc' = "stopped"
             /\ UNCHANGED <<run, i, todo, jump, suppress, last, wrong, calm, moves, sight>>

GotoArrives ==
  /\ GotoTries
  /\ at' = jump.target
  /\ LET p == ResumeAt(rec, flow, jump.target)
     IN  IF p = 0 THEN pc' = "stopped" /\ UNCHANGED <<i, suppress, last>>
         ELSE pc' = "next" /\ i' = p /\ suppress' = {jump.issuer} /\ last' = 0
  /\ UNCHANGED <<run, todo, jump, wrong, calm, moves, sight>>

(***************************************************************************)
(* One command.                                                            *)
(***************************************************************************)
Done == /\ pc' = IF Hooked THEN "after" ELSE "next"
        /\ i' = IF Hooked THEN i ELSE i + 1
        /\ last' = i

IsRow == Cmd.kind = "action" /\ EdgeOf(Cmd).act = "row"
IsKey == Cmd.kind = "action" /\ EdgeOf(Cmd).act = "key"

\* Whether the label of the command is on the screen: on its own screen, unless
\* it has to be scrolled to, or on one that shows a lookalike.
BelowFold == Cmd.kind = "pre" /\ EdgeOf(Cmd).from \in rec.swiped
Present == \/ at = EdgeOf(Cmd).from /\ ~BelowFold
           \/ <<at, EdgeOf(Cmd).from>> \in Decoys

\* The list that holds the recorded element can be advanced to it from here.
Advances == at \in Screen /\ EdgeOf(Cmd).from \in ScrollsFrom(rec, at)
OtherList == ~Advances /\ <<at, EdgeOf(Cmd).from>> \in Alike

\* The element is acted on: the device goes where it went, or somewhere else.
Opens == \/ at' = (IF Cmd.kind = "pre" THEN at ELSE EdgeOf(Cmd).to) /\ UNCHANGED <<calm, moves>>
         \/ moves < MaxMoves /\ at' \in (Screen \cup {Elsewhere}) \ {EdgeOf(Cmd).to}
            /\ moves' = moves + 1 /\ calm' = FALSE

Astray == at' \in Screen \cup {Elsewhere} /\ calm' = FALSE /\ UNCHANGED moves

RunLaunch ==
  /\ pc = "run" /\ Cmd.kind = "launch"
  /\ \/ LandsOn(Cmd.anchor) /\ Done /\ UNCHANGED <<todo, jump, suppress, gotos>>
     \/ LaunchFails /\ Stop
  /\ UNCHANGED <<run, wrong, sight>>

\* After the idle gate: a row of a list goes to the reveal rung, a key is sent at
\* once, anything else is waited for.
RouteGlobal(isRow) == IF IsKey THEN "act" ELSE "wait"
Route(isRow) == IF isRow THEN "list" ELSE IF IsKey THEN "act" ELSE "wait"

IdleGate ==
  /\ pc = "run" /\ Cmd.kind # "launch"
  /\ pc' = Route(IsRow)
  /\ UNCHANGED <<run, at, i, last, wrong, calm, moves, steer, sight>>

\* The rung asks nothing of the screen: it taps the row in its list, or one like
\* it in the list of another screen.
TapsRow == IF Advances THEN Opens ELSE OtherList /\ Astray

\* A list that is not there, that ends, or that shows two such rows: the run stops.
RungStops == Stop /\ calm' = (calm /\ ~Advances) /\ UNCHANGED <<at, moves>>

TapInList ==
  /\ pc = "list"
  /\ \/ /\ TapsRow /\ Done /\ UNCHANGED steer
        /\ wrong' = wrong \cup (IF calm /\ OtherList THEN {"other list"} ELSE {})
     \/ RungStops /\ UNCHANGED wrong
  /\ UNCHANGED <<run, sight>>

WaitFor ==
  /\ pc = "wait" /\ Present
  /\ pc' = "act"
  /\ UNCHANGED <<run, at, i, last, wrong, calm, moves, steer, sight>>

\* Never present: one attempt to reveal it, if its screen has recorded gestures.
\* A field is only brought to the screen, and then typed into.
Eligible == EdgeOf(Cmd).from \in rec.swiped \/ IsRow
BringsField == /\ Advances \/ OtherList
               /\ at' = IF Advances THEN EdgeOf(Cmd).from ELSE at
               /\ pc' = "act once"
               /\ UNCHANGED <<i, last, calm, moves, steer>>

RevealAbsent ==
  /\ pc = "wait" /\ ~Present
  /\ \/ Eligible /\ Cmd.kind = "pre" /\ BringsField
     \/ Eligible /\ Cmd.kind # "pre" /\ TapsRow /\ Done /\ UNCHANGED steer
     \/ Eligible /\ RungStops
     \/ ~Eligible /\ Stop /\ UNCHANGED <<at, calm, moves>>
  /\ UNCHANGED <<run, wrong, sight>>

\* A key reaches whatever is there.
SendKey ==
  /\ pc = "act" /\ IsKey
  /\ IF at = EdgeOf(Cmd).from THEN Opens ELSE Astray
  /\ Done
  /\ UNCHANGED <<run, wrong, sight, steer>>

\* The recorded element resolves, as itself or as a lookalike.
Resolves == at = EdgeOf(Cmd).from /\ (~BelowFold \/ pc = "act once")
Lookalike == <<at, EdgeOf(Cmd).from>> \in Decoys \/ (pc = "act once" /\ OtherList)

ActOn ==
  /\ pc \in {"act", "act once"} /\ ~IsKey
  /\ \/ Resolves /\ Opens /\ UNCHANGED wrong
     \/ ~Resolves /\ Lookalike /\ Astray
        /\ wrong' = wrong \cup (IF IsRow THEN {"outside"} ELSE {})
  /\ Done
  /\ UNCHANGED <<run, sight, steer>>

\* It does not: one more wait, then one more try; none after a reveal.
ActMisses ==
  /\ pc \in {"act", "act once"} /\ ~IsKey /\ ~Resolves /\ ~Lookalike
  /\ IF pc = "act" THEN pc' = "retry" /\ UNCHANGED <<i, last, steer>> ELSE Stop
  /\ UNCHANGED <<run, at, wrong, calm, moves, sight>>

Retry ==
  /\ pc = "retry"
  /\ IF Present THEN pc' = "act once" /\ UNCHANGED <<i, last, steer>> ELSE Stop
  /\ UNCHANGED <<run, at, wrong, calm, moves, sight>>

\* The device moves under the run: a dialog, a hook's own taps, the user.
Move ==
  /\ pc \notin {"launch", "completed", "stopped"} /\ moves < MaxMoves
  /\ at' \in (Screen \cup {Elsewhere}) \ {at}
  /\ moves' = moves + 1 /\ calm' = FALSE
  /\ UNCHANGED <<run, pc, i, last, wrong, steer, sight>>

Command == RunLaunch \/ IdleGate \/ TapInList \/ WaitFor \/ RevealAbsent \/ SendKey
             \/ ActOn \/ ActMisses \/ Retry
Steering == HookContinues \/ HookStops \/ HookJumps \/ HooksDone
              \/ GotoRefused \/ GotoFails \/ GotoArrives

\* A visit lasts until the device leaves the screen.
Visit == visited' = IF at' = at THEN visited ELSE Nothing

Engine == Boundary \/ ((Launch \/ LaunchNothing \/ NextCommand \/ Steering \/ Command) /\ Visit)
Next == Engine \/ (Move /\ Visit)
Spec == Init /\ [][Next]_vars /\ WF_vars(Engine)

-----------------------------------------------------------------------------
Over == pc \in {"completed", "stopped"}

\* The commands run in the order of the recording: each follows the one run
\* before it, and after a goto the run resumes where the recording departs from
\* the target, or from a screen its scroll hops lead to, with everything that the
\* transition recorded, what was typed before the tap included (run(), _do_goto).
ResumesAt(target) ==
  /\ EdgeOf(Cmd).from \in ScrollsFrom(rec, target)
  /\ \A p \in 1 .. i - 1 : flow[p].edge = Cmd.edge => flow[p].kind = "launch"

InOrder == pc = "run" => \/ last # 0 /\ i = last + 1
                         \/ last = 0 /\ jump = NoJump /\ i = 1
                         \/ last = 0 /\ ResumesAt(jump.target)

EntersApp(e) == Package[e.from] # Package[e.to] /\ e.to \notin Launcher

\* Every app entered has an anchor where it was entered, and no other; the recording
\* goes on from another screen than it had reached only at an anchor, and not
\* right after an entry (the contiguity cursor of flow_from_recording does not see
\* entries); what is touched on the twin a scroll leads to, the reveal rung finds.
Anchorable(r) ==
  LET t == r.trace
      start == LaunchAnchor(r)
  IN  /\ start # Nothing /\ ~NothingReplayable(r, start, FlowOf(r, start))
      /\ \A k \in DOMAIN t : EntersApp(t[k]) => t[k].to \in r.anchored
      /\ \A s, u \in r.anchored : Package[s] = Package[u] => s = u
      /\ \A k \in 2 .. Len(t) : t[k].from # t[k - 1].to
           => t[k].from \in r.anchored /\ t[k].act # "scroll" /\ ~EntersApp(t[k - 1])
      /\ \A j, k \in DOMAIN t : t[j].act = "scroll"
           => /\ Package[t[j].from] = Package[t[j].to]
              /\ t[k].from = t[j].to => t[j].to \in r.swiped \/ (t[k].act = "row" /\ ~t[k].typed)

\* A row recorded inside a list is never tapped outside any, however many
\* lookalikes the screen shows (the pre-route of _run_command); and in the
\* undisturbed run of such a recording never in the list of another screen, though
\* the rung looks at no screen (flow_from_recording's re-anchors).
RowsInTheirList == "outside" \notin wrong /\ ("other list" \in wrong => ~Anchorable(rec))

\* The hooks of a screen are called once per stay of the device on it, whatever
\* gotos, blurred sights and resumed commands come between (_fire_phase).
OncePerVisit == ~twice

\* Undisturbed, the run of such a recording is never stopped: each command finds
\* the device where the recording pressed it (flow_from_recording's launches and
\* re-anchors, run()).
CalmRunCompletes == calm /\ pc = "stopped" => ~Anchorable(rec)

\* A run ends, whatever its hooks answer (GOTO_BUDGET).
Terminates == <>Over
=============================================================================
