---------------------------- MODULE ReplayProofs ----------------------------
(***************************************************************************)
(* Proofs about the replay engine, for every recording, every registry of  *)
(* hooks and every budget.                                                 *)
(***************************************************************************)
EXTENDS Replay, WellFoundedInduction, TLAPS

(***************************************************************************)
(* Induction over sets of natural numbers.                                 *)
(***************************************************************************)
\* A set of naturals that is not empty has a least element.
LEMMA LeastNatural ==
  ASSUME NEW T \in SUBSET Nat, T # {}
  PROVE  \E x \in T : \A y \in T : x <= y
<1>1. \E R : IsWellFoundedOn(R, Nat) /\ \A x, y \in Nat : y < x => <<y, x>> \in R
  <2>1. IsWellFoundedOn(OpToRel(<, Nat), Nat)
    BY NatLessThanWellFounded
  <2>2. \A x, y \in Nat : y < x => <<y, x>> \in OpToRel(<, Nat)
    BY DEF OpToRel
  <2> QED
    BY <2>1, <2>2
<1>2. PICK R : IsWellFoundedOn(R, Nat) /\ \A x, y \in Nat : y < x => <<y, x>> \in R
  BY <1>1
<1>3. PICK x \in T : \A y \in T : ~(<<y, x>> \in R)
  BY <1>2, WFMin
<1>4. ASSUME NEW y \in T
      PROVE  x <= y
  <2>1. ~(<<y, x>> \in R)
    BY <1>3
  <2>2. x \in Nat /\ y \in Nat
    OBVIOUS
  <2>3. ~(y < x)
    BY <1>2, <2>1, <2>2
  <2> QED
    BY <2>2, <2>3
<1> QED
  BY <1>4

\* Induction, over a set: one that holds 0 and every successor of its own holds
\* every natural number.
LEMMA NatSetInduction ==
  ASSUME NEW S, 0 \in S, \A n \in Nat : n \in S => n + 1 \in S
  PROVE  Nat \subseteq S
<1> SUFFICES ASSUME Nat \ S # {} PROVE FALSE
  OBVIOUS
<1>1. PICK x \in Nat \ S : \A y \in Nat \ S : x <= y
  BY LeastNatural
<1>2. x # 0
  OBVIOUS
<1>3. x - 1 \in Nat /\ x - 1 \in S
  BY <1>1, <1>2
<1> QED
  BY <1>3

(***************************************************************************)
(* The flow of a recording is a sequence of commands.                      *)
(***************************************************************************)
\* What FlowOf builds step by step.
Builds(g, r, start, m) ==
  g = [n \in 0 .. m |-> IF n = 0 THEN FlowStart(start) ELSE FlowStep(r, start, g[n - 1], n)]

\* The recursion of FlowOf defines a function.
LEMMA FlowIsDefined ==
  ASSUME NEW r, NEW start, NEW m \in Nat
  PROVE  \E g : Builds(g, r, start, m)
<1> DEFINE S == {k \in Nat : \E g : Builds(g, r, start, k)}
<1>1. 0 \in S
  <2> DEFINE g == [n \in 0 .. 0 |-> FlowStart(start)]
  <2>1. g = [n \in 0 .. 0 |-> IF n = 0 THEN FlowStart(start) ELSE FlowStep(r, start, g[n - 1], n)]
    OBVIOUS
  <2>2. Builds(g, r, start, 0)
    BY <2>1 DEF Builds
  <2> QED
    BY <2>2
<1>2. ASSUME NEW k \in Nat, k \in S
      PROVE  k + 1 \in S
  <2>1. PICK g : Builds(g, r, start, k)
    BY <1>2
  <2> DEFINE h == [n \in 0 .. k + 1 |-> IF n = k + 1 THEN FlowStep(r, start, g[k], k + 1) ELSE g[n]]
  <2>2. ASSUME NEW n \in 0 .. k + 1
        PROVE  h[n] = IF n = 0 THEN FlowStart(start) ELSE FlowStep(r, start, h[n - 1], n)
    <3>1. CASE n = k + 1
      <4>1. n # 0 /\ k \in 0 .. k + 1 /\ k # k + 1 /\ n - 1 = k
        BY <3>1
      <4>2. h[n] = FlowStep(r, start, g[k], k + 1) /\ h[k] = g[k]
        BY <3>1, <4>1
      <4> QED
        BY <3>1, <4>1, <4>2
    <3>2. CASE n # k + 1
      <4>1. n \in 0 .. k /\ (n # 0 => n - 1 \in 0 .. k + 1 /\ n - 1 # k + 1)
        BY <3>2
      <4>2. h[n] = g[n] /\ (n # 0 => h[n - 1] = g[n - 1])
        BY <3>2, <4>1
      <4>3. g[n] = IF n = 0 THEN FlowStart(start) ELSE FlowStep(r, start, g[n - 1], n)
        BY <2>1, <4>1 DEF Builds
      <4> QED
        BY <4>2, <4>3
    <3> QED
      BY <3>1, <3>2
  <2> HIDE DEF h
  <2>3. h = [n \in 0 .. k + 1 |-> IF n = 0 THEN FlowStart(start) ELSE FlowStep(r, start, h[n - 1], n)]
    <3>1. h = [n \in 0 .. k + 1 |-> h[n]]
      BY DEF h
    <3> QED
      BY <2>2, <3>1
  <2>4. Builds(h, r, start, k + 1)
    BY <2>3 DEF Builds
  <2> QED
    BY <2>4
<1>3. Nat \subseteq S
  <2> HIDE DEF S
  <2> QED
    BY <1>1, <1>2, NatSetInduction
<1> QED
  BY <1>3

(***************************************************************************)
(* A flow under construction, its commands drawn from those a recording    *)
(* may need.                                                               *)
(***************************************************************************)
Anchors(r) == {Nothing} \cup {AnchorFor(r, r.trace[k].from) : k \in DOMAIN r.trace}
                        \cup {AnchorFor(r, r.trace[k].to) : k \in DOMAIN r.trace}
CommandsOf(r) == [kind : {"launch", "pre", "action"}, edge : DOMAIN r.trace, anchor : Anchors(r)]

InProgress(flow_, r) == /\ DOMAIN flow_ = {"started", "last", "cmds", "package"}
                        /\ flow_.cmds \in Seq(CommandsOf(r))

\* One transition appends commands of its own.
LEMMA EmitProgress ==
  ASSUME NEW r, NEW start, NEW f, NEW ei \in DOMAIN r.trace, InProgress(f, r)
  PROVE  InProgress(Emit(r, start, f, ei), r)
<1> DEFINE e == r.trace[ei]
           C == CommandsOf(r)
           entry == IF Enters(f, e) THEN AnchorFor(r, e.to) ELSE Nothing
           launch == IF entry # Nothing THEN <<LaunchCmd(ei, entry)>> ELSE Reanchor(r, start, f, ei)
<1>1. AnchorFor(r, e.to) \in Anchors(r) /\ AnchorFor(r, e.from) \in Anchors(r) /\ Nothing \in Anchors(r)
  BY DEF Anchors
<1>2. entry \in Anchors(r)
  BY <1>1
<1>3. \A a \in Anchors(r) : LaunchCmd(ei, a) \in C
  BY DEF LaunchCmd, CommandsOf
<1>4. Own(r, ei) \in Seq(C)
  <2>1. \A k \in {"pre", "action"} : [kind |-> k, edge |-> ei, anchor |-> Nothing] \in C
    BY <1>1 DEF CommandsOf
  <2> HIDE DEF C
  <2> QED
    BY <2>1 DEF Own
<1>5. Reanchor(r, start, f, ei) \in Seq(C)
  <2> HIDE DEF C
  <2> QED
    BY <1>1, <1>3 DEF Reanchor
<1>6. launch \in Seq(C)
  <2>1. LaunchCmd(ei, entry) \in C
    BY <1>2, <1>3
  <2> HIDE DEF C, entry
  <2> QED
    BY <2>1, <1>5
<1>7. f.cmds \in Seq(C)
  BY DEF InProgress
<1>8. f.cmds \o launch \o Own(r, ei) \in Seq(C) /\ Append(f.cmds, LaunchCmd(ei, entry)) \in Seq(C)
  <2>1. LaunchCmd(ei, entry) \in C
    BY <1>2, <1>3
  <2> HIDE DEF C, launch, entry
  <2> QED
    BY <2>1, <1>4, <1>6, <1>7
<1>9. \/ Emit(r, start, f, ei) = [f EXCEPT !.last = e.to]
      \/ Emit(r, start, f, ei) = [f EXCEPT !.package = Nothing]
      \/ Emit(r, start, f, ei) = [f EXCEPT !.package = Package[e.to], !.cmds = Append(@, LaunchCmd(ei, entry))]
      \/ Emit(r, start, f, ei) = [f EXCEPT !.package = Package[e.to], !.last = e.to, !.cmds = @ \o launch \o Own(r, ei)]
  <2>1. CASE e.act = "scroll"
    BY <2>1 DEF Emit
  <2>2. CASE e.act # "scroll" /\ e.to \in Launcher
    BY <2>2 DEF Emit
  <2>3. CASE e.act # "scroll" /\ e.to \notin Launcher /\ entry # Nothing /\ Package[e.from] # Package[e.to]
    BY <2>3 DEF Emit
  <2>4. CASE e.act # "scroll" /\ e.to \notin Launcher /\ ~(entry # Nothing /\ Package[e.from] # Package[e.to])
    BY <2>4 DEF Emit
  <2> QED
    BY <2>1, <2>2, <2>3, <2>4
<1> HIDE DEF launch, entry, C
<1> QED
  BY <1>7, <1>8, <1>9 DEF InProgress, C

LEMMA FlowStepProgress ==
  ASSUME NEW r, NEW start, NEW f, NEW ei \in DOMAIN r.trace, InProgress(f, r)
  PROVE  InProgress(FlowStep(r, start, f, ei), r)
<1>1. InProgress([f EXCEPT !.started = TRUE], r)
  BY DEF InProgress
<1>2. InProgress([f EXCEPT !.started = r.trace[ei].to = start], r)
  BY DEF InProgress
<1>3. InProgress(Emit(r, start, [f EXCEPT !.started = TRUE], ei), r)
  BY <1>1, EmitProgress
<1> QED
  BY <1>2, <1>3 DEF FlowStep

\* The flow of every recording is a sequence of commands for its transitions.
LEMMA FlowIsSequence ==
  ASSUME NEW r \in Recordings, NEW start
  PROVE  FlowOf(r, start) \in Seq(CommandsOf(r))
<1>1. Len(r.trace) \in Nat /\ DOMAIN r.trace = 1 .. Len(r.trace)
  BY RecordingAssumption
<1> DEFINE N == Len(r.trace)
           built == CHOOSE g : Builds(g, r, start, N)
           S == {n \in Nat : n \in 0 .. N => InProgress(built[n], r)}
<1>2. Builds(built, r, start, N)
  BY <1>1, FlowIsDefined
<1>3. /\ built[0] = FlowStart(start)
      /\ \A n \in 1 .. N : built[n] = FlowStep(r, start, built[n - 1], n)
  <2> HIDE DEF built
  <2> QED
    BY <1>1, <1>2 DEF Builds
<1>4. FlowOf(r, start) = built[N].cmds
  BY DEF FlowOf, Builds
<1> HIDE DEF built
<1>5. 0 \in S
  <2>1. InProgress(FlowStart(start), r)
    <3>1. DOMAIN FlowStart(start) = {"started", "last", "cmds", "package"} /\ FlowStart(start).cmds = <<>>
      BY DEF FlowStart
    <3> QED
      BY <3>1 DEF InProgress
  <2> QED
    BY <1>3, <2>1
<1>6. ASSUME NEW n \in Nat, n \in S
      PROVE  n + 1 \in S
  <2> SUFFICES ASSUME n + 1 \in 0 .. N
               PROVE  InProgress(built[n + 1], r)
    OBVIOUS
  <2>1. n + 1 \in DOMAIN r.trace /\ n \in 0 .. N /\ n + 1 \in 1 .. N /\ (n + 1) - 1 = n
    BY <1>1
  <2>2. InProgress(FlowStep(r, start, built[n], n + 1), r)
    BY <1>6, <2>1, FlowStepProgress
  <2>3. built[n + 1] = FlowStep(r, start, built[(n + 1) - 1], n + 1)
    BY <1>3, <2>1
  <2> QED
    BY <2>1, <2>2, <2>3
<1>7. Nat \subseteq S
  <2> HIDE DEF S
  <2> QED
    BY <1>5, <1>6, NatSetInduction
<1>8. InProgress(built[N], r)
  BY <1>1, <1>7
<1> QED
  BY <1>4, <1>8 DEF InProgress

\* A goto resumes at the first command, launches aside, that departs from its
\* target or from a screen the scroll hops of the target lead to.
LEMMA ResumesAtFirst ==
  ASSUME NEW r, NEW f, NEW target, NEW n \in Nat, DOMAIN f = 1 .. n, ResumeAt(r, f, target) # 0
  PROVE  \E p \in 1 .. n :
           /\ ResumeAt(r, f, target) = p
           /\ f[p].kind # "launch"
           /\ r.trace[f[p].edge].from \in ScrollsFrom(r, target)
           /\ \A q \in 1 .. p - 1 : r.trace[f[q].edge].from \in ScrollsFrom(r, target)
                                     => f[q].kind = "launch"
<1> DEFINE departs == {p \in DOMAIN f : /\ f[p].kind # "launch"
                                        /\ r.trace[f[p].edge].from \in ScrollsFrom(r, target)}
           p == ResumeAt(r, f, target)
<1>1. departs # {} /\ p = CHOOSE x \in departs : \A q \in departs : x <= q
  BY DEF ResumeAt
<1>2. departs \in SUBSET Nat
  OBVIOUS
<1>3. p \in departs /\ \A q \in departs : p <= q
  <2> HIDE DEF departs, p
  <2>1. \E x \in departs : \A q \in departs : x <= q
    BY <1>1, <1>2, LeastNatural
  <2> QED
    BY <1>1, <2>1
<1>4. ASSUME NEW q \in 1 .. p - 1, r.trace[f[q].edge].from \in ScrollsFrom(r, target)
      PROVE  f[q].kind = "launch"
  <2>1. q \in DOMAIN f /\ ~(p <= q)
    BY <1>3
  <2> QED
    BY <1>3, <1>4, <2>1
<1> QED
  BY <1>3, <1>4

(***************************************************************************)
(* Order.                                                                  *)
(***************************************************************************)
\* The command at i is the one after the command run before, or the first of all,
\* or the one that the last goto resumes at.
Follows == \/ last # 0 /\ i = last + 1
           \/ last = 0 /\ jump = NoJump /\ i = 1
           \/ last = 0 /\ ResumesAt(jump.target)

OrderInv ==
  /\ rec \in Recordings
  /\ flow \in Seq(CommandsOf(rec))
  /\ i \in Nat /\ i > 0 /\ last \in Nat
  /\ pc = "launch" => i = 1 /\ last = 0 /\ jump = NoJump
  /\ pc \in {"next", "before", "hooks before", "run", "list", "wait", "act", "act once", "retry"}
       => Follows
  /\ pc \in {"after", "hooks after"} => last = i

LEMMA InitOrderInv == Init => OrderInv
<1> SUFFICES ASSUME Init PROVE OrderInv
  OBVIOUS
<1>1. flow \in Seq(CommandsOf(rec))
  BY DEF Init
<1> QED
  BY <1>1 DEF Init, OrderInv, Follows

\* A command that was run leaves the invariant behind.
LEMMA DoneKeepsOrder ==
  ASSUME OrderInv, Done, UNCHANGED run, Follows
  PROVE  OrderInv'
<1>1. (pc' = "after" /\ i' = i) \/ (pc' = "next" /\ i' = i + 1)
  BY DEF Done
<1>2. last' = i /\ rec' = rec /\ flow' = flow
  BY DEF Done, run
<1>3. i \in Nat /\ i > 0
  BY DEF OrderInv
<1>4. pc' = "next" => Follows'
  BY <1>1, <1>2, <1>3 DEF Follows
<1>5. flow' \in Seq(CommandsOf(rec)')
  BY <1>2 DEF OrderInv
<1>6. i' \in Nat /\ i' > 0 /\ last' \in Nat
  BY <1>1, <1>2, <1>3
<1>8. rec' \in Recordings
  BY <1>2 DEF OrderInv
<1>7. pc' \in {"after", "hooks after"} => last' = i'
  BY <1>1, <1>2
<1> QED
  BY <1>1, <1>4, <1>5, <1>6, <1>7, <1>8 DEF OrderInv

LEMMA CompileKeepsOrder ==
  ASSUME OrderInv, NEW start, Compile(start), UNCHANGED <<rec, hooks, i, last, jump>>, pc = "launch"
  PROVE  OrderInv'
<1>1. flow' = FlowOf(rec, start) /\ pc' \in {"stopped", "next"}
  BY DEF Compile
<1>2. rec' = rec /\ i' = i /\ last' = last /\ jump' = jump
  OBVIOUS
<1>3. flow' \in Seq(CommandsOf(rec))
  BY <1>1, FlowIsSequence DEF OrderInv
<1>4. Follows'
  BY <1>2 DEF OrderInv, Follows
<1> QED
  BY <1>1, <1>2, <1>3, <1>4 DEF OrderInv

LEMMA ResumeKeepsOrder ==
  ASSUME OrderInv, GotoArrives
  PROVE  OrderInv'
<1>1. UNCHANGED run
  BY DEF GotoArrives
<1>2. CASE ResumeAt(rec, flow, jump.target) = 0
  BY <1>1, <1>2 DEF GotoArrives, OrderInv, run
<1>3. CASE ResumeAt(rec, flow, jump.target) # 0
  <2>1. Len(flow) \in Nat /\ DOMAIN flow = 1 .. Len(flow)
    <3>1. flow \in Seq(CommandsOf(rec))
      BY DEF OrderInv
    <3> QED
      BY <3>1
  <2>2. PICK p \in 1 .. Len(flow) :
          /\ ResumeAt(rec, flow, jump.target) = p
          /\ rec.trace[flow[p].edge].from \in ScrollsFrom(rec, jump.target)
          /\ \A q \in 1 .. p - 1 : rec.trace[flow[q].edge].from \in ScrollsFrom(rec, jump.target)
                                    => flow[q].kind = "launch"
    BY <1>3, <2>1, ResumesAtFirst
  <2>3. pc' = "next" /\ i' = p /\ last' = 0 /\ jump' = jump
    BY <1>3, <2>2 DEF GotoArrives
  <2>4. ResumesAt(jump.target)'
    BY <1>1, <2>2, <2>3 DEF ResumesAt, Cmd, EdgeOf, run
  <2>7. Follows'
    BY <2>3, <2>4 DEF Follows
  <2>5. i' \in Nat /\ i' > 0 /\ last' \in Nat
    BY <2>1, <2>3
  <2>6. rec' \in Recordings /\ flow' \in Seq(CommandsOf(rec'))
    BY <1>1 DEF OrderInv, run
  <2> QED
    BY <2>3, <2>5, <2>6, <2>7 DEF OrderInv
<1> QED
  BY <1>2, <1>3

LEMMA StepOrderInv == OrderInv /\ [Next]_vars => OrderInv'
<1> SUFFICES ASSUME OrderInv, [Next]_vars
             PROVE  OrderInv'
  OBVIOUS
<1> USE DEF run, steer
<1>1. CASE Boundary
  BY <1>1 DEF Boundary, OrderInv, Follows, ResumesAt, Cmd, EdgeOf
<1>2. CASE Launch
  <2>1. CASE Compile(LaunchAnchor(rec))
    BY <1>2, <2>1, CompileKeepsOrder DEF Launch
  <2>2. CASE LaunchFails /\ pc' = "stopped" /\ UNCHANGED flow
    BY <1>2, <2>2 DEF Launch, OrderInv, Follows, ResumesAt, Cmd, EdgeOf
  <2> QED
    BY <1>2, <2>1, <2>2 DEF Launch
<1>3. CASE LaunchNothing
  BY <1>3, CompileKeepsOrder DEF LaunchNothing
<1>4. CASE NextCommand
  BY <1>4 DEF NextCommand, OrderInv, Follows, ResumesAt, Cmd, EdgeOf
<1>5. CASE HookContinues
  BY <1>5 DEF HookContinues, InHooks, OrderInv, Follows, ResumesAt, Cmd, EdgeOf
<1>6. CASE HookStops
  BY <1>6 DEF HookStops, InHooks, Stop, OrderInv, Follows, ResumesAt, Cmd, EdgeOf
<1>7. CASE HookJumps
  BY <1>7 DEF HookJumps, InHooks, OrderInv, Follows, ResumesAt, Cmd, EdgeOf
<1>8. CASE HooksDone
  <2>1. UNCHANGED <<rec, flow, last, jump>>
    BY <1>8 DEF HooksDone, steer
  <2>2. i \in Nat /\ i > 0 /\ last \in Nat
    BY DEF OrderInv
  <2>3. CASE pc = "hooks before"
    <3>1. pc' = "run" /\ i' = i /\ Follows
      BY <1>8, <2>3 DEF HooksDone, OrderInv
    <3>2. Follows'
      BY <2>1, <3>1 DEF Follows, ResumesAt, Cmd, EdgeOf
    <3> QED
      BY <2>1, <2>2, <3>1, <3>2 DEF OrderInv
  <2>4. CASE pc = "hooks after"
    <3>1. pc' = "next" /\ i' = i + 1 /\ last = i
      BY <1>8, <2>4 DEF HooksDone, OrderInv
    <3>2. i' \in Nat /\ i' > 0 /\ Follows'
      BY <2>1, <2>2, <3>1 DEF Follows, ResumesAt, Cmd, EdgeOf
    <3> QED
      BY <2>1, <3>1, <3>2 DEF OrderInv
  <2> QED
    BY <1>8, <2>3, <2>4 DEF HooksDone, InHooks
<1>9. CASE GotoRefused
  BY <1>9 DEF GotoRefused, OrderInv, Follows, ResumesAt, Cmd, EdgeOf
<1>10. CASE GotoFails
  BY <1>10 DEF GotoFails, GotoTries, OrderInv, Follows, ResumesAt, Cmd, EdgeOf
<1>11. CASE GotoArrives
  BY <1>11, ResumeKeepsOrder
<1>12. CASE RunLaunch
  <2>1. CASE Done
    BY <1>12, <2>1, DoneKeepsOrder DEF RunLaunch, OrderInv
  <2>2. CASE Stop
    BY <1>12, <2>2 DEF RunLaunch, Stop, OrderInv
  <2> QED
    BY <1>12, <2>1, <2>2 DEF RunLaunch
<1>13. CASE IdleGate
  BY <1>13 DEF IdleGate, Route, OrderInv, Follows, ResumesAt, Cmd, EdgeOf
<1>14. CASE TapInList
  <2>1. CASE Done
    BY <1>14, <2>1, DoneKeepsOrder DEF TapInList, OrderInv
  <2>2. CASE Stop
    BY <1>14, <2>2 DEF TapInList, Stop, OrderInv
  <2> QED
    BY <1>14, <2>1, <2>2 DEF TapInList, RungStops
<1>15. CASE WaitFor
  BY <1>15 DEF WaitFor, OrderInv, Follows, ResumesAt, Cmd, EdgeOf
<1>16. CASE RevealAbsent
  <2>1. CASE Done
    BY <1>16, <2>1, DoneKeepsOrder DEF RevealAbsent, OrderInv
  <2>2. CASE Stop
    BY <1>16, <2>2 DEF RevealAbsent, Stop, OrderInv
  <2>3. CASE BringsField
    BY <1>16, <2>3 DEF RevealAbsent, BringsField, OrderInv, Follows, ResumesAt, Cmd, EdgeOf
  <2> QED
    BY <1>16, <2>1, <2>2, <2>3 DEF RevealAbsent, RungStops
<1>17. CASE SendKey
  BY <1>17, DoneKeepsOrder DEF SendKey, OrderInv
<1>18. CASE ActOn
  BY <1>18, DoneKeepsOrder DEF ActOn, OrderInv
<1>19. CASE ActMisses
  BY <1>19 DEF ActMisses, Stop, OrderInv, Follows, ResumesAt, Cmd, EdgeOf
<1>20. CASE Retry
  BY <1>20 DEF Retry, Stop, OrderInv, Follows, ResumesAt, Cmd, EdgeOf
<1>21. CASE Move
  BY <1>21 DEF Move, OrderInv, Follows, ResumesAt, Cmd, EdgeOf
<1>22. CASE UNCHANGED vars
  BY <1>22 DEF vars, OrderInv, Follows, ResumesAt, Cmd, EdgeOf
<1> QED
  BY <1>1, <1>2, <1>3, <1>4, <1>5, <1>6, <1>7, <1>8, <1>9, <1>10, <1>11, <1>12, <1>13, <1>14, <1>15, <1>16, <1>17, <1>18, <1>19, <1>20, <1>21, <1>22 DEF Next, Engine, Steering, Command

\* The commands run in the order of the recording, whatever hooks, gotos and the
\* device do in between (run(), _do_goto).
THEOREM RunsInOrder == Spec => []InOrder
<1>1. OrderInv => InOrder
  BY DEF OrderInv, InOrder, Follows
<1> QED
  BY <1>1, InitOrderInv, StepOrderInv, PTL DEF Spec

(***************************************************************************)
(* Visits.                                                                 *)
(***************************************************************************)
\* The visit under way is one to the screen the device is on and the tracker of
\* the boundaries holds.
VisitInv == /\ visited # Nothing => visited = seenCur /\ visited = at
            /\ ~twice

LEMMA BoundaryKeepsVisit ==
  ASSUME VisitInv, Boundary
  PROVE  VisitInv'
<1>1. PICK cur \in IF at \in Screen THEN {at} \cup (IF at \in Blurred THEN {Nothing} ELSE {}) ELSE {Nothing} :
        LET arrives == cur # Nothing /\ cur # seenCur
        IN  /\ seenCur' = Tracked(seenCur, cur)
            /\ visited' = IF arrives THEN cur ELSE visited
            /\ twice' = (twice \/ (arrives /\ cur = visited))
  BY DEF Boundary
<1>2. cur = Nothing \/ cur = at
  BY <1>1
<1>3. at' = at
  BY DEF Boundary
<1> QED
  BY <1>1, <1>2, <1>3 DEF VisitInv, Tracked

LEMMA StepVisitInv == VisitInv /\ [Next]_vars => VisitInv'
<1> SUFFICES ASSUME VisitInv, [Next]_vars
             PROVE  VisitInv'
  OBVIOUS
<1>1. CASE Boundary
  BY <1>1, BoundaryKeepsVisit
<1>2. CASE Visit /\ UNCHANGED sight
  BY <1>2 DEF VisitInv, Visit, sight
<1>3. CASE UNCHANGED vars
  BY <1>3 DEF VisitInv, vars
<1>4. Launch \/ LaunchNothing \/ NextCommand \/ Steering \/ Command \/ Move => UNCHANGED sight
  BY DEF Launch, LaunchNothing, NextCommand, Steering, HookContinues, HookStops, HookJumps, HooksDone,
         GotoRefused, GotoFails, GotoArrives, Command, RunLaunch, IdleGate, TapInList, WaitFor,
         RevealAbsent, SendKey, ActOn, ActMisses, Retry, Move
<1> QED
  BY <1>1, <1>2, <1>3, <1>4 DEF Next, Engine

\* The hooks of a screen are called once per stay of the device on it
\* (_fire_phase), for every registry, blurred sight and goto.
THEOREM HooksOncePerVisit == Spec => []OncePerVisit
<1>1. Init => VisitInv
  BY DEF Init, VisitInv
<1>2. VisitInv => OncePerVisit
  BY DEF VisitInv, OncePerVisit
<1> QED
  BY <1>1, <1>2, StepVisitInv, PTL DEF Spec

(***************************************************************************)
(* Undisturbed runs.                                                       *)
(***************************************************************************)
\* The transitions of a recording are records over its screens.
LEMMA TraceTyped ==
  ASSUME NEW r \in Recordings
  PROVE  /\ Len(r.trace) \in Nat /\ DOMAIN r.trace = 1 .. Len(r.trace)
         /\ \A k \in DOMAIN r.trace : r.trace[k].from \in Screen /\ r.trace[k].to \in Screen
         /\ r.anchored \subseteq Screen
<1> DEFINE E == [from : Screen, to : Screen, act : {"tap", "row", "key", "scroll"}, typed : BOOLEAN]
<1>1. r.trace \in Seq(E) /\ r.anchored \subseteq Screen
  BY RecordingAssumption
<1>2. \A e \in E : e.from \in Screen /\ e.to \in Screen
  OBVIOUS
<1> HIDE DEF E
<1>3. Len(r.trace) \in Nat /\ DOMAIN r.trace = 1 .. Len(r.trace) /\ \A k \in DOMAIN r.trace : r.trace[k] \in E
  BY <1>1
<1> QED
  BY <1>1, <1>2, <1>3

\* Every screen a transition joins is met.
LEMMA JoinedIsMet ==
  ASSUME NEW r \in Recordings, NEW k \in DOMAIN r.trace
  PROVE  /\ \E m \in DOMAIN Met(r) : Met(r)[m] = r.trace[k].from
         /\ \E m \in DOMAIN Met(r) : Met(r)[m] = r.trace[k].to
<1> DEFINE N == Len(r.trace)
<1>1. N \in Nat /\ k \in 1 .. N
  BY TraceTyped
<1>2. 2 * k - 1 \in 1 .. 2 * N /\ 2 * k \in 1 .. 2 * N
  BY <1>1
<1>3. ((2 * k - 1) + 1) \div 2 = k /\ (2 * k - 1) % 2 = 1
  BY <1>1
<1>4. (2 * k + 1) \div 2 = k /\ (2 * k) % 2 # 1
  BY <1>1
<1>5. Met(r)[2 * k - 1] = r.trace[k].from
  BY <1>2, <1>3 DEF Met
<1>6. Met(r)[2 * k] = r.trace[k].to
  BY <1>2, <1>4 DEF Met
<1>7. DOMAIN Met(r) = 1 .. 2 * N
  BY DEF Met
<1> QED
  BY <1>2, <1>5, <1>6, <1>7

\* The first screen of a sequence that is one of a set is one of them, when any is.
LEMMA FirstIsOne ==
  ASSUME NEW n \in Nat, NEW seq, DOMAIN seq = 1 .. n, NEW set
  PROVE  /\ (\E m \in DOMAIN seq : seq[m] \in set) => FirstOf(seq, set) \in set
         /\ FirstOf(seq, set) = Nothing \/ FirstOf(seq, set) \in set
<1> DEFINE places == {m \in DOMAIN seq : seq[m] \in set}
           least == CHOOSE m \in places : \A j \in places : m <= j
<1>1. CASE places = {}
  <2>1. FirstOf(seq, set) = Nothing
    BY <1>1 DEF FirstOf
  <2>2. ~ \E m \in DOMAIN seq : seq[m] \in set
    BY <1>1
  <2> QED
    BY <2>1, <2>2
<1>2. CASE places # {}
  <2>1. places \in SUBSET Nat
    OBVIOUS
  <2>2. \E m \in places : \A j \in places : m <= j
    <3> HIDE DEF places
    <3> QED
      BY <1>2, <2>1, LeastNatural
  <2>3. least \in places
    <3> HIDE DEF places
    <3> QED
      BY <2>2
  <2>4. FirstOf(seq, set) = seq[least]
    BY <1>2 DEF FirstOf
  <2> QED
    BY <2>3, <2>4
<1> QED
  BY <1>1, <1>2

LEMMA MetIsSequence ==
  ASSUME NEW r \in Recordings
  PROVE  2 * Len(r.trace) \in Nat /\ DOMAIN Met(r) = 1 .. 2 * Len(r.trace)
<1>1. Len(r.trace) \in Nat
  BY TraceTyped
<1> QED
  BY <1>1 DEF Met

\* One anchor per package: it launches every screen of its package that has none.
LEMMA OneAnchor ==
  ASSUME NEW r \in Recordings,
         \A s, u \in r.anchored : Package[s] = Package[u] => s = u,
         NEW k \in DOMAIN r.trace, NEW a \in r.anchored, a = r.trace[k].from \/ a = r.trace[k].to,
         NEW s \in Screen, Package[s] = Package[a]
  PROVE  AnchorFor(r, s) = a
<1> DEFINE set == {x \in r.anchored : Package[x] = Package[s]}
<1>1. CASE s \in r.anchored
  BY <1>1 DEF AnchorFor
<1>2. CASE s \notin r.anchored
  <2>1. \E m \in DOMAIN Met(r) : Met(r)[m] = a
    BY JoinedIsMet
  <2>2. a \in set
    OBVIOUS
  <2>3. FirstOf(Met(r), set) \in set
    <3> HIDE DEF set
    <3> QED
      BY <2>1, <2>2, FirstIsOne, MetIsSequence
  <2>4. AnchorFor(r, s) = FirstOf(Met(r), set)
    BY <1>2 DEF AnchorFor
  <2> QED
    BY <2>3, <2>4
<1> QED
  BY <1>1, <1>2

\* The screen replay starts on is a recorded one.
LEMMA StartIsScreen ==
  ASSUME NEW r \in Recordings, LaunchAnchor(r) # Nothing
  PROVE  LaunchAnchor(r) \in Screen
<1> DEFINE first == FirstOf(Met(r), r.anchored)
<1>1. first = Nothing \/ first \in r.anchored
  BY FirstIsOne, MetIsSequence
<1>2. r.anchored \subseteq Screen
  BY TraceTyped
<1>3. CASE first = Nothing /\ r.trace # <<>> /\ r.trace[1].from \in Launcher
  <2>1. LaunchAnchor(r) = r.trace[1].from
    BY <1>3 DEF LaunchAnchor
  <2> QED
    BY <1>3, <2>1, FlowAssumption
<1>4. CASE ~(first = Nothing /\ r.trace # <<>> /\ r.trace[1].from \in Launcher)
  <2>1. LaunchAnchor(r) = first
    BY <1>4 DEF LaunchAnchor
  <2> QED
    BY <1>1, <1>2, <2>1
<1> QED
  BY <1>3, <1>4

\* The screens the scroll hops lead to: the first, and closed under the hops.
LEMMA ScrollsFromItself ==
  ASSUME NEW r, NEW s
  PROVE  s \in ScrollsFrom(r, s)
BY DEF ScrollsFrom

LEMMA ScrollsOn ==
  ASSUME NEW r, NEW s, NEW k \in DOMAIN r.trace, r.trace[k].act = "scroll",
         r.trace[k].from \in ScrollsFrom(r, s)
  PROVE  r.trace[k].to \in ScrollsFrom(r, s)
<1> DEFINE hops == {r.trace[j] : j \in {j \in DOMAIN r.trace : r.trace[j].act = "scroll"}}
           twins == {s} \cup {e.to : e \in hops}
           closed == {S \in SUBSET twins : s \in S /\ \A e \in hops : e.from \in S => e.to \in S}
<1>1. ScrollsFrom(r, s) = {t \in twins : \A S \in closed : t \in S}
  BY DEF ScrollsFrom
<1>2. r.trace[k] \in hops
  OBVIOUS
<1>3. r.trace[k].to \in twins
  BY <1>2
<1>4. ASSUME NEW S \in closed
      PROVE  r.trace[k].to \in S
  <2>1. r.trace[k].from \in S
    BY <1>1
  <2> QED
    BY <1>2, <2>1
<1> QED
  BY <1>1, <1>3, <1>4

LEMMA ScrolledTo ==
  ASSUME NEW r, NEW s, NEW t \in ScrollsFrom(r, s), t # s
  PROVE  \E k \in DOMAIN r.trace : r.trace[k].act = "scroll" /\ r.trace[k].to = t
BY DEF ScrollsFrom

\* Where a command leaves the device, when it runs as recorded.
Leaves(r, c) == CASE c.kind = "launch" -> c.anchor
                  [] c.kind = "pre" -> r.trace[c.edge].from
                  [] OTHER -> r.trace[c.edge].to

\* Where the commands before the one at p leave it.
Reached(r, start, cmds, p) == IF p = 1 THEN start ELSE Leaves(r, cmds[p - 1])

\* A command that runs from screen s: on its own screen, or on one the reveal rung
\* scrolls to its element from.
RunsFrom(r, c, s) ==
  /\ s \in Screen
  /\ c.kind = "launch" => c.anchor \in Screen
  /\ c.kind # "launch" =>
       LET e == r.trace[c.edge]
       IN  \/ s = e.from
           \/ e.from \in ScrollsFrom(r, s)
              /\ (e.from \in r.swiped \/ (c.kind = "action" /\ e.act = "row"))

Sound(r, start, cmds) == \A p \in DOMAIN cmds : RunsFrom(r, cmds[p], Reached(r, start, cmds, p))

\* One command more.
LEMMA OneMoreSound ==
  ASSUME NEW r, NEW start, NEW C, NEW cmds \in Seq(C), NEW c \in C, Sound(r, start, cmds),
         RunsFrom(r, c, Reached(r, start, cmds, Len(cmds) + 1))
  PROVE  /\ Append(cmds, c) \in Seq(C) /\ Append(cmds, c) # <<>>
         /\ Sound(r, start, Append(cmds, c))
         /\ Reached(r, start, Append(cmds, c), Len(Append(cmds, c)) + 1) = Leaves(r, c)
<1> DEFINE more == Append(cmds, c)
           n == Len(cmds)
<1>1. /\ more \in Seq(C) /\ Len(more) = n + 1 /\ n \in Nat /\ DOMAIN more = 1 .. n + 1
      /\ DOMAIN cmds = 1 .. n
      /\ more[n + 1] = c /\ \A p \in 1 .. n : more[p] = cmds[p]
  OBVIOUS
<1> HIDE DEF more, n
<1>2. more # <<>>
  BY <1>1
<1>3. Reached(r, start, more, Len(more) + 1) = Leaves(r, c)
  <2>1. Len(more) + 1 # 1 /\ (Len(more) + 1) - 1 = n + 1
    BY <1>1
  <2> QED
    BY <1>1, <2>1 DEF Reached
<1>4. ASSUME NEW p \in DOMAIN more
      PROVE  RunsFrom(r, more[p], Reached(r, start, more, p))
  <2>1. p \in 1 .. n + 1 /\ (p # 1 => p - 1 \in 1 .. n)
    BY <1>1
  <2>2. Reached(r, start, more, p) = Reached(r, start, cmds, p)
    BY <1>1, <2>1 DEF Reached
  <2>3. CASE p = n + 1
    BY <1>1, <2>2, <2>3 DEF n
  <2>4. CASE p # n + 1
    <3>1. p \in DOMAIN cmds /\ more[p] = cmds[p]
      BY <1>1, <2>1, <2>4
    <3> QED
      BY <2>2, <3>1 DEF Sound
  <2> QED
    BY <2>3, <2>4
<1>5. Sound(r, start, more)
  BY <1>4 DEF Sound
<1> QED
  BY <1>1, <1>2, <1>3, <1>5 DEF more

\* Where a flow under construction has brought the device.
Place(r, start, cmds) == Reached(r, start, cmds, Len(cmds) + 1)
SoundFlow(r, start, cmds) == /\ cmds \in Seq(CommandsOf(r)) /\ Sound(r, start, cmds)
                             /\ Place(r, start, cmds) \in Screen

\* A launch more: the device is on its anchor.
LEMMA LaunchMoreSound ==
  ASSUME NEW r, NEW start, NEW cmds, SoundFlow(r, start, cmds),
         NEW ei \in DOMAIN r.trace, NEW a \in Screen, a \in Anchors(r)
  PROVE  /\ Append(cmds, LaunchCmd(ei, a)) # <<>>
         /\ SoundFlow(r, start, Append(cmds, LaunchCmd(ei, a)))
         /\ Place(r, start, Append(cmds, LaunchCmd(ei, a))) = a
<1> DEFINE c == LaunchCmd(ei, a)
<1>1. c \in CommandsOf(r) /\ c.kind = "launch" /\ c.anchor = a
  BY DEF LaunchCmd, CommandsOf
<1>2. RunsFrom(r, c, Place(r, start, cmds)) /\ Leaves(r, c) = a
  <2> HIDE DEF c
  <2> QED
    BY <1>1 DEF RunsFrom, Leaves, SoundFlow
<1> HIDE DEF c
<1> QED
  BY <1>1, <1>2, OneMoreSound DEF SoundFlow, Place, c

\* The commands of a transition more: the device is where it led.
LEMMA OwnMoreSound ==
  ASSUME NEW r \in Recordings, Anchorable(r), NEW start, NEW cmds, SoundFlow(r, start, cmds),
         NEW ei \in DOMAIN r.trace, r.trace[ei].from \in ScrollsFrom(r, Place(r, start, cmds))
  PROVE  /\ SoundFlow(r, start, cmds \o Own(r, ei))
         /\ Place(r, start, cmds \o Own(r, ei)) = r.trace[ei].to
<1> DEFINE e == r.trace[ei]
           C == CommandsOf(r)
           pre == [kind |-> "pre", edge |-> ei, anchor |-> Nothing]
           act == [kind |-> "action", edge |-> ei, anchor |-> Nothing]
           s == Place(r, start, cmds)
<1>1. pre \in C /\ act \in C
  BY DEF CommandsOf, Anchors
<1>2. e.from \in Screen /\ e.to \in Screen /\ s \in Screen
  BY TraceTyped DEF SoundFlow
<1>3. s = e.from \/ e.from \in r.swiped \/ (e.act = "row" /\ ~e.typed)
  <2> SUFFICES ASSUME s # e.from
               PROVE  e.from \in r.swiped \/ (e.act = "row" /\ ~e.typed)
    OBVIOUS
  <2>1. PICK k \in DOMAIN r.trace : r.trace[k].act = "scroll" /\ r.trace[k].to = e.from
    BY ScrolledTo
  <2> QED
    BY <2>1 DEF Anchorable
<1>4. Leaves(r, pre) = e.from /\ Leaves(r, act) = e.to
  BY DEF Leaves
<1>5. RunsFrom(r, act, e.from)
  BY <1>2 DEF RunsFrom
<1>6. CASE e.typed
  <2>1. RunsFrom(r, pre, s)
    BY <1>2, <1>3, <1>6 DEF RunsFrom
  <2> DEFINE one == Append(cmds, pre)
  <2>2. one \in Seq(C) /\ Sound(r, start, one) /\ Reached(r, start, one, Len(one) + 1) = e.from
    <3> HIDE DEF C, pre, e
    <3> QED
      BY <1>1, <1>4, <2>1, OneMoreSound DEF SoundFlow, Place, C
  <2>3. Append(one, act) \in Seq(C) /\ Sound(r, start, Append(one, act))
          /\ Reached(r, start, Append(one, act), Len(Append(one, act)) + 1) = e.to
    <3> HIDE DEF C, act, e, one
    <3> QED
      BY <1>1, <1>4, <1>5, <2>2, OneMoreSound
  <2>4. cmds \o Own(r, ei) = Append(one, act)
    <3>1. Own(r, ei) = <<pre>> \o <<act>>
      BY <1>6 DEF Own
    <3>2. cmds \in Seq(C) /\ <<pre>> \in Seq(C) /\ <<act>> \in Seq(C)
      <4> HIDE DEF C, pre, act
      <4> QED
        BY <1>1 DEF SoundFlow, C
    <3> HIDE DEF C, pre, act
    <3>3. cmds \o (<<pre>> \o <<act>>) = Append(one, act)
      BY <1>1, <3>2
    <3> QED
      BY <3>1, <3>3
  <2> QED
    BY <1>2, <2>3, <2>4 DEF SoundFlow, Place
<1>7. CASE ~e.typed
  <2>1. RunsFrom(r, act, s)
    BY <1>2, <1>3, <1>7 DEF RunsFrom
  <2>2. Append(cmds, act) \in Seq(C) /\ Sound(r, start, Append(cmds, act))
          /\ Reached(r, start, Append(cmds, act), Len(Append(cmds, act)) + 1) = e.to
    <3> HIDE DEF C, act, e
    <3> QED
      BY <1>1, <1>4, <2>1, OneMoreSound DEF SoundFlow, Place, C
  <2>3. cmds \o Own(r, ei) = Append(cmds, act)
    <3>1. Own(r, ei) = <<>> \o <<act>>
      BY <1>7 DEF Own
    <3>2. cmds \in Seq(C) /\ <<act>> \in Seq(C)
      <4> HIDE DEF C, act
      <4> QED
        BY <1>1 DEF SoundFlow, C
    <3> HIDE DEF C, act
    <3>3. cmds \o (<<>> \o <<act>>) = Append(cmds, act)
      BY <1>1, <3>2
    <3> QED
      BY <3>1, <3>3
  <2> QED
    BY <1>2, <2>2, <2>3 DEF SoundFlow, Place
<1> QED
  BY <1>6, <1>7

\* What the cursors of a flow under construction say of the recording's screen: it
\* is the device's own or one its scroll hops lead to; an app was entered on it;
\* or it is the home screen, which the device is not brought to.
AtTwin(r, start, f, cur) == /\ f.last = cur /\ cur \in ScrollsFrom(r, Place(r, start, f.cmds))
                            /\ f.package = Package[cur]
AtEntry(r, start, f, cur) == /\ Place(r, start, f.cmds) = cur /\ cur \in r.anchored
                             /\ f.package = Package[cur]
AtHome(f, cur) == cur \in Launcher /\ f.package = Nothing

\* The re-anchoring launch of an edge that departs from an anchored screen.
LEMMA ReanchorSound ==
  ASSUME NEW r \in Recordings, NEW start, NEW f, SoundFlow(r, start, f.cmds),
         NEW ei \in DOMAIN r.trace, r.trace[ei].from \in r.anchored,
         f.last \in {Nothing, r.trace[ei].from}
           => r.trace[ei].from \in ScrollsFrom(r, Place(r, start, f.cmds))
  PROVE  /\ SoundFlow(r, start, f.cmds \o Reanchor(r, start, f, ei))
         /\ r.trace[ei].from \in ScrollsFrom(r, Place(r, start, f.cmds \o Reanchor(r, start, f, ei)))
<1> DEFINE from == r.trace[ei].from
           more == f.cmds \o Reanchor(r, start, f, ei)
<1>1. AnchorFor(r, from) = from /\ from \in Screen /\ from # Nothing /\ from \in Anchors(r)
  <2>1. AnchorFor(r, from) = from
    BY DEF AnchorFor
  <2>2. AnchorFor(r, from) \in Anchors(r)
    BY DEF Anchors
  <2> QED
    BY <2>1, <2>2, TraceTyped, FlowAssumption
<1>2. CASE Reanchor(r, start, f, ei) = <<>>
  <2>1. more = f.cmds
    <3>1. f.cmds \o <<>> = f.cmds
      BY DEF SoundFlow
    <3> QED
      BY <1>2, <3>1
  <2> HIDE DEF more
  <2>2. f.last \in {Nothing, from} \/ (f.cmds = <<>> /\ from = start)
    BY <1>1, <1>2 DEF Reanchor
  <2>3. CASE f.cmds = <<>> /\ from = start
    <3>1. Place(r, start, f.cmds) = start
      BY <2>3 DEF Place, Reached
    <3> QED
      BY <2>1, <2>3, <3>1, ScrollsFromItself DEF more
  <2> QED
    BY <2>1, <2>2, <2>3 DEF more
<1>3. CASE Reanchor(r, start, f, ei) # <<>>
  <2>1. Reanchor(r, start, f, ei) = <<LaunchCmd(ei, from)>>
    BY <1>1, <1>3 DEF Reanchor
  <2>2. more = Append(f.cmds, LaunchCmd(ei, from))
    <3>1. LaunchCmd(ei, from) \in CommandsOf(r)
      BY <1>1 DEF LaunchCmd, CommandsOf
    <3>2. f.cmds \in Seq(CommandsOf(r))
      BY DEF SoundFlow
    <3>3. f.cmds \o <<LaunchCmd(ei, from)>> = Append(f.cmds, LaunchCmd(ei, from))
      BY <3>1, <3>2
    <3> QED
      BY <2>1, <3>3
  <2>3. SoundFlow(r, start, Append(f.cmds, LaunchCmd(ei, from)))
          /\ Place(r, start, Append(f.cmds, LaunchCmd(ei, from))) = from
    <3> HIDE DEF more, from
    <3> QED
      BY <1>1, LaunchMoreSound
  <2> HIDE DEF more
  <2>4. SoundFlow(r, start, more) /\ Place(r, start, more) = from
    BY <2>2, <2>3
  <2> QED
    BY <2>4, ScrollsFromItself DEF more
<1> QED
  BY <1>2, <1>3

\* One transition, from the screen the recording has reached or, anew, from an anchor.
LEMMA EmitSound ==
  ASSUME NEW r \in Recordings, Anchorable(r), NEW start, NEW f, NEW ei \in DOMAIN r.trace,
         InProgress(f, r), SoundFlow(r, start, f.cmds), NEW cur \in Screen,
         LET e == r.trace[ei]
         IN  \/ e.from = cur /\ (AtTwin(r, start, f, cur) \/ AtEntry(r, start, f, cur) \/ AtHome(f, cur))
             \/ /\ e.from # cur /\ e.from \in r.anchored /\ e.act # "scroll"
                /\ AtTwin(r, start, f, cur) \/ AtHome(f, cur)
  PROVE  LET e == r.trace[ei]
             g == Emit(r, start, f, ei)
         IN  /\ SoundFlow(r, start, g.cmds)
             /\ \/ AtTwin(r, start, g, e.to) \/ AtHome(g, e.to)
                \/ AtEntry(r, start, g, e.to) /\ EntersApp(e)
<1> DEFINE e == r.trace[ei]
           g == Emit(r, start, f, ei)
           entry == IF Enters(f, e) THEN AnchorFor(r, e.to) ELSE Nothing
           launch == IF entry # Nothing THEN <<LaunchCmd(ei, entry)>> ELSE Reanchor(r, start, f, ei)
           more == f.cmds \o launch
<1>1. e.from \in Screen /\ e.to \in Screen /\ r.anchored \subseteq Screen
  BY TraceTyped
<1>2. \A s \in Screen : s # Nothing /\ Package[s] # Nothing
  BY FlowAssumption
<1>3. \A s, u \in Screen : Package[s] = Package[u] => (s \in Launcher <=> u \in Launcher)
  BY FlowAssumption
<1>4. EntersApp(e) => e.to \in r.anchored
  BY DEF Anchorable
<1>5. \A s, u \in r.anchored : Package[s] = Package[u] => s = u
  BY DEF Anchorable
<1>6. DOMAIN f = {"started", "last", "cmds", "package"}
  BY DEF InProgress
<1>7. CASE e.act = "scroll"
  <2>1. g = [f EXCEPT !.last = e.to]
    BY <1>7 DEF Emit
  <2>2. g.last = e.to /\ g.cmds = f.cmds /\ g.package = f.package
    BY <1>6, <2>1
  <2>3. Package[e.from] = Package[e.to] /\ e.from = cur
    BY <1>7 DEF Anchorable
  <2>4. CASE AtHome(f, cur)
    <3>1. e.to \in Launcher
      BY <1>1, <1>3, <2>3, <2>4 DEF AtHome
    <3> QED
      BY <2>2, <2>4, <3>1 DEF AtHome
  <2>5. CASE AtTwin(r, start, f, cur) \/ AtEntry(r, start, f, cur)
    <3>1. cur \in ScrollsFrom(r, Place(r, start, f.cmds)) /\ f.package = Package[cur]
      BY <2>5, ScrollsFromItself DEF AtTwin, AtEntry
    <3>2. e.to \in ScrollsFrom(r, Place(r, start, f.cmds))
      BY <1>7, <2>3, <3>1, ScrollsOn
    <3> QED
      BY <2>2, <2>3, <3>1, <3>2 DEF AtTwin
  <2> QED
    BY <1>7, <2>4, <2>5
<1>8. CASE e.act # "scroll" /\ e.to \in Launcher
  <2>1. g = [f EXCEPT !.package = Nothing]
    BY <1>8 DEF Emit
  <2>2. g.cmds = f.cmds /\ g.package = Nothing
    BY <1>6, <2>1
  <2> QED
    BY <1>8, <2>2 DEF AtHome
<1>9. CASE e.act # "scroll" /\ e.to \notin Launcher /\ entry # Nothing /\ Package[e.from] # Package[e.to]
  <2>1. g = [f EXCEPT !.package = Package[e.to], !.cmds = Append(@, LaunchCmd(ei, entry))]
    BY <1>9 DEF Emit
  <2>2. g.cmds = Append(f.cmds, LaunchCmd(ei, entry)) /\ g.package = Package[e.to]
    BY <1>6, <2>1
  <2>3. EntersApp(e) /\ e.to \in r.anchored
    BY <1>4, <1>9 DEF EntersApp
  <2>4. entry = e.to /\ e.to \in Anchors(r)
    <3>1. AnchorFor(r, e.to) = e.to /\ AnchorFor(r, e.to) \in Anchors(r)
      BY <2>3 DEF AnchorFor, Anchors
    <3> QED
      BY <1>9, <3>1
  <2>5. SoundFlow(r, start, g.cmds) /\ Place(r, start, g.cmds) = e.to
    <3> HIDE DEF entry, g
    <3> QED
      BY <1>1, <2>2, <2>4, LaunchMoreSound
  <2> QED
    BY <2>2, <2>3, <2>5 DEF AtEntry
<1>10. CASE e.act # "scroll" /\ e.to \notin Launcher /\ ~(entry # Nothing /\ Package[e.from] # Package[e.to])
  <2>1. g = [f EXCEPT !.package = Package[e.to], !.last = e.to, !.cmds = @ \o launch \o Own(r, ei)]
    BY <1>10 DEF Emit
  <2>2. g.cmds = more \o Own(r, ei) /\ g.package = Package[e.to] /\ g.last = e.to
    BY <1>6, <2>1
  <2>3. Enters(f, e) /\ Package[e.from] = Package[e.to] => e.from \in r.anchored
    <3> SUFFICES ASSUME f.package # Package[e.to], Package[e.from] = Package[e.to], e.from = cur
                 PROVE  FALSE
      BY DEF Enters
    <3>1. ~AtHome(f, cur)
      BY <1>1, <1>3, <1>10 DEF AtHome
    <3> QED
      BY <3>1 DEF AtTwin, AtEntry
  <2>4. e.from \in r.anchored /\ Package[e.from] = Package[e.to] => AnchorFor(r, e.to) = e.from
    <3> SUFFICES ASSUME e.from \in r.anchored, Package[e.from] = Package[e.to]
                 PROVE  AnchorFor(r, e.to) = e.from
      OBVIOUS
    <3> QED
      BY <1>1, <1>5, OneAnchor
  <2>5. ASSUME entry # Nothing
        PROVE  SoundFlow(r, start, more) /\ e.from \in ScrollsFrom(r, Place(r, start, more))
    <3>1. e.from \in r.anchored /\ entry = e.from /\ launch = <<LaunchCmd(ei, entry)>>
      BY <1>10, <2>3, <2>4, <2>5
    <3>2. e.from \in Anchors(r)
      BY <3>1 DEF Anchors, AnchorFor
    <3>3. more = Append(f.cmds, LaunchCmd(ei, e.from))
      <4>1. LaunchCmd(ei, e.from) \in CommandsOf(r)
        BY <3>2 DEF LaunchCmd, CommandsOf
      <4>2. f.cmds \in Seq(CommandsOf(r))
        BY DEF SoundFlow
      <4>3. f.cmds \o <<LaunchCmd(ei, e.from)>> = Append(f.cmds, LaunchCmd(ei, e.from))
        BY <4>1, <4>2
      <4>4. launch = <<LaunchCmd(ei, e.from)>>
        BY <3>1
      <4> HIDE DEF launch
      <4> QED
        BY <4>3, <4>4
    <3>4. SoundFlow(r, start, Append(f.cmds, LaunchCmd(ei, e.from)))
            /\ Place(r, start, Append(f.cmds, LaunchCmd(ei, e.from))) = e.from
      <4> HIDE DEF e, more, launch, entry
      <4> QED
        BY <1>1, <3>2, LaunchMoreSound
    <3> HIDE DEF more
    <3>5. SoundFlow(r, start, more) /\ Place(r, start, more) = e.from
      BY <3>3, <3>4
    <3> QED
      BY <3>5, ScrollsFromItself
  <2>6. ASSUME entry = Nothing
        PROVE  SoundFlow(r, start, more) /\ e.from \in ScrollsFrom(r, Place(r, start, more))
    <3>1. ~Enters(f, e)
      <4> SUFFICES ASSUME Enters(f, e), AnchorFor(r, e.to) = Nothing
                   PROVE  FALSE
        BY <2>6
      <4>1. CASE Package[e.from] = Package[e.to]
        BY <1>1, <1>2, <2>3, <2>4, <4>1
      <4>2. CASE Package[e.from] # Package[e.to]
        <5>1. e.to \in r.anchored
          BY <1>4, <1>10, <4>2 DEF EntersApp
        <5> QED
          BY <1>1, <1>2, <5>1 DEF AnchorFor
      <4> QED
        BY <4>1, <4>2
    <3>2. f.package = Package[e.to] /\ launch = Reanchor(r, start, f, ei) /\ ~AtHome(f, cur)
      BY <1>1, <1>2, <2>6, <3>1 DEF Enters, AtHome
    <3>3. CASE e.from = cur /\ AtTwin(r, start, f, cur)
      <4>1. launch = <<>>
        BY <3>2, <3>3 DEF AtTwin, Reanchor
      <4>2. f.cmds \o <<>> = f.cmds
        BY DEF SoundFlow
      <4>3. more = f.cmds
        BY <4>1, <4>2
      <4> HIDE DEF more
      <4> QED
        BY <3>3, <4>3 DEF AtTwin
    <3>4. CASE e.from = cur /\ AtEntry(r, start, f, cur)
      <4>1. e.from \in r.anchored /\ e.from \in ScrollsFrom(r, Place(r, start, f.cmds))
        BY <3>4, ScrollsFromItself DEF AtEntry
      <4>2. more = f.cmds \o Reanchor(r, start, f, ei)
        BY <3>2
      <4> HIDE DEF more, launch, entry
      <4> QED
        BY <4>1, <4>2, ReanchorSound
    <3>5. CASE e.from # cur /\ e.from \in r.anchored /\ AtTwin(r, start, f, cur)
      <4>1. f.last \notin {Nothing, e.from}
        BY <1>2, <3>5 DEF AtTwin
      <4>2. more = f.cmds \o Reanchor(r, start, f, ei)
        BY <3>2
      <4> HIDE DEF more, launch, entry
      <4> QED
        BY <3>5, <4>1, <4>2, ReanchorSound
    <3> HIDE DEF more
    <3> QED
      BY <3>2, <3>3, <3>4, <3>5
  <2> HIDE DEF more
  <2>7. SoundFlow(r, start, more) /\ e.from \in ScrollsFrom(r, Place(r, start, more))
    BY <2>5, <2>6
  <2>8. SoundFlow(r, start, g.cmds) /\ Place(r, start, g.cmds) = e.to
    <3> HIDE DEF launch, g, more
    <3> QED
      BY <2>2, <2>7, OwnMoreSound
  <2> QED
    BY <2>2, <2>8, ScrollsFromItself DEF AtTwin
<1> HIDE DEF g
<1> QED
  BY <1>7, <1>8, <1>9, <1>10 DEF g

LEMMA EmitKeepsStarted ==
  ASSUME NEW r, NEW start, NEW f, NEW ei, InProgress(f, r)
  PROVE  Emit(r, start, f, ei).started = f.started
<1> DEFINE e == r.trace[ei]
           entry == IF Enters(f, e) THEN AnchorFor(r, e.to) ELSE Nothing
           g == Emit(r, start, f, ei)
<1>1. DOMAIN f = {"started", "last", "cmds", "package"}
  BY DEF InProgress
<1>2. \/ g = [f EXCEPT !.last = e.to]
      \/ g = [f EXCEPT !.package = Nothing]
      \/ g = [f EXCEPT !.package = Package[e.to], !.cmds = Append(@, LaunchCmd(ei, entry))]
      \/ g = [f EXCEPT !.package = Package[e.to], !.last = e.to,
                !.cmds = @ \o (IF entry # Nothing THEN <<LaunchCmd(ei, entry)>>
                               ELSE Reanchor(r, start, f, ei))
                           \o Own(r, ei)]
  <2>1. CASE e.act = "scroll"
    BY <2>1 DEF Emit
  <2>2. CASE e.act # "scroll" /\ e.to \in Launcher
    BY <2>2 DEF Emit
  <2>3. CASE e.act # "scroll" /\ e.to \notin Launcher /\ entry # Nothing /\ Package[e.from] # Package[e.to]
    BY <2>3 DEF Emit
  <2>4. CASE e.act # "scroll" /\ e.to \notin Launcher /\ ~(entry # Nothing /\ Package[e.from] # Package[e.to])
    BY <2>4 DEF Emit
  <2> QED
    BY <2>1, <2>2, <2>3, <2>4
<1> HIDE DEF g
<1>3. g.started = f.started
  BY <1>1, <1>2
<1> QED
  BY <1>3 DEF g

\* The flow after n transitions: nothing is emitted before the start screen is met.
SoundSoFar(r, start, f, n) ==
  /\ InProgress(f, r) /\ SoundFlow(r, start, f.cmds)
  /\ \/ /\ f.started /\ n > 0
        /\ \/ AtTwin(r, start, f, r.trace[n].to) \/ AtHome(f, r.trace[n].to)
           \/ AtEntry(r, start, f, r.trace[n].to) /\ EntersApp(r.trace[n])
     \/ ~f.started /\ f.cmds = <<>> /\ f.last = start /\ f.package = Package[start]

LEMMA FlowStepSound ==
  ASSUME NEW r \in Recordings, Anchorable(r), NEW f, NEW n \in Nat, n + 1 \in DOMAIN r.trace,
         SoundSoFar(r, LaunchAnchor(r), f, n)
  PROVE  SoundSoFar(r, LaunchAnchor(r), FlowStep(r, LaunchAnchor(r), f, n + 1), n + 1)
<1> DEFINE start == LaunchAnchor(r)
           e == r.trace[n + 1]
           g == FlowStep(r, start, f, n + 1)
<1>1. start \in Screen
  BY StartIsScreen DEF Anchorable
<1>2. DOMAIN f = {"started", "last", "cmds", "package"} /\ InProgress(f, r) /\ SoundFlow(r, start, f.cmds)
  BY DEF SoundSoFar, InProgress
<1>3. InProgress(g, r)
  BY <1>2, FlowStepProgress
<1>4. ~f.started => AtTwin(r, start, f, start)
  <2> SUFFICES ASSUME ~f.started
               PROVE  AtTwin(r, start, f, start)
    OBVIOUS
  <2>1. f.cmds = <<>> /\ f.last = start /\ f.package = Package[start]
    BY DEF SoundSoFar
  <2>2. Place(r, start, f.cmds) = start
    BY <2>1 DEF Place, Reached
  <2> QED
    BY <2>1, <2>2, ScrollsFromItself DEF AtTwin
<1>5. CASE f.started \/ e.from = start
  <2> DEFINE h == [f EXCEPT !.started = TRUE]
             cur == IF f.started THEN r.trace[n].to ELSE start
  <2>1. g = Emit(r, start, h, n + 1)
    BY <1>5 DEF FlowStep
  <2>2. h.started /\ h.cmds = f.cmds /\ h.last = f.last /\ h.package = f.package
    BY <1>2
  <2>3. InProgress(h, r)
    BY <1>2 DEF InProgress
  <2>4. g.started
    <3> HIDE DEF g, h
    <3> QED
      BY <2>1, <2>2, <2>3, EmitKeepsStarted
  <2>5. /\ cur \in Screen
        /\ \/ e.from = cur /\ (AtTwin(r, start, h, cur) \/ AtEntry(r, start, h, cur) \/ AtHome(h, cur))
           \/ /\ e.from # cur /\ e.from \in r.anchored /\ e.act # "scroll"
              /\ AtTwin(r, start, h, cur) \/ AtHome(h, cur)
    <3>1. CASE ~f.started
      <4>1. AtTwin(r, start, h, start)
        <5> HIDE DEF h
        <5> QED
          BY <1>4, <2>2, <3>1 DEF AtTwin
      <4> QED
        BY <1>1, <1>5, <3>1, <4>1
    <3>2. CASE f.started
      <4>1. /\ n > 0 /\ cur = r.trace[n].to
            /\ \/ AtTwin(r, start, f, cur) \/ AtHome(f, cur)
               \/ AtEntry(r, start, f, cur) /\ EntersApp(r.trace[n])
        BY <3>2 DEF SoundSoFar
      <4>2. n \in DOMAIN r.trace /\ n + 1 \in 2 .. Len(r.trace) /\ (n + 1) - 1 = n
        BY <4>1, TraceTyped
      <4>3. cur \in Screen
        BY <4>1, <4>2, TraceTyped
      <4>4. e.from # cur => e.from \in r.anchored /\ e.act # "scroll" /\ ~EntersApp(r.trace[n])
        BY <4>1, <4>2 DEF Anchorable
      <4>5. \/ AtTwin(r, start, h, cur) \/ AtHome(h, cur)
            \/ AtEntry(r, start, h, cur) /\ EntersApp(r.trace[n])
        <5> HIDE DEF h, cur
        <5> QED
          BY <2>2, <4>1 DEF AtTwin, AtHome, AtEntry
      <4> HIDE DEF h, cur, e
      <4> QED
        BY <4>3, <4>4, <4>5
    <3> QED
      BY <3>1, <3>2
  <2>6. SoundFlow(r, start, h.cmds)
    BY <1>2, <2>2
  <2>7. /\ SoundFlow(r, start, g.cmds)
        /\ \/ AtTwin(r, start, g, e.to) \/ AtHome(g, e.to)
           \/ AtEntry(r, start, g, e.to) /\ EntersApp(e)
    <3> HIDE DEF g, h, cur, start
    <3> QED
      BY <2>1, <2>3, <2>5, <2>6, EmitSound
  <2> HIDE DEF g
  <2>8. SoundSoFar(r, start, g, n + 1)
    BY <1>3, <2>4, <2>7 DEF SoundSoFar
  <2> QED
    BY <2>8 DEF g
<1>6. CASE ~(f.started \/ e.from = start)
  <2>1. g = [f EXCEPT !.started = e.to = start]
    BY <1>6 DEF FlowStep
  <2>2. g.cmds = f.cmds /\ g.last = f.last /\ g.package = f.package
    BY <1>2, <2>1
  <2>3. g.started = (e.to = start)
    BY <1>2, <2>1
  <2>4. f.cmds = <<>> /\ f.last = start /\ f.package = Package[start]
    BY <1>6 DEF SoundSoFar
  <2>5. AtTwin(r, start, g, start)
    <3> HIDE DEF g
    <3> QED
      BY <1>4, <1>6, <2>2 DEF AtTwin
  <2> SUFFICES SoundSoFar(r, start, g, n + 1)
    OBVIOUS
  <2> HIDE DEF g
  <2>6. SoundFlow(r, start, g.cmds) /\ g.cmds = <<>> /\ g.last = start /\ g.package = Package[start]
    BY <1>2, <2>2, <2>4
  <2> HIDE DEF start
  <2>7. CASE e.to = start
    <3>1. g.started = TRUE
      BY <2>3, <2>7
    <3>2. AtTwin(r, start, g, r.trace[n + 1].to)
      BY <2>5, <2>7
    <3> QED
      BY <1>3, <2>6, <3>1, <3>2 DEF SoundSoFar, start
  <2>8. CASE e.to # start
    <3>1. g.started = FALSE
      BY <2>3, <2>8
    <3> QED
      BY <1>3, <2>6, <3>1 DEF SoundSoFar, start
  <2> QED
    BY <2>7, <2>8
<1> QED
  BY <1>5, <1>6

\* Each command of the flow of such a recording runs from where those before it
\* leave the device.
LEMMA FlowIsSound ==
  ASSUME NEW r \in Recordings, Anchorable(r)
  PROVE  /\ FlowOf(r, LaunchAnchor(r)) \in Seq(CommandsOf(r))
         /\ Sound(r, LaunchAnchor(r), FlowOf(r, LaunchAnchor(r)))
<1> DEFINE N == Len(r.trace)
           start == LaunchAnchor(r)
           built == CHOOSE g : Builds(g, r, start, N)
           S == {n \in Nat : n \in 0 .. N => SoundSoFar(r, start, built[n], n)}
<1>1. N \in Nat /\ DOMAIN r.trace = 1 .. N
  BY TraceTyped
<1>2. Builds(built, r, start, N)
  BY <1>1, FlowIsDefined
<1>3. /\ built[0] = FlowStart(start)
      /\ \A n \in 1 .. N : built[n] = FlowStep(r, start, built[n - 1], n)
  <2> HIDE DEF built, start
  <2> QED
    BY <1>1, <1>2 DEF Builds
<1>4. FlowOf(r, start) = built[N].cmds
  BY DEF FlowOf, Builds
<1> HIDE DEF built
<1>5. 0 \in S
  <2> DEFINE f == FlowStart(start)
  <2>1. start # Nothing /\ start \in Screen
    BY StartIsScreen DEF Anchorable
  <2>2. /\ DOMAIN f = {"started", "last", "cmds", "package"} /\ f.cmds = <<>>
        /\ f.last = start /\ f.package = Package[start]
    BY <2>1 DEF FlowStart
  <2>3. ~f.started
    BY <2>1 DEF FlowStart
  <2> HIDE DEF f, start
  <2>4. InProgress(f, r)
    BY <2>2 DEF InProgress
  <2>5. SoundFlow(r, start, f.cmds)
    <3>1. Place(r, start, <<>>) = start
      BY DEF Place, Reached
    <3>2. Sound(r, start, <<>>)
      BY DEF Sound
    <3> QED
      BY <2>1, <2>2, <3>1, <3>2 DEF SoundFlow
  <2>6. SoundSoFar(r, start, f, 0)
    BY <2>2, <2>3, <2>4, <2>5 DEF SoundSoFar
  <2> QED
    BY <1>3, <2>6 DEF f
<1>6. ASSUME NEW n \in Nat, n \in S
      PROVE  n + 1 \in S
  <2> SUFFICES ASSUME n + 1 \in 0 .. N
               PROVE  SoundSoFar(r, start, built[n + 1], n + 1)
    OBVIOUS
  <2>1. n + 1 \in DOMAIN r.trace /\ n \in 0 .. N /\ n + 1 \in 1 .. N /\ (n + 1) - 1 = n
    BY <1>1
  <2>2. SoundSoFar(r, start, FlowStep(r, start, built[n], n + 1), n + 1)
    BY <1>6, <2>1, FlowStepSound
  <2>3. built[n + 1] = FlowStep(r, start, built[(n + 1) - 1], n + 1)
    BY <1>3, <2>1
  <2> QED
    BY <2>1, <2>2, <2>3
<1>7. Nat \subseteq S
  <2> HIDE DEF S
  <2> QED
    BY <1>5, <1>6, NatSetInduction
<1>8. SoundSoFar(r, start, built[N], N)
  BY <1>1, <1>7
<1> QED
  BY <1>4, <1>8 DEF SoundSoFar, SoundFlow

\* The run of such a recording, while nothing unasked has happened: the device is
\* where the commands before the one at i leave it, and that one can run from there.
Here == Reached(rec, LaunchAnchor(rec), flow, i)

OnTrack ==
  /\ pc \notin {"stopped", "goto", "retry"}
  /\ pc # "launch" => Sound(rec, LaunchAnchor(rec), flow)
  /\ pc \in {"next", "before", "hooks before", "run", "list", "wait"} => at = Here
  /\ pc \notin {"launch", "next", "completed"} => i \in DOMAIN flow
  /\ pc \in {"list", "wait", "act", "act once"} => Cmd.kind # "launch"
  /\ pc = "list" => IsRow
  /\ pc = "act" => IsKey \/ Present
  /\ pc = "act once" => at = EdgeOf(Cmd).from
  /\ pc \in {"after", "hooks after"} => at = Leaves(rec, Cmd)

CalmInv == calm /\ Anchorable(rec) => OnTrack

LEMMA RunsHere ==
  ASSUME OnTrack, pc \in {"run", "list", "wait"}
  PROVE  RunsFrom(rec, Cmd, at)
BY DEF OnTrack, Sound, Here, Cmd

\* The element of such a command is present, or the reveal rung is let to it.
LEMMA AdvancesHere ==
  ASSUME OnTrack, pc \in {"list", "wait"}
  PROVE  /\ Advances
         /\ Present \/ EdgeOf(Cmd).from \in rec.swiped \/ IsRow
<1>1. RunsFrom(rec, Cmd, at) /\ Cmd.kind # "launch"
  BY RunsHere DEF OnTrack
<1>2. at \in Screen /\ \/ at = EdgeOf(Cmd).from
                       \/ EdgeOf(Cmd).from \in ScrollsFrom(rec, at) /\ (EdgeOf(Cmd).from \in rec.swiped \/ IsRow)
  BY <1>1 DEF RunsFrom, EdgeOf, IsRow
<1>3. Advances
  BY <1>2, ScrollsFromItself DEF Advances
<1>4. at = EdgeOf(Cmd).from => Present \/ EdgeOf(Cmd).from \in rec.swiped
  BY DEF Present, BelowFold
<1> QED
  BY <1>2, <1>3, <1>4

\* A command that was run as recorded leaves the run on its track.
LEMMA DoneOnTrack ==
  ASSUME OnTrack, OrderInv, Done, UNCHANGED run, at' = Leaves(rec, Cmd), pc # "launch", i \in DOMAIN flow
  PROVE  OnTrack'
<1>1. rec' = rec /\ flow' = flow
  BY DEF run
<1>2. Sound(rec, LaunchAnchor(rec), flow)' /\ i \in Nat /\ i > 0
  BY <1>1 DEF OnTrack, OrderInv
<1>3. CASE Hooked
  <2>1. pc' = "after" /\ i' = i
    BY <1>3 DEF Done
  <2>2. at' = Leaves(rec, Cmd)'
    BY <1>1, <2>1 DEF Cmd
  <2> QED
    BY <1>1, <1>2, <2>1, <2>2 DEF OnTrack
<1>4. CASE ~Hooked
  <2>1. pc' = "next" /\ i' = i + 1
    BY <1>4 DEF Done
  <2>2. i' # 1 /\ i' - 1 = i
    BY <1>2, <2>1
  <2>3. at' = Here'
    BY <1>1, <2>2 DEF Here, Reached, Cmd
  <2> QED
    BY <1>2, <2>1, <2>3 DEF OnTrack
<1> QED
  BY <1>3, <1>4

\* What an element that is acted on as recorded leaves.
LEMMA OpensLeaves ==
  ASSUME Opens, calm', Cmd.kind # "launch", Cmd.kind = "pre" => at = EdgeOf(Cmd).from
  PROVE  at' = Leaves(rec, Cmd)
BY DEF Opens, Leaves, EdgeOf

LEMMA LaunchOnTrack ==
  ASSUME OrderInv, Launch, calm', Anchorable(rec)
  PROVE  OnTrack'
<1> DEFINE start == LaunchAnchor(rec)
<1>1. LandsOn(start) /\ Compile(start) /\ UNCHANGED <<rec, i>>
  BY DEF Launch, LaunchFails
<1>2. at' = start /\ flow' = FlowOf(rec, start)
  BY <1>1 DEF LandsOn, Compile
<1>3. ~NothingReplayable(rec, start, flow')
  BY <1>2 DEF Anchorable
<1>4. pc' = "next"
  BY <1>1, <1>3 DEF Compile
<1>5. rec \in Recordings /\ i = 1
  BY DEF OrderInv, Launch
<1>6. Sound(rec, start, flow')
  BY <1>2, <1>5, FlowIsSound
<1>7. at' = Here'
  BY <1>1, <1>2, <1>5 DEF Here, Reached
<1>8. Sound(rec, LaunchAnchor(rec), flow)'
  BY <1>1, <1>6
<1> QED
  BY <1>4, <1>7, <1>8 DEF OnTrack

LEMMA StepCalmInv ==
  ASSUME OrderInv, CalmInv, [Next]_vars
  PROVE  CalmInv'
<1> SUFFICES ASSUME calm', Anchorable(rec')
             PROVE  OnTrack'
  BY DEF CalmInv
<1>1. rec' = rec
  BY DEF Next, Engine, Boundary, Launch, LaunchNothing, NextCommand, Steering, HookContinues, HookStops,
         HookJumps, HooksDone, GotoRefused, GotoFails, GotoArrives, Command, RunLaunch, IdleGate, TapInList,
         WaitFor, RevealAbsent, SendKey, ActOn, ActMisses, Retry, Move, run, vars
<1>2. Anchorable(rec)
  BY <1>1
<1>3. calm => OnTrack
  BY <1>2 DEF CalmInv
<1>4. ASSUME UNCHANGED <<rec, flow, i, at, pc>>, calm
      PROVE  OnTrack'
  BY <1>3, <1>4 DEF OnTrack, Here, Cmd, IsRow, IsKey, Present, BelowFold, EdgeOf
<1> USE DEF run, steer
<1>5. CASE Boundary
  <2>1. OnTrack /\ UNCHANGED <<rec, flow, i, at>>
    BY <1>3, <1>5 DEF Boundary
  <2>2. \/ pc = "before" /\ pc' = "hooks before"
        \/ pc = "after" /\ pc' = "hooks after"
    BY <1>5 DEF Boundary
  <2> QED
    BY <2>1, <2>2 DEF OnTrack, Here, Cmd
<1>6. CASE Launch
  BY <1>2, <1>6, LaunchOnTrack
<1>7. CASE LaunchNothing
  BY <1>2, <1>7 DEF LaunchNothing, Anchorable
<1>8. CASE NextCommand
  <2>1. OnTrack /\ UNCHANGED <<rec, flow, i, at>> /\ pc = "next"
    BY <1>3, <1>8 DEF NextCommand
  <2>2. pc' = "completed" \/ (~(i > Len(flow)) /\ pc' \in {"before", "run"})
    BY <1>8 DEF NextCommand
  <2>3. ~(i > Len(flow)) => i \in DOMAIN flow
    <3>1. i \in Nat /\ i > 0 /\ flow \in Seq(CommandsOf(rec))
      BY DEF OrderInv
    <3> QED
      BY <3>1
  <2>4. at' = Here' /\ Sound(rec, LaunchAnchor(rec), flow)'
    BY <2>1 DEF OnTrack, Here
  <2>5. i \in DOMAIN flow => (i \in DOMAIN flow)'
    BY <2>1
  <2> QED
    BY <2>2, <2>3, <2>4, <2>5 DEF OnTrack
<1>9. CASE HookContinues
  BY <1>4, <1>9 DEF HookContinues
<1>10. CASE HookStops
  BY <1>10 DEF HookStops
<1>11. CASE HookJumps
  BY <1>11 DEF HookJumps
<1>12. CASE HooksDone
  <2>1. OnTrack /\ UNCHANGED <<rec, flow, at>>
    BY <1>3, <1>12 DEF HooksDone
  <2>2. CASE pc = "hooks before"
    <3>1. pc' = "run" /\ i' = i
      BY <1>12, <2>2 DEF HooksDone
    <3>2. at' = Here' /\ Sound(rec, LaunchAnchor(rec), flow)' /\ (i \in DOMAIN flow)'
      BY <2>1, <2>2, <3>1 DEF OnTrack, Here
    <3> QED
      BY <3>1, <3>2 DEF OnTrack
  <2>3. CASE pc = "hooks after"
    <3>1. pc' = "next" /\ i' = i + 1 /\ at = Leaves(rec, flow[i])
      BY <1>12, <2>1, <2>3 DEF HooksDone, OnTrack, Cmd
    <3>2. i' # 1 /\ i' - 1 = i
      <4>1. i \in Nat /\ i > 0
        BY DEF OrderInv
      <4> QED
        BY <3>1, <4>1
    <3>3. at' = Here'
      BY <2>1, <3>1, <3>2 DEF Here, Reached
    <3> QED
      BY <2>1, <2>3, <3>1, <3>3 DEF OnTrack
  <2> QED
    BY <1>12, <2>2, <2>3 DEF HooksDone, InHooks
<1>13. CASE GotoRefused \/ GotoFails \/ GotoArrives
  <2>1. pc = "goto" /\ calm
    BY <1>13 DEF GotoRefused, GotoFails, GotoArrives, GotoTries
  <2> QED
    BY <1>3, <2>1 DEF OnTrack
<1>14. CASE RunLaunch
  <2>1. LandsOn(Cmd.anchor) /\ Done /\ UNCHANGED run /\ pc = "run" /\ Cmd.kind = "launch"
    BY <1>14 DEF RunLaunch, LaunchFails
  <2>2. calm /\ at' = Cmd.anchor
    BY <2>1 DEF LandsOn
  <2>3. at' = Leaves(rec, Cmd)
    BY <2>1, <2>2 DEF Leaves
  <2>4. OnTrack /\ i \in DOMAIN flow
    BY <1>3, <2>1, <2>2 DEF OnTrack
  <2> QED
    BY <2>1, <2>3, <2>4, DoneOnTrack
<1>15. CASE IdleGate
  <2>1. OnTrack /\ UNCHANGED <<rec, flow, i, at>> /\ pc = "run" /\ Cmd.kind # "launch"
    BY <1>3, <1>15 DEF IdleGate
  <2>2. \/ pc' = "list" /\ IsRow
        \/ pc' = "act" /\ IsKey
        \/ pc' = "wait"
    BY <1>15 DEF IdleGate, Route
  <2> QED
    BY <2>1, <2>2 DEF OnTrack, Here, Cmd, IsRow, IsKey, EdgeOf
<1>16. CASE TapInList
  <2>1. calm /\ pc = "list" /\ UNCHANGED run
    BY <1>16 DEF TapInList, TapsRow, RungStops, OtherList, Opens, Astray
  <2>2. OnTrack /\ IsRow /\ i \in DOMAIN flow /\ Cmd.kind # "launch"
    BY <1>3, <2>1 DEF OnTrack
  <2>3. Advances
    BY <2>1, <2>2, AdvancesHere
  <2>4. Opens /\ Done
    BY <1>16, <2>3 DEF TapInList, TapsRow, RungStops
  <2>5. at' = Leaves(rec, Cmd)
    BY <2>2, <2>4, OpensLeaves DEF IsRow
  <2> QED
    BY <2>1, <2>2, <2>4, <2>5, DoneOnTrack
<1>17. CASE WaitFor
  <2>1. OnTrack /\ UNCHANGED <<rec, flow, i, at>> /\ pc = "wait" /\ Present /\ pc' = "act"
    BY <1>3, <1>17 DEF WaitFor
  <2>2. Present'
    BY <2>1 DEF Present, BelowFold, EdgeOf, Cmd
  <2> QED
    BY <2>1, <2>2 DEF OnTrack, Cmd
<1>18. CASE RevealAbsent
  <2>1. calm /\ pc = "wait" /\ ~Present /\ UNCHANGED run
    BY <1>18 DEF RevealAbsent, BringsField, TapsRow, RungStops, Opens, Astray
  <2>2. OnTrack /\ i \in DOMAIN flow /\ Cmd.kind # "launch"
    BY <1>3, <2>1 DEF OnTrack
  <2>3. Advances /\ Eligible
    BY <2>1, <2>2, AdvancesHere DEF Eligible
  <2>4. CASE Cmd.kind = "pre"
    <3>1. at' = EdgeOf(Cmd).from /\ pc' = "act once" /\ UNCHANGED <<rec, flow, i>>
      BY <1>18, <2>3, <2>4 DEF RevealAbsent, BringsField, RungStops
    <3> QED
      BY <2>1, <2>2, <3>1 DEF OnTrack, EdgeOf, Cmd
  <2>5. CASE Cmd.kind # "pre"
    <3>1. Opens /\ Done
      BY <1>18, <2>3, <2>5 DEF RevealAbsent, TapsRow, RungStops
    <3>2. at' = Leaves(rec, Cmd)
      BY <2>2, <2>5, <3>1, OpensLeaves
    <3> QED
      BY <2>1, <2>2, <3>1, <3>2, DoneOnTrack
  <2> QED
    BY <2>4, <2>5
<1>19. CASE SendKey
  <2>1. at = EdgeOf(Cmd).from /\ Opens /\ Done /\ calm /\ pc = "act" /\ UNCHANGED run
    BY <1>19 DEF SendKey, Opens, Astray
  <2>2. OnTrack /\ i \in DOMAIN flow /\ Cmd.kind # "launch"
    BY <1>3, <2>1 DEF OnTrack
  <2>3. at' = Leaves(rec, Cmd)
    BY <2>1, <2>2, OpensLeaves
  <2> QED
    BY <2>1, <2>2, <2>3, DoneOnTrack
<1>20. CASE ActOn
  <2>1. Resolves /\ Opens /\ Done /\ UNCHANGED run /\ calm /\ pc \in {"act", "act once"}
    BY <1>20 DEF ActOn, Opens, Astray
  <2>2. OnTrack /\ i \in DOMAIN flow /\ Cmd.kind # "launch" /\ pc # "launch"
    BY <1>3, <2>1 DEF OnTrack
  <2>3. at' = Leaves(rec, Cmd)
    BY <2>1, <2>2, OpensLeaves DEF Resolves
  <2> QED
    BY <2>1, <2>2, <2>3, DoneOnTrack
<1>21. CASE ActMisses
  <2>1. calm /\ pc \in {"act", "act once"} /\ ~IsKey /\ ~Resolves /\ ~Lookalike
    BY <1>21 DEF ActMisses
  <2>2. pc = "act" => Present
    BY <1>3, <2>1 DEF OnTrack
  <2>3. pc = "act once" => at = EdgeOf(Cmd).from
    BY <1>3, <2>1 DEF OnTrack
  <2> QED
    BY <2>1, <2>2, <2>3 DEF Present, Resolves, Lookalike
<1>22. CASE Retry
  <2>1. pc = "retry" /\ calm
    BY <1>22 DEF Retry
  <2> QED
    BY <1>3, <2>1 DEF OnTrack
<1>23. CASE Move
  BY <1>23 DEF Move
<1>24. CASE UNCHANGED vars
  BY <1>4, <1>24 DEF vars
<1> QED
  BY <1>5, <1>6, <1>7, <1>8, <1>9, <1>10, <1>11, <1>12, <1>13, <1>14, <1>15, <1>16, <1>17, <1>18, <1>19, <1>20, <1>21, <1>22, <1>23, <1>24 DEF Next, Engine, Steering, Command

\* Undisturbed, the run of a recording whose apps are anchored where they are
\* entered is never stopped, whatever its length, its fork twins and its lists: each
\* command finds the device where the recording pressed it (flow_from_recording, run()).
THEOREM CalmRunsComplete == Spec => []CalmRunCompletes
<1>1. Init => CalmInv
  BY DEF Init, CalmInv, OnTrack
<1>2. CalmInv => CalmRunCompletes
  BY DEF CalmInv, OnTrack, CalmRunCompletes
<1>3. OrderInv /\ CalmInv /\ [Next]_vars => CalmInv'
  BY StepCalmInv
<1> QED
  BY <1>1, <1>2, <1>3, InitOrderInv, StepOrderInv, PTL DEF Spec

(***************************************************************************)
(* Rows.                                                                   *)
(***************************************************************************)
\* No row is waited for, acted on or retried: the idle gate has sent it to the
\* reveal rung.
RowInv == /\ pc \in {"wait", "act", "act once", "retry"} => ~IsRow
          /\ RowsInTheirList

LEMMA StepRowInv ==
  ASSUME OrderInv, CalmInv, RowInv, [Next]_vars
  PROVE  RowInv'
<1> USE DEF run, steer
<1>23. CASE UNCHANGED <<rec, wrong>> /\ (pc' \in {"wait", "act", "act once", "retry"} => ~IsRow')
  <2>1. (Anchorable(rec) <=> Anchorable(rec')) /\ wrong' = wrong
    BY <1>23
  <2>2. RowsInTheirList'
    BY <2>1 DEF RowInv, RowsInTheirList
  <2> QED
    BY <1>23, <2>2 DEF RowInv
<1>1. CASE Boundary
  BY <1>1, <1>23 DEF Boundary, RowInv, IsRow, Cmd, EdgeOf
<1>2. CASE Launch
  BY <1>2, <1>23 DEF Launch, Compile, RowInv, IsRow, Cmd, EdgeOf
<1>3. CASE LaunchNothing
  BY <1>3, <1>23 DEF LaunchNothing, Compile, RowInv, IsRow, Cmd, EdgeOf
<1>4. CASE NextCommand
  BY <1>4, <1>23 DEF NextCommand, RowInv, IsRow, Cmd, EdgeOf
<1>5. CASE HookContinues
  BY <1>5, <1>23 DEF HookContinues, InHooks, RowInv, IsRow, Cmd, EdgeOf
<1>6. CASE HookStops
  BY <1>6, <1>23 DEF HookStops, Stop, RowInv, IsRow, Cmd, EdgeOf
<1>7. CASE HookJumps
  BY <1>7, <1>23 DEF HookJumps, RowInv, IsRow, Cmd, EdgeOf
<1>8. CASE HooksDone
  BY <1>8, <1>23 DEF HooksDone, RowInv, IsRow, Cmd, EdgeOf
<1>9. CASE GotoRefused
  BY <1>9, <1>23 DEF GotoRefused, RowInv, IsRow, Cmd, EdgeOf
<1>10. CASE GotoFails
  BY <1>10, <1>23 DEF GotoFails, GotoTries, RowInv, IsRow, Cmd, EdgeOf
<1>11. CASE GotoArrives
  BY <1>11, <1>23 DEF GotoArrives, GotoTries, RowInv, IsRow, Cmd, EdgeOf
<1>12. CASE RunLaunch
  BY <1>12, <1>23 DEF RunLaunch, Done, Stop, RowInv, IsRow, Cmd, EdgeOf
<1>13. CASE IdleGate
  BY <1>13, <1>23 DEF IdleGate, Route, RowInv, IsRow, Cmd, EdgeOf
<1>14. CASE TapInList
  <2>1. pc' \in {"after", "next", "stopped"} /\ rec' = rec
    BY <1>14 DEF TapInList, RungStops, Done, Stop
  <2>2. CASE calm /\ OtherList /\ Anchorable(rec)
    <3>1. Advances
      BY <1>14, <2>2, AdvancesHere DEF CalmInv, TapInList
    <3> QED
      BY <2>2, <3>1 DEF OtherList
  <2>3. CASE ~(calm /\ OtherList)
    BY <1>14, <1>23, <2>1, <2>3 DEF TapInList
  <2>4. CASE ~Anchorable(rec)
    <3>4. wrong' = wrong \/ wrong' = wrong \cup {"other list"}
      <4>1. CASE calm /\ OtherList
        BY <1>14, <4>1 DEF TapInList
      <4>2. CASE ~(calm /\ OtherList)
        BY <1>14, <4>2 DEF TapInList
      <4> QED
        BY <4>1, <4>2
    <3>5. "outside" # "other list" /\ "outside" \notin wrong
      BY DEF RowInv, RowsInTheirList
    <3>1. "outside" \notin wrong'
      BY <3>4, <3>5
    <3>2. ~Anchorable(rec')
      BY <2>1, <2>4
    <3>3. RowsInTheirList'
      BY <3>1, <3>2 DEF RowsInTheirList
    <3> QED
      BY <2>1, <3>3 DEF RowInv
  <2> QED
    BY <2>2, <2>3, <2>4
<1>15. CASE WaitFor
  BY <1>15, <1>23 DEF WaitFor, RowInv, IsRow, Cmd, EdgeOf
<1>16. CASE RevealAbsent
  <2>1. rec' = rec /\ wrong' = wrong /\ ~IsRow
    BY <1>16 DEF RevealAbsent, RowInv
  <2>2. \/ pc' \in {"after", "next", "stopped"}
        \/ pc' = "act once" /\ UNCHANGED <<rec, flow, i>>
    BY <1>16 DEF RevealAbsent, BringsField, RungStops, Done, Stop
  <2> QED
    BY <1>23, <2>1, <2>2 DEF IsRow, Cmd, EdgeOf
<1>17. CASE SendKey
  BY <1>17, <1>23 DEF SendKey, Done, RowInv, IsRow, Cmd, EdgeOf
<1>18. CASE ActOn
  <2>1. ~IsRow
    BY <1>18 DEF ActOn, RowInv
  <2>2. wrong' = wrong /\ rec' = rec
    BY <1>18, <2>1 DEF ActOn
  <2>3. pc' \in {"after", "next"}
    BY <1>18 DEF ActOn, Done
  <2> QED
    BY <1>23, <2>2, <2>3
<1>19. CASE ActMisses
  <2>1. CASE pc = "act"
    BY <1>19, <1>23, <2>1 DEF ActMisses, RowInv, IsRow, Cmd, EdgeOf
  <2>2. CASE pc # "act"
    BY <1>19, <1>23, <2>2 DEF ActMisses, Stop
  <2> QED
    BY <2>1, <2>2
<1>20. CASE Retry
  BY <1>20, <1>23 DEF Retry, Stop, RowInv, IsRow, Cmd, EdgeOf
<1>21. CASE Move
  BY <1>21, <1>23 DEF Move, RowInv, IsRow, Cmd, EdgeOf
<1>22. CASE UNCHANGED vars
  BY <1>22, <1>23 DEF vars, RowInv, IsRow, Cmd, EdgeOf
<1> QED
  BY <1>1, <1>2, <1>3, <1>4, <1>5, <1>6, <1>7, <1>8, <1>9, <1>10, <1>11, <1>12, <1>13, <1>14, <1>15, <1>16, <1>17, <1>18, <1>19, <1>20, <1>21, <1>22 DEF Next, Engine, Steering, Command

\* A row recorded inside a list is never tapped outside any (the pre-route of
\* _run_command), and in the undisturbed run of an anchorable recording never in the
\* list of another screen, on every screen and with every lookalike.
THEOREM RowsStayInTheirList == Spec => []RowsInTheirList
<1>1. Init => RowInv
  BY DEF Init, RowInv, RowsInTheirList
<1>2. RowInv => RowsInTheirList
  BY DEF RowInv
<1>3. Init => CalmInv
  BY DEF Init, CalmInv, OnTrack
<1>4. OrderInv /\ CalmInv /\ [Next]_vars => CalmInv'
  BY StepCalmInv
<1>5. OrderInv /\ CalmInv /\ RowInv /\ [Next]_vars => RowInv'
  BY StepRowInv
<1> QED
  BY <1>1, <1>2, <1>3, <1>4, <1>5, InitOrderInv, StepOrderInv, PTL DEF Spec
=============================================================================
