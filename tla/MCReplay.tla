------------------------------ MODULE MCReplay ------------------------------
(* Small recordings and hook registries for the replay engine. *)
EXTENDS Replay

Screens == {"home", "a1", "a2", "a3", "b1", "b2"}
Packages == [s \in Screens |-> CASE s = "home" -> "launcher"
                                  [] s \in {"a1", "a2", "a3"} -> "a"
                                  [] OTHER -> "b"]
\* One activity per app, but for the last screen of the first.
Namespaces == [s \in Screens |-> IF s = "a3" THEN "a/.Other" ELSE Packages[s]]

Edge(from, act, to) == [from |-> from, act |-> act, to |-> to, typed |-> FALSE]
Form(from, act, to) == [from |-> from, act |-> act, to |-> to, typed |-> TRUE]
Rec(trace, anchored, swiped) == [trace |-> trace, anchored |-> anchored, swiped |-> swiped]

\* Home, a form of the first app, home again, the second app.
TwoApps == Rec(<<Edge("home", "tap", "a1"), Form("a1", "tap", "a2"), Edge("a2", "key", "home"),
                 Edge("home", "tap", "b1"), Edge("b1", "row", "b2")>>, {"a1", "b1"}, {})
\* Two steps from one screen, the way back unrecorded.
Star == Rec(<<Edge("home", "tap", "a1"), Edge("a1", "tap", "a2"), Edge("a1", "row", "a3")>>, {"a1"}, {})
\* A fork twin reached by scrolling, a form on it, and back.
Fork == Rec(<<Edge("home", "tap", "a1"), Edge("a1", "scroll", "a2"), Form("a2", "row", "a3"),
              Edge("a3", "key", "a2")>>, {"a1"}, {"a2"})
\* Through an app without an anchor and back by key.
Shared == Rec(<<Edge("a1", "tap", "b1"), Edge("b1", "key", "a1"), Edge("a1", "tap", "a2")>>, {"a1"}, {})
\* No anchor but the home screen's; none at all; nothing departs from the anchor,
\* and the recording goes on in an app without one.
FromHome == Rec(<<Edge("home", "tap", "a1"), Edge("a1", "tap", "a2")>>, {}, {})
Bare == Rec(<<Edge("a1", "tap", "a2"), Edge("a2", "key", "a1")>>, {}, {"a1"})
Lost == Rec(<<Edge("a1", "tap", "a2"), Edge("b1", "row", "b2")>>, {"a2"}, {})

AllRecordings == {TwoApps, Star, Fork, Shared, FromHome, Bare, Lost}

\* No hook; one on a screen; two at the boundaries of the first commands, one of
\* them also on a namespace.
AllRegistries == {<<>>, (<<"screen", "a2">> :> <<"h">>),
                  (<<"after", 1>> :> <<"h">> @@ <<"before", 1>> :> <<"g">> @@ <<"ns", "a">> :> <<"g", "h">>)}

Lookalikes == {<<"a2", "a1">>, <<"b1", "b1">>, <<"a1", "a1">>}
\* Lists alike on the screens a run may be on instead.
SameRows == {<<"a2", "a1">>, <<"a2", "b1">>, <<"a3", "a2">>, <<Elsewhere, "b1">>}
=============================================================================
