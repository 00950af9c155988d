---------------------------- MODULE MCNavigator ----------------------------
(***************************************************************************)
(* A small app for TLC: a home screen whose content changes, with a tab    *)
(* for a clock; a feed that forks when it is scrolled; an archive nobody   *)
(* recorded, with the structure of the scrolled feed; a detail page and a  *)
(* page behind it; a welcome screen recorded before it settled; an ad, the *)
(* launcher and another app.                                               *)
(***************************************************************************)
EXTENDS Navigator

AppPlace(ns, look, value, active, shows, rows) ==
  [ns |-> ns, pkg |-> IF ns = "other" THEN "other" ELSE IF ns = LauncherNs THEN ns ELSE "app",
   look |-> look, value |-> value, listy |-> FALSE, rows |-> rows,
   tabs |-> shows \cap {"tabClock"}, active |-> active, shows |-> shows]

PlaceTable(welcome) ==
  [launcher |-> AppPlace(LauncherNs, "icons", "icons", NoHandle, {"icon"}, {}),
   home     |-> AppPlace("main", "home", "home", NoHandle, {"feed", "tabClock"}, {}),
   feed     |-> AppPlace("main", "feed", "feed", NoHandle, {}, {"row"}),
   archive  |-> AppPlace("main", "scrolled", "archive", NoHandle, {}, {"row"}),
   scrolled |-> AppPlace("main", "scrolled", "scrolled", NoHandle, {}, {"row"}),
   detail   |-> AppPlace("sub", "detail", "detail", NoHandle, {"more"}, {}),
   page     |-> AppPlace("sub", "page", "page", NoHandle, {}, {}),
   welcome  |-> AppPlace("sub", welcome, "welcome", NoHandle, {"skip"}, {}),
   clock    |-> AppPlace("main", "ticking", "clock", "tabClock", {"tabClock"}, {}),
   ad       |-> AppPlace("main", "ad", "ad", NoHandle, {"skip", "tabClock"}, {}),
   foreign  |-> AppPlace("other", "foreign", "foreign", NoHandle, {}, {})]

\* The welcome screen settles into the structure of the page, or of the detail.
WelcomePage(p) == PlaceTable("page")[p]
WelcomeDetail(p) == PlaceTable("detail")[p]
AllPlaces == DOMAIN PlaceTable("page")

Recorded(ns, look, kind, anchor, home) ==
  [ns |-> ns, pkg |-> IF ns = LauncherNs THEN ns ELSE "app", look |-> look, value |-> look,
   kind |-> kind, listy |-> FALSE, probe |-> NoHandle, reveals |-> FALSE,
   anchor |-> anchor, splash |-> FALSE, home |-> home]
NodeTable ==
  <<Recorded(LauncherNs, "icons", "plain", "keyevent", "launcher"),
    [Recorded("main", "home", "plain", "am_start", "home") EXCEPT !.look = "greeting"],
    Recorded("main", "feed", "plain", "none", "feed"),
    [Recorded("main", "scrolled", "plain", "none", "scrolled") EXCEPT !.probe = "skip"],
    Recorded("sub", "detail", "text", "none", "detail"),
    Recorded("sub", "spinner", "volatile", "none", "welcome"),
    Recorded("sub", "page", "plain", "none", "page"),
    Recorded("main", "clock", "plain", "none", "clock")>>
NodeOf(n) == NodeTable[n]

Tap(id, from, to, sel) ==
  [id |-> id, from |-> from, to |-> to, sel |-> sel, kind |-> "tap", weight |-> 1,
   global |-> FALSE, suspect |-> FALSE, region |-> FALSE, lacks |-> FALSE]
AllEdges ==
  {Tap(1, 1, 2, "icon"), Tap(2, 2, 3, "feed"),
   [Tap(3, 3, 4, NoHandle) EXCEPT !.kind = "scroll"],
   [Tap(4, 4, 5, "row") EXCEPT !.region = TRUE],
   Tap(5, 5, 7, "more"), Tap(6, 6, 2, "skip"),
   [Tap(7, 2, 8, "tabClock") EXCEPT !.global = TRUE]}

TapLeads(p, h) ==
  CASE h = "icon" -> "home" [] h = "feed" -> "feed" [] h = "row" -> "detail"
    [] h = "more" -> "page" [] h = "skip" -> "home" [] h = "tabClock" -> "clock"
ScrolledOf(p) == IF p = "feed" THEN "scrolled" ELSE p

World(component, icon, default, monkey) ==
  [a \in {2} |-> [r \in RungNames |->
     CASE r = "recorded_component" -> component [] r = "icon_tap" -> icon
       [] r = "package_default" -> default [] r = "monkey_launcher" -> monkey]]
SomeWorlds ==
  {World("refused", "foreign", "nothing", "home"),
   World("welcome", "home", "welcome", "welcome"),
   World("welcome", "foreign", "home", "home"),
   World("refused", "nothing", "nothing", "home"),
   World("refused", "nothing", "foreign", "foreign")}
=============================================================================
