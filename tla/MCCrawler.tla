------------------------------ MODULE MCCrawler ------------------------------
(* Small apps for TLC. *)
EXTENDS Crawler

P(id, rows, nav, goes, scroll, back) ==
  [id |-> id, family |-> id, package |-> "app", volatile |-> FALSE, rows |-> rows, nav |-> nav,
   goes |-> goes, scroll |-> scroll, back |-> back]
Foreign(p) == [p EXCEPT !.package = "browser"]
Twin(family, p) == [p EXCEPT !.family = family]
Volatile(p) == [p EXCEPT !.volatile = TRUE]
Nowhere == [k \in {} |-> None]

\* Two tabs whose BACK goes round in circles, a screen shared by both, a link
\* out of the package and a screen that never settles.
Tabs ==
  "home" :> P("home", <<"item", "link", "tab">>, {"tab"},
              "item" :> "item" @@ "link" :> "web" @@ "tab" :> "tab2", None, "home") @@
  "tab2" :> P("tab2", <<"ad", "item">>, {}, "ad" :> "video" @@ "item" :> "item", None, "item") @@
  "item" :> P("item", <<"more">>, {}, "more" :> "more", None, "tab2") @@
  "more" :> P("more", <<"on">>, {}, "on" :> "home", None, "item") @@
  "web" :> Foreign(P("web", <<"a">>, {}, "a" :> "web", None, "home")) @@
  "video" :> Volatile(P("video", <<"skip">>, {}, "skip" :> "more", None, "tab2"))

\* A feed that is another screen once scrolled, and a list that is not; a row
\* that unfolds the list in place.
Feed ==
  "top" :> P("feed", <<"post1", "list">>, {}, "post1" :> "post" @@ "list" :> "list0", "deep", "top") @@
  "deep" :> P("feed2", <<"list", "post2">>, {}, "list" :> "list0" @@ "post2" :> "post", "deep", "top") @@
  "post" :> P("post", <<>>, {}, Nowhere, None, "top") @@
  "list0" :> P("list", <<"unfold", "r1">>, {}, "unfold" :> "list1" @@ "r1" :> "post", "list2", "top") @@
  "list1" :> P("list", <<"unfold", "sub", "r1">>, {},
               "unfold" :> "list0" @@ "sub" :> "sub" @@ "r1" :> "post", "list2", "top") @@
  "list2" :> P("list", <<"r1", "r2">>, {}, "r1" :> "post" @@ "r2" :> "post", "list2", "list0") @@
  "sub" :> P("sub", <<>>, {}, Nowhere, None, "list1")

\* A list whose swipe opens an advertisement of another package.
Leak ==
  "list" :> P("list", <<"a">>, {}, "a" :> "detail", "ad", "list") @@
  "detail" :> P("detail", <<>>, {}, Nowhere, None, "list") @@
  "ad" :> Foreign(P("ad", <<"buy">>, {}, "buy" :> "ad", None, "list"))

\* An app that starts on a screen that never settles.
Intro ==
  "film" :> Volatile(P("film", <<"skip">>, {}, "skip" :> "menu", None, "film")) @@
  "menu" :> P("menu", <<>>, {}, Nowhere, None, "film")

\* Boxes that look alike: the first is forgotten once the second is met, unless
\* it is met again.  Two pages of a calendar, one a tap away from the other.
Mail ==
  "home" :> P("home", <<"inbox", "day", "archive", "more">>, {},
              "inbox" :> "inbox" @@ "day" :> "day" @@ "archive" :> "archive" @@ "more" :> "more",
              None, "home") @@
  "inbox" :> Twin("box", P("inbox", <<"mail">>, {}, "mail" :> "mail", None, "home")) @@
  "archive" :> Twin("box", P("archive", <<"swap">>, {}, "swap" :> "inbox", "older", "home")) @@
  "older" :> Twin("box", P("older", <<"mail">>, {}, "mail" :> "mail", None, "home")) @@
  "mail" :> P("mail", <<>>, {}, Nowhere, None, "inbox") @@
  "day" :> Twin("calendar", P("day", <<"next", "add">>, {}, "next" :> "week" @@ "add" :> "more",
                              None, "home")) @@
  "week" :> Twin("calendar", P("week", <<"add">>, {}, "add" :> "more", None, "day")) @@
  "more" :> P("more", <<"about">>, {}, "about" :> "about", None, "home") @@
  "about" :> P("about", <<>>, {}, Nowhere, None, "more")

\* A reader that starts on a page, which a swipe turns to one that looks alike.
Reader ==
  "page1" :> Twin("page", P("page1", <<"note">>, {}, "note" :> "note", "page2", "page1")) @@
  "page2" :> Twin("page", P("page2", <<"note", "quote">>, {}, "note" :> "note" @@ "quote" :> "note",
                            None, "page1")) @@
  "note" :> P("note", <<"x">>, {}, "x" :> "page1", None, "page1")

SmallApps == "tabs" :> Tabs @@ "feed" :> Feed @@ "leak" :> Leak @@ "intro" :> Intro @@
             "mail" :> Mail @@ "reader" :> Reader
SmallRoot(a) == CASE a \in {"tabs", "mail"} -> "home" [] a = "feed" -> "top" [] a = "leak" -> "list"
                  [] a = "intro" -> "film" [] a = "reader" -> "page1"
=============================================================================
