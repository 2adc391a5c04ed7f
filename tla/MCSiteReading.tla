--------------------------- MODULE MCSiteReading ---------------------------
(* SiteReading on five small sites, for TLC: a sitemap with more files and  *)
(* pages than are read, one that lists itself, one that is no XML, one that *)
(* is read whole, and one that takes all the limits allow; and listings     *)
(* that name all their pages, their neighbours, their next page, or numbers.*)
EXTENDS SiteReading, TLC

CONSTANTS A1, A2, P2, P3    \* two articles, and two pages of a numbered listing

MCListing == {0, 2, 4, 6}

Nothing == [rel |-> NoPage, text |-> NoPage, numbers |-> {}, offsets |-> {}]

Neighbours(u) == {v \in MCListing : v \in {u - 2, u + 2}}

MCShown == [style \in {"all", "window", "rel", "numbered"}, u \in 0..MaxOffset \cup {Home, A1, A2, P2, P3} |->
    CASE u \in {A1, A2} -> Nothing
      [] style = "all" -> [Nothing EXCEPT !.offsets = MCListing]
      [] style = "window" /\ u = Home -> [Nothing EXCEPT !.offsets = {0, 2}]
      [] style = "window" /\ u \in MCListing -> [Nothing EXCEPT !.offsets = Neighbours(u)]
      [] style = "rel" /\ u \in {Home, 0} -> [Nothing EXCEPT !.rel = 2]
      [] style = "rel" /\ u \in {2, 4} -> [Nothing EXCEPT !.text = u + 2, !.offsets = {0}]
      [] style = "numbered" /\ u \notin Nat -> [Nothing EXCEPT !.numbers = {<<1, Home>>, <<2, P2>>, <<3, P3>>}]
      [] OTHER -> Nothing]

Site(listed, kind, has, feeds, style) ==
    [listed |-> listed, kind |-> kind, has |-> has, feeds |-> feeds, entries |-> <<A1, Home>>,
     style |-> style, listing |-> IF style = "numbered" THEN {} ELSE MCListing, step |-> 2, last |-> 6]

Cut == Site(<<"gone", "index", "p1">>,
    [gone |-> "absent", index |-> "index", p1 |-> "pages", p2 |-> "pages", p3 |-> "pages", default |-> "garbled"],
    [gone |-> <<>>, index |-> <<"p1", "p2", "p3">>, p1 |-> <<A1>>, p2 |-> <<A1>>, p3 |-> <<A2>>, default |-> <<>>],
    <<"absent", "feed">>, "rel")

Circular == Site(<<>>,
    [default |-> "index", p1 |-> "pages"],
    [default |-> <<"default", "p1">>, p1 |-> <<A1>>],
    <<"garbled", "absent", "absent", "feed">>, "window")

Garbled == Site(<<>>, [default |-> "garbled"], [default |-> <<>>], <<"feed">>, "rel")

Whole == Site(<<"default">>,
    [default |-> "index", i1 |-> "index", p1 |-> "pages", p2 |-> "pages"],
    [default |-> <<"p1", "i1">>, i1 |-> <<"p2">>, p1 |-> <<A1>>, p2 |-> <<A2>>],
    <<"garbled", "absent">>, "numbered")

Full == Site(<<>>,
    [default |-> "index", i1 |-> "index", p1 |-> "pages", p2 |-> "pages", p3 |-> "pages"],
    [default |-> <<"p1", "i1">>, i1 |-> <<"p2", "p3">>, p1 |-> <<A1, A1>>, p2 |-> <<A1, A1>>, p3 |-> <<A1, A1, A1>>],
    <<>>, "all")

Homepage(type, body, links, js, extracted) ==
    [type |-> type, body |-> body, links |-> links, js |-> js, extracted |-> extracted]

\* An article page, one that scripts add to, a page that scripts render, a PDF,
\* an empty answer without a type.
MCHomepages ==
    {Homepage("html", TRUE, 3, FALSE, TRUE), Homepage("html", TRUE, 3, TRUE, TRUE), Homepage("html", TRUE, 0, TRUE, FALSE),
     Homepage("other", TRUE, 0, FALSE, FALSE), Homepage("none", FALSE, 0, FALSE, FALSE)}

MCSites == {Cut, Circular, Garbled, Whole, Full}
=============================================================================
