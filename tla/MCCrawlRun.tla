------------------------------ MODULE MCCrawlRun ------------------------------
(* CrawlRun on a small web site: a home page, its second page, which it also *)
(* lists and links to, a page found only in its links, and a seed from the   *)
(* site map that belongs to another domain.                                  *)
EXTENDS CrawlRun

CONSTANTS home, second, late, elsewhere

Site        == {home, second, late, elsewhere}
SiteSeeds   == {home, elsewhere}
SiteOffSite == {elsewhere}

SiteNext  == [u \in Site |-> IF u = home THEN second ELSE NoUrl]
SiteItems == [u \in Site |-> IF u = home THEN <<second>> ELSE <<>>]
SiteLinks == [u \in Site |-> CASE u = home -> <<second, late>>
                               [] u = second -> <<home, late>>
                               [] OTHER -> <<home>>]
=============================================================================
