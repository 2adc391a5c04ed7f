----------------------------- MODULE PageJudgement -----------------------------
(***************************************************************************)
(* What the crawl makes of one response: the type of the page, the document *)
(* an extractor finds, how good and how complete it is, whether it needs a  *)
(* browser and whether it is a wall (a login form, a challenge, an error)   *)
(* instead of content.                                                      *)
(*                                                                         *)
(* A view is a response reduced to what these decisions look at; what the  *)
(* extractors find in its HTML is part of it.  Scores are in thousandths.  *)
(***************************************************************************)
EXTENDS Integers

CONSTANT Nothing    \* no response, no type, no document, no score

ContentTypes ==
    {"HOME", "NEWS_ARTICLE", "NEWS_INDEX", "BLOG_POST", "FORUM_INDEX", "FORUM_THREAD",
     "DISCUSSION_THREAD", "CLASSIFIED_INDEX", "CLASSIFIED_LISTING", "CATEGORY",
     "SEARCH_RESULTS", "FEED", "DOCUMENT", "DIRECTORY", "UNKNOWN"}

WallTypes == {"LOGIN", "CAPTCHA", "CONSENT_WALL", "ERROR", "JS_SHELL", "SOFT_BLOCK"}

PageTypes == ContentTypes \cup WallTypes

Least(a, b) == IF a < b THEN a ELSE b

Points(condition, n) == IF condition THEN n ELSE 0

-----------------------------------------------------------------------------
\* classify: what the page declares (or its file extension), the seed, the
\* address, the structure of a discussion and long text, and last what this
\* URL pattern has been before.
Classify(view, seed, hint) ==
    IF view.schema # Nothing THEN view.schema
    ELSE IF seed THEN "HOME"
    ELSE IF view.address # Nothing THEN view.address
    ELSE IF view.discussion THEN "FORUM_THREAD"
    ELSE IF view.text > 800 /\ view.headings >= 1 THEN "NEWS_ARTICLE"
    ELSE IF hint # Nothing THEN hint
    ELSE "UNKNOWN"

\* score_extraction.
TitleScore(d) ==
    CASE d.headline = 0 -> 0 [] d.headline \in 1 .. 4 -> 200 [] d.headline > 200 -> 500 [] OTHER -> 1000

BodyScore(d) ==
    LET length  == IF d.size >= 200 THEN Least(1000, (1000 * d.size) \div 1500) ELSE (500 * d.size) \div 200
        density == Least(1000, (1000 * d.size) \div (80 * d.paragraphs))
    IN  (((length + density) \div 2) * (5 - Least(5, d.phrases))) \div 5

MetadataScore(d) == Least(1000, 200 * d.fields + Points(d.said.tags # {}, 100))

Quality(d) ==
    (20 * TitleScore(d) + 45 * BodyScore(d) + 25 * MetadataScore(d)
        + 10 * Points(d.said.images # {}, 1000)) \div 100

QualityOf(d) == IF d = Nothing THEN Nothing ELSE Quality(d)

-----------------------------------------------------------------------------
IndexTypes ==
    {"CLASSIFIED_INDEX", "SEARCH_RESULTS", "CATEGORY", "NEWS_INDEX", "FORUM_INDEX", "DIRECTORY"}

\* _index_to_document: five items at least, and some text in them.
FromIndex(view) ==
    IF view.finds.index # Nothing /\ view.items >= 5 /\ view.finds.index.size >= 20
    THEN view.finds.index ELSE Nothing

Otherwise(d, e) == IF d = Nothing THEN e ELSE d

ExtractByType(view, type) ==
    CASE type \in {"NEWS_ARTICLE", "BLOG_POST"} -> view.finds.article
      [] type \in {"FORUM_THREAD", "DISCUSSION_THREAD"} -> view.finds.forum
      [] type = "CLASSIFIED_LISTING" -> view.finds.listing
      [] type = "FORUM_INDEX" ->
            Otherwise(FromIndex(view), Otherwise(view.finds.forum, view.finds.generic))
      [] type \in IndexTypes \ {"FORUM_INDEX"} -> Otherwise(FromIndex(view), view.finds.generic)
      [] OTHER -> view.finds.generic

NeedsFallback(d) == IF d = Nothing THEN TRUE ELSE d.size < 100 \/ Quality(d) < 350 \/ d.phrases >= 3

\* _scrapling_fallback keeps the headline of what it replaces and nothing else.
Scrapled(view, d) ==
    IF view.finds.scrapling = Nothing \/ d = Nothing THEN Otherwise(view.finds.scrapling, d)
    ELSE [view.finds.scrapling EXCEPT !.headline = d.headline, !.said.title = d.said.title]

\* extract_for_page: the better of the two is kept, the second if they tie.
ExtractForPage(view, seed, hint) ==
    LET type     == Classify(view, seed, hint)
        first    == ExtractByType(view, type)
        second   == Scrapled(view, first)
        replaced == /\ NeedsFallback(first) /\ second # Nothing
                    /\ first = Nothing \/ Quality(second) >= Quality(first)
    IN  [type |-> type, document |-> IF replaced THEN second ELSE first]

-----------------------------------------------------------------------------
\* score_completeness.
Completeness(view, d) ==
    LET listed   == d.listed > 0 /\ view.links > 0
        coverage == IF listed THEN Least(1000, (1000 * d.listed) \div view.links)
                    ELSE IF view.text = 0 THEN Points(d.size > 0, 1000)
                    ELSE Least(1000, (1000 * d.size) \div view.text)
    IN  IF view.next THEN (85 * coverage) \div 100 ELSE coverage

\* assess_javascript_dependency.  prior: browsers have been needed before for
\* two of five pages of the domain.
LikelyRequiresBrowser(view, quality, prior) ==
    LET lowText   == view.text < 200
        many      == view.external >= 3
        hydration == view.hydration \/ (view.external >= 5 /\ lowText)
        dense     == view.scripts > 3 * (view.text + Points(view.text = 0, 1))
        heavy     == view.text < 800 /\ many /\ (2 * view.scripts > 3 * view.text \/ ~view.described)
        score     ==
            Points(view.root, 4) + Points(hydration, 3)
            + Points(view.framework /\ (lowText \/ view.root), 2)
            + (IF lowText /\ (dense \/ many) THEN 4 ELSE Points(heavy, 2))
            + Points(lowText /\ view.links < 3 /\ ~view.described /\ view.external >= 1, 2)
            + Points(quality # Nothing /\ quality < 350 /\ (many \/ hydration \/ view.root), 2)
            + Points(prior /\ (lowText \/ view.root \/ hydration \/ many), 1)
            + Points(view.iframes /\ view.text < 80, 2)
    IN  score >= 4

\* The extractor's page is worth a second look with a browser: it seems to
\* need one, or what was found is poor.
Escalates(view, d, prior) ==
    \/ LikelyRequiresBrowser(view, QualityOf(d), prior)
    \/ QualityOf(d) # Nothing /\ QualityOf(d) < 400

-----------------------------------------------------------------------------
\* detect_soft_block.
Verdict(view, d) ==
    IF "challenge" \in view.marks THEN "CAPTCHA"
    ELSE IF {"password", "login"} \cap view.marks # {} THEN "LOGIN"
    ELSE IF "error" \in view.marks /\ d.size < 240 THEN "ERROR"
    ELSE IF "consent" \in view.marks /\ d.size < 80 THEN "CONSENT_WALL"
    ELSE IF d.size < 80 THEN "JS_SHELL"
    ELSE IF Quality(d) < 150 /\ d.size < 160 THEN "SOFT_BLOCK"
    ELSE Nothing

\* Whether the browser's page is taken, and what is learned from comparing.
Compare(http, browser) ==
    LET scored  == http # Nothing /\ browser # Nothing
        size(d) == IF d = Nothing THEN 0 ELSE d.size
        lead    == IF scored THEN Quality(browser) - Quality(http) ELSE size(browser) - size(http)
        margin  == IF scored THEN 20 ELSE 0
    IN  IF lead > margin THEN "browser_superior"
        ELSE IF -lead > margin THEN "http_superior" ELSE "equivalent"
=============================================================================
