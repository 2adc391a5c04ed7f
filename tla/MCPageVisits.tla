------------------------------ MODULE MCPageVisits ------------------------------
(* PageVisits with a news story, an application and a page of listings that  *)
(* change, a challenge and a page without any sign of what it is.            *)
EXTENDS PageVisits, TLC

CONSTANTS one, two, story, board

AllUrls  == {one, two}
Kinds    == {story, board}
KindOf   == [u \in AllUrls |-> IF u = one THEN story ELSE board]

Said ==
    [title |-> "a title", author |-> "author", published_at |-> 1, body |-> "text", images |-> {}, tags |-> {},
     posts |-> {}, price |-> [number |-> FALSE, value |-> 0], status |-> "none", location |-> "none",
     attributes |-> {}, listings |-> {}]

Article ==
    [headline |-> 40, size |-> 1500, paragraphs |-> 10, phrases |-> 0, fields |-> 3, listed |-> 0, said |-> Said]

Scrap == [Article EXCEPT !.headline = 0, !.size = 60, !.paragraphs = 1, !.fields = 0, !.said.title = "none"]

Listings(prices) ==
    [Article EXCEPT !.headline = 0, !.size = 400, !.listed = 6, !.said.title = "none",
                    !.said.listings = {[id |-> "i", price |-> prices, status |-> "none"]}]

NoFinds ==
    [article |-> Nothing, forum |-> Nothing, listing |-> Nothing, index |-> Nothing,
     generic |-> Nothing, scrapling |-> Nothing]

Blank ==
    [html |-> TRUE, category |-> "none", schema |-> Nothing, address |-> Nothing, discussion |-> FALSE,
     text |-> 1600, headings |-> 1, items |-> 0, links |-> 10, next |-> FALSE, root |-> FALSE, external |-> 1,
     hydration |-> FALSE, scripts |-> 100, framework |-> FALSE, described |-> TRUE, iframes |-> FALSE,
     marks |-> {}, finds |-> NoFinds]

\* The same answer to HTTP and to a browser.
Plain(view) == [http |-> view, browser |-> view]

News1     == [Blank EXCEPT !.schema = "NEWS_ARTICLE", !.finds.article = Article]
News2     == [News1 EXCEPT !.finds.article.said.body = "another text"]
Shell     == [Blank EXCEPT !.text = 0, !.headings = 0, !.links = 0, !.root = TRUE, !.external = 3]
Challenge == [Blank EXCEPT !.text = 150, !.headings = 0, !.marks = {"challenge"}, !.finds.generic = Scrap]
Weak      == [Blank EXCEPT !.text = 700, !.finds.generic = [Article EXCEPT !.size = 600]]
Index(n)  == [Blank EXCEPT !.address = "CATEGORY", !.items = 6, !.next = TRUE, !.finds.index = Listings(n), !.finds.scrapling = Scrap]

Application == [http |-> Shell, browser |-> News1]

AllFaces ==
    [u \in AllUrls |->
        {Application} \cup IF u = one THEN {Plain(News1), Plain(News2), Plain(Challenge)}
                          ELSE {Plain(Index(1)), Plain(Index(2)), Plain(Weak)}]

Symmetry == Permutations(Tasks)
=============================================================================
