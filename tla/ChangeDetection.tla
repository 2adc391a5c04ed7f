---------------------------- MODULE ChangeDetection ----------------------------
(***************************************************************************)
(* Whether a freshly extracted page differs from the stored document, by   *)
(* the rules of its page type (change_detection).                          *)
(*                                                                         *)
(* A title is known without the blanks around it, a body by its normalized *)
(* words.  Severity, similarity, confidence and the stored diff are left   *)
(* out.                                                                    *)
(***************************************************************************)
EXTENDS Integers, FiniteSets

Forums  == {"FORUM_THREAD", "FORUM_INDEX", "DISCUSSION_THREAD"}
News    == {"NEWS_ARTICLE", "BLOG_POST"}
Indexes == {"CLASSIFIED_INDEX", "SEARCH_RESULTS", "CATEGORY", "NEWS_INDEX", "DIRECTORY"}

\* _to_number: thousands separators do not count, what is no number is none.
Number(price) == IF price.number THEN price.value ELSE "none"

-----------------------------------------------------------------------------
\* The cheap test before any rule: nothing differs.
ExactlyEqual(a, b) == a = b

NewsChange(a, b) ==
    LET title == a.title # b.title
        body  == a.body # b.body
    IN  IF title /\ body THEN "ARTICLE_UPDATED"
        ELSE IF title THEN "TITLE_CHANGED"
        ELSE IF body THEN "CONTENT_CHANGED"
        ELSE IF \/ a.author # b.author \/ a.published_at # b.published_at
                \/ a.images # b.images \/ a.tags # b.tags THEN "METADATA_CHANGED"
        ELSE "NO_CHANGE"

\* A post without an identifier is known by its author and text.
Identity(post) == IF post.id # "none" THEN post.id ELSE <<post.author, post.text>>

ForumChange(a, b) ==
    LET before  == {Identity(p) : p \in a.posts}
        after   == {Identity(p) : p \in b.posts}
        edited  == \E p \in a.posts, q \in b.posts : Identity(p) = Identity(q) /\ p.text # q.text
    IN  IF before \ after # {} THEN "POST_REMOVED"
        ELSE IF edited THEN "POST_EDITED"
        ELSE IF after \ before # {} THEN "NEW_POSTS"
        ELSE IF a.title # b.title THEN "TITLE_CHANGED"
        ELSE "NO_CHANGE"

ListingChange(a, b) ==
    IF Number(a.price) # Number(b.price) THEN "PRICE_CHANGED"
    ELSE IF a.status # b.status THEN "STATUS_CHANGED"
    ELSE IF a.body # b.body THEN "DESCRIPTION_CHANGED"
    ELSE IF \/ a.title # b.title \/ a.location # b.location
            \/ a.images # b.images \/ a.attributes # b.attributes THEN "METADATA_CHANGED"
    ELSE "NO_CHANGE"

GenericChange(a, b) ==
    IF a.body # b.body THEN "CONTENT_CHANGED"
    ELSE IF a.title # b.title THEN "METADATA_CHANGED"
    ELSE "NO_CHANGE"

\* Items without an identifier are not compared.
Items(s) == {i \in s.listings : i.id # "none"}

Ids(s) == {i.id : i \in Items(s)}

\* Broken: the items of an index are compared as a directory, by their names.
IndexChangeOfIds(a, b) ==
    IF Items(a) = {} /\ Items(b) = {} THEN GenericChange(a, b)
    ELSE IF Ids(a) # Ids(b) THEN "STRUCTURE_CHANGED"
    ELSE "NO_CHANGE"

IndexChange(a, b) ==
    LET kept == {k \in Items(a) \X Items(b) : k[1].id = k[2].id}
    IN  IF Items(a) = {} /\ Items(b) = {} THEN GenericChange(a, b)
        ELSE IF Ids(b) \ Ids(a) # {} /\ Ids(a) \subseteq Ids(b) THEN "LISTING_ADDED"
        ELSE IF Ids(a) \ Ids(b) # {} /\ Ids(b) \subseteq Ids(a) THEN "LISTING_REMOVED"
        ELSE IF \E k \in kept : k[1].price # k[2].price THEN "PRICE_CHANGED"
        ELSE IF \E k \in kept : k[1].status # k[2].status THEN "STATUS_CHANGED"
        ELSE IF Ids(a) # Ids(b) THEN "STRUCTURE_CHANGED"
        ELSE "NO_CHANGE"

\* detect_change: the rules are those of the type the page has now.
DetectChange(previous, current, type) ==
    IF ExactlyEqual(previous, current) THEN "NO_CHANGE"
    ELSE IF type \in News THEN NewsChange(previous, current)
    ELSE IF type \in Forums THEN ForumChange(previous, current)
    ELSE IF type = "CLASSIFIED_LISTING" THEN ListingChange(previous, current)
    ELSE IF type \in Indexes THEN IndexChange(previous, current)
    ELSE GenericChange(previous, current)
=============================================================================
