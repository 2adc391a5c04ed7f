SPECIFICATION FairSpec
CONSTANTS
    d1 = d1
    d2 = d2
    police = police
    polise = polise
    ravi = ravi
    one = one
    other = other
    NoOne = NoOne
    Names <- AllNames
    Persons = {ravi}
    Locations = {}
    Similar <- Spellings
    Docs <- AllDocs
    Domain <- Sites
    Extracts <- Reports
    Stories = {s1, s2}
    Pages = {p1, p2}
    Texts = {0, 100}
INVARIANTS
    OneEntityPerName
    AttachedIsListed
    StoriesAreFounded
    CommonGround
PROPERTY PagesEnd
CHECK_DEADLOCK FALSE
