----------------------------- MODULE Pagination -----------------------------
(***************************************************************************)
(* Where a listing goes on: detect_pagination.  A natural number names the *)
(* listing's URL with that value of its offset parameter; any other URL    *)
(* has no such parameter.  What a page shows is a record of its rel=next   *)
(* link, its "next" or "older" link, the links whose text is a number, and *)
(* the offsets its links carry.                                            *)
(***************************************************************************)
EXTENDS Integers, FiniteSetsExt

CONSTANTS
    NoPage,     \* no next URL
    MaxOffset   \* _MAX_INFERRED_OFFSET

ASSUME PaginationAssumption == MaxOffset \in Nat /\ NoPage \notin Nat

HasOffset(u) == u \in Nat

\* Distances between neighbours among the observed offsets.
Steps(observed) ==
    {p[2] - p[1] : p \in {q \in observed \X observed :
        q[1] < q[2] /\ ~ \E x \in observed : q[1] < x /\ x < q[2]}}

\* Broken: the farthest page that is linked.
InferStepFarthest(value, observed) ==
    LET greater == {v \in observed : v > value} IN
    IF greater # {} THEN {Max(greater) - value}
    ELSE IF Cardinality(Steps(observed)) = 1 THEN Steps(observed)
    ELSE {value} \ {0}

\* The page size, as a set of at most one: the distance to the next page that
\* is linked, or the step all linked pages share, or the page's own offset.
InferStep(value, observed) ==
    LET greater == {v \in observed : v > value} IN
    IF greater # {} THEN {Min(greater) - value}
    ELSE IF Cardinality(Steps(observed)) = 1 THEN Steps(observed)
    ELSE {value} \ {0}

\* _detect_offset_pagination.  A page without the parameter leads to the
\* second of the offsets it links, if these are evenly spaced.
OffsetPagination(observed, base) ==
    LET ahead == IF HasOffset(base)
                 THEN {base + s : s \in {s \in InferStep(base, observed) : base + s <= MaxOffset}}
                 ELSE {Min(observed) + s : s \in
                         IF Cardinality(Steps(observed)) = 1 THEN Steps(observed) ELSE {}}
    IN IF ahead = {} THEN NoPage ELSE CHOOSE v \in ahead : TRUE

\* _detect_numbered_pagination: of at least three numbered links, the one with
\* the smallest number above 1, whichever page this is.
NumberedPagination(numbers) ==
    LET later == {p \in numbers : p[1] > 1} IN
    IF Cardinality(numbers) < 3 \/ later = {} THEN NoPage
    ELSE (CHOOSE p \in later : \A q \in later : p[1] <= q[1])[2]

\* detect_pagination.  Links are taken as they are, offsets that lead
\* backwards too.
DetectPagination(shown, base) ==
    LET numbered == NumberedPagination(shown.numbers)
        offset   == OffsetPagination(shown.offsets, base)
    IN IF shown.rel # NoPage THEN shown.rel
       ELSE IF shown.text # NoPage THEN shown.text
       ELSE IF offset # NoPage /\ (numbered = NoPage \/ HasOffset(numbered) \/ HasOffset(base))
       THEN offset
       ELSE numbered
=============================================================================
