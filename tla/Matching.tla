-------------------------------- MODULE Matching --------------------------------
(***************************************************************************)
(* The pure decisions of the intelligence services: which entity a name    *)
(* found in a text stands for (entity_resolver), and whether a document    *)
(* belongs to a story (match_scorer).  An entity is known by its           *)
(* normalized name, which with its type is its unique key.  Scores are in  *)
(* hundredths, sums of weighted scores in ten-thousandths.                 *)
(***************************************************************************)
EXTENDS Integers, FiniteSets

CONSTANTS
    Names,      \* normalized names found in texts
    Persons,    \* names of type PERSON
    Locations,  \* names of type LOCATION
    Similar     \* for each name those whose fuzzy match reaches the threshold

ASSUME MatchingAssumption ==
    /\ IsFiniteSet(Names)
    /\ Persons \subseteq Names /\ Locations \subseteq Names /\ Persons \cap Locations = {}
    /\ Similar \in [Names -> SUBSET Names]

Kinds == {"PERSON", "LOCATION", "ORGANIZATION"}
KindOf(n) == IF n \in Persons THEN "PERSON" ELSE IF n \in Locations THEN "LOCATION" ELSE "ORGANIZATION"

-----------------------------------------------------------------------------
(***************************************************************************)
(* Resolution.  known is the relation of names and aliases to the entities *)
(* they stand for, backed the entities that some other name of the         *)
(* document has occurred with before.                                      *)
(***************************************************************************)

Decision(action, e) == [action |-> action, entity |-> e]

\* A person is not merged on a name alone.
DecideNameMatch(n, e, backed, merge) ==
    IF e \notin Persons \/ e \in backed THEN Decision(merge, e) ELSE Decision("NEW_ENTITY", n)

\* The rows come in no order: any matching one may be the first.
ResolveEntity(n, known, backed) ==
    LET typed   == {k \in known : KindOf(k[2]) = KindOf(n)}
        exact   == {k \in typed : k[1] = n}
        similar == {k \in typed : k[1] = k[2] /\ k[1] \in Similar[n]}
    IN  IF exact # {} THEN {DecideNameMatch(n, k[2], backed, "MERGE") : k \in exact}
        ELSE IF similar # {} THEN {DecideNameMatch(n, k[2], backed, "NEW_ALIAS") : k \in similar}
        ELSE {Decision("NEW_ENTITY", n)}

-----------------------------------------------------------------------------
(***************************************************************************)
(* Story matching.  es are the entities of the document, fs of the story.  *)
(***************************************************************************)

Percents == 0 .. 100

HasSpecificEntityOverlap(es, fs) == es \cap fs \cap (Names \ Persons) # {}

EntityOverlap(es, fs) ==
    LET base == (100 * Cardinality(es \cap fs)) \div Cardinality(es \cup fs) IN
    IF es = {} \/ fs = {} THEN 0
    ELSE IF HasSpecificEntityOverlap(es, fs) THEN base
    ELSE (base * 30) \div 100

LocationOverlap(es, fs) == IF es \cap fs \cap Locations # {} THEN 100 ELSE 0

SourceSimilarity(domain, domains) ==
    IF domain \in domains THEN 50 ELSE IF domains # {} THEN 100 ELSE 0

\* Broken: the weights of title and body exchanged with the one of entities.
ScoreLexical(es, fs, text, near, source) ==
    20 * EntityOverlap(es, fs) + 60 * text + 15 * near + 10 * LocationOverlap(es, fs) + 5 * source

\* Title, body and simhash similarity are taken as one similarity of texts;
\* near is the temporal proximity.
Score(es, fs, text, near, source) ==
    30 * EntityOverlap(es, fs) + 40 * text + 15 * near + 10 * LocationOverlap(es, fs) + 5 * source

Attaches(es, fs, text, near, source) ==
    LET total == Score(es, fs, text, near, source) IN
    \/ total >= 6500
    \/ /\ total >= 4500
       /\ EntityOverlap(es, fs) >= 30 /\ HasSpecificEntityOverlap(es, fs)
=============================================================================
