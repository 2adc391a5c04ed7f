---------------------------- MODULE MCStoryLinking ----------------------------
(* StoryLinking with two reports of one event: an organization that is       *)
(* spelt in two ways, and a person.                                          *)
EXTENDS StoryLinking, TLC

CONSTANTS d1, d2, police, polise, ravi, one, other

AllDocs     == {d1, d2}
AllNames    == {police, polise, ravi}
Spellings   == [n \in AllNames |-> IF n = polise THEN {police} ELSE IF n = police THEN {polise} ELSE {}]
Sites       == [d \in AllDocs |-> IF d = d1 THEN one ELSE other]
Reports     == [d \in AllDocs |-> IF d = d1 THEN {<<police, ravi>>, <<ravi, police>>} ELSE {<<polise>>, <<>>}]
=============================================================================
