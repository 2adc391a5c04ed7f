--------------------------- MODULE StoryLinking_proofs ---------------------------
(***************************************************************************)
(* Proofs about StoryLinking, for any number of page tasks, documents,     *)
(* names and stories.                                                      *)
(***************************************************************************)
EXTENDS StoryLinking, FiniteSetTheorems, TLAPS

-----------------------------------------------------------------------------
(***************************************************************************)
(* Types, and what a task has in hand in every phase.                      *)
(***************************************************************************)

PlanOf(p, first) == {<<first, doc[p]>>, <<doc[p]>>, <<>>}

InHand(p) ==
    /\ phase[p] \notin {"locking", "attaching"} => wants[p] = <<>>
    /\ phase[p] \in {"resolving", "locking", "attaching", "rest"} => doc[p] \in Docs
    /\ phase[p] = "locking" =>
         /\ at[p] < Len(names[p]) /\ subject[p].entity \in Names
         /\ wants[p] \in PlanOf(p, subject[p].entity)
    /\ phase[p] = "attaching" => chosen[p] \in Stories /\ wants[p] \in PlanOf(p, chosen[p])

TypeInv == TypeOK /\ \A p \in Pages : InHand(p)

LEMMA NamesOfDecision ==
    ASSUME NEW n \in Names, NEW known \in SUBSET (Names \X Names), NEW backed,
           NEW d \in ResolveEntity(n, known, backed)
    PROVE  /\ d \in Subjects /\ d.entity \in Names
           /\ \/ \E k \in known : d.entity = k[2]
              \/ d.action = "NEW_ENTITY" /\ d.entity = n
<1>1. ASSUME NEW e \in Names, NEW merge \in {"MERGE", "NEW_ALIAS"}
      PROVE  /\ DecideNameMatch(n, e, backed, merge) \in Subjects
             /\ \/ DecideNameMatch(n, e, backed, merge).entity = e
                \/ /\ DecideNameMatch(n, e, backed, merge).action = "NEW_ENTITY"
                   /\ DecideNameMatch(n, e, backed, merge).entity = n
  BY <1>1 DEF DecideNameMatch, Decision, Subjects
<1>2. CASE \E k \in known : d \in {DecideNameMatch(n, k[2], backed, "MERGE"), DecideNameMatch(n, k[2], backed, "NEW_ALIAS")}
  <2>1. PICK k \in known : d \in {DecideNameMatch(n, k[2], backed, "MERGE"), DecideNameMatch(n, k[2], backed, "NEW_ALIAS")}
    BY <1>2
  <2>2. k[2] \in Names
    BY <2>1
  <2> QED BY <1>1, <2>1, <2>2 DEF Subjects
<1>3. CASE d = Decision("NEW_ENTITY", n)
  BY <1>3 DEF Decision, Subjects
<1>4. \/ d = Decision("NEW_ENTITY", n)
      \/ \E k \in known : d \in {DecideNameMatch(n, k[2], backed, "MERGE"), DecideNameMatch(n, k[2], backed, "NEW_ALIAS")}
  BY DEF ResolveEntity
<1> QED BY <1>2, <1>3, <1>4

LEMMA FilledCacheType ==
    ASSUME TypeOK, NEW p \in Pages, Present(p) \in Names
    PROVE  /\ FilledCache(p) \in Caches
           /\ \A k \in FilledCache(p).known : k \in cache[p].known \/ (k[2] \in Names /\ rows[k[2]] > 0)
<1> DEFINE kind  == KindOf(Present(p))
           found == {n \in Names : rows[n] > 0 /\ KindOf(n) = kind}
           fresh == {<<e, e>> : e \in found} \cup {a \in aliases : a[2] \in found}
           more  == UNION {{e} \X ContextNames(e) : e \in found \cap Persons}
           c     == [known |-> cache[p].known \cup fresh, context |-> cache[p].context \cup more,
                     loaded |-> cache[p].loaded \cup {kind}]
<1>1. kind \in Kinds
  BY DEF KindOf, Kinds
<1>2. fresh \subseteq Names \X Names /\ \A k \in fresh : k[2] \in Names /\ rows[k[2]] > 0
  BY DEF TypeOK
<1>3. more \subseteq Names \X Names
  <2>1. \A e : ContextNames(e) \subseteq Names
    BY DEF ContextNames, TypeOK
  <2> QED BY <2>1
<1>4. cache[p] \in Caches
  BY DEF TypeOK
<1>5. FilledCache(p) = IF kind \in cache[p].loaded THEN cache[p] ELSE c
  BY DEF FilledCache
<1> HIDE DEF fresh, more, kind
<1>6. c \in Caches
  BY <1>1, <1>2, <1>3, <1>4 DEF Caches
<1> QED BY <1>2, <1>4, <1>5, <1>6

\* What a task has in hand stays when the task does nothing.
Same(q) ==
    /\ phase'[q] = phase[q] /\ wants'[q] = wants[q] /\ doc'[q] = doc[q]
    /\ names'[q] = names[q] /\ at'[q] = at[q] /\ subject'[q] = subject[q] /\ chosen'[q] = chosen[q]

LEMMA SameInHand ==
    ASSUME NEW q, InHand(q), Same(q)
    PROVE  InHand(q)'
  BY DEF InHand, Same, PlanOf

LEMMA TypeInit == Init => TypeInv
<1> SUFFICES ASSUME Init PROVE TypeInv
  OBVIOUS
<1>1. NoSubject \in Subjects /\ NoCache \in Caches
  BY DEF NoSubject, Subjects, NoCache, Caches
<1>2. << >> \in Seq(Names) /\ << >> \in Seq(Rows)
  OBVIOUS
<1>3. TypeOK
  BY <1>1, <1>2 DEF Init, TypeOK, Phases
<1>4. \A p \in Pages : InHand(p)
  BY DEF Init, InHand
<1> QED BY <1>3, <1>4 DEF TypeInv

LEMMA TypeStep ==
    ASSUME TypeInv, [Next]_vars
    PROVE  TypeInv'
<1>1. CASE UNCHANGED vars
  BY <1>1 DEF vars, dbVars, nameVars, ownVars, linkVars, TypeInv, TypeOK, InHand, PlanOf
<1>2. ASSUME NEW p \in Pages, Begin(p) \/ Lock(p) \/ Fails(p) \/ Work(p)
      PROVE  TypeInv'
  <2>0. TypeOK /\ \A q \in Pages : InHand(q)
    BY DEF TypeInv
  <2>1. ASSUME \A q \in Pages \ {p} : Same(q), InHand(p)', TypeOK' PROVE TypeInv'
    BY <2>0, <2>1, SameInHand DEF TypeInv
  <2>2. ASSUME Release(p) PROVE holder' \in [Rows -> Pages \cup {NoOne}]
    BY <2>0, <2>2 DEF Release, TypeOK
  <2>3. ASSUME ClearNames(p)
        PROVE  /\ names' \in [Pages -> Seq(Names)] /\ at' \in [Pages -> Nat]
               /\ cache' \in [Pages -> Caches] /\ subject' \in [Pages -> Subjects]
               /\ \A q \in Pages \ {p} : names'[q] = names[q] /\ at'[q] = at[q] /\ subject'[q] = subject[q]
    BY <2>0, <2>3 DEF ClearNames, TypeOK, NoCache, NoSubject, Caches, Subjects
  <2>4. ASSUME ClearOwn(p)
        PROVE  /\ created' \in [Pages -> SUBSET Names] /\ also' \in [Pages -> SUBSET (Names \X Names)]
               /\ resolved' \in [Pages -> SUBSET Names]
    BY <2>0, <2>4 DEF ClearOwn, TypeOK
  <2>5. ASSUME ClearLink(p)
        PROVE  /\ chosen' \in [Pages -> Stories \cup {NoOne}] /\ listed' \in [Pages -> SUBSET Docs]
               /\ \A q \in Pages \ {p} : chosen'[q] = chosen[q]
    BY <2>0, <2>5 DEF ClearLink, TypeOK
  <2>6. ASSUME NEW ph \in Phases, Goto(p, ph)
        PROVE  phase' \in [Pages -> Phases] /\ phase'[p] = ph /\ \A q \in Pages \ {p} : phase'[q] = phase[q]
    BY <2>0, <2>6 DEF Goto, TypeOK
  <2>7. ASSUME PublishNames(p), doc[p] \in Docs
        PROVE  /\ rows' \in [Names -> Nat] /\ aliases' \subseteq Names \X Names
               /\ mentions' \in [Docs -> SUBSET Names]
    BY <2>0, <2>7 DEF PublishNames, TypeOK
  <2>8. << >> \in Seq(Rows)
    OBVIOUS
  <2>9. CASE Begin(p)
    <3>0. PICK d \in Docs : \E found \in Extracts[d] : \E monitored \in BOOLEAN :
            /\ holder' = IF monitored THEN holder ELSE [holder EXCEPT ![d] = p]
            /\ doc' = [doc EXCEPT ![p] = d] /\ names' = [names EXCEPT ![p] = found]
      BY <2>9 DEF Begin
    <3>1. PICK found \in Extracts[d], monitored \in BOOLEAN :
            /\ holder' = IF monitored THEN holder ELSE [holder EXCEPT ![d] = p]
            /\ doc' = [doc EXCEPT ![p] = d] /\ names' = [names EXCEPT ![p] = found]
      BY <3>0
    <3>2. found \in Seq(Names)
      BY <3>1, LinkingAssumption
    <3>3. /\ phase[p] = "idle" /\ Goto(p, "resolving") /\ "resolving" \in Phases
          /\ UNCHANGED <<dbVars, at, cache, subject, wants, ownVars, linkVars>>
      BY <2>9 DEF Begin, Phases
    <3>4. TypeOK'
      BY <2>0, <2>6, <3>1, <3>2, <3>3 DEF TypeOK, dbVars, ownVars, linkVars, Rows
    <3>5. InHand(p)'
      BY <2>0, <2>6, <3>1, <3>3 DEF InHand, TypeOK
    <3>6. \A q \in Pages \ {p} : Same(q)
      BY <2>0, <2>6, <3>1, <3>3 DEF Same, TypeOK, linkVars
    <3> QED BY <2>1, <3>4, <3>5, <3>6
  <2>10. CASE Resolve(p)
    <3> DEFINE c == FilledCache(p)
    <3>1. PICK d \in ResolveEntity(Present(p), c.known, Backed(p, c)) : \E plan \in LockPlans(p, d) :
            subject' = [subject EXCEPT ![p] = d] /\ wants' = [wants EXCEPT ![p] = plan]
      BY <2>10 DEF Resolve
    <3>2. PICK plan \in LockPlans(p, d) : subject' = [subject EXCEPT ![p] = d] /\ wants' = [wants EXCEPT ![p] = plan]
      BY <3>1
    <3>3. /\ phase[p] = "resolving" /\ at[p] < Len(names[p]) /\ cache' = [cache EXCEPT ![p] = c]
          /\ Goto(p, "locking") /\ "locking" \in Phases
          /\ UNCHANGED <<dbVars, holder, doc, names, at, ownVars, linkVars>>
      BY <2>10 DEF Resolve, Phases
    <3>4. Present(p) \in Names
      BY <2>0, <3>3 DEF Present, TypeOK
    <3>5. c \in Caches
      BY <2>0, <3>4, FilledCacheType
    <3>6. d \in Subjects /\ d.entity \in Names
      <4>1. c.known \in SUBSET (Names \X Names)
        BY <3>5 DEF Caches
      <4> HIDE DEF c
      <4> QED BY <3>1, <3>4, <4>1, NamesOfDecision
    <3> HIDE DEF c
    <3>7. doc[p] \in Docs
      BY <2>0, <3>3 DEF InHand
    <3>8. plan \in PlanOf(p, d.entity) /\ plan \in Seq(Rows)
      <4>1. plan \in {<<d.entity, doc[p]>>, <<doc[p]>>}
        BY <3>2 DEF LockPlans
      <4>2. d.entity \in Rows /\ doc[p] \in Rows
        BY <3>6, <3>7 DEF Rows
      <4>3. <<d.entity, doc[p]>> \in Seq(Rows) /\ <<doc[p]>> \in Seq(Rows)
        BY <4>2
      <4> QED BY <4>1, <4>3 DEF PlanOf
    <3>9. TypeOK'
      <4>1. subject' \in [Pages -> Subjects] /\ wants' \in [Pages -> Seq(Rows)] /\ cache' \in [Pages -> Caches]
        BY <2>0, <3>2, <3>3, <3>5, <3>6, <3>8 DEF TypeOK
      <4> QED BY <2>0, <2>6, <3>3, <4>1 DEF TypeOK, dbVars, ownVars, linkVars
    <3>10. InHand(p)'
      <4>1. subject'[p] = d /\ wants'[p] = plan /\ phase'[p] = "locking"
        BY <2>0, <2>6, <3>2, <3>3 DEF TypeOK
      <4>2. doc'[p] = doc[p] /\ names'[p] = names[p] /\ at'[p] = at[p]
        BY <3>3
      <4> QED BY <3>3, <3>6, <3>7, <3>8, <4>1, <4>2 DEF InHand, PlanOf
    <3>11. \A q \in Pages \ {p} : Same(q)
      BY <2>0, <2>6, <3>2, <3>3 DEF Same, TypeOK, linkVars
    <3> QED BY <2>1, <3>9, <3>10, <3>11
  <2>11. CASE Lock(p)
    <3> DEFINE r == Head(wants[p])
    <3>1. /\ wants[p] # <<>> /\ wants' = [wants EXCEPT ![p] = Tail(@)] /\ holder' = [holder EXCEPT ![r] = p]
          /\ created' = IF Inserts(p, r) THEN [created EXCEPT ![p] = @ \cup {r}] ELSE created
          /\ cache' = IF Inserts(p, r) THEN [cache EXCEPT ![p].known = @ \cup {<<r, r>>}] ELSE cache
          /\ listed' = IF r \in Stories THEN [listed EXCEPT ![p] = story[r].docs] ELSE listed
          /\ UNCHANGED <<dbVars, phase, doc, names, at, subject, also, resolved, chosen>>
      BY <2>11 DEF Lock
    <3>2. phase[p] \in {"locking", "attaching"}
      BY <2>0, <3>1 DEF InHand
    <3>3. ASSUME NEW first, wants[p] \in PlanOf(p, first)
          PROVE  Tail(wants[p]) \in {<<doc[p]>>, <<>>}
      <4>1. Tail(<<first, doc[p]>>) = <<doc[p]>> /\ Tail(<<doc[p]>>) = <<>>
        OBVIOUS
      <4> QED BY <3>1, <3>3, <4>1 DEF PlanOf
    <3>4. wants[p] \in Seq(Rows) /\ r \in Rows /\ Tail(wants[p]) \in Seq(Rows)
      BY <2>0, <3>1 DEF TypeOK
    <3> HIDE DEF r
    <3>5. TypeOK'
      <4>1. cache' \in [Pages -> Caches]
        <5>1. CASE Inserts(p, r)
          <6>1. r \in Names
            BY <5>1 DEF Inserts
          <6>2. cache[p] \in Caches
            BY <2>0 DEF TypeOK
          <6>3. [cache[p] EXCEPT !.known = @ \cup {<<r, r>>}] \in Caches
            BY <6>1, <6>2 DEF Caches
          <6>4. cache' = [cache EXCEPT ![p] = [cache[p] EXCEPT !.known = @ \cup {<<r, r>>}]]
            BY <2>0, <3>1, <5>1 DEF TypeOK
          <6> QED BY <2>0, <6>3, <6>4 DEF TypeOK
        <5> QED BY <2>0, <3>1, <5>1 DEF TypeOK
      <4>2. created' \in [Pages -> SUBSET Names]
        BY <2>0, <3>1 DEF TypeOK, Inserts
      <4>3. listed' \in [Pages -> SUBSET Docs]
        BY <2>0, <3>1 DEF TypeOK
      <4>4. holder' \in [Rows -> Pages \cup {NoOne}] /\ wants' \in [Pages -> Seq(Rows)]
        BY <2>0, <3>1, <3>4 DEF TypeOK
      <4> QED BY <2>0, <3>1, <4>1, <4>2, <4>3, <4>4 DEF TypeOK, dbVars
    <3>6. InHand(p)'
      <4>1. wants'[p] = Tail(wants[p])
        BY <2>0, <3>1 DEF TypeOK
      <4>2. InHand(p)
        BY <2>0
      <4>3. wants'[p] \in {<<doc[p]>>, <<>>}
        BY <3>2, <3>3, <4>1, <4>2 DEF InHand
      <4>4. wants'[p] \in PlanOf(p, subject[p].entity)' /\ wants'[p] \in PlanOf(p, chosen[p])'
        BY <3>1, <4>3 DEF PlanOf
      <4> QED BY <3>1, <3>2, <4>2, <4>4 DEF InHand
    <3>7. \A q \in Pages \ {p} : Same(q)
      BY <2>0, <3>1 DEF Same, TypeOK
    <3> QED BY <2>1, <3>5, <3>6, <3>7
  <2>12. CASE Record(p)
    <3>1. /\ phase[p] = "locking" /\ wants[p] = <<>> /\ Goto(p, "resolving") /\ "resolving" \in Phases
          /\ resolved' = [resolved EXCEPT ![p] = @ \cup {subject[p].entity}]
          /\ also' = [also EXCEPT ![p] =
               IF subject[p].action = "NEW_ALIAS" THEN @ \cup {<<Present(p), subject[p].entity>>} ELSE @]
          /\ at' = [at EXCEPT ![p] = @ + 1] /\ subject' = [subject EXCEPT ![p] = NoSubject]
          /\ UNCHANGED <<dbVars, holder, doc, names, cache, wants, created, linkVars>>
      BY <2>12 DEF Record, Phases
    <3>2. subject[p].entity \in Names /\ at[p] < Len(names[p]) /\ doc[p] \in Docs
      BY <2>0, <3>1 DEF InHand
    <3>3. Present(p) \in Names
      BY <2>0, <3>2 DEF Present, TypeOK
    <3>4. NoSubject \in Subjects
      BY DEF NoSubject, Subjects
    <3>5. TypeOK'
      <4>1. resolved' \in [Pages -> SUBSET Names] /\ also' \in [Pages -> SUBSET (Names \X Names)]
        BY <2>0, <3>1, <3>2, <3>3 DEF TypeOK
      <4>2. at' \in [Pages -> Nat] /\ subject' \in [Pages -> Subjects]
        BY <2>0, <3>1, <3>4 DEF TypeOK
      <4> QED BY <2>0, <2>6, <3>1, <4>1, <4>2 DEF TypeOK, dbVars, linkVars
    <3>6. InHand(p)'
      BY <2>0, <2>6, <3>1, <3>2 DEF InHand
    <3>7. \A q \in Pages \ {p} : Same(q)
      BY <2>0, <2>6, <3>1 DEF Same, TypeOK, linkVars
    <3> QED BY <2>1, <3>5, <3>6, <3>7
  <2>13. CASE ChooseStory(p)
    <3>1. PICK s \in Stories : chosen' = [chosen EXCEPT ![p] = s] /\ wants' = [wants EXCEPT ![p] = <<s, doc[p]>>]
      BY <2>13 DEF ChooseStory
    <3>2. /\ phase[p] = "resolving" /\ ClearNames(p) /\ Goto(p, "attaching") /\ "attaching" \in Phases
          /\ UNCHANGED <<dbVars, holder, doc, ownVars, listed>>
      BY <2>13 DEF ChooseStory, Phases
    <3>3. doc[p] \in Docs
      BY <2>0, <3>2 DEF InHand
    <3>4. <<s, doc[p]>> \in Seq(Rows)
      BY <3>3 DEF Rows
    <3>5. TypeOK'
      BY <2>0, <2>3, <2>6, <3>1, <3>2, <3>4 DEF TypeOK, dbVars, ownVars
    <3>6. InHand(p)'
      <4>1. chosen'[p] = s /\ wants'[p] = <<s, doc[p]>> /\ doc'[p] = doc[p] /\ phase'[p] = "attaching"
        BY <2>0, <2>6, <3>1, <3>2 DEF TypeOK
      <4> QED BY <3>3, <4>1 DEF InHand, PlanOf
    <3>7. \A q \in Pages \ {p} : Same(q)
      BY <2>0, <2>3, <2>6, <3>1, <3>2 DEF Same, TypeOK
    <3> QED BY <2>1, <3>5, <3>6, <3>7
  <2>14. CASE NothingToLink(p) \/ Fails(p)
    <3>1. /\ phase[p] = "resolving" /\ ClearNames(p) /\ Goto(p, "rest") /\ "rest" \in Phases
          /\ UNCHANGED <<dbVars, holder, doc, wants, ownVars, linkVars>>
      BY <2>14 DEF NothingToLink, Fails, Phases
    <3>2. TypeOK'
      BY <2>0, <2>3, <2>6, <3>1 DEF TypeOK, dbVars, ownVars, linkVars
    <3>3. InHand(p)'
      BY <2>0, <2>6, <3>1 DEF InHand
    <3>4. \A q \in Pages \ {p} : Same(q)
      BY <2>3, <2>6, <3>1 DEF Same, linkVars
    <3> QED BY <2>1, <3>2, <3>3, <3>4
  <2>15. CASE Attach(p)
    <3>1. /\ phase[p] = "attaching" /\ wants[p] = <<>> /\ PublishNames(p) /\ ClearOwn(p) /\ ClearLink(p) /\ Release(p)
          /\ Goto(p, "rest") /\ "rest" \in Phases /\ UNCHANGED <<doc, nameVars, wants>>
          /\ story' = [story EXCEPT ![chosen[p]] =
               [docs |-> listed[p] \cup {doc[p]}, names |-> @.names \cup resolved[p]]]
          /\ attached' = [attached EXCEPT ![doc[p]] = chosen[p]]
      BY <2>15 DEF Attach, Phases
    <3>2. doc[p] \in Docs /\ chosen[p] \in Stories
      BY <2>0, <3>1 DEF InHand
    <3>3. story' \in [Stories -> [docs : SUBSET Docs, names : SUBSET Names]]
      BY <2>0, <3>1, <3>2 DEF TypeOK
    <3>4. attached' \in [Docs -> Stories \cup {NoOne}]
      BY <2>0, <3>1, <3>2 DEF TypeOK
    <3>5. TypeOK'
      BY <2>0, <2>2, <2>4, <2>5, <2>6, <2>7, <3>1, <3>2, <3>3, <3>4 DEF TypeOK, nameVars
    <3>6. InHand(p)'
      BY <2>0, <2>6, <3>1, <3>2 DEF InHand
    <3>7. \A q \in Pages \ {p} : Same(q)
      BY <2>5, <2>6, <3>1 DEF Same, nameVars
    <3> QED BY <2>1, <3>5, <3>6, <3>7
  <2>16. CASE Rest(p)
    <3>1. /\ phase[p] = "rest" /\ PublishNames(p) /\ ClearOwn(p) /\ doc' = [doc EXCEPT ![p] = NoOne] /\ Release(p)
          /\ Goto(p, "idle") /\ "idle" \in Phases /\ UNCHANGED <<attached, story, nameVars, wants, linkVars>>
      BY <2>16 DEF Rest, Phases
    <3>2. doc[p] \in Docs /\ wants[p] = <<>>
      BY <2>0, <3>1 DEF InHand
    <3>3. TypeOK'
      BY <2>0, <2>2, <2>4, <2>6, <2>7, <3>1, <3>2 DEF TypeOK, nameVars, linkVars
    <3>4. InHand(p)'
      BY <2>0, <2>6, <3>1, <3>2 DEF InHand
    <3>5. \A q \in Pages \ {p} : Same(q)
      BY <2>0, <2>6, <3>1 DEF Same, TypeOK, nameVars, linkVars
    <3> QED BY <2>1, <3>3, <3>4, <3>5
  <2>17. CASE Victim(p)
    <3>1. /\ ClearNames(p) /\ ClearOwn(p) /\ ClearLink(p) /\ wants' = [wants EXCEPT ![p] = <<>>] /\ Release(p)
          /\ Goto(p, "aborted") /\ "aborted" \in Phases /\ UNCHANGED <<dbVars, doc>>
      BY <2>17 DEF Victim, Phases
    <3>2. TypeOK'
      BY <2>0, <2>2, <2>3, <2>4, <2>5, <2>6, <2>8, <3>1 DEF TypeOK, dbVars
    <3>3. InHand(p)'
      BY <2>0, <2>6, <3>1 DEF InHand, TypeOK
    <3>4. \A q \in Pages \ {p} : Same(q)
      BY <2>0, <2>3, <2>5, <2>6, <3>1 DEF Same, TypeOK
    <3> QED BY <2>1, <3>2, <3>3, <3>4
  <2>18. CASE NextStatement(p)
    <3>1. /\ phase[p] = "aborted" /\ Goto(p, "raised") /\ "raised" \in Phases
          /\ UNCHANGED <<dbVars, holder, doc, nameVars, wants, ownVars, linkVars>>
      BY <2>18 DEF NextStatement, Phases
    <3>2. TypeOK'
      BY <2>0, <2>6, <3>1 DEF TypeOK, dbVars, nameVars, ownVars, linkVars
    <3>3. InHand(p)' /\ \A q \in Pages \ {p} : Same(q)
      BY <2>0, <2>6, <3>1 DEF InHand, Same, nameVars, linkVars
    <3> QED BY <2>1, <3>2, <3>3
  <2>19. CASE Raise(p)
    <3>1. /\ phase[p] = "raised" /\ doc' = [doc EXCEPT ![p] = NoOne] /\ Goto(p, "idle") /\ "idle" \in Phases
          /\ UNCHANGED <<dbVars, holder, nameVars, wants, ownVars, linkVars>>
      BY <2>19 DEF Raise, Phases
    <3>2. TypeOK'
      BY <2>0, <2>6, <3>1 DEF TypeOK, dbVars, nameVars, ownVars, linkVars
    <3>3. InHand(p)'
      BY <2>0, <2>6, <3>1 DEF InHand
    <3>4. \A q \in Pages \ {p} : Same(q)
      BY <2>0, <2>6, <3>1 DEF Same, TypeOK, nameVars, linkVars
    <3> QED BY <2>1, <3>2, <3>3, <3>4
  <2> QED BY <1>2, <2>9, <2>10, <2>11, <2>12, <2>13, <2>14, <2>15, <2>16, <2>17, <2>18, <2>19 DEF Work
<1> QED BY <1>1, <1>2 DEF Next

LEMMA TypeHolds == Spec => []TypeInv
  BY TypeInit, TypeStep, PTL DEF Spec

\* TypeOK (crawl_engine.py:1052): whatever the texts say and whichever task
\* the database rolls back, the state of the tasks and of the database has
\* its type.
THEOREM TypesHold == Spec => []TypeOK
<1>1. TypeInv => TypeOK
  BY DEF TypeInv
<1> QED BY <1>1, TypeHolds, PTL

-----------------------------------------------------------------------------
(***************************************************************************)
(* One entity per name.  A row that is inserted stays locked until it is   *)
(* committed, so that nobody else inserts it, and what a task knows by the *)
(* name of an entity is committed or its own.                              *)
(***************************************************************************)

Known(p, n) == rows[n] = 1 \/ n \in created[p]

Named(p) ==
    /\ \A n \in created[p] : holder[n] = p /\ rows[n] = 0
    /\ \A n \in resolved[p] : Known(p, n)
    /\ \A k \in cache[p].known : Known(p, k[2])
    /\ phase[p] = "locking" =>
         \/ Known(p, subject[p].entity)
         \/ subject[p].action = "NEW_ENTITY" /\ wants[p] = <<subject[p].entity, doc[p]>>

Committed ==
    /\ \A n \in Names : rows[n] \in {0, 1}
    /\ \A d \in Docs : \A n \in mentions[d] : rows[n] = 1

NameInv == Committed /\ \A p \in Pages : Named(p)

\* What a task that does nothing knows stays true: no committed row goes, its
\* own rows are locked.
NotTouched(q) ==
    /\ phase'[q] = phase[q] /\ wants'[q] = wants[q] /\ doc'[q] = doc[q] /\ subject'[q] = subject[q]
    /\ created'[q] = created[q] /\ resolved'[q] = resolved[q] /\ cache'[q] = cache[q]

LEMMA NotTouchedNamed ==
    ASSUME TypeOK, NEW q \in Pages, Named(q), NotTouched(q),
           \A n \in Names : rows[n] = 1 => rows'[n] = 1,
           \A n \in created[q] : holder'[n] = q /\ rows'[n] = 0,
           phase[q] = "locking" => subject[q].entity \in Names
    PROVE  Named(q)'
<1>1. created[q] \subseteq Names /\ resolved[q] \subseteq Names /\ \A k \in cache[q].known : k[2] \in Names
  BY DEF TypeOK, Caches
<1>2. \A n \in Names : Known(q, n) => Known(q, n)'
  BY DEF Known, NotTouched
<1> QED BY <1>1, <1>2 DEF Named, NotTouched

LEMMA NameInit == Init => NameInv
  BY DEF Init, NameInv, Committed, Named, NoCache

LEMMA NameStep ==
    ASSUME TypeInv, NameInv, [Next]_vars
    PROVE  NameInv'
<1>0. TypeOK /\ \A q \in Pages : InHand(q) /\ Named(q)
  BY DEF TypeInv, NameInv
<1>1. CASE UNCHANGED vars
  BY <1>1 DEF vars, dbVars, nameVars, ownVars, linkVars, NameInv, Committed, Named, Known
<1>2. ASSUME NEW p \in Pages, Begin(p) \/ Lock(p) \/ Fails(p) \/ Work(p)
      PROVE  NameInv'
  <2>1. ASSUME NEW q \in Pages \ {p}, NotTouched(q), \A n \in Names : rows[n] = 1 => rows'[n] = 1,
               \A n \in created[q] : holder'[n] = q /\ rows'[n] = 0
        PROVE  Named(q)'
    BY <1>0, <2>1, NotTouchedNamed DEF InHand
  <2>2. ASSUME UNCHANGED <<rows, mentions>> PROVE Committed'
    BY <2>2 DEF NameInv, Committed
  <2>3. ASSUME PublishNames(p), doc[p] \in Docs
        PROVE  /\ Committed' /\ \A n \in Names : Known(p, n) => rows'[n] = 1
               /\ \A n \in Names : rows[n] = 1 => rows'[n] = 1
               /\ \A q \in Pages \ {p} : \A n \in created[q] : rows'[n] = 0
    <3>1. \A n \in Names : rows'[n] = IF n \in created[p] THEN rows[n] + 1 ELSE rows[n]
      BY <2>3 DEF PublishNames
    <3>2. \A n \in created[p] : holder[n] = p /\ rows[n] = 0
      BY <1>0 DEF Named
    <3>3. \A n \in Names : rows[n] \in {0, 1} /\ rows'[n] \in {0, 1} /\ (Known(p, n) => rows'[n] = 1) /\ (rows[n] = 1 => rows'[n] = 1)
      BY <3>1, <3>2 DEF NameInv, Committed, Known
    <3>4. \A n \in resolved[p] : n \in Names /\ Known(p, n)
      BY <1>0 DEF Named, TypeOK
    <3>5. \A d \in Docs : \A n \in mentions'[d] : n \in Names /\ (n \in mentions[d] \/ n \in resolved[p])
      <4>1. mentions' = [mentions EXCEPT ![doc[p]] = @ \cup resolved[p]]
        BY <2>3 DEF PublishNames
      <4>2. mentions \in [Docs -> SUBSET Names] /\ resolved[p] \subseteq Names
        BY <1>0 DEF TypeOK
      <4> QED BY <2>3, <4>1, <4>2
    <3>6. \A d \in Docs : \A n \in mentions[d] : rows[n] = 1
      BY DEF NameInv, Committed
    <3>7. Committed'
      BY <3>3, <3>4, <3>5, <3>6 DEF Committed
    <3>8. \A q \in Pages \ {p} : \A n \in created[q] : n \in Names /\ n \notin created[p] /\ rows[n] = 0
      <4>1. \A q \in Pages : \A n \in created[q] : holder[n] = q /\ rows[n] = 0
        BY <1>0 DEF Named
      <4>2. \A q \in Pages : created[q] \subseteq Names
        BY <1>0 DEF TypeOK
      <4> QED BY <3>2, <4>1, <4>2
    <3>9. \A q \in Pages \ {p} : \A n \in created[q] : rows'[n] = 0
      BY <3>1, <3>8
    <3> QED BY <3>3, <3>7, <3>9
  <2>4. ASSUME Release(p)
        PROVE  \A q \in Pages \ {p} : \A n \in created[q] : holder'[n] = q
    BY <1>0, <2>4 DEF Release, Named, TypeOK, Rows
  <2>5. \A q \in Pages : \A n \in created[q] : n \in Names /\ holder[n] = q /\ rows[n] = 0
    BY <1>0 DEF Named, TypeOK
  <2>6. ASSUME ClearNames(p)
        PROVE  cache'[p].known = {} /\ \A q \in Pages \ {p} : cache'[q] = cache[q] /\ subject'[q] = subject[q]
    BY <1>0, <2>6 DEF ClearNames, TypeOK, NoCache
  <2>7. ASSUME ClearOwn(p)
        PROVE  /\ created'[p] = {} /\ resolved'[p] = {}
               /\ \A q \in Pages \ {p} : created'[q] = created[q] /\ resolved'[q] = resolved[q]
    BY <1>0, <2>7 DEF ClearOwn, TypeOK
  <2>8. ASSUME NEW ph, Goto(p, ph)
        PROVE  phase'[p] = ph /\ \A q \in Pages \ {p} : phase'[q] = phase[q]
    BY <1>0, <2>8 DEF Goto, TypeOK
  <2>9. CASE Begin(p)
    <3>1. PICK d \in Docs : /\ holder[d] = NoOne /\ doc' = [doc EXCEPT ![p] = d]
                            /\ holder' \in {holder, [holder EXCEPT ![d] = p]}
      BY <2>9 DEF Begin
    <3>2. Goto(p, "resolving") /\ UNCHANGED <<dbVars, at, cache, subject, wants, ownVars, linkVars>>
      BY <2>9 DEF Begin
    <3>3. \A q \in Pages : \A n \in created[q] : holder'[n] = q /\ rows'[n] = 0
      BY <1>0, <2>5, <3>1, <3>2, LinkingAssumption DEF TypeOK, Rows, dbVars
    <3>4. \A q \in Pages \ {p} : NotTouched(q)
      BY <1>0, <2>8, <3>1, <3>2 DEF NotTouched, TypeOK, ownVars
    <3>5. Named(p)'
      BY <1>0, <2>8, <3>2, <3>3 DEF Named, Known, dbVars, ownVars
    <3> QED BY <2>1, <2>2, <3>2, <3>3, <3>4, <3>5 DEF NameInv, dbVars
  <2>10. CASE Resolve(p)
    <3> DEFINE c == FilledCache(p)
    <3>1. PICK d \in ResolveEntity(Present(p), c.known, Backed(p, c)) : \E plan \in LockPlans(p, d) :
            subject' = [subject EXCEPT ![p] = d] /\ wants' = [wants EXCEPT ![p] = plan]
      BY <2>10 DEF Resolve
    <3>2. PICK plan \in LockPlans(p, d) : subject' = [subject EXCEPT ![p] = d] /\ wants' = [wants EXCEPT ![p] = plan]
      BY <3>1
    <3>3. /\ phase[p] = "resolving" /\ at[p] < Len(names[p]) /\ cache' = [cache EXCEPT ![p] = c]
          /\ Goto(p, "locking") /\ UNCHANGED <<dbVars, holder, doc, names, at, ownVars, linkVars>>
      BY <2>10 DEF Resolve
    <3>4. Present(p) \in Names
      BY <1>0, <3>3 DEF Present, TypeOK
    <3>5. c \in Caches /\ \A k \in c.known : k \in cache[p].known \/ (k[2] \in Names /\ rows[k[2]] > 0)
      BY <1>0, <3>4, FilledCacheType
    <3>6. c.known \in SUBSET (Names \X Names)
      BY <3>5 DEF Caches
    <3> HIDE DEF c
    <3>7. \A k \in c.known : Known(p, k[2])
      <4>1. \A k \in cache[p].known : Known(p, k[2])
        BY <1>0 DEF Named
      <4>2. \A n \in Names : rows[n] > 0 => rows[n] = 1
        BY DEF NameInv, Committed
      <4> QED BY <3>5, <4>1, <4>2 DEF Known
    <3>8. \/ Known(p, d.entity)
          \/ d.action = "NEW_ENTITY" /\ d.entity = Present(p)
      <4>1. \/ \E k \in c.known : d.entity = k[2]
            \/ d.action = "NEW_ENTITY" /\ d.entity = Present(p)
        BY <3>1, <3>4, <3>6, NamesOfDecision
      <4> QED BY <3>7, <4>1
    <3>9. ~(d.action = "MERGE" /\ d.action = "NEW_ENTITY")
      OBVIOUS
    <3>10. plan = <<d.entity, doc[p]>> \/ d.action = "MERGE"
      BY <3>2 DEF LockPlans
    <3>11. subject'[p] = d /\ wants'[p] = plan /\ cache'[p] = c /\ doc'[p] = doc[p]
      BY <1>0, <3>2, <3>3 DEF TypeOK
    <3>12. \A n : Known(p, n)' <=> Known(p, n)
      BY <3>3 DEF Known, dbVars, ownVars
    <3>13. Named(p)'
      <4>1. \A n \in created'[p] : holder'[n] = p /\ rows'[n] = 0
        BY <2>5, <3>3 DEF dbVars, ownVars
      <4>2. \A n \in resolved'[p] : Known(p, n)'
        BY <1>0, <3>3, <3>12 DEF Named, ownVars
      <4>3. \A k \in cache'[p].known : Known(p, k[2])'
        BY <3>7, <3>11, <3>12
      <4>4. \/ Known(p, d.entity)'
            \/ d.action = "NEW_ENTITY" /\ plan = <<d.entity, doc[p]>>
        BY <3>8, <3>9, <3>10, <3>12
      <4>5. \/ Known(p, subject[p].entity)'
            \/ subject'[p].action = "NEW_ENTITY" /\ wants'[p] = <<subject'[p].entity, doc'[p]>>
        BY <3>11, <4>4 DEF Known
      <4> QED BY <4>1, <4>2, <4>3, <4>5 DEF Named
    <3>14. \A q \in Pages \ {p} : NotTouched(q)
      BY <1>0, <2>8, <3>2, <3>3 DEF NotTouched, TypeOK, ownVars
    <3> QED BY <2>1, <2>2, <2>5, <3>3, <3>13, <3>14 DEF NameInv, dbVars
  <2>11. CASE Lock(p)
    <3> DEFINE r == Head(wants[p])
    <3>1. /\ wants[p] # <<>> /\ holder[r] \in {NoOne, p}
          /\ wants' = [wants EXCEPT ![p] = Tail(@)] /\ holder' = [holder EXCEPT ![r] = p]
          /\ created' = IF Inserts(p, r) THEN [created EXCEPT ![p] = @ \cup {r}] ELSE created
          /\ cache' = IF Inserts(p, r) THEN [cache EXCEPT ![p].known = @ \cup {<<r, r>>}] ELSE cache
          /\ UNCHANGED <<dbVars, phase, doc, names, at, subject, also, resolved, chosen>>
      BY <2>11 DEF Lock
    <3>2. r \in Rows
      BY <1>0, <3>1 DEF TypeOK
    <3> DEFINE new == Inserts(p, r)
               e   == subject[p].entity
    <3>3. new => r \in Names /\ rows[r] = 0 /\ subject[p].action = "NEW_ENTITY"
      BY DEF Inserts
    <3>4. r \in Names /\ subject[p].action = "NEW_ENTITY" /\ r \notin created[p] /\ ~new => rows[r] = 1
      BY DEF Inserts, NameInv, Committed
    <3>5. phase[p] = "locking" /\ wants[p] = <<e, doc[p]>> => r = e /\ e \in Names
      BY <1>0 DEF InHand
    <3>6. phase[p] = "locking" => wants[p] \in {<<e, doc[p]>>, <<doc[p]>>}
      BY <1>0, <3>1 DEF InHand, PlanOf
    <3>7. <<doc[p]>> # <<e, doc[p]>>
      OBVIOUS
    <3> HIDE DEF r, new
    <3>8. /\ created'[p] = IF new THEN created[p] \cup {r} ELSE created[p]
          /\ \A k \in cache'[p].known : k \in cache[p].known \/ (new /\ k = <<r, r>>)
          /\ holder'[r] = p
      <4>1. created'[p] = IF new THEN created[p] \cup {r} ELSE created[p]
        BY <1>0, <3>1 DEF TypeOK, new
      <4>2. cache'[p].known = IF new THEN cache[p].known \cup {<<r, r>>} ELSE cache[p].known
        BY <1>0, <3>1 DEF TypeOK, Caches, new
      <4> QED BY <1>0, <3>1, <3>2, <4>1, <4>2 DEF TypeOK
    <3>9. \A q \in Pages \ {p} : \A n \in created[q] : holder'[n] = q
      BY <1>0, <2>5, <3>1, LinkingAssumption DEF TypeOK, Rows
    <3>10. \A n \in created[p] : holder'[n] = p
      BY <1>0, <2>5, <3>1 DEF TypeOK, Rows
    <3>11. \A n : Known(p, n) => Known(p, n)'
      BY <3>1, <3>8 DEF Known, dbVars
    <3>12. \A n : Known(p, n)' <=> rows'[n] = 1 \/ n \in created'[p]
      BY DEF Known
    <3>13. phase[p] = "locking" => rows'[e] = 1 \/ e \in created'[p]
      <4>1. CASE wants[p] = <<e, doc[p]>> /\ subject[p].action = "NEW_ENTITY" /\ phase[p] = "locking"
        <5>1. r = e /\ e \in Names
          BY <3>5, <4>1
        <5>2. CASE new
          BY <3>8, <5>1, <5>2
        <5>3. CASE ~new
          <6>1. e \in created[p] \/ rows[e] = 1
            BY <3>4, <4>1, <5>1, <5>3
          <6> QED BY <3>1, <3>8, <6>1 DEF dbVars
        <5> QED BY <5>2, <5>3
      <4>2. CASE phase[p] = "locking" /\ ~(wants[p] = <<e, doc[p]>> /\ subject[p].action = "NEW_ENTITY")
        <5>1. Known(p, e)
          BY <1>0, <4>2 DEF Named
        <5> HIDE DEF e
        <5> QED BY <3>11, <3>12, <5>1
      <4> QED BY <4>1, <4>2
    <3>14. Named(p)'
      <4>1. \A n \in created'[p] : holder'[n] = p /\ rows'[n] = 0
        BY <2>5, <3>1, <3>3, <3>8, <3>10 DEF dbVars
      <4>2. \A n \in resolved'[p] : Known(p, n)'
        BY <1>0, <3>1, <3>11 DEF Named
      <4>3. \A k \in cache'[p].known : Known(p, k[2])'
        <5>1. TAKE k \in cache'[p].known
        <5>2. CASE k \in cache[p].known
          <6>1. Known(p, k[2])
            BY <1>0, <5>2 DEF Named
          <6> QED BY <3>11, <6>1
        <5>3. CASE new /\ k = <<r, r>>
          <6>1. k[2] \in created'[p]
            BY <3>8, <5>3
          <6> QED BY <3>12, <6>1
        <5> QED BY <3>8, <5>2, <5>3
      <4>4. phase'[p] = "locking" => rows'[e] = 1 \/ e \in created'[p]
        BY <3>1, <3>13
      <4>5. e = subject'[p].entity
        BY <3>1
      <4>6. phase'[p] = "locking" => Known(p, subject[p].entity)'
        BY <4>4, <4>5 DEF Known
      <4> QED BY <4>1, <4>2, <4>3, <4>6 DEF Named
    <3>15. \A q \in Pages \ {p} : NotTouched(q)
      BY <1>0, <3>1 DEF NotTouched, TypeOK
    <3> QED BY <2>1, <2>2, <2>5, <3>1, <3>9, <3>14, <3>15 DEF NameInv, dbVars
  <2>12. CASE Record(p)
    <3>1. /\ phase[p] = "locking" /\ wants[p] = <<>> /\ Goto(p, "resolving")
          /\ resolved' = [resolved EXCEPT ![p] = @ \cup {subject[p].entity}]
          /\ subject' = [subject EXCEPT ![p] = NoSubject]
          /\ UNCHANGED <<dbVars, holder, doc, cache, wants, created>>
      BY <2>12 DEF Record
    <3>2. <<>> # <<subject[p].entity, doc[p]>>
      OBVIOUS
    <3>3. Known(p, subject[p].entity)
      BY <1>0, <3>1, <3>2 DEF Named
    <3>4. \A n : Known(p, n)' <=> Known(p, n)
      BY <3>1 DEF Known, dbVars
    <3>5. Named(p)'
      <4>1. \A n \in resolved'[p] : n = subject[p].entity \/ n \in resolved[p]
        BY <1>0, <3>1 DEF TypeOK
      <4>2. phase'[p] = "resolving"
        BY <2>8, <3>1
      <4> QED BY <1>0, <3>1, <3>3, <3>4, <4>1, <4>2 DEF Named, dbVars
    <3>6. \A q \in Pages \ {p} : NotTouched(q)
      BY <1>0, <2>8, <3>1 DEF NotTouched, TypeOK
    <3> QED BY <2>1, <2>2, <2>5, <3>1, <3>5, <3>6 DEF NameInv, dbVars
  <2>13. CASE ChooseStory(p)
    <3>1. PICK s \in Stories : wants' = [wants EXCEPT ![p] = <<s, doc[p]>>]
      BY <2>13 DEF ChooseStory
    <3>2. /\ ClearNames(p) /\ Goto(p, "attaching") /\ UNCHANGED <<dbVars, holder, doc, ownVars, listed>>
      BY <2>13 DEF ChooseStory
    <3>3. Named(p)'
      BY <1>0, <2>6, <2>8, <3>2 DEF Named, Known, dbVars, ownVars
    <3>4. \A q \in Pages \ {p} : NotTouched(q)
      BY <1>0, <2>6, <2>8, <3>1, <3>2 DEF NotTouched, TypeOK, ownVars
    <3> QED BY <2>1, <2>2, <2>5, <3>2, <3>3, <3>4 DEF NameInv, dbVars
  <2>14. CASE NothingToLink(p) \/ Fails(p)
    <3>1. ClearNames(p) /\ Goto(p, "rest") /\ UNCHANGED <<dbVars, holder, doc, wants, ownVars, linkVars>>
      BY <2>14 DEF NothingToLink, Fails
    <3>2. Named(p)'
      BY <1>0, <2>6, <2>8, <3>1 DEF Named, Known, dbVars, ownVars
    <3>3. \A q \in Pages \ {p} : NotTouched(q)
      BY <2>6, <2>8, <3>1 DEF NotTouched, ownVars
    <3> QED BY <2>1, <2>2, <2>5, <3>1, <3>2, <3>3 DEF NameInv, dbVars
  <2>15. CASE Attach(p) \/ Rest(p)
    <3>1. /\ phase[p] \in {"attaching", "rest"} /\ wants'= wants /\ cache' = cache /\ subject' = subject
          /\ PublishNames(p) /\ ClearOwn(p) /\ Release(p) /\ \A q \in Pages \ {p} : doc'[q] = doc[q]
      BY <1>0, <2>15 DEF Attach, Rest, nameVars, TypeOK
    <3>2. PICK ph \in {"rest", "idle"} : Goto(p, ph)
      BY <2>15 DEF Attach, Rest
    <3>3. doc[p] \in Docs
      BY <1>0, <3>1 DEF InHand
    <3>4. \A k \in cache[p].known : k[2] \in Names /\ Known(p, k[2])
      BY <1>0 DEF Named, TypeOK, Caches
    <3>5. Named(p)'
      BY <2>3, <2>7, <2>8, <3>1, <3>2, <3>3, <3>4 DEF Named, Known
    <3>6. \A q \in Pages \ {p} : NotTouched(q)
      BY <2>7, <2>8, <3>1, <3>2 DEF NotTouched
    <3> QED BY <2>1, <2>3, <2>4, <3>1, <3>3, <3>5, <3>6 DEF NameInv
  <2>16. CASE Victim(p)
    <3>1. /\ ClearNames(p) /\ ClearOwn(p) /\ wants' = [wants EXCEPT ![p] = <<>>] /\ Release(p)
          /\ Goto(p, "aborted") /\ UNCHANGED <<dbVars, doc>>
      BY <2>16 DEF Victim
    <3>2. Named(p)'
      BY <2>6, <2>7, <2>8, <3>1 DEF Named
    <3>3. \A q \in Pages \ {p} : NotTouched(q)
      BY <1>0, <2>6, <2>7, <2>8, <3>1 DEF NotTouched, TypeOK
    <3> QED BY <2>1, <2>2, <2>4, <2>5, <3>1, <3>2, <3>3 DEF NameInv, dbVars
  <2>17. CASE NextStatement(p) \/ Raise(p)
    <3>1. /\ UNCHANGED <<dbVars, holder, nameVars, wants, ownVars>> /\ \A q \in Pages \ {p} : doc'[q] = doc[q]
      BY <1>0, <2>17 DEF NextStatement, Raise, TypeOK
    <3>2. PICK ph \in {"raised", "idle"} : Goto(p, ph)
      BY <2>17 DEF NextStatement, Raise
    <3>3. Named(p)'
      BY <1>0, <2>8, <3>1, <3>2 DEF Named, Known, dbVars, nameVars, ownVars
    <3>4. \A q \in Pages \ {p} : NotTouched(q)
      BY <2>8, <3>1, <3>2 DEF NotTouched, nameVars, ownVars
    <3> QED BY <2>1, <2>2, <2>5, <3>1, <3>3, <3>4 DEF NameInv, dbVars
  <2> QED BY <1>2, <2>9, <2>10, <2>11, <2>12, <2>13, <2>14, <2>15, <2>16, <2>17 DEF Work
<1> QED BY <1>1, <1>2 DEF Next

LEMMA NamesHold == Spec => []NameInv
  BY NameInit, NameStep, TypeHolds, PTL DEF Spec

\* OneEntityPerName (intelligence_repository.py:50): for any number of tasks
\* that resolve the same names at once, there is one entity of a name, and
\* every mention has its entity.
THEOREM NamesAreUnique == Spec => []OneEntityPerName
<1>1. NameInv => OneEntityPerName
  BY DEF NameInv, Committed, OneEntityPerName
<1> QED BY <1>1, NamesHold, PTL

-----------------------------------------------------------------------------
(***************************************************************************)
(* Stories.  From the moment a task has locked its story the list it has   *)
(* read is the list of the story; before that others may rewrite it.  A    *)
(* story that is not live yet has been chosen by one task only.            *)
(***************************************************************************)

\* Texts and times that are wholly alike do not reach the threshold.
LEMMA MatchesShare ==
    ASSUME NEW es \in SUBSET Names, NEW fs \in SUBSET Names, NEW text \in Percents, NEW near \in Percents,
           NEW d, NEW ds, Attaches(es, fs, text, near, SourceSimilarity(d, ds))
    PROVE  es \cap fs # {}
<1> SUFFICES ASSUME es \cap fs = {} PROVE FALSE
  OBVIOUS
<1> DEFINE source == SourceSimilarity(d, ds)
<1>1. source \in {0, 50, 100}
  BY DEF SourceSimilarity
<1>2. ~HasSpecificEntityOverlap(es, fs)
  BY DEF HasSpecificEntityOverlap
<1>3. LocationOverlap(es, fs) = 0
  BY DEF LocationOverlap
<1>4. EntityOverlap(es, fs) = 0
  <2>1. CASE es = {} \/ fs = {}
    BY <2>1 DEF EntityOverlap
  <2>2. CASE es # {} /\ fs # {}
    <3>1. IsFiniteSet(es \cup fs)
      <4>1. es \cup fs \subseteq Names /\ IsFiniteSet(Names)
        BY MatchingAssumption
      <4> QED BY <4>1, FS_Subset
    <3>2. Cardinality(es \cup fs) \in Nat /\ Cardinality(es \cup fs) # 0
      BY <2>2, <3>1, FS_CardinalityType, FS_EmptySet
    <3>3. Cardinality(es \cap fs) = 0
      BY FS_EmptySet
    <3> DEFINE many == Cardinality(es \cup fs)
    <3> HIDE DEF many
    <3>4. (100 * 0) \div many = 0
      BY <3>2 DEF many
    <3>5. EntityOverlap(es, fs) = (((100 * 0) \div many) * 30) \div 100
      BY <1>2, <2>2, <3>3 DEF EntityOverlap, many
    <3> QED BY <3>4, <3>5
  <2> QED BY <2>1, <2>2
<1> HIDE DEF source
<1>5. Score(es, fs, text, near, source) = 40 * text + 15 * near + 5 * source
  BY <1>1, <1>3, <1>4 DEF Score, Percents
<1>6. Score(es, fs, text, near, source) < 6500
  BY <1>1, <1>5 DEF Percents
<1>7. Score(es, fs, text, near, source) >= 6500
  BY <1>2 DEF Attaches, source
<1>8. Score(es, fs, text, near, source) \in Int
  BY <1>1, <1>5 DEF Percents
<1> QED BY <1>6, <1>7, <1>8

Linked(p) ==
    /\ chosen[p] # NoOne => phase[p] = "attaching"
    /\ phase[p] = "attaching" /\ wants[p] # <<chosen[p], doc[p]>> =>
         holder[chosen[p]] = p /\ listed[p] = story[chosen[p]].docs

SoleFounder ==
    \A p, q \in Pages : p # q /\ chosen[p] = chosen[q] /\ chosen[p] # NoOne => chosen[p] \in Live

StoryInv ==
    /\ AttachedIsListed /\ StoriesAreFounded /\ CommonGround
    /\ SoleFounder /\ \A p \in Pages : Linked(p)

LEMMA StoryInit == Init => StoryInv
<1> SUFFICES ASSUME Init PROVE StoryInv
  OBVIOUS
<1>1. \A p \in Pages : chosen[p] = NoOne /\ phase[p] # "attaching"
  BY DEF Init
<1>2. AttachedIsListed /\ StoriesAreFounded
  BY DEF Init, AttachedIsListed, StoriesAreFounded
<1>3. NoOne \notin Live
  BY LinkingAssumption DEF Live
<1> QED BY <1>1, <1>2, <1>3 DEF StoryInv, CommonGround, SoleFounder, Linked

LEMMA StoryStep ==
    ASSUME TypeInv, StoryInv, [Next]_vars
    PROVE  StoryInv'
<1>0. TypeOK /\ \A q \in Pages : InHand(q) /\ Linked(q)
  BY DEF TypeInv, StoryInv
<1>1. CASE UNCHANGED vars
  BY <1>1 DEF vars, dbVars, nameVars, ownVars, linkVars, StoryInv, AttachedIsListed, StoriesAreFounded,
              CommonGround, SoleFounder, Linked, Live
<1>2. ASSUME NEW p \in Pages, Begin(p) \/ Lock(p) \/ Fails(p) \/ Work(p)
      PROVE  StoryInv'
  \* A task that does nothing: the lock of its story stays its own.
  <2>1. ASSUME NEW q \in Pages \ {p}, phase'[q] = phase[q], wants'[q] = wants[q], doc'[q] = doc[q],
               chosen'[q] = chosen[q], listed'[q] = listed[q],
               \A r \in Rows : holder[r] = q => holder'[r] = q,
               \A s \in Stories : holder[s] = q => story'[s] = story[s]
        PROVE  Linked(q)'
    <3>1. phase[q] = "attaching" => chosen[q] \in Stories /\ chosen[q] \in Rows
      BY <1>0 DEF InHand, Rows
    <3> QED BY <1>0, <2>1, <3>1 DEF Linked
  \* The stories stay as they are.
  <2>2. ASSUME UNCHANGED <<story, attached, mentions, chosen, resolved>>
        PROVE  (AttachedIsListed /\ StoriesAreFounded /\ CommonGround /\ SoleFounder)'
    BY <2>2 DEF StoryInv, AttachedIsListed, StoriesAreFounded, CommonGround, SoleFounder, Live
  <2>3. ASSUME Release(p) PROVE \A q \in Pages \ {p} : \A r \in Rows : holder[r] = q => holder'[r] = q
    BY <1>0, <2>3 DEF Release
  <2>4. ASSUME ClearOwn(p)
        PROVE  resolved' \in [Pages -> SUBSET Names] /\ \A q \in Pages \ {p} : resolved'[q] = resolved[q]
    BY <1>0, <2>4 DEF ClearOwn, TypeOK
  <2>5. ASSUME ClearLink(p)
        PROVE  /\ chosen'[p] = NoOne /\ listed'[p] = {}
               /\ \A q \in Pages \ {p} : chosen'[q] = chosen[q] /\ listed'[q] = listed[q]
    BY <1>0, <2>5 DEF ClearLink, TypeOK
  <2>6. ASSUME NEW ph, Goto(p, ph)
        PROVE  phase'[p] = ph /\ \A q \in Pages \ {p} : phase'[q] = phase[q]
    BY <1>0, <2>6 DEF Goto, TypeOK
  <2>7. NoOne \notin Live /\ Live \subseteq Stories /\ NoOne \notin Pages
    BY LinkingAssumption DEF Live
  <2>8. CASE Begin(p)
    <3>1. PICK d \in Docs : /\ holder[d] = NoOne /\ doc' = [doc EXCEPT ![p] = d]
                            /\ holder' \in {holder, [holder EXCEPT ![d] = p]}
      BY <2>8 DEF Begin
    <3>2. /\ phase[p] = "idle" /\ Goto(p, "resolving")
          /\ UNCHANGED <<dbVars, at, cache, subject, wants, ownVars, linkVars>>
      BY <2>8 DEF Begin
    <3>3. \A q \in Pages \ {p} : \A r \in Rows : holder[r] = q => holder'[r] = q
      BY <1>0, <2>7, <3>1 DEF TypeOK
    <3>4. Linked(p)'
      BY <1>0, <2>6, <3>2 DEF Linked, linkVars
    <3>5. \A q \in Pages \ {p} : Linked(q)'
      BY <1>0, <2>1, <2>6, <3>1, <3>2, <3>3 DEF TypeOK, dbVars, linkVars
    <3> QED BY <2>2, <3>2, <3>4, <3>5 DEF StoryInv, dbVars, ownVars, linkVars
  <2>9. CASE Resolve(p) \/ NothingToLink(p) \/ Fails(p)
    <3>1. /\ phase[p] = "resolving"
          /\ UNCHANGED <<dbVars, holder, doc, ownVars, linkVars>> /\ \A q \in Pages \ {p} : wants'[q] = wants[q]
      BY <1>0, <2>9 DEF Resolve, NothingToLink, Fails, TypeOK
    <3>2. PICK ph \in {"locking", "rest"} : Goto(p, ph)
      BY <2>9 DEF Resolve, NothingToLink, Fails
    <3>3. Linked(p)'
      BY <1>0, <2>6, <3>1, <3>2 DEF Linked, linkVars
    <3>4. \A q \in Pages \ {p} : Linked(q)'
      BY <2>1, <2>6, <3>1, <3>2 DEF dbVars, linkVars
    <3> QED BY <2>2, <3>1, <3>3, <3>4 DEF StoryInv, dbVars, ownVars, linkVars
  <2>10. CASE Lock(p)
    <3> DEFINE r == Head(wants[p])
    <3>1. /\ wants[p] # <<>> /\ holder[r] \in {NoOne, p}
          /\ wants' = [wants EXCEPT ![p] = Tail(@)] /\ holder' = [holder EXCEPT ![r] = p]
          /\ listed' = IF r \in Stories THEN [listed EXCEPT ![p] = story[r].docs] ELSE listed
          /\ UNCHANGED <<dbVars, phase, doc, names, at, subject, also, resolved, chosen>>
      BY <2>10 DEF Lock
    <3>2. phase[p] = "attaching" => chosen[p] \in Stories /\ doc[p] \in Docs /\ wants[p] \in {<<chosen[p], doc[p]>>, <<doc[p]>>}
      BY <1>0, <3>1 DEF InHand, PlanOf
    <3>3. /\ wants[p] = <<chosen[p], doc[p]>> => r = chosen[p]
          /\ wants[p] = <<doc[p]>> => r = doc[p]
      OBVIOUS
    <3>4. <<doc[p]>> # <<chosen[p], doc[p]>>
      OBVIOUS
    <3>5. r \in Rows
      BY <1>0, <3>1 DEF TypeOK
    <3> HIDE DEF r
    <3>6. \A q \in Pages \ {p} : \A x \in Rows : holder[x] = q => holder'[x] = q
      BY <1>0, <2>7, <3>1 DEF TypeOK
    <3>7. phase[p] = "attaching" => holder'[chosen[p]] = p /\ listed'[p] = story[chosen[p]].docs
      <4>1. CASE phase[p] = "attaching" /\ wants[p] = <<chosen[p], doc[p]>>
        BY <1>0, <3>1, <3>2, <3>3, <3>5, <4>1 DEF TypeOK
      <4>2. CASE phase[p] = "attaching" /\ wants[p] = <<doc[p]>>
        <5>1. r \notin Stories
          BY <3>2, <3>3, <4>2, LinkingAssumption
        <5>2. holder[chosen[p]] = p /\ listed[p] = story[chosen[p]].docs /\ chosen[p] \in Rows
          BY <1>0, <3>2, <3>4, <4>2 DEF Linked, Rows
        <5> QED BY <1>0, <3>1, <5>1, <5>2 DEF TypeOK
      <4> QED BY <3>2, <4>1, <4>2
    <3>8. Linked(p)'
      BY <1>0, <3>1, <3>7 DEF Linked, dbVars
    <3>9. \A q \in Pages \ {p} : Linked(q)'
      BY <1>0, <2>1, <3>1, <3>6 DEF TypeOK, dbVars
    <3> QED BY <2>2, <3>1, <3>8, <3>9 DEF StoryInv, dbVars
  <2>11. CASE Record(p)
    <3>1. /\ phase[p] = "locking" /\ Goto(p, "resolving")
          /\ resolved' = [resolved EXCEPT ![p] = @ \cup {subject[p].entity}]
          /\ UNCHANGED <<dbVars, holder, doc, wants, linkVars>>
      BY <2>11 DEF Record
    <3>2. chosen[p] = NoOne
      BY <1>0, <3>1 DEF Linked
    <3>3. (AttachedIsListed /\ StoriesAreFounded /\ SoleFounder)'
      BY <3>1 DEF StoryInv, AttachedIsListed, StoriesAreFounded, SoleFounder, Live, dbVars, linkVars
    <3>4. CommonGround'
      <4>1. \A q \in Pages \ {p} : resolved'[q] = resolved[q]
        BY <1>0, <3>1 DEF TypeOK
      <4>2. Live' = Live
        BY <3>1 DEF Live, dbVars
      <4>3. \A q \in Pages : chosen[q] \in Live => q # p /\ resolved[q] \cap story[chosen[q]].names # {}
        BY <2>7, <3>2 DEF StoryInv, CommonGround
      <4> QED BY <3>1, <4>1, <4>2, <4>3 DEF CommonGround, dbVars, linkVars
    <3>5. Linked(p)'
      BY <1>0, <2>6, <3>1, <3>2 DEF Linked, linkVars
    <3>6. \A q \in Pages \ {p} : Linked(q)'
      BY <2>1, <2>6, <3>1 DEF dbVars, linkVars
    <3> QED BY <3>3, <3>4, <3>5, <3>6 DEF StoryInv
  <2>12. CASE ChooseStory(p)
    <3>1. PICK recent \in SUBSET Live : \E text, near \in [Live -> Texts] : \E s \in Stories :
            /\ \/ s \in CandidateStories(p, recent) /\ Matches(p, s, text[s], near[s])
               \/ s \in Unused
            /\ chosen' = [chosen EXCEPT ![p] = s] /\ wants' = [wants EXCEPT ![p] = <<s, doc[p]>>]
      BY <2>12 DEF ChooseStory
    <3>2. PICK text \in [Live -> Texts], near \in [Live -> Texts], s \in Stories :
            /\ \/ s \in CandidateStories(p, recent) /\ Matches(p, s, text[s], near[s])
               \/ s \in Unused
            /\ chosen' = [chosen EXCEPT ![p] = s] /\ wants' = [wants EXCEPT ![p] = <<s, doc[p]>>]
      BY <3>1
    <3>3. Goto(p, "attaching") /\ UNCHANGED <<dbVars, holder, doc, ownVars, listed>>
      BY <2>12 DEF ChooseStory
    <3>4. /\ chosen'[p] = s /\ wants'[p] = <<s, doc[p]>>
          /\ \A q \in Pages \ {p} : chosen'[q] = chosen[q] /\ wants'[q] = wants[q]
      BY <1>0, <3>2 DEF TypeOK
    <3>5. Live' = Live /\ AttachedIsListed' /\ StoriesAreFounded'
      BY <3>3 DEF Live, StoryInv, AttachedIsListed, StoriesAreFounded, dbVars
    <3>6. s \in Live => resolved[p] \cap story[s].names # {}
      <4>1. SUFFICES ASSUME s \in Live PROVE resolved[p] \cap story[s].names # {}
        OBVIOUS
      <4>2. s \notin Unused
        BY <4>1 DEF Unused
      <4>3. Matches(p, s, text[s], near[s]) /\ text[s] \in Percents /\ near[s] \in Percents
        BY <3>2, <4>1, <4>2, LinkingAssumption
      <4>4. resolved[p] \in SUBSET Names /\ story[s].names \in SUBSET Names
        BY <1>0 DEF TypeOK
      <4> QED BY <4>3, <4>4, MatchesShare DEF Matches
    <3>7. s \in Live \/ \A q \in Pages : chosen[q] # s
      BY <3>1, <3>2 DEF CandidateStories, Unused
    <3>8. CommonGround'
      BY <3>3, <3>4, <3>5, <3>6 DEF StoryInv, CommonGround, dbVars, ownVars
    <3>9. SoleFounder'
      BY <3>4, <3>5, <3>7 DEF StoryInv, SoleFounder
    <3>10. Linked(p)'
      BY <2>6, <3>3, <3>4 DEF Linked
    <3>11. \A q \in Pages \ {p} : Linked(q)'
      BY <2>1, <2>6, <3>3, <3>4 DEF dbVars
    <3> QED BY <3>5, <3>8, <3>9, <3>10, <3>11 DEF StoryInv
  <2>13. CASE Attach(p)
    <3> DEFINE s == chosen[p]
    <3>1. /\ phase[p] = "attaching" /\ wants[p] = <<>> /\ PublishNames(p) /\ ClearOwn(p) /\ ClearLink(p) /\ Release(p)
          /\ Goto(p, "rest") /\ UNCHANGED <<doc, nameVars, wants>>
          /\ story' = [story EXCEPT ![s] = [docs |-> listed[p] \cup {doc[p]}, names |-> @.names \cup resolved[p]]]
          /\ attached' = [attached EXCEPT ![doc[p]] = s]
      BY <2>13 DEF Attach
    <3>2. s \in Stories /\ doc[p] \in Docs
      BY <1>0, <3>1 DEF InHand
    <3>3. <<>> # <<s, doc[p]>>
      OBVIOUS
    <3>4. holder[s] = p /\ listed[p] = story[s].docs
      BY <1>0, <3>1, <3>3 DEF Linked
    <3>5. /\ story'[s] = [docs |-> story[s].docs \cup {doc[p]}, names |-> story[s].names \cup resolved[p]]
          /\ \A x \in Stories \ {s} : story'[x] = story[x]
          /\ attached'[doc[p]] = s /\ \A d \in Docs \ {doc[p]} : attached'[d] = attached[d]
      BY <1>0, <3>1, <3>2, <3>4 DEF TypeOK
    <3>6. /\ mentions'[doc[p]] = mentions[doc[p]] \cup resolved[p]
          /\ \A d \in Docs : mentions[d] \subseteq mentions'[d]
      <4>1. mentions' = [mentions EXCEPT ![doc[p]] = @ \cup resolved[p]]
        BY <3>1 DEF PublishNames
      <4> QED BY <1>0, <3>2, <4>1 DEF TypeOK
    <3> HIDE DEF s
    <3>7. AttachedIsListed'
      <4>1. \A d \in Docs : attached[d] # NoOne => attached[d] \in Stories /\ d \in story[attached[d]].docs
        BY <1>0 DEF StoryInv, AttachedIsListed, TypeOK
      <4> QED BY <3>2, <3>5, <4>1 DEF AttachedIsListed
    <3>8. StoriesAreFounded'
      <4>0. \A x \in Stories : story[x].docs \subseteq Docs
        BY <1>0 DEF TypeOK
      <4>1. \A x \in Stories : story[x].docs \subseteq story'[x].docs /\ story'[x].docs \subseteq Docs
        <5>1. story'[s].docs = story[s].docs \cup {doc[p]}
          BY <3>5
        <5> QED BY <3>2, <3>5, <4>0, <5>1
      <4>2. \A x \in Stories : \A n \in story[x].names : \E d \in story[x].docs : n \in mentions[d]
        BY DEF StoryInv, StoriesAreFounded
      <4>3. \A x \in Stories : \A n \in story[x].names : \E d \in story'[x].docs : n \in mentions'[d]
        BY <3>6, <4>1, <4>2
      <4>4. \A n \in resolved[p] : doc[p] \in story'[s].docs /\ n \in mentions'[doc[p]]
        BY <3>5, <3>6
      <4>5. \A x \in Stories : \A n \in story'[x].names : n \in story[x].names \/ (x = s /\ n \in resolved[p])
        BY <3>2, <3>5
      <4>6. \A x \in Stories : \A n \in story'[x].names : \E d \in story'[x].docs : n \in mentions'[d]
        BY <4>3, <4>4, <4>5
      <4> QED BY <4>6 DEF StoriesAreFounded
    <3>9. \A q \in Pages \ {p} : chosen[q] \in Live' => chosen[q] \in Live
      <4>1. \A x \in Stories \ {s} : x \in Live' => x \in Live
        BY <3>5 DEF Live
      <4>2. \A q \in Pages \ {p} : chosen[q] = s => s \in Live
        BY <2>7, <3>2, LinkingAssumption DEF StoryInv, SoleFounder, s
      <4>3. Live' \subseteq Stories
        BY DEF Live
      <4> QED BY <4>1, <4>2, <4>3
    <3>10. Live \subseteq Live'
      BY <3>2, <3>5 DEF Live
    <3>11. \A x \in Stories : story[x].names \subseteq story'[x].names
      BY <3>2, <3>5
    <3>12. CommonGround'
      <4>1. \A q \in Pages \ {p} : chosen[q] \in Live => resolved[q] \cap story[chosen[q]].names # {}
        BY DEF StoryInv, CommonGround
      <4>2. \A q \in Pages \ {p} : chosen[q] \in Live' => resolved'[q] \cap story'[chosen'[q]].names # {}
        BY <2>4, <2>5, <2>7, <3>1, <3>9, <3>11, <4>1
      <4>3. chosen'[p] \notin Live'
        BY <2>5, <3>1, LinkingAssumption DEF Live
      <4> QED BY <2>5, <3>1, <4>2, <4>3 DEF CommonGround
    <3>13. SoleFounder'
      BY <2>5, <3>1, <3>10 DEF StoryInv, SoleFounder
    <3>14. Linked(p)'
      BY <2>5, <2>6, <3>1 DEF Linked
    <3>15. \A q \in Pages \ {p} : Linked(q)'
      <4>1. \A q \in Pages \ {p} : \A x \in Stories : holder[x] = q => story'[x] = story[x]
        BY <3>4, <3>5
      <4> QED BY <2>1, <2>3, <2>5, <2>6, <3>1, <4>1
    <3> QED BY <3>7, <3>8, <3>12, <3>13, <3>14, <3>15 DEF StoryInv
  <2>14. CASE Rest(p)
    <3>1. /\ phase[p] = "rest" /\ PublishNames(p) /\ ClearOwn(p) /\ Release(p) /\ Goto(p, "idle")
          /\ doc' = [doc EXCEPT ![p] = NoOne] /\ UNCHANGED <<attached, story, wants, linkVars>>
      BY <2>14 DEF Rest
    <3>2. chosen[p] = NoOne /\ doc[p] \in Docs
      BY <1>0, <3>1 DEF Linked, InHand
    <3>3. \A d \in Docs : mentions[d] \subseteq mentions'[d]
      <4>1. mentions' = [mentions EXCEPT ![doc[p]] = @ \cup resolved[p]]
        BY <3>1 DEF PublishNames
      <4> QED BY <1>0, <3>2, <4>1 DEF TypeOK
    <3>4. Live' = Live /\ AttachedIsListed' /\ SoleFounder'
      BY <3>1 DEF StoryInv, AttachedIsListed, SoleFounder, Live, linkVars
    <3>5. StoriesAreFounded'
      <4>1. \A x \in Stories : story[x].docs \subseteq Docs
        BY <1>0 DEF TypeOK
      <4>2. \A x \in Stories : \A n \in story[x].names : \E d \in story[x].docs : n \in mentions[d]
        BY DEF StoryInv, StoriesAreFounded
      <4>3. \A x \in Stories : \A n \in story[x].names : \E d \in story[x].docs : n \in mentions'[d]
        BY <3>3, <4>1, <4>2
      <4> QED BY <3>1, <4>3 DEF StoriesAreFounded
    <3>6. CommonGround'
      <4>1. \A q \in Pages : chosen[q] \in Live => q # p /\ resolved[q] \cap story[chosen[q]].names # {}
        BY <2>7, <3>2 DEF StoryInv, CommonGround
      <4> QED BY <2>4, <3>1, <3>4, <4>1 DEF CommonGround, linkVars
    <3>7. Linked(p)'
      BY <2>6, <3>1, <3>2 DEF Linked, linkVars
    <3>8. \A q \in Pages \ {p} : Linked(q)'
      BY <1>0, <2>1, <2>3, <2>6, <3>1 DEF TypeOK, linkVars
    <3> QED BY <3>4, <3>5, <3>6, <3>7, <3>8 DEF StoryInv
  <2>15. CASE Victim(p)
    <3>1. /\ ClearOwn(p) /\ ClearLink(p) /\ wants' = [wants EXCEPT ![p] = <<>>] /\ Release(p)
          /\ Goto(p, "aborted") /\ UNCHANGED <<dbVars, doc>>
      BY <2>15 DEF Victim
    <3>2. Live' = Live /\ AttachedIsListed' /\ StoriesAreFounded'
      BY <3>1 DEF StoryInv, AttachedIsListed, StoriesAreFounded, Live, dbVars
    <3>3. CommonGround' /\ SoleFounder'
      BY <2>4, <2>5, <2>7, <3>1, <3>2 DEF StoryInv, CommonGround, SoleFounder, dbVars
    <3>4. Linked(p)'
      BY <2>5, <2>6, <3>1 DEF Linked
    <3>5. \A q \in Pages \ {p} : Linked(q)'
      BY <1>0, <2>1, <2>3, <2>5, <2>6, <3>1 DEF TypeOK, dbVars
    <3> QED BY <3>2, <3>3, <3>4, <3>5 DEF StoryInv
  <2>16. CASE NextStatement(p) \/ Raise(p)
    <3>1. /\ phase[p] \in {"aborted", "raised"} /\ UNCHANGED <<dbVars, holder, wants, ownVars, linkVars>>
          /\ \A q \in Pages \ {p} : doc'[q] = doc[q]
      BY <1>0, <2>16 DEF NextStatement, Raise, TypeOK
    <3>2. PICK ph \in {"raised", "idle"} : Goto(p, ph)
      BY <2>16 DEF NextStatement, Raise
    <3>3. Linked(p)'
      BY <1>0, <2>6, <3>1, <3>2 DEF Linked, linkVars
    <3>4. \A q \in Pages \ {p} : Linked(q)'
      BY <2>1, <2>6, <3>1, <3>2 DEF dbVars, linkVars
    <3> QED BY <2>2, <3>1, <3>3, <3>4 DEF StoryInv, dbVars, ownVars, linkVars
  <2> QED BY <1>2, <2>8, <2>9, <2>10, <2>11, <2>12, <2>13, <2>14, <2>15, <2>16 DEF Work
<1> QED BY <1>1, <1>2 DEF Next

LEMMA StoriesHold == Spec => []StoryInv
  BY StoryInit, StoryStep, TypeHolds, PTL DEF Spec

\* AttachedIsListed (intelligence_repository.py:262): for any number of tasks
\* that rewrite the list of one story, none loses another's document.
THEOREM NoDocumentIsLost == Spec => []AttachedIsListed
<1>1. StoryInv => AttachedIsListed
  BY DEF StoryInv
<1> QED BY <1>1, StoriesHold, PTL

\* StoriesAreFounded (intelligence_repository.py:320): every entity of a story
\* is mentioned by a document of the story.
THEOREM NoStoryIsUnfounded == Spec => []StoriesAreFounded
<1>1. StoryInv => StoriesAreFounded
  BY DEF StoryInv
<1> QED BY <1>1, StoriesHold, PTL

\* CommonGround (match_scorer.py:121): whatever the similarity of texts and
\* times, a document goes to a story it shares an entity with, or founds one
\* that no other task has chosen.
THEOREM StoriesHaveCommonGround == Spec => []CommonGround
<1>1. StoryInv => CommonGround
  BY DEF StoryInv
<1> QED BY <1>1, StoriesHold, PTL
=============================================================================
