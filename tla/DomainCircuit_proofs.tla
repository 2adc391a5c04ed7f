------------------------- MODULE DomainCircuit_proofs -------------------------
(***************************************************************************)
(* Proofs about DomainCircuit, for any number of page tasks and any         *)
(* thresholds, delays and Retry-After values.                              *)
(*                                                                         *)
(* Everything rests on the row lock: LockInv says that at most one session  *)
(* holds it and that what this session has read is still what is committed, *)
(* so that Commit applies update_policy_after_outcome to the row itself.    *)
(***************************************************************************)
EXTENDS DomainCircuit, TLAPS

LockInv ==
    \A p \in Pages : phase[p] = "locked" =>
        /\ txn[p] = row
        /\ \A q \in Pages : phase[q] = "locked" => q = p

IInv == TypeOK /\ LockInv /\ RowTellsStreak /\ PausesWhileFailing

-----------------------------------------------------------------------------
(***************************************************************************)
(* What the policy functions return.                                       *)
(***************************************************************************)

LEMMA AgedType ==
    ASSUME NEW r \in Rows
    PROVE  /\ Aged(r) \in Rows
           /\ Aged(r) = [r EXCEPT !.age = Aged(r).age]
           /\ Aged(r).age # Never <=> r.age # Never
  BY PolicyAssumption, SMT DEF Aged, Breaker!Older, Rows, Ages

\* After a failure the delay is at least the smaller floor, at most the cap.
LEMMA GrownDelayRange ==
    ASSUME NEW d \in Nat, NEW o \in Outcomes
    PROVE  /\ GrownDelay(d, o) \in Nat
           /\ FailureFloor <= GrownDelay(d, o)
           /\ GrownDelay(d, o) <= MaxDelay
<1>1. o.kind \in {"ok", "fail", "throttle"} /\ o.wait \in Nat
  BY DEF Outcomes
<1>2. (3 * d) \div 2 \in Nat /\ 2 * d \in Nat
  BY SMT
<1> DEFINE guess == IF o.kind = "throttle" THEN Larger(ThrottleFloor, 2 * d)
                                           ELSE Larger(FailureFloor, (3 * d) \div 2)
<1>3. guess \in Nat /\ FailureFloor <= guess
  BY <1>1, <1>2, PolicyAssumption, SMT DEF Larger
<1>4. Larger(guess, o.wait) \in Nat /\ FailureFloor <= Larger(guess, o.wait)
  <2> HIDE DEF guess
  <2> QED BY <1>1, <1>3, PolicyAssumption, SMT DEF Larger
<1>5. GrownDelay(d, o) = Smaller(MaxDelay, Larger(guess, o.wait))
  BY DEF GrownDelay
<1> HIDE DEF guess
<1> QED BY <1>4, <1>5, PolicyAssumption, SMT DEF Smaller

\* A success never lengthens the delay.
LEMMA DecayedDelayRange ==
    ASSUME NEW d \in Nat
    PROVE  DecayedDelay(d) \in Nat /\ DecayedDelay(d) <= d
  BY PolicyAssumption, SMT DEF DecayedDelay

LEMMA ResetType ==
    ASSUME NEW r \in Rows
    PROVE  Reset(r) \in Rows
  BY DecayedDelayRange, PolicyAssumption, SMT DEF Reset, Rows, Circuits, Ages

LEMMA WorsenedType ==
    ASSUME NEW r \in Rows, NEW o \in Outcomes
    PROVE  Worsened(r, o) \in Rows
<1>1. GrownDelay(r.delay, o) \in Nat
  BY GrownDelayRange DEF Rows
<1>2. OpenedAge(r) \in Ages
  BY PolicyAssumption, SMT DEF OpenedAge, Rows, Ages
<1> QED BY <1>1, <1>2, PolicyAssumption, SMT DEF Worsened, Rows, Circuits, Ages

LEMMA UpdatedType ==
    ASSUME NEW r \in Rows, NEW o \in Outcomes
    PROVE  Updated(r, o) \in Rows
  BY ResetType, WorsenedType DEF Updated

-----------------------------------------------------------------------------
LEMMA InitIInv == Init => IInv
<1> SUFFICES ASSUME Init PROVE IInv
  OBVIOUS
<1>1. DefaultRow \in Rows /\ NoOutcome \in Outcomes
  BY PolicyAssumption DEF DefaultRow, Rows, Circuits, Ages, NoOutcome, Outcomes
<1>2. TypeOK
  BY <1>1 DEF Init, TypeOK, Circuits
<1>3. LockInv
  BY DEF Init, LockInv
<1>4. RowTellsStreak
  BY PolicyAssumption, SMT DEF Init, RowTellsStreak, DefaultRow, Breaker!Standing
<1>5. PausesWhileFailing
  BY PolicyAssumption, SMT DEF Init, PausesWhileFailing, DefaultRow
<1> QED BY <1>2, <1>3, <1>4, <1>5 DEF IInv

LEMMA TypeNext == TypeOK /\ [Next]_vars => TypeOK'
<1> SUFFICES ASSUME TypeOK, [Next]_vars PROVE TypeOK'
  OBVIOUS
<1> USE DEF TypeOK
<1>0. DefaultRow \in Rows /\ NoOutcome \in Outcomes /\ "healthy" \in Circuits
  BY PolicyAssumption DEF DefaultRow, Rows, Circuits, Ages, NoOutcome, Outcomes
<1>1. CASE TimePasses
  BY <1>1, AgedType DEF TimePasses
<1>2. CASE SiteChanges
  BY <1>2 DEF SiteChanges, pageVars
<1>3. ASSUME NEW p \in Pages, Admit(p) PROVE TypeOK'
  BY <1>3 DEF Admit, Goto, Rows
<1>4. ASSUME NEW p \in Pages, Send(p) PROVE TypeOK'
  BY <1>4 DEF Send, Goto
<1>5. ASSUME NEW p \in Pages, FetchEnds(p) PROVE TypeOK'
  <2>1. outcome' \in [Pages -> Outcomes]
    BY <1>0, <1>5, PolicyAssumption DEF FetchEnds, Outcomes
  <2> QED BY <2>1, <1>5 DEF FetchEnds, Goto
<1>6. ASSUME NEW p \in Pages, LockRow(p) PROVE TypeOK'
  BY <1>6 DEF LockRow, Goto
<1>7. ASSUME NEW p \in Pages, Commit(p) PROVE TypeOK'
  <2>1. row' \in Rows
    BY <1>7, UpdatedType DEF Commit
  <2>2. streak' \in Nat
    BY <1>7, SMT DEF Commit
  <2> QED BY <1>0, <1>7, <2>1, <2>2 DEF Commit, TaskEnds, Goto
<1>8. ASSUME NEW p \in Pages, Abort(p) PROVE TypeOK'
  BY <1>0, <1>8 DEF Abort, TaskEnds, Goto
<1>9. CASE UNCHANGED vars
  BY <1>9 DEF vars, pageVars
<1> QED BY <1>1, <1>2, <1>3, <1>4, <1>5, <1>6, <1>7, <1>8, <1>9 DEF Next, PageStep

\* The lock is exclusive and nobody commits behind its holder.
LEMMA LockNext == TypeOK /\ LockInv /\ [Next]_vars => LockInv'
<1> SUFFICES ASSUME TypeOK, LockInv, [Next]_vars PROVE LockInv'
  OBVIOUS
<1> USE DEF TypeOK, LockInv
<1>1. CASE TimePasses
  BY <1>1 DEF TimePasses
<1>2. CASE SiteChanges
  BY <1>2 DEF SiteChanges, pageVars
<1>3. ASSUME NEW p \in Pages, Admit(p) PROVE LockInv'
  BY <1>3 DEF Admit, Goto
<1>4. ASSUME NEW p \in Pages, Send(p) PROVE LockInv'
  BY <1>4 DEF Send, Goto
<1>5. ASSUME NEW p \in Pages, FetchEnds(p) PROVE LockInv'
  BY <1>5 DEF FetchEnds, Goto
<1>6. ASSUME NEW p \in Pages, LockRow(p) PROVE LockInv'
  BY <1>6 DEF LockRow, Goto
<1>7. ASSUME NEW p \in Pages, Commit(p) PROVE LockInv'
  <2>1. \A q \in Pages : phase'[q] # "locked"
    BY <1>7 DEF Commit, TaskEnds, Goto
  <2> QED BY <2>1
<1>8. ASSUME NEW p \in Pages, Abort(p) PROVE LockInv'
  BY <1>8 DEF Abort, TaskEnds, Goto
<1>9. CASE UNCHANGED vars
  BY <1>9 DEF vars, pageVars
<1> QED BY <1>1, <1>2, <1>3, <1>4, <1>5, <1>6, <1>7, <1>8, <1>9 DEF Next, PageStep

\* What a committed success and a committed failure do to the row.
LEMMA CommitEffect ==
    ASSUME IInv, NEW p \in Pages, Commit(p)
    PROVE  \/ outcome[p].kind = "ok" /\ row' = Reset(row) /\ streak' = 0
           \/ outcome[p].kind # "ok" /\ row' = Worsened(row, outcome[p]) /\ streak' = streak + 1
<1>1. txn[p] = row
  BY DEF IInv, LockInv, Commit
<1> QED BY <1>1 DEF Commit, Updated

LEMMA PolicyNext == IInv /\ [Next]_vars => RowTellsStreak' /\ PausesWhileFailing'
<1> SUFFICES ASSUME IInv, [Next]_vars PROVE RowTellsStreak' /\ PausesWhileFailing'
  OBVIOUS
<1> USE DEF RowTellsStreak, PausesWhileFailing
<1>0. TypeOK /\ row \in Rows /\ streak \in Nat
  BY DEF IInv, TypeOK
<1>1. CASE TimePasses
  <2>1. /\ row' = [row EXCEPT !.age = row'.age]
        /\ row'.age # Never <=> row.age # Never
        /\ UNCHANGED streak
    BY <1>0, <1>1, AgedType DEF TimePasses
  <2>2. /\ row'.failures = row.failures /\ row'.circuit = row.circuit
        /\ row'.delay = row.delay /\ row'.concurrency = row.concurrency
    BY <1>0, <2>1 DEF Rows
  <2> QED BY <2>1, <2>2 DEF IInv
<1>2. ASSUME NEW p \in Pages, Commit(p) PROVE RowTellsStreak' /\ PausesWhileFailing'
  <2>1. CASE outcome[p].kind = "ok" /\ row' = Reset(row) /\ streak' = 0
    <3>1. row'.failures = 0 /\ row'.circuit = "healthy" /\ row'.age = Never
      BY <2>1 DEF Reset
    <3>2. row'.delay = DecayedDelay(row.delay)
      BY <2>1 DEF Reset
    <3>3. row'.delay \in Nat /\ row'.delay <= MaxDelay
      BY <1>0, <3>2, DecayedDelayRange, PolicyAssumption, SMT DEF Rows, IInv
    <3>4. Breaker!Standing(0) = "healthy"
      BY PolicyAssumption, SMT DEF Breaker!Standing
    <3> QED BY <2>1, <3>1, <3>3, <3>4, SMT
  <2>2. CASE outcome[p].kind # "ok" /\ row' = Worsened(row, outcome[p]) /\ streak' = streak + 1
    <3>1. outcome[p] \in Outcomes /\ row.delay \in Nat
      BY <1>0 DEF TypeOK, Rows
    <3>2. row'.delay \in Nat /\ FailureFloor <= row'.delay /\ row'.delay <= MaxDelay
      BY <2>2, <3>1, GrownDelayRange DEF Worsened
    <3>3. row.failures = streak /\ row.circuit = Breaker!Standing(streak)
      BY DEF IInv
    <3>4. row'.failures = streak' /\ streak' \in Nat
      BY <1>0, <2>2, <3>3, SMT DEF Worsened
    <3>5. row'.circuit = Breaker!Standing(streak')
      BY <1>0, <2>2, <3>3, PolicyAssumption, SMT DEF Worsened, Breaker!Standing
    <3>6. row'.age # Never <=> row'.circuit = "open"
      <4>1. OpenedAge(row) # Never
        BY <1>0, PolicyAssumption, SMT DEF OpenedAge
      <4> QED BY <1>0, <2>2, <3>3, <4>1, PolicyAssumption, SMT DEF Worsened, Breaker!Standing
    <3>7. row'.circuit # "healthy" => row'.concurrency = 1
      BY <1>0, <2>2, <3>3, PolicyAssumption, SMT DEF Worsened, Breaker!Standing
    <3> QED BY <3>2, <3>4, <3>5, <3>6, <3>7
  <2> QED BY <1>2, <2>1, <2>2, CommitEffect
<1>3. CASE UNCHANGED <<row, streak>>
  BY <1>3 DEF IInv
<1>4. ASSUME NEW p \in Pages, PageStep(p) \/ Abort(p), ~Commit(p) PROVE UNCHANGED <<row, streak>>
  BY <1>4 DEF PageStep, Admit, Send, FetchEnds, LockRow, Abort
<1>5. CASE SiteChanges
  BY <1>3, <1>5 DEF SiteChanges
<1>6. CASE UNCHANGED vars
  BY <1>3, <1>6 DEF vars
<1> QED BY <1>1, <1>2, <1>3, <1>4, <1>5, <1>6 DEF Next

LEMMA IInvariant == Spec => []IInv
<1>1. IInv /\ [Next]_vars => IInv'
  BY TypeNext, LockNext, PolicyNext DEF IInv
<1> QED BY InitIInv, <1>1, PTL DEF Spec

-----------------------------------------------------------------------------
\* Every reachable state has the types of the code's columns and locals.
THEOREM TypeCorrect == Spec => []TypeOK
<1>1. IInv => TypeOK
  BY DEF IInv
<1> QED BY IInvariant, <1>1, PTL

\* However page tasks interleave, abort and time out, no outcome is lost and
\* the policy columns agree with the number of failures in a row.
THEOREM NoLostOutcome == Spec => []RowTellsStreak
<1>1. IInv => RowTellsStreak
  BY DEF IInv
<1> QED BY IInvariant, <1>1, PTL

\* A failing domain is always paused for, and never beyond the ceiling.
THEOREM Polite == Spec => []PausesWhileFailing
<1>1. IInv => PausesWhileFailing
  BY DEF IInv
<1> QED BY IInvariant, <1>1, PTL

\* ImplementsBreaker (domain_policy_service.py:75-85): every step of the
\* sessions is a step of the sequential breaker or none, whose clock starts
\* when the circuit opens.
THEOREM Refines == Spec => ImplementsBreaker
<1>1. Init => Breaker!Init
  BY DEF Init, Breaker!Init, DefaultRow
<1>2. IInv /\ [Next]_vars => [Breaker!Next]_(Breaker!breakerVars)
  <2> SUFFICES ASSUME IInv, [Next]_vars PROVE [Breaker!Next]_(Breaker!breakerVars)
    OBVIOUS
  <2>0. row \in Rows /\ streak \in Nat
    BY DEF IInv, TypeOK
  <2>1. CASE TimePasses
    <3>1. row'.age = Breaker!Older(row.age) /\ row'.circuit = row.circuit /\ streak' = streak
      BY <2>0, <2>1 DEF TimePasses, Aged, Rows
    <3> QED BY <3>1 DEF Breaker!Next, Breaker!TimePasses
  <2>2. ASSUME NEW p \in Pages, Commit(p) PROVE Breaker!Next
    <3>1. CASE outcome[p].kind = "ok" /\ row' = Reset(row) /\ streak' = 0
      BY <3>1 DEF Reset, Breaker!Next, Breaker!Succeed
    <3>2. CASE outcome[p].kind # "ok" /\ row' = Worsened(row, outcome[p]) /\ streak' = streak + 1
      <4>1. /\ row.failures = streak /\ row.circuit = Breaker!Standing(streak)
            /\ row.age # Never <=> row.circuit = "open"
        BY DEF IInv, RowTellsStreak
      <4>2. row'.circuit = Breaker!Standing(streak')
        BY <2>0, <3>2, <4>1, PolicyAssumption, SMT DEF Worsened, Breaker!Standing
      <4>3. row'.age = IF row'.circuit = "open" THEN OpenedAge(row) ELSE Never
        BY <2>0, <3>2, <4>1, PolicyAssumption, SMT DEF Worsened, Breaker!Standing
      <4>4. OpenedAge(row) = IF row.circuit = "open" THEN row.age ELSE 0
        BY <4>1 DEF OpenedAge
      <4> QED BY <3>2, <4>2, <4>3, <4>4 DEF Breaker!Next, Breaker!Fail
    <3> QED BY <2>2, <3>1, <3>2, CommitEffect
  <2>3. CASE UNCHANGED <<row, streak>>
    BY <2>3 DEF Breaker!breakerVars
  <2>4. ASSUME NEW p \in Pages, PageStep(p) \/ Abort(p), ~Commit(p) PROVE UNCHANGED <<row, streak>>
    BY <2>4 DEF PageStep, Admit, Send, FetchEnds, LockRow, Abort
  <2>5. CASE SiteChanges
    BY <2>3, <2>5 DEF SiteChanges
  <2>6. CASE UNCHANGED vars
    BY <2>3, <2>6 DEF vars
  <2> QED BY <2>1, <2>2, <2>3, <2>4, <2>5, <2>6 DEF Next
<1> QED BY IInvariant, <1>1, <1>2, PTL DEF Spec, ImplementsBreaker, Breaker!Spec
=============================================================================
