-------------------------- MODULE SessionPoolProofs --------------------------
(***************************************************************************)
(* Proofs about SessionPool, for every number of slots and of callers, and *)
(* about ImageBuild, for every set of builds and of jobs.                  *)
(*                                                                         *)
(* The invariant behind PermitFindsSlot is a counting one.  A caller that  *)
(* holds a permit and has not condemned anything yet needs a slot at or    *)
(* after its scan position.  For every suffix i..NSlots of the pool there  *)
(* are at least as many uncondemned slots in it as callers whose position  *)
(* is in it; the available permits are counted in for the whole pool.  The *)
(* scan only moves past slot i if i is condemned or owned by another       *)
(* counted caller, which is what carries the bound to the next suffix.     *)
(*                                                                         *)
(* The invariant behind PublishedTrue goes by stages.  Fits says what a    *)
(* build's image must already hold at each stage of its order; Books says  *)
(* that while one build at a time published since the last rename, the     *)
(* digest that build computed, and each companion it has written so far,   *)
(* are those of the image at the output path.                              *)
(***************************************************************************)
EXTENDS SessionPool, ImageBuild, FiniteSetTheorems, TLAPS

\* Callers that hold a permit and still need, use or give back a slot.
Counting == {"load", "cas", "claimed", "doomed", "held", "dropped"}

Counted(i) == {p \in Proc : pc[p] \in Counting /\ at[p] >= i}

Live(i) == {s \in Slots : s >= i /\ s \notin dead}

Suffixes == 1..(NSlots + 1)

OwnershipInv ==
  /\ \A p \in Proc : pc[p] \in Owning \cup {"cas"} => at[p] \in Slots
  /\ \A p \in Proc : pc[p] \in Owning => at[p] \in busy
  /\ \A s \in busy : \E q \in Proc : pc[q] \in Owning /\ at[q] = s
  /\ OneOwnerPerSlot
  /\ \A p \in Proc : pc[p] = "marked" => at[p] \in dead

DeathInv ==
  /\ \A p \in Proc : pc[p] = "doomed" => at[p] \notin alive
  /\ dead \cap alive = {}
  /\ closed => dead = Slots
  /\ \A p \in Proc : pc[p] = "alldead" => dead = Slots

BudgetInv ==
  /\ permits + Cardinality(Counted(1)) <= Cardinality(Live(1))
  /\ \A i \in Suffixes : Cardinality(Counted(i)) <= Cardinality(Live(i))
  /\ PermitFindsSlot

PoolInv == TypeOK /\ OwnershipInv /\ DeathInv /\ BudgetInv

-----------------------------------------------------------------------------

USE NSlotsAssumption, ProcAssumption, MortalAssumption DEF Slots

\* The sets the budget counts are finite.
LEMMA BudgetSetsFinite ==
  ASSUME NEW i \in Suffixes
  PROVE  /\ IsFiniteSet(Counted(i)) /\ Cardinality(Counted(i)) \in Nat
         /\ IsFiniteSet(Live(i)) /\ Cardinality(Live(i)) \in Nat
<1>1. IsFiniteSet(Slots)
  BY FS_Interval
<1>2. Counted(i) \in SUBSET Proc /\ Live(i) \in SUBSET Slots
  BY DEF Counted, Live
<1>3. IsFiniteSet(Counted(i)) /\ IsFiniteSet(Live(i))
  BY <1>1, <1>2, FS_Subset
<1> QED
  BY <1>3, FS_CardinalityType

\* Adding or removing one element changes a cardinality by at most one.
LEMMA OneMore ==
  ASSUME NEW S, NEW x, IsFiniteSet(S)
  PROVE  /\ IsFiniteSet(S \cup {x})
         /\ Cardinality(S) \in Nat /\ Cardinality(S \cup {x}) \in Nat
         /\ Cardinality(S \cup {x}) <= Cardinality(S) + 1
         /\ x \notin S => Cardinality(S \cup {x}) = Cardinality(S) + 1
<1>1. Cardinality(S) \in Nat
  BY FS_CardinalityType
<1>2. IsFiniteSet(S \cup {x})
  BY FS_AddElement
<1>3. Cardinality(S \cup {x}) = IF x \in S THEN Cardinality(S) ELSE Cardinality(S) + 1
  BY FS_AddElement
<1> QED
  BY <1>1, <1>2, <1>3

LEMMA OneLess ==
  ASSUME NEW S, NEW x, IsFiniteSet(S)
  PROVE  /\ Cardinality(S) \in Nat /\ Cardinality(S \ {x}) \in Nat
         /\ Cardinality(S \ {x}) >= Cardinality(S) - 1
         /\ x \in S => Cardinality(S \ {x}) = Cardinality(S) - 1
<1>1. Cardinality(S) \in Nat
  BY FS_CardinalityType
<1>2. IsFiniteSet(S \ {x}) /\ Cardinality(S \ {x}) \in Nat
  BY FS_RemoveElement, FS_CardinalityType
<1>3. Cardinality(S \ {x}) = IF x \in S THEN Cardinality(S) - 1 ELSE Cardinality(S)
  BY FS_RemoveElement
<1> QED
  BY <1>1, <1>2, <1>3

\* The initial state satisfies the invariant: all permits are available and
\* every slot is live.
LEMMA PoolInvInit == Init => PoolInv
<1> SUFFICES ASSUME Init PROVE PoolInv
  OBVIOUS
<1>1. TypeOK
  <2>1. closed \in BOOLEAN
    BY DEF Init
  <2>2. pc \in [Proc -> Labels]
    BY DEF Init, Labels
  <2>3. at \in [Proc -> 1..(NSlots + 1)]
    BY DEF Init
  <2> QED
    BY <2>1, <2>2, <2>3 DEF Init, TypeOK
<1>2. OwnershipInv
  BY DEF Init, OwnershipInv, OneOwnerPerSlot, Owning
<1>3. DeathInv
  BY DEF Init, DeathInv
<1>4. BudgetInv
  <2>1. \A i \in Suffixes : Counted(i) = {}
    BY DEF Init, Counted, Counting
  <2>2. Live(1) = 1..NSlots
    BY DEF Init, Live
  <2>3. Cardinality(Live(1)) = NSlots
    BY <2>2, FS_Interval
  <2>4. \A i \in Suffixes : Cardinality(Counted(i)) = 0
    BY <2>1, FS_EmptySet
  <2>5. 1 \in Suffixes
    BY DEF Suffixes
  <2>6. permits + Cardinality(Counted(1)) <= Cardinality(Live(1))
    BY <2>3, <2>4, <2>5 DEF Init
  <2>7. \A i \in Suffixes : Cardinality(Counted(i)) <= Cardinality(Live(i))
    BY <2>4, BudgetSetsFinite
  <2>8. PermitFindsSlot
    BY DEF Init, PermitFindsSlot
  <2> QED
    BY <2>6, <2>7, <2>8 DEF BudgetInv
<1> QED
  BY <1>1, <1>2, <1>3, <1>4 DEF PoolInv

\* Every step keeps the types.  A load of dead[i] needs the scan index to be
\* in the pool, which the claiming labels guarantee.
LEMMA TypeStep ==
  ASSUME TypeOK, OwnershipInv, [Next]_vars
  PROVE  TypeOK'
<1> USE DEF TypeOK, OwnershipInv, Owning, Labels, Outcomes
<1>1. ASSUME NEW p \in Proc, Acquire(p) PROVE TypeOK'
  BY <1>1 DEF Acquire, Goto
<1>2. ASSUME NEW p \in Proc, TakePermit(p) PROVE TypeOK'
  BY <1>2 DEF TakePermit, Goto
<1>3. ASSUME NEW p \in Proc, SeeClosed(p) PROVE TypeOK'
  BY <1>3 DEF SeeClosed, Goto
<1>4. ASSUME NEW p \in Proc, CancelWait(p) PROVE TypeOK'
  BY <1>4 DEF CancelWait, Goto
<1>5. ASSUME NEW p \in Proc, LoadDead(p) PROVE TypeOK'
  BY <1>5 DEF LoadDead, Goto, NoSlot
<1>6. ASSUME NEW p \in Proc, TryClaim(p) PROVE TypeOK'
  <2>1. at[p] \in Slots
    BY <1>6 DEF TryClaim
  <2>2. busy' \in SUBSET Slots
    <3>1. busy' = busy \/ busy' = busy \cup {at[p]}
      BY <1>6 DEF TryClaim
    <3> QED
      BY <2>1, <3>1
  <2>3. at' \in [Proc -> 1..(NSlots + 1)]
    BY <1>6, <2>1 DEF TryClaim
  <2>4. pc' \in [Proc -> Labels]
    BY <1>6 DEF TryClaim, Goto
  <2> QED
    BY <1>6, <2>2, <2>3, <2>4 DEF TryClaim
<1>7. ASSUME NEW p \in Proc, CheckAlive(p) PROVE TypeOK'
  BY <1>7 DEF CheckAlive, Goto
<1>8. ASSUME NEW p \in Proc, MarkDead(p) PROVE TypeOK'
  <2>1. at[p] \in Slots
    BY <1>8 DEF MarkDead
  <2>2. pc' \in [Proc -> Labels]
    BY <1>8 DEF MarkDead, Goto
  <2> QED
    BY <1>8, <2>1, <2>2 DEF MarkDead
<1>9. ASSUME NEW p \in Proc, ClearBusy(p) PROVE TypeOK'
  BY <1>9 DEF ClearBusy, Goto
<1>10. ASSUME NEW p \in Proc, Retire(p) PROVE TypeOK'
  <2>1. closed' \in BOOLEAN
    BY <1>10 DEF Retire
  <2>2. pc' \in [Proc -> Labels]
    BY <1>10 DEF Retire, Goto
  <2> QED
    BY <1>10, <2>1, <2>2 DEF Retire
<1>11. ASSUME NEW p \in Proc, DropFlag(p) PROVE TypeOK'
  BY <1>11 DEF DropFlag, Goto
<1>12. ASSUME NEW p \in Proc, DropPermit(p) PROVE TypeOK'
  BY <1>12 DEF DropPermit, Goto
<1>13. ASSUME NEW p \in Proc, Return(p) PROVE TypeOK'
  BY <1>13 DEF Return, Goto
<1>14. ASSUME NEW s \in Slots, ConnectionDies(s) PROVE TypeOK'
  BY <1>14 DEF ConnectionDies
<1>15. CASE UNCHANGED vars
  BY <1>15 DEF vars
<1> QED
  BY <1>1, <1>2, <1>3, <1>4, <1>5, <1>6, <1>7, <1>8, <1>9, <1>10, <1>11, <1>12, <1>13, <1>14, <1>15 DEF Next

\* The busy flags stay in step with the claims.
LEMMA OwnershipStep ==
  ASSUME TypeOK, OwnershipInv, [Next]_vars
  PROVE  OwnershipInv'
<1> USE DEF TypeOK, OwnershipInv, OneOwnerPerSlot, Owning, Labels, Outcomes
<1>1. ASSUME NEW p \in Proc, Acquire(p) PROVE OwnershipInv'
  BY <1>1 DEF Acquire, Goto
<1>2. ASSUME NEW p \in Proc, TakePermit(p) PROVE OwnershipInv'
  BY <1>2 DEF TakePermit, Goto
<1>3. ASSUME NEW p \in Proc, SeeClosed(p) PROVE OwnershipInv'
  BY <1>3 DEF SeeClosed, Goto
<1>4. ASSUME NEW p \in Proc, CancelWait(p) PROVE OwnershipInv'
  BY <1>4 DEF CancelWait, Goto
<1>5. ASSUME NEW p \in Proc, LoadDead(p) PROVE OwnershipInv'
  BY <1>5 DEF LoadDead, Goto, NoSlot
<1>6. ASSUME NEW p \in Proc, TryClaim(p) PROVE OwnershipInv'
  <2>1. CASE at[p] \in busy
    <3>1. /\ busy' = busy /\ dead' = dead
          /\ pc' = [pc EXCEPT ![p] = "load"] /\ pc[p] = "cas"
          /\ at' = [at EXCEPT ![p] = at[p] + 1]
      BY <1>6, <2>1 DEF TryClaim, Goto
    <3>2. \A q \in Proc : pc'[q] \in Owning \cup {"cas"} =>
            q # p /\ pc[q] = pc'[q] /\ at'[q] = at[q]
      BY <3>1
    <3>3. \A q \in Proc : pc[q] \in Owning =>
            q # p /\ pc[q] = pc'[q] /\ at'[q] = at[q]
      BY <3>1
    <3> QED
      BY <3>1, <3>2, <3>3
  <2>2. CASE at[p] \notin busy
    <3>1. /\ busy' = busy \cup {at[p]} /\ at[p] \in Slots
          /\ pc' = [pc EXCEPT ![p] = "claimed"] /\ at' = at /\ dead' = dead
      BY <1>6, <2>2 DEF TryClaim, Goto
    <3>2. \A q \in Proc : pc'[q] \in Owning => at'[q] \in busy'
      BY <3>1
    <3>3. \A s \in busy' : \E q \in Proc : pc'[q] \in Owning /\ at'[q] = s
      BY <3>1
    <3>4. OneOwnerPerSlot'
      BY <2>2, <3>1
    <3> QED
      BY <3>1, <3>2, <3>3, <3>4
  <2> QED
    BY <2>1, <2>2
<1>7. ASSUME NEW p \in Proc, CheckAlive(p) PROVE OwnershipInv'
  BY <1>7 DEF CheckAlive, Goto
<1>8. ASSUME NEW p \in Proc, MarkDead(p) PROVE OwnershipInv'
  BY <1>8 DEF MarkDead, Goto
<1>9. ASSUME NEW p \in Proc, ClearBusy(p) PROVE OwnershipInv'
  BY <1>9 DEF ClearBusy, Goto
<1>10. ASSUME NEW p \in Proc, Retire(p) PROVE OwnershipInv'
  BY <1>10 DEF Retire, Goto
<1>11. ASSUME NEW p \in Proc, DropFlag(p) PROVE OwnershipInv'
  BY <1>11 DEF DropFlag, Goto
<1>12. ASSUME NEW p \in Proc, DropPermit(p) PROVE OwnershipInv'
  BY <1>12 DEF DropPermit, Goto
<1>13. ASSUME NEW p \in Proc, Return(p) PROVE OwnershipInv'
  BY <1>13 DEF Return, Goto
<1>14. ASSUME NEW s \in Slots, ConnectionDies(s) PROVE OwnershipInv'
  BY <1>14 DEF ConnectionDies
<1>15. CASE UNCHANGED vars
  BY <1>15 DEF vars
<1> QED
  BY <1>1, <1>2, <1>3, <1>4, <1>5, <1>6, <1>7, <1>8, <1>9, <1>10, <1>11, <1>12, <1>13, <1>14, <1>15 DEF Next

\* Only dead connections are condemned, and only a fully condemned pool closes.
LEMMA DeathStep ==
  ASSUME TypeOK, OwnershipInv, DeathInv, [Next]_vars
  PROVE  DeathInv'
<1> USE DEF TypeOK, OwnershipInv, DeathInv, Owning, Labels, Outcomes
<1>1. ASSUME NEW p \in Proc, Acquire(p) PROVE DeathInv'
  BY <1>1 DEF Acquire, Goto
<1>2. ASSUME NEW p \in Proc, TakePermit(p) PROVE DeathInv'
  BY <1>2 DEF TakePermit, Goto
<1>3. ASSUME NEW p \in Proc, SeeClosed(p) PROVE DeathInv'
  BY <1>3 DEF SeeClosed, Goto
<1>4. ASSUME NEW p \in Proc, CancelWait(p) PROVE DeathInv'
  BY <1>4 DEF CancelWait, Goto
<1>5. ASSUME NEW p \in Proc, LoadDead(p) PROVE DeathInv'
  BY <1>5 DEF LoadDead, Goto, NoSlot
<1>6. ASSUME NEW p \in Proc, TryClaim(p) PROVE DeathInv'
  BY <1>6 DEF TryClaim, Goto
<1>7. ASSUME NEW p \in Proc, CheckAlive(p) PROVE DeathInv'
  BY <1>7 DEF CheckAlive, Goto
<1>8. ASSUME NEW p \in Proc, MarkDead(p) PROVE DeathInv'
  <2>1. /\ dead' = dead \cup {at[p]} /\ at[p] \in Slots /\ at[p] \notin alive
        /\ pc' = [pc EXCEPT ![p] = "marked"] /\ at' = at
        /\ alive' = alive /\ closed' = closed
    BY <1>8 DEF MarkDead, Goto
  <2>2. dead = Slots => dead' = Slots
    BY <2>1
  <2>3. \A q \in Proc : pc'[q] = "doomed" => at'[q] \notin alive'
    BY <2>1
  <2>4. dead' \cap alive' = {}
    BY <2>1
  <2>5. closed' => dead' = Slots
    BY <2>1, <2>2
  <2>6. \A q \in Proc : pc'[q] = "alldead" => dead' = Slots
    BY <2>1, <2>2
  <2> QED
    BY <2>3, <2>4, <2>5, <2>6
<1>9. ASSUME NEW p \in Proc, ClearBusy(p) PROVE DeathInv'
  BY <1>9 DEF ClearBusy, Goto
<1>10. ASSUME NEW p \in Proc, Retire(p) PROVE DeathInv'
  BY <1>10 DEF Retire, Goto
<1>11. ASSUME NEW p \in Proc, DropFlag(p) PROVE DeathInv'
  BY <1>11 DEF DropFlag, Goto
<1>12. ASSUME NEW p \in Proc, DropPermit(p) PROVE DeathInv'
  BY <1>12 DEF DropPermit, Goto
<1>13. ASSUME NEW p \in Proc, Return(p) PROVE DeathInv'
  BY <1>13 DEF Return, Goto
<1>14. ASSUME NEW s \in Slots, ConnectionDies(s) PROVE DeathInv'
  BY <1>14 DEF ConnectionDies
<1>15. CASE UNCHANGED vars
  BY <1>15 DEF vars
<1> QED
  BY <1>1, <1>2, <1>3, <1>4, <1>5, <1>6, <1>7, <1>8, <1>9, <1>10, <1>11, <1>12, <1>13, <1>14, <1>15 DEF Next

\* A step that changes neither the permits nor the counted sets keeps the budget.
LEMMA BudgetUnchanged ==
  ASSUME BudgetInv, permits' = permits, PermitFindsSlot',
         \A i \in Suffixes : Counted(i)' = Counted(i) /\ Live(i)' = Live(i)
  PROVE  BudgetInv'
<1>1. 1 \in Suffixes
  BY DEF Suffixes
<1>2. Counted(1)' = Counted(1) /\ Live(1)' = Live(1)
  BY <1>1
<1> QED
  BY <1>1, <1>2 DEF BudgetInv

\* A scan moves past slot at[p] only if the slot is condemned or owned by
\* another counted caller; then the next suffix has room for p.
LEMMA BudgetAdvance ==
  ASSUME TypeOK, OwnershipInv, BudgetInv,
         NEW p \in Proc, pc[p] \in {"load", "cas"},
         NEW i \in Slots, at[p] = i,
         i \in dead \/ i \in busy,
         at' = [at EXCEPT ![p] = i + 1],
         pc' = [pc EXCEPT ![p] = "load"],
         dead' = dead, permits' = permits
  PROVE  BudgetInv'
<1> DEFINE j == i + 1
<1>0. i \in Suffixes /\ j \in Suffixes /\ i \in Nat /\ 1 \in Suffixes /\ j # 1
  BY DEF Suffixes
<1> HIDE DEF j
<1>1. \A k \in Suffixes : Live(k)' = Live(k)
  BY DEF Live
<1>2. \A k \in Suffixes \ {j} : Counted(k)' = Counted(k)
  BY DEF Counted, Counting, Suffixes, TypeOK, j
<1>3. Counted(j)' = Counted(j) \cup {p} /\ p \notin Counted(j)
  BY DEF Counted, Counting, TypeOK, j
<1>4. p \in Counted(i) /\ Counted(j) \subseteq Counted(i)
  BY DEF Counted, Counting, TypeOK, j
<1>5. Cardinality(Counted(j)) + 1 <= Cardinality(Live(j))
  <2>1. Cardinality(Counted(j) \cup {p}) = Cardinality(Counted(j)) + 1
    BY <1>0, <1>3, BudgetSetsFinite, OneMore
  <2>2. Cardinality(Counted(j) \cup {p}) <= Cardinality(Counted(i))
    BY <1>0, <1>4, BudgetSetsFinite, FS_Subset
  <2>3. Cardinality(Counted(i)) <= Cardinality(Live(i))
    BY <1>0 DEF BudgetInv
  <2>4. CASE i \in dead
    <3>1. Live(i) = Live(j)
      BY <2>4 DEF Live, j
    <3> QED
      BY <1>0, <2>1, <2>2, <2>3, <3>1, BudgetSetsFinite
  <2>5. CASE i \notin dead
    <3>1. i \in busy
      BY <2>5
    <3>2. PICK q \in Proc : pc[q] \in Owning /\ at[q] = i
      BY <3>1 DEF OwnershipInv
    <3>3. q # p /\ pc[q] # "marked"
      BY <2>5, <3>2 DEF OwnershipInv, Owning
    <3>4. q \in Counted(i) /\ q \notin Counted(j) \cup {p}
      BY <3>2, <3>3 DEF Counted, Counting, Owning, j
    <3>5. Cardinality((Counted(j) \cup {p}) \cup {q}) = Cardinality(Counted(j)) + 2
      <4>1. IsFiniteSet(Counted(j) \cup {p})
        BY <1>0, BudgetSetsFinite, OneMore
      <4>2. Cardinality((Counted(j) \cup {p}) \cup {q}) = Cardinality(Counted(j) \cup {p}) + 1
        BY <3>4, <4>1, OneMore
      <4>3. Cardinality(Counted(j)) \in Nat
        BY <1>0, BudgetSetsFinite
      <4> QED
        BY <2>1, <4>2, <4>3
    <3>6. Cardinality((Counted(j) \cup {p}) \cup {q}) <= Cardinality(Counted(i))
      BY <1>0, <1>4, <3>4, BudgetSetsFinite, FS_Subset
    <3>7. Live(i) \subseteq Live(j) \cup {i}
      BY DEF Live, j
    <3>8. Cardinality(Live(i)) <= Cardinality(Live(j)) + 1
      <4>1. IsFiniteSet(Live(j) \cup {i}) /\ Cardinality(Live(j) \cup {i}) <= Cardinality(Live(j)) + 1
        <5>1. IsFiniteSet(Live(j)) /\ Cardinality(Live(j)) \in Nat
          BY <1>0, BudgetSetsFinite
        <5> QED
          BY <5>1, OneMore
      <4>2. Cardinality(Live(i)) <= Cardinality(Live(j) \cup {i}) /\ Cardinality(Live(j) \cup {i}) \in Nat
        BY <3>7, <4>1, FS_Subset, FS_CardinalityType
      <4> QED
        BY <1>0, <4>1, <4>2, BudgetSetsFinite
    <3> QED
      BY <1>0, <2>3, <3>5, <3>6, <3>8, BudgetSetsFinite
  <2> QED
    BY <2>4, <2>5
<1>6. Cardinality(Counted(j)') <= Cardinality(Live(j)')
  BY <1>0, <1>1, <1>3, <1>5, BudgetSetsFinite, OneMore
<1>7. \A k \in Suffixes : Cardinality(Counted(k)') <= Cardinality(Live(k)')
  BY <1>1, <1>2, <1>6 DEF BudgetInv
<1>8. permits' + Cardinality(Counted(1)') <= Cardinality(Live(1)')
  BY <1>0, <1>1, <1>2 DEF BudgetInv
<1>9. PermitFindsSlot'
  BY DEF BudgetInv, PermitFindsSlot, TypeOK
<1> QED
  BY <1>7, <1>8, <1>9 DEF BudgetInv

\* Every step keeps the budget.
LEMMA BudgetStep ==
  ASSUME TypeOK, OwnershipInv, BudgetInv, [Next]_vars
  PROVE  BudgetInv'
<1> DEFINE Same == /\ permits' = permits
                   /\ PermitFindsSlot'
                   /\ \A i \in Suffixes : Counted(i)' = Counted(i) /\ Live(i)' = Live(i)
<1>0. Same => BudgetInv'
  BY BudgetUnchanged
<1>00. 1 \in Suffixes
  BY DEF Suffixes
<1>1. ASSUME NEW p \in Proc, Acquire(p) PROVE BudgetInv'
  <2>1. Same
    BY <1>1 DEF Acquire, Goto, BudgetInv, PermitFindsSlot, Counted, Counting, Live, TypeOK
  <2> QED
    BY <1>0, <2>1
<1>2. ASSUME NEW p \in Proc, TakePermit(p) PROVE BudgetInv'
  <2>1. \A i \in Suffixes : Live(i)' = Live(i)
    BY <1>2 DEF TakePermit, Live
  <2>2. \A i \in Suffixes \ {1} : Counted(i)' = Counted(i)
    BY <1>2 DEF TakePermit, Goto, Counted, Counting, Suffixes, TypeOK
  <2>3. Counted(1)' = Counted(1) \cup {p} /\ p \notin Counted(1)
    BY <1>2 DEF TakePermit, Goto, Counted, Counting, TypeOK
  <2>4. Cardinality(Counted(1)') = Cardinality(Counted(1)) + 1
    BY <1>00, <2>3, BudgetSetsFinite, OneMore
  <2>5. permits' + Cardinality(Counted(1)') <= Cardinality(Live(1)')
    BY <1>2, <1>00, <2>1, <2>4, BudgetSetsFinite DEF TakePermit, BudgetInv, TypeOK
  <2>6. Cardinality(Counted(1)') <= Cardinality(Live(1)')
    BY <1>2, <1>00, <2>1, <2>4, BudgetSetsFinite DEF TakePermit, BudgetInv, TypeOK
  <2>7. \A i \in Suffixes : Cardinality(Counted(i)') <= Cardinality(Live(i)')
    BY <2>1, <2>2, <2>6 DEF BudgetInv
  <2>8. PermitFindsSlot'
    BY <1>2 DEF TakePermit, Goto, BudgetInv, PermitFindsSlot, TypeOK
  <2> QED
    BY <2>5, <2>7, <2>8 DEF BudgetInv
<1>3. ASSUME NEW p \in Proc, SeeClosed(p) PROVE BudgetInv'
  <2>1. Same
    BY <1>3 DEF SeeClosed, Goto, BudgetInv, PermitFindsSlot, Counted, Counting, Live, TypeOK
  <2> QED
    BY <1>0, <2>1
<1>4. ASSUME NEW p \in Proc, CancelWait(p) PROVE BudgetInv'
  <2>1. Same
    BY <1>4 DEF CancelWait, Goto, BudgetInv, PermitFindsSlot, Counted, Counting, Live, TypeOK
  <2> QED
    BY <1>0, <2>1
<1>5. ASSUME NEW p \in Proc, LoadDead(p) PROVE BudgetInv'
  <2>1. at[p] \in Slots
    <3>1. SUFFICES ASSUME at[p] = NSlots + 1 PROVE FALSE
      BY DEF TypeOK
    <3>2. NSlots + 1 \in Suffixes /\ Live(NSlots + 1) = {}
      BY DEF Suffixes, Live
    <3>3. p \in Counted(NSlots + 1)
      BY <1>5, <3>1 DEF LoadDead, Counted, Counting
    <3>4. Cardinality(Counted(NSlots + 1)) <= 0
      BY <3>2, FS_EmptySet DEF BudgetInv
    <3>5. Counted(NSlots + 1) = {}
      BY <3>2, <3>4, BudgetSetsFinite, FS_EmptySet
    <3> QED
      BY <3>3, <3>5
  <2>2. CASE at[p] \in dead
    <3>1. /\ at' = [at EXCEPT ![p] = at[p] + 1] /\ pc' = pc /\ dead' = dead
          /\ permits' = permits /\ pc[p] = "load"
      BY <1>5, <2>1, <2>2 DEF LoadDead
    <3>2. pc' = [pc EXCEPT ![p] = "load"]
      BY <3>1 DEF TypeOK
    <3> QED
      BY <2>1, <2>2, <3>1, <3>2, BudgetAdvance
  <2>3. CASE at[p] \notin dead
    <3>1. /\ at' = at /\ pc' = [pc EXCEPT ![p] = "cas"] /\ dead' = dead
          /\ permits' = permits /\ pc[p] = "load"
      BY <1>5, <2>1, <2>3 DEF LoadDead, Goto
    <3>2. Same
      BY <3>1 DEF BudgetInv, PermitFindsSlot, Counted, Counting, Live, TypeOK
    <3> QED
      BY <1>0, <3>2
  <2> QED
    BY <2>2, <2>3
<1>6. ASSUME NEW p \in Proc, TryClaim(p) PROVE BudgetInv'
  <2>1. at[p] \in Slots /\ pc[p] = "cas"
    BY <1>6 DEF TryClaim, OwnershipInv
  <2>2. CASE at[p] \in busy
    <3>1. /\ at' = [at EXCEPT ![p] = at[p] + 1] /\ pc' = [pc EXCEPT ![p] = "load"]
          /\ dead' = dead /\ permits' = permits
      BY <1>6, <2>2 DEF TryClaim, Goto
    <3> QED
      BY <2>1, <2>2, <3>1, BudgetAdvance
  <2>3. CASE at[p] \notin busy
    <3>1. /\ at' = at /\ pc' = [pc EXCEPT ![p] = "claimed"]
          /\ dead' = dead /\ permits' = permits
      BY <1>6, <2>3 DEF TryClaim, Goto
    <3>2. Same
      BY <2>1, <3>1 DEF BudgetInv, PermitFindsSlot, Counted, Counting, Live, TypeOK
    <3> QED
      BY <1>0, <3>2
  <2> QED
    BY <2>2, <2>3
<1>7. ASSUME NEW p \in Proc, CheckAlive(p) PROVE BudgetInv'
  <2>1. Same
    BY <1>7 DEF CheckAlive, Goto, BudgetInv, PermitFindsSlot, Counted, Counting, Live, TypeOK
  <2> QED
    BY <1>0, <2>1
<1>8. ASSUME NEW p \in Proc, MarkDead(p) PROVE BudgetInv'
  <2>1. PICK t \in Slots : at[p] = t
    BY <1>8 DEF MarkDead, OwnershipInv, Owning
  <2>2. \A i \in Suffixes : Counted(i)' = Counted(i) \ {p} /\ (p \in Counted(i) <=> t >= i)
    BY <1>8, <2>1 DEF MarkDead, Goto, Counted, Counting, TypeOK
  <2>3. \A i \in Suffixes : Live(i)' = Live(i) \ {t} /\ (t \in Live(i) => t >= i)
    BY <1>8, <2>1 DEF MarkDead, Live
  <2>4. ASSUME NEW i \in Suffixes
        PROVE  LET cd == Cardinality(Counted(i)') - Cardinality(Counted(i))
                   ld == Cardinality(Live(i)') - Cardinality(Live(i))
               IN  cd <= ld /\ Cardinality(Counted(i)') \in Nat /\ Cardinality(Live(i)') \in Nat
    <3>1. /\ Cardinality(Live(i) \ {t}) \in Nat
          /\ Cardinality(Live(i) \ {t}) >= Cardinality(Live(i)) - 1
          /\ t \notin Live(i) => Live(i) \ {t} = Live(i)
      BY BudgetSetsFinite, OneLess
    <3>2. /\ Cardinality(Counted(i) \ {p}) \in Nat
          /\ p \in Counted(i) => Cardinality(Counted(i) \ {p}) = Cardinality(Counted(i)) - 1
          /\ p \notin Counted(i) => Counted(i) \ {p} = Counted(i)
      BY BudgetSetsFinite, OneLess
    <3>3. Counted(i)' = Counted(i) \ {p} /\ Live(i)' = Live(i) \ {t}
      BY <2>2, <2>3
    <3>4. (p \in Counted(i) <=> t >= i) /\ (t \in Live(i) => t >= i)
      BY <2>2, <2>3
    <3>5. CASE p \in Counted(i)
      BY <3>1, <3>2, <3>3, <3>5, BudgetSetsFinite
    <3>6. CASE p \notin Counted(i)
      <4>1. Live(i)' = Live(i) /\ Counted(i)' = Counted(i)
        BY <3>1, <3>2, <3>3, <3>4, <3>6
      <4>2. Cardinality(Counted(i)) \in Nat /\ Cardinality(Live(i)) \in Nat
        BY BudgetSetsFinite
      <4>3. /\ Cardinality(Counted(i)') = Cardinality(Counted(i))
            /\ Cardinality(Live(i)') = Cardinality(Live(i))
        BY <4>1
      <4> QED
        BY <4>2, <4>3
    <3> QED
      BY <3>5, <3>6
  <2>5. \A i \in Suffixes : Cardinality(Counted(i)') <= Cardinality(Live(i)')
    BY <2>4, BudgetSetsFinite DEF BudgetInv
  <2>6. permits' = permits /\ permits \in Nat
    BY <1>8 DEF MarkDead, TypeOK
  <2>7. permits' + Cardinality(Counted(1)') <= Cardinality(Live(1)')
    BY <1>00, <2>4, <2>6, BudgetSetsFinite DEF BudgetInv
  <2>8. PermitFindsSlot'
    BY <1>8 DEF MarkDead, Goto, BudgetInv, PermitFindsSlot, TypeOK
  <2> QED
    BY <2>5, <2>7, <2>8 DEF BudgetInv
<1>9. ASSUME NEW p \in Proc, ClearBusy(p) PROVE BudgetInv'
  <2>1. Same
    BY <1>9 DEF ClearBusy, Goto, BudgetInv, PermitFindsSlot, Counted, Counting, Live, TypeOK
  <2> QED
    BY <1>0, <2>1
<1>10. ASSUME NEW p \in Proc, Retire(p) PROVE BudgetInv'
  <2>1. Same
    BY <1>10 DEF Retire, Goto, BudgetInv, PermitFindsSlot, Counted, Counting, Live, TypeOK
  <2> QED
    BY <1>0, <2>1
<1>11. ASSUME NEW p \in Proc, DropFlag(p) PROVE BudgetInv'
  <2>1. Same
    BY <1>11 DEF DropFlag, Goto, BudgetInv, PermitFindsSlot, Counted, Counting, Live, TypeOK
  <2> QED
    BY <1>0, <2>1
<1>12. ASSUME NEW p \in Proc, DropPermit(p) PROVE BudgetInv'
  <2>1. \A i \in Suffixes : Counted(i)' = Counted(i) \ {p} /\ Live(i)' = Live(i)
    BY <1>12 DEF DropPermit, Goto, Counted, Counting, Live, TypeOK
  <2>2. p \in Counted(1)
    BY <1>12 DEF DropPermit, Counted, Counting, TypeOK
  <2>3. Cardinality(Counted(1)') = Cardinality(Counted(1)) - 1
    BY <1>00, <2>1, <2>2, BudgetSetsFinite, OneLess
  <2>4. permits' + Cardinality(Counted(1)') <= Cardinality(Live(1)')
    BY <1>12, <1>00, <2>1, <2>3, BudgetSetsFinite DEF DropPermit, BudgetInv, TypeOK
  <2>5. ASSUME NEW i \in Suffixes PROVE Cardinality(Counted(i)') <= Cardinality(Live(i)')
    <3>1. Cardinality(Counted(i) \ {p}) <= Cardinality(Counted(i)) /\ Cardinality(Counted(i) \ {p}) \in Nat
      BY BudgetSetsFinite, FS_Subset, OneLess
    <3> QED
      BY <2>1, <3>1, BudgetSetsFinite DEF BudgetInv
  <2>6. PermitFindsSlot'
    BY <1>12 DEF DropPermit, Goto, BudgetInv, PermitFindsSlot, TypeOK
  <2> QED
    BY <2>4, <2>5, <2>6 DEF BudgetInv
<1>13. ASSUME NEW p \in Proc, Return(p) PROVE BudgetInv'
  <2>1. Same
    BY <1>13 DEF Return, Goto, BudgetInv, PermitFindsSlot, Counted, Counting, Live, TypeOK, Outcomes
  <2> QED
    BY <1>0, <2>1
<1>14. ASSUME NEW s \in Slots, ConnectionDies(s) PROVE BudgetInv'
  <2>1. Same
    BY <1>14 DEF ConnectionDies, BudgetInv, PermitFindsSlot, Counted, Counting, Live, TypeOK
  <2> QED
    BY <1>0, <2>1
<1>15. CASE UNCHANGED vars
  <2>1. Same
    BY <1>15 DEF vars, BudgetInv, PermitFindsSlot, Counted, Counting, Live
  <2> QED
    BY <1>0, <2>1
<1> QED
  BY <1>1, <1>2, <1>3, <1>4, <1>5, <1>6, <1>7, <1>8, <1>9, <1>10, <1>11, <1>12, <1>13, <1>14, <1>15 DEF Next

-----------------------------------------------------------------------------

\* The inductive invariant holds in every reachable state of the pool.
THEOREM PoolInvariant == Spec => []PoolInv
<1>1. PoolInv /\ [Next]_vars => PoolInv'
  BY TypeStep, OwnershipStep, DeathStep, BudgetStep DEF PoolInv
<1> QED
  BY <1>1, PoolInvInit, PTL DEF Spec

\* Type correctness of every reachable state.
THEOREM PoolTypes == Spec => []TypeOK
BY PoolInvariant, PTL DEF PoolInv

\* However many slots and callers there are, no two callers own one slot.
THEOREM PoolExclusion == Spec => []OneOwnerPerSlot
<1>1. PoolInv => OneOwnerPerSlot
  BY DEF PoolInv, OwnershipInv
<1> QED
  BY <1>1, PoolInvariant, PTL

\* The branch of acquire() that the code calls unreachable is unreachable.
THEOREM PoolPermitFindsSlot == Spec => []PermitFindsSlot
<1>1. PoolInv => PermitFindsSlot
  BY DEF PoolInv, BudgetInv
<1> QED
  BY <1>1, PoolInvariant, PTL

\* The all-dead error is never returned while a connection is alive.
THEOREM PoolAllDead == Spec => []AllDeadIsTrue
<1>1. PoolInv => AllDeadIsTrue
  BY DEF PoolInv, TypeOK, DeathInv, AllDeadIsTrue
<1> QED
  BY <1>1, PoolInvariant, PTL

-----------------------------------------------------------------------------
(* The order of the stages *)

\* The stage after the i-th of an order without repetitions.
LEMMA NextOf ==
  ASSUME NEW n \in Nat, NEW o, DOMAIN o = 1..n, NEW i \in 1..n,
         \A j \in 1..n : o[j] = o[i] => j = i
  PROVE  StageAfter(o, o[i]) = o[i + 1]
<1>1. (CHOOSE j \in DOMAIN o : o[j] = o[i]) = i
  OBVIOUS
<1> QED
  BY <1>1 DEF StageAfter

LEMMA OrderIs ==
  /\ DOMAIN Order = 1..17
  /\ Order[1] = "static" /\ Order[2] = "gate" /\ Order[3] = "format" /\ Order[4] = "layout"
  /\ Order[5] = "runtime" /\ Order[6] = "marker" /\ Order[7] = "verify"
  /\ Order[8] = "userland" /\ Order[9] = "link" /\ Order[10] = "extra"
  /\ Order[11] = "digest" /\ Order[12] = "persist" /\ Order[13] = "sidecar"
  /\ Order[14] = "checksum" /\ Order[15] = "compact" /\ Order[16] = "boot"
  /\ Order[17] = "done"
BY DEF Order

LEMMA OrderOnce == ASSUME NEW i \in 1..17, NEW j \in 1..17, Order[i] = Order[j] PROVE i = j
<1>1. \A k \in 1..17 : \/ k = 1 \/ k = 2 \/ k = 3 \/ k = 4 \/ k = 5 \/ k = 6 \/ k = 7 \/ k = 8 \/ k = 9
                       \/ k = 10 \/ k = 11 \/ k = 12 \/ k = 13 \/ k = 14 \/ k = 15 \/ k = 16 \/ k = 17
  OBVIOUS
<1> QED
  BY <1>1, OrderIs

\* The stages of build_rootfs and the two that call it, one after the other.
LEMMA OrderNext ==
  ASSUME NEW i \in 1..17
  PROVE  StageAfter(Order, Order[i]) = Order[i + 1]
<1>1. \A j \in 1..17 : Order[j] = Order[i] => j = i
  BY OrderOnce
<1>2. 17 \in Nat /\ DOMAIN Order = 1..17
  BY OrderIs
<1> HIDE DEF Order
<1> QED
  BY <1>1, <1>2, NextOf

LEMMA StagingIs ==
  /\ DOMAIN StagingOrder = 1..8
  /\ StagingOrder[1] = "validate" /\ StagingOrder[2] = "gate" /\ StagingOrder[3] = "format"
  /\ StagingOrder[4] = "inject" /\ StagingOrder[5] = "digest" /\ StagingOrder[6] = "persist"
  /\ StagingOrder[7] = "sidecar" /\ StagingOrder[8] = "done"
BY DEF StagingOrder

LEMMA StagingNext ==
  ASSUME NEW i \in 1..8
  PROVE  StageAfter(StagingOrder, StagingOrder[i]) = StagingOrder[i + 1]
<1>1. \A j \in 1..8 : StagingOrder[j] = StagingOrder[i] => j = i
  <2>1. \A k \in 1..8 : k = 1 \/ k = 2 \/ k = 3 \/ k = 4 \/ k = 5 \/ k = 6 \/ k = 7 \/ k = 8
    OBVIOUS
  <2> QED
    BY <2>1, StagingIs
<1>2. 8 \in Nat /\ DOMAIN StagingOrder = 1..8
  BY StagingIs
<1> QED
  BY <1>1, <1>2, NextOf

\* Where a build goes from each stage.
LEMMA NextStage ==
  ASSUME NEW b
  PROVE  /\ job[b].kind = "staging" =>
              /\ bat[b] = "validate" => After(b) = "gate"
              /\ bat[b] = "gate" => After(b) = "format"
              /\ bat[b] = "format" => After(b) = "inject"
              /\ bat[b] = "inject" => After(b) = "digest"
              /\ bat[b] = "digest" => After(b) = "persist"
              /\ bat[b] = "persist" => After(b) = "sidecar"
              /\ bat[b] = "sidecar" => After(b) = "done"
         /\ job[b].kind # "staging" =>
              /\ bat[b] = "static" => After(b) = "gate"
              /\ bat[b] = "gate" => After(b) = "format"
              /\ bat[b] = "format" => After(b) = "layout"
              /\ bat[b] = "layout" => After(b) = "runtime"
              /\ bat[b] = "runtime" => After(b) = "marker"
              /\ bat[b] = "marker" => After(b) = "verify"
              /\ bat[b] = "verify" => After(b) = "userland"
              /\ bat[b] = "userland" => After(b) = "link"
              /\ bat[b] = "link" => After(b) = "extra"
              /\ bat[b] = "extra" => After(b) = "digest"
              /\ bat[b] = "digest" => After(b) = "persist"
              /\ bat[b] = "persist" => After(b) = "sidecar"
              /\ bat[b] = "sidecar" => After(b) = "checksum"
              /\ bat[b] = "checksum" => After(b) = "compact"
              /\ bat[b] = "compact" => After(b) \in {"boot", "done"}
              /\ bat[b] = "boot" => After(b) = "done"
<1> DEFINE s(o) == StageAfter(o, bat[b])
<1>1. After(b) = LET t == s(IF job[b].kind = "staging" THEN StagingOrder ELSE Order)
                 IN IF t = "boot" /\ job[b].kind # "all" THEN "done" ELSE t
  BY DEF After
<1>2. /\ StageAfter(StagingOrder, "validate") = "gate" /\ StageAfter(StagingOrder, "gate") = "format"
      /\ StageAfter(StagingOrder, "format") = "inject" /\ StageAfter(StagingOrder, "inject") = "digest"
      /\ StageAfter(StagingOrder, "digest") = "persist" /\ StageAfter(StagingOrder, "persist") = "sidecar"
      /\ StageAfter(StagingOrder, "sidecar") = "done"
  BY StagingIs, StagingNext
<1>3. /\ StageAfter(Order, "static") = "gate" /\ StageAfter(Order, "gate") = "format"
      /\ StageAfter(Order, "format") = "layout" /\ StageAfter(Order, "layout") = "runtime"
      /\ StageAfter(Order, "runtime") = "marker" /\ StageAfter(Order, "marker") = "verify"
      /\ StageAfter(Order, "verify") = "userland" /\ StageAfter(Order, "userland") = "link"
      /\ StageAfter(Order, "link") = "extra" /\ StageAfter(Order, "extra") = "digest"
  BY OrderIs, OrderNext
<1>4. /\ StageAfter(Order, "digest") = "persist" /\ StageAfter(Order, "persist") = "sidecar"
      /\ StageAfter(Order, "sidecar") = "checksum" /\ StageAfter(Order, "checksum") = "compact"
      /\ StageAfter(Order, "compact") = "boot" /\ StageAfter(Order, "boot") = "done"
  BY OrderIs, OrderNext
<1>5. CASE job[b].kind = "staging"
  BY <1>1, <1>2, <1>5
<1>6. CASE job[b].kind # "staging"
  <2>1. After(b) = LET t == StageAfter(Order, bat[b])
                   IN IF t = "boot" /\ job[b].kind # "all" THEN "done" ELSE t
    BY <1>1, <1>6
  <2> QED
    BY <2>1, <1>3, <1>4, <1>6
<1> QED
  BY <1>5, <1>6

-----------------------------------------------------------------------------
(* The invariant *)

Binary == (SUBSET {"py", "other"}) \cup {Absent}
Stage == {"idle", "validate", "static", "gate", "format", "inject", "layout", "runtime", "marker",
          "verify", "userland", "link", "extra", "digest", "persist", "boot", "done"} \cup Publishing
Contents == [from : {"nothing", "busybox", "runtime", "marker", "mini", "host", "staged"},
             ver : SUBSET (Nat \cup Modes \cup {"py", "other", "absent"}), exec : BOOLEAN]
ImageOf(b) == [by : {b, "nobody"}, job : Job \cup {NoJob}, gate : Binary, files : [Path -> Contents]]

IbTypes ==
  /\ binary \in Binary /\ edits \in 0..MaxEdits /\ alone \in BOOLEAN
  /\ job \in [Builder -> Jobs \cup {NoJob}] /\ bat \in [Builder -> Stage]
  /\ DOMAIN img = Builder /\ DOMAIN dig = Builder
  /\ img = [b \in Builder |-> img[b]] /\ dig = [b \in Builder |-> dig[b]]
  /\ \A b \in Builder : img[b] \in ImageOf(b)

\* What a build of j has put into its image m when it comes to stage s: what the stages
\* before s are there for.  A staging manifest takes stages of its own.
Fits(s, j, m) ==
  /\ s \notin {"idle", "done"} => j \in Jobs
  /\ s \in {"validate", "inject"} => j.kind = "staging"
  /\ s \in {"static", "layout", "runtime", "marker", "verify", "userland", "link", "extra",
            "checksum", "compact", "boot"} => j.kind # "staging"
  /\ s \in {"format", "inject", "layout", "runtime", "marker", "verify", "userland", "link",
            "extra", "digest", "persist"}
       => m.job = j /\ (j.py => "py" \in m.gate)
  /\ s \in {"format", "layout", "runtime", "marker", "verify", "userland", "link", "extra"}
       => m.files["forbidden"] = Nothing
  /\ s \in {"marker", "verify", "userland", "link", "extra"}
       => m.files["install"].from = "runtime" /\ ExecutableRegular(m.files[Entrypoint(j.mode)])
  /\ s \in {"verify", "userland", "link", "extra"} /\ j.mode # "forkd-agent"
       => m.files["marker"].from = "marker"
  /\ s \in {"link", "extra"} /\ j.mode = "zeroboot-zbrt" => m.files["applet"].from = "mini"
  /\ s = "extra" /\ j.py => m.files["python"] = m.files[Entrypoint(j.mode)]
  /\ s \in {"digest", "persist"} => Whole(m)

\* Every build is where its image is, and publishes the digest of that image.
Builds ==
  \A b \in Builder : /\ Fits(bat[b], job[b], img[b])
                     /\ bat[b] = "persist" => dig[b] = img[b]

\* Since the output was replaced by the only publisher: it is that one's image, and of
\* the companions those are new whose stage is over.
Books ==
  alone /\ out # NoImage =>
    /\ \A b, c \in Builder : bat[b] \in Publishing /\ bat[c] \in Publishing => b = c
    /\ \A b \in Builder : bat[b] \in Publishing => dig[b] = out /\ out.job = job[b]
    /\ \A b \in Builder : bat[b] \in {"checksum", "compact"} => side = out
    /\ \A b \in Builder : bat[b] = "compact" => check = out

IbInv == IbTypes /\ Builds /\ Books /\ PublishedWhole /\ CompanionsAgree

\* A step of a build that publishes nothing.
LEMMA Moves ==
  ASSUME IbInv, NEW b \in Builder, NEW s \in Stage \ Publishing, NEW m \in ImageOf(b),
         NEW d, NEW j \in Jobs \cup {NoJob}, bat[b] \notin Publishing,
         bat' = [bat EXCEPT ![b] = s], img' = [img EXCEPT ![b] = m],
         dig' = [dig EXCEPT ![b] = d], job' = [job EXCEPT ![b] = j],
         Fits(s, j, m), s = "persist" => d = m,
         binary' \in Binary, UNCHANGED <<edits, published>>
  PROVE  IbInv'
<1>1. /\ \A c \in Builder \ {b} : /\ bat'[c] = bat[c] /\ img'[c] = img[c] /\ dig'[c] = dig[c]
                                  /\ job'[c] = job[c]
      /\ bat'[b] = s /\ img'[b] = m /\ dig'[b] = d /\ job'[b] = j
  BY DEF IbInv, IbTypes
<1>2. IbTypes'
  <2>1. /\ job' \in [Builder -> Jobs \cup {NoJob}] /\ bat' \in [Builder -> Stage]
        /\ DOMAIN img' = Builder /\ DOMAIN dig' = Builder
        /\ img' = [c \in Builder |-> img'[c]] /\ dig' = [c \in Builder |-> dig'[c]]
    BY DEF IbInv, IbTypes
  <2>2. \A c \in Builder : img'[c] \in ImageOf(c)
    BY <1>1 DEF IbInv, IbTypes
  <2> QED
    BY <2>1, <2>2 DEF IbInv, IbTypes, published
<1>3. Builds'
  BY <1>1 DEF IbInv, Builds
<1>4. \A c \in Builder : bat'[c] \in Publishing =>
        bat'[c] = bat[c] /\ dig'[c] = dig[c] /\ job'[c] = job[c]
  BY <1>1
<1>5. \A c \in Builder : bat[c] \in Publishing => bat'[c] = bat[c]
  BY <1>1
<1>6. UNCHANGED <<out, side, check, manifest, alone>>
  BY DEF published
<1>7. Books'
  BY <1>4, <1>6 DEF IbInv, Books, Publishing
<1>8. PublishedWhole' /\ CompanionsAgree'
  BY <1>5, <1>6 DEF IbInv, PublishedWhole, CompanionsAgree
<1> QED
  BY <1>2, <1>3, <1>7, <1>8 DEF IbInv

LEMMA NoImageTyped == \A b \in Builder : NoImage \in ImageOf(b)
<1>1. NoFiles \in [Path -> Contents]
  BY DEF Nothing, Contents, NoFiles
<1>2. {} \in Binary
  BY DEF Binary
<1>3. TAKE b \in Builder
<1>4. NoJob \in Job \cup {NoJob}
  OBVIOUS
<1> HIDE DEF NoJob, NoFiles, Binary, Contents, Path, Job
<1> QED
  BY <1>1, <1>2, <1>4 DEF NoImage, ImageOf

LEMMA IbInvInit == IbInit => IbInv
<1> SUFFICES ASSUME IbInit PROVE IbInv
  OBVIOUS
<1>1. IbTypes
  <2>1. binary \in Binary /\ edits \in 0..MaxEdits /\ alone \in BOOLEAN
    <3>1. {} \in Binary /\ {"py"} \in Binary /\ Absent \in Binary
      BY DEF Binary
    <3>2. binary \in Binary
      BY <3>1 DEF IbInit
    <3>3. edits \in 0..MaxEdits /\ alone \in BOOLEAN
      BY JobsAssumption DEF IbInit
    <3> QED
      BY <3>2, <3>3
  <2>2. job \in [Builder -> Jobs \cup {NoJob}] /\ bat \in [Builder -> Stage]
    BY DEF IbInit, Stage
  <2>3. img = [b \in Builder |-> NoImage] /\ dig = [b \in Builder |-> NoImage]
    BY DEF IbInit
  <2> QED
    BY <2>1, <2>2, <2>3, NoImageTyped DEF IbTypes
<1>2. Builds
  BY DEF IbInit, Builds, Fits
<1> QED
  BY <1>1, <1>2 DEF IbInit, IbInv, Books, PublishedWhole, CompanionsAgree

-----------------------------------------------------------------------------
(* The steps that publish nothing *)

\* A build goes on to stage s with image m.
LEMMA GoesOn ==
  ASSUME IbInv, NEW b \in Builder, NEW s \in Stage \ Publishing, NEW m \in ImageOf(b),
         bat[b] \notin Publishing, s # "persist",
         bat' = [bat EXCEPT ![b] = s], img' = [img EXCEPT ![b] = m],
         Fits(s, job[b], m), binary' \in Binary, UNCHANGED <<edits, job, dig, published>>
  PROVE  IbInv'
<1>1. job' = [job EXCEPT ![b] = job[b]] /\ dig' = [dig EXCEPT ![b] = dig[b]]
      /\ job[b] \in Jobs \cup {NoJob}
  BY DEF IbInv, IbTypes
<1> QED
  BY <1>1, Moves

LEMMA Keeps ==
  ASSUME IbInv, NEW b \in Builder
  PROVE  /\ binary \in Binary /\ img[b] \in ImageOf(b) /\ bat[b] \in Stage
         /\ Fits(bat[b], job[b], img[b]) /\ job[b] \in Job \cup {NoJob}
         /\ (UNCHANGED img) => img' = [img EXCEPT ![b] = img[b]]
BY JobsAssumption DEF IbInv, IbTypes, Builds

LEMMA Aborts ==
  ASSUME IbInv, NEW b \in Builder, Abort(b), bat[b] \notin Publishing,
         UNCHANGED <<shared, job, dig>>
  PROVE  IbInv'
<1>1. Fits("done", job[b], NoImage) /\ "done" \in Stage \ Publishing
  BY DEF Fits, Stage, Publishing
<1>2. UNCHANGED <<edits, job, dig, published>> /\ binary' \in Binary
  BY Keeps DEF shared, published
<1> QED
  BY <1>1, <1>2, GoesOn, NoImageTyped DEF Abort

\* The files at the paths in ps replaced.
With(m, ps, f) == [by |-> m.by, job |-> m.job, gate |-> m.gate,
                   files |-> [p \in Path |-> IF p \in ps THEN f ELSE m.files[p]]]

LEMMA Puts ==
  ASSUME IbInv, NEW b \in Builder, NEW ps, NEW f \in Contents
  PROVE  /\ PutFiles(b, ps, f) = [img EXCEPT ![b] = With(img[b], ps, f)]
         /\ With(img[b], ps, f) \in ImageOf(b)
         /\ With(img[b], ps, f).job = img[b].job /\ With(img[b], ps, f).gate = img[b].gate
         /\ \A p \in Path : With(img[b], ps, f).files[p] = IF p \in ps THEN f ELSE img[b].files[p]
<1> DEFINE m == img[b]
           g == [p \in Path |-> IF p \in ps THEN f ELSE m.files[p]]
<1>1. m \in ImageOf(b)
  BY Keeps
<1>2. /\ m.files \in [Path -> Contents] /\ m.by \in {b, "nobody"} /\ m.job \in Job \cup {NoJob}
      /\ m.gate \in Binary
  BY <1>1 DEF ImageOf
<1>3. g \in [Path -> Contents] /\ \A p \in Path : g[p] = IF p \in ps THEN f ELSE m.files[p]
  <2> HIDE DEF m
  <2> QED
    BY <1>2
<1>4. [m EXCEPT !.files = g] = With(m, ps, f)
  <2>1. m = [by |-> m.by, job |-> m.job, gate |-> m.gate, files |-> m.files]
    BY <1>1 DEF ImageOf
  <2> HIDE DEF m
  <2> QED
    BY <2>1 DEF With
<1>5. PutFiles(b, ps, f) = [img EXCEPT ![b] = [m EXCEPT !.files = g]]
  BY DEF PutFiles
<1> HIDE DEF g, m
<1>6. /\ With(m, ps, f) \in ImageOf(b) /\ With(m, ps, f).job = m.job
      /\ With(m, ps, f).gate = m.gate /\ With(m, ps, f).files = g
  BY <1>2, <1>3 DEF With, ImageOf, g
<1> QED
  BY <1>3, <1>4, <1>5, <1>6 DEF m

LEMMA IbStart ==
  ASSUME IbInv, NEW b \in Builder, NEW j \in Jobs, StartBuild(b, j)
  PROVE  IbInv'
<1> DEFINE s == CASE j.kind = "staging" -> "validate"
                  [] j.kind = "rootfs" -> "gate"
                  [] OTHER -> "static"
<1>1. /\ bat' = [bat EXCEPT ![b] = s] /\ job' = [job EXCEPT ![b] = j] /\ bat[b] \notin Publishing
      /\ s \in Stage \ Publishing
  BY DEF StartBuild, Stage, Publishing
<1>2. /\ img' = [img EXCEPT ![b] = img[b]] /\ dig' = [dig EXCEPT ![b] = dig[b]]
      /\ img[b] \in ImageOf(b) /\ binary' \in Binary /\ UNCHANGED <<edits, published>>
  BY DEF IbInv, IbTypes, StartBuild, shared, published
<1>3. j \in Jobs \cup {NoJob}
  OBVIOUS
<1>4. Fits(s, j, img[b]) /\ s # "persist"
  BY DEF Fits
<1> HIDE DEF s
<1> QED
  BY <1>1, <1>2, <1>3, <1>4, Moves

LEMMA IbBuildStatic ==
  ASSUME IbInv, NEW b \in Builder, BuildStatic(b)
  PROVE  IbInv'
<1>0. job[b] \in Jobs
  BY Keeps DEF BuildStatic, Fits
<1>1. job[b].kind # "staging"
  BY Keeps DEF BuildStatic, Fits
<1>2. After(b) = "gate" /\ bat[b] \notin Publishing
  BY <1>1, NextStage DEF BuildStatic, Publishing
<1>3. "gate" \in Stage \ Publishing /\ Fits("gate", job[b], img[b])
  BY <1>0 DEF Stage, Publishing, Fits
<1>4. job[b] \in Job
  BY <1>0, JobsAssumption
<1>5. binary' \in Binary
  BY <1>4 DEF BuildStatic, Binary, Job
<1> QED
  BY <1>2, <1>3, <1>5, Keeps, GoesOn DEF BuildStatic, Advance

LEMMA IbValidate ==
  ASSUME IbInv, NEW b \in Builder, ValidateManifest(b)
  PROVE  IbInv'
<1>1. job[b].kind = "staging" /\ bat[b] \notin Publishing
  BY Keeps DEF ValidateManifest, Fits, Publishing
<1>2. After(b) = "gate" /\ "gate" \in Stage \ Publishing /\ Fits("gate", job[b], img[b])
  BY <1>1, Keeps, NextStage DEF ValidateManifest, Stage, Publishing, Fits
<1>3. CASE Abort(b)
  BY <1>1, <1>3, Aborts DEF ValidateManifest
<1>4. CASE Advance(b) /\ UNCHANGED img
  <2>1. binary' \in Binary /\ UNCHANGED <<edits, job, dig, published>>
    BY Keeps DEF ValidateManifest, shared, published
  <2> QED
    BY <1>1, <1>2, <1>4, <2>1, Keeps, GoesOn DEF Advance
<1> QED
  BY <1>3, <1>4 DEF ValidateManifest

LEMMA IbGate ==
  ASSUME IbInv, NEW b \in Builder, Gate(b)
  PROVE  IbInv'
<1> DEFINE m == [by |-> b, job |-> job[b], gate |-> binary, files |-> NoFiles]
<1>1. bat[b] \notin Publishing
  BY DEF Gate, Publishing
<1>2. CASE Abort(b)
  BY <1>1, <1>2, Aborts DEF Gate
<1>3. CASE Advance(b) /\ img' = [img EXCEPT ![b] = m] /\ (job[b].py => "py" \in binary)
  <2>1. binary' \in Binary /\ UNCHANGED <<edits, job, dig, published>>
    BY Keeps DEF Gate, shared, published
  <2>2. After(b) = "format" /\ "format" \in Stage \ Publishing
    BY NextStage DEF Gate, Stage, Publishing
  <2>3. m \in ImageOf(b)
    <3>1. NoFiles \in [Path -> Contents]
      BY NoImageTyped DEF NoImage, ImageOf
    <3> HIDE DEF Path, Contents
    <3> QED
      BY <3>1, Keeps DEF ImageOf
  <2>4. m.files["forbidden"] = Nothing
    BY DEF NoFiles, Path
  <2>5. job[b] \in Jobs
    BY Keeps DEF Gate, Fits
  <2>6. Fits("format", job[b], m)
    BY <1>3, <2>4, <2>5 DEF Fits
  <2> HIDE DEF m
  <2> QED
    BY <1>1, <1>3, <2>1, <2>2, <2>3, <2>6, GoesOn DEF Advance
<1> QED
  BY <1>2, <1>3 DEF Gate

LEMMA IbFormat ==
  ASSUME IbInv, NEW b \in Builder, Format(b)
  PROVE  IbInv'
<1>1. bat[b] = "format" /\ bat[b] \notin Publishing /\ Fits("format", job[b], img[b])
  BY Keeps DEF Format, Publishing
<1>2. binary' \in Binary /\ UNCHANGED <<edits, job, img, dig, published>>
  BY Keeps DEF Format, shared, published
<1>3. After(b) = IF job[b].kind = "staging" THEN "inject" ELSE "layout"
  BY <1>1, NextStage
<1>4. Fits(After(b), job[b], img[b]) /\ After(b) \in Stage \ Publishing /\ After(b) # "persist"
  BY <1>1, <1>3 DEF Fits, Stage, Publishing
<1> QED
  BY <1>1, <1>2, <1>4, Keeps, GoesOn DEF Format, Advance

LEMMA IbLayout ==
  ASSUME IbInv, NEW b \in Builder, Layout(b)
  PROVE  IbInv'
<1>1. bat[b] = "layout" /\ bat[b] \notin Publishing /\ Fits("layout", job[b], img[b])
  BY Keeps DEF Layout, Publishing
<1>2. binary' \in Binary /\ UNCHANGED <<edits, job, dig, published>>
  BY Keeps DEF Layout, shared, published
<1>3. After(b) = "runtime" /\ "runtime" \in Stage \ Publishing
  BY <1>1, NextStage DEF Fits, Stage, Publishing
<1>4. PICK m \in ImageOf(b) : /\ img' = [img EXCEPT ![b] = m] /\ m.job = img[b].job
                              /\ m.gate = img[b].gate
                              /\ m.files["forbidden"] = img[b].files["forbidden"]
  <2>1. CASE UNCHANGED img
    BY <2>1, Keeps
  <2>2. CASE img' = ForceWrite(b, {"sh"}, File("busybox", {}, FALSE))
    <3> DEFINE f == File("busybox", {}, TRUE)
               m == With(img[b], {"sh"}, f)
    <3>1. f \in Contents
      BY DEF File, Contents
    <3>2. img' = PutFiles(b, {"sh"}, f)
      BY <2>2 DEF ForceWrite, File
    <3> HIDE DEF f
    <3>3. /\ m \in ImageOf(b) /\ img' = [img EXCEPT ![b] = m]
          /\ m.job = img[b].job /\ m.gate = img[b].gate
          /\ m.files["forbidden"] = img[b].files["forbidden"]
      BY <3>1, <3>2, Puts DEF Path
    <3> HIDE DEF m
    <3> QED
      BY <3>3
  <2> QED
    BY <2>1, <2>2 DEF Layout
<1>5. Fits("runtime", job[b], m)
  BY <1>1, <1>4 DEF Fits
<1> QED
  BY <1>1, <1>2, <1>3, <1>4, <1>5, GoesOn DEF Layout, Advance

LEMMA IbInstallRuntime ==
  ASSUME IbInv, NEW b \in Builder, InstallRuntime(b)
  PROVE  IbInv'
<1> DEFINE ps == IF job[b].mode = "forkd-agent" THEN {"install", "boot"} ELSE {"install"}
           f == File("runtime", binary, TRUE)
           m == With(img[b], ps, f)
<1>1. bat[b] = "runtime" /\ bat[b] \notin Publishing /\ Fits("runtime", job[b], img[b])
  BY Keeps DEF InstallRuntime, Publishing
<1>2. binary' \in Binary /\ UNCHANGED <<edits, job, dig, published>>
  BY Keeps DEF InstallRuntime, shared, published
<1>3. After(b) = "marker" /\ "marker" \in Stage \ Publishing
  BY <1>1, NextStage DEF Fits, Stage, Publishing
<1>4. f \in Contents
  <2>1. binary \in SUBSET (Nat \cup Modes \cup {"py", "other", "absent"})
    BY Keeps DEF Binary, Absent
  <2> QED
    BY <2>1 DEF File, Contents
<1>5. img' = PutFiles(b, ps, f) /\ f.from = "runtime" /\ ExecutableRegular(f)
  BY DEF InstallRuntime, ForceWrite, File, ExecutableRegular
<1> HIDE DEF f, ps
<1>6. /\ m \in ImageOf(b) /\ img' = [img EXCEPT ![b] = m]
      /\ m.job = img[b].job /\ m.gate = img[b].gate
      /\ \A p \in Path : m.files[p] = IF p \in ps THEN f ELSE img[b].files[p]
  BY <1>4, <1>5, Puts
<1> HIDE DEF m
<1>7. /\ m.files["forbidden"] = img[b].files["forbidden"] /\ m.files["install"] = f
      /\ m.files[Entrypoint(job[b].mode)] = f
  BY <1>6 DEF ps, Path, Entrypoint
<1>8. Fits("marker", job[b], m)
  BY <1>1, <1>5, <1>6, <1>7 DEF Fits
<1> QED
  BY <1>1, <1>2, <1>3, <1>6, <1>8, GoesOn DEF InstallRuntime, Advance

LEMMA IbWriteMarkers ==
  ASSUME IbInv, NEW b \in Builder, WriteMarkers(b)
  PROVE  IbInv'
<1>1. bat[b] = "marker" /\ bat[b] \notin Publishing /\ Fits("marker", job[b], img[b])
  BY Keeps DEF WriteMarkers, Publishing
<1>2. binary' \in Binary /\ UNCHANGED <<edits, job, dig, published>>
  BY Keeps DEF WriteMarkers, shared, published
<1>3. After(b) = "verify" /\ "verify" \in Stage \ Publishing
  BY <1>1, NextStage DEF Fits, Stage, Publishing
<1>4. CASE job[b].mode = "forkd-agent"
  <2>1. img' = [img EXCEPT ![b] = img[b]] /\ img[b] \in ImageOf(b)
    BY <1>4, Keeps DEF WriteMarkers
  <2>2. Fits("verify", job[b], img[b])
    BY <1>1, <1>4 DEF Fits
  <2> QED
    BY <1>1, <1>2, <1>3, <2>1, <2>2, GoesOn DEF WriteMarkers, Advance
<1>5. CASE job[b].mode # "forkd-agent"
  <2> DEFINE f == File("marker", {job[b].mode}, FALSE)
             m == With(img[b], {"marker"}, f)
  <2>1. f \in Contents /\ f.from = "marker"
    <3>1. job[b] \in Job
      BY <1>1, JobsAssumption DEF Fits
    <3>2. job[b].mode \in Modes
      BY <3>1 DEF Job
    <3> QED
      BY <3>2 DEF File, Contents
  <2>2. img' = PutFiles(b, {"marker"}, f)
    BY <1>5 DEF WriteMarkers
  <2> HIDE DEF f
  <2>3. /\ m \in ImageOf(b) /\ img' = [img EXCEPT ![b] = m]
        /\ m.job = img[b].job /\ m.gate = img[b].gate
        /\ \A p \in Path : m.files[p] = IF p \in {"marker"} THEN f ELSE img[b].files[p]
    BY <2>1, <2>2, Puts
  <2> HIDE DEF m
  <2>4. /\ m.files["marker"] = f
        /\ \A p \in {"forbidden", "install", "boot"} : m.files[p] = img[b].files[p]
    BY <2>3 DEF Path
  <2>5. Entrypoint(job[b].mode) \in {"install", "boot"}
    BY DEF Entrypoint
  <2>6. Fits("verify", job[b], m)
    BY <1>1, <2>1, <2>3, <2>4, <2>5 DEF Fits
  <2> QED
    BY <1>1, <1>2, <1>3, <2>3, <2>6, GoesOn DEF WriteMarkers, Advance
<1> QED
  BY <1>4, <1>5

LEMMA IbVerify ==
  ASSUME IbInv, NEW b \in Builder, Verify(b)
  PROVE  IbInv'
<1>1. bat[b] = "verify" /\ bat[b] \notin Publishing /\ Fits("verify", job[b], img[b])
  BY Keeps DEF Verify, Publishing
<1>2. binary' \in Binary /\ UNCHANGED <<edits, job, dig, published>>
  BY Keeps DEF Verify, shared, published
<1>3. After(b) = "userland" /\ "userland" \in Stage \ Publishing
  BY <1>1, NextStage DEF Fits, Stage, Publishing
<1>4. Fits("userland", job[b], img[b])
  BY <1>1 DEF Fits
<1>5. CASE Abort(b)
  BY <1>1, <1>5, Aborts DEF Verify
<1>6. CASE Advance(b) /\ UNCHANGED img
  BY <1>1, <1>2, <1>3, <1>4, <1>6, Keeps, GoesOn DEF Advance
<1> QED
  BY <1>5, <1>6 DEF Verify

LEMMA IbInstallUserland ==
  ASSUME IbInv, NEW b \in Builder, InstallUserland(b)
  PROVE  IbInv'
<1> DEFINE f == File("mini", {}, TRUE)
           m == With(img[b], {"applet"}, f)
<1>1. bat[b] = "userland" /\ bat[b] \notin Publishing /\ Fits("userland", job[b], img[b])
  BY Keeps DEF InstallUserland, Publishing
<1>2. binary' \in Binary /\ UNCHANGED <<edits, job, dig, published>>
  BY Keeps DEF InstallUserland, shared, published
<1>3. After(b) = "link" /\ "link" \in Stage \ Publishing
  BY <1>1, NextStage DEF Fits, Stage, Publishing
<1>4. CASE Abort(b)
  BY <1>1, <1>4, Aborts DEF InstallUserland
<1>5. CASE job[b].mode # "zeroboot-zbrt" /\ Advance(b) /\ UNCHANGED img
  <2>1. Fits("link", job[b], img[b])
    BY <1>1, <1>5 DEF Fits
  <2> QED
    BY <1>1, <1>2, <1>3, <1>5, <2>1, Keeps, GoesOn DEF Advance
<1>6. CASE img' = ForceWrite(b, {"applet"}, File("mini", {}, FALSE)) /\ Advance(b)
  <2>1. f \in Contents /\ f.from = "mini"
    BY DEF File, Contents
  <2>2. img' = PutFiles(b, {"applet"}, f)
    BY <1>6 DEF ForceWrite, File
  <2> HIDE DEF f
  <2>3. /\ m \in ImageOf(b) /\ img' = [img EXCEPT ![b] = m]
        /\ m.job = img[b].job /\ m.gate = img[b].gate
        /\ \A p \in Path : m.files[p] = IF p \in {"applet"} THEN f ELSE img[b].files[p]
    BY <2>1, <2>2, Puts
  <2> HIDE DEF m
  <2>4. /\ m.files["applet"] = f
        /\ \A p \in {"forbidden", "install", "boot", "marker"} : m.files[p] = img[b].files[p]
    BY <2>3 DEF Path
  <2>5. Entrypoint(job[b].mode) \in {"install", "boot"}
    BY DEF Entrypoint
  <2>6. Fits("link", job[b], m)
    BY <1>1, <2>1, <2>3, <2>4, <2>5 DEF Fits
  <2> QED
    BY <1>1, <1>2, <1>3, <1>6, <2>3, <2>6, GoesOn DEF Advance
<1> QED
  BY <1>4, <1>5, <1>6 DEF InstallUserland

LEMMA IbLinkInterpreters ==
  ASSUME IbInv, NEW b \in Builder, LinkInterpreters(b)
  PROVE  IbInv'
<1> DEFINE e == Entrypoint(job[b].mode)
           f == img[b].files[e]
           m == With(img[b], {"python"}, f)
<1>1. bat[b] = "link" /\ bat[b] \notin Publishing /\ Fits("link", job[b], img[b])
  BY Keeps DEF LinkInterpreters, Publishing
<1>2. binary' \in Binary /\ UNCHANGED <<edits, job, dig, published>>
  BY Keeps DEF LinkInterpreters, shared, published
<1>3. After(b) = "extra" /\ "extra" \in Stage \ Publishing
  BY <1>1, NextStage DEF Fits, Stage, Publishing
<1>4. CASE ~job[b].py
  <2>1. img' = [img EXCEPT ![b] = img[b]] /\ img[b] \in ImageOf(b)
    BY <1>4, Keeps DEF LinkInterpreters
  <2>2. Fits("extra", job[b], img[b])
    BY <1>1, <1>4 DEF Fits
  <2> QED
    BY <1>1, <1>2, <1>3, <2>1, <2>2, GoesOn DEF LinkInterpreters, Advance
<1>5. CASE job[b].py
  <2>1. e \in {"install", "boot"}
    BY DEF Entrypoint
  <2>2. f \in Contents
    <3>1. img[b].files \in [Path -> Contents] /\ e \in Path
      BY <2>1, Keeps DEF ImageOf, Path
    <3> QED
      BY <3>1
  <2>3. img' = PutFiles(b, {"python"}, f)
    BY <1>5 DEF LinkInterpreters, InstallHardlink
  <2> HIDE DEF f, e
  <2>4. /\ m \in ImageOf(b) /\ img' = [img EXCEPT ![b] = m]
        /\ m.job = img[b].job /\ m.gate = img[b].gate
        /\ \A p \in Path : m.files[p] = IF p \in {"python"} THEN f ELSE img[b].files[p]
    BY <2>2, <2>3, Puts
  <2> HIDE DEF m
  <2>5. /\ m.files["python"] = f
        /\ \A p \in {"forbidden", "install", "boot", "marker", "applet"} :
             m.files[p] = img[b].files[p]
    BY <2>4 DEF Path
  <2>6. m.files["python"] = m.files[e]
    BY <2>1, <2>5 DEF f
  <2>7. Fits("extra", job[b], m)
    BY <1>1, <2>1, <2>4, <2>5, <2>6 DEF Fits, e
  <2> QED
    BY <1>1, <1>2, <1>3, <2>4, <2>7, GoesOn DEF LinkInterpreters, Advance
<1> QED
  BY <1>4, <1>5

LEMMA IbInstallPayload ==
  ASSUME IbInv, NEW b \in Builder, InstallPayload(b)
  PROVE  IbInv'
<1> DEFINE f == File("host", {}, FALSE)
           j == job[b]
           e == Entrypoint(j.mode)
           m == With(img[b], j.extra, f)
<1>1. bat[b] = "extra" /\ bat[b] \notin Publishing /\ Fits("extra", j, img[b])
  BY Keeps DEF InstallPayload, Publishing
<1>2. binary' \in Binary /\ UNCHANGED <<edits, job, dig, published>>
  BY Keeps DEF InstallPayload, shared, published
<1>3. After(b) = "digest" /\ "digest" \in Stage \ Publishing
  BY <1>1, NextStage DEF Fits, Stage, Publishing
<1>4. f \in Contents
  BY DEF File, Contents
<1>5. img' = PutFiles(b, j.extra, f)
  BY DEF InstallPayload
<1> HIDE DEF f
<1>6. /\ m \in ImageOf(b) /\ img' = [img EXCEPT ![b] = m]
      /\ m.job = img[b].job /\ m.gate = img[b].gate
      /\ \A p \in Path : m.files[p] = IF p \in j.extra THEN f ELSE img[b].files[p]
  BY <1>4, <1>5, Puts
<1> HIDE DEF m
<1>7. \A p \in Path \ j.extra : m.files[p] = img[b].files[p]
  BY <1>6
<1>8. m.job = j /\ j.kind # "staging" /\ (j.py => "py" \in m.gate)
  BY <1>1, <1>6 DEF Fits
<1>9. e \in {"install", "boot"} /\ e \in Path
  BY DEF Entrypoint, Path
<1>10. Whole(m)
  <2>1. e \in j.extra \/ ExecutableRegular(m.files[e])
    BY <1>1, <1>7, <1>9 DEF Fits
  <2>2. "install" \in j.extra \/ m.files["install"].from = "runtime"
    BY <1>1, <1>7 DEF Fits, Path
  <2>3. "marker" \in j.extra \/ j.mode = "forkd-agent" \/ m.files["marker"].from = "marker"
    BY <1>1, <1>7 DEF Fits, Path
  <2>4. "forbidden" \in j.extra \/ m.files["forbidden"] = Nothing
    BY <1>1, <1>7 DEF Fits, Path
  <2>5. "applet" \in j.extra \/ (j.mode = "zeroboot-zbrt" => m.files["applet"].from = "mini")
    BY <1>1, <1>7 DEF Fits, Path
  <2>6. j.py /\ {e, "python"} \cap j.extra = {} => m.files["python"] = m.files[e]
    BY <1>1, <1>7, <1>9 DEF Fits, Path
  <2> HIDE DEF j
  <2> QED
    BY <1>8, <2>1, <2>2, <2>3, <2>4, <2>5, <2>6 DEF Whole
<1>11. Fits("digest", j, m)
  BY <1>1, <1>8, <1>10 DEF Fits
<1> QED
  BY <1>1, <1>2, <1>3, <1>6, <1>11, GoesOn DEF InstallPayload, Advance

LEMMA IbInject ==
  ASSUME IbInv, NEW b \in Builder, Inject(b)
  PROVE  IbInv'
<1> DEFINE f == File("staged", {0}, TRUE)
           m == With(img[b], {"staged"}, f)
<1>1. bat[b] = "inject" /\ bat[b] \notin Publishing /\ Fits("inject", job[b], img[b])
  BY Keeps DEF Inject, Publishing
<1>2. binary' \in Binary /\ UNCHANGED <<edits, job, dig, published>>
  BY Keeps DEF Inject, shared, published
<1>3. After(b) = "digest" /\ "digest" \in Stage \ Publishing
  BY <1>1, NextStage DEF Fits, Stage, Publishing
<1>4. CASE Abort(b)
  BY <1>1, <1>4, Aborts DEF Inject
<1>5. CASE img' = PutFiles(b, {"staged"}, f) /\ Advance(b)
  <2>1. f \in Contents
    BY DEF File, Contents
  <2> HIDE DEF f
  <2>2. /\ m \in ImageOf(b) /\ img' = [img EXCEPT ![b] = m]
        /\ m.job = img[b].job /\ m.gate = img[b].gate
        /\ \A p \in Path : m.files[p] = IF p \in {"staged"} THEN f ELSE img[b].files[p]
    BY <1>5, <2>1, Puts
  <2> HIDE DEF m
  <2>3. m.files["staged"] = File("staged", {0}, TRUE)
    BY <2>2 DEF Path, f
  <2>4. Whole(m)
    BY <1>1, <2>2, <2>3 DEF Whole, Fits
  <2>5. Fits("digest", job[b], m)
    BY <1>1, <2>2, <2>4 DEF Fits
  <2> QED
    BY <1>1, <1>2, <1>3, <1>5, <2>2, <2>5, GoesOn DEF Advance
<1> QED
  BY <1>4, <1>5 DEF Inject

LEMMA IbDigest ==
  ASSUME IbInv, NEW b \in Builder, Digest(b)
  PROVE  IbInv'
<1>1. bat[b] = "digest" /\ bat[b] \notin Publishing /\ Fits("digest", job[b], img[b])
  BY Keeps DEF Digest, Publishing
<1>2. binary' \in Binary /\ UNCHANGED <<edits, published>>
  BY Keeps DEF Digest, shared, published
<1>3. After(b) = "persist" /\ "persist" \in Stage \ Publishing
  BY <1>1, NextStage DEF Stage, Publishing
<1>4. Fits("persist", job[b], img[b])
  BY <1>1 DEF Fits
<1>5. job' = [job EXCEPT ![b] = job[b]] /\ job[b] \in Jobs \cup {NoJob}
  BY DEF IbInv, IbTypes, Digest
<1>6. bat' = [bat EXCEPT ![b] = "persist"] /\ dig' = [dig EXCEPT ![b] = img[b]]
  BY <1>3 DEF Digest, Advance
<1>7. img' = [img EXCEPT ![b] = img[b]] /\ img[b] \in ImageOf(b)
  BY Keeps DEF Digest
<1> QED
  BY <1>1, <1>2, <1>3, <1>4, <1>5, <1>6, <1>7, Moves

-----------------------------------------------------------------------------
(* The steps that publish *)

\* What a step of one build to stage s, with image m, leaves to the others.
LEMMA Elsewhere ==
  ASSUME IbInv, NEW b \in Builder, NEW s \in Stage, NEW m \in ImageOf(b), s # "persist",
         bat' = [bat EXCEPT ![b] = s], img' = [img EXCEPT ![b] = m],
         UNCHANGED <<binary, edits, job, dig>>, alone' \in BOOLEAN, Fits(s, job[b], m)
  PROVE  /\ IbTypes' /\ Builds'
         /\ bat'[b] = s /\ \A c \in Builder \ {b} : bat'[c] = bat[c]
<1>1. /\ \A c \in Builder \ {b} : bat'[c] = bat[c] /\ img'[c] = img[c]
      /\ bat'[b] = s /\ img'[b] = m
  BY DEF IbInv, IbTypes
<1>2. IbTypes'
  <2>1. /\ bat' \in [Builder -> Stage] /\ DOMAIN img' = Builder
        /\ img' = [c \in Builder |-> img'[c]]
    BY DEF IbInv, IbTypes
  <2>2. \A c \in Builder : img'[c] \in ImageOf(c)
    BY <1>1 DEF IbInv, IbTypes
  <2> QED
    BY <2>1, <2>2 DEF IbInv, IbTypes
<1>3. Builds'
  BY <1>1 DEF IbInv, Builds
<1> QED
  BY <1>1, <1>2, <1>3

LEMMA IbPersist ==
  ASSUME IbInv, NEW b \in Builder, Persist(b)
  PROVE  IbInv'
<1>1. /\ bat[b] = "persist" /\ Fits("persist", job[b], img[b]) /\ dig[b] = img[b]
      /\ img[b] \in ImageOf(b)
  BY Keeps DEF Persist, IbInv, Builds
<1>2. bat' = [bat EXCEPT ![b] = "sidecar"] /\ "sidecar" \in Stage
  BY <1>1, NextStage DEF Persist, Advance, Stage, Publishing
<1>3. Fits("sidecar", job[b], img[b])
  BY <1>1 DEF Fits
<1>4. /\ UNCHANGED <<binary, edits, job, dig>> /\ alone' \in BOOLEAN
      /\ img' = [img EXCEPT ![b] = img[b]] /\ out' = img[b]
      /\ alone' => \A c \in Builder \ {b} : bat[c] \notin Publishing
  BY Keeps DEF Persist
<1>5. /\ IbTypes' /\ Builds' /\ bat'[b] = "sidecar"
      /\ \A c \in Builder \ {b} : bat'[c] = bat[c]
  BY <1>1, <1>2, <1>3, <1>4, Elsewhere
<1>6. Whole(img[b]) /\ img[b].job = job[b]
  BY <1>1 DEF Fits
<1>7. "sidecar" \in Publishing
  BY DEF Publishing
<1>8. Books'
  <2>1. alone' => \A c \in Builder : bat'[c] \in Publishing => c = b
    BY <1>4, <1>5
  <2>2. dig'[b] = out' /\ out'.job = job'[b]
    BY <1>1, <1>4, <1>6
  <2>3. {"checksum", "compact"} \subseteq Publishing
    BY DEF Publishing
  <2> QED
    BY <1>5, <2>1, <2>2, <2>3 DEF Books
<1>9. PublishedWhole'
  BY <1>4, <1>6 DEF PublishedWhole
<1>10. CompanionsAgree'
  BY <1>5, <1>7 DEF CompanionsAgree
<1> QED
  BY <1>5, <1>8, <1>9, <1>10 DEF IbInv

\* A build that gives up its companions: nobody vouches for them any more.
LEMMA GivesUp ==
  ASSUME IbInv, NEW b \in Builder, Abort(b), alone' = FALSE,
         UNCHANGED <<binary, edits, job, dig, out>>
  PROVE  IbInv'
<1>1. "done" \in Stage /\ Fits("done", job[b], NoImage) /\ alone' \in BOOLEAN
  BY DEF Stage, Fits, Publishing
<1>2. IbTypes' /\ Builds'
  BY <1>1, Elsewhere, NoImageTyped DEF Abort
<1>3. Books' /\ CompanionsAgree'
  BY DEF Books, CompanionsAgree
<1>4. PublishedWhole'
  BY DEF IbInv, PublishedWhole
<1> QED
  BY <1>2, <1>3, <1>4 DEF IbInv

LEMMA IbWriteSidecar ==
  ASSUME IbInv, NEW b \in Builder, WriteSidecar(b)
  PROVE  IbInv'
<1>1. bat[b] = "sidecar" /\ UNCHANGED <<binary, edits, job, dig, out, check, manifest>>
  BY DEF WriteSidecar
<1>2. CASE Abort(b) /\ alone' = FALSE
  BY <1>1, <1>2, GivesUp
<1>3. CASE side' = dig[b] /\ Advance(b) /\ UNCHANGED <<img, alone>>
  <2>1. After(b) = IF job[b].kind = "staging" THEN "done" ELSE "checksum"
    BY <1>1, NextStage
  <2>2. After(b) \in Stage /\ After(b) # "persist"
    BY <2>1 DEF Stage, Publishing
  <2>3. Fits(After(b), job[b], img[b])
    BY <1>1, <2>1, Keeps DEF Fits
  <2>4. alone' \in BOOLEAN /\ img' = [img EXCEPT ![b] = img[b]] /\ img[b] \in ImageOf(b)
    BY <1>3, Keeps DEF IbInv, IbTypes
  <2>5. bat' = [bat EXCEPT ![b] = After(b)]
    BY <1>3 DEF Advance
  <2>6. /\ IbTypes' /\ Builds' /\ bat'[b] = After(b)
        /\ \A c \in Builder \ {b} : bat'[c] = bat[c]
    BY <1>1, <2>2, <2>3, <2>4, <2>5, Elsewhere
  <2>7. alone /\ out # NoImage =>
          /\ \A c \in Builder : bat[c] \in Publishing => c = b
          /\ dig[b] = out /\ out.job = job[b]
    BY <1>1 DEF IbInv, Books, Publishing
  <2>8. alone /\ out # NoImage => \A c \in Builder : bat'[c] \in Publishing => c = b
    BY <2>6, <2>7
  <2>9. Books'
    BY <1>1, <1>3, <2>1, <2>6, <2>7, <2>8 DEF Books, Publishing
  <2>10. PublishedWhole'
    BY <1>1 DEF IbInv, PublishedWhole
  <2>11. CompanionsAgree'
    BY <1>1, <1>3, <2>1, <2>6, <2>7 DEF CompanionsAgree, Publishing
  <2> QED
    BY <2>6, <2>9, <2>10, <2>11 DEF IbInv
<1> QED
  BY <1>2, <1>3 DEF WriteSidecar

LEMMA IbWriteChecksum ==
  ASSUME IbInv, NEW b \in Builder, WriteChecksum(b)
  PROVE  IbInv'
<1>1. /\ bat[b] = "checksum" /\ check' = dig[b]
      /\ UNCHANGED <<binary, edits, job, img, dig, out, side, manifest, alone>>
  BY DEF WriteChecksum
<1>2. job[b].kind # "staging" /\ job[b] \in Jobs
  BY <1>1, Keeps DEF Fits
<1>3. bat' = [bat EXCEPT ![b] = "compact"] /\ "compact" \in Stage
  BY <1>1, <1>2, NextStage DEF WriteChecksum, Advance, Stage, Publishing
<1>4. Fits("compact", job[b], img[b])
  BY <1>2 DEF Fits
<1>5. /\ alone' \in BOOLEAN /\ img' = [img EXCEPT ![b] = img[b]] /\ img[b] \in ImageOf(b)
  BY <1>1, Keeps DEF IbInv, IbTypes
<1>6. /\ IbTypes' /\ Builds' /\ bat'[b] = "compact"
      /\ \A c \in Builder \ {b} : bat'[c] = bat[c]
  BY <1>1, <1>3, <1>4, <1>5, Elsewhere
<1>7. alone /\ out # NoImage =>
        /\ \A c \in Builder : bat[c] \in Publishing => c = b
        /\ dig[b] = out /\ out.job = job[b] /\ side = out
  BY <1>1 DEF IbInv, Books, Publishing
<1>8. alone /\ out # NoImage => \A c \in Builder : bat'[c] \in Publishing => c = b
  BY <1>6, <1>7
<1>9. Books'
  BY <1>1, <1>6, <1>7, <1>8 DEF Books, Publishing
<1>10. PublishedWhole'
  BY <1>1 DEF IbInv, PublishedWhole
<1>11. CompanionsAgree'
  BY <1>6 DEF CompanionsAgree, Publishing
<1> QED
  BY <1>6, <1>9, <1>10, <1>11 DEF IbInv

LEMMA IbWriteManifest ==
  ASSUME IbInv, NEW b \in Builder, WriteManifest(b)
  PROVE  IbInv'
<1>1. /\ bat[b] = "compact" /\ manifest' = dig[b]
      /\ UNCHANGED <<binary, edits, job, img, dig, out, side, check, alone>>
  BY DEF WriteManifest
<1>2. job[b].kind # "staging" /\ job[b] \in Jobs
  BY <1>1, Keeps DEF Fits
<1>3. After(b) \in {"boot", "done"}
  BY <1>1, <1>2, NextStage
<1>4. Fits(After(b), job[b], img[b]) /\ After(b) \in Stage \ Publishing /\ After(b) # "persist"
  BY <1>2, <1>3 DEF Fits, Stage, Publishing
<1>5. /\ alone' \in BOOLEAN /\ img' = [img EXCEPT ![b] = img[b]] /\ img[b] \in ImageOf(b)
      /\ bat' = [bat EXCEPT ![b] = After(b)]
  BY <1>1, Keeps DEF IbInv, IbTypes, WriteManifest, Advance
<1>6. /\ IbTypes' /\ Builds' /\ bat'[b] = After(b)
      /\ \A c \in Builder \ {b} : bat'[c] = bat[c]
  BY <1>1, <1>4, <1>5, Elsewhere
<1>7. alone /\ out # NoImage =>
        /\ \A c \in Builder : bat[c] \in Publishing => c = b
        /\ dig[b] = out /\ side = out /\ check = out
  BY <1>1 DEF IbInv, Books, Publishing
<1>8. alone /\ out # NoImage => \A c \in Builder : bat'[c] \notin Publishing
  BY <1>4, <1>6, <1>7
<1>9. Books'
  BY <1>1, <1>8 DEF Books, Publishing
<1>10. PublishedWhole'
  BY <1>1 DEF IbInv, PublishedWhole
<1>11. CompanionsAgree'
  BY <1>1, <1>7 DEF CompanionsAgree
<1> QED
  BY <1>6, <1>9, <1>10, <1>11 DEF IbInv

LEMMA IbBootCheck ==
  ASSUME IbInv, NEW b \in Builder, BootCheck(b)
  PROVE  IbInv'
<1>1. bat[b] = "boot" /\ bat[b] \notin Publishing /\ Fits("boot", job[b], img[b])
  BY Keeps DEF BootCheck, Publishing
<1>2. binary' \in Binary /\ UNCHANGED <<edits, job, dig, published>>
  BY Keeps DEF BootCheck, shared, published
<1>3. After(b) = "done" /\ "done" \in Stage \ Publishing /\ Fits("done", job[b], img[b])
  BY <1>1, NextStage DEF Fits, Stage, Publishing
<1>4. CASE Abort(b)
  BY <1>1, <1>4, Aborts DEF BootCheck
<1>5. CASE Advance(b) /\ UNCHANGED img
  BY <1>1, <1>2, <1>3, <1>5, Keeps, GoesOn DEF Advance
<1> QED
  BY <1>4, <1>5 DEF BootCheck

LEMMA IbBuildFails ==
  ASSUME IbInv, NEW b \in Builder, BuildFails(b)
  PROVE  IbInv'
<1>1. CASE bat[b] \in Publishing
  BY <1>1, GivesUp DEF BuildFails
<1>2. CASE bat[b] \notin Publishing
  <2>1. alone' = alone
    BY <1>2 DEF BuildFails, IbInv, IbTypes
  <2> QED
    BY <1>2, <2>1, Aborts DEF BuildFails, shared
<1> QED
  BY <1>1, <1>2

LEMMA IbEditStaging == IbInv /\ EditStaging => IbInv'
<1> SUFFICES ASSUME IbInv, EditStaging PROVE IbInv'
  OBVIOUS
<1>1. edits' \in 0..MaxEdits
  BY JobsAssumption DEF IbInv, IbTypes, EditStaging
<1> QED
  BY <1>1 DEF IbInv, IbTypes, Builds, Books, PublishedWhole, CompanionsAgree, EditStaging, published

LEMMA IbInvNext == IbInv /\ [IbNext]_ibvars => IbInv'
<1> SUFFICES ASSUME IbInv, [IbNext]_ibvars PROVE IbInv'
  OBVIOUS
<1>1. CASE UNCHANGED ibvars
  BY <1>1 DEF ibvars, IbInv, IbTypes, Builds, Books, PublishedWhole, CompanionsAgree
<1>2. CASE EditStaging
  BY <1>2, IbEditStaging
<1>3. ASSUME NEW b \in Builder,
             \/ \E j \in Jobs : StartBuild(b, j)
             \/ BuildStatic(b) \/ ValidateManifest(b) \/ Gate(b) \/ Format(b) \/ Layout(b)
             \/ InstallRuntime(b) \/ WriteMarkers(b) \/ Verify(b) \/ InstallUserland(b)
             \/ LinkInterpreters(b) \/ InstallPayload(b) \/ Inject(b) \/ Digest(b)
             \/ Persist(b) \/ WriteSidecar(b) \/ WriteChecksum(b) \/ WriteManifest(b)
             \/ BootCheck(b) \/ BuildFails(b)
      PROVE  IbInv'
  BY <1>3, IbStart, IbBuildStatic, IbValidate, IbGate, IbFormat, IbLayout, IbInstallRuntime,
     IbWriteMarkers, IbVerify, IbInstallUserland, IbLinkInterpreters, IbInstallPayload, IbInject,
     IbDigest, IbPersist, IbWriteSidecar, IbWriteChecksum, IbWriteManifest, IbBootCheck,
     IbBuildFails
<1> QED
  BY <1>1, <1>2, <1>3 DEF IbNext

\* The stages are those of the two orders.
LEMMA StagesTyped == IbInv => IbTypeOK
<1> SUFFICES ASSUME IbInv PROVE IbTypeOK
  OBVIOUS
<1>1. \A s \in Stage : s \in {Order[i] : i \in DOMAIN Order}
                              \cup {StagingOrder[i] : i \in DOMAIN StagingOrder} \cup {"idle"}
  <2>1. \A i \in 1..17 : Order[i] \in {Order[k] : k \in DOMAIN Order}
    BY OrderIs
  <2>2. \A i \in 1..8 : StagingOrder[i] \in {StagingOrder[k] : k \in DOMAIN StagingOrder}
    BY StagingIs
  <2>3. {"static", "gate", "format", "layout", "runtime", "marker", "verify", "userland", "link",
         "extra", "digest", "persist", "sidecar", "checksum", "compact", "boot", "done"}
          \subseteq {Order[k] : k \in DOMAIN Order}
    <3> DEFINE S == {Order[k] : k \in DOMAIN Order}
    <3> HIDE DEF S
    <3> QED
      BY <2>1, OrderIs DEF S
  <2>4. {"validate", "inject"} \subseteq {StagingOrder[k] : k \in DOMAIN StagingOrder}
    <3> DEFINE S == {StagingOrder[k] : k \in DOMAIN StagingOrder}
    <3> HIDE DEF S
    <3> QED
      BY <2>2, StagingIs DEF S
  <2> DEFINE S == {Order[k] : k \in DOMAIN Order}
             R == {StagingOrder[k] : k \in DOMAIN StagingOrder}
  <2> HIDE DEF S, R
  <2>5. \A s \in Stage : s \in S \cup R \cup {"idle"}
    BY <2>3, <2>4 DEF Stage, Publishing, S, R
  <2> QED
    BY <2>5 DEF S, R
<1>2. \A b \in Builder : img[b].by \in {b, "nobody"}
  BY DEF IbInv, IbTypes, ImageOf
<1>3. \A b \in Builder : job[b] \in Jobs \cup {NoJob} /\ bat[b] \in Stage
  BY DEF IbInv, IbTypes
<1>4. binary \in Binary /\ edits \in 0..MaxEdits /\ alone \in BOOLEAN
  BY DEF IbInv, IbTypes
<1> QED
  BY <1>1, <1>2, <1>3, <1>4 DEF IbTypeOK, Binary

\* The image at the output path was assembled and verified as a whole by one build, and its
\* companions are its own when one build at a time published
\* (rfb/src/cli/image_build/build.rs).
THEOREM ImagesPublished == IbSpec => []PublishedTrue
<1>1. IbInv => PublishedTrue
  BY StagesTyped DEF PublishedTrue, IbInv
<1> QED
  BY IbInvInit, IbInvNext, <1>1, PTL DEF IbSpec

=============================================================================
