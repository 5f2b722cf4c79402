-------------------------- MODULE SchedulingProofs --------------------------
(***************************************************************************)
(* Proofs about Scheduling, for every number of migrations, every gap,     *)
(* every cap and every hard limit.                                         *)
(*                                                                         *)
(* The types: the places stay a numbering of the migrations.               *)
(*                                                                         *)
(* Age tells a killed pass from a live one: a live pass is at most         *)
(* HardLimit old, because it is killed there; a row is taken for dead at   *)
(* twice that.                                                             *)
(*                                                                         *)
(* The caps: what the loop of withinCapacity chooses fits into the room it *)
(* counted (an induction over the places), and every migration that        *)
(* already held a place has a row in that count.                           *)
(***************************************************************************)
EXTENDS Scheduling, FiniteSetTheorems, TLAPS

-----------------------------------------------------------------------------
(* Numbers and finite sets.                                                 *)

LEMMA Least ==
    ASSUME NEW T \in SUBSET Nat, T # {}
    PROVE  \E x \in T : \A y \in T : ~(y < x)
<1>1. \E x \in T : \A y \in T : ~(<<y, x>> \in OpToRel(<, Nat))
  BY NatLessThanWellFounded, WFMin
<1>2. \A x, y \in Nat : y < x => <<y, x>> \in OpToRel(<, Nat)
  BY DEF OpToRel
<1> QED BY <1>1, <1>2

\* Induction, over the members of a set.
LEMMA Induct ==
    ASSUME NEW S, 0 \in S, \A n \in Nat : n \in S => n + 1 \in S
    PROVE  Nat \subseteq S
<1> DEFINE T == Nat \ S
<1> SUFFICES ASSUME T # {} PROVE FALSE
  OBVIOUS
<1>1. PICK x \in T : \A y \in T : ~(y < x)
  BY Least
<1>2. x # 0 /\ x \in Nat
  BY <1>1
<1>3. x - 1 \in Nat /\ x - 1 < x /\ (x - 1) + 1 = x
  BY <1>2
<1> QED BY <1>1, <1>3

\* How many of S a strict order R puts before x.
Before(S, R, x) == {y \in S : <<y, x>> \in R}
Rank(S, R, x) == Cardinality(Before(S, R, x))

StrictOrder(S, R) ==
    /\ \A x \in S : <<x, x>> \notin R
    /\ \A x, y \in S : x = y \/ <<x, y>> \in R \/ <<y, x>> \in R
    /\ \A x, y, z \in S : <<x, y>> \in R /\ <<y, z>> \in R => <<x, z>> \in R

LEMMA RankGrows ==
    ASSUME NEW S, IsFiniteSet(S), NEW R, StrictOrder(S, R),
           NEW x \in S, NEW y \in S, <<x, y>> \in R
    PROVE  Rank(S, R, x) # Rank(S, R, y)
<1>1. Before(S, R, x) \in SUBSET Before(S, R, y)
  BY DEF Before, StrictOrder
<1>2. x \in Before(S, R, y) /\ x \notin Before(S, R, x)
  BY DEF Before, StrictOrder
<1>3. IsFiniteSet(Before(S, R, y))
  BY FS_Subset, Before(S, R, y) \in SUBSET S DEF Before
<1> QED BY <1>1, <1>2, <1>3, FS_Subset DEF Rank

LEMMA RankInjective ==
    ASSUME NEW S, IsFiniteSet(S), NEW R, StrictOrder(S, R),
           NEW x \in S, NEW y \in S, Rank(S, R, x) = Rank(S, R, y)
    PROVE  x = y
BY RankGrows DEF StrictOrder

LEMMA RankRange ==
    ASSUME NEW S, IsFiniteSet(S), NEW R, StrictOrder(S, R), NEW x \in S
    PROVE  Rank(S, R, x) \in 0..(Cardinality(S) - 1)
<1>1. Before(S, R, x) \in SUBSET (S \ {x})
  BY DEF Before, StrictOrder
<1>2. IsFiniteSet(S \ {x}) /\ Cardinality(S \ {x}) = Cardinality(S) - 1
  BY FS_RemoveElement
<1>3. IsFiniteSet(Before(S, R, x)) /\ Rank(S, R, x) <= Cardinality(S) - 1
  BY <1>1, <1>2, FS_Subset DEF Rank
<1> QED BY <1>3, FS_CardinalityType DEF Rank

\* Every rank below the number of the members is some member's.
LEMMA RankSurjective ==
    ASSUME NEW S, IsFiniteSet(S), NEW R, StrictOrder(S, R),
           NEW k \in 0..(Cardinality(S) - 1)
    PROVE  \E x \in S : Rank(S, R, x) = k
<1> DEFINE T == 0..(Cardinality(S) - 1)
           f == [x \in S |-> Rank(S, R, x)]
<1>1. Cardinality(S) \in Nat
  BY FS_CardinalityType
<1>2. IsFiniteSet(T) /\ Cardinality(T) = Cardinality(S)
  BY <1>1, FS_Interval
<1>3. f \in Injection(S, T)
  BY RankRange, RankInjective DEF Injection, IsInjective
<1>4. f \in Surjection(S, T)
  BY <1>2, <1>3, FS_Injection
<1> QED BY <1>4 DEF Surjection

-----------------------------------------------------------------------------
(* What the loop chooses.                                                   *)

Placed ==
    /\ place \in [Mapping -> 1..Places]
    /\ \A m, x \in Mapping : place[m] = place[x] => m = x

LEMMA MappingFinite ==
    /\ IsFiniteSet(Mapping) /\ Places \in Nat
    /\ \A S \in SUBSET Mapping : IsFiniteSet(S) /\ Cardinality(S) \in Nat /\ Cardinality(S) <= Places
BY SchedulingConstants, FS_CardinalityType, FS_Subset DEF Places

Rel(S) == {p \in S \X S : Sooner(p[1], p[2])}
OwnRel(S) == {p \in S \X S : ownOrder(p[1], p[2])}

LEMMA SoonerOrder == ASSUME Placed, NEW S \in SUBSET Mapping PROVE StrictOrder(S, Rel(S))
<1>1. \A x \in S : place[x] \in Nat
  BY MappingFinite DEF Placed
<1>2. \A x, y \in S : <<x, y>> \in Rel(S) <=> place[x] < place[y]
  BY DEF Rel, Sooner, longestWaitingFirst
<1>3. \A x, y \in S : x = y \/ place[x] # place[y]
  BY DEF Placed
<1>4. ASSUME NEW x \in S, NEW y \in S, NEW z \in S, <<x, y>> \in Rel(S), <<y, z>> \in Rel(S)
      PROVE  <<x, z>> \in Rel(S)
  <2>1. place[x] \in Nat /\ place[y] \in Nat /\ place[z] \in Nat
    BY <1>1
  <2>2. place[x] < place[y] /\ place[y] < place[z]
    BY <1>2, <1>4
  <2> QED BY <1>2, <2>1, <2>2
<1>5. ASSUME NEW x \in S, NEW y \in S, x # y
      PROVE  <<x, y>> \in Rel(S) \/ <<y, x>> \in Rel(S)
  <2>1. place[x] \in Nat /\ place[y] \in Nat /\ place[x] # place[y]
    BY <1>1, <1>3, <1>5
  <2>2. place[x] < place[y] \/ place[y] < place[x]
    BY <2>1
  <2> QED BY <1>2, <2>2
<1>6. \A x \in S : <<x, x>> \notin Rel(S)
  BY <1>1, <1>2
<1> QED BY <1>4, <1>5, <1>6 DEF StrictOrder

LEMMA OwnOrder == ASSUME Placed, NEW S \in SUBSET Mapping PROVE StrictOrder(S, OwnRel(S))
<1>1. \A x \in S : place[x] \in Nat
  BY MappingFinite DEF Placed
<1>2. \A x, y \in S : <<x, y>> \in OwnRel(S) <=>
          IF x \in Later <=> y \in Later THEN place[x] < place[y] ELSE y \in Later
  BY DEF OwnRel, ownOrder, Sooner, longestWaitingFirst
<1>3. \A x, y \in S : x = y \/ place[x] # place[y]
  BY DEF Placed
<1>4. ASSUME NEW x \in S, NEW y \in S, NEW z \in S, <<x, y>> \in OwnRel(S), <<y, z>> \in OwnRel(S)
      PROVE  <<x, z>> \in OwnRel(S)
  <2>1. place[x] \in Nat /\ place[y] \in Nat /\ place[z] \in Nat
    BY <1>1
  <2>2. CASE y \in Later
    BY <1>2, <1>4, <2>1, <2>2
  <2>3. CASE y \notin Later
    BY <1>2, <1>4, <2>1, <2>3
  <2> QED BY <2>2, <2>3
<1>5. ASSUME NEW x \in S, NEW y \in S, x # y
      PROVE  <<x, y>> \in OwnRel(S) \/ <<y, x>> \in OwnRel(S)
  <2>1. place[x] \in Nat /\ place[y] \in Nat /\ place[x] # place[y]
    BY <1>1, <1>3, <1>5
  <2>2. place[x] < place[y] \/ place[y] < place[x]
    BY <2>1
  <2> QED BY <1>2, <2>2
<1>6. \A x \in S : <<x, x>> \notin OwnRel(S)
  BY <1>1, <1>2
<1> QED BY <1>4, <1>5, <1>6 DEF StrictOrder

\* The place a migration takes is one of its organisation's.
LEMMA OwnPlace ==
    ASSUME Placed, NEW due \in SUBSET Mapping, NEW m \in due
    PROVE  LET own == OfOrg(due, m)
               x == inOrganisationOrder(due, m)
           IN  x \in own /\ Rank(own, Rel(own), x) = Rank(own, OwnRel(own), m)
<1> DEFINE own == OfOrg(due, m)
<1>1. own \in SUBSET Mapping /\ m \in own
  BY DEF OfOrg
<1> HIDE DEF own
<1>2. IsFiniteSet(own)
  BY <1>1, MappingFinite
<1>3. StrictOrder(own, Rel(own)) /\ StrictOrder(own, OwnRel(own))
  BY <1>1, SoonerOrder, OwnOrder
<1>4. Rank(own, OwnRel(own), m) \in 0..(Cardinality(own) - 1)
  BY <1>1, <1>2, <1>3, RankRange
<1>5. \E x \in own : Rank(own, Rel(own), x) = Rank(own, OwnRel(own), m)
  BY <1>2, <1>3, <1>4, RankSurjective
<1>6. \A x \in own : {y \in own : Sooner(y, x)} = Before(own, Rel(own), x)
  BY DEF Before, Rel
<1>7. {x \in own : ownOrder(x, m)} = Before(own, OwnRel(own), m)
  BY <1>1 DEF Before, OwnRel
<1>8. inOrganisationOrder(due, m) =
        CHOOSE x \in own : Cardinality({y \in own : Sooner(y, x)}) = Cardinality({x_1 \in own : ownOrder(x_1, m)})
  BY DEF inOrganisationOrder, own
<1>9. \A x \in own : Cardinality({y \in own : Sooner(y, x)}) = Rank(own, Rel(own), x)
  BY <1>6 DEF Rank
<1>10. Cardinality({x_1 \in own : ownOrder(x_1, m)}) = Rank(own, OwnRel(own), m)
  BY <1>7 DEF Rank
<1>11. \E x \in own : Cardinality({y \in own : Sooner(y, x)}) = Cardinality({x_1 \in own : ownOrder(x_1, m)})
  BY <1>5, <1>9, <1>10
<1>12. LET x == inOrganisationOrder(due, m)
       IN  x \in own /\ Cardinality({y \in own : Sooner(y, x)}) = Cardinality({x_1 \in own : ownOrder(x_1, m)})
  BY <1>8, <1>11
<1> QED BY <1>9, <1>10, <1>12 DEF own

\* No two migrations take one place.
LEMMA OnePerPlace ==
    ASSUME Placed, NEW due \in SUBSET Mapping, NEW m \in due, NEW n \in due,
           longestWaitingFirst(inOrganisationOrder(due, m)) = longestWaitingFirst(inOrganisationOrder(due, n))
    PROVE  m = n
<1> DEFINE x == inOrganisationOrder(due, m)
           z == inOrganisationOrder(due, n)
           own == OfOrg(due, m)
<1>1. x \in OfOrg(due, m) /\ Rank(OfOrg(due, m), Rel(OfOrg(due, m)), x)
                             = Rank(OfOrg(due, m), OwnRel(OfOrg(due, m)), m)
  BY OwnPlace
<1>2. z \in OfOrg(due, n) /\ Rank(OfOrg(due, n), Rel(OfOrg(due, n)), z)
                             = Rank(OfOrg(due, n), OwnRel(OfOrg(due, n)), n)
  BY OwnPlace
<1>3. place[x] = place[z]
  BY DEF longestWaitingFirst
<1> HIDE DEF x, z
<1>4. x \in Mapping /\ z \in Mapping /\ OrgOf[x] = OrgOf[m] /\ OrgOf[z] = OrgOf[n]
  BY <1>1, <1>2 DEF OfOrg
<1>5. x = z
  BY <1>3, <1>4 DEF Placed
<1>6. OfOrg(due, n) = own /\ m \in own /\ n \in own /\ own \in SUBSET Mapping
  BY <1>4, <1>5 DEF OfOrg
<1>7. Rank(own, OwnRel(own), m) = Rank(own, OwnRel(own), n)
  BY <1>1, <1>2, <1>5, <1>6
<1>8. IsFiniteSet(own) /\ StrictOrder(own, OwnRel(own))
  BY <1>6, MappingFinite, OwnOrder
<1> QED BY <1>6, <1>7, <1>8, RankInjective

\* What the loop takes at place i, after C.
Taken(due, i, C) ==
    C \cup {m \in {x \in due : longestWaitingFirst(inOrganisationOrder(due, x)) = i} : roomFor(C, m)}

\* The loop's function is the one its definition describes.
Loop(due, f) ==
    f = [i \in 0..Places |-> IF i = 0 THEN {} ELSE Taken(due, i, f[i - 1])]

LEMMA LoopExists == ASSUME NEW due PROVE \E f : Loop(due, f)
<1> DEFINE Upto(n, f) == f = [i \in 0..n |-> IF i = 0 THEN {} ELSE Taken(due, i, f[i - 1])]
           S == {n \in Nat : \E f : Upto(n, f)}
<1>1. 0 \in S
  <2> DEFINE f == [i \in 0..0 |-> {}]
  <2>1. Upto(0, f)
    <3>1. [i \in 0..0 |-> IF i = 0 THEN {} ELSE Taken(due, i, f[i - 1])] = f
      OBVIOUS
    <3> QED BY <3>1
  <2> QED BY <2>1
<1>2. ASSUME NEW n \in Nat, n \in S PROVE n + 1 \in S
  <2>1. PICK f : Upto(n, f)
    BY <1>2
  <2> DEFINE g == [i \in 0..(n + 1) |-> IF i = n + 1 THEN Taken(due, i, f[n]) ELSE f[i]]
             h == [i \in 0..(n + 1) |-> IF i = 0 THEN {} ELSE Taken(due, i, g[i - 1])]
  <2>2. \A i \in 0..n : f[i] = IF i = 0 THEN {} ELSE Taken(due, i, f[i - 1])
    BY <2>1
  <2>3. \A i \in 0..(n + 1) : g[i] = h[i]
    <3> TAKE i \in 0..(n + 1)
    <3>1. CASE i = n + 1
      <4>1. i # 0 /\ i - 1 = n /\ n \in 0..(n + 1) /\ n # n + 1
        BY <3>1
      <4>2. g[i - 1] = f[n]
        BY <4>1
      <4>3. h[i] = Taken(due, i, g[i - 1])
        BY <4>1
      <4> QED BY <3>1, <4>2, <4>3
    <3>2. CASE i = 0
      BY <3>2, <2>2
    <3>3. CASE i # 0 /\ i # n + 1
      <4>1. i \in 0..n /\ i - 1 \in 0..(n + 1) /\ i - 1 # n + 1
        BY <3>3
      <4>2. g[i - 1] = f[i - 1] /\ g[i] = f[i]
        BY <3>3, <4>1
      <4>3. f[i] = Taken(due, i, f[i - 1])
        BY <2>2, <3>3, <4>1
      <4>4. h[i] = Taken(due, i, g[i - 1])
        BY <3>3
      <4> QED BY <4>2, <4>3, <4>4
    <3> QED BY <3>1, <3>2, <3>3
  <2>4. g = h
    BY <2>3
  <2> HIDE DEF g
  <2>5. Upto(n + 1, g)
    BY <2>4
  <2> QED BY <2>5
<1>3. Nat \subseteq S
  <2> HIDE DEF S
  <2> QED BY <1>1, <1>2, Induct
<1>4. Places \in S
  BY <1>3, MappingFinite
<1> QED BY <1>4 DEF Loop

LEMMA LoopOf ==
    ASSUME NEW due
    PROVE  \E f : Loop(due, f) /\ withinCapacity(due) = f[Places]
<1> DEFINE f == CHOOSE g : Loop(due, g)
<1>1. withinCapacity(due) = f[Places]
  BY DEF withinCapacity, Loop, Taken
<1>2. Loop(due, f)
  BY LoopExists
<1> QED BY <1>1, <1>2

\* What is chosen fits, with what runs, on the stack and in each organisation.
Fits(C) ==
    /\ C # {} => passesInFlight(Mapping) + Cardinality(C) <= inFlight
    /\ \A m \in C : passesInFlight(OfOrg(Mapping, m)) + Cardinality(OfOrg(C, m)) <= perOrganisation

LEMMA InFlightNat == \A S \in SUBSET Mapping : passesInFlight(S) \in Nat
<1> SUFFICES ASSUME NEW S \in SUBSET Mapping PROVE passesInFlight(S) \in Nat
  OBVIOUS
<1>1. {m \in S : liveRow(m)} \in SUBSET Mapping /\ {m \in S : deadRow(m)} \in SUBSET Mapping
  OBVIOUS
<1> QED BY <1>1, MappingFinite DEF passesInFlight

LEMMA AddOne ==
    ASSUME NEW S \in SUBSET Mapping, NEW x \in Mapping
    PROVE  /\ Cardinality(S) \in Nat /\ Cardinality(S \cup {x}) \in Nat
           /\ Cardinality(S \cup {x}) <= Cardinality(S) + 1
<1>1. IsFiniteSet(S) /\ Cardinality(S) \in Nat
  BY MappingFinite
<1>2. Cardinality(S \cup {x}) = IF x \in S THEN Cardinality(S) ELSE Cardinality(S) + 1
  BY <1>1, FS_AddElement
<1> QED BY <1>1, <1>2

\* One more fits where there was room for it.
LEMMA OneMoreFits ==
    ASSUME NEW C \in SUBSET Mapping, Fits(C), NEW m \in Mapping, roomFor(C, m)
    PROVE  Fits(C \cup {m})
<1> DEFINE D == C \cup {m}
<1>1. Cardinality(C) \in Nat /\ Cardinality(D) \in Nat /\ Cardinality(D) <= Cardinality(C) + 1
  BY AddOne
<1>3. passesInFlight(Mapping) + Cardinality(D) <= inFlight
  BY <1>1, InFlightNat, SchedulingConstants DEF roomFor
<1>4. ASSUME NEW x \in D
      PROVE  passesInFlight(OfOrg(Mapping, x)) + Cardinality(OfOrg(D, x)) <= perOrganisation
  <2>1. CASE OrgOf[x] = OrgOf[m]
    <3>1. OfOrg(Mapping, x) = OfOrg(Mapping, m) /\ OfOrg(D, x) = OfOrg(C, m) \cup {m}
      BY <2>1 DEF OfOrg
    <3>2. OfOrg(C, m) \in SUBSET Mapping /\ OfOrg(Mapping, m) \in SUBSET Mapping
      BY DEF OfOrg
    <3>3. /\ Cardinality(OfOrg(C, m)) \in Nat /\ Cardinality(OfOrg(C, m) \cup {m}) \in Nat
          /\ Cardinality(OfOrg(C, m) \cup {m}) <= Cardinality(OfOrg(C, m)) + 1
      BY <3>2, AddOne
    <3>5. passesInFlight(OfOrg(Mapping, m)) \in Nat
      BY <3>2, InFlightNat
    <3>6. passesInFlight(OfOrg(Mapping, m)) + Cardinality(OfOrg(C, m)) < perOrganisation
      BY DEF roomFor
    <3>7. passesInFlight(OfOrg(Mapping, m)) + Cardinality(OfOrg(C, m) \cup {m}) <= perOrganisation
      BY <3>3, <3>5, <3>6, SchedulingConstants
    <3> QED BY <3>1, <3>7
  <2>2. CASE OrgOf[x] # OrgOf[m]
    <3>1. OfOrg(D, x) = OfOrg(C, x) /\ x \in C
      BY <2>2 DEF OfOrg
    <3> QED BY <3>1 DEF Fits
  <2> QED BY <2>1, <2>2
<1> HIDE DEF D
<1>5. Fits(D)
  BY <1>3, <1>4 DEF Fits
<1> QED BY <1>5 DEF D

LEMMA TakenFits ==
    ASSUME Placed, NEW due \in SUBSET Mapping, NEW i, NEW C \in SUBSET due, Fits(C)
    PROVE  Taken(due, i, C) \in SUBSET due /\ Fits(Taken(due, i, C))
<1> DEFINE N == {m \in {x \in due : longestWaitingFirst(inOrganisationOrder(due, x)) = i} : roomFor(C, m)}
<1>1. Taken(due, i, C) = C \cup N
  BY DEF Taken
<1>2. CASE N = {}
  BY <1>1, <1>2
<1>3. ASSUME NEW m \in N PROVE N = {m} /\ m \in due /\ roomFor(C, m)
  BY <1>3, OnePerPlace
<1>4. N \in SUBSET due
  OBVIOUS
<1> HIDE DEF N
<1>5. CASE N # {}
  <2>1. PICK m \in N : TRUE
    BY <1>5
  <2>2. N = {m} /\ m \in Mapping /\ roomFor(C, m)
    BY <1>3, <2>1
  <2>3. C \in SUBSET Mapping
    OBVIOUS
  <2> QED BY <1>1, <1>4, <2>2, <2>3, OneMoreFits
<1> QED BY <1>2, <1>5

LEMMA ChosenFits ==
    ASSUME Placed, NEW due \in SUBSET Mapping
    PROVE  withinCapacity(due) \in SUBSET due /\ Fits(withinCapacity(due))
<1>1. PICK f : Loop(due, f) /\ withinCapacity(due) = f[Places]
  BY LoopOf
<1> DEFINE S == {n \in Nat : n <= Places => f[n] \in SUBSET due /\ Fits(f[n])}
<1>2. \A n \in 0..Places : f[n] = IF n = 0 THEN {} ELSE Taken(due, n, f[n - 1])
  BY <1>1 DEF Loop
<1>3. 0 \in S
  <2>1. f[0] = {}
    BY <1>2, MappingFinite
  <2>2. Fits({})
    BY DEF Fits
  <2> QED BY <2>1, <2>2
<1>4. ASSUME NEW n \in Nat, n \in S PROVE n + 1 \in S
  <2> SUFFICES ASSUME n + 1 <= Places PROVE f[n + 1] \in SUBSET due /\ Fits(f[n + 1])
    OBVIOUS
  <2>1. n <= Places /\ n + 1 \in 0..Places /\ n + 1 # 0 /\ (n + 1) - 1 = n
    BY MappingFinite
  <2>2. f[n + 1] = Taken(due, n + 1, f[n])
    BY <1>2, <2>1
  <2>3. f[n] \in SUBSET due /\ Fits(f[n])
    BY <1>4, <2>1
  <2> QED BY <2>2, <2>3, TakenFits
<1>5. Nat \subseteq S
  <2> HIDE DEF S
  <2> QED BY <1>3, <1>4, Induct
<1>6. Places \in S /\ Places <= Places
  BY <1>5, MappingFinite
<1> QED BY <1>1, <1>6

-----------------------------------------------------------------------------
(* The types.                                                               *)

LEMMA Limits ==
    /\ HardLimit \in Nat \ {0} /\ Top \in Nat /\ MaxQueue \in Nat \ {0} /\ 2 * HardLimit < Top
    /\ MaxFails \in Nat /\ Quiet \in Nat /\ inFlight \in Nat /\ perOrganisation \in Nat
BY SchedulingConstants DEF MaxFails

RunTypes ==
    /\ run \in [Mapping -> Run] /\ \A m \in Mapping : Waiting(m) <= MaxQueue
    /\ age \in [Mapping -> 0..Top] /\ dead \in [Mapping -> 0..Top]

LEMMA TypeParts ==
    TypeOK <=> /\ RunTypes /\ Placed
               /\ fails \in [Mapping -> [count : 0..MaxFails, healing : BOOLEAN]]
               /\ wanted \in [Mapping -> BOOLEAN] /\ hold \in [on : BOOLEAN, minutes : 0..Quiet]
               /\ tick \in [pc : {"idle", "read", "choose"}, due : SUBSET Mapping] /\ changes \in Nat
BY DEF TypeOK, RunTypes, Placed

\* Each migration starts at its rank among the ids.
LEMMA FirstPlaces ==
    ASSUME place = [m \in Mapping |-> Cardinality({x \in Mapping : x <= m})] PROVE Placed
<1> DEFINE Upto(m) == {x \in Mapping : x <= m}
<1>1. \A m \in Mapping : m \in Nat
  BY SchedulingConstants
<1>2. \A m \in Mapping : Upto(m) \in SUBSET Mapping /\ m \in Upto(m)
  BY <1>1
<1>3. \A m \in Mapping : /\ IsFiniteSet(Upto(m)) /\ Cardinality(Upto(m)) \in Nat
                         /\ Cardinality(Upto(m)) <= Places
  BY <1>2, MappingFinite
<1>4. \A m \in Mapping : Cardinality(Upto(m)) # 0
  BY <1>2, <1>3, FS_EmptySet
<1>5. ASSUME NEW m \in Mapping, NEW x \in Mapping, m < x
      PROVE  Cardinality(Upto(m)) # Cardinality(Upto(x))
  <2>1. Upto(m) \in SUBSET Upto(x) /\ x \notin Upto(m) /\ x \in Upto(x)
    BY <1>1, <1>5
  <2> QED BY <1>3, <2>1, FS_Subset
<1>6. \A m \in Mapping : place[m] = Cardinality(Upto(m))
  OBVIOUS
<1> HIDE DEF Upto
<1>7. \A m \in Mapping : place[m] \in 1..Places
  BY <1>3, <1>4, <1>6, MappingFinite
<1>8. ASSUME NEW m \in Mapping, NEW x \in Mapping, place[m] = place[x] PROVE m = x
  <2>1. ~(m < x) /\ ~(x < m)
    BY <1>5, <1>6, <1>8
  <2> QED BY <1>1, <2>1
<1> QED BY <1>7, <1>8 DEF Placed

\* Closing up behind the one that goes last keeps the places apart.
LEMMA RanLastPlaced ==
    ASSUME Placed, NEW m \in Mapping, place' = ranLast(m) PROVE Placed'
<1>1. \A x \in Mapping : place[x] \in 1..Places
  BY DEF Placed
<1>2. \A x, y \in Mapping : place[x] = place[y] => x = y
  BY DEF Placed
<1>3. Places \in Nat
  BY MappingFinite
<1>4. \A x \in Mapping :
         place'[x] = IF x = m THEN Places ELSE IF place[x] > place[m] THEN place[x] - 1 ELSE place[x]
  BY DEF ranLast
<1>5. ASSUME NEW x \in Mapping, x # m
      PROVE  /\ place'[x] \in 1..Places /\ place'[x] # Places
             /\ place[x] > place[m] => place'[x] = place[x] - 1
             /\ ~(place[x] > place[m]) => place'[x] = place[x] /\ place[x] < place[m]
  <2>1. place[x] # place[m] /\ place[x] \in 1..Places /\ place[m] \in 1..Places
    BY <1>1, <1>2, <1>5
  <2>2. place'[x] = IF place[x] > place[m] THEN place[x] - 1 ELSE place[x]
    BY <1>4, <1>5
  <2> QED BY <2>1, <2>2, <1>3
<1>6. place'[m] = Places /\ Places \in 1..Places
  <2>1. place[m] \in 1..Places
    BY <1>1
  <2> QED BY <1>3, <1>4, <2>1
<1>7. \A x \in Mapping : place'[x] \in 1..Places
  BY <1>5, <1>6
<1>8. ASSUME NEW x \in Mapping, NEW y \in Mapping, place'[x] = place'[y] PROVE x = y
  <2>1. CASE x # m /\ y # m
    <3>1. place[x] \in 1..Places /\ place[y] \in 1..Places /\ place[m] \in 1..Places
      BY <1>1
    <3>2. place[x] = place[y]
      BY <1>5, <1>8, <2>1, <3>1, <1>3
    <3> QED BY <1>2, <3>2
  <2>2. CASE x = m \/ y = m
    BY <1>5, <1>6, <1>8, <2>2
  <2> QED BY <2>1, <2>2
<1>9. place' \in [Mapping -> 1..Places]
  BY <1>7 DEF ranLast
<1> QED BY <1>8, <1>9 DEF Placed

-----------------------------------------------------------------------------
(* The inductive invariant.                                                 *)

\* A live pass is killed at the hard limit.
LiveInv == \A m \in Mapping : Live(m) => age[m] <= HardLimit

\* The migrations of which a pass of the tick runs or waits, unless it is unseen:
\* each has a place of its own in the caps.
Holding ==
    {m \in Mapping : \/ run[m].pass = "tick"
                     \/ \E i \in 1..Waiting(m) : run[m].queue[i] = "tick"}

RoomInv ==
    /\ Cardinality(Holding) <= inFlight
    /\ \A o \in Org : Cardinality({m \in Holding : OrgOf[m] = o}) <= perOrganisation

SchedulingInv == TypeOK /\ LiveInv /\ RoomInv

\* The record of a migration, by its fields.
LEMMA RecordTypes ==
    ASSUME RunTypes, NEW m \in Mapping
    PROVE  /\ run[m] \in Run /\ run[m].pass \in Origin \cup {"none"} /\ run[m].queue \in Seq(Origin)
           /\ Waiting(m) \in Nat /\ Waiting(m) = Len(run[m].queue) /\ Waiting(m) <= MaxQueue
           /\ age[m] \in Nat /\ age[m] <= Top /\ dead[m] \in Nat /\ dead[m] <= Top
BY Limits DEF RunTypes, Run, Waiting

\* What holds fewer places keeps the caps.
LEMMA RoomKept == ASSUME RoomInv, Holding' \subseteq Holding PROVE RoomInv'
<1>1. Holding \in SUBSET Mapping /\ Holding' \in SUBSET Holding
  BY DEF Holding
<1>2. IsFiniteSet(Holding) /\ Cardinality(Holding) \in Nat /\ Cardinality(Holding') \in Nat
  BY <1>1, MappingFinite
<1>3. Cardinality(Holding') <= Cardinality(Holding)
  BY <1>1, <1>2, FS_Subset
<1>4. Cardinality(Holding') <= inFlight
  BY <1>2, <1>3, Limits DEF RoomInv
<1>5. ASSUME NEW o \in Org PROVE Cardinality({m \in Holding' : OrgOf[m] = o}) <= perOrganisation
  <2> DEFINE A == {m \in Holding : OrgOf[m] = o}
             B == {m \in Holding' : OrgOf[m] = o}
  <2>1. A \in SUBSET Mapping /\ B \in SUBSET A
    BY <1>1
  <2>2. Cardinality(A) <= perOrganisation
    BY DEF RoomInv
  <2> HIDE DEF A, B
  <2>3. IsFiniteSet(A) /\ Cardinality(A) \in Nat /\ Cardinality(B) \in Nat
    BY <2>1, MappingFinite
  <2>4. Cardinality(B) <= Cardinality(A)
    BY <2>1, <2>3, FS_Subset
  <2>5. Cardinality(B) <= perOrganisation
    BY <2>2, <2>3, <2>4, Limits
  <2> QED BY <2>5 DEF B
<1> QED BY <1>4, <1>5 DEF RoomInv

LEMMA RoomSame == ASSUME RoomInv, run' = run PROVE RoomInv'
BY RoomKept DEF Holding, Waiting

LEMMA InitInv == Init => SchedulingInv
<1> SUFFICES ASSUME Init PROVE SchedulingInv
  OBVIOUS
<1> DEFINE r == [pass |-> "none", queue |-> <<>>]
           f == [count |-> 0, healing |-> FALSE]
<1>1. r \in Run /\ r.pass = "none" /\ Len(r.queue) = 0
  BY DEF Run
<1>2. f \in [count : 0..MaxFails, healing : BOOLEAN]
  BY Limits
<1>3. run = [m \in Mapping |-> r] /\ fails = [m \in Mapping |-> f]
  BY DEF Init
<1> HIDE DEF r, f
<1>4. RunTypes
  <2>1. Top \in 0..Top
    BY Limits
  <2>2. age = [m \in Mapping |-> Top] /\ dead = [m \in Mapping |-> Top]
    BY DEF Init
  <2>3. \A m \in Mapping : Waiting(m) <= MaxQueue
    BY <1>1, <1>3, Limits DEF Waiting
  <2> QED BY <1>1, <1>3, <2>1, <2>2, <2>3 DEF RunTypes
<1>5. Placed
  BY FirstPlaces DEF Init
<1>6. TypeOK
  BY <1>2, <1>3, <1>4, <1>5, TypeParts, Limits DEF Init
<1>7. LiveInv
  BY <1>1, <1>3 DEF LiveInv, Live
<1>8. RoomInv
  <2>1. Holding = {}
    <3> SUFFICES ASSUME NEW m \in Holding PROVE FALSE
      OBVIOUS
    <3>1. m \in Mapping /\ run[m].pass = "none" /\ Waiting(m) = 0
      BY <1>1, <1>3 DEF Holding, Waiting
    <3> QED BY <3>1 DEF Holding
  <2>2. \A o \in Org : {m \in Holding : OrgOf[m] = o} = {}
    BY <2>1
  <2> QED BY <2>1, <2>2, FS_EmptySet, Limits DEF RoomInv
<1> QED BY <1>6, <1>7, <1>8 DEF SchedulingInv

LEMMA MinuteInv == ASSUME SchedulingInv, Minute PROVE SchedulingInv'
<1>1. RunTypes /\ Placed
  BY TypeParts DEF SchedulingInv
<1>2. run' = run /\ place' = place /\ tick' = [pc |-> "read", due |-> {}]
  BY DEF Minute
<1>3. \A m \in Mapping : age'[m] = Older(age[m]) /\ dead'[m] = Older(dead[m])
  BY DEF Minute
<1>4. \A m \in Mapping : /\ age'[m] \in 0..Top /\ dead'[m] \in 0..Top
                         /\ age'[m] <= age[m] + 1
  BY <1>1, <1>3, Limits, RecordTypes DEF Older
<1>5. TypeOK'
  <2>1. RunTypes'
    BY <1>1, <1>2, <1>4 DEF RunTypes, Minute, Waiting
  <2>2. Placed'
    BY <1>1, <1>2 DEF Placed
  <2>3. hold' \in [on : BOOLEAN, minutes : 0..Quiet]
    <3>1. hold \in [on : BOOLEAN, minutes : 0..Quiet]
      BY TypeParts DEF SchedulingInv
    <3>2. hold.minutes < Quiet => [hold EXCEPT !.minutes = @ + 1] \in [on : BOOLEAN, minutes : 0..Quiet]
      BY <3>1, Limits
    <3> QED BY <3>1, <3>2 DEF Minute
  <2>4. tick' \in [pc : {"idle", "read", "choose"}, due : SUBSET Mapping]
    BY <1>2
  <2>5. fails' = fails /\ wanted' = wanted /\ changes' = changes
    BY DEF Minute
  <2> QED BY <2>1, <2>2, <2>3, <2>4, <2>5 DEF SchedulingInv, TypeOK, RunTypes, Placed
<1>6. LiveInv'
  <2> SUFFICES ASSUME NEW m \in Mapping, Live(m)' PROVE age'[m] <= HardLimit
    BY DEF LiveInv
  <2>1. age[m] < HardLimit /\ age[m] \in Nat /\ age'[m] \in Nat /\ age'[m] <= age[m] + 1
    BY <1>1, <1>2, <1>4, RecordTypes DEF Minute, Live
  <2> QED BY <2>1, Limits
<1>7. RoomInv'
  BY <1>2, RoomSame DEF SchedulingInv
<1> QED BY <1>5, <1>6, <1>7 DEF SchedulingInv

LEMMA TickReadInv == ASSUME SchedulingInv, TickRead PROVE SchedulingInv'
<1>1. RunTypes /\ Placed
  BY TypeParts DEF SchedulingInv
<1>2. UNCHANGED <<run, age, dead, place, fails, wanted, hold, changes>>
  BY DEF TickRead
<1> DEFINE D == {m \in Mapping : /\ wanted[m] /\ ~running(m)
                                 /\ isSyncDue(m) /\ ~heldBackByFailures(m)}
<1>3. tick' = [pc |-> "idle", due |-> {}] \/ tick' = [pc |-> "choose", due |-> D]
  BY DEF TickRead
<1>4. D \in SUBSET Mapping /\ \A m \in D : ~running(m)
  OBVIOUS
<1> HIDE DEF D
<1>5. TypeOK'
  <2>1. tick' \in [pc : {"idle", "read", "choose"}, due : SUBSET Mapping]
    BY <1>3, <1>4
  <2> QED BY <1>2, <2>1 DEF SchedulingInv, TypeOK, Waiting
<1>6. LiveInv'
  BY <1>2 DEF SchedulingInv, LiveInv, Live
<1>7. RoomInv'
  BY <1>2, RoomSame DEF SchedulingInv
<1> QED BY <1>5, <1>6, <1>7 DEF SchedulingInv

\* A set within two others is no larger than both.
LEMMA WithinTwo ==
    ASSUME NEW A \in SUBSET Mapping, NEW B \in SUBSET Mapping, NEW U \in SUBSET (A \cup B)
    PROVE  /\ Cardinality(U) <= Cardinality(A) + Cardinality(B)
           /\ Cardinality(U) \in Nat /\ Cardinality(A) \in Nat /\ Cardinality(B) \in Nat
<1>1. /\ IsFiniteSet(A) /\ IsFiniteSet(B) /\ Cardinality(A) \in Nat /\ Cardinality(B) \in Nat
      /\ IsFiniteSet(A \cup B) /\ Cardinality(A \cup B) \in Nat /\ Cardinality(U) \in Nat
  <2>1. A \cup B \in SUBSET Mapping /\ U \in SUBSET Mapping
    OBVIOUS
  <2> QED BY <2>1, MappingFinite
<1>2. Cardinality(A \cup B) = Cardinality(A) + Cardinality(B) - Cardinality(A \cap B)
  BY <1>1, FS_Union
<1>3. Cardinality(A \cap B) \in Nat
  BY MappingFinite, A \cap B \in SUBSET Mapping
<1>4. Cardinality(U) <= Cardinality(A \cup B)
  BY <1>1, FS_Subset
<1> QED BY <1>1, <1>2, <1>3, <1>4

\* A live pass has a row that counts.
LEMMA LiveRuns == ASSUME RunTypes, LiveInv, NEW m \in Mapping, Live(m) PROVE running(m)
<1>1. age[m] \in Nat /\ age[m] <= HardLimit
  BY RecordTypes DEF LiveInv
<1>2. age[m] < STALE_RUN_AFTER_MS
  BY <1>1, Limits DEF STALE_RUN_AFTER_MS
<1> QED BY <1>2 DEF running, liveRow

\* The tick counts each migration that has a row.
LEMMA RowsCounted ==
    ASSUME NEW S \in SUBSET Mapping
    PROVE  Cardinality({m \in S : running(m)}) <= passesInFlight(S)
<1> DEFINE A == {m \in S : running(m)}
           B == {m \in S : liveRow(m)}
           D == {m \in S : deadRow(m)}
<1>1. A \in SUBSET (B \cup D) /\ B \in SUBSET Mapping /\ D \in SUBSET Mapping
  BY DEF running
<1>2. passesInFlight(S) = Cardinality(B) + Cardinality(D)
  BY DEF passesInFlight
<1> HIDE DEF A, B, D
<1>3. Cardinality(A) <= passesInFlight(S)
  BY <1>1, <1>2, WithinTwo
<1> QED BY <1>3 DEF A

\* What is queued at the end of a tick fits with what runs.
LEMMA EnqueueRoom ==
    ASSUME Placed, RoomInv, tick.due \in SUBSET Mapping,
           Holding' \subseteq {m \in Holding : running(m)} \cup withinCapacity(tick.due)
    PROVE  RoomInv'
<1> DEFINE C == withinCapacity(tick.due)
           L == {m \in Mapping : running(m)}
<1>1. C \in SUBSET tick.due /\ Fits(C)
  BY ChosenFits
<1>2. CASE C = {}
  <2>1. Holding' \subseteq Holding
    BY <1>2 DEF Holding
  <2> QED BY <2>1, RoomKept
<1>3. CASE C # {}
  <2>1. Holding' \in SUBSET (L \cup C) /\ L \in SUBSET Mapping /\ C \in SUBSET Mapping
    BY <1>1 DEF Holding
  <2>2. Cardinality(L) <= passesInFlight(Mapping)
    BY RowsCounted
  <2>3. passesInFlight(Mapping) + Cardinality(C) <= inFlight
    BY <1>1, <1>3 DEF Fits
  <2>4. passesInFlight(Mapping) \in Nat
    BY InFlightNat
  <2> HIDE DEF C, L
  <2>5. Cardinality(Holding') <= inFlight
    BY <2>1, <2>2, <2>3, <2>4, WithinTwo, Limits
  <2>6. ASSUME NEW o \in Org PROVE Cardinality({m \in Holding' : OrgOf[m] = o}) <= perOrganisation
    <3> DEFINE U == {m \in Holding' : OrgOf[m] = o}
               CO == {m \in C : OrgOf[m] = o}
               MO == {m \in Mapping : OrgOf[m] = o}
               LO == {m \in MO : running(m)}
    <3>1. U \in SUBSET (LO \cup CO) /\ LO \in SUBSET Mapping /\ CO \in SUBSET Mapping /\ MO \in SUBSET Mapping
      BY <2>1 DEF L
    <3>2. Cardinality(LO) <= passesInFlight(MO) /\ passesInFlight(MO) \in Nat
      BY RowsCounted, InFlightNat
    <3>3. CASE CO # {}
      <4>1. PICK m \in CO : TRUE
        BY <3>3
      <4>2. m \in C /\ OfOrg(Mapping, m) = MO /\ OfOrg(C, m) = CO
        BY <4>1 DEF OfOrg
      <4>3. passesInFlight(MO) + Cardinality(CO) <= perOrganisation
        BY <1>1, <4>2 DEF Fits, C
      <4> HIDE DEF U, CO, MO, LO
      <4>4. Cardinality(U) <= perOrganisation
        BY <3>1, <3>2, <4>3, WithinTwo, Limits
      <4> QED BY <4>4 DEF U
    <3>4. CASE CO = {}
      <4> DEFINE A == {m \in Holding : OrgOf[m] = o}
      <4>1. U \in SUBSET A /\ A \in SUBSET Mapping
        BY <3>4 DEF Holding, C
      <4>2. Cardinality(A) <= perOrganisation
        BY DEF RoomInv
      <4> HIDE DEF U, A
      <4>3. IsFiniteSet(A) /\ Cardinality(A) \in Nat /\ Cardinality(U) \in Nat
        BY <4>1, MappingFinite
      <4>4. Cardinality(U) <= perOrganisation
        BY <4>1, <4>2, <4>3, FS_Subset, Limits
      <4> QED BY <4>4 DEF U
    <3> QED BY <3>3, <3>4
  <2> QED BY <2>5, <2>6 DEF RoomInv
<1> QED BY <1>2, <1>3

\* What waits after the count, and no one else of the tick's that was not counted.
LEMMA CountedQueue ==
    ASSUME RunTypes, NEW m \in Mapping
    PROVE  /\ counted(m) \in Seq(Origin) /\ Len(counted(m)) = Waiting(m)
           /\ \A i \in 1..Waiting(m) : counted(m)[i] = "tick" => running(m) /\ run[m].queue[i] = "tick"
<1> DEFINE q == run[m].queue
           n == Waiting(m)
           u == [i \in 1..n |-> IF q[i] = "tick" THEN "unseen" ELSE q[i]]
<1>1. q \in Seq(Origin) /\ n = Len(q) /\ n \in Nat
  BY RecordTypes
<1>2. \A i \in 1..n : q[i] \in Origin
  BY <1>1
<1>3. counted(m) = IF running(m) THEN q ELSE u
  BY DEF counted
<1> HIDE DEF q, n
<1>4. u \in [1..n -> Origin]
  BY <1>2 DEF Origin
<1>5. \A i \in 1..n : u[i] # "tick"
  OBVIOUS
<1> HIDE DEF u
<1>6. u \in Seq(Origin) /\ Len(u) = n
  BY <1>1, <1>4
<1> QED BY <1>1, <1>3, <1>5, <1>6 DEF q, n

LEMMA EnqueueInv == ASSUME SchedulingInv, TickEnqueue PROVE SchedulingInv'
<1>1. RunTypes /\ Placed /\ LiveInv /\ RoomInv /\ tick.due \in SUBSET Mapping /\ changes \in Nat
  BY TypeParts DEF SchedulingInv
<1>2. UNCHANGED <<age, dead, place, fails, wanted, hold>> /\ tick' = [pc |-> "idle", due |-> {}]
  BY DEF TickEnqueue
<1> DEFINE C == withinCapacity(tick.due)
           Queue(m, S) == IF m \in S /\ Waiting(m) < MaxQueue THEN Append(counted(m), "tick") ELSE counted(m)
<1>3. PICK S \in SUBSET C : run' = [m \in Mapping |-> [run[m] EXCEPT !.queue = Queue(m, S)]]
  <2>1. PICK lost \in SUBSET C : run' = [m \in Mapping |-> [run[m] EXCEPT !.queue = Queue(m, C \ lost)]]
    BY DEF TickEnqueue
  <2> QED BY <2>1
<1> HIDE DEF C
<1>4. \A m \in Mapping :
         /\ Queue(m, S) \in Seq(Origin) /\ Len(Queue(m, S)) <= MaxQueue
         /\ \A i \in 1..Len(Queue(m, S)) :
               Queue(m, S)[i] = "tick" => m \in S \/ (running(m) /\ i \in 1..Waiting(m) /\ run[m].queue[i] = "tick")
  <2> SUFFICES ASSUME NEW m \in Mapping
               PROVE  /\ Queue(m, S) \in Seq(Origin) /\ Len(Queue(m, S)) <= MaxQueue
                      /\ \A i \in 1..Len(Queue(m, S)) :
                           Queue(m, S)[i] = "tick"
                           => m \in S \/ (running(m) /\ i \in 1..Waiting(m) /\ run[m].queue[i] = "tick")
    OBVIOUS
  <2>1. /\ counted(m) \in Seq(Origin) /\ Len(counted(m)) = Waiting(m)
        /\ \A i \in 1..Waiting(m) : counted(m)[i] = "tick" => running(m) /\ run[m].queue[i] = "tick"
    BY <1>1, CountedQueue
  <2>2. Waiting(m) \in Nat /\ Waiting(m) <= MaxQueue /\ MaxQueue \in Nat
    BY <1>1, RecordTypes, Limits
  <2>3. CASE m \in S /\ Waiting(m) < MaxQueue
    <3>1. Queue(m, S) = Append(counted(m), "tick") /\ "tick" \in Origin
      BY <2>3 DEF Origin
    <3>2. Append(counted(m), "tick") \in Seq(Origin) /\ Len(Append(counted(m), "tick")) = Waiting(m) + 1
      BY <2>1, <3>1
    <3> QED BY <2>2, <2>3, <3>1, <3>2
  <2>4. CASE ~(m \in S /\ Waiting(m) < MaxQueue)
    <3>1. Queue(m, S) = counted(m)
      BY <2>4
    <3> QED BY <2>1, <2>2, <3>1
  <2> QED BY <2>3, <2>4
<1> HIDE DEF Queue
<1>5. \A m \in Mapping : /\ run'[m] \in Run /\ run'[m].pass = run[m].pass
                         /\ run'[m].queue = Queue(m, S) /\ Waiting(m)' = Len(Queue(m, S))
  <2> TAKE m \in Mapping
  <2>1. run[m] \in Run
    BY <1>1, RecordTypes
  <2> QED BY <1>3, <1>4, <2>1 DEF Run, Waiting
<1>6. TypeOK'
  <2>1. RunTypes'
    BY <1>1, <1>2, <1>3, <1>4, <1>5 DEF RunTypes
  <2>2. changes' \in Nat
    BY <1>1 DEF TickEnqueue, Change
  <2>3. tick' \in [pc : {"idle", "read", "choose"}, due : SUBSET Mapping]
    BY <1>2
  <2> QED BY <1>2, <2>1, <2>2, <2>3 DEF SchedulingInv, TypeOK, RunTypes
<1>7. LiveInv'
  BY <1>1, <1>2, <1>5 DEF LiveInv, Live
<1>8. RoomInv'
  <2>1. Holding' \subseteq {m \in Holding : running(m)} \cup C
    <3> SUFFICES ASSUME NEW m \in Holding', m \notin C PROVE m \in Holding /\ running(m)
      OBVIOUS
    <3>1. m \in Mapping /\ m \notin S
      BY DEF Holding
    <3>2. CASE run'[m].pass = "tick"
      <4>1. run[m].pass = "tick" /\ Live(m)
        BY <1>5, <3>1, <3>2 DEF Live
      <4> QED BY <1>1, <3>1, <4>1, LiveRuns DEF Holding
    <3>3. CASE run'[m].pass # "tick"
      <4>1. PICK i \in 1..Waiting(m)' : run'[m].queue[i] = "tick"
        BY <3>3 DEF Holding
      <4>2. i \in 1..Len(Queue(m, S)) /\ Queue(m, S)[i] = "tick"
        BY <1>5, <3>1, <4>1
      <4>3. running(m) /\ i \in 1..Waiting(m) /\ run[m].queue[i] = "tick"
        BY <1>4, <3>1, <4>2
      <4> QED BY <3>1, <4>3 DEF Holding
    <3> QED BY <3>2, <3>3
  <2> QED BY <1>1, <2>1, EnqueueRoom DEF C
<1> QED BY <1>6, <1>7, <1>8 DEF SchedulingInv

\* A step that changes one migration's record and adds no pass of the tick.
LEMMA OneRecord ==
    ASSUME RunTypes, RoomInv, NEW m \in Mapping, NEW r \in Run, run' = [run EXCEPT ![m] = r],
           r.pass = "tick" \/ (\E i \in 1..Len(r.queue) : r.queue[i] = "tick") => m \in Holding
    PROVE  RoomInv'
<1>1. \A x \in Mapping : run'[x] = IF x = m THEN r ELSE run[x]
  BY DEF RunTypes
<1>2. Holding' \subseteq Holding
  <2> SUFFICES ASSUME NEW x \in Holding' PROVE x \in Holding
    OBVIOUS
  <2>1. CASE x = m
    BY <1>1, <2>1 DEF Holding, Waiting
  <2>2. CASE x # m
    BY <1>1, <2>2 DEF Holding, Waiting
  <2> QED BY <2>1, <2>2
<1> QED BY <1>2, RoomKept

\* Such a step keeps the types if it keeps the age of what it leaves live.
LEMMA OneRunTypes ==
    ASSUME SchedulingInv, NEW m \in Mapping, NEW r \in Run, Len(r.queue) <= MaxQueue,
           run' = [run EXCEPT ![m] = r], r.pass # "none" => Live(m), age' = age,
           dead' = dead \/ dead' = [dead EXCEPT ![m] = age[m]]
    PROVE  RunTypes' /\ LiveInv'
<1>1. RunTypes /\ LiveInv
  BY TypeParts DEF SchedulingInv
<1>2. \A x \in Mapping : run'[x] = IF x = m THEN r ELSE run[x]
  BY <1>1 DEF RunTypes
<1>3. \A x \in Mapping : Waiting(x)' <= MaxQueue
  BY <1>1, <1>2 DEF RunTypes, Waiting
<1>4. RunTypes'
  BY <1>1, <1>3 DEF RunTypes
<1>5. LiveInv'
  BY <1>1, <1>2 DEF LiveInv, Live
<1> QED BY <1>4, <1>5

LEMMA StartRunInv == ASSUME SchedulingInv, NEW m \in Mapping, StartRun(m) PROVE SchedulingInv'
<1> DEFINE q == run[m].queue
           r == [pass |-> Head(q), queue |-> Tail(q)]
<1>1. RunTypes /\ Placed /\ LiveInv /\ RoomInv
  BY TypeParts DEF SchedulingInv
<1>2. /\ run' = [run EXCEPT ![m] = r] /\ age' = [age EXCEPT ![m] = 0] /\ place' = ranLast(m)
      /\ UNCHANGED <<dead, fails, wanted, hold, tick, changes>> /\ Waiting(m) > 0
  BY DEF StartRun, Startable
<1>3. q \in Seq(Origin) /\ Waiting(m) = Len(q) /\ Len(q) \in Nat /\ Len(q) <= MaxQueue /\ q # <<>>
  BY <1>1, <1>2, RecordTypes
<1> HIDE DEF q
<1>4. /\ Head(q) \in Origin /\ Tail(q) \in Seq(Origin) /\ Head(q) = q[1] /\ Len(Tail(q)) = Len(q) - 1
      /\ \A i \in 1..Len(Tail(q)) : Tail(q)[i] = q[i + 1]
  BY <1>3
<1>5. r \in Run /\ r.pass = Head(q) /\ r.queue = Tail(q)
  BY <1>4 DEF Run
<1> HIDE DEF r
<1>6. \A x \in Mapping : run'[x] = IF x = m THEN r ELSE run[x]
  BY <1>1, <1>2 DEF RunTypes
<1>7. RunTypes'
  <2>1. \A x \in Mapping : Waiting(x)' <= MaxQueue
    <3>1. Len(Tail(q)) <= MaxQueue
      BY <1>3, <1>4, Limits
    <3> QED BY <1>1, <1>5, <1>6, <3>1 DEF RunTypes, Waiting
  <2> QED BY <1>1, <1>2, <1>5, <2>1, Limits DEF RunTypes
<1>8. Placed'
  BY <1>1, <1>2, RanLastPlaced
<1>9. TypeOK'
  BY <1>2, <1>7, <1>8 DEF SchedulingInv, TypeOK, RunTypes, Placed
<1>10. LiveInv'
  <2>1. \A x \in Mapping : age'[x] = IF x = m THEN 0 ELSE age[x]
    BY <1>1, <1>2 DEF RunTypes
  <2> QED BY <1>1, <1>6, <2>1, Limits DEF LiveInv, Live
<1>11. RoomInv'
  <2>1. ASSUME r.pass = "tick" PROVE m \in Holding
    <3>1. 1 \in 1..Waiting(m) /\ q[1] = "tick"
      BY <1>2, <1>3, <1>4, <1>5, <2>1
    <3> QED BY <3>1 DEF Holding, q
  <2>2. ASSUME NEW i \in 1..Len(r.queue), r.queue[i] = "tick" PROVE m \in Holding
    <3>1. i + 1 \in 1..Waiting(m) /\ q[i + 1] = "tick"
      BY <1>3, <1>4, <1>5, <2>2
    <3> QED BY <3>1 DEF Holding, q
  <2> QED BY <1>1, <1>2, <1>5, <2>1, <2>2, OneRecord
<1> QED BY <1>9, <1>10, <1>11 DEF SchedulingInv

LEMMA EndsInv == ASSUME SchedulingInv, NEW m \in Mapping, Ends(m) PROVE SchedulingInv'
<1> DEFINE r == [run[m] EXCEPT !.pass = "none"]
<1>1. RunTypes /\ Placed /\ RoomInv
  BY TypeParts DEF SchedulingInv
<1>2. run' = [run EXCEPT ![m] = r]
  BY DEF Ends, Succeed, Kill, FailRun, Ended
<1>3. UNCHANGED <<age, place, wanted, hold, tick, changes>>
  BY DEF Ends, Succeed, Kill, FailRun
<1>4. dead' = dead \/ dead' = [dead EXCEPT ![m] = age[m]]
  BY DEF Ends, Succeed, Kill, FailRun
<1>5. r \in Run /\ r.pass = "none" /\ r.queue = run[m].queue /\ Len(r.queue) = Waiting(m) /\ Waiting(m) <= MaxQueue
  BY <1>1, RecordTypes DEF Run
<1>6. fails' \in [Mapping -> [count : 0..MaxFails, healing : BOOLEAN]]
  <2> DEFINE F == [count : 0..MaxFails, healing : BOOLEAN]
  <2>1. fails \in [Mapping -> F]
    BY DEF SchedulingInv, TypeOK
  <2>2. \E f \in F : fails' = fails \/ fails' = [fails EXCEPT ![m] = f]
    <3>1. CASE Succeed(m)
      <4>1. [count |-> 0, healing |-> FALSE] \in F
        BY Limits
      <4> HIDE DEF F
      <4> QED BY <3>1, <4>1 DEF Succeed
    <3>2. CASE Kill(m)
      BY <3>2, <2>1 DEF Kill
    <3>3. ASSUME NEW healing \in BOOLEAN, FailRun(m, healing)
          PROVE  \E f \in F : fails' = [fails EXCEPT ![m] = f]
      <4> DEFINE n == IF fails[m].count < MaxFails THEN fails[m].count + 1 ELSE fails[m].count
      <4>1. fails[m].count \in 0..MaxFails
        BY <2>1
      <4>2. n \in 0..MaxFails
        BY <4>1, Limits
      <4>3. fails' = [fails EXCEPT ![m] = [count |-> n, healing |-> healing]]
        BY <3>3 DEF FailRun
      <4> HIDE DEF n
      <4>4. [count |-> n, healing |-> healing] \in F
        BY <4>2
      <4> QED BY <4>3, <4>4
    <3> QED BY <3>1, <3>2, <3>3 DEF Ends
  <2> HIDE DEF F
  <2>3. fails' \in [Mapping -> F]
    BY <2>1, <2>2
  <2> QED BY <2>3 DEF F
<1> HIDE DEF r
<1>7. RunTypes' /\ LiveInv'
  BY <1>2, <1>3, <1>4, <1>5, OneRunTypes
<1>8. TypeOK'
  BY <1>3, <1>6, <1>7 DEF SchedulingInv, TypeOK, RunTypes
<1>9. RoomInv'
  <2>1. ASSUME NEW i \in 1..Len(r.queue), r.queue[i] = "tick" PROVE m \in Holding
    BY <1>5, <2>1 DEF Holding
  <2> QED BY <1>1, <1>2, <1>5, <2>1, OneRecord
<1> QED BY <1>7, <1>8, <1>9 DEF SchedulingInv

LEMMA PressInv == ASSUME SchedulingInv, NEW m \in Mapping, PressSyncNow(m) PROVE SchedulingInv'
<1> DEFINE q == run[m].queue
           r == [run[m] EXCEPT !.queue = Append(q, "hand")]
<1>1. RunTypes /\ RoomInv
  BY TypeParts DEF SchedulingInv
<1>2. /\ run' = [run EXCEPT ![m] = r] /\ UNCHANGED <<age, dead, place, fails, wanted, hold, tick>>
      /\ Waiting(m) < MaxQueue /\ changes' = changes + 1
  BY DEF PressSyncNow, Change
<1>3. q \in Seq(Origin) /\ Waiting(m) = Len(q) /\ Len(q) \in Nat /\ "hand" \in Origin /\ run[m] \in Run
  BY <1>1, RecordTypes DEF Origin
<1> HIDE DEF q
<1>4. /\ Append(q, "hand") \in Seq(Origin) /\ Len(Append(q, "hand")) = Len(q) + 1
      /\ \A i \in 1..Len(q) : Append(q, "hand")[i] = q[i]
      /\ Append(q, "hand")[Len(q) + 1] = "hand"
  BY <1>3
<1>5. r \in Run /\ r.pass = run[m].pass /\ r.queue = Append(q, "hand")
  BY <1>3, <1>4 DEF Run
<1> HIDE DEF r
<1>6. Len(r.queue) <= MaxQueue
  BY <1>2, <1>3, <1>4, <1>5, Limits
<1>7. RunTypes' /\ LiveInv'
  BY <1>2, <1>5, <1>6, OneRunTypes DEF Live
<1>8. TypeOK'
  BY <1>2, <1>7 DEF SchedulingInv, TypeOK, RunTypes
<1>9. RoomInv'
  <2>1. ASSUME NEW i \in 1..Len(r.queue), r.queue[i] = "tick" PROVE m \in Holding
    <3>1. i \in 1..Waiting(m) /\ q[i] = "tick"
      BY <1>3, <1>4, <1>5, <2>1
    <3> QED BY <3>1 DEF Holding, q
  <2>2. r.pass = "tick" => m \in Holding
    BY <1>5 DEF Holding
  <2> QED BY <1>1, <1>2, <1>5, <2>1, <2>2, OneRecord
<1> QED BY <1>7, <1>8, <1>9 DEF SchedulingInv

\* A step that leaves the passes, the places and the tick alone.
LEMMA OtherInv ==
    ASSUME SchedulingInv,
           \/ StartHold \/ EndHold \/ UNCHANGED vars \/ \E m \in Mapping : SetWanted(m)
    PROVE  SchedulingInv'
<1>1. UNCHANGED <<run, age, dead, place, fails, tick>>
  BY DEF StartHold, EndHold, vars, SetWanted
<1>2. changes' \in Nat
  BY DEF StartHold, EndHold, vars, SetWanted, Change, SchedulingInv, TypeOK
<1>3. wanted' \in [Mapping -> BOOLEAN]
  <2>1. wanted \in [Mapping -> BOOLEAN]
    BY DEF SchedulingInv, TypeOK
  <2>2. \A m \in Mapping : [wanted EXCEPT ![m] = ~@] \in [Mapping -> BOOLEAN]
    BY <2>1
  <2> QED BY <2>1, <2>2 DEF StartHold, EndHold, vars, SetWanted
<1>4. hold' \in [on : BOOLEAN, minutes : 0..Quiet]
  <2>1. hold \in [on : BOOLEAN, minutes : 0..Quiet]
    BY DEF SchedulingInv, TypeOK
  <2>2. \A b \in BOOLEAN : [on |-> b, minutes |-> 0] \in [on : BOOLEAN, minutes : 0..Quiet]
    BY Limits
  <2> QED BY <2>1, <2>2 DEF StartHold, EndHold, vars, SetWanted
<1>5. TypeOK'
  BY <1>1, <1>2, <1>3, <1>4 DEF SchedulingInv, TypeOK, Waiting
<1>6. LiveInv'
  BY <1>1 DEF SchedulingInv, LiveInv, Live
<1>7. RoomInv'
  BY <1>1, RoomSame DEF SchedulingInv
<1> QED BY <1>5, <1>6, <1>7 DEF SchedulingInv

LEMMA StepInv == SchedulingInv /\ [Next]_vars => SchedulingInv'
BY MinuteInv, TickReadInv, EnqueueInv, StartRunInv, EndsInv, PressInv, OtherInv DEF Next, TickStep

-----------------------------------------------------------------------------
(* The theorems.                                                            *)

\* For every set of migrations and every bound, the types hold: in particular the
\* places stay a numbering of the migrations whichever begin their passes, so the
\* tick's order has no ties (managed-sync-tick.ts, longestWaitingFirst).
THEOREM SchedulingTypes == Spec => []TypeOK
<1>1. SchedulingInv => TypeOK
  BY DEF SchedulingInv
<1> QED BY <1>1, InitInv, StepInv, PTL DEF Spec

\* For every set of migrations and every cap, and however late the plane starts
\* them, the tick's passes keep the caps, but for those a later tick could not
\* count (managed-sync-tick.ts, withinCapacity).
THEOREM CapsAreHeld == Spec => []CapHeld
<1>1. SchedulingInv => CapHeld
  <2> SUFFICES ASSUME SchedulingInv PROVE CapHeld
    OBVIOUS
  <2>1. RoomInv
    BY DEF SchedulingInv
  <2>2. Ticked \in SUBSET Holding /\ Holding \in SUBSET Mapping
    BY DEF Ticked, Holding
  <2>3. /\ IsFiniteSet(Holding) /\ Cardinality(Holding) \in Nat
        /\ Cardinality(Ticked) \in Nat /\ Cardinality(Ticked) <= Cardinality(Holding)
    BY <2>2, MappingFinite, FS_Subset
  <2>4. Cardinality(Ticked) <= inFlight
    BY <2>1, <2>3, Limits DEF RoomInv
  <2>5. ASSUME NEW o \in Org PROVE Cardinality({m \in Ticked : OrgOf[m] = o}) <= perOrganisation
    <3> DEFINE A == {m \in Holding : OrgOf[m] = o}
               B == {m \in Ticked : OrgOf[m] = o}
    <3>1. A \in SUBSET Mapping /\ B \in SUBSET A /\ Cardinality(A) <= perOrganisation
      BY <2>1, <2>2 DEF RoomInv
    <3> HIDE DEF A, B
    <3>2. IsFiniteSet(A) /\ Cardinality(A) \in Nat /\ Cardinality(B) \in Nat
      BY <3>1, MappingFinite
    <3>3. Cardinality(B) <= perOrganisation
      BY <3>1, <3>2, FS_Subset, Limits
    <3> QED BY <3>3 DEF B
  <2> QED BY <2>4, <2>5 DEF CapHeld
<1> QED BY <1>1, InitInv, StepInv, PTL DEF Spec

\* For every migration and every limit: the tick finds no migration due whose
\* pass is running, so it starts no second one beside it.
THEOREM LiveNeverTakenForDead == Spec => LiveIsNotDead
<1>1. SchedulingInv /\ [Next]_vars => [\A m \in tick'.due \ tick.due : ~Live(m)]_vars
  <2> SUFFICES ASSUME SchedulingInv, [Next]_vars, NEW m \in tick'.due \ tick.due, Live(m)
               PROVE  UNCHANGED vars
    BY DEF SchedulingInv
  <2>1. CASE TickRead
    <3>1. m \in Mapping /\ ~running(m)
      BY <2>1 DEF TickRead
    <3>2. running(m)
      BY <3>1, TypeParts, LiveRuns DEF SchedulingInv
    <3> QED BY <3>1, <3>2
  <2>2. CASE Minute \/ TickEnqueue
    BY <2>2 DEF Minute, TickEnqueue
  <2>3. CASE \/ StartHold \/ EndHold \/ UNCHANGED vars
             \/ \E x \in Mapping : StartRun(x) \/ Ends(x) \/ PressSyncNow(x) \/ SetWanted(x)
    BY <2>3 DEF StartHold, EndHold, StartRun, Ends, Succeed, Kill, FailRun, PressSyncNow, SetWanted, vars
  <2> QED BY <2>1, <2>2, <2>3 DEF Next, TickStep
<1> QED BY <1>1, InitInv, StepInv, PTL DEF Spec, LiveIsNotDead
=============================================================================
