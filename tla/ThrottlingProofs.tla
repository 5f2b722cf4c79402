-------------------------- MODULE ThrottlingProofs --------------------------
(***************************************************************************)
(* Proofs about Throttling, for every number of processes, workers and     *)
(* slots, every stored rate and every number of failures and deaths: the   *)
(* slots are counted right, and the shared row, refilled lazily and at     *)
(* rates that differ, acts as one bucket that leaks at Default.            *)
(***************************************************************************)
EXTENDS Throttling, FiniteSetTheorems, TLAPS

-----------------------------------------------------------------------------
(* Arithmetic.                                                              *)

LEMMA Product == ASSUME NEW a \in Nat, NEW c \in Nat PROVE a * c \in Nat
OBVIOUS

LEMMA ProductGrows ==
    ASSUME NEW a \in Nat, NEW b \in Nat, NEW c \in Nat, a <= b PROVE a * c <= b * c
OBVIOUS

LEMMA ProductCommutes == ASSUME NEW a \in Nat, NEW c \in Nat PROVE a * c = c * a
OBVIOUS

LEMMA ProductNext == ASSUME NEW a \in Nat, NEW c \in Nat PROVE (a + 1) * c = a * c + c
OBVIOUS

LEMMA ProductCovers == ASSUME NEW a \in Nat, NEW c \in Nat \ {0} PROVE a * c >= a
OBVIOUS

LEMMA Quotient == ASSUME NEW a \in Nat, NEW c \in Nat \ {0} PROVE a \div c \in Nat
OBVIOUS

\* A process fills the row no faster than Default, and at least a token a second.
LEMMA RateBounds ==
    ASSUME NEW p \in Proc
    PROVE  /\ Rate(p) \in Nat \ {0} /\ Rate(p) <= Default
           /\ Burst(p) \in Nat /\ Second <= Burst(p) /\ Burst(p) <= Ceiling
           /\ Ceiling \in Nat
<1>1. Rate(p) \in Nat \ {0} /\ Rate(p) <= Default /\ Default \in Nat /\ Second \in Nat \ {0}
  BY ThrottlingConstants DEF Rate, Least
<1> HIDE DEF Rate
<1>2. Burst(p) \in Nat /\ Burst(p) <= Ceiling /\ Ceiling \in Nat
  BY <1>1, Product, ProductGrows DEF Burst, Ceiling
<1>3. Second * Rate(p) >= Second
  BY <1>1, ProductCovers
<1>4. Second <= Burst(p)
  BY <1>1, <1>3, ProductCommutes DEF Burst
<1> QED BY <1>1, <1>2, <1>4

LEMMA TicksType ==
    ASSUME NEW units \in Nat, NEW rate \in Nat \ {0} PROVE TicksFor(units, rate) \in Nat
<1>1. units + rate - 1 \in Nat
  OBVIOUS
<1> QED BY <1>1, Quotient DEF TicksFor

\* What a process finds in the row is no more than the slowest leak allows.
LEMMA RefilledBounds ==
    ASSUME row \in Row, NEW p \in Proc
    PROVE  /\ Refilled(p) \in Nat
           /\ row.age * Default \in Nat
           /\ Refilled(p) <= Least(Ceiling, row.tokens + row.age * Default)
<1>1. row.age \in Nat /\ row.tokens \in Nat
  BY DEF Row
<1>2. Rate(p) \in Nat /\ Default \in Nat /\ Rate(p) <= Default
  BY RateBounds, ThrottlingConstants
<1>3. row.age * Rate(p) \in Nat /\ row.age * Default \in Nat
  BY <1>1, <1>2, Product
<1>4. row.age * Rate(p) <= row.age * Default
  BY <1>1, <1>2, ProductGrows, ProductCommutes
<1>5. Burst(p) \in Nat /\ Burst(p) <= Ceiling /\ Ceiling \in Nat
  BY RateBounds
<1> HIDE DEF Rate, Burst, Ceiling
<1> QED BY <1>1, <1>3, <1>4, <1>5 DEF Refilled, Least

LEMMA TakenType ==
    ASSUME row \in Row, NEW p \in Proc, Affords(p) PROVE Taken(p) \in Row
<1>1. Refilled(p) \in Nat /\ Burst(p) \in Nat /\ Second <= Burst(p) /\ Second \in Nat
  BY RefilledBounds, RateBounds, ThrottlingConstants
<1> HIDE DEF Refilled, Burst
<1>2. (IF row.made THEN Refilled(p) - Second ELSE Burst(p) - Second) \in Nat
  BY <1>1 DEF Affords
<1> QED BY <1>2 DEF Taken, Row

LEMMA DeficitType == ASSUME row \in Row, NEW p \in Proc PROVE deficit(p) \in Nat
<1>1. Refilled(p) \in Nat /\ Second \in Nat /\ Rate(p) \in Nat \ {0} /\ MaxWait \in Nat
  BY RefilledBounds, RateBounds, ThrottlingConstants
<1> HIDE DEF Refilled, Rate
<1>2. Most(Second, Refilled(p)) - Refilled(p) \in Nat
  BY <1>1 DEF Most
<1>3. TicksFor(Most(Second, Refilled(p)) - Refilled(p), Rate(p)) \in Nat
  BY <1>1, <1>2, TicksType
<1> HIDE DEF TicksFor
<1> QED BY <1>1, <1>3 DEF deficit, Least, Most

-----------------------------------------------------------------------------
(* The slots.  A step of a worker takes a slot, frees the one it holds, or  *)
(* leaves the count alone; the count is the number of workers that hold.    *)

Holding == {"local", "shared", "refused", "sending"}
Held(p) == {w \in Worker : Me(w) = p /\ Holds(w)}

CountInv == \A p \in Proc : active[p] = Cardinality(Held(p)) /\ active[p] <= maxConcurrent

SlotsInv == TypeOK /\ CountInv

Becomes(w, s) == s \in WorkerState /\ worker' = [worker EXCEPT ![w] = s]
Keeps(w) ==
    \E s \in WorkerState : Becomes(w, s) /\ (s.pc \in Holding <=> Holds(w)) /\ active' = active
Takes(w) ==
    \E s \in WorkerState :
        /\ Becomes(w, s) /\ s.pc \in Holding /\ ~Holds(w) /\ active[Me(w)] < maxConcurrent
        /\ active' = [active EXCEPT ![Me(w)] = @ + 1]
Frees(w) ==
    \E s \in WorkerState :
        /\ Becomes(w, s) /\ s.pc \notin Holding /\ Holds(w)
        /\ active' = [active EXCEPT ![Me(w)] = @ - 1]

LEMMA HeldFinite ==
    ASSUME NEW p PROVE IsFiniteSet(Held(p)) /\ Cardinality(Held(p)) \in Nat
BY ThrottlingConstants, FS_Subset, FS_CardinalityType DEF Held

LEMMA HeldAfter ==
    ASSUME TypeOK, NEW w \in Worker, NEW s \in WorkerState, Becomes(w, s), NEW p \in Proc
    PROVE  Held(p)' = IF Me(w) = p /\ s.pc \in Holding THEN Held(p) \cup {w} ELSE Held(p) \ {w}
BY DEF TypeOK, Becomes, Held, Holds, Holding, Me

LEMMA CountStep ==
    ASSUME SlotsInv, NEW w \in Worker, Keeps(w) \/ Takes(w) \/ Frees(w)
    PROVE  CountInv' /\ active' \in [Proc -> Nat] /\ worker' \in [Worker -> WorkerState]
<1> USE DEF SlotsInv
<1>1. Me(w) \in Proc /\ maxConcurrent \in Nat
  BY ThrottlingConstants DEF Me
<1>2. \A p \in Proc : active[p] \in Nat
  BY DEF TypeOK
<1>3. CASE Keeps(w)
  <2>1. PICK s \in WorkerState : Becomes(w, s) /\ (s.pc \in Holding <=> Holds(w)) /\ active' = active
    BY <1>3 DEF Keeps
  <2>2. \A p \in Proc : Held(p)' = Held(p)
    BY <2>1, HeldAfter DEF Held
  <2> QED BY <2>1, <2>2 DEF CountInv, TypeOK, Becomes
<1>4. CASE Takes(w)
  <2>1. PICK s \in WorkerState :
           /\ Becomes(w, s) /\ s.pc \in Holding /\ ~Holds(w) /\ active[Me(w)] < maxConcurrent
           /\ active' = [active EXCEPT ![Me(w)] = @ + 1]
    BY <1>4 DEF Takes
  <2>2. \A p \in Proc : p # Me(w) => Held(p)' = Held(p)
    BY <2>1, HeldAfter DEF Held
  <2>3. Held(Me(w))' = Held(Me(w)) \cup {w} /\ w \notin Held(Me(w))
    BY <1>1, <2>1, HeldAfter DEF Held
  <2>4. Cardinality(Held(Me(w))') = Cardinality(Held(Me(w))) + 1
    BY <2>3, HeldFinite, FS_AddElement
  <2> QED BY <1>1, <1>2, <2>1, <2>2, <2>4 DEF CountInv, TypeOK, Becomes
<1>5. CASE Frees(w)
  <2>1. PICK s \in WorkerState :
           /\ Becomes(w, s) /\ s.pc \notin Holding /\ Holds(w)
           /\ active' = [active EXCEPT ![Me(w)] = @ - 1]
    BY <1>5 DEF Frees
  <2>2. \A p \in Proc : p # Me(w) => Held(p)' = Held(p)
    BY <2>1, HeldAfter DEF Held
  <2>3. Held(Me(w))' = Held(Me(w)) \ {w} /\ w \in Held(Me(w))
    BY <1>1, <2>1, HeldAfter DEF Held
  <2>4. Cardinality(Held(Me(w))') = Cardinality(Held(Me(w))) - 1
    BY <2>3, HeldFinite, FS_RemoveElement
  <2>5. Cardinality(Held(Me(w))') \in Nat
    BY <2>3, HeldFinite, FS_RemoveElement, FS_CardinalityType
  <2>6. active[Me(w)] - 1 \in Nat
    BY <1>1, <2>4, <2>5 DEF CountInv
  <2> QED BY <1>1, <1>2, <2>1, <2>2, <2>4, <2>6 DEF CountInv, TypeOK, Becomes
<1> QED BY <1>3, <1>4, <1>5

\* A worker whose record changes in some fields becomes a record of its type.
LEMMA PcBecomes ==
    ASSUME TypeOK, NEW w \in Worker,
           NEW pc \in Waiting \cup {"idle", "sending", "pause"}, Goes(w, pc)
    PROVE  \E s \in WorkerState : Becomes(w, s) /\ s.pc = pc
<1> DEFINE s == [worker[w] EXCEPT !.pc = pc]
<1>1. s \in WorkerState /\ s.pc = pc
  BY DEF TypeOK, WorkerState
<1>2. worker' = [worker EXCEPT ![w] = s]
  BY DEF Goes
<1> QED BY <1>1, <1>2 DEF Becomes

LEMMA WakeBecomes ==
    ASSUME TypeOK, NEW w \in Worker, NEW pc \in Waiting, NEW n \in Nat,
           worker' = [worker EXCEPT ![w] = [worker[w] EXCEPT !.pc = pc, !.wake = n]]
    PROVE  \E s \in WorkerState : Becomes(w, s) /\ s.pc = pc
<1> DEFINE s == [worker[w] EXCEPT !.pc = pc, !.wake = n]
<1>1. s \in WorkerState /\ s.pc = pc
  BY DEF TypeOK, WorkerState
<1> QED BY <1>1 DEF Becomes

LEMMA EndsBecomes ==
    ASSUME TypeOK, NEW w \in Worker, Ends(w) \/ Retries(w)
    PROVE  \E s \in WorkerState : Becomes(w, s) /\ s.pc \in {"idle", "pause"}
<1>1. maxRetries \in Nat
  BY ThrottlingConstants
<1>2. worker[w] \in WorkerState
  BY DEF TypeOK
<1>3. AtRest(worker[w]) \in WorkerState /\ AtRest(worker[w]).pc = "idle"
  BY <1>1, <1>2 DEF AtRest, WorkerState
<1>4. worker[w].attempt < maxRetries => Again(worker[w]) \in WorkerState /\ Again(worker[w]).pc = "pause"
  BY <1>1, <1>2 DEF Again, WorkerState
<1>5. worker' = [worker EXCEPT ![w] = AtRest(worker[w])]
      \/ (worker[w].attempt < maxRetries /\ worker' = [worker EXCEPT ![w] = Again(worker[w])])
  BY DEF Ends, Retries
<1> QED BY <1>3, <1>4, <1>5 DEF Becomes

-----------------------------------------------------------------------------
(* Every step of a worker takes, frees or keeps its slot.                   *)

Changes(w) == Keeps(w) \/ Takes(w) \/ Frees(w)

LEMMA StepChanges ==
    ASSUME TypeOK, NEW w \in Worker,
           Step(w) \/ \E transient \in BOOLEAN : BudgetFails(w, transient)
    PROVE  Changes(w)
<1> USE DEF Changes
<1>0. worker[w] \in WorkerState /\ maxRetries \in Nat /\ Me(w) \in Proc /\ row \in Row
      /\ local[Me(w)] \in Nat /\ Rate(Me(w)) \in Nat \ {0} /\ Second \in Nat
  BY RateBounds, ThrottlingConstants DEF TypeOK, Me
<1>1. CASE Request(w)
  <2> DEFINE s == [pc |-> "slot", attempt |-> 0, wake |-> 0, left |-> worker[w].left - 1]
  <2>1. s \in WorkerState /\ s.pc \notin Holding
    BY <1>0, <1>1, ThrottlingConstants DEF Request, WorkerState, Waiting, Holding
  <2>2. Becomes(w, s)
    BY <1>1, <2>1 DEF Request, Becomes
  <2> QED BY <1>1, <2>1, <2>2 DEF Request, Keeps, At, Holds
<1>2. CASE waitForSlot(w)
  <2>1. PICK s \in WorkerState : Becomes(w, s) /\ s.pc = "local"
    BY <1>2, PcBecomes DEF waitForSlot, Waiting
  <2> QED BY <1>2, <2>1 DEF waitForSlot, Takes, Holding, Holds, At
<1>3. CASE acquireLocal(w)
  <2>1. CASE local[Me(w)] >= Second
    <3>1. PICK s \in WorkerState : Becomes(w, s) /\ s.pc = "shared"
      BY <1>3, <2>1, PcBecomes DEF acquireLocal, Waiting
    <3> QED BY <1>3, <3>1 DEF acquireLocal, Keeps, Holding, Holds, At
  <2>2. CASE ~(local[Me(w)] >= Second)
    <3> DEFINE n == TicksFor(Second - local[Me(w)], Rate(Me(w)))
               s == [worker[w] EXCEPT !.wake = n]
    <3>1. n \in Nat
      BY <1>0, <2>2, TicksType
    <3>2. worker' = [worker EXCEPT ![w] = s]
      BY <1>3, <2>2 DEF acquireLocal
    <3> HIDE DEF n
    <3>3. s \in WorkerState /\ s.pc = worker[w].pc
      BY <1>0, <3>1 DEF WorkerState
    <3> QED BY <1>3, <3>2, <3>3 DEF acquireLocal, Keeps, Becomes, Holding, Holds, At
  <2> QED BY <2>1, <2>2
<1>4. CASE take(w)
  <2>1. PICK pc \in {"sending", "refused"} : Goes(w, pc)
    BY <1>4 DEF take
  <2>2. PICK s \in WorkerState : Becomes(w, s) /\ s.pc = pc
    BY <2>1, PcBecomes DEF Waiting
  <2> QED BY <1>4, <2>2 DEF take, Keeps, Holding, Holds, At
<1>5. CASE sleepOn(w)
  <2>1. deficit(Me(w)) \in Nat
    BY <1>0, DeficitType
  <2>2. PICK s \in WorkerState : Becomes(w, s) /\ s.pc = "shared"
    BY <1>5, <2>1, WakeBecomes DEF sleepOn, Waiting
  <2> QED BY <1>5, <2>2 DEF sleepOn, Keeps, Holding, Holds, At
<1>6. CASE Answered(w) \/ Throttled(w) \/ \E transient \in BOOLEAN : BudgetFails(w, transient)
  <2>1. /\ Ends(w) \/ Retries(w)
        /\ releaseSlot(w) /\ Holds(w)
    BY <1>6 DEF Answered, Throttled, BudgetFails, At, Holds
  <2>2. PICK s \in WorkerState : Becomes(w, s) /\ s.pc \in {"idle", "pause"}
    BY <2>1, EndsBecomes
  <2> QED BY <2>1, <2>2 DEF Frees, releaseSlot, Holding
<1>7. CASE Resume(w)
  <2>1. PICK s \in WorkerState : Becomes(w, s) /\ s.pc = "slot"
    BY <1>7, PcBecomes DEF Resume, Waiting
  <2> QED BY <1>7, <2>1 DEF Resume, Keeps, Holding, Holds, At
<1> QED BY <1>1, <1>2, <1>3, <1>4, <1>5, <1>6, <1>7 DEF Step

\* The other variables keep their types.
LEMMA StepTypes ==
    ASSUME TypeOK, NEW w \in Worker,
           Step(w) \/ \E transient \in BOOLEAN : BudgetFails(w, transient)
    PROVE  local' \in [Proc -> Nat] /\ row' \in Row /\ sent' \in Nat /\ faults' \in Nat
<1>0. Me(w) \in Proc /\ Second \in Nat
  BY ThrottlingConstants DEF Me
<1>1. CASE acquireLocal(w)
  BY <1>0, <1>1 DEF acquireLocal, TypeOK
<1>2. CASE take(w)
  BY <1>0, <1>2, TakenType DEF take, TypeOK
<1>3. CASE \/ Request(w) \/ waitForSlot(w) \/ sleepOn(w) \/ Answered(w) \/ Throttled(w) \/ Resume(w)
           \/ \E transient \in BOOLEAN : BudgetFails(w, transient)
  BY <1>3 DEF Request, waitForSlot, sleepOn, Answered, Throttled, Resume, BudgetFails, Fault, TypeOK
<1> QED BY <1>1, <1>2, <1>3 DEF Step

LEMMA InitSlots == Init => SlotsInv
<1> SUFFICES ASSUME Init PROVE SlotsInv
  OBVIOUS
<1>1. TypeOK
  BY RateBounds, ThrottlingConstants DEF Init, TypeOK, WorkerState, Waiting, Row
<1>2. \A p \in Proc : Held(p) = {}
  BY DEF Init, Held, Holds
<1>3. Cardinality({}) = 0 /\ 0 <= maxConcurrent
  BY FS_EmptySet, ThrottlingConstants
<1>4. \A p \in Proc : active[p] = 0
  BY DEF Init
<1> QED BY <1>1, <1>2, <1>3, <1>4 DEF SlotsInv, CountInv

LEMMA DieSlots ==
    ASSUME SlotsInv, NEW p \in Proc, Die(p) PROVE SlotsInv'
<1> USE DEF SlotsInv
<1>1. \A w \in Worker : worker[w] \in WorkerState
  BY DEF TypeOK
<1>2. \A w \in Worker : AtRest(worker[w]) \in WorkerState /\ AtRest(worker[w]).pc = "idle"
  BY <1>1, ThrottlingConstants DEF AtRest, WorkerState
<1>3. TypeOK'
  BY <1>1, <1>2, RateBounds DEF Die, TypeOK, Fault
<1>4. Held(p)' = {}
  BY <1>2 DEF Die, Held, Holds
<1>5. \A q \in Proc : q # p => Held(q)' = Held(q)
  BY <1>1 DEF Die, Held, Holds
<1>6. \A q \in Proc : active'[q] = IF q = p THEN 0 ELSE active[q]
  BY DEF Die, TypeOK
<1>7. Cardinality({}) = 0 /\ 0 <= maxConcurrent
  BY FS_EmptySet, ThrottlingConstants
<1>8. ASSUME NEW q \in Proc
      PROVE  active'[q] = Cardinality(Held(q)') /\ active'[q] <= maxConcurrent
  <2>1. CASE q = p
    BY <2>1, <1>4, <1>6, <1>7
  <2>2. CASE q # p
    <3>1. active'[q] = active[q] /\ Held(q)' = Held(q)
      BY <2>2, <1>5, <1>6
    <3> QED BY <3>1 DEF CountInv
  <2> QED BY <2>1, <2>2
<1> QED BY <1>3, <1>8 DEF CountInv

LEMMA TickSlots == ASSUME SlotsInv, Tick PROVE SlotsInv'
<1> USE DEF SlotsInv
<1>1. ASSUME NEW w \in Worker PROVE worker'[w] \in WorkerState /\ worker'[w].pc = worker[w].pc
  <2>1. worker[w] \in WorkerState
    BY DEF TypeOK
  <2>2. Most(worker[w].wake, 1) - 1 \in Nat
    BY <2>1 DEF WorkerState, Most
  <2>3. worker'[w] = [worker[w] EXCEPT !.wake = Most(worker[w].wake, 1) - 1]
    BY DEF Tick
  <2> QED BY <2>1, <2>2, <2>3 DEF WorkerState
<1>2. worker' \in [Worker -> WorkerState]
  BY <1>1 DEF Tick
<1>3. local' \in [Proc -> Nat]
  <2>1. ASSUME NEW p \in Proc PROVE Least(Burst(p), local[p] + Rate(p)) \in Nat
    BY RateBounds DEF TypeOK, Least
  <2> QED BY <2>1 DEF Tick
<1>4. Ceiling \in Nat
  BY ThrottlingConstants, Product DEF Ceiling
<1>5. row' \in Row
  <2>1. Least(Full, row.age + 1) \in Nat
    BY <1>4 DEF TypeOK, Row, Full, Least
  <2> QED BY <2>1 DEF Tick, TypeOK, Row
<1>6. sent' \in Nat
  BY ThrottlingConstants DEF Tick, TypeOK, Most
<1>7. \A p \in Proc : Held(p)' = Held(p)
  BY <1>1 DEF Held, Holds
<1> QED BY <1>2, <1>3, <1>5, <1>6, <1>7 DEF Tick, TypeOK, CountInv

LEMMA SlotsStep == SlotsInv /\ [Next]_vars => SlotsInv'
<1> SUFFICES ASSUME SlotsInv, [Next]_vars PROVE SlotsInv'
  OBVIOUS
<1>1. CASE UNCHANGED vars
  BY <1>1 DEF vars, SlotsInv, TypeOK, CountInv, Held, Holds, Me
<1>2. ASSUME NEW w \in Worker, Step(w) \/ \E transient \in BOOLEAN : BudgetFails(w, transient)
      PROVE  SlotsInv'
  BY <1>2, StepChanges, StepTypes, CountStep DEF Changes, SlotsInv, TypeOK
<1> QED BY <1>1, <1>2, DieSlots, TickSlots DEF Next

\* Every process, worker and slot: the variables keep their types; the count of a
\* process never goes below zero, because each slot is given back once.
THEOREM ThrottlingTypes == Spec => []TypeOK
<1>1. SlotsInv => TypeOK
  BY DEF SlotsInv
<1> QED BY <1>1, InitSlots, SlotsStep, PTL DEF Spec

\* However many workers fail, retry and die, a process's count is the requests
\* that are on their way, and never above maxConcurrent.
THEOREM SlotsAlwaysHeld == Spec => []SlotsHeld
<1>1. SlotsInv => SlotsHeld
  BY DEF SlotsInv, CountInv, SlotsHeld, Held
<1> QED BY <1>1, InitSlots, SlotsStep, PTL DEF Spec

-----------------------------------------------------------------------------
(* The bucket.  What was granted and what the row could grant at the full   *)
(* rate are together never more than the ceiling.                           *)

BucketInv ==
    IF row.made THEN sent + Least(Ceiling, row.tokens + row.age * Default) <= Ceiling
    ELSE sent = 0

LEMMA BucketTakes ==
    ASSUME TypeOK, BucketInv, NEW w \in Worker, take(w), row' # row \/ sent' # sent
    PROVE  BucketInv' /\ sent + Second <= Ceiling /\ sent' = sent + Second
<1> DEFINE p == Me(w)
           l == Least(Ceiling, row.tokens + row.age * Default)
<1>1. p \in Proc /\ Second \in Nat /\ sent \in Nat /\ Default \in Nat /\ row \in Row
  BY ThrottlingConstants DEF TypeOK, Me
<1>2. Affords(p) /\ row' = Taken(p) /\ sent' = sent + Second
  BY DEF take
<1>3. Refilled(p) \in Nat /\ Refilled(p) <= l /\ row.age * Default \in Nat
  BY <1>1, RefilledBounds
<1>4. Burst(p) \in Nat /\ Burst(p) <= Ceiling /\ Second <= Burst(p) /\ Ceiling \in Nat
  BY <1>1, RateBounds
<1>5. l \in Nat
  BY <1>1, <1>3, <1>4 DEF Least, Row
<1>6. row'.made /\ row'.age = 0
      /\ row'.tokens = IF row.made THEN Refilled(p) - Second ELSE Burst(p) - Second
  BY <1>2 DEF Taken
<1>7. row'.tokens + row'.age * Default = row'.tokens
  BY <1>1, <1>3, <1>4, <1>6
<1>8. Least(Ceiling, row'.tokens) <= row'.tokens
  BY <1>1, <1>3, <1>4, <1>6 DEF Least
<1> HIDE DEF p, l
<1>9. CASE row.made
  <2>1. sent + l <= Ceiling
    BY <1>9 DEF BucketInv, l
  <2>2. Second <= Refilled(p)
    BY <1>2, <1>9 DEF Affords
  <2>3. sent + Second + row'.tokens <= Ceiling
    BY <1>1, <1>3, <1>4, <1>5, <1>6, <1>9, <2>1, <2>2
  <2>4. Least(Ceiling, row'.tokens) \in Nat
    BY <1>1, <1>3, <1>4, <1>6, <1>9, <2>2 DEF Least
  <2>5. sent + Second + Least(Ceiling, row'.tokens) <= Ceiling
    BY <1>1, <1>3, <1>4, <1>6, <1>8, <1>9, <2>3, <2>4
  <2>6. sent + Second <= Ceiling
    BY <1>1, <1>4, <2>4, <2>5
  <2> QED BY <1>2, <1>6, <1>7, <2>5, <2>6 DEF BucketInv, Ceiling
<1>10. CASE ~row.made
  <2>1. sent = 0
    BY <1>10 DEF BucketInv
  <2>2. row'.tokens = Burst(p) - Second
    BY <1>6, <1>10
  <2>3. Least(Ceiling, row'.tokens) = row'.tokens
    BY <1>1, <1>4, <2>2 DEF Least
  <2>4. sent + Second + Least(Ceiling, row'.tokens) <= Ceiling
    BY <1>1, <1>4, <2>1, <2>2, <2>3
  <2> QED BY <1>1, <1>2, <1>4, <1>6, <1>7, <2>1, <2>4 DEF BucketInv, Ceiling
<1> QED BY <1>9, <1>10

LEMMA BucketTicks == ASSUME TypeOK, BucketInv, Tick PROVE BucketInv'
<1> DEFINE l == row.tokens + row.age * Default
           m == row.tokens + row'.age * Default
<1>1. sent \in Nat /\ Default \in Nat \ {0} /\ row.age \in Nat /\ row.tokens \in Nat /\ Ceiling \in Nat
  BY ThrottlingConstants, Product DEF TypeOK, Row, Ceiling
<1>2. row'.made = row.made /\ row'.tokens = row.tokens /\ row'.age = Least(Ceiling, row.age + 1)
  BY DEF Tick, TypeOK, Row, Full
<1>3. sent' = IF sent < Default THEN 0 ELSE sent - Default
  BY <1>1 DEF Tick, Most
<1>4. row.age * Default \in Nat /\ row'.age \in Nat /\ row'.age * Default \in Nat
  <2>1. row'.age \in Nat
    BY <1>1, <1>2 DEF Least
  <2> QED BY <1>1, <2>1, Product
<1>5. l \in Nat /\ m \in Nat
  BY <1>1, <1>4
<1>6. m = l + Default \/ (l >= Ceiling /\ m >= Ceiling)
  <2>1. CASE row.age + 1 <= Ceiling
    <3>1. row'.age = row.age + 1
      BY <1>1, <1>2, <2>1 DEF Least
    <3>2. row'.age * Default = row.age * Default + Default
      BY <1>1, <3>1, ProductNext
    <3> QED BY <1>1, <1>4, <3>2
  <2>2. CASE row.age >= Ceiling
    <3>1. row'.age = Ceiling
      BY <1>1, <1>2, <2>2 DEF Least
    <3>2. row.age * Default >= row.age /\ Ceiling * Default >= Ceiling
      BY <1>1, ProductCovers
    <3> QED BY <1>1, <1>4, <2>2, <3>1, <3>2
  <2> QED BY <1>1, <2>1, <2>2
<1>7. CASE row.made
  <2>1. sent + Least(Ceiling, l) <= Ceiling
    BY <1>7 DEF BucketInv
  <2>2. sent' + Least(Ceiling, m) <= Ceiling => BucketInv'
    BY <1>2, <1>7 DEF BucketInv, Ceiling
  <2> HIDE DEF l, m, Ceiling
  <2>3. sent' + Least(Ceiling, m) <= Ceiling
    BY <1>1, <1>3, <1>5, <1>6, <2>1 DEF Least
  <2> QED BY <2>2, <2>3
<1>8. CASE ~row.made
  BY <1>1, <1>2, <1>3, <1>8 DEF BucketInv
<1> QED BY <1>7, <1>8

\* Only a take and the clock touch the row and the count of what was granted.
LEMMA BucketStep ==
    ASSUME TypeOK, BucketInv, [Next]_vars
    PROVE  /\ BucketInv'
           /\ [Bucket!Grant \/ Bucket!Drain]_sent
<1>1. CASE UNCHANGED <<row, sent>>
  BY <1>1 DEF BucketInv
<1>2. CASE Tick
  <2>1. Bucket!Drain
    BY <1>2, ThrottlingConstants DEF Tick, Bucket!Drain, Most, TypeOK
  <2> QED BY <1>2, <2>1, BucketTicks
<1>3. ASSUME NEW w \in Worker, take(w), row' # row \/ sent' # sent
      PROVE  BucketInv' /\ Bucket!Grant
  BY <1>3, BucketTakes DEF Bucket!Grant
<1>4. ASSUME NEW w \in Worker, Step(w), ~take(w) PROVE UNCHANGED <<row, sent>>
  BY <1>4 DEF Step, Request, waitForSlot, acquireLocal, sleepOn, Answered, Throttled, Resume
<1>5. ASSUME NEW w \in Worker, NEW transient \in BOOLEAN, BudgetFails(w, transient)
      PROVE  UNCHANGED <<row, sent>>
  BY <1>5 DEF BudgetFails
<1>6. ASSUME NEW p \in Proc, Die(p) PROVE UNCHANGED <<row, sent>>
  BY <1>6 DEF Die
<1> QED BY <1>1, <1>2, <1>3, <1>4, <1>5, <1>6 DEF Next, vars

LEMMA InitBucket == Init => BucketInv
BY DEF Init, BucketInv

\* For every set of processes and rates: the shared row implements one bucket that
\* leaks at Default, whoever takes from it, at what rate and whenever it dies.
THEOREM OneBucket == Spec => ActsAsOneBucket
<1>1. Init => Bucket!Init
  BY DEF Init, Bucket!Init
<1>2. TypeOK /\ BucketInv /\ [Next]_vars => BucketInv' /\ [Bucket!Grant \/ Bucket!Drain]_sent
  BY BucketStep
<1> QED BY <1>1, <1>2, InitBucket, ThrottlingTypes, PTL DEF Spec, ActsAsOneBucket, Bucket!Spec

\* And so, in any stretch of time, no more is sent than Default allows in it and
\* a burst of one second.
THEOREM RateAlwaysHeld == Spec => []RateHeld
<1>1. TypeOK /\ BucketInv => RateHeld
  <2> SUFFICES ASSUME TypeOK, BucketInv PROVE RateHeld
    OBVIOUS
  <2>1. Ceiling \in Nat /\ sent \in Nat /\ row \in Row /\ Default \in Nat
    BY ThrottlingConstants, Product DEF Ceiling, TypeOK
  <2>2. row.tokens + row.age * Default \in Nat
    BY <2>1, Product DEF Row
  <2> QED BY <2>1, <2>2 DEF BucketInv, RateHeld, Least
<1>2. TypeOK /\ BucketInv /\ [Next]_vars => BucketInv'
  BY BucketStep
<1> QED BY <1>1, <1>2, InitBucket, ThrottlingTypes, PTL DEF Spec
=============================================================================
