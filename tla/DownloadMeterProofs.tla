------------------------ MODULE DownloadMeterProofs ------------------------
(***************************************************************************)
(* Proofs about DownloadMeter, for every number of workers, every ceiling, *)
(* every size of a message and any number of deaths: a window counts less  *)
(* than the ceiling and one message more for each worker.  The invariant   *)
(* counts, beside what is in the window, one message for every worker that *)
(* is past its gate.  A window that is over keeps its old count until the  *)
(* next spend, whoever passes the gate meanwhile, so the invariant says    *)
(* nothing of those workers then.                                          *)
(*                                                                         *)
(* In any day, wherever it lies, less than two such windows: a byte that   *)
(* came in it is counted in the open window or the one before, in the      *)
(* hands of a worker, or lost to a death.                                  *)
(***************************************************************************)
EXTENDS DownloadMeter, FiniteSetTheorems, TLAPS

LEMMA Product == ASSUME NEW a \in Nat, NEW c \in Nat PROVE a * c \in Nat
OBVIOUS

LEMMA ProductGrows ==
    ASSUME NEW a \in Nat, NEW b \in Nat, NEW c \in Nat, a <= b PROVE a * c <= b * c
OBVIOUS

LEMMA ProductNext == ASSUME NEW a \in Nat, NEW c \in Nat PROVE (a + 1) * c = a * c + c
OBVIOUS

Busy == {w \in Worker : worker[w].pc \in {"fetch", "spend"}}
Bound == Provider - 1 + Workers * MaxSize

\* A message is taken from those left by the fetch and comes back with a death.
LeftInv ==
    \A w \in Worker : /\ worker[w].pc = "fetch" => worker[w].left > 0
                      /\ worker[w].pc = "spend" => worker[w].left < Fetches

MeterInv ==
    /\ meter.spent <= Bound
    /\ ~expired => meter.spent + Cardinality(Busy) * MaxSize <= Bound

LEMMA Constants ==
    /\ Provider \in Nat \ {0} /\ MaxSize \in Nat \ {0} /\ Day \in Nat \ {0} /\ Fetches \in Nat
    /\ Workers \in Nat /\ Workers * MaxSize \in Nat /\ Bound \in Nat /\ Workers * MaxSize <= Bound
<1>1. Provider \in Nat \ {0} /\ MaxSize \in Nat \ {0} /\ Day \in Nat \ {0} /\ Fetches \in Nat
      /\ IsFiniteSet(Worker)
  BY MeterConstants
<1>2. Workers \in Nat
  BY <1>1, FS_CardinalityType DEF Workers
<1>3. Workers * MaxSize \in Nat
  BY <1>1, <1>2, Product
<1> QED BY <1>1, <1>2, <1>3 DEF Bound

LEMMA CeilingHolds == ASSUME NEW w \in Worker PROVE ceiling(w) \in Nat /\ ceiling(w) <= Provider
BY MeterConstants DEF ceiling, Least

LEMMA SomeWorkers ==
    ASSUME NEW S \in SUBSET Worker
    PROVE  /\ IsFiniteSet(S) /\ Cardinality(S) \in Nat /\ Cardinality(S) <= Workers
           /\ Cardinality(S) * MaxSize \in Nat /\ Cardinality(S) * MaxSize <= Workers * MaxSize
<1>1. IsFiniteSet(S) /\ Cardinality(S) \in Nat /\ Cardinality(S) <= Workers
  BY MeterConstants, FS_Subset, FS_CardinalityType DEF Workers
<1> QED BY <1>1, Constants, Product, ProductGrows

-----------------------------------------------------------------------------
(* The steps of one worker.                                                 *)

Becomes(w, s) == s \in WorkerState /\ worker' = [worker EXCEPT ![w] = s]

LeftOK(s) == (s.pc = "fetch" => s.left > 0) /\ (s.pc = "spend" => s.left < Fetches)

LEMMA BusyAfter ==
    ASSUME TypeOK, NEW w \in Worker, NEW s \in WorkerState, Becomes(w, s)
    PROVE  /\ worker' \in [Worker -> WorkerState]
           /\ LeftInv /\ LeftOK(s) => LeftInv'
           /\ Busy' = IF s.pc \in {"fetch", "spend"} THEN Busy \cup {w} ELSE Busy \ {w}
BY DEF TypeOK, Becomes, Busy, LeftInv, LeftOK

\* What becomes of a worker.
LEMMA GateBecomes ==
    ASSUME TypeOK, NEW w \in Worker, NEW pc \in {"gate", "fetch", "stopped"}, Goes(w, pc),
           pc = "fetch" => worker[w].left > 0
    PROVE  \E s \in WorkerState : Becomes(w, s) /\ s.pc = pc /\ LeftOK(s) /\ s.bytes = worker[w].bytes
<1> DEFINE s == [worker[w] EXCEPT !.pc = pc]
<1>1. s \in WorkerState /\ s.pc = pc /\ s.left = worker[w].left /\ s.bytes = worker[w].bytes
  BY DEF TypeOK, WorkerState
<1>2. worker' = [worker EXCEPT ![w] = s]
  BY DEF Goes
<1> HIDE DEF s
<1> QED BY <1>1, <1>2 DEF Becomes, LeftOK

LEMMA FetchBecomes ==
    ASSUME TypeOK, LeftInv, NEW w \in Worker, NEW b \in 1..MaxSize, FetchRaw(w, b)
    PROVE  \E s \in WorkerState : Becomes(w, s) /\ s.pc = "spend" /\ LeftOK(s) /\ s.bytes = b
<1> DEFINE s == [pc |-> "spend", bytes |-> b, left |-> worker[w].left - 1]
<1>1. worker[w] \in WorkerState /\ worker[w].left > 0
  BY DEF TypeOK, LeftInv, FetchRaw, At
<1>2. worker[w].left - 1 \in 0..Fetches /\ worker[w].left - 1 < Fetches /\ b \in 0..MaxSize
  BY <1>1, Constants DEF WorkerState
<1>3. s \in WorkerState /\ s.pc = "spend" /\ LeftOK(s) /\ s.bytes = b
  BY <1>2 DEF WorkerState, LeftOK
<1>4. worker' = [worker EXCEPT ![w] = s]
  BY DEF FetchRaw
<1> QED BY <1>3, <1>4 DEF Becomes

LEMMA SpendBecomes ==
    ASSUME TypeOK, NEW w \in Worker, Spend(w)
    PROVE  \E s \in WorkerState : Becomes(w, s) /\ s.pc = "gate" /\ LeftOK(s) /\ s.bytes = 0
<1> DEFINE s == [worker[w] EXCEPT !.pc = "gate", !.bytes = 0]
<1>1. worker[w] \in WorkerState /\ 0 \in 0..MaxSize
  BY Constants DEF TypeOK
<1>2. s \in WorkerState /\ s.pc = "gate" /\ s.bytes = 0
  BY <1>1 DEF WorkerState
<1>3. worker' = [worker EXCEPT ![w] = s]
  BY DEF Spend
<1> QED BY <1>2, <1>3 DEF Becomes, LeftOK

LEMMA DieBecomes ==
    ASSUME TypeOK, LeftInv, NEW w \in Worker, Die(w)
    PROVE  \E s \in WorkerState : Becomes(w, s) /\ s.pc = "gate" /\ LeftOK(s) /\ s.bytes = 0
<1> DEFINE s == [pc |-> "gate", bytes |-> 0, left |-> worker[w].left + 1]
<1>1. worker[w] \in WorkerState /\ worker[w].left < Fetches /\ 0 \in 0..MaxSize
  BY Constants DEF TypeOK, LeftInv, Die, At
<1>2. worker[w].left + 1 \in 0..Fetches
  BY <1>1, Constants DEF WorkerState
<1>3. s \in WorkerState /\ s.pc = "gate" /\ s.bytes = 0
  BY <1>1, <1>2 DEF WorkerState
<1>4. worker' = [worker EXCEPT ![w] = s]
  BY DEF Die
<1> QED BY <1>3, <1>4 DEF Becomes, LeftOK

-----------------------------------------------------------------------------
(* The window.                                                              *)

SafeInv == TypeOK /\ LeftInv /\ MeterInv

LEMMA MeterTypes == TypeOK => meter.spent \in Nat /\ meter.age \in 0..Day /\ meter.made \in BOOLEAN
BY DEF TypeOK, Meter

\* Nobody enters, and the window stands or is over.
LEMMA MeterKept ==
    ASSUME SafeInv, Busy' \in SUBSET Busy, meter'.spent = meter.spent, expired => expired'
    PROVE  MeterInv'
<1>1. Busy \in SUBSET Worker /\ Busy' \in SUBSET Worker
  BY DEF Busy
<1>2. Cardinality(Busy') <= Cardinality(Busy)
  BY <1>1, SomeWorkers, FS_Subset
<1>3. Cardinality(Busy') * MaxSize <= Cardinality(Busy) * MaxSize
  BY <1>1, <1>2, SomeWorkers, Constants, ProductGrows
<1>4. Cardinality(Busy') * MaxSize \in Nat /\ Cardinality(Busy) * MaxSize \in Nat
  BY <1>1, SomeWorkers
<1>5. meter.spent \in Nat /\ Bound \in Nat
  BY MeterTypes, Constants DEF SafeInv
<1>6. MeterInv
  BY DEF SafeInv
<1>7. Bound' = Bound
  BY DEF Bound, Workers
<1> HIDE DEF Busy, Bound, expired
<1> QED BY <1>3, <1>4, <1>5, <1>6, <1>7 DEF MeterInv

LEMMA GateKeeps == ASSUME SafeInv, NEW w \in Worker, Gate(w) PROVE SafeInv'
<1> USE DEF SafeInv
<1>1. CASE remaining(w) = 0
  <2>1. PICK s \in WorkerState : Becomes(w, s) /\ s.pc = "stopped" /\ LeftOK(s)
    BY <1>1, GateBecomes DEF Gate
  <2>2. Busy' \in SUBSET Busy
    BY <2>1, BusyAfter
  <2>3. MeterInv'
    BY <2>2, MeterKept DEF Gate, expired
  <2> QED BY <2>1, <2>3, BusyAfter DEF Gate, TypeOK
<1>2. CASE remaining(w) # 0
  <2>1. PICK s \in WorkerState : Becomes(w, s) /\ s.pc = "fetch" /\ LeftOK(s)
    BY <1>2, GateBecomes DEF Gate
  <2>2. Busy' \in SUBSET Worker
    BY DEF Busy
  <2>3. meter.spent \in Nat /\ meter' = meter /\ expired' = expired
    BY MeterTypes DEF Gate, expired
  <2>4. ~expired => meter.spent <= Provider - 1
    BY <1>2, <2>3, CeilingHolds, Constants DEF remaining, Least
  <2>5. Cardinality(Busy') * MaxSize \in Nat /\ Cardinality(Busy') * MaxSize <= Workers * MaxSize
    BY <2>2, SomeWorkers
  <2>6. ~expired => meter.spent + Cardinality(Busy') * MaxSize <= Bound
    BY <2>3, <2>4, <2>5, Constants DEF Bound
  <2>7. MeterInv'
    BY <2>3, <2>6 DEF MeterInv, Bound, Workers
  <2> QED BY <2>1, <2>7, BusyAfter DEF Gate, TypeOK
<1> QED BY <1>1, <1>2

LEMMA FetchKeeps ==
    ASSUME SafeInv, NEW w \in Worker, NEW b \in 1..MaxSize, FetchRaw(w, b) PROVE SafeInv'
<1> USE DEF SafeInv
<1>1. PICK s \in WorkerState : Becomes(w, s) /\ s.pc = "spend" /\ LeftOK(s)
  BY FetchBecomes
<1>2. Busy' \in SUBSET Busy
  BY <1>1, BusyAfter DEF FetchRaw, At, Busy
<1>3. MeterInv'
  BY <1>2, MeterKept DEF FetchRaw, expired
<1>4. sent' \in [Slot -> Nat]
  BY DEF FetchRaw, TypeOK
<1> QED BY <1>1, <1>3, <1>4, BusyAfter DEF FetchRaw, TypeOK

LEMMA SpendKeeps == ASSUME SafeInv, NEW w \in Worker, Spend(w) PROVE SafeInv'
<1> USE DEF SafeInv
<1> DEFINE b == worker[w].bytes
           c == Cardinality(Busy)
           d == Cardinality(Busy')
<1>1. PICK s \in WorkerState : Becomes(w, s) /\ s.pc = "gate" /\ LeftOK(s)
  BY SpendBecomes
<1>2. Busy' = Busy \ {w} /\ w \in Busy /\ Busy \in SUBSET Worker /\ Busy' \in SUBSET Worker
  BY <1>1, BusyAfter DEF Spend, At, Busy
<1>3. c \in Nat /\ d \in Nat /\ c = d + 1 /\ c * MaxSize <= Workers * MaxSize
  BY <1>2, SomeWorkers, FS_RemoveElement
<1>4. c * MaxSize = d * MaxSize + MaxSize /\ c * MaxSize \in Nat /\ d * MaxSize \in Nat
  BY <1>3, Constants, Product, ProductNext
<1>5. b \in Nat /\ b <= MaxSize
  BY Constants DEF TypeOK, WorkerState
<1>6. meter' = spend(b) /\ meter.spent \in Nat
  BY MeterTypes DEF Spend
<1> HIDE DEF b, c, d
<1>7. CASE expired
  <2>1. meter' = [made |-> TRUE, age |-> 0, spent |-> b]
    BY <1>6, <1>7 DEF spend
  <2>2. meter' \in Meter /\ meter'.spent = b
    BY <1>5, <2>1, Constants DEF Meter
  <2>3. b + d * MaxSize <= Bound /\ b <= Bound
    BY <1>3, <1>4, <1>5, Constants
  <2> QED BY <1>1, <2>2, <2>3, BusyAfter DEF Spend, TypeOK, MeterInv, Bound, Workers, d
<1>8. CASE ~expired
  <2>1. meter' = [meter EXCEPT !.spent = @ + b]
    BY <1>6, <1>8 DEF spend
  <2>2. meter' \in Meter /\ meter'.spent = meter.spent + b
    BY <1>5, <1>6, <2>1 DEF TypeOK, Meter
  <2>3. meter.spent + c * MaxSize <= Bound
    BY <1>8 DEF MeterInv, c
  <2>4. meter.spent + b + d * MaxSize <= Bound /\ meter.spent + b <= Bound
    BY <1>3, <1>4, <1>5, <1>6, <2>3, Constants
  <2> QED BY <1>1, <2>2, <2>4, BusyAfter DEF Spend, TypeOK, MeterInv, Bound, Workers, d
<1> QED BY <1>7, <1>8

LEMMA OthersKeep ==
    ASSUME SafeInv, NEW w \in Worker, FetchFails(w) \/ Die(w) \/ NextPass(w) PROVE SafeInv'
<1> USE DEF SafeInv
<1>1. PICK s \in WorkerState : Becomes(w, s) /\ s.pc = "gate" /\ LeftOK(s)
  BY GateBecomes, DieBecomes DEF FetchFails, NextPass
<1>2. Busy' \in SUBSET Busy
  BY <1>1, BusyAfter
<1>3. MeterInv'
  BY <1>2, MeterKept DEF FetchFails, Die, NextPass, expired
<1>4. worker[w].bytes \in Nat
  BY Constants DEF TypeOK, WorkerState
<1> QED BY <1>1, <1>3, <1>4, BusyAfter DEF FetchFails, Die, NextPass, Fault, TypeOK

LEMMA TickKeeps == ASSUME SafeInv, Tick PROVE SafeInv'
<1> USE DEF SafeInv
<1>1. Busy' = Busy /\ LeftInv'
  BY DEF Tick, Busy, LeftInv
<1>2. meter \in Meter /\ meter.age \in 0..Day
  BY DEF TypeOK, Meter
<1>3. Least(Day, meter.age + 1) \in 0..Day /\ (meter.age = Day => Least(Day, meter.age + 1) = Day)
  BY <1>2, Constants DEF Least
<1>4. /\ meter' \in Meter /\ meter'.spent = meter.spent
      /\ expired => expired'
  BY <1>2, <1>3 DEF Tick, Meter, expired
<1>5. sent' \in [Slot -> Nat]
  <2>1. ASSUME NEW i \in Slot PROVE (IF i = 0 THEN 0 ELSE sent[i - 1]) \in Nat
    <3>1. i # 0 => i - 1 \in Slot
      BY Constants DEF Slot
    <3> QED BY <3>1 DEF TypeOK
  <2> QED BY <2>1 DEF Tick
<1>6. MeterInv'
  BY <1>1, <1>4, MeterKept
<1> QED BY <1>1, <1>4, <1>5, <1>6 DEF Tick, TypeOK

LEMMA InitSafe == Init => SafeInv
<1> SUFFICES ASSUME Init PROVE SafeInv
  OBVIOUS
<1>1. TypeOK
  BY Constants DEF Init, TypeOK, WorkerState, Meter
<1>2. LeftInv
  BY DEF Init, LeftInv
<1>3. meter.spent = 0 /\ expired
  BY DEF Init, expired
<1> QED BY <1>1, <1>2, <1>3, Constants DEF SafeInv, MeterInv

LEMMA SafeStep == SafeInv /\ [Next]_vars => SafeInv'
<1> SUFFICES ASSUME SafeInv, [Next]_vars PROVE SafeInv'
  OBVIOUS
<1>1. CASE UNCHANGED vars
  BY <1>1 DEF vars, SafeInv, TypeOK, LeftInv, MeterInv, Busy, expired, Bound, Workers
<1> QED BY <1>1, GateKeeps, FetchKeeps, SpendKeeps, OthersKeep, TickKeeps DEF Next, Step

-----------------------------------------------------------------------------
(* Two windows.  The bytes that have come and are not counted yet are a sum *)
(* over the workers.  It is given by what it is on every set of them: f is  *)
(* that sum, and the invariant says that there is one.                      *)

Uncounted(f) ==
    /\ f \in [SUBSET Worker -> Nat] /\ f[{}] = 0
    /\ \A S \in SUBSET Worker, w \in Worker : w \notin S => f[S \cup {w}] = f[S] + worker[w].bytes
    /\ \A S \in SUBSET Worker : f[S] <= Cardinality(S \cap Busy) * MaxSize

BytesInv ==
    \A w \in Worker : IF worker[w].pc = "spend" THEN worker[w].bytes > 0 ELSE worker[w].bytes = 0

\* All that came before the first spend is uncounted or lost.  What came in the
\* ticks after a window began is in it, uncounted or lost, and the byte that began
\* it came before.  While a window is open, what the last Day ticks saw before it is
\* what the window before counted, or was uncounted when this one began.
Windows(p) ==
    /\ ~meter.made => \A i \in Slot : sent[i] <= p + lost
    /\ meter.made => /\ meter.spent > 0
                     /\ \A i \in Slot : i < meter.age => sent[i] < meter.spent + p + lost
    /\ ~expired => \A i \in Slot : sent[i] < Bound + meter.spent + p + lost

TwoInv == SafeInv /\ BytesInv /\ \E f : Uncounted(f) /\ Windows(f[Worker])

LEMMA SomeBound == Bound > 0
<1>1. Workers # 0 /\ Workers \in Nat
  BY MeterConstants, Constants, FS_EmptySet DEF Workers
<1>2. 1 * MaxSize <= Workers * MaxSize
  BY <1>1, Constants, ProductGrows
<1> QED BY <1>2, Constants

\* The sum after one worker's step.
LEMMA UncountedAfter ==
    ASSUME TypeOK, BytesInv, NEW w \in Worker, NEW s \in WorkerState, Becomes(w, s),
           IF s.pc = "spend" THEN s.bytes > 0 ELSE s.bytes = 0,
           NEW f, Uncounted(f)
    PROVE  /\ BytesInv'
           /\ \E g : /\ Uncounted(g)' /\ g[Worker] \in Nat /\ f[Worker] \in Nat
                     /\ g[Worker] + worker[w].bytes = f[Worker] + s.bytes
<1> DEFINE g == [S \in SUBSET Worker |-> IF w \in S THEN f[S \ {w}] + s.bytes ELSE f[S]]
<1>1. s.bytes \in Nat /\ s.bytes <= MaxSize /\ worker[w].bytes \in Nat
  BY Constants DEF WorkerState, TypeOK
<1>2. \A x \in Worker : worker'[x] = IF x = w THEN s ELSE worker[x]
  BY DEF Becomes, TypeOK
<1>3. BytesInv'
  BY <1>2 DEF BytesInv
<1>4. \A S \in SUBSET Worker : f[S] \in Nat
  BY DEF Uncounted
<1>5. \A S \in SUBSET Worker : g[S] = IF w \in S THEN f[S \ {w}] + s.bytes ELSE f[S]
  OBVIOUS
<1>6. g \in [SUBSET Worker -> Nat]
  <2>1. \A S \in SUBSET Worker : (IF w \in S THEN f[S \ {w}] + s.bytes ELSE f[S]) \in Nat
    <3> TAKE S \in SUBSET Worker
    <3>1. f[S \ {w}] \in Nat /\ f[S] \in Nat
      BY <1>4
    <3> QED BY <1>1, <3>1
  <2> QED BY <2>1
<1>7. g[{}] = 0
  BY DEF Uncounted
<1> HIDE DEF g
<1>8. ASSUME NEW S \in SUBSET Worker, NEW x \in Worker, x \notin S
      PROVE  g[S \cup {x}] = g[S] + worker'[x].bytes
  <2> DEFINE T == S \cup {x}
  <2>1. T \in SUBSET Worker /\ S \ {w} \in SUBSET Worker /\ T \ {w} \in SUBSET Worker
    OBVIOUS
  <2>2. CASE x = w
    <3>1. T \ {w} = S /\ w \in T /\ w \notin S
      BY <1>8, <2>2
    <3>2. g[T] = f[S] + s.bytes /\ g[S] = f[S]
      BY <1>5, <2>1, <3>1
    <3> QED BY <1>2, <2>2, <3>2
  <2>3. CASE x # w /\ w \in S
    <3>1. T \ {w} = (S \ {w}) \cup {x} /\ w \in T /\ x \notin S \ {w}
      BY <1>8, <2>3
    <3>2. g[T] = f[(S \ {w}) \cup {x}] + s.bytes /\ g[S] = f[S \ {w}] + s.bytes
      BY <1>5, <2>1, <2>3, <3>1
    <3>3. f[(S \ {w}) \cup {x}] = f[S \ {w}] + worker[x].bytes
      BY <2>1, <3>1 DEF Uncounted
    <3>4. worker'[x] = worker[x] /\ worker[x].bytes \in Nat /\ f[S \ {w}] \in Nat
      BY <1>2, <1>4, <2>1, <2>3, Constants DEF TypeOK, WorkerState
    <3> QED BY <1>1, <3>2, <3>3, <3>4
  <2>4. CASE x # w /\ w \notin S
    <3>1. w \notin T
      BY <2>4
    <3>2. g[T] = f[T] /\ g[S] = f[S]
      BY <1>5, <2>1, <2>4, <3>1
    <3>3. f[T] = f[S] + worker[x].bytes
      BY <1>8 DEF Uncounted
    <3> QED BY <1>2, <2>4, <3>2, <3>3
  <2> QED BY <2>2, <2>3, <2>4
<1>9. ASSUME NEW S \in SUBSET Worker PROVE g[S] <= Cardinality(S \cap Busy') * MaxSize
  <2> DEFINE A == S \cap Busy'
             B == (S \ {w}) \cap Busy
  <2>1. Busy' = IF s.pc \in {"fetch", "spend"} THEN Busy \cup {w} ELSE Busy \ {w}
    BY BusyAfter
  <2>2. A \in SUBSET Worker /\ B \in SUBSET Worker /\ B \in SUBSET A /\ w \notin B
    BY <2>1 DEF Busy
  <2>3. A = B \cup {w} \/ A = B
    BY <2>1
  <2>4. w \in S /\ s.pc = "spend" => A = B \cup {w}
    BY <2>1
  <2>5. IsFiniteSet(B) /\ IsFiniteSet(A) /\ Cardinality(A) \in Nat /\ Cardinality(B) \in Nat
        /\ Cardinality(A) * MaxSize \in Nat /\ Cardinality(B) * MaxSize \in Nat
    BY <2>2, SomeWorkers
  <2>6. f[S \ {w}] \in Nat /\ f[S \ {w}] <= Cardinality(B) * MaxSize
    BY <1>4 DEF Uncounted
  <2>7. Cardinality(B) <= Cardinality(A)
    BY <2>2, <2>5, FS_Subset
  <2> HIDE DEF A, B
  <2>8. Cardinality(B) * MaxSize <= Cardinality(A) * MaxSize
    BY <2>5, <2>7, Constants, ProductGrows
  <2>9. CASE w \in S /\ s.pc = "spend"
    <3>1. Cardinality(A) = Cardinality(B) + 1
      BY <2>2, <2>4, <2>5, <2>9, FS_AddElement
    <3>2. Cardinality(A) * MaxSize = Cardinality(B) * MaxSize + MaxSize
      BY <2>5, <3>1, Constants, ProductNext
    <3>3. g[S] = f[S \ {w}] + s.bytes
      BY <1>5, <2>9
    <3>4. g[S] <= Cardinality(A) * MaxSize
      BY <1>1, <2>5, <2>6, <3>2, <3>3, Constants
    <3> QED BY <3>4 DEF A
  <2>10. CASE w \in S /\ s.pc # "spend"
    <3>1. g[S] = f[S \ {w}] + 0 /\ s.bytes = 0
      BY <1>5, <2>10
    <3>2. g[S] <= Cardinality(A) * MaxSize
      BY <2>5, <2>6, <2>8, <3>1
    <3> QED BY <3>2 DEF A
  <2>11. CASE w \notin S
    <3>1. g[S] = f[S] /\ S \ {w} = S
      BY <1>5, <2>11
    <3>2. g[S] <= Cardinality(A) * MaxSize
      BY <2>5, <2>6, <2>8, <3>1
    <3> QED BY <3>2 DEF A
  <2> QED BY <2>9, <2>10, <2>11
<1>10. Uncounted(g)'
  BY <1>6, <1>7, <1>8, <1>9 DEF Uncounted
<1>11. g[Worker] + worker[w].bytes = f[Worker] + s.bytes
  <2>1. g[Worker] = f[Worker \ {w}] + s.bytes
    BY <1>5
  <2>2. (Worker \ {w}) \cup {w} = Worker /\ w \notin Worker \ {w} /\ Worker \ {w} \in SUBSET Worker
    OBVIOUS
  <2>3. f[Worker] = f[Worker \ {w}] + worker[w].bytes
    BY <2>2 DEF Uncounted
  <2>4. f[Worker \ {w}] \in Nat
    BY <1>4, <2>2
  <2> QED BY <1>1, <2>1, <2>3, <2>4
<1>12. f[Worker] \in Nat /\ g[Worker] \in Nat
  BY <1>4, <1>6
<1> QED BY <1>3, <1>10, <1>11, <1>12

LEMMA WindowTypes ==
    TypeOK => /\ meter.spent \in Nat /\ meter.age \in Nat /\ meter.age <= Day /\ meter.made \in BOOLEAN
              /\ lost \in Nat /\ \A i \in Slot : sent[i] \in Nat
BY Constants DEF TypeOK, Meter

\* A worker that has nothing uncounted before and after.
LEMMA QuietTwo ==
    ASSUME TwoInv, NEW w \in Worker, Gate(w) \/ FetchFails(w) \/ NextPass(w)
    PROVE  BytesInv' /\ \E f : Uncounted(f)' /\ Windows(f[Worker])'
<1>1. PICK f : Uncounted(f) /\ Windows(f[Worker])
  BY DEF TwoInv
<1>2. TypeOK /\ BytesInv /\ worker[w].bytes = 0
  BY DEF TwoInv, SafeInv, BytesInv, Gate, FetchFails, NextPass, At
<1>3. PICK pc \in {"gate", "fetch", "stopped"} : Goes(w, pc) /\ (pc = "fetch" => worker[w].left > 0)
  BY DEF Gate, FetchFails, NextPass
<1>4. PICK s \in WorkerState : Becomes(w, s) /\ s.pc = pc /\ s.bytes = worker[w].bytes
  BY <1>2, <1>3, GateBecomes
<1>5. IF s.pc = "spend" THEN s.bytes > 0 ELSE s.bytes = 0
  BY <1>2, <1>4
<1>6. BytesInv' /\ \E g : /\ Uncounted(g)' /\ g[Worker] \in Nat /\ f[Worker] \in Nat
                          /\ g[Worker] + worker[w].bytes = f[Worker] + s.bytes
  BY <1>1, <1>2, <1>4, <1>5, UncountedAfter
<1>7. PICK g : Uncounted(g)' /\ g[Worker] = f[Worker]
  BY <1>2, <1>4, <1>6
<1>8. UNCHANGED <<meter, sent, lost>>
  BY DEF Gate, FetchFails, NextPass
<1>9. Windows(g[Worker])'
  BY <1>1, <1>7, <1>8 DEF Windows, expired, Bound, Workers
<1> QED BY <1>6, <1>7, <1>9

LEMMA FetchTwo ==
    ASSUME TwoInv, NEW w \in Worker, NEW b \in 1..MaxSize, FetchRaw(w, b)
    PROVE  BytesInv' /\ \E f : Uncounted(f)' /\ Windows(f[Worker])'
<1>1. PICK f : Uncounted(f) /\ Windows(f[Worker])
  BY DEF TwoInv
<1>2. TypeOK /\ LeftInv /\ BytesInv /\ worker[w].bytes = 0
  BY DEF TwoInv, SafeInv, BytesInv, FetchRaw, At
<1>3. PICK s \in WorkerState : Becomes(w, s) /\ s.pc = "spend" /\ s.bytes = b
  BY <1>2, FetchBecomes
<1>4. b \in Nat /\ b > 0
  BY Constants
<1>5. BytesInv' /\ \E g : /\ Uncounted(g)' /\ g[Worker] \in Nat /\ f[Worker] \in Nat
                          /\ g[Worker] + worker[w].bytes = f[Worker] + s.bytes
  BY <1>1, <1>2, <1>3, <1>4, UncountedAfter
<1>6. PICK g : Uncounted(g)' /\ g[Worker] = f[Worker] + b /\ f[Worker] \in Nat
  BY <1>2, <1>3, <1>5
<1>7. meter' = meter /\ lost' = lost /\ expired' = expired /\ Bound' = Bound
      /\ \A i \in Slot : sent'[i] = sent[i] + b
  BY DEF FetchRaw, expired, Bound, Workers
<1>8. meter.spent \in Nat /\ lost \in Nat /\ Bound \in Nat /\ \A i \in Slot : sent[i] \in Nat
  BY <1>2, WindowTypes, Constants
<1> HIDE DEF expired, Bound
<1>9. Windows(g[Worker])'
  BY <1>1, <1>4, <1>6, <1>7, <1>8 DEF Windows
<1> QED BY <1>5, <1>6, <1>9

LEMMA SpendTwo ==
    ASSUME TwoInv, NEW w \in Worker, Spend(w)
    PROVE  BytesInv' /\ \E f : Uncounted(f)' /\ Windows(f[Worker])'
<1> DEFINE b == worker[w].bytes
<1>1. PICK f : Uncounted(f) /\ Windows(f[Worker])
  BY DEF TwoInv
<1>2. TypeOK /\ BytesInv /\ MeterInv /\ b \in Nat /\ b > 0
  BY Constants DEF TwoInv, SafeInv, BytesInv, Spend, At, TypeOK, WorkerState
<1>3. PICK s \in WorkerState : Becomes(w, s) /\ s.pc = "gate" /\ s.bytes = 0
  BY <1>2, SpendBecomes
<1>4. BytesInv' /\ \E g : /\ Uncounted(g)' /\ g[Worker] \in Nat /\ f[Worker] \in Nat
                          /\ g[Worker] + worker[w].bytes = f[Worker] + s.bytes
  BY <1>1, <1>2, <1>3, UncountedAfter
<1>5. PICK g : Uncounted(g)' /\ g[Worker] + b = f[Worker] /\ g[Worker] \in Nat
  BY <1>3, <1>4
<1>6. meter' = spend(b) /\ lost' = lost /\ sent' = sent /\ Bound' = Bound
  BY DEF Spend, Bound, Workers
<1>7. meter.spent \in Nat /\ meter.age \in Nat /\ meter.age <= Day /\ meter.made \in BOOLEAN
      /\ lost \in Nat /\ Bound \in Nat /\ Bound > 0 /\ Day \in Nat \ {0}
      /\ \A i \in Slot : sent[i] \in Nat /\ i < Day
  BY <1>2, WindowTypes, Constants, SomeBound DEF Slot
<1> HIDE DEF b
<1>8. CASE expired
  <2>1. meter'.made /\ meter'.age = 0 /\ meter'.spent = b
    BY <1>6, <1>8 DEF spend
  <2>2. ASSUME NEW i \in Slot PROVE sent[i] < Bound + f[Worker] + lost
    <3>1. CASE ~meter.made
      BY <1>1, <1>4, <1>7, <3>1 DEF Windows
    <3>2. CASE meter.made
      <4>1. meter.age = Day
        BY <1>8, <3>2 DEF expired
      <4>2. sent[i] < meter.spent + f[Worker] + lost
        BY <1>1, <1>7, <3>2, <4>1 DEF Windows
      <4>3. meter.spent <= Bound
        BY <1>2 DEF MeterInv
      <4> QED BY <1>4, <1>7, <4>2, <4>3
    <3> QED BY <3>1, <3>2
  <2>3. \A i \in Slot : sent'[i] < Bound' + meter'.spent + g[Worker] + lost'
    BY <1>2, <1>4, <1>5, <1>6, <1>7, <2>1, <2>2
  <2>4. \A i \in Slot : ~(i < meter'.age)
    BY <2>1 DEF Slot
  <2>5. meter'.spent > 0
    BY <1>2, <2>1
  <2>6. Windows(g[Worker])'
    BY <2>1, <2>3, <2>4, <2>5 DEF Windows
  <2> QED BY <1>4, <1>5, <2>6
<1>9. CASE ~expired
  <2>1. meter' = [meter EXCEPT !.spent = @ + b]
    BY <1>6, <1>9 DEF spend
  <2>2. meter'.made = meter.made /\ meter'.age = meter.age /\ meter'.spent = meter.spent + b
    BY <1>2, <2>1 DEF TypeOK, Meter
  <2>3. meter.made /\ expired' = expired
    BY <1>9, <2>2 DEF expired
  <2>4. \A i \in Slot : sent[i] < Bound + meter.spent + f[Worker] + lost
    BY <1>1, <1>9 DEF Windows
  <2>5. \A i \in Slot : i < meter.age => sent[i] < meter.spent + f[Worker] + lost
    BY <1>1, <2>3 DEF Windows
  <2>6. meter.spent + f[Worker] = meter'.spent + g[Worker] /\ meter'.spent > 0
    BY <1>2, <1>4, <1>5, <1>7, <2>2
  <2>7. \A i \in Slot : sent[i] < Bound + meter'.spent + g[Worker] + lost
    BY <1>2, <1>4, <1>5, <1>7, <2>2, <2>4
  <2>8. \A i \in Slot : i < meter.age => sent[i] < meter'.spent + g[Worker] + lost
    BY <2>5, <2>6
  <2> HIDE DEF expired, Bound
  <2>9. Windows(g[Worker])'
    BY <1>6, <2>2, <2>3, <2>6, <2>7, <2>8 DEF Windows
  <2> QED BY <1>4, <1>5, <2>9
<1> QED BY <1>8, <1>9

LEMMA DieTwo ==
    ASSUME TwoInv, NEW w \in Worker, Die(w)
    PROVE  BytesInv' /\ \E f : Uncounted(f)' /\ Windows(f[Worker])'
<1> DEFINE b == worker[w].bytes
<1>1. PICK f : Uncounted(f) /\ Windows(f[Worker])
  BY DEF TwoInv
<1>2. TypeOK /\ LeftInv /\ BytesInv /\ b \in Nat
  BY Constants DEF TwoInv, SafeInv, TypeOK, WorkerState
<1>3. PICK s \in WorkerState : Becomes(w, s) /\ s.pc = "gate" /\ s.bytes = 0
  BY <1>2, DieBecomes
<1>4. BytesInv' /\ \E g : /\ Uncounted(g)' /\ g[Worker] \in Nat /\ f[Worker] \in Nat
                          /\ g[Worker] + worker[w].bytes = f[Worker] + s.bytes
  BY <1>1, <1>2, <1>3, UncountedAfter
<1>5. PICK g : Uncounted(g)' /\ g[Worker] + b = f[Worker] /\ g[Worker] \in Nat
  BY <1>3, <1>4
<1>6. meter' = meter /\ lost' = lost + b /\ sent' = sent /\ Bound' = Bound /\ expired' = expired
  BY DEF Die, Bound, Workers, expired
<1>7. meter.spent \in Nat /\ lost \in Nat /\ Bound \in Nat
  BY <1>2, WindowTypes, Constants
<1> HIDE DEF b, expired, Bound
<1>8. f[Worker] + lost = g[Worker] + lost'
  BY <1>2, <1>5, <1>6, <1>7
<1>9. meter.spent + f[Worker] + lost = meter.spent + g[Worker] + lost'
  BY <1>2, <1>5, <1>6, <1>7
<1>10. Bound + meter.spent + f[Worker] + lost = Bound + meter.spent + g[Worker] + lost'
  BY <1>2, <1>5, <1>6, <1>7
<1>11. Windows(g[Worker])'
  BY <1>1, <1>6, <1>8, <1>9, <1>10 DEF Windows
<1> QED BY <1>4, <1>5, <1>11

LEMMA TickTwo ==
    ASSUME TwoInv, Tick
    PROVE  BytesInv' /\ \E f : Uncounted(f)' /\ Windows(f[Worker])'
<1>1. PICK f : Uncounted(f) /\ Windows(f[Worker])
  BY DEF TwoInv
<1>2. worker' = worker /\ lost' = lost /\ Bound' = Bound /\ Busy' = Busy
  BY DEF Tick, Bound, Workers, Busy
<1>3. BytesInv' /\ Uncounted(f)'
  BY <1>1, <1>2 DEF TwoInv, BytesInv, Uncounted
<1>4. TypeOK
  BY DEF TwoInv, SafeInv
<1>5. meter.spent \in Nat /\ meter.age \in Nat /\ meter.age <= Day /\ meter.made \in BOOLEAN
      /\ lost \in Nat /\ Bound \in Nat /\ Day \in Nat \ {0} /\ f[Worker] \in Nat
  BY <1>1, <1>4, WindowTypes, Constants DEF Uncounted
<1>6. /\ meter'.made = meter.made /\ meter'.spent = meter.spent
      /\ meter.made => meter'.age = IF Day < meter.age + 1 THEN Day ELSE meter.age + 1
      /\ ~expired' => ~expired
  BY <1>4, <1>5 DEF Tick, TypeOK, Meter, expired, Least
<1>7. \A i \in Slot : /\ i \in Nat /\ i < Day
                      /\ i # 0 => i - 1 \in Slot /\ sent'[i] = sent[i - 1]
                      /\ i = 0 => sent'[i] = 0
  BY <1>5 DEF Tick, Slot
<1> HIDE DEF expired, Bound
<1>8. ASSUME ~meter'.made, NEW i \in Slot PROVE sent'[i] <= f[Worker] + lost'
  BY <1>1, <1>2, <1>5, <1>6, <1>7, <1>8 DEF Windows
<1>9. ASSUME meter'.made, NEW i \in Slot, i < meter'.age
      PROVE  sent'[i] < meter'.spent + f[Worker] + lost'
  <2>1. meter.spent > 0 /\ \A j \in Slot : j < meter.age => sent[j] < meter.spent + f[Worker] + lost
    BY <1>1, <1>6, <1>9 DEF Windows
  <2>2. CASE i = 0
    BY <1>2, <1>5, <1>6, <1>7, <2>1, <2>2
  <2>3. CASE i # 0
    <3>1. i - 1 \in Slot /\ i - 1 < meter.age /\ sent'[i] = sent[i - 1]
      BY <1>5, <1>6, <1>7, <1>9, <2>3
    <3> QED BY <1>2, <1>6, <2>1, <3>1
  <2> QED BY <2>2, <2>3
<1>10. ASSUME ~expired', NEW i \in Slot PROVE sent'[i] < Bound' + meter'.spent + f[Worker] + lost'
  <2>1. ~expired /\ meter.made
    BY <1>6, <1>10 DEF expired
  <2>2. meter.spent > 0 /\ \A j \in Slot : sent[j] < Bound + meter.spent + f[Worker] + lost
    BY <1>1, <2>1 DEF Windows
  <2> QED BY <1>2, <1>5, <1>6, <1>7, <2>2
<1>11. meter'.made => meter'.spent > 0
  BY <1>1, <1>6 DEF Windows
<1>12. Windows(f[Worker])'
  BY <1>8, <1>9, <1>10, <1>11 DEF Windows
<1> QED BY <1>3, <1>12

LEMMA InitTwo == Init => TwoInv
<1> SUFFICES ASSUME Init PROVE TwoInv
  OBVIOUS
<1> DEFINE f == [S \in SUBSET Worker |-> 0]
<1>1. BytesInv
  BY DEF Init, BytesInv
<1>2. Uncounted(f)
  <2>1. \A S \in SUBSET Worker : f[S] <= Cardinality(S \cap Busy) * MaxSize
    <3> TAKE S \in SUBSET Worker
    <3>1. Cardinality(S \cap Busy) * MaxSize \in Nat
      BY SomeWorkers
    <3> QED BY <3>1
  <2>2. \A w \in Worker : worker[w].bytes = 0
    BY DEF Init
  <2>3. \A S \in SUBSET Worker, w \in Worker : f[S \cup {w}] = 0 /\ f[S] = 0
    OBVIOUS
  <2>4. f \in [SUBSET Worker -> Nat] /\ f[{}] = 0
    OBVIOUS
  <2>5. ASSUME NEW S \in SUBSET Worker, NEW w \in Worker PROVE f[S \cup {w}] = f[S] + worker[w].bytes
    <3> HIDE DEF f
    <3> QED BY <2>2, <2>3
  <2> HIDE DEF f
  <2> QED BY <2>1, <2>4, <2>5 DEF Uncounted
<1>3. Windows(f[Worker])
  <2>1. f[Worker] = 0 /\ lost = 0 /\ ~meter.made /\ \A i \in Slot : sent[i] = 0
    BY DEF Init
  <2> QED BY <2>1 DEF Windows, expired
<1> HIDE DEF f
<1> QED BY <1>1, <1>2, <1>3, InitSafe DEF TwoInv

LEMMA TwoStep == TwoInv /\ [Next]_vars => TwoInv'
<1> SUFFICES ASSUME TwoInv, [Next]_vars PROVE TwoInv'
  OBVIOUS
<1>1. SafeInv'
  BY SafeStep DEF TwoInv
<1>2. CASE UNCHANGED vars
  <2>1. BytesInv'
    BY <1>2 DEF vars, TwoInv, BytesInv
  <2>2. PICK f : Uncounted(f) /\ Windows(f[Worker])
    BY DEF TwoInv
  <2>3. Busy' = Busy /\ expired' = expired /\ Bound' = Bound
    BY <1>2 DEF vars, Busy, expired, Bound, Workers
  <2>4. Uncounted(f)' /\ Windows(f[Worker])'
    BY <1>2, <2>2, <2>3 DEF vars, Uncounted, Windows
  <2> QED BY <1>1, <2>1, <2>4 DEF TwoInv
<1>3. CASE Next
  <2>1. BytesInv' /\ \E f : Uncounted(f)' /\ Windows(f[Worker])'
    BY <1>3, QuietTwo, FetchTwo, SpendTwo, DieTwo, TickTwo DEF Next, Step
  <2> QED BY <1>1, <2>1 DEF TwoInv
<1> QED BY <1>2, <1>3

-----------------------------------------------------------------------------
(* The theorems.                                                            *)

\* The variables keep their types: a death gives back no message that was not taken.
THEOREM MeterTypeOK == Spec => []TypeOK
<1>1. SafeInv => TypeOK
  BY DEF SafeInv
<1> QED BY <1>1, InitSafe, SafeStep, PTL DEF Spec

\* For every number of workers and every ceiling: the gate is read by all at once,
\* before the fetch, and a window still counts less than the provider's ceiling
\* and one message for each worker.
THEOREM WindowAlwaysHeld == Spec => []WindowHeld
<1>1. SafeInv => WindowHeld
  BY DEF SafeInv, MeterInv, WindowHeld, Bound
<1> QED BY <1>1, InitSafe, SafeStep, PTL DEF Spec

\* For every number of workers, every ceiling, any deaths and any length of the day
\* in ticks: a window that begins where another ended lets the provider send less
\* than two windows in any 24 hours, and what a death left uncounted.
THEOREM TwoWindowsAlwaysHeld == Spec => []TwoWindowsHeld
<1>1. TwoInv => TwoWindowsHeld
  <2> SUFFICES ASSUME TwoInv PROVE TwoWindowsHeld
    OBVIOUS
  <2>1. PICK f : Uncounted(f) /\ Windows(f[Worker])
    BY DEF TwoInv
  <2> DEFINE p == f[Worker]
             q == Cardinality(Busy) * MaxSize
  <2>2. TypeOK /\ MeterInv
    BY DEF TwoInv, SafeInv
  <2>3. Busy \in SUBSET Worker /\ Worker \cap Busy = Busy
    BY DEF Busy
  <2>4. q \in Nat /\ q <= Workers * MaxSize /\ Workers * MaxSize \in Nat /\ Workers * MaxSize <= Bound
    BY <2>3, SomeWorkers, Constants
  <2>5. p \in Nat /\ p <= q
    BY <2>1, <2>3 DEF Uncounted
  <2>6. /\ meter.spent \in Nat /\ meter.made \in BOOLEAN /\ lost \in Nat /\ Bound \in Nat /\ Bound > 0
        /\ Day - 1 \in Slot /\ Day - 1 < Day /\ sent[Day - 1] \in Nat
    BY <2>2, WindowTypes, Constants, SomeBound DEF Slot
  <2>7. meter.spent <= Bound /\ (~expired => meter.spent + q <= Bound)
    BY <2>2 DEF MeterInv
  <2> HIDE DEF p, q
  <2>8. CASE ~meter.made
    <3>1. sent[Day - 1] <= p + lost
      BY <2>1, <2>6, <2>8 DEF Windows, p
    <3>2. sent[Day - 1] < 2 * Bound + lost
      BY <2>4, <2>5, <2>6, <3>1
    <3> QED BY <3>2 DEF TwoWindowsHeld, Bound
  <2>9. CASE ~expired
    <3>1. sent[Day - 1] < Bound + meter.spent + p + lost
      BY <2>1, <2>6, <2>9 DEF Windows, p
    <3>2. sent[Day - 1] < 2 * Bound + lost
      BY <2>5, <2>6, <2>4, <2>7, <2>9, <3>1
    <3> QED BY <3>2 DEF TwoWindowsHeld, Bound
  <2>10. CASE meter.made /\ expired
    <3>1. meter.age = Day
      BY <2>10 DEF expired
    <3>2. sent[Day - 1] < meter.spent + p + lost
      BY <2>1, <2>6, <2>10, <3>1 DEF Windows, p
    <3>3. sent[Day - 1] < 2 * Bound + lost
      BY <2>4, <2>5, <2>6, <2>7, <3>2
    <3> QED BY <3>3 DEF TwoWindowsHeld, Bound
  <2> QED BY <2>8, <2>9, <2>10
<1> QED BY <1>1, InitTwo, TwoStep, PTL DEF Spec
=============================================================================
