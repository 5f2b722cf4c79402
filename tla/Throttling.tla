----------------------------- MODULE Throttling -----------------------------
(***************************************************************************)
(* Requests to a provider: the limiter of a pass (ThrottleLimiter,         *)
(* packages/shared/src/throttling.ts) and the budget all passes of a       *)
(* tenant share (PgRateBudget, packages/ledger/src/pg-rate-budget.ts).     *)
(*                                                                         *)
(* A request takes one of its process's slots, a token of the process's    *)
(* own bucket and a token of the shared row, is sent, and gives its slot   *)
(* back; a throttled or broken one pauses and starts over, at most         *)
(* maxRetries times.  A process may die and be replaced by a later pass;   *)
(* the row stays.                                                          *)
(*                                                                         *)
(* Time is ticks, Second of them to a second.  A token is Second units, so *)
(* that a bucket filled at r tokens a second gains r units a tick and      *)
(* holds r * Second, one second's worth, at most.                          *)
(***************************************************************************)
EXTENDS Naturals, FiniteSets

CONSTANTS
    Proc,            \* processes, each running passes of one mapping
    Worker,          \* the workers of a pass, which send requests
    ProcOf,          \* the process of each worker
    maxConcurrent,   \* slots of a process
    maxRetries,      \* retries of a request
    Default,         \* DEFAULT_THROTTLE_CONFIG.requestsPerSecond
    Stored,          \* requestsPerSecond as stored with each process's mapping
    Second,          \* ticks in a second, units in a token
    MaxWait,         \* MAX_WAIT_MS, in ticks
    Requests,        \* bound: requests of a worker
    MaxFaults        \* bound: answers other than a good one, failures, deaths

ASSUME ThrottlingConstants ==
    /\ IsFiniteSet(Worker) /\ ProcOf \in [Worker -> Proc]
    /\ maxConcurrent \in Nat \ {0} /\ maxRetries \in Nat /\ Default \in Nat \ {0}
    /\ Stored \in [Proc -> Nat \ {0}] /\ Second \in Nat \ {0} /\ MaxWait \in Nat \ {0}
    /\ Requests \in Nat /\ MaxFaults \in Nat

VARIABLES
    worker,   \* where each worker is, its attempt, its sleep and the requests it has left
    active,   \* active[p]: activeRequests
    local,    \* local[p]: the units in the bucket of process p
    row,      \* the rate_budget row: its tokens, in units, and the ticks since refilled_at
    sent,     \* history: the units granted, less what Default allows in the time since
    faults

vars == <<worker, active, local, row, sent, faults>>

Waiting == {"slot", "local", "shared", "refused"}
WorkerState == [pc : Waiting \cup {"idle", "sending", "pause"}, attempt : 0..maxRetries,
                wake : Nat, left : 0..Requests]
Row == [made : BOOLEAN, tokens : Nat, age : Nat]

Least(x, y) == IF x < y THEN x ELSE y
Most(x, y) == IF x < y THEN y ELSE x

\* Ticks until a bucket has gained so many units.
TicksFor(units, rate) == (units + rate - 1) \div rate

-----------------------------------------------------------------------------
(* The shared row.                                                          *)

\* operatorsThrottle: what a mapping stores lowers the default, never raises it.
Rate(p) == Least(Stored[p], Default)
Burst(p) == Rate(p) * Second
Ceiling == Default * Second

\* The units process p finds in the row: refilled at its own rate, up to its own burst.
Refilled(p) == Least(Burst(p), row.tokens + row.age * Rate(p))

\* Mutant: a bucket that holds exactly one token is short.
AffordsMore(p) == ~row.made \/ Refilled(p) > Second

\* The row is not there yet, or holds a token.
Affords(p) == ~row.made \/ Refilled(p) >= Second

\* Mutant: the row keeps the time it was filled at.
TakenKeepsAge(p) ==
    [made |-> TRUE, age |-> row.age,
     tokens |-> IF row.made THEN Refilled(p) - Second ELSE Burst(p) - Second]

\* One statement: the row is made, or a token comes off what it has by now.
Taken(p) ==
    [made |-> TRUE, age |-> 0,
     tokens |-> IF row.made THEN Refilled(p) - Second ELSE Burst(p) - Second]

deficit(p) == Least(MaxWait, Most(1, TicksFor(Most(Second, Refilled(p)) - Refilled(p), Rate(p))))

\* Time enough for the row to be full for everyone.
Full == Ceiling

-----------------------------------------------------------------------------
(* A request.                                                               *)

Me(w) == ProcOf[w]
At(w, pc) == worker[w].pc = pc
Goes(w, pc) == worker' = [worker EXCEPT ![w].pc = pc]
Fault == faults < MaxFaults /\ faults' = faults + 1

Request(w) ==
    /\ At(w, "idle") /\ worker[w].left > 0
    /\ worker' = [worker EXCEPT ![w] = [pc |-> "slot", attempt |-> 0, wake |-> 0, left |-> @.left - 1]]
    /\ UNCHANGED <<active, local, row, sent, faults>>

waitForSlot(w) ==
    /\ At(w, "slot") /\ active[Me(w)] < maxConcurrent
    /\ active' = [active EXCEPT ![Me(w)] = @ + 1]
    /\ Goes(w, "local")
    /\ UNCHANGED <<local, row, sent, faults>>

\* The process's own bucket, which is refilled whenever it is asked.
acquireLocal(w) ==
    LET p == Me(w)
    IN /\ At(w, "local") /\ worker[w].wake = 0
       /\ IF local[p] >= Second
          THEN Goes(w, "shared") /\ local' = [local EXCEPT ![p] = @ - Second]
          ELSE /\ worker' = [worker EXCEPT ![w].wake = TicksFor(Second - local[p], Rate(p))]
               /\ UNCHANGED local
    /\ UNCHANGED <<active, row, sent, faults>>

\* A refused attempt writes nothing, refilled_at included.
take(w) ==
    LET p == Me(w)
    IN /\ At(w, "shared") /\ worker[w].wake = 0
       /\ \/ Affords(p) /\ row' = Taken(p) /\ sent' = sent + Second /\ Goes(w, "sending")
          \/ ~Affords(p) /\ Goes(w, "refused") /\ UNCHANGED <<row, sent>>
       /\ UNCHANGED <<active, local, faults>>

\* How long to sleep is asked in a second statement, when the row may be another.
sleepOn(w) ==
    /\ At(w, "refused")
    /\ worker' = [worker EXCEPT ![w] = [@ EXCEPT !.pc = "shared", !.wake = deficit(Me(w))]]
    /\ UNCHANGED <<active, local, row, sent, faults>>

\* The slot goes back; the request is over, or is tried once more after a pause.
AtRest(s) == [pc |-> "idle", attempt |-> 0, wake |-> 0, left |-> s.left]
Again(s) == [pc |-> "pause", attempt |-> s.attempt + 1, wake |-> 0, left |-> s.left]

Ends(w) == worker' = [worker EXCEPT ![w] = AtRest(@)]

\* Mutant: one retry more than there are.
RetriesOnceMore(w) ==
    IF worker[w].attempt <= maxRetries
    THEN worker' = [worker EXCEPT ![w] = Again(@)]
    ELSE Ends(w)

Retries(w) ==
    IF worker[w].attempt < maxRetries
    THEN worker' = [worker EXCEPT ![w] = Again(@)]
    ELSE Ends(w)

\* Mutant: a request that will be tried again keeps its slot.
KeepsSlot(w) ==
    active' = IF worker[w].attempt < maxRetries THEN active
              ELSE [active EXCEPT ![Me(w)] = @ - 1]
releaseSlot(w) == active' = [active EXCEPT ![Me(w)] = @ - 1]

\* An answer that is not 429 or 503, or an error that is not the network's.
Answered(w) ==
    /\ At(w, "sending")
    /\ releaseSlot(w) /\ Ends(w)
    /\ UNCHANGED <<local, row, sent, faults>>

\* A 429 or a 503, or a network that did not answer.
Throttled(w) ==
    /\ At(w, "sending") /\ Fault
    /\ releaseSlot(w) /\ Retries(w)
    /\ UNCHANGED <<local, row, sent>>

\* The shared budget itself fails, while the request holds its slot.
BudgetFails(w, transient) ==
    /\ worker[w].pc \in {"shared", "refused"} /\ worker[w].wake = 0 /\ Fault
    /\ releaseSlot(w) /\ IF transient THEN Retries(w) ELSE Ends(w)
    /\ UNCHANGED <<local, row, sent>>

\* The pause is over: Retry-After, or the backoff.
Resume(w) ==
    /\ At(w, "pause") /\ Goes(w, "slot")
    /\ UNCHANGED <<active, local, row, sent, faults>>

\* A pass dies with what it held; the next one has a limiter of its own.
Die(p) ==
    /\ \E w \in Worker : Me(w) = p /\ ~At(w, "idle")
    /\ Fault
    /\ worker' = [w \in Worker |-> IF Me(w) = p THEN AtRest(worker[w]) ELSE worker[w]]
    /\ active' = [active EXCEPT ![p] = 0]
    /\ local' = [local EXCEPT ![p] = Burst(p)]
    /\ UNCHANGED <<row, sent>>

Tick ==
    /\ worker' = [w \in Worker |-> [worker[w] EXCEPT !.wake = Most(@, 1) - 1]]
    /\ local' = [p \in Proc |-> Least(Burst(p), local[p] + Rate(p))]
    /\ row' = [row EXCEPT !.age = Least(Full, @ + 1)]
    /\ sent' = Most(sent, Default) - Default
    /\ UNCHANGED <<active, faults>>

-----------------------------------------------------------------------------
(* The specification.                                                       *)

Init ==
    /\ worker = [w \in Worker |-> [pc |-> "idle", attempt |-> 0, wake |-> 0, left |-> Requests]]
    /\ active = [p \in Proc |-> 0] /\ local = [p \in Proc |-> Burst(p)]
    /\ row = [made |-> FALSE, tokens |-> 0, age |-> 0]
    /\ sent = 0 /\ faults = 0

Step(w) ==
    \/ Request(w) \/ waitForSlot(w) \/ acquireLocal(w) \/ take(w) \/ sleepOn(w)
    \/ Answered(w) \/ Throttled(w) \/ Resume(w)

Next ==
    \/ Tick
    \/ \E w \in Worker : Step(w) \/ \E transient \in BOOLEAN : BudgetFails(w, transient)
    \/ \E p \in Proc : Die(p)

Spec == Init /\ [][Next]_vars

\* Time passes, a worker that can go on does, and a request is answered or times
\* out: the event loop and the clock give no more than that.
FairSpec == Spec /\ WF_vars(Tick) /\ \A w \in Worker : WF_vars(Step(w))

-----------------------------------------------------------------------------
(* Properties.                                                              *)

TypeOK ==
    /\ worker \in [Worker -> WorkerState] /\ active \in [Proc -> Nat]
    /\ local \in [Proc -> Nat] /\ row \in Row /\ sent \in Nat /\ faults \in Nat

\* In any stretch of t seconds all processes together send at most Default * t
\* requests and a burst of Default, however many passes run, whatever their
\* mappings store and whenever they die (pg-rate-budget.ts, take).
RateHeld == sent <= Ceiling

\* All processes of a tenant together, each filling the one row at a rate of its
\* own and only when it asks, act as one bucket that leaks at Default: what was
\* granted is granted for good, and a process that dies gives nothing back.
Bucket == INSTANCE LeakyBucket WITH level <- sent, Unit <- Second, Leak <- Default, Capacity <- Ceiling
ActsAsOneBucket == Bucket!Spec

\* A slot is held by a request that is on its way and by nothing else, and there
\* are no more of them than maxConcurrent: retries, failures of the budget and
\* errors give back exactly what they took (throttling.ts, executeWithThrottling).
Holds(w) == worker[w].pc \in {"local", "shared", "refused", "sending"}
SlotsHeld ==
    \A p \in Proc : /\ active[p] <= maxConcurrent
                    /\ active[p] = Cardinality({w \in Worker : Me(w) = p /\ Holds(w)})

\* A request that waits for a slot is over some time: the limiter makes passes
\* wait and never forgets one (rate-budget.ts, "WAIT rather than refuse").
EveryRequestEnds == \A w \in Worker : At(w, "slot") ~> At(w, "idle")
=============================================================================
