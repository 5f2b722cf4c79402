--------------------------- MODULE DownloadMeter ---------------------------
(***************************************************************************)
(* The daily download meter of a mail endpoint (PgByteBudget,              *)
(* packages/ledger/src/pg-rate-budget.ts), as the passes that share it use *)
(* it: each worker reads the meter before a fetch and stops its pass at    *)
(* the ceiling (packages/core/src/domain-sync.ts), and counts the bytes    *)
(* after they have come (packages/connectors/src/imapflow-source.ts).      *)
(* Between the two nothing is locked, and a worker may die.                *)
(*                                                                         *)
(* The window is a row: what was spent in it and the ticks since it began, *)
(* Day of which make it expire.                                            *)
(***************************************************************************)
EXTENDS Naturals, FiniteSets

CONSTANTS
    Worker,       \* the workers of all passes on the endpoint
    Configured,   \* downloadBytesPerDay of each worker's mapping, 0 for none
    Provider,     \* the provider's own ceiling, GMAIL_IMAP_DOWNLOAD_BYTES_PER_DAY
    MaxSize,      \* the largest message
    Day,          \* ticks in 24 hours
    Fetches,      \* bound: messages of a worker
    MaxFaults     \* bound: failed fetches, deaths

ASSUME MeterConstants ==
    /\ Worker # {} /\ IsFiniteSet(Worker) /\ Configured \in [Worker -> Nat] /\ Provider \in Nat \ {0}
    /\ MaxSize \in Nat \ {0} /\ Day \in Nat \ {0} /\ Fetches \in Nat /\ MaxFaults \in Nat

VARIABLES
    worker,   \* where each worker is, the bytes it has not counted, the messages it has left
    meter,    \* the byte_budget row
    sent,     \* history: sent[i]: the bytes the provider sent in this tick and the i before it
    lost,     \* history: bytes that a death left uncounted
    faults

vars == <<worker, meter, sent, lost, faults>>

WorkerState == [pc : {"gate", "fetch", "spend", "stopped"}, bytes : 0..MaxSize, left : 0..Fetches]
Meter == [made : BOOLEAN, spent : Nat, age : 0..Day]
Slot == 0..(Day - 1)

Least(x, y) == IF x < y THEN x ELSE y

\* Mutant: what a mapping configures overrides the provider's ceiling.
configuredCeiling(w) == IF Configured[w] = 0 THEN Provider ELSE Configured[w]

\* imapDownloadPlan for the metered host: a mapping lowers the ceiling only.
ceiling(w) == IF Configured[w] = 0 THEN Provider ELSE Least(Configured[w], Provider)

expired == ~meter.made \/ meter.age = Day

\* Mutant: a window that is over still counts.
remainingOfOld(w) == ceiling(w) - Least(ceiling(w), meter.spent)

\* state, without spending.
remaining(w) == IF expired THEN ceiling(w) ELSE ceiling(w) - Least(ceiling(w), meter.spent)

\* Mutant: of two spends at a time one is lost.
spendOver(b) ==
    IF expired THEN [made |-> TRUE, age |-> 0, spent |-> b] ELSE [meter EXCEPT !.spent = b]

\* Mutant: the row keeps what is left of the window, and a spend is taken off it.
spendDown(b) ==
    IF expired THEN [made |-> TRUE, age |-> 0, spent |-> b]
    ELSE [meter EXCEPT !.spent = @ - b]

\* spend: one statement, which begins a window or adds to it.
spend(b) ==
    IF expired THEN [made |-> TRUE, age |-> 0, spent |-> b]
    ELSE [meter EXCEPT !.spent = @ + b]

-----------------------------------------------------------------------------
Fault == faults < MaxFaults /\ faults' = faults + 1
At(w, pc) == worker[w].pc = pc
Goes(w, pc) == worker' = [worker EXCEPT ![w].pc = pc]

\* The pre-fetch gate; a pass that finds nothing left takes no new work.
Gate(w) ==
    /\ At(w, "gate") /\ worker[w].left > 0
    /\ IF remaining(w) = 0 THEN Goes(w, "stopped") ELSE Goes(w, "fetch")
    /\ UNCHANGED <<meter, sent, lost, faults>>

FetchRaw(w, b) ==
    /\ At(w, "fetch")
    /\ sent' = [i \in Slot |-> sent[i] + b]
    /\ worker' = [worker EXCEPT ![w] = [pc |-> "spend", bytes |-> b, left |-> @.left - 1]]
    /\ UNCHANGED <<meter, lost, faults>>

FetchFails(w) ==
    /\ At(w, "fetch") /\ Fault /\ Goes(w, "gate")
    /\ UNCHANGED <<meter, sent, lost>>

Spend(w) ==
    /\ At(w, "spend")
    /\ meter' = spend(worker[w].bytes)
    /\ worker' = [worker EXCEPT ![w] = [@ EXCEPT !.pc = "gate", !.bytes = 0]]
    /\ UNCHANGED <<sent, lost, faults>>

\* The process dies, or the meter cannot be written: the bytes came all the same,
\* and a later pass fetches the message again.
Die(w) ==
    /\ At(w, "spend") /\ Fault
    /\ lost' = lost + worker[w].bytes
    /\ worker' = [worker EXCEPT ![w] = [pc |-> "gate", bytes |-> 0, left |-> @.left + 1]]
    /\ UNCHANGED <<meter, sent>>

\* The next pass.
NextPass(w) ==
    /\ At(w, "stopped") /\ Goes(w, "gate")
    /\ UNCHANGED <<meter, sent, lost, faults>>

Tick ==
    /\ meter' = IF meter.made THEN [meter EXCEPT !.age = Least(Day, @ + 1)] ELSE meter
    /\ sent' = [i \in Slot |-> IF i = 0 THEN 0 ELSE sent[i - 1]]
    /\ UNCHANGED <<worker, lost, faults>>

-----------------------------------------------------------------------------
Init ==
    /\ worker = [w \in Worker |-> [pc |-> "gate", bytes |-> 0, left |-> Fetches]]
    /\ meter = [made |-> FALSE, spent |-> 0, age |-> 0]
    /\ sent = [i \in Slot |-> 0] /\ lost = 0 /\ faults = 0

Step(w) == Gate(w) \/ Spend(w) \/ NextPass(w) \/ \E b \in 1..MaxSize : FetchRaw(w, b)

Next == Tick \/ \E w \in Worker : Step(w) \/ FetchFails(w) \/ Die(w)

Spec == Init /\ [][Next]_vars

\* Time passes, passes are started again and a worker goes on when it can.
FairSpec == Spec /\ WF_vars(Tick) /\ \A w \in Worker : WF_vars(Step(w))

-----------------------------------------------------------------------------
(* Properties.                                                              *)

TypeOK ==
    /\ worker \in [Worker -> WorkerState] /\ meter \in Meter
    /\ sent \in [Slot -> Nat] /\ lost \in Nat /\ faults \in Nat

Workers == Cardinality(Worker)

\* A window counts less than the ceiling and one message more for each worker:
\* the gate is read before the fetch, by all of them at once, and no spend is lost
\* to another (pg-rate-budget.ts, spend).
WindowHeld == meter.spent <= Provider - 1 + Workers * MaxSize

\* In any 24 hours the provider sends less than two adjacent windows admit,
\* and what a death left uncounted (rate-budget.ts, the note on fixed windows).
TwoWindowsHeld == sent[Day - 1] < 2 * (Provider - 1 + Workers * MaxSize) + lost

\* A pass that stopped at the ceiling goes on by itself some day.
StoppedGoesOn == \A w \in Worker : At(w, "stopped") ~> At(w, "fetch")
=============================================================================
