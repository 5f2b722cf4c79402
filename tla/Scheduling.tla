----------------------------- MODULE Scheduling -----------------------------
(***************************************************************************)
(* Which migration's pass starts when, in the managed edition: the minute  *)
(* tick (apps/worker/src/jobs/managed-sync-tick.ts), the queue each        *)
(* migration's passes wait in, the run row a pass opens and closes         *)
(* (run-delta-sync.ts), the spacing of a failing migration                 *)
(* (failing-backoff.ts) and the operator's hold (platform-pause.ts).       *)
(*                                                                         *)
(* The tick reads the hold and the rows, and later counts what runs and    *)
(* enqueues: passes start, end and are killed in between.  A pass that is  *)
(* killed leaves its row open, and only its age tells it from a live one.  *)
(*                                                                         *)
(* Time is minutes of any length.  Ages are kept up to Top, from where on  *)
(* every gap has passed; a migration that never ran has that age.          *)
(***************************************************************************)
EXTENDS Naturals, FiniteSets, Sequences

CONSTANTS
    Mapping,            \* ids of migrations, which break ties in their order
    Org, OrgOf,         \* organisations, and each migration's
    Gap,                \* minutes from a pass's start until the schedule and the tier's pace let the next begin
    Later,              \* migrations that take their organisation's later turns
    Ladder,             \* Ladder[i]: the spacing after i failures in a row
    HardLimit,          \* PASS_HARD_LIMIT_MS
    inFlight,           \* MAX_PASSES_IN_FLIGHT
    perOrganisation,    \* MAX_PASSES_PER_ORGANISATION
    Quiet,              \* QUIET_MINUTES of a hold before a deploy
    Prompt,             \* whether the plane starts a pass within the minute it could
    Top,                \* bound: an age
    MaxQueue,           \* bound: passes of one migration that wait
    MaxChanges          \* bound: holds, pauses, presses, lost enqueues

MaxFails == Len(Ladder) - 1
Places == Cardinality(Mapping)

ASSUME SchedulingConstants ==
    /\ Mapping \subseteq Nat /\ IsFiniteSet(Mapping) /\ OrgOf \in [Mapping -> Org]
    /\ Gap \in [Mapping -> 1..Top] /\ Later \subseteq Mapping
    \* Only a tier that paces its passes a day apart has migrations that go later.
    /\ \A x \in Later, m \in Mapping : OrgOf[m] = OrgOf[x] => Gap[m] > 2 * HardLimit
    /\ Ladder \in Seq(0..Top) /\ Len(Ladder) > 0
    /\ Top \in Nat /\ HardLimit \in Nat \ {0} /\ 2 * HardLimit < Top
    /\ inFlight \in Nat \ {0} /\ perOrganisation \in Nat \ {0} /\ Quiet \in Nat
    /\ Prompt \in BOOLEAN /\ MaxQueue \in Nat \ {0} /\ MaxChanges \in Nat

VARIABLES
    run,      \* run[m]: the pass of m that runs, and the passes that wait behind each other in its queue
    age,      \* age[m]: minutes since the newest run of m started
    dead,     \* dead[m]: minutes since the newest run of m started that nothing will close, or Top
    place,    \* place[m]: m's place among all, the one whose newest run started longest ago first
    fails,    \* fails[m]: failed passes since the last good one, and whether the cause heals itself
    wanted,   \* wanted[m]: the migration runs passes: not paused, ended, withdrawn or closed
    hold,     \* the operator's hold, and how long it has been on
    tick,     \* the tick that runs, and what it found due
    changes

vars == <<run, age, dead, place, fails, wanted, hold, tick, changes>>

\* History: who asked for a pass, the tick or a person.  One of the tick's is
\* "unseen" once a later tick has counted without a row for it.
Origin == {"tick", "unseen", "hand"}
Run == [pass : Origin \cup {"none"}, queue : Seq(Origin)]

Older(x) == IF x < Top THEN x + 1 ELSE x
Change == changes < MaxChanges /\ changes' = changes + 1
Live(m) == run[m].pass # "none"
Waiting(m) == Len(run[m].queue)
Startable(m) == ~Live(m) /\ Waiting(m) > 0

-----------------------------------------------------------------------------
(* What the tick reads.                                                     *)

\* Mutant: a row is dead before its pass must be.
staleTooSoon == HardLimit
STALE_RUN_AFTER_MS == 2 * HardLimit

\* Whether a row counts as a pass: that of a pass that runs, that of one that was killed.
liveRow(m) == Live(m) /\ age[m] < STALE_RUN_AFTER_MS
deadRow(m) == dead[m] < STALE_RUN_AFTER_MS
running(m) == liveRow(m) \/ deadRow(m)

minGap(m) == IF fails[m].healing THEN 0 ELSE Ladder[fails[m].count + 1]

isSyncDue(m) == age[m] >= Gap[m]
heldBackByFailures(m) == age[m] < minGap(m)

\* PASSES_IN_FLIGHT_SQL, over some migrations.
passesInFlight(S) == Cardinality({m \in S : liveRow(m)}) + Cardinality({m \in S : deadRow(m)})

\* Mutant: the one that ran last goes first.
newestFirst(m) == Places + 1 - place[m]

\* What the due are sorted by.
longestWaitingFirst(m) == place[m]
Sooner(a, b) == longestWaitingFirst(a) < longestWaitingFirst(b)

OfOrg(S, m) == {x \in S : OrgOf[x] = OrgOf[m]}

\* In an organisation, those that go later follow the rest.
ownOrder(a, b) ==
    IF a \in Later <=> b \in Later THEN Sooner(a, b) ELSE b \in Later

\* The places that the longest-waiting order gives an organisation stay its own: the
\* first of its own order takes the first of them, and so on.
inOrganisationOrder(due, m) ==
    LET own == OfOrg(due, m)
        turn == Cardinality({x \in own : ownOrder(x, m)})
    IN CHOOSE x \in own : Cardinality({y \in own : Sooner(y, x)}) = turn

\* Mutant: one pass too many.
roomToSpare(chosen, m) ==
    /\ passesInFlight(Mapping) + Cardinality(chosen) <= inFlight
    /\ passesInFlight(OfOrg(Mapping, m)) + Cardinality(OfOrg(chosen, m)) <= perOrganisation

\* What runs and what is chosen leave room for one more, on the stack and in its organisation.
roomFor(chosen, m) ==
    /\ passesInFlight(Mapping) + Cardinality(chosen) < inFlight
    /\ passesInFlight(OfOrg(Mapping, m)) + Cardinality(OfOrg(chosen, m)) < perOrganisation

\* The loop: chosen[i] is what is taken from the first i places.
withinCapacity(due) ==
    LET next(i) == {m \in due : longestWaitingFirst(inOrganisationOrder(due, m)) = i}
        chosen[i \in 0..Places] ==
            IF i = 0 THEN {}
            ELSE chosen[i - 1] \cup {m \in next(i) : roomFor(chosen[i - 1], m)}
    IN chosen[Places]

-----------------------------------------------------------------------------
(* The tick.                                                                *)

\* A pass is killed at the hard limit, and a tick is over within its minute.
Minute ==
    /\ tick.pc = "idle"
    /\ \A m \in Mapping : Live(m) => age[m] < HardLimit
    /\ Prompt => \A m \in Mapping : ~Startable(m)
    /\ age' = [m \in Mapping |-> Older(age[m])]
    /\ dead' = [m \in Mapping |-> Older(dead[m])]
    /\ hold' = IF hold.on /\ hold.minutes < Quiet THEN [hold EXCEPT !.minutes = @ + 1] ELSE hold
    /\ tick' = [pc |-> "read", due |-> {}]
    /\ UNCHANGED <<run, place, fails, wanted, changes>>

TickRead ==
    /\ tick.pc = "read"
    /\ tick' = IF hold.on THEN [pc |-> "idle", due |-> {}]
               ELSE [pc |-> "choose",
                     due |-> {m \in Mapping : /\ wanted[m] /\ ~running(m)
                                              /\ isSyncDue(m) /\ ~heldBackByFailures(m)}]
    /\ UNCHANGED <<run, age, dead, place, fails, wanted, hold, changes>>

\* A pass has no row until it starts: while its migration has none, those that
\* wait are in no count.
counted(m) ==
    IF running(m) THEN run[m].queue
    ELSE [i \in 1..Waiting(m) |-> IF run[m].queue[i] = "tick" THEN "unseen" ELSE run[m].queue[i]]

\* A migration whose enqueue fails waits for a later tick.
TickEnqueue ==
    /\ tick.pc = "choose"
    /\ \E lost \in SUBSET withinCapacity(tick.due) :
          /\ IF lost = {} THEN UNCHANGED changes ELSE Change
          /\ run' = [m \in Mapping |->
                       [run[m] EXCEPT !.queue =
                          IF m \in withinCapacity(tick.due) \ lost /\ Waiting(m) < MaxQueue
                          THEN Append(counted(m), "tick") ELSE counted(m)]]
    /\ tick' = [pc |-> "idle", due |-> {}]
    /\ UNCHANGED <<age, dead, place, fails, wanted, hold>>

-----------------------------------------------------------------------------
(* A pass.                                                                  *)

\* The order of the newest runs, once m has begun one.
ranLast(m) ==
    [x \in Mapping |-> IF x = m THEN Places
                       ELSE IF place[x] > place[m] THEN place[x] - 1 ELSE place[x]]

\* The queue runs one pass of a migration at a time; the pass opens its row.
StartRun(m) ==
    /\ Startable(m)
    /\ run' = [run EXCEPT ![m] = [pass |-> Head(@.queue), queue |-> Tail(@.queue)]]
    /\ age' = [age EXCEPT ![m] = 0]
    /\ place' = ranLast(m)
    /\ UNCHANGED <<dead, fails, wanted, hold, tick, changes>>

Ended(m) == Live(m) /\ run' = [run EXCEPT ![m].pass = "none"]

\* Mutant: the failures of the window are counted less its good passes, not since the last.
SucceedOnce(m) ==
    /\ Ended(m)
    /\ fails' = [fails EXCEPT ![m] = [count |-> @.count - 1, healing |-> FALSE]]
    /\ UNCHANGED <<age, dead, place, wanted, hold, tick, changes>>

Succeed(m) ==
    /\ Ended(m)
    /\ fails' = [fails EXCEPT ![m] = [count |-> 0, healing |-> FALSE]]
    /\ UNCHANGED <<age, dead, place, wanted, hold, tick, changes>>

FailRun(m, healing) ==
    /\ Ended(m)
    /\ fails' = [fails EXCEPT ![m] = [count |-> IF @.count < MaxFails THEN @.count + 1 ELSE @.count,
                                      healing |-> healing]]
    /\ UNCHANGED <<age, dead, place, wanted, hold, tick, changes>>

\* Killed, by the hard limit or by the machine, or unable to close its row.
Kill(m) ==
    /\ Ended(m)
    /\ dead' = [dead EXCEPT ![m] = age[m]]
    /\ UNCHANGED <<age, place, fails, wanted, hold, tick, changes>>

-----------------------------------------------------------------------------
(* The people.                                                              *)

\* Sync now, and every other door of the API: refused under a hold.
PressSyncNow(m) ==
    /\ Change /\ ~hold.on /\ wanted[m] /\ Waiting(m) < MaxQueue
    /\ run' = [run EXCEPT ![m].queue = Append(@, "hand")]
    /\ UNCHANGED <<age, dead, place, fails, wanted, hold, tick>>

SetWanted(m) ==
    /\ Change /\ wanted' = [wanted EXCEPT ![m] = ~@]
    /\ UNCHANGED <<run, age, dead, place, fails, hold, tick>>

StartHold ==
    /\ ~hold.on /\ Change /\ hold' = [on |-> TRUE, minutes |-> 0]
    /\ UNCHANGED <<run, age, dead, place, fails, wanted, tick>>

EndHold ==
    /\ hold.on /\ hold' = [on |-> FALSE, minutes |-> 0]
    /\ UNCHANGED <<run, age, dead, place, fails, wanted, tick, changes>>

-----------------------------------------------------------------------------
(* The specification.  It begins with migrations that never ran.            *)

Init ==
    /\ run = [m \in Mapping |-> [pass |-> "none", queue |-> <<>>]]
    /\ age = [m \in Mapping |-> Top] /\ dead = [m \in Mapping |-> Top]
    /\ place = [m \in Mapping |-> Cardinality({x \in Mapping : x <= m})]
    /\ fails = [m \in Mapping |-> [count |-> 0, healing |-> FALSE]]
    /\ wanted = [m \in Mapping |-> TRUE]
    /\ hold = [on |-> FALSE, minutes |-> 0] /\ tick = [pc |-> "idle", due |-> {}]
    /\ changes = 0

Ends(m) == Succeed(m) \/ Kill(m) \/ \E healing \in BOOLEAN : FailRun(m, healing)
TickStep == TickRead \/ TickEnqueue

Next ==
    \/ Minute \/ TickStep \/ StartHold \/ EndHold
    \/ \E m \in Mapping : StartRun(m) \/ Ends(m) \/ PressSyncNow(m) \/ SetWanted(m)

Spec == Init /\ [][Next]_vars

\* Minutes pass and bring a tick, the plane starts what waits, and a pass ends or
\* is killed at the hard limit.
FairSpec ==
    /\ Spec /\ WF_vars(Minute) /\ WF_vars(TickStep)
    /\ \A m \in Mapping : WF_vars(StartRun(m)) /\ WF_vars(Ends(m))

-----------------------------------------------------------------------------
(* Properties.                                                              *)

TypeOK ==
    /\ run \in [Mapping -> Run] /\ \A m \in Mapping : Waiting(m) <= MaxQueue
    /\ age \in [Mapping -> 0..Top] /\ dead \in [Mapping -> 0..Top]
    /\ place \in [Mapping -> 1..Places] /\ \A m, x \in Mapping : place[m] = place[x] => m = x
    /\ fails \in [Mapping -> [count : 0..MaxFails, healing : BOOLEAN]]
    /\ wanted \in [Mapping -> BOOLEAN] /\ hold \in [on : BOOLEAN, minutes : 0..Quiet]
    /\ tick \in [pc : {"idle", "read", "choose"}, due : SUBSET Mapping] /\ changes \in Nat

Ticked == {m \in Mapping : run[m].pass = "tick"}

\* The passes of the tick that run are never more than the machine was sized for,
\* nor one organisation's more than its share, however late they start and whatever
\* was killed and left its row open.  What passes the caps are a person's passes
\* and those that waited, without a row, while a later tick counted
\* (managed-sync-tick.ts, "What the count cannot see").
CapHeld ==
    /\ Cardinality(Ticked) <= inFlight
    /\ \A o \in Org : Cardinality({m \in Ticked : OrgOf[m] = o}) <= perOrganisation

\* The tick never takes a live pass for a dead one: a migration it finds due has
\* no pass running when the rows are read (STALE_RUN_AFTER_MS).
LiveIsNotDead == [][\A m \in tick'.due \ tick.due : ~Live(m)]_vars

\* A migration that runs passes, and is not held for good, is passed over for ever
\* by nothing: not by a killed pass, not by failures, not by the caps and not by
\* the others (managed-sync-tick.ts, "The longest-waiting start first").
EveryMigrationRuns ==
    \A m \in Mapping : <>[](wanted[m] /\ ~hold.on) => []<>Live(m)

\* Once a hold has been on for the quiet minutes and no pass is in flight, the
\* drain is done: none starts before the hold is lifted.
DrainIsDone ==
    [][hold.on /\ hold.minutes = Quiet /\ passesInFlight(Mapping) = 0
       => \A m \in Mapping : Live(m)' => Live(m)]_vars
=============================================================================
