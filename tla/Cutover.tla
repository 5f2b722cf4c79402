------------------------------ MODULE Cutover ------------------------------
(***************************************************************************)
(* The cutover of one migration.  It has two records that no transaction   *)
(* covers together: the cutover ledger (packages/ledger/src/               *)
(* cutover-store.ts, the operator's trail and its state machine) and       *)
(* `mailbox_mapping.status`, which every pass and every scheduler reads.   *)
(* The operator's commands (apps/worker/src/cli/cutover-commands.ts), the  *)
(* preparation job (apps/worker/src/jobs/run-cutover.ts) and the status    *)
(* doors of the API read both, decide, and write them one after the other. *)
(*                                                                         *)
(* A caller is one command, job or request; it may die between any two of  *)
(* its transactions, and several may run at once.  Each transaction is one *)
(* step.  The ledger is the whole migration's; a data type's own cutover   *)
(* is not modelled.                                                        *)
(***************************************************************************)
EXTENDS Naturals, FiniteSets

CONSTANTS
    Caller,       \* commands, jobs and requests that may run at once
    Grace,        \* grace_period_hours, in ticks
    MaxNow,       \* bound: ticks
    MaxCrashes    \* bound: callers that die half way

ASSUME CutoverConstants ==
    /\ IsFiniteSet(Caller) /\ Grace \in Nat /\ MaxNow \in Nat /\ MaxCrashes \in Nat

VARIABLES
    ledger,    \* the cutover_state row
    status,    \* mailbox_mapping.status
    found,     \* the status execute found and replaced, until the ledger records it
    call,      \* call[p]: what caller p has read and where it is
    now,
    crashes

vars == <<ledger, status, found, call, now, crashes>>

States == {"none", "PREPARING", "READY_FOR_CUTOVER", "APPROVED", "CUTOVER_IN_PROGRESS",
           "GRACE_PERIOD", "COMPLETED", "ROLLED_BACK", "FAILED"}
Lifecycle == {"paused", "active", "cutover", "continuous", "done"}

NeverYet == 0   \* the clock starts at 1
Ledger == [state : States, copies : BOOLEAN, entered : Nat, graceAt : Nat]
Ops == {"none", "start", "verify", "prepare", "execute", "complete", "rollback", "Start", "Finish"}
Call == [op : Ops, pc : {"", "read", "map", "mark", "wait", "reset", "checks", "fail", "door"},
         seen : Lifecycle]
NoCall == [op |-> "none", pc |-> "", seen |-> "paused"]

-----------------------------------------------------------------------------
(* The state machine, and the lifecycle decisions.                          *)

VALID_TRANSITIONS ==
    [none                |-> {},
     PREPARING           |-> {"READY_FOR_CUTOVER", "FAILED"},
     READY_FOR_CUTOVER   |-> {"APPROVED", "PREPARING", "FAILED"},
     APPROVED            |-> {"CUTOVER_IN_PROGRESS", "READY_FOR_CUTOVER", "FAILED", "ROLLED_BACK"},
     CUTOVER_IN_PROGRESS |-> {"GRACE_PERIOD", "FAILED", "ROLLED_BACK"},
     GRACE_PERIOD        |-> {"COMPLETED", "ROLLED_BACK", "FAILED"},
     COMPLETED           |-> {},
     ROLLED_BACK         |-> {"PREPARING"},
     FAILED              |-> {"PREPARING", "ROLLED_BACK"}]

\* Mutant: a completed cutover may be prepared again.
reopensCompleted(from, to) == to \in VALID_TRANSITIONS[from] \/ (from = "COMPLETED" /\ to = "PREPARING")
isValidTransition(from, to) == to \in VALID_TRANSITIONS[from]

isAfterCutover(s) == s \in {"cutover", "done", "continuous"}
runsPasses(s) == s \in {"active", "continuous"}

\* Mutants: the mapping is given the ledger's word; a rollback leaves the
\* continuous lane; a migration that was paused is copied through the grace.
cutoverTransitionByLedger(s) == IF s \in {"active", "paused"} THEN "CUTOVER_IN_PROGRESS" ELSE s
rollbackKeepsLane(s) == IF s = "cutover" THEN "active" ELSE s
keepsCopyingAnyway(s) == s \in {"active", "paused"}

cutoverTransition(s) == IF s \in {"active", "paused"} THEN "cutover" ELSE s

rollbackTransition(s) == IF s \in {"cutover", "continuous"} THEN "active" ELSE s
rollbackRefused(s) == s = "done"

updateTransition ==
    {<<"active", "paused">>, <<"active", "cutover">>, <<"paused", "cutover">>,
     <<"cutover", "continuous">>, <<"done", "continuous">>, <<"continuous", "cutover">>}

keepsCopyingThroughGrace(s) == s = "active"

\* The window in which a migration in `cutover` is still copied.
cutoverStillCopies ==
    /\ ledger.copies
    /\ \/ ledger.state = "GRACE_PERIOD" /\ ledger.graceAt # NeverYet /\ now < ledger.graceAt + Grace
       \/ ledger.state = "CUTOVER_IN_PROGRESS" /\ now < ledger.entered + Grace

runsPassesNow == runsPasses(status) \/ (status = "cutover" /\ cutoverStillCopies)

-----------------------------------------------------------------------------
(* The two writes.                                                          *)

\* transitionState: checked against the row as it is now, and saved with the
\* time and what the caller adds.
Moved(to) == [ledger EXCEPT !.state = to, !.entered = now]

Save(row) == ledger' = row

SetStatus(s) == status' = s

Go(p, pc) == call' = [call EXCEPT ![p].pc = pc]
Return(p) == call' = [call EXCEPT ![p] = NoCall]
Begin(p, op, pc) ==
    /\ call[p] = NoCall
    /\ call' = [call EXCEPT ![p] = [NoCall EXCEPT !.op = op, !.pc = pc]]
In(p, ops, pc) == call[p].op \in ops /\ call[p].pc = pc

\* A row the caller may move goes to `to`, and the caller to `next`; a row it
\* may not move throws, and the caller goes to `thrown`.
Transition(p, to, row, next, thrown) ==
    IF isValidTransition(ledger.state, to)
    THEN Save(row) /\ next
    ELSE UNCHANGED ledger /\ thrown

-----------------------------------------------------------------------------
(* Getting ready: `start`, `verify`, `approve`, and the preparation job.     *)

initializeCutover == ledger' = [Moved("PREPARING") EXCEPT !.copies = FALSE, !.graceAt = NeverYet]

StartCutover(p) ==
    /\ \/ /\ ledger.state = "none" /\ call[p] = NoCall
          /\ initializeCutover /\ UNCHANGED call
       \/ /\ ledger.state \in {"FAILED", "ROLLED_BACK"}
          /\ Begin(p, "start", "reset") /\ UNCHANGED ledger
    /\ UNCHANGED <<status, found, now, crashes>>

\* Once its checks have passed, `verify` advances a cutover that it reads as
\* still being prepared.
VerifyCutover(p) ==
    /\ ledger.state = "PREPARING" /\ Begin(p, "verify", "checks")
    /\ UNCHANGED <<ledger, status, found, now, crashes>>

ApproveCutover(p) ==
    /\ call[p] = NoCall /\ ledger.state = "READY_FOR_CUTOVER"
    /\ Save(Moved("APPROVED"))
    /\ UNCHANGED <<status, found, call, now, crashes>>

\* The job reads the ledger and follows prepareTransition: a ledger is made,
\* one that admits READY_FOR_CUTOVER is prepared as it stands, one that admits
\* PREPARING goes back there first, and any other is refused.
PrepareCutover(p) ==
    /\ \/ /\ ledger.state = "none" /\ Begin(p, "prepare", "checks") /\ initializeCutover
       \/ /\ isValidTransition(ledger.state, "READY_FOR_CUTOVER")
          /\ Begin(p, "prepare", "checks") /\ UNCHANGED ledger
       \/ /\ ~isValidTransition(ledger.state, "READY_FOR_CUTOVER")
          /\ isValidTransition(ledger.state, "PREPARING")
          /\ Begin(p, "prepare", "reset") /\ UNCHANGED ledger
    /\ UNCHANGED <<status, found, now, crashes>>

ResetLedger(p) ==
    /\ In(p, {"start", "prepare"}, "reset")
    /\ LET job == call[p].op = "prepare" IN
       Transition(p, "PREPARING", Moved("PREPARING"),
                  IF job THEN Go(p, "checks") ELSE Return(p),
                  IF job THEN Go(p, "fail") ELSE Return(p))
    /\ UNCHANGED <<status, found, now, crashes>>

\* The checks (the job's final sync and gate before them) are behind the caller,
\* and passed.
PassChecks(p) ==
    /\ In(p, {"verify", "prepare"}, "checks")
    /\ Transition(p, "READY_FOR_CUTOVER", Moved("READY_FOR_CUTOVER"), Return(p),
                  IF call[p].op = "prepare" THEN Go(p, "fail") ELSE Return(p))
    /\ UNCHANGED <<status, found, now, crashes>>

FailChecks(p) ==
    /\ In(p, {"prepare"}, "checks")
    /\ Go(p, "fail")
    /\ UNCHANGED <<ledger, status, found, now, crashes>>

\* Whatever was thrown, other than a refusal, is recorded as FAILED.
RecordFailed(p) ==
    /\ In(p, {"prepare"}, "fail")
    /\ Transition(p, "FAILED", Moved("FAILED"), Return(p), Return(p))
    /\ UNCHANGED <<status, found, now, crashes>>

-----------------------------------------------------------------------------
(* The three steps that move both records: `execute`, `complete`,           *)
(* `rollback`.  The ledger is read, then the status, then both are written, *)
(* the status first.                                                        *)

Goal == [execute |-> "CUTOVER_IN_PROGRESS", complete |-> "COMPLETED", rollback |-> "ROLLED_BACK"]
Steps == {"execute", "complete", "rollback"}

BeginStep(p, op) ==
    /\ isValidTransition(ledger.state, Goal[op]) /\ Begin(p, op, "read")
    /\ UNCHANGED <<ledger, status, found, now, crashes>>

ReadStatus(p) ==
    /\ In(p, Steps, "read")
    /\ IF call[p].op = "rollback" /\ rollbackRefused(status)
       THEN Return(p)
       ELSE call' = [call EXCEPT ![p].pc = "map", ![p].seen = status]
    /\ UNCHANGED <<ledger, status, found, now, crashes>>

\* Mutant: a step moves the ledger and leaves the mapping as it was.
StatusAsSeen(op, seen) == seen
StatusAfter(op, seen) == IF op = "rollback" THEN rollbackTransition(seen) ELSE cutoverTransition(seen)

MoveMapping(p) ==
    /\ In(p, Steps, "map")
    /\ LET to == StatusAfter(call[p].op, call[p].seen)
       IN IF to = call[p].seen THEN UNCHANGED <<status, found>>
          ELSE /\ SetStatus(to)
               /\ found' = IF call[p].op = "execute" THEN status ELSE to
    /\ Go(p, "mark")
    /\ UNCHANGED <<ledger, now, crashes>>

\* `execute` also records whether the migration goes on being copied, and then
\* waits for the MX record.
MarkLedger(p) ==
    /\ In(p, Steps, "mark")
    /\ LET op == call[p].op
           to == Goal[op]
       IN Transition(p, to,
              IF op = "execute"
              THEN [Moved(to) EXCEPT !.copies = keepsCopyingThroughGrace(call[p].seen)]
              ELSE Moved(to),
              /\ IF op = "execute" THEN Go(p, "wait") ELSE Return(p)
              /\ found' = status,
              Return(p) /\ UNCHANGED found)
    /\ UNCHANGED <<status, now, crashes>>

\* Mutant: a grace period that began in an earlier attempt is not begun anew.
EnterGraceOnce(p) ==
    /\ In(p, {"execute"}, "wait")
    /\ Transition(p, "GRACE_PERIOD",
                  [Moved("GRACE_PERIOD") EXCEPT !.graceAt = IF @ = NeverYet THEN now ELSE @],
                  Return(p), Return(p))
    /\ UNCHANGED <<status, found, now, crashes>>

EnterGrace(p) ==
    /\ In(p, {"execute"}, "wait")
    /\ Transition(p, "GRACE_PERIOD", [Moved("GRACE_PERIOD") EXCEPT !.graceAt = now],
                  Return(p), Return(p))
    /\ UNCHANGED <<status, found, now, crashes>>

NotPropagated(p) ==
    /\ In(p, {"execute"}, "wait")
    /\ Transition(p, "FAILED", Moved("FAILED"), Return(p), Return(p))
    /\ UNCHANGED <<status, found, now, crashes>>

-----------------------------------------------------------------------------
(* The status doors of the API.  Start and Finish read the status, ask other *)
(* things, and write; an update decides inside the transaction that writes.  *)

StartMapping(p) ==
    /\ ~isAfterCutover(status) /\ status # "active" /\ Begin(p, "Start", "door")
    /\ UNCHANGED <<ledger, status, found, now, crashes>>

FinishMapping(p) ==
    /\ status \notin {"done", "paused"} /\ Begin(p, "Finish", "door")
    /\ UNCHANGED <<ledger, status, found, now, crashes>>

ThroughDoor(p) ==
    /\ In(p, {"Start", "Finish"}, "door")
    /\ SetStatus(IF call[p].op = "Start" THEN "active" ELSE "done")
    /\ found' = status' /\ Return(p)
    /\ UNCHANGED <<ledger, now, crashes>>

UpdateStatus(p, to) ==
    /\ call[p] = NoCall /\ <<status, to>> \in updateTransition
    /\ SetStatus(to) /\ found' = to
    /\ UNCHANGED <<ledger, call, now, crashes>>

-----------------------------------------------------------------------------
Tick == now < MaxNow /\ now' = now + 1 /\ UNCHANGED <<ledger, status, found, call, crashes>>

\* A CLI that is interrupted, a worker that is killed, a request cut off.
Die(p) ==
    /\ call[p] # NoCall /\ crashes < MaxCrashes
    /\ crashes' = crashes + 1 /\ Return(p)
    /\ UNCHANGED <<ledger, status, found, now>>

Init ==
    /\ ledger = [state |-> "none", copies |-> FALSE, entered |-> NeverYet, graceAt |-> NeverYet]
    /\ status = "paused" /\ found = "paused"
    /\ call = [p \in Caller |-> NoCall]
    /\ now = 1 /\ crashes = 0

Ready(p) ==
    \/ StartCutover(p) \/ VerifyCutover(p) \/ ApproveCutover(p) \/ PrepareCutover(p)
    \/ ResetLedger(p) \/ PassChecks(p) \/ FailChecks(p) \/ RecordFailed(p)

Switch(p) ==
    \/ \E op \in Steps : BeginStep(p, op)
    \/ ReadStatus(p) \/ MoveMapping(p) \/ MarkLedger(p) \/ EnterGrace(p) \/ NotPropagated(p)

Doors(p) ==
    \/ StartMapping(p) \/ FinishMapping(p) \/ ThroughDoor(p)
    \/ \E to \in Lifecycle : UpdateStatus(p, to)

Next == Tick \/ \E p \in Caller : Ready(p) \/ Switch(p) \/ Doors(p) \/ Die(p)

Spec == Init /\ [][Next]_vars

-----------------------------------------------------------------------------
(* Properties                                                               *)

TypeOK ==
    /\ ledger \in Ledger
    /\ status \in Lifecycle /\ found \in Lifecycle
    /\ call \in [Caller -> Call]
    /\ now \in Nat /\ crashes \in Nat

\* A completed cutover is behind a migration that no longer takes the source
\* for the authority: the ledger is terminal, so nothing could correct it.
CompletedIsStopped == ledger.state = "COMPLETED" => isAfterCutover(status)

EntersCutover == ledger.state # "CUTOVER_IN_PROGRESS" /\ ledger'.state = "CUTOVER_IN_PROGRESS"

Agree ==
    /\ EntersCutover => isAfterCutover(status')
    /\ ledger.state # "ROLLED_BACK" /\ ledger'.state = "ROLLED_BACK" => ~isAfterCutover(status')
    /\ isAfterCutover(status) /\ ~isAfterCutover(status')
          => \E p \in Caller : call[p].op = "rollback"

\* The ledger enters CUTOVER_IN_PROGRESS only beside a mapping that has left
\* the source's authority, ROLLED_BACK only beside one that is back under it,
\* and, the cutover once executed, nothing but a rollback gives it back.
RecordsAgree == [][Agree]_vars

\* The two records together, each written by transactions of its own, behave as
\* the one authority the rest of the system relies on: the source hands over,
\* may be given it back, and never once the cutover is completed.
Decides ==
    INSTANCE Authority WITH side <- IF isAfterCutover(status) THEN "target" ELSE "source",
                            closed <- ledger.state = "COMPLETED"
OneAuthority == Decides!Spec

StillStopped == EntersCutover /\ ledger'.copies => found = "active"

\* What the operator stopped stays stopped: the cutover that execute enters is
\* one whose passes go on only if the migration was active when execute moved
\* it, whatever earlier attempts left on the row.
StoppedStaysStopped == [][StillStopped]_vars

\* And what was copying keeps copying: the migration execute found active is
\* recorded as one that is copied until the grace period ends, even if the
\* first execute died between its two writes and a second one finished it.
CopyingGoesOn == [][EntersCutover /\ found = "active" => ledger'.copies]_vars

\* A grace period is a whole one, in a second attempt as in a first: from the
\* moment the ledger enters it, a migration that is copied through it runs its
\* passes for all of its length.
WholeGracePeriod ==
    (/\ ledger.state = "GRACE_PERIOD" /\ ledger.copies /\ status = "cutover"
     /\ now < ledger.entered + Grace)
    => runsPassesNow

\* A preparation writes nothing to a cutover that is under way: one that was
\* executed while the final sync and the gate ran stays as it is.
PreparationLeavesItAlone ==
    [][\A p \in Caller :
          (/\ call[p].op = "prepare" /\ call'[p] # call[p]
           /\ ledger.state \in {"CUTOVER_IN_PROGRESS", "GRACE_PERIOD"})
          => ledger' = ledger]_vars
=============================================================================
