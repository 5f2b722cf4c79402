--------------------------- MODULE CutoverProofs ---------------------------
(***************************************************************************)
(* Proofs about Cutover for callers that run one at a time (and may die    *)
(* half way): the two records of a cutover agree, for every length of the  *)
(* grace period, every number of attempts and every number of crashes.     *)
(***************************************************************************)
EXTENDS Cutover, TLAPS

\* One command, job or request at a time.
Solo == \A p, q \in Caller : p = q

\* What a caller has read is still so when it writes: the ledger admits the
\* move it is about to make, the mapping has the status it saw, then the one it
\* wrote, and a Start that has passed its check is of a migration before cutover.
CallOK(p) ==
    /\ call[p].op \in Steps /\ call[p].pc \in {"read", "map", "mark"}
          => isValidTransition(ledger.state, Goal[call[p].op])
    /\ call[p].op \in Steps /\ call[p].pc = "map"
          => call[p].seen = status /\ (call[p].op = "rollback" => status # "done")
    /\ call[p].op \in Steps /\ call[p].pc = "mark"
          => /\ status = StatusAfter(call[p].op, call[p].seen)
             /\ call[p].op = "rollback" => call[p].seen # "done"
             /\ call[p].op = "execute" /\ call[p].seen = "active" => found = "active"
    /\ call[p].op = "Start" => ~isAfterCutover(status)

CallInv == \A p \in Caller : CallOK(p)

CutoverInv == TypeOK /\ CallInv /\ CompletedIsStopped

\* Every caller's step leaves a row and a call of their types, whatever branch
\* of a transition it takes.
LEMMA MovedType ==
    ASSUME TypeOK, NEW to \in States
    PROVE  Moved(to) \in Ledger /\ Moved(to).state = to
BY DEF TypeOK, Ledger, Moved

LEMMA InitializeType ==
    ASSUME TypeOK, initializeCutover
    PROVE  ledger' \in Ledger /\ ledger'.state = "PREPARING"
<1>1. Moved("PREPARING") \in Ledger /\ Moved("PREPARING").state = "PREPARING"
  BY MovedType DEF States
<1>2. FALSE \in BOOLEAN
  OBVIOUS
<1> HIDE DEF Moved
<1> QED BY <1>1, <1>2 DEF initializeCutover, Ledger, NeverYet

LEMMA BegunType ==
    ASSUME TypeOK, NEW p \in Caller, NEW op \in Ops, NEW pc \in {"read", "checks", "reset", "door"},
           Begin(p, op, pc)
    PROVE  /\ call' \in [Caller -> Call]
           /\ call[p] = NoCall
           /\ call'[p].op = op /\ call'[p].pc = pc
BY DEF TypeOK, Begin, Call, NoCall, Lifecycle

LEMMA NoCallType == NoCall \in Call
BY DEF NoCall, Call, Ops, Lifecycle

LEMMA NoCallFields == NoCall.op = "none" /\ NoCall.pc = ""
BY DEF NoCall

\* Every variable keeps its type, for any number of callers at once.
THEOREM CutoverTypes == Spec => []TypeOK
<1>1. Init => TypeOK
  BY NoCallType DEF Init, TypeOK, Ledger, States, Lifecycle, NeverYet
<1>2. TypeOK /\ [Next]_vars => TypeOK'
  <2> SUFFICES ASSUME TypeOK, [Next]_vars PROVE TypeOK'
    OBVIOUS
  <2> USE NoCallType
  <2>1. CASE UNCHANGED vars
    BY <2>1 DEF vars, TypeOK
  <2>2. CASE Tick
    BY <2>2 DEF Tick, TypeOK
  <2>3. ASSUME NEW p \in Caller, Ready(p) PROVE TypeOK'
    <3>1. CASE StartCutover(p)
      <4>1. ledger' \in Ledger
        BY <3>1, InitializeType DEF StartCutover, TypeOK
      <4>2. call' \in [Caller -> Call]
        BY <3>1, BegunType DEF StartCutover, TypeOK, Ops
      <4> QED BY <3>1, <4>1, <4>2 DEF StartCutover, TypeOK
    <3>2. CASE VerifyCutover(p)
      BY <3>2 DEF VerifyCutover, Begin, TypeOK, Call, Ops, NoCall
    <3>3. CASE ApproveCutover(p)
      BY <3>3, MovedType DEF ApproveCutover, Save, TypeOK, States
    <3>4. CASE PrepareCutover(p)
      <4>1. ledger' \in Ledger
        BY <3>4, InitializeType DEF PrepareCutover, TypeOK
      <4>2. call' \in [Caller -> Call]
        BY <3>4, BegunType DEF PrepareCutover, Ops
      <4> QED BY <3>4, <4>1, <4>2 DEF PrepareCutover, TypeOK
    <3>5. CASE ResetLedger(p)
      BY <3>5, MovedType DEF ResetLedger, Transition, Save, Go, Return, TypeOK, Call, States
    <3>6. CASE PassChecks(p)
      BY <3>6, MovedType DEF PassChecks, Transition, Save, Go, Return, TypeOK, Call, States
    <3>7. CASE FailChecks(p)
      BY <3>7 DEF FailChecks, Go, TypeOK, Call
    <3>8. CASE RecordFailed(p)
      BY <3>8, MovedType DEF RecordFailed, Transition, Save, Return, TypeOK, States
    <3> QED BY <2>3, <3>1, <3>2, <3>3, <3>4, <3>5, <3>6, <3>7, <3>8 DEF Ready
  <2>4. ASSUME NEW p \in Caller, Switch(p) PROVE TypeOK'
    <3>1. ASSUME NEW op \in Steps, BeginStep(p, op) PROVE TypeOK'
      BY <3>1 DEF BeginStep, Begin, TypeOK, Call, Ops, NoCall, Steps
    <3>2. CASE ReadStatus(p)
      <4>1. CASE call' = [call EXCEPT ![p].pc = "map", ![p].seen = status]
        <5>1. [call[p] EXCEPT !.pc = "map", !.seen = status] \in Call
          BY DEF TypeOK, Call
        <5>2. call' = [call EXCEPT ![p] = [call[p] EXCEPT !.pc = "map", !.seen = status]]
          BY <4>1 DEF TypeOK, Call
        <5>3. call' \in [Caller -> Call]
          BY <5>1, <5>2 DEF TypeOK
        <5> QED BY <3>2, <5>3 DEF ReadStatus, TypeOK
      <4>2. CASE Return(p)
        BY <3>2, <4>2 DEF ReadStatus, Return, TypeOK
      <4> QED BY <3>2, <4>1, <4>2 DEF ReadStatus
    <3>3. CASE MoveMapping(p)
      <4>1. call[p].seen \in Lifecycle /\ call' \in [Caller -> Call]
        BY <3>3 DEF MoveMapping, Go, TypeOK, Call
      <4>2. StatusAfter(call[p].op, call[p].seen) \in Lifecycle
        BY <4>1 DEF StatusAfter, cutoverTransition, rollbackTransition, Lifecycle
      <4> QED BY <3>3, <4>1, <4>2 DEF MoveMapping, SetStatus, TypeOK
    <3>4. CASE MarkLedger(p)
      <4>1. Goal[call[p].op] \in States
        BY <3>4 DEF MarkLedger, In, Steps, Goal, States
      <4>2. Moved(Goal[call[p].op]) \in Ledger
        BY <4>1, MovedType
      <4>3. keepsCopyingThroughGrace(call[p].seen) \in BOOLEAN
        BY Zenon DEF keepsCopyingThroughGrace
      <4>4. [Moved(Goal[call[p].op]) EXCEPT !.copies = keepsCopyingThroughGrace(call[p].seen)] \in Ledger
        <5> DEFINE m == Moved(Goal[call[p].op])  b == keepsCopyingThroughGrace(call[p].seen)
        <5> HIDE DEF m, b
        <5>1. m \in Ledger /\ b \in BOOLEAN
          BY <4>2, <4>3 DEF m, b
        <5>2. [m EXCEPT !.copies = b] \in Ledger
          BY <5>1 DEF Ledger
        <5> QED BY <5>2 DEF m, b
      <4>5. ledger' \in Ledger
        BY <3>4, <4>2, <4>4 DEF MarkLedger, Transition, Save, TypeOK
      <4>6. call' \in [Caller -> Call]
        BY <3>4 DEF MarkLedger, Transition, Go, Return, TypeOK, Call
      <4>7. found' \in Lifecycle
        BY <3>4 DEF MarkLedger, Transition, TypeOK
      <4> QED BY <3>4, <4>5, <4>6, <4>7 DEF MarkLedger, TypeOK
    <3>5. CASE EnterGrace(p)
      BY <3>5 DEF EnterGrace, Transition, Save, Moved, Return, TypeOK, Ledger, States
    <3>6. CASE NotPropagated(p)
      BY <3>6, MovedType DEF NotPropagated, Transition, Save, Return, TypeOK, States
    <3> QED BY <2>4, <3>1, <3>2, <3>3, <3>4, <3>5, <3>6 DEF Switch
  <2>5. ASSUME NEW p \in Caller, Doors(p) PROVE TypeOK'
    <3>1. CASE StartMapping(p)
      BY <3>1 DEF StartMapping, Begin, TypeOK, Call, Ops, NoCall
    <3>2. CASE FinishMapping(p)
      BY <3>2 DEF FinishMapping, Begin, TypeOK, Call, Ops, NoCall
    <3>3. CASE ThroughDoor(p)
      BY <3>3 DEF ThroughDoor, SetStatus, Return, TypeOK, Lifecycle
    <3>4. ASSUME NEW to \in Lifecycle, UpdateStatus(p, to) PROVE TypeOK'
      BY <3>4 DEF UpdateStatus, SetStatus, TypeOK
    <3> QED BY <2>5, <3>1, <3>2, <3>3, <3>4 DEF Doors
  <2>6. ASSUME NEW p \in Caller, Die(p) PROVE TypeOK'
    BY <2>6 DEF Die, Return, TypeOK
  <2> QED BY <2>1, <2>2, <2>3, <2>4, <2>5, <2>6 DEF Next
<1> QED BY <1>1, <1>2, PTL DEF Spec

\* With one caller, the step of p is all that can disturb CallInv.
LEMMA OthersKeep ==
    ASSUME Solo, NEW p \in Caller, CallOK(p)'
    PROVE  CallInv'
BY DEF Solo, CallInv

LEMMA NoCallOK ==
    ASSUME NEW p \in Caller, TypeOK, Return(p)
    PROVE  CallOK(p)' /\ call'[p].op = "none"
BY DEF Return, CallOK, NoCall, TypeOK, Steps

\* A call that is at neither of the two records, and is no Start.
LEMMA ElsewhereOK ==
    ASSUME NEW p \in Caller,
           call'[p].pc \notin {"read", "map", "mark"}, call'[p].op # "Start"
    PROVE  CallOK(p)'
BY DEF CallOK

LEMMA IdleOK ==
    ASSUME NEW p \in Caller, call[p] = NoCall, UNCHANGED call
    PROVE  CallOK(p)'
<1>1. call'[p].pc = "" /\ call'[p].op = "none"
  BY NoCallFields
<1> QED BY <1>1, ElsewhereOK

\* The ledger's table: a completed cutover admits nothing.
LEMMA CompletedIsTerminal ==
    ASSUME NEW to PROVE ~isValidTransition("COMPLETED", to)
BY DEF isValidTransition, VALID_TRANSITIONS

\* What each step makes of the status it has seen.
LEMMA StatusAfterSide ==
    ASSUME NEW op \in Steps, NEW seen \in Lifecycle
    PROVE  /\ op # "rollback" => isAfterCutover(StatusAfter(op, seen))
           /\ op = "rollback" /\ seen # "done" => ~isAfterCutover(StatusAfter(op, seen))
           /\ op # "rollback" /\ StatusAfter(op, seen) # seen => ~isAfterCutover(seen)
BY DEF StatusAfter, cutoverTransition, rollbackTransition, isAfterCutover, Lifecycle

StepOK == Agree /\ StillStopped

\* A step that moves the ledger to none of the three states a step of both
\* records reaches, and leaves the mapping alone.
LEMMA LedgerOnly ==
    ASSUME CompletedIsStopped, UNCHANGED status,
           \/ UNCHANGED ledger
           \/ ledger'.state \notin {"COMPLETED", "CUTOVER_IN_PROGRESS", "ROLLED_BACK"}
    PROVE  CompletedIsStopped' /\ StepOK
BY DEF CompletedIsStopped, StepOK, Agree, StillStopped, EntersCutover

LEMMA ReadyAgrees ==
    ASSUME Solo, CutoverInv, NEW p \in Caller, Ready(p)
    PROVE  CallInv' /\ CompletedIsStopped' /\ StepOK
<1> USE DEF CutoverInv
<1>1. CallOK(p)
  BY DEF CallInv
<1>2. CASE StartCutover(p)
  <2>1. UNCHANGED ledger \/ ledger'.state = "PREPARING"
    BY <1>2, InitializeType DEF StartCutover
  <2>2. CallOK(p)'
    <3>1. CASE Begin(p, "start", "reset")
      BY <3>1, BegunType, ElsewhereOK DEF Ops
    <3>2. CASE UNCHANGED call /\ call[p] = NoCall
      BY <3>2, IdleOK
    <3> QED BY <1>2, <3>1, <3>2 DEF StartCutover
  <2> QED BY <1>2, <2>1, <2>2, LedgerOnly, OthersKeep DEF StartCutover
<1>3. CASE VerifyCutover(p)
  <2>1. CallOK(p)'
    BY <1>3, BegunType, ElsewhereOK DEF VerifyCutover, Ops
  <2> QED BY <1>3, <2>1, LedgerOnly, OthersKeep DEF VerifyCutover
<1>4. CASE ApproveCutover(p)
  <2>1. CallOK(p)'
    BY <1>4, IdleOK DEF ApproveCutover
  <2>2. ledger'.state = "APPROVED"
    BY <1>4, MovedType DEF ApproveCutover, Save, States
  <2> QED BY <1>4, <2>1, <2>2, LedgerOnly, OthersKeep DEF ApproveCutover
<1>5. CASE PrepareCutover(p)
  <2>1. UNCHANGED ledger \/ ledger'.state = "PREPARING"
    BY <1>5, InitializeType DEF PrepareCutover
  <2>2. CallOK(p)'
    BY <1>5, BegunType, ElsewhereOK DEF PrepareCutover, Ops
  <2> QED BY <1>5, <2>1, <2>2, LedgerOnly, OthersKeep DEF PrepareCutover
<1>6. CASE ResetLedger(p)
  <2>1. UNCHANGED ledger \/ ledger'.state = "PREPARING"
    BY <1>6, MovedType DEF ResetLedger, Transition, Save, States
  <2>2. CallOK(p)'
    <3>1. CASE Return(p)
      BY <3>1, NoCallOK
    <3>2. CASE Go(p, "checks") \/ Go(p, "fail")
      BY <1>6, <3>2, ElsewhereOK DEF ResetLedger, In, Go, TypeOK, Call
    <3> QED BY <1>6, <3>1, <3>2 DEF ResetLedger, Transition
  <2> QED BY <1>6, <2>1, <2>2, LedgerOnly, OthersKeep DEF ResetLedger
<1>7. CASE PassChecks(p)
  <2>1. UNCHANGED ledger \/ ledger'.state = "READY_FOR_CUTOVER"
    BY <1>7, MovedType DEF PassChecks, Transition, Save, States
  <2>2. CallOK(p)'
    <3>1. CASE Return(p)
      BY <3>1, NoCallOK
    <3>2. CASE Go(p, "fail")
      BY <1>7, <3>2, ElsewhereOK DEF PassChecks, In, Go, TypeOK, Call
    <3> QED BY <1>7, <3>1, <3>2 DEF PassChecks, Transition
  <2> QED BY <1>7, <2>1, <2>2, LedgerOnly, OthersKeep DEF PassChecks
<1>8. CASE FailChecks(p)
  <2>1. CallOK(p)'
    BY <1>8, ElsewhereOK DEF FailChecks, In, Go, TypeOK, Call
  <2> QED BY <1>8, <2>1, LedgerOnly, OthersKeep DEF FailChecks
<1>9. CASE RecordFailed(p)
  <2>1. UNCHANGED ledger \/ ledger'.state = "FAILED"
    BY <1>9, MovedType DEF RecordFailed, Transition, Save, States
  <2>2. CallOK(p)'
    BY <1>9, NoCallOK DEF RecordFailed, Transition
  <2> QED BY <1>9, <2>1, <2>2, LedgerOnly, OthersKeep DEF RecordFailed
<1> QED BY <1>2, <1>3, <1>4, <1>5, <1>6, <1>7, <1>8, <1>9 DEF Ready

LEMMA SwitchAgrees ==
    ASSUME Solo, CutoverInv, NEW p \in Caller, Switch(p)
    PROVE  CallInv' /\ CompletedIsStopped' /\ StepOK
<1> USE DEF CutoverInv
<1>1. CallOK(p)
  BY DEF CallInv
<1>2. call[p] \in Call /\ status \in Lifecycle
  BY DEF TypeOK
<1>3. ASSUME NEW op \in Steps, BeginStep(p, op) PROVE CallInv' /\ CompletedIsStopped' /\ StepOK
  <2>1. call'[p].op = op /\ call'[p].pc = "read"
    BY <1>3, BegunType DEF BeginStep, Ops, Steps
  <2>2. CallOK(p)'
    BY <1>3, <2>1 DEF BeginStep, CallOK, Steps
  <2> QED BY <1>3, <2>2, LedgerOnly, OthersKeep DEF BeginStep
<1>4. CASE ReadStatus(p)
  <2>1. CallOK(p)'
    <3>1. CASE Return(p)
      BY <3>1, NoCallOK
    <3>2. CASE ~Return(p)
      <4>1. call' = [call EXCEPT ![p].pc = "map", ![p].seen = status]
        BY <1>4, <3>2 DEF ReadStatus
      <4>2. call'[p].op = call[p].op /\ call'[p].pc = "map" /\ call'[p].seen = status
        BY <4>1, <1>2 DEF TypeOK, Call
      <4>3. call[p].op \in Steps /\ call[p].pc = "read" /\ UNCHANGED <<ledger, status>>
        BY <1>4 DEF ReadStatus, In
      <4>4. call[p].op = "rollback" => status # "done"
        BY <1>4, <3>2 DEF ReadStatus, rollbackRefused
      <4> QED BY <1>1, <4>2, <4>3, <4>4 DEF CallOK, Steps
    <3> QED BY <3>1, <3>2
  <2> QED BY <1>4, <2>1, LedgerOnly, OthersKeep DEF ReadStatus
<1>5. CASE MoveMapping(p)
  <2>1. /\ call'[p].op = call[p].op /\ call'[p].pc = "mark" /\ call'[p].seen = call[p].seen
        /\ call[p].op \in Steps /\ call[p].pc = "map" /\ call[p].seen \in Lifecycle /\ UNCHANGED ledger
    BY <1>5, <1>2 DEF MoveMapping, In, Go, TypeOK, Call
  <2>2. call[p].seen = status /\ (call[p].op = "rollback" => status # "done")
    BY <1>1, <2>1 DEF CallOK
  <2>3. status' = StatusAfter(call[p].op, call[p].seen)
    BY <1>5, <2>2 DEF MoveMapping, SetStatus
  <2>4. isValidTransition(ledger.state, Goal[call[p].op])
    BY <1>1, <2>1 DEF CallOK
  <2>8. call[p].op = "execute" /\ call[p].seen = "active" => found' = "active"
    BY <1>5, <2>2 DEF MoveMapping, StatusAfter, cutoverTransition
  <2>5. CallOK(p)'
    BY <2>1, <2>2, <2>3, <2>4, <2>8 DEF CallOK, Steps
  <2>6. CompletedIsStopped'
    BY <2>1, <2>4, CompletedIsTerminal DEF CompletedIsStopped
  <2>7. StepOK
    BY <2>1, <2>2, <2>3, StatusAfterSide DEF StepOK, Agree, StillStopped, EntersCutover
  <2> QED BY <2>5, <2>6, <2>7, OthersKeep
<1>6. CASE MarkLedger(p)
  <2>1. call[p].op \in Steps /\ call[p].pc = "mark" /\ call[p].seen \in Lifecycle /\ UNCHANGED status
    BY <1>6, <1>2 DEF MarkLedger, In, Call
  <2>2. /\ status = StatusAfter(call[p].op, call[p].seen)
        /\ call[p].op = "rollback" => call[p].seen # "done"
        /\ isValidTransition(ledger.state, Goal[call[p].op])
    BY <1>1, <2>1 DEF CallOK
  <2>3. ledger'.state = Goal[call[p].op]
    <3>1. Goal[call[p].op] \in States
      BY <2>1 DEF Steps, Goal, States
    <3>2. Moved(Goal[call[p].op]) \in Ledger /\ Moved(Goal[call[p].op]).state = Goal[call[p].op]
      BY <3>1, MovedType
    <3> DEFINE m == Moved(Goal[call[p].op])
               r == [m EXCEPT !.copies = keepsCopyingThroughGrace(call[p].seen)]
    <3>3. ledger' = m \/ ledger' = r
      BY <1>6, <2>2 DEF MarkLedger, Transition, Save
    <3> HIDE DEF m
    <3>4. r.state = m.state
      BY <3>2 DEF Ledger, m
    <3> QED BY <3>2, <3>3, <3>4 DEF m
  <2>4. CallOK(p)'
    <3>1. CASE Return(p)
      BY <3>1, NoCallOK
    <3>2. CASE Go(p, "wait")
      BY <2>1, <3>2, ElsewhereOK DEF Go, TypeOK, Call, Steps
    <3> QED BY <1>6, <3>1, <3>2 DEF MarkLedger, Transition
  <2>5. /\ call[p].op = "rollback" => ledger'.state = "ROLLED_BACK" /\ ~isAfterCutover(status)
        /\ call[p].op # "rollback"
              => /\ ledger'.state \in {"CUTOVER_IN_PROGRESS", "COMPLETED"}
                 /\ isAfterCutover(status)
    BY <2>1, <2>2, <2>3, StatusAfterSide DEF Goal, Steps
  <2>6. CompletedIsStopped' /\ Agree
    BY <2>1, <2>5 DEF CompletedIsStopped, Agree, EntersCutover
  <2>7. StillStopped
    <3> SUFFICES ASSUME EntersCutover, ledger'.copies PROVE found = "active"
      BY DEF StillStopped
    <3>1. call[p].op = "execute"
      BY <2>1, <2>3 DEF EntersCutover, Goal, Steps
    <3>2. call[p].seen = "active"
      <4> DEFINE m == Moved(Goal[call[p].op])
      <4>1. ledger' = [m EXCEPT !.copies = keepsCopyingThroughGrace(call[p].seen)]
        BY <1>6, <2>2, <3>1 DEF MarkLedger, Transition, Save
      <4>2. m \in Ledger
        BY <3>1, MovedType DEF Goal, States
      <4> HIDE DEF m
      <4>3. ledger'.copies = keepsCopyingThroughGrace(call[p].seen)
        BY <4>1, <4>2 DEF Ledger
      <4> QED BY <4>3, Zenon DEF keepsCopyingThroughGrace
    <3> QED BY <1>1, <2>1, <3>1, <3>2 DEF CallOK
  <2> QED BY <2>4, <2>6, <2>7, OthersKeep DEF StepOK
<1>7. CASE EnterGrace(p)
  <2>1. UNCHANGED ledger \/ ledger'.state = "GRACE_PERIOD"
    BY <1>7 DEF EnterGrace, Transition, Save, Moved, TypeOK, Ledger
  <2>2. CallOK(p)'
    BY <1>7, NoCallOK DEF EnterGrace, Transition
  <2> QED BY <1>7, <2>1, <2>2, LedgerOnly, OthersKeep DEF EnterGrace
<1>8. CASE NotPropagated(p)
  <2>1. UNCHANGED ledger \/ ledger'.state = "FAILED"
    BY <1>8, MovedType DEF NotPropagated, Transition, Save, States
  <2>2. CallOK(p)'
    BY <1>8, NoCallOK DEF NotPropagated, Transition
  <2> QED BY <1>8, <2>1, <2>2, LedgerOnly, OthersKeep DEF NotPropagated
<1> QED BY <1>3, <1>4, <1>5, <1>6, <1>7, <1>8 DEF Switch

LEMMA DoorsAgree ==
    ASSUME Solo, CutoverInv, NEW p \in Caller, Doors(p)
    PROVE  CallInv' /\ CompletedIsStopped' /\ StepOK
<1> USE DEF CutoverInv
<1>1. CallOK(p)
  BY DEF CallInv
<1>2. CASE StartMapping(p)
  <2>1. call'[p].op = "Start" /\ call'[p].pc = "door"
    BY <1>2, BegunType DEF StartMapping, Ops
  <2>2. CallOK(p)'
    BY <1>2, <2>1 DEF StartMapping, CallOK, Steps
  <2> QED BY <1>2, <2>2, LedgerOnly, OthersKeep DEF StartMapping
<1>3. CASE FinishMapping(p)
  <2>1. CallOK(p)'
    BY <1>3, BegunType, ElsewhereOK DEF FinishMapping, Ops
  <2> QED BY <1>3, <2>1, LedgerOnly, OthersKeep DEF FinishMapping
<1>4. CASE ThroughDoor(p)
  <2>1. CallOK(p)'
    BY <1>4, NoCallOK DEF ThroughDoor
  <2>2. isAfterCutover(status) => isAfterCutover(status')
    BY <1>1, <1>4 DEF ThroughDoor, In, SetStatus, CallOK, isAfterCutover
  <2> QED BY <1>4, <2>1, <2>2, OthersKeep
          DEF ThroughDoor, CompletedIsStopped, StepOK, Agree, StillStopped, EntersCutover
<1>5. ASSUME NEW to \in Lifecycle, UpdateStatus(p, to) PROVE CallInv' /\ CompletedIsStopped' /\ StepOK
  <2>1. CallOK(p)'
    BY <1>5, IdleOK DEF UpdateStatus
  <2>2. isAfterCutover(status) => isAfterCutover(status')
    BY <1>5 DEF UpdateStatus, SetStatus, updateTransition, isAfterCutover
  <2> QED BY <1>5, <2>1, <2>2, OthersKeep
          DEF UpdateStatus, CompletedIsStopped, StepOK, Agree, StillStopped, EntersCutover
<1> QED BY <1>2, <1>3, <1>4, <1>5 DEF Doors

LEMMA InitAgrees == Init => CallInv /\ CompletedIsStopped
<1> SUFFICES ASSUME Init PROVE CallInv /\ CompletedIsStopped
  OBVIOUS
<1>1. ASSUME NEW p \in Caller PROVE CallOK(p)
  <2>1. call[p] = NoCall
    BY <1>1 DEF Init
  <2>2. call[p].op = "none" /\ call[p].pc = ""
    BY <2>1, NoCallFields
  <2> QED BY <2>2 DEF CallOK
<1>2. CompletedIsStopped
  BY DEF Init, CompletedIsStopped
<1> QED BY <1>1, <1>2 DEF CallInv

LEMMA StepAgrees ==
    ASSUME Solo, CutoverInv, [Next]_vars
    PROVE  CallInv' /\ CompletedIsStopped' /\ StepOK
<1> USE DEF CutoverInv
<1>1. CASE UNCHANGED <<ledger, status, found, call>>
  <2>1. CallInv'
    BY <1>1 DEF CallInv, CallOK
  <2> QED BY <1>1, <2>1, LedgerOnly
<1>2. ASSUME NEW p \in Caller, Die(p) PROVE CallInv' /\ CompletedIsStopped' /\ StepOK
  BY <1>2, NoCallOK, LedgerOnly, OthersKeep DEF Die
<1> QED BY <1>1, <1>2, ReadyAgrees, SwitchAgrees, DoorsAgree DEF Next, Tick, vars

\* A caller at a time, a completed cutover is behind a migration that left the
\* source's authority, for any number of crashes between the two writes.
THEOREM CompletedStopped == ASSUME Solo PROVE Spec => []CompletedIsStopped
<1>1. CutoverInv /\ [Next]_vars => CallInv' /\ CompletedIsStopped'
  BY StepAgrees
<1> QED BY InitAgrees, <1>1, CutoverTypes, PTL DEF Spec, CutoverInv

\* A caller at a time, the ledger enters CUTOVER_IN_PROGRESS and ROLLED_BACK
\* only beside the status they stand for, and only a rollback returns the
\* source's authority.
THEOREM RecordsAlwaysAgree == ASSUME Solo PROVE Spec => RecordsAgree
<1>1. CutoverInv /\ [Next]_vars => CallInv' /\ CompletedIsStopped' /\ [Agree]_vars
  BY StepAgrees DEF StepOK
<1> QED BY InitAgrees, <1>1, CutoverTypes, PTL DEF Spec, CutoverInv, RecordsAgree

\* A caller at a time, a migration that was stopped is not copied again by the
\* cutover, whatever an earlier attempt left on the row.
THEOREM StoppedIsKept == ASSUME Solo PROVE Spec => StoppedStaysStopped
<1>1. CutoverInv /\ [Next]_vars => CallInv' /\ CompletedIsStopped' /\ [StillStopped]_vars
  BY StepAgrees DEF StepOK
<1> QED BY InitAgrees, <1>1, CutoverTypes, PTL DEF Spec, CutoverInv, StoppedStaysStopped

\* A step writes one of the two records, and a completed ledger is final.
LEMMA OneRecordAtATime ==
    ASSUME [Next]_vars
    PROVE  /\ ledger' = ledger \/ status' = status
           /\ ledger.state = "COMPLETED" => ledger' = ledger
<1> USE DEF Transition, isValidTransition, VALID_TRANSITIONS, Save, SetStatus
<1>1. CASE UNCHANGED <<ledger, status>>
  BY <1>1
<1>2. ASSUME NEW p \in Caller, Ready(p)
      PROVE  status' = status /\ (ledger.state = "COMPLETED" => ledger' = ledger)
  BY <1>2 DEF Ready, StartCutover, VerifyCutover, ApproveCutover, PrepareCutover, ResetLedger,
              PassChecks, FailChecks, RecordFailed
<1>3. ASSUME NEW p \in Caller, MarkLedger(p) \/ EnterGrace(p) \/ NotPropagated(p)
      PROVE  status' = status /\ (ledger.state = "COMPLETED" => ledger' = ledger)
  BY <1>3 DEF MarkLedger, EnterGrace, NotPropagated
<1>4. ASSUME NEW p \in Caller, (\E op \in Steps : BeginStep(p, op)) \/ ReadStatus(p) \/ MoveMapping(p)
      PROVE  ledger' = ledger
  BY <1>4 DEF BeginStep, ReadStatus, MoveMapping
<1>5. ASSUME NEW p \in Caller, Doors(p) \/ Die(p) PROVE ledger' = ledger
  BY <1>5 DEF Doors, StartMapping, FinishMapping, ThroughDoor, UpdateStatus, Die
<1>6. CASE Tick \/ UNCHANGED vars
  BY <1>1, <1>6 DEF Tick, vars
<1> QED BY <1>2, <1>3, <1>4, <1>5, <1>6 DEF Next, Switch

\* A caller at a time, the two records implement one authority: it is handed over,
\* may be taken back, and not once the cutover is completed.
THEOREM AuthorityKept == ASSUME Solo PROVE Spec => OneAuthority
<1> DEFINE side == IF isAfterCutover(status) THEN "target" ELSE "source"
           closed == ledger.state = "COMPLETED"
<1>1. Init => Decides!Init
  BY DEF Init, Decides!Init, isAfterCutover
<1>2. CutoverInv /\ [Next]_vars => CallInv' /\ CompletedIsStopped'
  BY StepAgrees
<1>3. CompletedIsStopped' /\ [Next]_vars
      => [Decides!HandOver \/ Decides!TakeBack \/ Decides!Close]_<<side, closed>>
  <2> SUFFICES ASSUME CompletedIsStopped', [Next]_vars, ~UNCHANGED <<side, closed>>
               PROVE  Decides!HandOver \/ Decides!TakeBack \/ Decides!Close
    OBVIOUS
  <2>1. CASE status' = status
    <3>1. ledger.state # "COMPLETED" /\ ledger'.state = "COMPLETED"
      BY <2>1, OneRecordAtATime DEF isAfterCutover
    <3>2. isAfterCutover(status) /\ isAfterCutover(status')
      BY <2>1, <3>1 DEF CompletedIsStopped
    <3> QED BY <3>1, <3>2 DEF Decides!Close
  <2>2. CASE ledger' = ledger
    <3>1. CASE isAfterCutover(status)
      <4>1. ~isAfterCutover(status')
        BY <2>2, <3>1
      <4>2. ledger.state # "COMPLETED"
        BY <2>2, <4>1 DEF CompletedIsStopped
      <4> QED BY <2>2, <3>1, <4>1, <4>2 DEF Decides!TakeBack
    <3>2. CASE ~isAfterCutover(status)
      <4>1. isAfterCutover(status')
        BY <2>2, <3>2
      <4> QED BY <2>2, <3>2, <4>1 DEF Decides!HandOver
    <3> QED BY <3>1, <3>2
  <2> QED BY <2>1, <2>2, OneRecordAtATime
<1> QED BY InitAgrees, <1>1, <1>2, <1>3, CutoverTypes, PTL
        DEF Spec, CutoverInv, OneAuthority, Decides!Spec

\* What makes a grace period whole: the row is stamped when it is entered.
GraceInv ==
    /\ now > 0
    /\ ledger.state = "GRACE_PERIOD" => ledger.graceAt = ledger.entered /\ ledger.graceAt > 0

\* A row that is not put in its grace period has nothing to keep.
LEMMA NotInGrace ==
    ASSUME GraceInv, UNCHANGED now, UNCHANGED ledger \/ ledger'.state # "GRACE_PERIOD"
    PROVE  GraceInv'
BY DEF GraceInv

\* Every caller, any number at once: a grace period is a whole one.
THEOREM GraceIsWhole == Spec => []WholeGracePeriod
<1>1. Init => GraceInv
  BY DEF Init, GraceInv
<1>2. TypeOK /\ GraceInv /\ [Next]_vars => GraceInv'
  <2> SUFFICES ASSUME TypeOK, GraceInv, [Next]_vars PROVE GraceInv'
    OBVIOUS
  <2>1. CASE UNCHANGED vars
    BY <2>1 DEF vars, GraceInv
  <2>2. CASE Tick
    BY <2>2 DEF Tick, GraceInv, TypeOK
  <2>3. ASSUME NEW p \in Caller, Ready(p) PROVE GraceInv'
    <3>1. UNCHANGED ledger \/ initializeCutover
             \/ \E to \in {"PREPARING", "APPROVED", "READY_FOR_CUTOVER", "FAILED"} : ledger' = Moved(to)
      BY <2>3 DEF Ready, StartCutover, VerifyCutover, ApproveCutover, PrepareCutover, ResetLedger,
                  PassChecks, FailChecks, RecordFailed, Transition, Save
    <3>2. UNCHANGED ledger \/ ledger'.state # "GRACE_PERIOD"
      BY <3>1, InitializeType, MovedType DEF States
    <3>3. UNCHANGED now
      BY <2>3 DEF Ready, StartCutover, VerifyCutover, ApproveCutover, PrepareCutover, ResetLedger,
                  PassChecks, FailChecks, RecordFailed
    <3> QED BY <3>2, <3>3, NotInGrace
  <2>4. ASSUME NEW p \in Caller, Switch(p) PROVE GraceInv'
    <3>1. ASSUME NEW op \in Steps, BeginStep(p, op) PROVE GraceInv'
      BY <3>1, NotInGrace DEF BeginStep
    <3>2. CASE ReadStatus(p) \/ MoveMapping(p)
      BY <3>2, NotInGrace DEF ReadStatus, MoveMapping
    <3>3. CASE MarkLedger(p)
      <4> DEFINE g == Goal[call[p].op]
                 m == Moved(g)
                 r == [m EXCEPT !.copies = keepsCopyingThroughGrace(call[p].seen)]
      <4>1. UNCHANGED ledger \/ ledger' = m \/ ledger' = r
        BY <3>3 DEF MarkLedger, Transition, Save
      <4>2. g \in States /\ g # "GRACE_PERIOD"
        BY <3>3 DEF MarkLedger, In, Steps, Goal, States
      <4>3. m \in Ledger /\ m.state = g
        BY <4>2, MovedType
      <4> HIDE DEF m, g
      <4>4. r.state = m.state
        BY <4>3 DEF Ledger
      <4>5. UNCHANGED ledger \/ ledger'.state # "GRACE_PERIOD"
        BY <4>1, <4>2, <4>3, <4>4
      <4> QED BY <3>3, <4>5, NotInGrace DEF MarkLedger
    <3>4. CASE EnterGrace(p)
      <4>1. UNCHANGED ledger \/ (ledger'.graceAt = now /\ ledger'.entered = now)
        <5> DEFINE m == Moved("GRACE_PERIOD")
        <5>1. UNCHANGED ledger \/ ledger' = [m EXCEPT !.graceAt = now]
          BY <3>4 DEF EnterGrace, Transition, Save
        <5>2. m \in Ledger
          BY MovedType DEF States
        <5>3. m.entered = now
          BY DEF Moved, TypeOK, Ledger
        <5> HIDE DEF m
        <5> QED BY <5>1, <5>2, <5>3 DEF Ledger
      <4> QED BY <3>4, <4>1 DEF EnterGrace, GraceInv
    <3>5. CASE NotPropagated(p)
      BY <3>5, MovedType, NotInGrace DEF NotPropagated, Transition, Save, States
    <3> QED BY <2>4, <3>1, <3>2, <3>3, <3>4, <3>5 DEF Switch
  <2>5. ASSUME NEW p \in Caller, Doors(p) \/ Die(p) PROVE GraceInv'
    BY <2>5, NotInGrace DEF Doors, StartMapping, FinishMapping, ThroughDoor, UpdateStatus, Die
  <2> QED BY <2>1, <2>2, <2>3, <2>4, <2>5 DEF Next
<1>3. GraceInv => WholeGracePeriod
  BY DEF GraceInv, WholeGracePeriod, runsPassesNow, cutoverStillCopies, NeverYet
<1> QED BY <1>1, <1>2, <1>3, CutoverTypes, PTL DEF Spec
=============================================================================
