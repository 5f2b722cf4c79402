--------------------------- MODULE RemovalProofs ---------------------------
(***************************************************************************)
(* What a pass may do to the rows and the copies it does not bring over:   *)
(* answers, late passes, and removals.  For every set of items and         *)
(* collections and any number of changes, passes, faults and cutovers,     *)
(* except where a theorem names what it assumes.                           *)
(***************************************************************************)
EXTENDS CursorProofs

-----------------------------------------------------------------------------
(* An item in hand.                                                         *)

\* Only a pass among its items has any in hand; a pass that began after the
\* cutover has none to rewrite, and collects no removals.
HandInv ==
    /\ \A k \in Key : work[k].st # "out" => pass.pc = "items"
    /\ ~pass.authority =>
          /\ pass.removals = {}
          /\ \A k \in Key : work[k].st = "write" => ~work[k].rewrite

\* No answered item is being written.
AnswerInv == \A k \in Key : work[k].st = "write" => row[k].status # "left_behind"

LEMMA OutFields == Out.st = "out" /\ Out.ref = NoRef /\ Out \in Work
  BY IdleTypes DEF Out

LEMMA InitHand == Init => HandInv /\ AnswerInv
  <1> SUFFICES ASSUME Init PROVE HandInv /\ AnswerInv
    OBVIOUS
  <1>1. pass = Idle /\ work = Unlisted
    BY DEF Init
  <1>2. \A k \in Key : work[k].st = "out"
    BY <1>1, IdleFields
  <1>3. pass.removals = {}
    BY <1>1 DEF Idle
  <1>4. QED
    BY <1>2, <1>3 DEF HandInv, AnswerInv

\* What a step of an item makes of the pass, of that item and of the others.
LEMMA LookStep ==
  ASSUME TypeOK, NEW k \in Key, LookItem(k)
  PROVE  /\ pass.pc = "items" /\ work[k].st = "listed"
         /\ pass' = [pass EXCEPT !.seen = @ \cup {k}]
         /\ \A j \in Key : j # k => row'[j] = row[j] /\ work'[j] = work[j]
         /\ row'[k].status = row[k].status /\ row'[k].ref = row[k].ref /\ row'[k].coll = row[k].coll
         /\ row'[k].reported => row[k].reported
         /\ \/ work'[k] = Out
            \/ /\ work'[k].st = "write" /\ work'[k].ref = work[k].ref /\ work'[k].ver = work[k].ver
               /\ row[k].status # "left_behind" /\ (work'[k].rewrite => pass.authority)
         /\ UNCHANGED <<sourceVars, copy, cursor, phase>>
  <1> DEFINE act == classifyKnownItem(row[k], work[k].ver, pass.cur)
             l == Looked(row[k], act, work[k].ver, pass.cur)
             w == [work[k] EXCEPT !.st = "write", !.rewrite = (act = "rewrite"), !.bytes = Fetched(k)]
  <1>1. row[k] \in Row /\ work[k] \in Work
    BY DEF TypeOK
  <1>2. /\ pass.pc = "items" /\ work[k].st = "listed" /\ pass' = [pass EXCEPT !.seen = @ \cup {k}]
        /\ UNCHANGED <<sourceVars, copy, cursor, phase>>
    BY DEF LookItem, At
  <1>3. row' = row \/ row' = [row EXCEPT ![k] = l]
    BY DEF LookItem
  <1>4. /\ l.status = row[k].status /\ l.ref = row[k].ref /\ l.coll = row[k].coll
        /\ l.reported = FALSE
    BY <1>1 DEF Looked, clearAbsent, recordMove, clearMove, Row
  <1>5. work' = [work EXCEPT ![k] = IF writes(act, pass.authority) THEN w ELSE Out]
    BY DEF LookItem
  <1>6. /\ w.st = "write" /\ w.ref = work[k].ref /\ w.ver = work[k].ver
        /\ w.rewrite = (act = "rewrite")
    BY <1>1 DEF Work
  <1>7. writes(act, pass.authority) =>
           row[k].status # "left_behind" /\ (act = "rewrite" => pass.authority)
    <2>1. row[k].status = "left_behind" => act = "left-behind"
      BY DEF classifyKnownItem, isOnTarget
    <2> HIDE DEF act
    <2>2. QED
      BY <2>1 DEF writes
  <1> HIDE DEF act, l, w
  <1>8. /\ \A j \in Key : j # k => row'[j] = row[j] /\ work'[j] = work[j]
        /\ row'[k] = row[k] \/ row'[k] = l
        /\ work'[k] = IF writes(act, pass.authority) THEN w ELSE Out
    BY <1>3, <1>5 DEF TypeOK
  <1>9. work'[k] = Out \/ (work'[k] = w /\ writes(act, pass.authority))
    BY <1>8
  <1>10. QED
    BY <1>2, <1>4, <1>6, <1>7, <1>8, <1>9

\* A failure, whatever its cause.
LEMMA FailedStep ==
  ASSUME TypeOK, NEW k \in Key, NEW park \in BOOLEAN, Failed(k, park)
  PROVE  /\ \A j \in Key : j # k => row'[j] = row[j] /\ work'[j] = work[j]
         /\ row'[k].ref = work[k].ref /\ row'[k].coll = pass.cur
         /\ row'[k].status = "failed" /\ row'[k].reported = row[k].reported
         /\ work'[k] = Out
         /\ \E b \in BOOLEAN : pass' = [pass EXCEPT !.retryable = b]
         /\ UNCHANGED <<sourceVars, cursor, phase>>
  <1> DEFINE r == recordFailure(row[k], park, work[k].ref, pass.cur)
             b == pass.retryable \/ ~needsDecision(r)
  <1>1. row[k] \in Row
    BY DEF TypeOK
  <1>2. r.ref = work[k].ref /\ r.coll = pass.cur /\ r.status = "failed" /\ r.reported = row[k].reported
    BY <1>1 DEF recordFailure, Row
  <1>3. /\ row' = [row EXCEPT ![k] = r] /\ work' = [work EXCEPT ![k] = Out]
        /\ pass' = [pass EXCEPT !.retryable = b] /\ UNCHANGED <<sourceVars, cursor, phase>>
    BY DEF Failed
  <1>4. b \in BOOLEAN
    OBVIOUS
  <1> HIDE DEF r, b
  <1>5. QED
    BY <1>2, <1>3, <1>4 DEF TypeOK

LEMMA RecordStep ==
  ASSUME TypeOK, NEW k \in Key, RecordItem(k)
  PROVE  /\ pass.pc = "items" /\ work[k].st = "record"
         /\ \A j \in Key : j # k => row'[j] = row[j] /\ work'[j] = work[j]
         /\ \/ row'[k].ref = work[k].ref /\ row'[k].coll = pass.cur
            \/ row'[k].ref = row[k].ref /\ row'[k].coll = row[k].coll
         /\ row'[k].reported = row[k].reported /\ row'[k].status # "failed"
         /\ work'[k] = Out
         /\ UNCHANGED <<sourceVars, copy, cursor, phase, pass>>
  <1> DEFINE r == Recorded(row[k], work[k], pass.cur)
  <1>1. row[k] \in Row
    BY DEF TypeOK
  <1>2. CASE work[k].res = "conflicted"
    BY <1>1, <1>2 DEF RecordItem, At, Recorded, Row, TypeOK
  <1>3. CASE work[k].res # "conflicted"
    <2>1. /\ r.ref = work[k].ref /\ r.coll = pass.cur /\ r.reported = row[k].reported
          /\ r.status \in {"copied", "adopted", "updated"}
      BY <1>1, <1>3 DEF Recorded, Row
    <2>2. /\ row' = [row EXCEPT ![k] = r] /\ work' = [work EXCEPT ![k] = Out]
          /\ pass.pc = "items" /\ work[k].st = "record"
          /\ UNCHANGED <<sourceVars, copy, cursor, phase, pass>>
      BY DEF RecordItem, At
    <2> HIDE DEF r
    <2>3. QED
      BY <2>1, <2>2 DEF TypeOK
  <1>4. QED
    BY <1>2, <1>3

LEMMA PutStep ==
  ASSUME TypeOK, NEW k \in Key, PutItem(k) \/ PutItemTwice(k)
  PROVE  /\ pass.pc = "items" /\ work[k].st = "write"
         /\ copy' = [copy EXCEPT ![k][pass.cur] = Put(k).copy]
         /\ \A j \in Key : j # k => work'[j] = work[j]
         /\ work'[k].st = "record" /\ work'[k].ref = work[k].ref /\ work'[k].ver = work[k].ver
         /\ UNCHANGED <<sourceVars, row, cursor, phase, pass>>
  <1>1. work[k] \in Work
    BY DEF TypeOK
  <1>2. PICK res : work' = [work EXCEPT ![k].st = "record", ![k].res = res]
    BY DEF PutItem, PutItemTwice
  <1>3. QED
    BY <1>1, <1>2 DEF PutItem, PutItemTwice, At, TypeOK, Work

-----------------------------------------------------------------------------
(* A step of the pass between its items, field by field.                    *)

SourceStill == UNCHANGED <<clock, at, ver, href, dead>>

LEMMA OpenStep ==
  ASSUME TypeOK, NEW c \in Collection, NEW items \in SUBSET Key, NEW removed \in SUBSET Removal,
         Open(c, items, removed)
  PROVE  /\ pass.pc = "folders" /\ c \in pass.todo /\ pass'.pc = "items"
         /\ pass'.todo = pass.todo \ {c} /\ pass'.cur = c /\ pass'.next = clock
         /\ pass'.began = pass.began /\ pass'.authority = pass.authority
         /\ pass'.stores = pass.stores /\ pass'.unfinished = pass.unfinished
         /\ pass'.seen = pass.seen /\ pass'.held = pass.held
         /\ pass'.removedHere <=> (pass.authority /\ removed # {})
         /\ pass'.removals = IF pass.authority THEN pass.removals \cup removed ELSE pass.removals
         /\ \A k \in items : work'[k].st = "listed" /\ work'[k].ref = href[k]
         /\ \A k \in Key \ items : work'[k] = Out
         /\ SourceStill /\ UNCHANGED <<copy, row, cursor, phase>>
  BY DEF Open, TypeOK, Pass, Out, sourceVars, SourceStill

\* A listing is in full from its cursor, or an unseeing first read.
LEMMA Opens ==
  ASSUME TypeOK, NEW c \in Collection, OpenFolder(c) \/ OpenUnseeing(c)
  PROVE  \E items \in SUBSET Key, removed \in SUBSET Removal :
            /\ Open(c, items, removed)
            /\ \/ items = listSince(c) /\ removed = removedSince(c)
               \/ items = {} /\ removed = {} /\ prevCursor(c) = NoCursor
  <1>1. {} \in SUBSET Key /\ {} \in SUBSET Removal
        /\ listSince(c) \in SUBSET Key /\ removedSince(c) \in SUBSET Removal
    BY DEF listSince, removedSince, TypeOK
  <1>2. QED
    BY <1>1 DEF OpenFolder, OpenUnseeing

LEMMA StartStep ==
  ASSUME TypeOK, StartPass
  PROVE  /\ pass.pc = "idle" /\ pass'.pc = "folders" /\ pass'.todo = Collection
         /\ pass'.began = clock /\ pass'.authority = isAuthority /\ pass'.unfinished = {}
         /\ pass'.seen = {} /\ pass'.removals = {} /\ \A c \in Collection : pass'.held[c] = 0
         /\ SourceStill /\ UNCHANGED <<copy, row, cursor, phase, work>>
  BY DEF StartPass, Idle, NoCursor, sourceVars, SourceStill

LEMMA CloseStep ==
  ASSUME TypeOK, CloseFolder
  PROVE  /\ pass.pc = "items" /\ pass'.pc = "folders" /\ pass.cur \in Collection
         /\ pass'.todo = pass.todo /\ pass'.began = pass.began
         /\ pass'.authority = pass.authority /\ pass'.stores = pass.stores
         /\ pass'.unfinished = pass.unfinished
         /\ pass'.seen = pass.seen /\ pass'.removals = pass.removals
         /\ pass'.held = IF mayMoveCursor(pass) /\ pass.removedHere
                         THEN [pass.held EXCEPT ![pass.cur] = pass.next] ELSE pass.held
         /\ cursor' = IF mayMoveCursor(pass) /\ ~pass.removedHere
                      THEN [cursor EXCEPT ![pass.cur] = pass.next] ELSE cursor
         /\ \A k \in Key : work[k].st = "out"
         /\ SourceStill /\ UNCHANGED <<copy, row, phase, work>>
  BY DEF CloseFolder, setCursor, TypeOK, Pass, Unlisted, Out, sourceVars, SourceStill

\* A collection left for the next pass.
LEMMA LeaveStep ==
  ASSUME TypeOK, NEW c \in Collection, SkipFolder(c) \/ UnreadFolder(c)
  PROVE  /\ pass.pc = "folders" /\ pass'.pc = "folders"
         /\ pass'.todo = pass.todo \ {c} /\ pass'.unfinished = pass.unfinished \cup {c}
         /\ pass'.began = pass.began /\ pass'.authority = pass.authority
         /\ pass'.stores = pass.stores /\ pass'.seen = pass.seen
         /\ pass'.removals = pass.removals /\ pass'.held = pass.held
         /\ SourceStill /\ UNCHANGED <<copy, row, cursor, phase, work>>
  BY DEF SkipFolder, UnreadFolder, TypeOK, Pass, sourceVars, SourceStill

\* Every collection is behind the pass, or a removal recorded, or a cursor saved.
LEMMA ConcludeStep ==
  ASSUME TypeOK, ConcludePass, pass' # Idle
  PROVE  /\ pass.pc = "folders" /\ pass'.pc = "resolve" /\ pass.todo = {} /\ pass.unfinished = {}
         /\ pass'.todo = pass.todo /\ pass'.unfinished = pass.unfinished
         /\ pass'.began = pass.began /\ pass'.authority = pass.authority
         /\ pass'.stores = pass.stores /\ pass'.seen = pass.seen
         /\ pass'.removals = (IF pass.authority /\ isAuthority THEN pass.removals ELSE {})
         /\ pass'.held = pass.held
         /\ SourceStill /\ UNCHANGED <<copy, row, cursor, phase, work>>
  BY DEF ConcludePass, TypeOK, Pass, sourceVars, SourceStill

LEMMA ResolveStep ==
  ASSUME TypeOK, NEW d \in pass.removals, ResolveRemoval(d)
  PROVE  /\ pass.pc = "resolve" /\ pass'.pc = "resolve"
         /\ pass'.todo = pass.todo /\ pass'.unfinished = pass.unfinished
         /\ pass'.began = pass.began /\ pass'.authority = pass.authority
         /\ pass'.stores = pass.stores /\ pass'.seen = pass.seen
         /\ pass'.removals = pass.removals \ {d} /\ pass'.held = pass.held
         /\ \A k \in Key :
               /\ row'[k].ref = row[k].ref /\ row'[k].coll = row[k].coll
               /\ row'[k].status = row[k].status
               /\ row'[k].reported <=> \/ row[k].reported
                                       \/ row[k].ref = d.ref /\ isOnTarget(row[k]) /\ k \notin pass.seen
         /\ SourceStill /\ UNCHANGED <<copy, cursor, phase, work>>
  BY DEF ResolveRemoval, resolves, recordReportedDeletion, TypeOK, Pass, Row, sourceVars, SourceStill

LEMMA SaveStep ==
  ASSUME TypeOK, NEW c \in Collection, SaveHeldCursor(c)
  PROVE  /\ pass.pc = "resolve" /\ pass'.pc = "resolve"
         /\ pass'.todo = pass.todo /\ pass'.unfinished = pass.unfinished
         /\ pass'.began = pass.began /\ pass'.authority = pass.authority
         /\ pass'.stores = pass.stores /\ pass'.seen = pass.seen
         /\ pass.removals = {} /\ pass'.removals = {}
         /\ pass.held[c] # 0 /\ pass'.held = [pass.held EXCEPT ![c] = 0]
         /\ cursor' = [cursor EXCEPT ![c] = pass.held[c]]
         /\ SourceStill /\ UNCHANGED <<copy, row, phase, work>>
  BY DEF SaveHeldCursor, setCursor, NoCursor, TypeOK, Pass, sourceVars, SourceStill

\* The pass is over, at its end or before it.
LEMMA EndStep ==
  ASSUME TypeOK, EndPass \/ AbandonPass \/ (ConcludePass /\ pass' = Idle)
  PROVE  /\ pass.pc # "idle" /\ pass' = Idle /\ work' \in {work, Unlisted}
         /\ pass.pc = "items" => work' = Unlisted
         /\ SourceStill /\ UNCHANGED <<copy, row, cursor, phase>>
  BY DEF EndPass, AbandonPass, ConcludePass, sourceVars, SourceStill

\* An item let go: skipped by a stop, held by the ceiling or the meter, or without a key.
LEMMA LetGoStep ==
  ASSUME TypeOK, NEW k \in Key, SkipItem(k) \/ HoldItem(k) \/ FailUnkeyed(k)
  PROVE  /\ pass.pc = "items" /\ work' = [work EXCEPT ![k] = Out]
         /\ \/ pass' = pass /\ k \in Unkeyed
            \/ pass' = [pass EXCEPT !.unfinished = @ \cup {pass.cur}]
            \/ /\ pass' \in {[pass EXCEPT !.heldHere = TRUE], [pass EXCEPT !.stopped = TRUE]}
               /\ work[k].st = "write"
         /\ SourceStill /\ UNCHANGED <<copy, row, cursor, phase>>
  BY DEF SkipItem, HoldItem, FailUnkeyed, At, sourceVars, SourceStill

\* A failure recorded, by whichever step.
LEMMA FailStep ==
  ASSUME NEW k \in Key,
         VanishItem(k) \/ PutItemLost(k) \/ \E park \in BOOLEAN : FailItem(k, park)
  PROVE  /\ pass.pc = "items" /\ work[k].st = "write" /\ \E park \in BOOLEAN : Failed(k, park)
         /\ copy' = copy \/ copy' = [copy EXCEPT ![k][pass.cur] = Put(k).copy]
  BY DEF VanishItem, PutItemLost, FailItem, At

\* The steps of a pass are those between its items and those on one.
LEMMA Kinds ==
  ASSUME Next
  PROVE  \/ Source \/ Owner \/ Operator
         \/ Folders \/ Stop \/ AbandonPass \/ \E c \in Collection : OpenUnseeing(c) \/ UnreadFolder(c)
         \/ \E k \in Key :
               \/ LookItem(k) \/ RecordItem(k) \/ PutItem(k) \/ PutItemTwice(k)
               \/ SkipItem(k) \/ HoldItem(k) \/ FailUnkeyed(k)
               \/ VanishItem(k) \/ PutItemLost(k) \/ \E park \in BOOLEAN : FailItem(k, park)
  BY DEF Next, Items, Faults

-----------------------------------------------------------------------------
(* Who is in hand, and what is being written.                               *)

\* A step that leaves the source, the pass and the items in hand alone, and
\* answers at most between passes.
LEMMA AroundStep ==
  ASSUME TypeOK, Source \/ Owner \/ Operator
  PROVE  /\ UNCHANGED <<pass, work>>
         /\ \A k \in Key : row'[k] = row[k] \/ (operatorMay /\ row[k].status = "failed")
         /\ \A k \in Key : row'[k].reported = row[k].reported
  <1>1. CASE Source
    BY <1>1 DEF Source, SourceCreate, SourceEdit, SourceMove, SourceRemove
  <1>2. CASE Owner
    BY <1>2 DEF Owner, OwnerWrite, OwnerRemove
  <1>3. CASE Operator
    <2>1. CASE ExecuteCutover \/ RollBackCutover
      BY <2>1 DEF ExecuteCutover, RollBackCutover
    <2>2. ASSUME NEW k \in Key, RetryFailure(k) \/ AcceptFailure(k)
          PROVE  /\ UNCHANGED <<pass, work>> /\ operatorMay /\ row[k].status = "failed"
                 /\ row'[k].reported = row[k].reported
                 /\ \A j \in Key : j # k => row'[j] = row[j]
      BY <2>2 DEF RetryFailure, AcceptFailure, TypeOK, Row
    <2>3. QED
      BY <1>3, <2>1, <2>2 DEF Operator
  <1>4. QED
    BY <1>1, <1>2, <1>3

LEMMA HandStep == TypeOK /\ HandInv /\ [Next]_vars => HandInv'
  <1> SUFFICES ASSUME TypeOK, HandInv, Next PROVE HandInv'
    BY DEF vars, HandInv
  <1>1. CASE Source \/ Owner \/ Operator
    BY <1>1, AroundStep DEF HandInv
  <1>2. ASSUME NEW c \in Collection, OpenFolder(c) \/ OpenUnseeing(c) PROVE HandInv'
    <2>1. PICK items \in SUBSET Key, removed \in SUBSET Removal : Open(c, items, removed)
      BY <1>2, Opens
    <2>2. \A k \in Key : work'[k].st \in {"out", "listed"}
      BY <2>1, OpenStep, OutFields
    <2>3. QED
      BY <2>1, <2>2, OpenStep DEF HandInv
  <1>3. CASE StartPass
    BY <1>3, StartStep DEF HandInv
  <1>4. CASE CloseFolder
    BY <1>4, CloseStep DEF HandInv
  <1>5. ASSUME NEW c \in Collection, SkipFolder(c) \/ UnreadFolder(c) PROVE HandInv'
    BY <1>5, LeaveStep DEF HandInv
  <1>6. CASE ConcludePass /\ pass' # Idle
    BY <1>6, ConcludeStep DEF HandInv
  <1>7. ASSUME NEW d \in pass.removals, ResolveRemoval(d) PROVE HandInv'
    BY <1>7, ResolveStep DEF HandInv
  <1>8. ASSUME NEW c \in Collection, SaveHeldCursor(c) PROVE HandInv'
    BY <1>8, SaveStep DEF HandInv
  <1>9. CASE EndPass \/ AbandonPass \/ (ConcludePass /\ pass' = Idle)
    <2>1. \A k \in Key : work'[k].st = "out"
      BY <1>9, EndStep, IdleFields DEF HandInv
    <2>2. pass'.removals = {}
      BY <1>9, EndStep DEF Idle
    <2>3. QED
      BY <2>1, <2>2 DEF HandInv
  <1>10. CASE Stop
    <2>1. /\ pass'.pc = pass.pc /\ pass'.authority = pass.authority /\ pass'.removals = pass.removals
          /\ work' = work
      BY <1>10 DEF Stop, TypeOK, Pass
    <2>2. QED
      BY <2>1 DEF HandInv
  <1>11. ASSUME NEW k \in Key, LookItem(k) PROVE HandInv'
    <2>1. pass'.pc = "items" /\ pass'.authority = pass.authority /\ pass'.removals = pass.removals
      BY <1>11, LookStep DEF TypeOK, Pass
    <2>2. work'[k].st = "write" => (work'[k].rewrite => pass.authority)
      BY <1>11, LookStep, OutFields
    <2>3. QED
      BY <1>11, <2>1, <2>2, LookStep DEF HandInv
  <1>12. ASSUME NEW k \in Key, RecordItem(k) PROVE HandInv'
    BY <1>12, RecordStep, OutFields DEF HandInv
  <1>13. ASSUME NEW k \in Key, PutItem(k) \/ PutItemTwice(k) PROVE HandInv'
    BY <1>13, PutStep DEF HandInv
  <1>14. ASSUME NEW k \in Key, SkipItem(k) \/ HoldItem(k) \/ FailUnkeyed(k) PROVE HandInv'
    <2>1. pass'.pc = "items" /\ pass'.authority = pass.authority /\ pass'.removals = pass.removals
      BY <1>14, LetGoStep DEF TypeOK, Pass
    <2>2. work'[k].st = "out" /\ \A j \in Key : j # k => work'[j] = work[j]
      BY <1>14, LetGoStep, OutFields DEF TypeOK
    <2>3. QED
      BY <2>1, <2>2 DEF HandInv
  <1>15. ASSUME NEW k \in Key,
                VanishItem(k) \/ PutItemLost(k) \/ \E park \in BOOLEAN : FailItem(k, park)
         PROVE  HandInv'
    <2>1. PICK park \in BOOLEAN : Failed(k, park)
      BY <1>15, FailStep
    <2>2. /\ pass'.pc = "items" /\ pass'.authority = pass.authority /\ pass'.removals = pass.removals
          /\ work'[k].st = "out" /\ \A j \in Key : j # k => work'[j] = work[j]
      BY <1>15, <2>1, FailStep, FailedStep, OutFields DEF TypeOK, Pass
    <2>3. QED
      BY <2>2 DEF HandInv
  <1>16. QED
    BY <1>1, <1>2, <1>3, <1>4, <1>5, <1>6, <1>7, <1>8, <1>9, <1>10, <1>11, <1>12, <1>13, <1>14,
       <1>15, Kinds DEF Folders

\* Between its items a pass writes nothing and answers nothing; it reports only
\* the removals it collected.
LEMMA BetweenStep ==
  ASSUME TypeOK,
         Folders \/ Stop \/ AbandonPass \/ \E c \in Collection : OpenUnseeing(c) \/ UnreadFolder(c)
  PROVE  /\ copy' = copy
         /\ \A k \in Key :
               /\ row'[k].status = row[k].status
               /\ row'[k].reported => row[k].reported \/ \E d \in pass.removals : ResolveRemoval(d)
               /\ work'[k].st = "write" => work'[k] = work[k]
  <1>1. ASSUME NEW c \in Collection, OpenFolder(c) \/ OpenUnseeing(c)
        PROVE  /\ copy' = copy /\ row' = row
               /\ \A k \in Key : work'[k].st # "write"
    BY <1>1, Opens, OpenStep, OutFields
  <1>2. ASSUME NEW d \in pass.removals, ResolveRemoval(d)
        PROVE  copy' = copy /\ work' = work /\ \A k \in Key : row'[k].status = row[k].status
    BY <1>2, ResolveStep
  <1>3. CASE AbandonPass
    <2>1. copy' = copy /\ row' = row /\ work' = Unlisted
      BY <1>3 DEF AbandonPass
    <2>2. \A k \in Key : work'[k].st # "write"
      BY <2>1, IdleFields
    <2>3. QED
      BY <2>1, <2>2
  <1>4. CASE StartPass \/ CloseFolder \/ ConcludePass \/ EndPass \/ Stop
    BY <1>4 DEF StartPass, CloseFolder, ConcludePass, EndPass, Stop
  <1>5. ASSUME NEW c \in Collection, SkipFolder(c) \/ UnreadFolder(c) \/ SaveHeldCursor(c)
        PROVE  copy' = copy /\ row' = row /\ work' = work
    BY <1>5 DEF SkipFolder, UnreadFolder, SaveHeldCursor
  <1>6. QED
    BY <1>1, <1>2, <1>3, <1>4, <1>5 DEF Folders

LEMMA AnswerStep ==
  ASSUME OperatorActs # "any time"
  PROVE  TypeOK /\ HandInv /\ AnswerInv /\ [Next]_vars => AnswerInv'
  <1> SUFFICES ASSUME TypeOK, HandInv, AnswerInv, Next PROVE AnswerInv'
    BY DEF vars, AnswerInv
  <1>1. CASE Source \/ Owner \/ Operator
    <2>1. operatorMay => \A k \in Key : work[k].st = "out"
      BY DEF operatorMay, HandInv
    <2>2. QED
      BY <1>1, <2>1, AroundStep DEF AnswerInv
  <1>2. CASE Folders \/ Stop \/ AbandonPass \/ \E c \in Collection : OpenUnseeing(c) \/ UnreadFolder(c)
    BY <1>2, BetweenStep DEF AnswerInv
  <1>3. ASSUME NEW k \in Key, LookItem(k) PROVE AnswerInv'
    BY <1>3, LookStep, OutFields DEF AnswerInv
  <1>4. ASSUME NEW k \in Key, RecordItem(k) PROVE AnswerInv'
    BY <1>4, RecordStep, OutFields DEF AnswerInv
  <1>5. ASSUME NEW k \in Key, PutItem(k) \/ PutItemTwice(k) PROVE AnswerInv'
    BY <1>5, PutStep DEF AnswerInv
  <1>6. ASSUME NEW k \in Key, SkipItem(k) \/ HoldItem(k) \/ FailUnkeyed(k) PROVE AnswerInv'
    BY <1>6, LetGoStep, OutFields DEF AnswerInv, TypeOK
  <1>7. ASSUME NEW k \in Key,
               VanishItem(k) \/ PutItemLost(k) \/ \E park \in BOOLEAN : FailItem(k, park)
        PROVE  AnswerInv'
    BY <1>7, FailStep, FailedStep, OutFields DEF AnswerInv
  <1>8. QED
    BY <1>1, <1>2, <1>3, <1>4, <1>5, <1>6, <1>7, Kinds

\* "Left behind for good": where the operator answers between passes, no step of
\* any actor puts an answered item back among the failures.
THEOREM AnswersStand == ASSUME OperatorActs # "any time" PROVE Spec => AnswerStands
  <1>1. Init => TypeOK /\ HandInv /\ AnswerInv
    BY InitType, InitHand
  <1>2. TypeOK /\ HandInv /\ AnswerInv /\ [Next]_vars => (TypeOK /\ HandInv /\ AnswerInv)'
    BY TypeStep, HandStep, AnswerStep
  <1>3. TypeOK /\ HandInv /\ AnswerInv /\ [Next]_vars =>
           [\A k \in Key : row[k].status = "left_behind" => row'[k].status # "failed"]_vars
    <2> SUFFICES ASSUME TypeOK, HandInv, AnswerInv, Next,
                        NEW j \in Key, row[j].status = "left_behind"
                 PROVE  row'[j].status # "failed"
      OBVIOUS
    <2>1. CASE Source \/ Owner \/ Operator
      BY <2>1, AroundStep
    <2>2. CASE Folders \/ Stop \/ AbandonPass
               \/ \E c \in Collection : OpenUnseeing(c) \/ UnreadFolder(c)
      BY <2>2, BetweenStep
    <2>3. ASSUME NEW k \in Key, LookItem(k) PROVE row'[j].status # "failed"
      BY <2>3, LookStep
    <2>4. ASSUME NEW k \in Key, RecordItem(k) PROVE row'[j].status # "failed"
      BY <2>4, RecordStep
    <2>5. ASSUME NEW k \in Key, PutItem(k) \/ PutItemTwice(k) PROVE row'[j].status # "failed"
      BY <2>5, PutStep
    <2>6. ASSUME NEW k \in Key, SkipItem(k) \/ HoldItem(k) \/ FailUnkeyed(k)
          PROVE  row'[j].status # "failed"
      BY <2>6, LetGoStep
    <2>7. ASSUME NEW k \in Key,
                 VanishItem(k) \/ PutItemLost(k) \/ \E park \in BOOLEAN : FailItem(k, park)
          PROVE  row'[j].status # "failed"
      BY <2>7, FailStep, FailedStep DEF AnswerInv
    <2>8. QED
      BY <2>1, <2>2, <2>3, <2>4, <2>5, <2>6, <2>7, Kinds
  <1>4. QED
    BY <1>1, <1>2, <1>3, PTL DEF Spec, AnswerStands

-----------------------------------------------------------------------------
\* A write that is no rewrite spares what the target holds.
LEMMA PutOnlyAdds ==
  ASSUME TypeOK, NEW k \in Key, ~work[k].rewrite, pass.cur \in Collection,
         copy' = copy \/ copy' = [copy EXCEPT ![k][pass.cur] = Put(k).copy]
  PROVE  \A j \in Key, c \in Collection : copy[j][c] \in {NoCopy, copy'[j][c]}
  <1>1. copy[k][pass.cur] \in {NoCopy, Put(k).copy}
    BY DEF Put, Upsert
  <1>2. QED
    BY <1>1 DEF TypeOK

\* A pass that began after the cutover only adds, whatever was listed, whatever
\* fails, and even where the cutover is rolled back before it ends.
THEOREM LatePassAdds == Spec => LatePassOnlyAdds
  <1>1. Init => TypeOK /\ HandInv
    BY InitType, InitHand
  <1>2. TypeOK /\ HandInv /\ [Next]_vars => (TypeOK /\ HandInv)'
    BY TypeStep, HandStep
  <1>3. TypeOK /\ HandInv /\ [Next]_vars =>
           [~pass.authority =>
               \A k \in Key :
                  /\ row'[k].reported => row[k].reported
                  /\ \A c \in Collection :
                        copy'[k][c].by = "us" => copy[k][c] \in {NoCopy, copy'[k][c]}]_vars
    <2> SUFFICES ASSUME TypeOK, HandInv, Next, ~pass.authority, NEW j \in Key
                 PROVE  /\ row'[j].reported => row[j].reported
                        /\ \A c \in Collection :
                              copy'[j][c].by = "us" => copy[j][c] \in {NoCopy, copy'[j][c]}
      OBVIOUS
    <2>1. pass.removals = {} /\ \A k \in Key : work[k].st = "write" => ~work[k].rewrite
      BY DEF HandInv
    <2>2. pass.pc = "items" => pass.cur \in Collection
      BY DEF TypeOK
    <2>3. CASE Owner
      <3>1. PICK k \in Key, c \in Collection :
               \/ copy' = [copy EXCEPT ![k][c] = [by |-> "owner", ver |-> 0]]
               \/ copy' = [copy EXCEPT ![k][c] = NoCopy]
        BY <2>3 DEF Owner, OwnerWrite, OwnerRemove
      <3>2. ASSUME NEW d \in Collection
            PROVE  copy'[j][d] = copy[j][d] \/ copy'[j][d].by # "us"
        BY <3>1 DEF TypeOK, NoCopy
      <3>3. QED
        BY <2>3, <3>2, AroundStep
    <2>4. CASE Source \/ Operator
      <3>1. copy' = copy
        BY <2>4 DEF Source, SourceCreate, SourceEdit, SourceMove, SourceRemove,
                    Operator, ExecuteCutover, RollBackCutover, RetryFailure, AcceptFailure
      <3>2. QED
        BY <2>4, <3>1, AroundStep
    <2>5. CASE Folders \/ Stop \/ AbandonPass
               \/ \E c \in Collection : OpenUnseeing(c) \/ UnreadFolder(c)
      BY <2>1, <2>5, BetweenStep
    <2>6. CASE \E k \in Key : LookItem(k)
      BY <2>6, LookStep
    <2>7. CASE \E k \in Key : RecordItem(k)
      BY <2>7, RecordStep
    <2>8. ASSUME NEW k \in Key, PutItem(k) \/ PutItemTwice(k)
          PROVE  row' = row /\ \A c \in Collection : copy[j][c] \in {NoCopy, copy'[j][c]}
      BY <2>1, <2>2, <2>8, PutStep, PutOnlyAdds
    <2>9. CASE \E k \in Key : SkipItem(k) \/ HoldItem(k) \/ FailUnkeyed(k)
      BY <2>9, LetGoStep
    <2>10. ASSUME NEW k \in Key,
                  VanishItem(k) \/ PutItemLost(k) \/ \E park \in BOOLEAN : FailItem(k, park)
           PROVE  /\ row'[j].reported = row[j].reported
                  /\ \A c \in Collection : copy[j][c] \in {NoCopy, copy'[j][c]}
      BY <2>1, <2>2, <2>10, FailStep, FailedStep, PutOnlyAdds
    <2>11. QED
      BY <2>3, <2>4, <2>5, <2>6, <2>7, <2>8, <2>9, <2>10, Kinds
  <1>4. QED
    BY <1>1, <1>2, <1>3, PTL DEF Spec, LatePassOnlyAdds

-----------------------------------------------------------------------------
(* Removals.  The invariant: what a handle is, where its object lives, and  *)
(* what a pass owes a removal that its listing named.                       *)

\* The handles an item has had so far.
RefOf(k) == {NoRef} \cup ({k} \X (0..clock))

\* A handle belongs to one item; a removal names the handle of an object that is
\* gone, and is no newer than what happened to its item since.
SourceInv ==
    /\ \A k \in Key : href[k] \in RefOf(k) /\ (at[k] # Nowhere => href[k] # NoRef)
    /\ \A d \in dead :
          /\ d.ref # NoRef /\ 0 < d.stamp /\ d.stamp <= clock
          /\ \E k \in Key : d.ref \in RefOf(k)
          /\ \A k \in Key : at[k] # Nowhere =>
                d.ref # href[k] /\ (d.ref \in RefOf(k) => d.stamp <= ver[k])

\* The object behind a handle lives, or lived, in one collection: the one the row
\* or the pass knows it from.
LivesIn(ref, c) ==
    /\ \A d \in dead : d.ref = ref => d.coll = c
    /\ \A k \in Key : at[k] # Nowhere /\ href[k] = ref => at[k] = c

RefInv == \A k \in Key :
    /\ row[k].ref \in RefOf(k) /\ work[k].ref \in RefOf(k)
    /\ row[k].ref # NoRef => LivesIn(row[k].ref, row[k].coll)
    /\ work[k].st # "out" => work[k].ref # NoRef /\ LivesIn(work[k].ref, pass.cur)

\* The pass has looked at the item, or has it in hand.
Touched(k) == k \in pass.seen \/ work[k].st # "out"

\* The last thing that happened to an item is the removal d of the object `ref`.
Gone(k, ref, d) == d.ref = ref /\ at[k] = Nowhere /\ ver[k] = d.stamp

\* A removal no listing of this pass has named.
Later(d) ==
    /\ d.coll \notin pass.todo /\ d.stamp > pass.held[d.coll]
    /\ pass.pc = "items" /\ d.coll = pass.cur => d.stamp > pass.next

\* An item the pass has touched was alive then: its removal comes later, unless
\* the object it was touched as is not the one the row names.
TouchedInv == \A k \in Key : Touched(k) =>
    /\ at[k] \in pass.todo => href[k] # row[k].ref /\ (work[k].st # "out" => href[k] # work[k].ref)
    /\ \A d \in dead : Gone(k, row[k].ref, d) => Later(d)

\* What the pass collected is still in front of the cursor it read it from.
ToldInv == \A d \in pass.removals :
    /\ d \in dead /\ d.coll \notin pass.todo /\ pass.stores
    /\ cursor[d.coll] # NoCursor /\ cursor[d.coll] < d.stamp
    /\ pass.pc = "items" /\ pass.cur = d.coll => pass.removedHere

\* From the saved cursor, a move to `position` would pass the removal.
Passes(d, position) ==
    cursor[d.coll] # NoCursor /\ cursor[d.coll] < d.stamp /\ d.stamp <= position

\* A removal that the listing's position passes was collected with it; one that a
\* held cursor passes is still to be recorded, or has been.
ReadInv == \A d \in dead :
    /\ pass.pc = "items" /\ pass.stores /\ d.coll = pass.cur /\ Passes(d, pass.next)
       => pass.removedHere /\ d \in pass.removals
    /\ \A k \in Key :
          Gone(k, row[k].ref, d) /\ isOnTarget(row[k]) /\ Passes(d, pass.held[d.coll])
          => d \in pass.removals \/ row[k].reported

\* A pass that finished every collection so far has looked at each item of theirs
\* that changed between their cursor and its beginning.
SeenInv == \A k \in Key :
    (/\ pass.pc # "idle" /\ pass.stores /\ pass.unfinished = {}
     /\ at[k] \in Collection \ pass.todo
     /\ cursor[at[k]] # NoCursor /\ cursor[at[k]] < ver[k] /\ ver[k] <= pass.began)
    => k \in pass.seen \/ (pass.pc = "items" /\ pass.cur = at[k] /\ work[k].st = "listed")

BeganInv ==
    /\ pass.began <= clock
    /\ pass.pc = "items" => pass.began <= pass.next /\ pass.cur \notin pass.todo
    /\ \A c \in Collection : pass.held[c] # 0 => pass.began <= pass.held[c]
    /\ pass.pc = "resolve" => pass.todo = {} /\ pass.unfinished = {}
    /\ pass.pc = "idle" => pass.removals = {} /\ pass.seen = {}

RemovalInv == SourceInv /\ RefInv /\ TouchedInv /\ ToldInv /\ ReadInv /\ SeenInv /\ BeganInv

\* A handle is no absent one, and the next one is new.
LEMMA Handles ==
  ASSUME NEW k, NEW n
  PROVE  <<k, n>> # NoRef
  BY DEF NoRef

LEMMA OneOwner ==
  ASSUME NEW j, NEW k, NEW ref \in {NoRef} \cup ({j} \X Nat), ref \in {NoRef} \cup ({k} \X Nat),
         ref # NoRef
  PROVE  j = k
  OBVIOUS

LEMMA RefsGrow ==
  ASSUME clock \in Nat, clock' \in {clock, clock + 1}, NEW k
  PROVE  /\ RefOf(k) \subseteq RefOf(k)'
         /\ RefOf(k)' \subseteq {NoRef} \cup ({k} \X Nat)
         /\ RefOf(k) \subseteq {NoRef} \cup ({k} \X Nat)
         /\ clock' = clock + 1 => <<k, clock + 1>> \in RefOf(k)'
  BY DEF RefOf

LEMMA Fresh ==
  ASSUME clock \in Nat, NEW j, NEW k, NEW ref \in RefOf(j)
  PROVE  ref # <<k, clock + 1>>
  BY DEF RefOf, NoRef

\* The types of what the invariant relates.
LEMMA RemovalTypes ==
  ASSUME TypeOK
  PROVE  /\ clock \in Nat /\ at \in [Key -> Collection \cup {Nowhere}] /\ ver \in [Key -> Nat]
         /\ cursor \in [Collection -> Nat] /\ pass.held \in [Collection -> Nat]
         /\ pass.next \in Nat /\ pass.began \in Nat /\ pass.todo \subseteq Collection
         /\ \A d \in dead : d.coll \in Collection /\ d.stamp \in Nat
         /\ pass.pc = "items" => pass.cur \in Collection
         /\ pass.removals \subseteq Removal
         /\ Nowhere \notin Collection
  BY SyncConstants DEF TypeOK, Pass, Removal

LEMMA InitRemoval == Init => RemovalInv
  <1> SUFFICES ASSUME Init PROVE RemovalInv
    OBVIOUS
  <1>1. /\ clock = 1 /\ dead = {} /\ pass = Idle /\ work = Unlisted
    BY DEF Init
  <1>2. PICK c \in Collection, old \in SUBSET Legacy :
           /\ at = [k \in Key |-> IF k \in old THEN c ELSE Nowhere]
           /\ href = [k \in Key |-> IF k \in old THEN <<k, 1>> ELSE NoRef]
           /\ row = [k \in Key |-> IF k \in old
                                   THEN [NoRow EXCEPT !.status = "copied", !.coll = c] ELSE NoRow]
    BY DEF Init
  <1>3. /\ pass.pc = "idle" /\ pass.removals = {} /\ pass.seen = {} /\ pass.began = 0
        /\ \A d \in Collection : pass.held[d] = 0
    BY <1>1 DEF Idle, NoCursor
  <1>4. \A k \in Key : work[k].st = "out" /\ work[k].ref = NoRef
    BY <1>1, OutFields DEF Unlisted
  <1>5. \A k \in Key : row[k].ref = NoRef
    BY <1>2 DEF NoRow
  <1>6. \A k \in Key : NoRef \in RefOf(k) /\ <<k, 1>> \in RefOf(k)
    BY <1>1 DEF RefOf
  <1>7. SourceInv
    BY <1>1, <1>2, <1>6, Handles DEF SourceInv
  <1>8. RefInv
    BY <1>4, <1>5, <1>6 DEF RefInv
  <1>9. TouchedInv
    BY <1>3, <1>4 DEF TouchedInv, Touched
  <1>10. ToldInv /\ ReadInv /\ SeenInv
    BY <1>1, <1>3 DEF ToldInv, ReadInv, SeenInv
  <1>11. BeganInv
    BY <1>1, <1>3 DEF BeganInv
  <1>12. QED
    BY <1>7, <1>8, <1>9, <1>10, <1>11 DEF RemovalInv

-----------------------------------------------------------------------------
(* A change at the source.                                                  *)

\* What any change at the source does to an item: it stays where it is, it comes
\* into a collection under a new handle, or it is removed.
Changes(k) ==
    /\ clock' = clock + 1 /\ ver'[k] = clock + 1
    /\ \A j \in Key : j # k => at'[j] = at[j] /\ ver'[j] = ver[j] /\ href'[j] = href[j]
    /\ \/ at[k] # Nowhere /\ at'[k] = at[k] /\ href'[k] = href[k] /\ dead' = dead
       \/ /\ at'[k] \in Collection /\ href'[k] = <<k, clock + 1>>
          /\ (at[k] = Nowhere /\ dead' = dead) \/ (at[k] # Nowhere /\ dead' = Die(k))
       \/ at[k] # Nowhere /\ at'[k] = Nowhere /\ href'[k] = href[k] /\ dead' = Die(k)

LEMMA SourceStep ==
  ASSUME TypeOK, Source
  PROVE  (\E k \in Key : Changes(k)) /\ UNCHANGED <<row, cursor, phase, pass, work>>
  BY DEF Source, SourceCreate, SourceEdit, SourceMove, SourceRemove, Changes, TypeOK

\* Its removals: the old ones, and perhaps the one of the object that was there.
LEMMA NewRemoval ==
  ASSUME TypeOK, SourceInv, NEW k \in Key, Changes(k), NEW d \in dead'
  PROVE  \/ d \in dead
         \/ /\ d.ref = href[k] /\ d.coll = at[k] /\ d.stamp = clock + 1 /\ at[k] # Nowhere
            /\ d.ref # NoRef /\ (at'[k] # Nowhere => href'[k] = <<k, clock + 1>>)
  BY DEF Changes, Die, SourceInv

LEMMA SourceSource ==
  ASSUME TypeOK, SourceInv, NEW k \in Key, Changes(k)
  PROVE  SourceInv'
  <1>1. clock \in Nat /\ clock' = clock + 1 /\ ver'[k] = clock + 1
    BY DEF TypeOK, Changes
  <1>2. ASSUME NEW j \in Key
        PROVE  href'[j] \in RefOf(j)' /\ (at'[j] # Nowhere => href'[j] # NoRef)
    BY <1>1, RefsGrow, Handles DEF SourceInv, Changes
  <1>3. ASSUME NEW d \in dead, NEW j \in Key, at'[j] # Nowhere
        PROVE  d.ref # href'[j] /\ (d.ref \in RefOf(j)' => d.stamp <= ver'[j])
    <2>1. PICK x \in Key : d.ref \in RefOf(x)
      BY DEF SourceInv
    <2>2. d.ref # NoRef /\ d.stamp <= clock /\ d.stamp \in Nat
      BY RemovalTypes DEF SourceInv
    <2>3. d.ref # <<k, clock + 1>>
      BY <1>1, <2>1, Fresh
    <2>4. d.ref \in RefOf(j)' => d.ref \in RefOf(j)
      BY <1>1, <2>1, <2>2, RefsGrow, OneOwner
    <2>5. CASE j = k
      BY <1>1, <1>3, <2>2, <2>3, <2>5 DEF Changes, SourceInv
    <2>6. CASE j # k
      BY <1>3, <2>4, <2>6 DEF Changes, SourceInv
    <2>7. QED
      BY <2>5, <2>6
  <1>4. ASSUME NEW d \in dead', d \notin dead, NEW j \in Key, at'[j] # Nowhere
        PROVE  d.ref # href'[j] /\ (d.ref \in RefOf(j)' => d.stamp <= ver'[j])
    <2>1. /\ d.ref = href[k] /\ d.stamp = clock + 1 /\ d.ref # NoRef /\ d.ref \in RefOf(k)
          /\ at'[k] # Nowhere => href'[k] = <<k, clock + 1>>
      BY <1>4, NewRemoval DEF SourceInv
    <2>2. CASE j = k
      <3>1. d.ref # <<k, clock + 1>>
        BY <1>1, <2>1, Fresh
      <3>2. QED
        BY <1>1, <1>4, <2>1, <2>2, <3>1
    <2>3. CASE j # k
      <3>1. href'[j] = href[j] /\ href[j] \in RefOf(j)
        BY <2>3 DEF Changes, SourceInv
      <3>2. d.ref \notin RefOf(j) /\ d.ref \notin RefOf(j)'
        BY <1>1, <2>1, <2>3, RefsGrow, OneOwner
      <3>3. QED
        BY <3>1, <3>2
    <2>4. QED
      BY <2>2, <2>3
  <1>5. ASSUME NEW d \in dead'
        PROVE  /\ d.ref # NoRef /\ 0 < d.stamp /\ d.stamp <= clock'
               /\ \E j \in Key : d.ref \in RefOf(j)'
    <2>1. CASE d \in dead
      <3>1. d.ref # NoRef /\ 0 < d.stamp /\ d.stamp <= clock /\ d.stamp \in Nat
        BY <2>1, RemovalTypes DEF SourceInv
      <3>2. PICK j \in Key : d.ref \in RefOf(j)
        BY <2>1 DEF SourceInv
      <3>3. d.ref \in RefOf(j)'
        BY <1>1, <3>2, RefsGrow
      <3>4. QED
        BY <1>1, <3>1, <3>3
    <2>2. CASE d \notin dead
      <3>1. d.ref = href[k] /\ d.ref # NoRef /\ d.stamp = clock + 1
        BY <2>2, NewRemoval
      <3>2. href[k] \in RefOf(k)
        BY DEF SourceInv
      <3>3. d.ref \in RefOf(k)'
        BY <1>1, <3>1, <3>2, RefsGrow
      <3>4. QED
        BY <1>1, <3>1, <3>3
    <2>3. QED
      BY <2>1, <2>2
  <1>6. QED
    BY <1>2, <1>3, <1>4, <1>5 DEF SourceInv

\* A change moves no object: it dies where it lived, and a new one has a new handle.
LEMMA LivesOn ==
  ASSUME TypeOK, SourceInv, NEW k \in Key, Changes(k), NEW j, NEW ref \in RefOf(j), NEW c,
         LivesIn(ref, c)
  PROVE  LivesIn(ref, c)'
  <1>1. clock \in Nat /\ ref # <<k, clock + 1>>
    BY Fresh DEF TypeOK
  <1>2. ASSUME NEW d \in dead', d.ref = ref PROVE d.coll = c
    BY <1>2, NewRemoval DEF LivesIn
  <1>3. ASSUME NEW x \in Key, at'[x] # Nowhere, href'[x] = ref PROVE at'[x] = c
    BY <1>1, <1>3 DEF LivesIn, Changes
  <1>4. QED
    BY <1>2, <1>3 DEF LivesIn

LEMMA SourceKeeps ==
  ASSUME TypeOK, CursorInv, RemovalInv, Source
  PROVE  RemovalInv'
  <1>1. PICK k \in Key : Changes(k)
    BY SourceStep
  <1>2. UNCHANGED <<row, cursor, phase, pass, work>>
    BY SourceStep
  <1>3. clock \in Nat /\ clock' = clock + 1 /\ ver'[k] = clock + 1
    BY <1>1 DEF TypeOK, Changes
  <1>4. SourceInv /\ RefInv /\ TouchedInv /\ ToldInv /\ ReadInv /\ SeenInv /\ BeganInv
    BY DEF RemovalInv
  <1>5. /\ pass.next <= clock /\ pass.began <= clock
        /\ \A c \in Collection : pass.held[c] <= clock /\ cursor[c] <= clock
    BY <1>4 DEF CursorInv, StampsInv, BeganInv
  <1>6. SourceInv'
    BY <1>1, <1>4, SourceSource
  <1>7. RefInv'
    BY <1>1, <1>2, <1>3, <1>4, RefsGrow, LivesOn DEF RefInv
  <1>8. ASSUME NEW d \in dead', d \notin dead
        PROVE  d.ref = href[k] /\ d.coll = at[k] /\ d.stamp = clock + 1 /\ at[k] \in Collection
    BY <1>1, <1>4, <1>8, NewRemoval DEF TypeOK
  <1>9. ASSUME NEW d \in dead, NEW j \in Key, Gone(j, row[j].ref, d)'
        PROVE  Gone(j, row[j].ref, d)
    <2>1. d.stamp <= clock /\ d.stamp \in Nat
      BY <1>4, RemovalTypes DEF SourceInv
    <2>2. j # k
      BY <1>3, <1>9, <2>1 DEF Gone
    <2>3. QED
      BY <1>1, <1>2, <1>9, <2>2 DEF Gone, Changes
  <1>10. TouchedInv'
    <2> SUFFICES ASSUME NEW j \in Key, Touched(j)
                 PROVE  /\ at'[j] \in pass.todo =>
                             /\ href'[j] # row[j].ref
                             /\ work[j].st # "out" => href'[j] # work[j].ref
                        /\ \A d \in dead' : Gone(j, row[j].ref, d)' => Later(d)
      BY <1>2 DEF TouchedInv, Touched, Later
    <2>1. row[j].ref # <<k, clock + 1>> /\ work[j].ref # <<k, clock + 1>>
      BY <1>3, <1>4, Fresh DEF RefInv
    <2>2. at'[j] \in pass.todo => at'[j] # Nowhere
      BY RemovalTypes
    <2>3. ASSUME at'[j] \in pass.todo
          PROVE  /\ href'[j] # row[j].ref
                 /\ work[j].st # "out" => href'[j] # work[j].ref
      BY <1>1, <1>4, <2>1, <2>2, <2>3 DEF TouchedInv, Changes
    <2>4. ASSUME NEW d \in dead', Gone(j, row[j].ref, d)' PROVE Later(d)
      <3>1. CASE d \in dead
        BY <1>4, <1>9, <2>4, <3>1 DEF TouchedInv
      <3>2. CASE d \notin dead
        <4>1. d.ref = href[k] /\ d.coll = at[k] /\ d.stamp = clock + 1 /\ at[k] \in Collection
          BY <1>8, <3>2
        <4>2. j = k
          BY <1>1, <1>2, <2>4, <4>1, RemovalTypes DEF Gone, Changes, CursorInv, StampsInv
        <4>3. at[k] \notin pass.todo
          BY <1>2, <1>4, <2>4, <4>1, <4>2 DEF TouchedInv, Gone
        <4>4. QED
          BY <1>5, <4>1, <4>3, RemovalTypes DEF Later
      <3>3. QED
        BY <3>1, <3>2
    <2>5. QED
      BY <2>3, <2>4
  <1>11. ToldInv'
    <2>1. dead \subseteq dead'
      BY <1>1 DEF Changes, Die
    <2>2. QED
      BY <1>2, <1>4, <2>1 DEF ToldInv
  <1>12. ReadInv'
    <2>1. ASSUME NEW d \in dead', d \notin dead PROVE ~Passes(d, pass.next)' /\ ~Passes(d, pass.held[d.coll])'
      BY <1>2, <1>5, <1>8, <2>1, RemovalTypes DEF Passes
    <2>2. QED
      BY <1>2, <1>4, <1>9, <2>1 DEF ReadInv, Passes
  <1>13. SeenInv'
    <2>1. ver'[k] > pass.began
      BY <1>3, <1>5, RemovalTypes
    <2>2. QED
      BY <1>1, <1>2, <1>4, <2>1, RemovalTypes DEF SeenInv, Changes
  <1>14. BeganInv'
    BY <1>2, <1>3, <1>4, RemovalTypes DEF BeganInv
  <1>15. QED
    BY <1>6, <1>7, <1>10, <1>11, <1>12, <1>13, <1>14 DEF RemovalInv

-----------------------------------------------------------------------------
(* The other steps leave the source as it is.                               *)

LEMMA Still ==
  ASSUME SourceStill
  PROVE  /\ SourceInv => SourceInv'
         /\ \A k : RefOf(k)' = RefOf(k)
         /\ \A ref, c : LivesIn(ref, c) => LivesIn(ref, c)'
  BY DEF SourceStill, SourceInv, RefOf, LivesIn

\* No pass, or one at its very beginning: no item in hand or seen, no removal
\* collected, no cursor held.
LEMMA RestKeeps ==
  ASSUME TypeOK, RemovalInv, SourceStill,
         pass'.pc = "idle" \/ (pass'.pc = "folders" /\ pass'.todo = Collection),
         pass'.removals = {}, pass'.seen = {}, pass'.began <= clock,
         \A c \in Collection : pass'.held[c] = 0,
         \A k \in Key : work'[k].st = "out" /\ work'[k].ref \in {NoRef, work[k].ref},
         \A k \in Key : row'[k].ref = row[k].ref /\ row'[k].coll = row[k].coll
  PROVE  RemovalInv'
  <1>1. SourceInv /\ RefInv
    BY DEF RemovalInv
  <1>2. /\ UNCHANGED <<clock, at, ver, href, dead>>
        /\ \A d \in dead : d.coll \in Collection /\ d.stamp \in Nat /\ d.stamp > 0
    BY <1>1, RemovalTypes DEF SourceStill, SourceInv
  <1>3. SourceInv'
    BY <1>1, Still
  <1>4. RefInv'
    <2>1. \A k \in Key : NoRef \in RefOf(k)
      BY DEF RefOf
    <2>2. QED
      BY <1>1, <2>1, Still DEF RefInv
  <1>5. TouchedInv' /\ ToldInv'
    BY DEF TouchedInv, Touched, ToldInv
  <1>6. ReadInv'
    BY <1>2 DEF ReadInv, Passes
  <1>7. SeenInv'
    BY DEF SeenInv
  <1>8. BeganInv'
    BY <1>2 DEF BeganInv
  <1>9. QED
    BY <1>3, <1>4, <1>5, <1>6, <1>7, <1>8 DEF RemovalInv

LEMMA OwnerKeeps ==
  ASSUME RemovalInv, Owner
  PROVE  RemovalInv'
  <1>1. UNCHANGED <<clock, at, ver, href, dead, row, cursor, pass, work>>
    BY DEF Owner, OwnerWrite, OwnerRemove, sourceVars
  <1>2. QED
    BY <1>1 DEF RemovalInv, SourceInv, RefInv, TouchedInv, ToldInv, ReadInv, SeenInv, BeganInv,
                RefOf, LivesIn, Touched, Gone, Later, Passes

\* An answer comes between passes.
LEMMA OperatorKeeps ==
  ASSUME Quiet, TypeOK, CursorInv, HandInv, RemovalInv, Operator
  PROVE  RemovalInv'
  <1>1. ~ExecuteCutover /\ ~RollBackCutover
    <2>1. phase = 0 /\ MaxCutovers = 0
      BY DEF CursorInv, PassInv, Quiet
    <2>2. ~(phase < MaxCutovers)
      BY <2>1
    <2>3. QED
      BY <2>2 DEF ExecuteCutover, RollBackCutover
  <1>2. PICK k \in Key : RetryFailure(k) \/ AcceptFailure(k)
    BY <1>1 DEF Operator
  <1>3. pass.pc = "idle" /\ UNCHANGED <<pass, work>> /\ SourceStill
    BY <1>2 DEF RetryFailure, AcceptFailure, operatorMay, Quiet, sourceVars, SourceStill
  <1>4. \A j \in Key : row'[j].ref = row[j].ref /\ row'[j].coll = row[j].coll
    <2>1. CASE RetryFailure(k)
      BY <2>1 DEF RetryFailure, TypeOK, Row
    <2>2. CASE AcceptFailure(k)
      BY <2>2 DEF AcceptFailure, TypeOK, Row
    <2>3. QED
      BY <1>2, <2>1, <2>2
  <1>5. /\ \A j \in Key : work[j].st = "out"
        /\ \A c \in Collection : pass.held[c] = 0
        /\ pass.removals = {} /\ pass.seen = {} /\ pass.began <= clock
    BY <1>3 DEF HandInv, CursorInv, PassInv, NoCursor, RemovalInv, BeganInv
  <1>6. QED
    BY <1>3, <1>4, <1>5, RestKeeps

LEMMA StartKeeps ==
  ASSUME TypeOK, HandInv, RemovalInv, StartPass
  PROVE  RemovalInv'
  <1>1. \A k \in Key : work[k].st = "out"
    BY StartStep DEF HandInv
  <1>2. clock \in Nat
    BY DEF TypeOK
  <1>3. QED
    BY <1>1, <1>2, StartStep, RestKeeps

LEMMA EndKeeps ==
  ASSUME TypeOK, HandInv, RemovalInv, EndPass \/ AbandonPass \/ (ConcludePass /\ pass' = Idle)
  PROVE  RemovalInv'
  <1>1. /\ pass'.pc = "idle" /\ pass'.removals = {} /\ pass'.seen = {} /\ pass'.began = 0
        /\ \A c \in Collection : pass'.held[c] = 0
    BY EndStep DEF Idle, NoCursor
  <1>2. \A k \in Key : work'[k].st = "out" /\ work'[k].ref \in {NoRef, work[k].ref}
    <2>1. \A k \in Key : Unlisted[k] = Out
      BY DEF Unlisted
    <2>2. QED
      BY <2>1, EndStep, OutFields DEF HandInv
  <1>3. clock \in Nat
    BY DEF TypeOK
  <1>4. QED
    BY <1>1, <1>2, <1>3, EndStep, RestKeeps

-----------------------------------------------------------------------------
\* An object that is listed lives where it is listed.
LEMMA ListedLives ==
  ASSUME TypeOK, SourceInv, NEW k \in Key, at[k] # Nowhere
  PROVE  href[k] # NoRef /\ href[k] \in RefOf(k) /\ LivesIn(href[k], at[k])
  <1>1. href[k] # NoRef /\ href[k] \in RefOf(k)
    BY DEF SourceInv
  <1>2. \A d \in dead : d.ref # href[k]
    BY DEF SourceInv
  <1>3. ASSUME NEW j \in Key, href[j] = href[k] PROVE j = k
    <2>1. href[j] \in RefOf(j) /\ clock \in Nat
      BY DEF SourceInv, TypeOK
    <2>2. RefOf(j) \subseteq {NoRef} \cup ({j} \X Nat) /\ RefOf(k) \subseteq {NoRef} \cup ({k} \X Nat)
      BY <2>1 DEF RefOf
    <2>3. QED
      BY <1>1, <1>3, <2>1, <2>2, OneOwner
  <1>4. QED
    BY <1>1, <1>2, <1>3 DEF LivesIn

LEMMA OpenKeeps ==
  ASSUME TypeOK, CursorInv, RemovalInv, NEW c \in Collection, OpenFolder(c) \/ OpenUnseeing(c)
  PROVE  RemovalInv'
  <1>1. PICK items \in SUBSET Key, removed \in SUBSET Removal :
           /\ Open(c, items, removed)
           /\ \/ items = listSince(c) /\ removed = removedSince(c)
              \/ items = {} /\ removed = {} /\ prevCursor(c) = NoCursor
    BY Opens
  <1>2. /\ pass.pc = "folders" /\ c \in pass.todo /\ pass'.pc = "items"
        /\ pass'.todo = pass.todo \ {c} /\ pass'.cur = c /\ pass'.next = clock
        /\ pass'.began = pass.began /\ pass'.authority = pass.authority
        /\ pass'.stores = pass.stores /\ pass'.unfinished = pass.unfinished
        /\ pass'.seen = pass.seen /\ pass'.held = pass.held
        /\ SourceStill /\ UNCHANGED <<clock, at, ver, href, dead, row, cursor>>
    BY <1>1, OpenStep DEF SourceStill
  <1>3. pass.authority
    BY <1>2 DEF CursorInv, PassInv
  <1>4. /\ pass'.removedHere <=> removed # {}
        /\ pass'.removals = pass.removals \cup removed
    BY <1>1, <1>3, OpenStep
  <1>5. /\ \A k \in items : work'[k].st = "listed" /\ work'[k].ref = href[k] /\ at[k] = c
        /\ \A k \in Key \ items : work'[k].st = "out" /\ work'[k].ref = NoRef
    <2>1. /\ \A k \in items : work'[k].st = "listed" /\ work'[k].ref = href[k]
          /\ \A k \in Key \ items : work'[k] = Out
      BY <1>1, OpenStep
    <2>2. \A k \in items : at[k] = c
      BY <1>1 DEF listSince
    <2>3. QED
      BY <2>1, <2>2, OutFields
  <1>6. ASSUME NEW d \in removed
        PROVE  d \in dead /\ d.coll = c /\ pass.stores /\ cursor[c] # NoCursor /\ cursor[c] < d.stamp
    BY <1>1, <1>6, RemovalTypes DEF removedSince, prevCursor
  <1>7. SourceInv /\ RefInv /\ TouchedInv /\ ToldInv /\ ReadInv /\ SeenInv /\ BeganInv
    BY DEF RemovalInv
  <1>8. SourceInv'
    BY <1>2, <1>7, Still
  <1>9. RefInv'
    <2>1. ASSUME NEW k \in items
          PROVE  href[k] # NoRef /\ href[k] \in RefOf(k) /\ LivesIn(href[k], c)
      BY <1>5, <1>7, ListedLives, RemovalTypes
    <2>2. \A k \in Key : NoRef \in RefOf(k)
      BY DEF RefOf
    <2>3. QED
      BY <1>2, <1>5, <1>7, <2>1, <2>2, Still DEF RefInv
  <1>10. TouchedInv'
    <2> SUFFICES ASSUME NEW k \in Key, Touched(k)'
                 PROVE  /\ at[k] \in pass.todo \ {c} =>
                             /\ href[k] # row[k].ref
                             /\ work'[k].st # "out" => href[k] # work'[k].ref
                        /\ \A d \in dead : Gone(k, row[k].ref, d) => Later(d)'
      BY <1>2 DEF TouchedInv, Gone
    <2>1. CASE k \in items
      BY <1>5, <2>1, RemovalTypes DEF Gone
    <2>2. CASE k \notin items
      <3>1. Touched(k) /\ work'[k].st = "out"
        BY <1>2, <1>5, <2>2 DEF Touched
      <3>2. ASSUME NEW d \in dead, Gone(k, row[k].ref, d) PROVE Later(d)'
        <4>1. Later(d)
          BY <1>7, <3>1, <3>2 DEF TouchedInv
        <4>2. QED
          BY <1>2, <4>1 DEF Later
      <3>3. QED
        BY <1>7, <3>1, <3>2 DEF TouchedInv
    <2>3. QED
      BY <2>1, <2>2
  <1>11. ToldInv'
    BY <1>2, <1>4, <1>6, <1>7 DEF ToldInv
  <1>12. ReadInv'
    <2>1. ASSUME NEW d \in dead, pass.stores, d.coll = c, Passes(d, clock) PROVE d \in removed
      BY <1>1, <2>1 DEF Passes, prevCursor, removedSince
    <2>2. QED
      BY <1>2, <1>4, <1>7, <2>1 DEF ReadInv, Passes, Gone
  <1>13. SeenInv'
    <2>1. ASSUME NEW k \in Key, pass.stores, at[k] = c, cursor[c] # NoCursor, cursor[c] < ver[k]
          PROVE  k \in items
      BY <1>1, <2>1, RemovalTypes DEF prevCursor, listSince
    <2>2. QED
      BY <1>2, <1>5, <1>7, <2>1 DEF SeenInv
  <1>14. BeganInv'
    BY <1>2, <1>7 DEF BeganInv
  <1>15. QED
    BY <1>8, <1>9, <1>10, <1>11, <1>12, <1>13, <1>14 DEF RemovalInv

\* The cursor moves where no removal waits for the end of the pass, and is held
\* where one does.
LEMMA CloseKeeps ==
  ASSUME TypeOK, CursorInv, RemovalInv, CloseFolder
  PROVE  RemovalInv'
  <1>1. /\ pass.pc = "items" /\ pass'.pc = "folders" /\ pass.cur \in Collection
        /\ pass'.todo = pass.todo /\ pass'.began = pass.began /\ pass'.stores = pass.stores
        /\ pass'.unfinished = pass.unfinished
        /\ pass'.seen = pass.seen /\ pass'.removals = pass.removals
        /\ \A k \in Key : work[k].st = "out"
        /\ SourceStill /\ UNCHANGED <<clock, at, ver, href, dead, row, work>>
    BY CloseStep DEF SourceStill
  <1>2. SourceInv /\ RefInv /\ TouchedInv /\ ToldInv /\ ReadInv /\ SeenInv /\ BeganInv
    BY DEF RemovalInv
  <1>3. ASSUME NEW c \in Collection
        PROVE  /\ cursor'[c] = cursor[c]
                  \/ (c = pass.cur /\ cursor'[c] = pass.next /\ pass.stores /\ ~pass.removedHere)
               /\ pass'.held[c] = pass.held[c]
                  \/ (c = pass.cur /\ pass'.held[c] = pass.next /\ pass.stores /\ pass.removedHere)
    BY <1>1, CloseStep, RemovalTypes DEF mayMoveCursor
  <1>4. /\ \A c \in Collection : cursor[c] <= pass.next /\ pass.held[c] <= pass.next
        /\ pass.began <= pass.next
    BY <1>1, <1>2 DEF CursorInv, PassInv, BeganInv
  <1>5. SourceInv'
    BY <1>1, <1>2, Still
  <1>6. RefInv'
    BY <1>1, <1>2, Still DEF RefInv
  <1>7. TouchedInv'
    <2>1. ASSUME NEW d \in dead, Later(d) PROVE Later(d)'
      BY <1>1, <1>3, <2>1, RemovalTypes DEF Later
    <2>2. QED
      BY <1>1, <1>2, <2>1 DEF TouchedInv, Touched, Gone
  <1>8. ToldInv'
    <2> SUFFICES ASSUME NEW d \in pass.removals
                 PROVE  cursor'[d.coll] = cursor[d.coll]
      BY <1>1, <1>2 DEF ToldInv
    <2> QED
      BY <1>1, <1>2, <1>3, RemovalTypes DEF ToldInv
  <1>9. ReadInv'
    <2> SUFFICES ASSUME NEW d \in dead, NEW k \in Key, Gone(k, row[k].ref, d), isOnTarget(row[k]),
                        Passes(d, pass.held[d.coll])'
                 PROVE  d \in pass.removals \/ row[k].reported
      BY <1>1 DEF ReadInv, Gone
    <2>1. d.coll \in Collection /\ d.stamp \in Nat
      BY RemovalTypes
    <2>2. CASE cursor'[d.coll] # cursor[d.coll]
      <3>1. cursor'[d.coll] = pass.next /\ pass'.held[d.coll] = pass.held[d.coll]
        BY <1>3, <2>1, <2>2
      <3>2. QED
        BY <1>1, <1>4, <2>1, <3>1, RemovalTypes DEF Passes
    <2>3. CASE cursor'[d.coll] = cursor[d.coll] /\ pass'.held[d.coll] # pass.held[d.coll]
      BY <1>1, <1>2, <1>3, <2>1, <2>3 DEF ReadInv, Passes
    <2>4. CASE cursor'[d.coll] = cursor[d.coll] /\ pass'.held[d.coll] = pass.held[d.coll]
      BY <1>2, <2>4 DEF ReadInv, Passes
    <2>5. QED
      BY <2>2, <2>3, <2>4
  <1>10. SeenInv'
    <2> SUFFICES ASSUME NEW k \in Key, pass.stores, pass.unfinished = {},
                        at[k] \in Collection \ pass.todo,
                        cursor'[at[k]] # NoCursor, cursor'[at[k]] < ver[k], ver[k] <= pass.began
                 PROVE  k \in pass.seen
      BY <1>1 DEF SeenInv
    <2>1. cursor'[at[k]] = cursor[at[k]]
      BY <1>3, <1>4, RemovalTypes
    <2>2. QED
      BY <1>1, <1>2, <2>1 DEF SeenInv
  <1>11. BeganInv'
    BY <1>1, <1>2, <1>3, <1>4, RemovalTypes DEF BeganInv
  <1>12. QED
    BY <1>5, <1>6, <1>7, <1>8, <1>9, <1>10, <1>11 DEF RemovalInv

\* A stop, a collection left for later, the pass concluded: rows, cursors and
\* the removals collected stay.
LEMMA QuietKeeps ==
  ASSUME TypeOK, RemovalInv, SourceStill, UNCHANGED <<row, cursor, work>>,
         \/ pass'.pc = pass.pc /\ pass.pc \in {"folders", "items"}
         \/ pass.pc = "folders" /\ pass'.pc = "resolve" /\ pass.todo = {} /\ pass.unfinished = {},
         pass'.began = pass.began, pass'.stores = pass.stores, pass'.seen = pass.seen,
         pass'.removals = pass.removals, pass'.held = pass.held,
         \/ pass'.todo = pass.todo /\ pass'.unfinished = pass.unfinished
         \/ pass.pc = "folders" /\ pass'.todo \subseteq pass.todo /\ pass'.unfinished # {}
                               /\ pass'.pc = "folders",
         pass'.pc = "items" => /\ pass'.cur = pass.cur /\ pass'.next = pass.next
                               /\ pass'.removedHere = pass.removedHere,
         pass.pc # "items" => \A k \in Key : work[k].st = "out"
  PROVE  RemovalInv'
  <1>1. UNCHANGED <<clock, at, ver, href, dead>>
    BY DEF SourceStill
  <1>2. SourceInv /\ RefInv /\ TouchedInv /\ ToldInv /\ ReadInv /\ SeenInv /\ BeganInv
    BY DEF RemovalInv
  <1>3. SourceInv'
    BY <1>2, Still
  <1>4. RefInv'
    BY <1>2, Still DEF RefInv
  <1>5. TouchedInv'
    <2>1. ASSUME NEW d \in dead, Later(d) PROVE Later(d)'
      BY <2>1 DEF Later
    <2>2. QED
      BY <1>1, <1>2, <2>1 DEF TouchedInv, Touched, Gone
  <1>6. ToldInv'
    BY <1>1, <1>2 DEF ToldInv
  <1>7. ReadInv'
    BY <1>1, <1>2 DEF ReadInv, Passes, Gone
  <1>8. SeenInv'
    BY <1>1, <1>2 DEF SeenInv
  <1>9. BeganInv'
    BY <1>1, <1>2 DEF BeganInv
  <1>10. QED
    BY <1>3, <1>4, <1>5, <1>6, <1>7, <1>8, <1>9 DEF RemovalInv

LEMMA StopKeeps ==
  ASSUME TypeOK, HandInv, RemovalInv, Stop
  PROVE  RemovalInv'
  <1>1. /\ pass.pc \in {"folders", "items"} /\ pass' = [pass EXCEPT !.stopped = TRUE]
        /\ SourceStill /\ UNCHANGED <<row, cursor, work>>
    BY DEF Stop, sourceVars, SourceStill
  <1>2. /\ pass'.pc = pass.pc /\ pass'.began = pass.began /\ pass'.stores = pass.stores
        /\ pass'.seen = pass.seen /\ pass'.removals = pass.removals /\ pass'.held = pass.held
        /\ pass'.todo = pass.todo /\ pass'.unfinished = pass.unfinished
        /\ pass'.cur = pass.cur /\ pass'.next = pass.next /\ pass'.removedHere = pass.removedHere
    BY <1>1 DEF TypeOK, Pass
  <1>3. pass.pc # "items" => \A k \in Key : work[k].st = "out"
    BY DEF HandInv
  <1>4. QED
    BY <1>1, <1>2, <1>3, QuietKeeps

LEMMA LeaveKeeps ==
  ASSUME TypeOK, HandInv, RemovalInv, NEW c \in Collection, SkipFolder(c) \/ UnreadFolder(c)
  PROVE  RemovalInv'
  <1>1. \A k \in Key : work[k].st = "out"
    BY LeaveStep DEF HandInv
  <1>2. QED
    BY <1>1, LeaveStep, QuietKeeps

LEMMA ConcludeKeeps ==
  ASSUME TypeOK, CursorInv, HandInv, RemovalInv, ConcludePass, pass' # Idle
  PROVE  RemovalInv'
  <1>1. pass.authority /\ isAuthority
    <2>1. pass.authority /\ phase = 0
      BY ConcludeStep DEF CursorInv, PassInv
    <2>2. QED
      BY <2>1 DEF isAuthority
  <1>2. \A k \in Key : work[k].st = "out"
    BY ConcludeStep DEF HandInv
  <1>3. QED
    BY <1>1, <1>2, ConcludeStep, QuietKeeps

\* A removal leaves the list once its row carries the report, or once the row's
\* item proves to have been seen alive.
LEMMA ResolveKeeps ==
  ASSUME TypeOK, HandInv, RemovalInv, NEW n \in pass.removals, ResolveRemoval(n)
  PROVE  RemovalInv'
  <1>1. /\ pass.pc = "resolve" /\ pass'.pc = "resolve"
        /\ pass'.todo = pass.todo /\ pass'.unfinished = pass.unfinished
        /\ pass'.began = pass.began /\ pass'.stores = pass.stores /\ pass'.seen = pass.seen
        /\ pass'.removals = pass.removals \ {n} /\ pass'.held = pass.held
        /\ SourceStill /\ UNCHANGED <<clock, at, ver, href, dead, cursor, work>>
    BY ResolveStep DEF SourceStill
  <1>2. ASSUME NEW k \in Key
        PROVE  /\ row'[k].ref = row[k].ref /\ row'[k].coll = row[k].coll
               /\ row'[k].status = row[k].status
               /\ row'[k].reported <=> \/ row[k].reported
                                       \/ row[k].ref = n.ref /\ isOnTarget(row[k]) /\ k \notin pass.seen
    BY ResolveStep
  <1>3. SourceInv /\ RefInv /\ TouchedInv /\ ToldInv /\ ReadInv /\ SeenInv /\ BeganInv
    BY DEF RemovalInv
  <1>4. \A k \in Key : work[k].st = "out"
    BY <1>1 DEF HandInv
  <1>5. SourceInv'
    BY <1>1, <1>3, Still
  <1>6. RefInv'
    BY <1>1, <1>2, <1>3, <1>4, Still DEF RefInv
  <1>7. TouchedInv'
    <2>1. ASSUME NEW d \in dead, Later(d) PROVE Later(d)'
      BY <1>1, <2>1 DEF Later
    <2>2. QED
      BY <1>1, <1>2, <1>3, <2>1 DEF TouchedInv, Touched, Gone
  <1>8. ToldInv'
    BY <1>1, <1>3 DEF ToldInv
  <1>9. ReadInv'
    <2> SUFFICES ASSUME NEW d \in dead, NEW k \in Key, Gone(k, row[k].ref, d), isOnTarget(row[k]),
                        Passes(d, pass.held[d.coll])
                 PROVE  d \in pass.removals \ {n} \/ row'[k].reported
      BY <1>1, <1>2 DEF ReadInv, Gone, Passes, isOnTarget
    <2>1. CASE d = n
      <3>1. k \notin pass.seen
        BY <1>3, RemovalTypes DEF TouchedInv, Touched, Later, Passes
      <3>2. QED
        BY <1>2, <2>1, <3>1 DEF Gone
    <2>2. CASE d # n
      BY <1>2, <1>3, <2>2 DEF ReadInv
    <2>3. QED
      BY <2>1, <2>2
  <1>10. SeenInv'
    BY <1>1, <1>3 DEF SeenInv
  <1>11. BeganInv'
    BY <1>1, <1>3 DEF BeganInv
  <1>12. QED
    BY <1>5, <1>6, <1>7, <1>8, <1>9, <1>10, <1>11 DEF RemovalInv

LEMMA SaveKeeps ==
  ASSUME TypeOK, HandInv, RemovalInv, NEW c \in Collection, SaveHeldCursor(c)
  PROVE  RemovalInv'
  <1>1. /\ pass.pc = "resolve" /\ pass'.pc = "resolve"
        /\ pass'.todo = pass.todo /\ pass'.unfinished = pass.unfinished
        /\ pass'.began = pass.began /\ pass'.stores = pass.stores /\ pass'.seen = pass.seen
        /\ pass.removals = {} /\ pass'.removals = {} /\ pass.held[c] # 0
        /\ SourceStill /\ UNCHANGED <<clock, at, ver, href, dead, row, work>>
    BY SaveStep DEF SourceStill
  <1>2. /\ cursor'[c] = pass.held[c] /\ pass'.held[c] = 0
        /\ \A b \in Collection : b # c => cursor'[b] = cursor[b] /\ pass'.held[b] = pass.held[b]
    <2>1. cursor' = [cursor EXCEPT ![c] = pass.held[c]] /\ pass'.held = [pass.held EXCEPT ![c] = 0]
      BY SaveStep
    <2>2. cursor \in [Collection -> Nat] /\ pass.held \in [Collection -> Nat]
      BY RemovalTypes
    <2>3. QED
      BY <2>1, <2>2
  <1>3. SourceInv /\ RefInv /\ TouchedInv /\ ToldInv /\ ReadInv /\ SeenInv /\ BeganInv
    BY DEF RemovalInv
  <1>4. \A k \in Key : work[k].st = "out"
    BY <1>1 DEF HandInv
  <1>5. \A d \in dead : d.coll \in Collection /\ d.stamp \in Nat /\ d.stamp > 0
    BY <1>3, RemovalTypes DEF SourceInv
  <1>6. SourceInv'
    BY <1>1, <1>3, Still
  <1>7. RefInv'
    BY <1>1, <1>3, <1>4, Still DEF RefInv
  <1>8. TouchedInv'
    <2>1. ASSUME NEW d \in dead, Later(d) PROVE Later(d)'
      BY <1>1, <1>2, <1>5, <2>1 DEF Later
    <2>2. QED
      BY <1>1, <1>3, <2>1 DEF TouchedInv, Touched, Gone
  <1>9. ToldInv'
    BY <1>1 DEF ToldInv
  <1>10. ReadInv'
    BY <1>1, <1>2, <1>3, <1>5 DEF ReadInv, Passes, Gone
  <1>11. SeenInv'
    <2>1. pass.began <= pass.held[c]
      BY <1>1, <1>3 DEF BeganInv
    <2>2. QED
      BY <1>1, <1>2, <1>3, <2>1, RemovalTypes DEF SeenInv
  <1>12. BeganInv'
    BY <1>1, <1>2, <1>3 DEF BeganInv
  <1>13. QED
    BY <1>6, <1>7, <1>8, <1>9, <1>10, <1>11, <1>12 DEF RemovalInv

-----------------------------------------------------------------------------
(* A step on one item.                                                      *)

LEMMA ItemStep ==
  ASSUME Quiet, TypeOK, NEW k \in Key,
         \/ LookItem(k) \/ RecordItem(k) \/ PutItem(k) \/ PutItemTwice(k)
         \/ SkipItem(k) \/ HoldItem(k) \/ FailUnkeyed(k)
         \/ VanishItem(k) \/ PutItemLost(k) \/ \E park \in BOOLEAN : FailItem(k, park)
  PROVE  /\ pass.pc = "items" /\ pass'.pc = "items" /\ work[k].st # "out"
         /\ pass'.todo = pass.todo /\ pass'.cur = pass.cur /\ pass'.next = pass.next
         /\ pass'.began = pass.began /\ pass'.stores = pass.stores /\ pass'.held = pass.held
         /\ pass'.removals = pass.removals /\ pass'.removedHere = pass.removedHere
         /\ pass'.seen \in {pass.seen, pass.seen \cup {k}}
         /\ pass'.unfinished = {} =>
               pass.unfinished = {} /\ (work[k].st = "listed" => k \in pass'.seen)
         /\ \A j \in Key : j # k => row'[j] = row[j] /\ work'[j] = work[j]
         /\ work'[k].ref \in {NoRef, work[k].ref}
         /\ work'[k].st # "out" => work'[k].ref = work[k].ref
         /\ \/ row'[k].ref = row[k].ref /\ row'[k].coll = row[k].coll
            \/ row'[k].ref = work[k].ref /\ row'[k].coll = pass.cur
         /\ SourceStill /\ UNCHANGED <<cursor, phase>>
  <1>0. pass \in Pass
    BY DEF TypeOK
  <1>1. CASE LookItem(k)
    BY <1>0, <1>1, LookStep, OutFields DEF Pass, sourceVars, SourceStill
  <1>2. CASE RecordItem(k)
    BY <1>0, <1>2, RecordStep, OutFields DEF sourceVars, SourceStill
  <1>3. CASE PutItem(k) \/ PutItemTwice(k)
    BY <1>0, <1>3, PutStep DEF sourceVars, SourceStill
  <1>4. CASE SkipItem(k) \/ HoldItem(k) \/ FailUnkeyed(k)
    <2>1. /\ pass.pc = "items" /\ work' = [work EXCEPT ![k] = Out]
          /\ SourceStill /\ UNCHANGED <<row, cursor, phase>>
      BY <1>4, LetGoStep
    <2>2. /\ work'[k] = Out /\ \A j \in Key : j # k => work'[j] = work[j]
      BY <2>1 DEF TypeOK
    <2>3. work[k].st # "out"
      BY <1>4 DEF SkipItem, HoldItem, FailUnkeyed, At
    <2>4. \/ pass' = [pass EXCEPT !.unfinished = @ \cup {pass.cur}]
          \/ pass' = [pass EXCEPT !.heldHere = TRUE] /\ work[k].st = "write"
          \/ pass' = [pass EXCEPT !.stopped = TRUE] /\ work[k].st = "write"
      BY <1>4, LetGoStep DEF Quiet
    <2>5. QED
      BY <1>0, <2>1, <2>2, <2>3, <2>4, OutFields DEF Pass
  <1>5. CASE VanishItem(k) \/ PutItemLost(k) \/ \E park \in BOOLEAN : FailItem(k, park)
    <2>1. pass.pc = "items" /\ work[k].st = "write" /\ \E park \in BOOLEAN : Failed(k, park)
      BY <1>5, FailStep
    <2>2. QED
      BY <1>0, <2>1, FailedStep, OutFields DEF Pass, sourceVars, SourceStill
  <1>6. QED
    BY <1>1, <1>2, <1>3, <1>4, <1>5

\* The removal of an item in hand comes after the listing it is in hand from.
LEMMA InHandLater ==
  ASSUME TypeOK, CursorInv, RemovalInv, NEW k \in Key, work[k].st # "out", NEW d \in dead,
         Gone(k, row[k].ref, d) \/ Gone(k, work[k].ref, d)
  PROVE  Later(d)
  <1>1. SourceInv /\ RefInv /\ TouchedInv /\ BeganInv
    BY DEF RemovalInv
  <1>2. CASE Gone(k, row[k].ref, d)
    BY <1>1, <1>2 DEF TouchedInv, Touched
  <1>3. CASE Gone(k, work[k].ref, d)
    <2>1. d.ref = work[k].ref /\ at[k] = Nowhere /\ ver[k] = d.stamp
      BY <1>3 DEF Gone
    <2>2. d.coll = pass.cur /\ pass.pc = "items"
      BY <1>1, <2>1 DEF RefInv, LivesIn, CursorInv, WorkInv
    <2>3. d.stamp > pass.next /\ pass.cur \in Collection
      BY <2>1, <2>2, InHand, RemovalTypes
    <2>4. pass.held[pass.cur] <= pass.next /\ pass.cur \notin pass.todo
      BY <1>1, <2>2, <2>3 DEF CursorInv, PassInv, BeganInv
    <2>5. QED
      BY <2>2, <2>3, <2>4, RemovalTypes DEF Later
  <1>4. QED
    BY <1>2, <1>3

LEMMA ItemKeeps ==
  ASSUME Quiet, TypeOK, CursorInv, RemovalInv, NEW k \in Key,
         \/ LookItem(k) \/ RecordItem(k) \/ PutItem(k) \/ PutItemTwice(k)
         \/ SkipItem(k) \/ HoldItem(k) \/ FailUnkeyed(k)
         \/ VanishItem(k) \/ PutItemLost(k) \/ \E park \in BOOLEAN : FailItem(k, park)
  PROVE  RemovalInv'
  <1>1. /\ pass.pc = "items" /\ pass'.pc = "items" /\ work[k].st # "out"
        /\ pass'.todo = pass.todo /\ pass'.cur = pass.cur /\ pass'.next = pass.next
        /\ pass'.began = pass.began /\ pass'.stores = pass.stores /\ pass'.held = pass.held
        /\ pass'.removals = pass.removals /\ pass'.removedHere = pass.removedHere
        /\ SourceStill /\ UNCHANGED <<clock, at, ver, href, dead, cursor>>
    BY ItemStep DEF SourceStill
  <1>2. /\ pass'.seen \in {pass.seen, pass.seen \cup {k}}
        /\ pass'.unfinished = {} =>
              pass.unfinished = {} /\ (work[k].st = "listed" => k \in pass'.seen)
        /\ \A j \in Key : j # k => row'[j] = row[j] /\ work'[j] = work[j]
        /\ work'[k].ref \in {NoRef, work[k].ref}
        /\ work'[k].st # "out" => work'[k].ref = work[k].ref
        /\ \/ row'[k].ref = row[k].ref /\ row'[k].coll = row[k].coll
           \/ row'[k].ref = work[k].ref /\ row'[k].coll = pass.cur
    BY ItemStep
  <1>3. SourceInv /\ RefInv /\ TouchedInv /\ ToldInv /\ ReadInv /\ SeenInv /\ BeganInv
    BY DEF RemovalInv
  <1>4. \A d \in dead : Later(d)' <=> Later(d)
    BY <1>1 DEF Later
  <1>5. SourceInv'
    BY <1>1, <1>3, Still
  <1>6. RefInv'
    <2>1. NoRef \in RefOf(k)
      BY DEF RefOf
    <2>2. QED
      BY <1>1, <1>2, <1>3, <2>1, Still DEF RefInv
  <1>7. ASSUME NEW d \in dead, Gone(k, row[k].ref, d)' PROVE Later(d)
    <2>1. Gone(k, row[k].ref, d) \/ Gone(k, work[k].ref, d)
      BY <1>1, <1>2, <1>7 DEF Gone
    <2>2. QED
      BY <1>1, <2>1, InHandLater
  <1>8. TouchedInv'
    <2> SUFFICES ASSUME NEW j \in Key, Touched(j)'
                 PROVE  /\ at[j] \in pass.todo =>
                             /\ href[j] # row'[j].ref
                             /\ work'[j].st # "out" => href[j] # work'[j].ref
                        /\ \A d \in dead : Gone(j, row[j].ref, d)' => Later(d)
      BY <1>1, <1>4 DEF TouchedInv
    <2>1. CASE j = k
      <3>1. at[k] \in pass.todo => href[k] # row[k].ref /\ href[k] # work[k].ref
        BY <1>1, <1>3 DEF TouchedInv, Touched
      <3>2. QED
        BY <1>2, <1>7, <2>1, <3>1
    <2>2. CASE j # k
      <3>1. Touched(j) /\ row'[j] = row[j] /\ work'[j] = work[j]
        BY <1>2, <2>2 DEF Touched
      <3>2. QED
        BY <1>1, <1>3, <3>1 DEF TouchedInv, Gone
    <2>3. QED
      BY <2>1, <2>2
  <1>9. ToldInv'
    BY <1>1, <1>3 DEF ToldInv
  <1>10. ReadInv'
    <2>1. ASSUME NEW d \in dead, NEW j \in Key, Gone(j, row[j].ref, d)', isOnTarget(row'[j]),
                 Passes(d, pass.held[d.coll])
          PROVE  d \in pass.removals \/ row'[j].reported
      <3>1. j # k
        BY <1>7, <2>1, RemovalTypes DEF Later, Passes
      <3>2. row'[j] = row[j]
        BY <1>2, <3>1
      <3>3. QED
        BY <1>1, <1>3, <2>1, <3>2 DEF ReadInv, Gone
    <2>2. QED
      BY <1>1, <1>3, <2>1 DEF ReadInv, Passes
  <1>11. SeenInv'
    BY <1>1, <1>2, <1>3 DEF SeenInv
  <1>12. BeganInv'
    BY <1>1, <1>3 DEF BeganInv
  <1>13. QED
    BY <1>5, <1>6, <1>8, <1>9, <1>10, <1>11, <1>12 DEF RemovalInv

-----------------------------------------------------------------------------
LEMMA RemovalStep ==
  ASSUME Quiet
  PROVE  TypeOK /\ CursorInv /\ HandInv /\ RemovalInv /\ [Next]_vars => RemovalInv'
  <1> SUFFICES ASSUME TypeOK, CursorInv, HandInv, RemovalInv, [Next]_vars PROVE RemovalInv'
    OBVIOUS
  <1>1. CASE UNCHANGED vars
    BY <1>1 DEF vars, RemovalInv, SourceInv, RefInv, TouchedInv, ToldInv, ReadInv, SeenInv, BeganInv,
                RefOf, LivesIn, Touched, Gone, Later, Passes
  <1>2. CASE Source \/ Owner \/ Operator
    BY <1>2, SourceKeeps, OwnerKeeps, OperatorKeeps
  <1>3. CASE Folders \/ Stop \/ AbandonPass \/ \E c \in Collection : OpenUnseeing(c) \/ UnreadFolder(c)
    BY <1>3, StartKeeps, CloseKeeps, ConcludeKeeps, EndKeeps, OpenKeeps, LeaveKeeps, SaveKeeps,
       ResolveKeeps, StopKeeps DEF Folders
  <1>4. QED
    BY <1>1, <1>2, <1>3, ItemKeeps, Kinds

\* The invariant behind the two theorems below.
THEOREM RemovalInvariant ==
  ASSUME Quiet PROVE Spec => [](TypeOK /\ CursorInv /\ HandInv /\ RemovalInv)
  <1>1. Init => TypeOK /\ CursorInv /\ HandInv /\ RemovalInv
    BY InitType, InitCursor, InitHand, InitRemoval
  <1>2. TypeOK /\ HandInv /\ [Next]_vars => (TypeOK /\ HandInv)'
    BY TypeStep, HandStep
  <1>3. TypeOK /\ CursorInv /\ HandInv /\ RemovalInv /\ [Next]_vars => RemovalInv'
    BY RemovalStep
  <1>4. Spec => []CursorInv
    BY CursorInvariant
  <1>5. QED
    BY <1>1, <1>2, <1>3, <1>4, PTL DEF Spec

\* A pass reports a deletion only of an item that is no longer where its row says,
\* or that changed while the pass ran.
THEOREM NoLiveItemReported == ASSUME Quiet PROVE Spec => LiveItemNotReported
  <1>1. TypeOK /\ RemovalInv /\ [Next]_vars =>
           [\A k \in Key :
              ~row[k].reported /\ row'[k].reported => at[k] # row[k].coll \/ ver[k] > pass.began]_vars
    <2> SUFFICES ASSUME TypeOK, RemovalInv, Next, NEW k \in Key, ~row[k].reported, row'[k].reported,
                        at[k] = row[k].coll
                 PROVE  ver[k] > pass.began
      OBVIOUS
    <2>1. PICK d \in pass.removals : ResolveRemoval(d)
      <3>1. ~(Source \/ Owner \/ Operator)
        BY AroundStep
      <3>2. ~\E j \in Key : LookItem(j) \/ RecordItem(j)
        BY LookStep, RecordStep
      <3>3. ~\E j \in Key : \/ PutItem(j) \/ PutItemTwice(j)
                            \/ SkipItem(j) \/ HoldItem(j) \/ FailUnkeyed(j)
        BY PutStep, LetGoStep
      <3>4. ~\E j \in Key : \/ VanishItem(j) \/ PutItemLost(j)
                            \/ \E park \in BOOLEAN : FailItem(j, park)
        BY FailStep, FailedStep
      <3>5. QED
        BY <3>1, <3>2, <3>3, <3>4, Kinds, BetweenStep
    <2>2. /\ pass.pc = "resolve" /\ row[k].ref = d.ref /\ k \notin pass.seen
      BY <2>1, ResolveStep
    <2>3. SourceInv /\ RefInv /\ ToldInv /\ SeenInv /\ BeganInv
      BY DEF RemovalInv
    <2>4. /\ d \in dead /\ pass.stores /\ cursor[d.coll] # NoCursor /\ cursor[d.coll] < d.stamp
      BY <2>3 DEF ToldInv
    <2>5. row[k].ref # NoRef /\ d.ref \in RefOf(k) /\ d.coll = row[k].coll
      BY <2>2, <2>3, <2>4 DEF SourceInv, RefInv, LivesIn
    <2>6. at[k] \in Collection /\ at[k] # Nowhere
      BY <2>4, <2>5, RemovalTypes
    <2>7. d.stamp <= ver[k]
      BY <2>3, <2>4, <2>5, <2>6 DEF SourceInv
    <2>8. cursor[at[k]] # NoCursor /\ cursor[at[k]] < ver[k]
      BY <2>4, <2>5, <2>6, <2>7, RemovalTypes
    <2>9. pass.todo = {} /\ pass.unfinished = {}
      BY <2>2, <2>3 DEF BeganInv
    <2>10. ~(ver[k] <= pass.began)
      BY <2>2, <2>3, <2>4, <2>6, <2>8, <2>9 DEF SeenInv
    <2>11. QED
      BY <2>10, RemovalTypes
  <1>2. QED
    BY <1>1, RemovalInvariant, PTL DEF Spec, LiveItemNotReported

\* A cursor that moves on passes no removal of the object a row on the target
\* names, unless the row carries the report or the item has come back.
THEOREM NoRemovalSkipped == ASSUME Quiet PROVE Spec => RemovalNotSkipped
  <1>1. TypeOK /\ RemovalInv /\ [Next]_vars =>
           [\A d \in dead, k \in Key :
              (/\ cursor[d.coll] # NoCursor /\ cursor[d.coll] < d.stamp /\ d.stamp <= cursor'[d.coll]
               /\ d.ref = row[k].ref /\ isOnTarget(row[k]) /\ at[k] = Nowhere /\ ver[k] = d.stamp)
              => row'[k].reported]_vars
    <2> SUFFICES ASSUME TypeOK, RemovalInv, Next, NEW d \in dead, NEW k \in Key,
                        cursor[d.coll] # NoCursor, cursor[d.coll] < d.stamp,
                        d.stamp <= cursor'[d.coll], Gone(k, row[k].ref, d), isOnTarget(row[k])
                 PROVE  row'[k].reported
      BY DEF Gone
    <2>1. ReadInv /\ d.coll \in Collection /\ d.stamp \in Nat /\ d.stamp > 0
      BY RemovalTypes DEF RemovalInv, SourceInv
    <2>2. cursor'[d.coll] # cursor[d.coll]
      BY <2>1, RemovalTypes
    <2>3. CASE CloseFolder
      <3>1. pass.pc = "items" /\ pass.stores /\ ~pass.removedHere /\ d.coll = pass.cur
            /\ cursor'[d.coll] = pass.next
        BY <2>1, <2>2, <2>3, CloseStep, RemovalTypes DEF mayMoveCursor
      <3>2. QED
        BY <2>1, <3>1 DEF ReadInv, Passes
    <2>4. ASSUME NEW c \in Collection, SaveHeldCursor(c) PROVE row'[k].reported
      <3>1. cursor'[d.coll] = pass.held[d.coll] /\ pass.removals = {} /\ row' = row
        BY <2>1, <2>2, <2>4, SaveStep, RemovalTypes
      <3>2. QED
        BY <2>1, <3>1 DEF ReadInv, Passes
    <2>5. ~\E j \in Key : RetryFailure(j)
      <3>1. ASSUME NEW j \in Key, RetryFailure(j) PROVE cursor'[d.coll] = 0
        BY <2>1, <3>1 DEF RetryFailure, clearCursors, NoCursor
      <3>2. QED
        BY <2>1, <3>1
    <2>6. CloseFolder \/ \E c \in Collection : SaveHeldCursor(c)
      <3>1. ~(Source \/ Owner \/ Operator)
        BY <2>2, <2>5 DEF Source, SourceCreate, SourceEdit, SourceMove, SourceRemove, Owner, OwnerWrite,
             OwnerRemove, Operator, ExecuteCutover, RollBackCutover, AcceptFailure
      <3>2. ~\E j \in Key : LookItem(j) \/ RecordItem(j)
        BY <2>2, LookStep, RecordStep
      <3>3. ~\E j \in Key : \/ PutItem(j) \/ PutItemTwice(j)
                            \/ SkipItem(j) \/ HoldItem(j) \/ FailUnkeyed(j)
        BY <2>2, PutStep, LetGoStep
      <3>4. ~\E j \in Key : \/ VanishItem(j) \/ PutItemLost(j)
                            \/ \E park \in BOOLEAN : FailItem(j, park)
        BY <2>2, FailStep, FailedStep
      <3>5. ~(StartPass \/ ConcludePass \/ EndPass \/ Stop \/ AbandonPass)
        BY <2>2 DEF StartPass, ConcludePass, EndPass, Stop, AbandonPass
      <3>6. ~\E c \in Collection : OpenFolder(c) \/ OpenUnseeing(c) \/ SkipFolder(c) \/ UnreadFolder(c)
        BY <2>2 DEF OpenFolder, OpenUnseeing, Open, SkipFolder, UnreadFolder
      <3>7. ~\E n \in pass.removals : ResolveRemoval(n)
        BY <2>2 DEF ResolveRemoval
      <3>8. QED
        BY <3>1, <3>2, <3>3, <3>4, <3>5, <3>6, <3>7, Kinds DEF Folders
    <2>7. QED
      BY <2>3, <2>4, <2>6
  <1>2. QED
    BY <1>1, RemovalInvariant, PTL DEF Spec, RemovalNotSkipped
=============================================================================
