--------------------------- MODULE CursorProofs ---------------------------
(***************************************************************************)
(* A saved cursor retires nothing that still has to be carried over, for   *)
(* every set of items and collections and any number of changes, passes,   *)
(* faults and attempts, where the listing gives every key, no cutover is   *)
(* executed and the operator answers between passes.  The runs that drop   *)
(* one of these three each find the cursor in front of unfinished work, so *)
(* none can go.                                                            *)
(***************************************************************************)
EXTENDS DomainSyncProofs

Quiet == Unkeyed = {} /\ MaxCutovers = 0 /\ OperatorActs # "any time"

\* The decision about a known item, seen from the cursor: an item the pass
\* passes over is carried over, and one carried over is passed over.
LEMMA PassedOver ==
  ASSUME NEW r \in Row, NEW v \in Nat \ {0}, NEW c \in Collection,
         r.status \in {"copied", "updated"} => r.coll \in Collection,
         ~writes(classifyKnownItem(r, v, c), TRUE)
  PROVE  LET l == Looked(r, classifyKnownItem(r, v, c), v, c)
         IN /\ settled(l)
            /\ l.status \in {"copied", "updated"} /\ l.coll = c => l.sv = v
  <1> USE SyncConstants DEF NoVersion
  <1> DEFINE act == classifyKnownItem(r, v, c)
             l == Looked(r, act, v, c)
  <1>1. act \notin {"create", "retry-failed", "rewrite"}
    BY DEF writes
  <1>2. /\ l.status = r.status /\ l.coll = r.coll
        /\ l.attempts = r.attempts /\ l.parked = r.parked
        /\ l.sv = IF act = "record-version" THEN v ELSE r.sv
    BY DEF Looked, clearAbsent, recordMove, clearMove, Row
  <1>3. settled(l) <=> settled(r)
    BY <1>2 DEF settled, isOnTarget, needsDecision
  <1>4. settled(r)
    BY <1>1 DEF classifyKnownItem, failedItem, settled
  <1>5. ASSUME r.status \in {"copied", "updated"}, r.coll = c PROVE r.sv = v \/ act = "record-version"
    BY <1>1, <1>5 DEF classifyKnownItem, presentItem, isOnTarget
  <1>6. QED
    BY <1>2, <1>3, <1>4, <1>5 DEF isOnTarget

LEMMA CarriedIsPassedOver ==
  ASSUME NEW r \in Row, NEW v \in Nat \ {0}, NEW c \in Collection,
         r.status \in {"copied", "updated"} => r.coll \in Collection,
         settled(r), r.status \in {"copied", "updated"} /\ r.coll = c => r.sv = v
  PROVE  ~writes(classifyKnownItem(r, v, c), TRUE)
  <1> USE SyncConstants DEF NoVersion
  <1>1. CASE r.status \in {"left_behind", "tombstoned"}
    <2>1. CASE r.status = "left_behind"
      BY <2>1 DEF classifyKnownItem, writes, isOnTarget
    <2>2. CASE r.status = "tombstoned"
      BY <2>2 DEF classifyKnownItem, writes, isOnTarget
    <2>3. QED
      BY <1>1, <2>1, <2>2
  <1>2. CASE r.status = "failed"
    BY <1>2 DEF classifyKnownItem, failedItem, settled, isOnTarget, writes
  <1>3. CASE isOnTarget(r)
    BY <1>3 DEF classifyKnownItem, presentItem, isOnTarget, writes
  <1>4. QED
    BY <1>1, <1>2, <1>3 DEF settled, needsDecision

-----------------------------------------------------------------------------
LEMMA InitCursor == Init => CursorInv
  <1> SUFFICES ASSUME Init PROVE CursorInv
    OBVIOUS
  <1>1. /\ clock = 1 /\ cursor = [c \in Collection |-> 0] /\ phase = 0 /\ pass = Idle
        /\ work = Unlisted
    BY DEF Init, NoCursor
  <1>2. PICK c \in Collection, old \in SUBSET Legacy :
           /\ at = [k \in Key |-> IF k \in old THEN c ELSE Nowhere]
           /\ ver = [k \in Key |-> IF k \in old THEN 1 ELSE 0]
           /\ row = [k \in Key |-> IF k \in old
                                   THEN [NoRow EXCEPT !.status = "copied", !.coll = c] ELSE NoRow]
    BY DEF Init
  <1>3. pass.pc = "idle" /\ pass.next = 0 /\ pass.held = [d \in Collection |-> 0]
    BY <1>1 DEF Idle, NoCursor
  <1>4. \A k \in Key : work[k].st = "out"
    BY <1>1 DEF Unlisted, Out
  <1>5. ASSUME NEW k \in Key
        PROVE  /\ ver[k] <= clock /\ at[k] \in Collection \cup {Nowhere}
               /\ at[k] # Nowhere => ver[k] > 0
               /\ row[k].status \in {"copied", "updated"} => row[k].coll \in Collection
    <2>1. CASE k \in old
      <3>1. row[k] = [NoRow EXCEPT !.status = "copied", !.coll = c]
        BY <1>2, <2>1
      <3>2. row[k].coll = c
        BY <3>1 DEF NoRow
      <3>3. QED
        BY <1>1, <1>2, <2>1, <3>2
    <2>2. CASE k \notin old
      <3>1. row[k] = NoRow /\ at[k] = Nowhere /\ ver[k] = 0
        BY <1>1, <1>2, <2>2
      <3>2. QED
        BY <1>1, <3>1 DEF NoRow, isOnTarget
    <2>3. QED
      BY <2>1, <2>2
  <1>6. StampsInv
    BY <1>1, <1>3, <1>5 DEF StampsInv
  <1>7. PassInv
    BY <1>1, <1>3 DEF PassInv, NoCursor
  <1>8. ASSUME NEW k \in Key PROVE ~Retired(k, cursor) /\ ~Retired(k, pass.held)
    <2>1. ver[k] \in Nat
      BY <1>2
    <2>2. QED
      BY <1>1, <1>3, <1>5, <2>1 DEF Retired
  <1>9. RetiredInv
    BY <1>5, <1>8 DEF RetiredInv
  <1>10. WorkInv /\ DoneInv
    BY <1>3, <1>4 DEF WorkInv, DoneInv
  <1>11. QED
    BY <1>6, <1>7, <1>9, <1>10 DEF CursorInv

\* A change at the source takes a stamp no cursor has reached.
LEMMA SourceCursor == TypeOK /\ CursorInv /\ Source => CursorInv'
  <1> SUFFICES ASSUME TypeOK, CursorInv, Source PROVE CursorInv'
    OBVIOUS
  <1>1. /\ clock' = clock + 1
        /\ UNCHANGED <<row, cursor, phase, pass, work>>
        /\ at' \in [Key -> Collection \cup {Nowhere}] /\ ver' \in [Key -> Nat]
        /\ \A k \in Key : (at'[k] = at[k] /\ ver'[k] = ver[k]) \/ ver'[k] = clock + 1
    BY DEF Source, SourceCreate, SourceEdit, SourceMove, SourceRemove, TypeOK
  <1>2. /\ clock \in Nat /\ pass.next \in Nat /\ cursor \in [Collection -> Nat]
        /\ pass.held \in [Collection -> Nat] /\ ver \in [Key -> Nat]
        /\ at \in [Key -> Collection \cup {Nowhere}]
    BY DEF TypeOK, Pass
  <1>3. StampsInv'
    BY <1>1, <1>2 DEF StampsInv, CursorInv
  <1>4. PassInv'
    BY <1>1 DEF PassInv, CursorInv
  <1>5. ASSUME NEW k \in Key
        PROVE  \/ at'[k] = at[k] /\ ver'[k] = ver[k]
               \/ ~Retired(k, cursor)' /\ ~Retired(k, pass.held)' /\ ver'[k] > pass.next
    BY <1>1, <1>2 DEF Retired, CursorInv, StampsInv
  <1>6. RetiredInv'
    BY <1>1, <1>5 DEF RetiredInv, CursorInv, Retired, Carried
  <1>7. WorkInv'
    BY <1>1, <1>5 DEF WorkInv, CursorInv, Retired
  <1>8. DoneInv'
    BY <1>1, <1>2, <1>5 DEF DoneInv, CursorInv, Carried
  <1>9. QED
    BY <1>3, <1>4, <1>6, <1>7, <1>8 DEF CursorInv

LEMMA OwnerCursor == CursorInv /\ Owner => CursorInv'
  <1> SUFFICES ASSUME CursorInv, Owner PROVE CursorInv'
    OBVIOUS
  <1>1. UNCHANGED <<clock, at, ver, row, cursor, phase, pass, work>>
    BY DEF Owner, OwnerWrite, OwnerRemove, sourceVars
  <1>2. QED
    BY <1>1 DEF CursorInv, StampsInv, PassInv, RetiredInv, WorkInv, DoneInv, Retired, Carried

\* An answer comes between passes, when no cursor is held and no item in hand.
LEMMA OperatorCursor ==
  ASSUME Quiet PROVE TypeOK /\ CursorInv /\ Operator => CursorInv'
  <1> SUFFICES ASSUME TypeOK, CursorInv, Operator PROVE CursorInv'
    OBVIOUS
  <1>1. ~ExecuteCutover /\ ~RollBackCutover
    <2>1. phase = 0 /\ MaxCutovers = 0
      BY DEF CursorInv, PassInv, Quiet
    <2>2. ~(phase < MaxCutovers)
      BY <2>1
    <2>3. QED
      BY <2>2 DEF ExecuteCutover, RollBackCutover
  <1>2. PICK k \in Key : RetryFailure(k) \/ AcceptFailure(k)
    BY <1>1 DEF Operator
  <1>3. /\ pass.pc = "idle" /\ UNCHANGED <<clock, at, ver, phase, pass, work>>
        /\ row[k].status = "failed"
    BY <1>2 DEF RetryFailure, clearCursors, AcceptFailure, operatorMay, sourceVars, Quiet
  <1>4. \A j \in Key : work[j].st = "out"
    BY <1>3 DEF CursorInv, WorkInv
  <1>5. \A c \in Collection : pass.held[c] = 0
    BY <1>3 DEF CursorInv, PassInv, NoCursor
  <1>6. WorkInv' /\ DoneInv'
    BY <1>3, <1>4 DEF WorkInv, DoneInv
  <1>7. \A j \in Key : j # k => row'[j] = row[j]
    BY <1>2 DEF RetryFailure, clearCursors, AcceptFailure, TypeOK
  <1>8. CASE RetryFailure(k)
    <2>1. cursor' = [c \in Collection |-> 0]
      BY <1>8 DEF RetryFailure, clearCursors, NoCursor
    <2>2. row'[k].status = "failed"
      BY <1>3, <1>8 DEF RetryFailure, clearCursors, TypeOK, Row
    <2>a. clock \in Nat /\ at \in [Key -> Collection \cup {Nowhere}] /\ ver \in [Key -> Nat]
      BY DEF TypeOK
    <2>b. StampsInv'
      BY <1>3, <2>a, <2>1 DEF CursorInv, StampsInv
    <2>3. PassInv'
      BY <1>3 DEF CursorInv, PassInv
    <2>4. ASSUME NEW j \in Key PROVE ~Retired(j, cursor)' /\ ~Retired(j, pass.held)'
      BY <1>3, <1>5, <2>1, <2>a DEF Retired, CursorInv, StampsInv
    <2>5. RetiredInv'
      BY <1>7, <2>2, <2>4 DEF RetiredInv, CursorInv, isOnTarget
    <2>6. QED
      BY <1>6, <2>b, <2>3, <2>5 DEF CursorInv
  <1>9. CASE AcceptFailure(k)
    <2>1. row'[k].status = "left_behind" /\ cursor' = cursor
      BY <1>9 DEF AcceptFailure, TypeOK, Row
    <2>2. StampsInv' /\ PassInv'
      BY <1>3, <2>1 DEF CursorInv, StampsInv, PassInv
    <2>3. Carried(k)' /\ ~isOnTarget(row'[k])
      BY <2>1 DEF Carried, settled, isOnTarget
    <2>4. RetiredInv'
      BY <1>3, <1>7, <2>1, <2>3 DEF RetiredInv, CursorInv, Retired, Carried
    <2>5. QED
      BY <1>6, <2>2, <2>4 DEF CursorInv
  <1>10. QED
    BY <1>2, <1>8, <1>9

-----------------------------------------------------------------------------
\* A step on one item of the collection in hand: what it owes the invariant.
LEMMA ItemFrame ==
  ASSUME TypeOK, CursorInv, NEW k \in Key,
         UNCHANGED <<clock, at, ver, cursor, phase>>,
         pass.pc = "items", pass'.pc = "items", pass'.cur = pass.cur, pass'.next = pass.next,
         pass'.held = pass.held, pass'.authority = pass.authority,
         mayMoveCursor(pass') => mayMoveCursor(pass),
         \A j \in Key : j # k => row'[j] = row[j] /\ work'[j] = work[j],
         row'[k].status \in {"copied", "updated"} => row'[k].coll \in Collection,
         Retired(k, cursor) \/ Retired(k, pass.held) => Carried(k)',
         work'[k].st # "out" => work[k].st # "out" /\ work'[k].ver = work[k].ver,
         work'[k].st \in {"write", "record"} => ~Retired(k, cursor) /\ ~Retired(k, pass.held),
         (/\ mayMoveCursor(pass') /\ work'[k].st = "out"
          /\ at[k] = pass.cur /\ ver[k] <= pass.next) => Carried(k)'
  PROVE  CursorInv'
  <1>1. StampsInv' /\ PassInv'
    BY DEF CursorInv, StampsInv, PassInv
  <1>2. RetiredInv'
    BY DEF CursorInv, RetiredInv, Retired, Carried
  <1>3. WorkInv'
    BY DEF CursorInv, WorkInv, Retired
  <1>4. DoneInv'
    BY DEF CursorInv, DoneInv, Carried
  <1>5. QED
    BY <1>1, <1>2, <1>3, <1>4 DEF CursorInv

\* An item in hand either is as it was listed, or is behind no cursor.
LEMMA InHand ==
  ASSUME TypeOK, CursorInv, NEW k \in Key, work[k].st # "out"
  PROVE  /\ pass.pc = "items" /\ pass.authority /\ pass.cur \in Collection
         /\ \/ at[k] = pass.cur /\ ver[k] = work[k].ver /\ ver[k] \in Nat \ {0}
            \/ ver[k] > pass.next /\ ~Retired(k, cursor) /\ ~Retired(k, pass.held)
  <1>1. /\ pass.pc = "items"
        /\ (at[k] = pass.cur /\ ver[k] = work[k].ver) \/ ver[k] > pass.next
    BY DEF CursorInv, WorkInv
  <1>2. pass.authority /\ pass.cur \in Collection /\ pass.cur # Nowhere
    BY <1>1, SyncConstants DEF CursorInv, PassInv, TypeOK
  <1>3. /\ ver[k] \in Nat /\ pass.next \in Nat /\ at[k] \in Collection \cup {Nowhere}
        /\ cursor \in [Collection -> Nat] /\ pass.held \in [Collection -> Nat]
    BY DEF TypeOK, Pass
  <1>4. CASE ver[k] > pass.next
    BY <1>1, <1>2, <1>3, <1>4 DEF Retired, CursorInv, PassInv
  <1>5. CASE at[k] = pass.cur /\ ver[k] = work[k].ver
    BY <1>1, <1>2, <1>3, <1>5 DEF CursorInv, StampsInv
  <1>6. QED
    BY <1>1, <1>4, <1>5

LEMMA LookCursor ==
  ASSUME Quiet, TypeOK, CursorInv, NEW k \in Key, LookItem(k)
  PROVE  CursorInv'
  <1> DEFINE act == classifyKnownItem(row[k], work[k].ver, pass.cur)
             l == Looked(row[k], act, work[k].ver, pass.cur)
  <1>1. work[k].st = "listed" /\ pass.pc = "items" /\ k \notin Unkeyed
    BY DEF LookItem, At, Quiet
  <1>2. /\ pass.authority /\ pass.cur \in Collection
        /\ \/ at[k] = pass.cur /\ ver[k] = work[k].ver /\ ver[k] \in Nat \ {0}
           \/ ver[k] > pass.next /\ ~Retired(k, cursor) /\ ~Retired(k, pass.held)
    BY <1>1, InHand
  <1>3. row' = IF act = "create" THEN row ELSE [row EXCEPT ![k] = l]
    BY <1>1 DEF LookItem
  <1>4. work' = [work EXCEPT ![k] = IF writes(act, pass.authority)
                   THEN [work[k] EXCEPT !.st = "write", !.rewrite = (act = "rewrite"),
                                        !.bytes = Fetched(k)]
                   ELSE Out]
    BY DEF LookItem
  <1>5. pass' = [pass EXCEPT !.seen = @ \cup {k}] /\ UNCHANGED <<sourceVars, cursor, phase>>
    BY DEF LookItem
  <1>6. row[k] \in Row /\ work[k] \in Work /\ pass \in Pass /\ row \in [Key -> Row]
        /\ work \in [Key -> Work] /\ pass.next \in Nat /\ ver[k] \in Nat
    BY DEF TypeOK, Pass
  <1>7. l.status = row[k].status /\ l.coll = row[k].coll
    BY <1>6 DEF Looked, clearAbsent, recordMove, clearMove, Row
  <1>8. row[k].status \in {"copied", "updated"} => row[k].coll \in Collection
    BY DEF CursorInv, RetiredInv
  <1>9. \A j \in Key : j # k => row'[j] = row[j] /\ work'[j] = work[j]
    BY <1>3, <1>4, <1>6
  <1>10. row'[k].status \in {"copied", "updated"} => row'[k].coll \in Collection
    <2>1. row'[k] = row[k] \/ row'[k] = l
      BY <1>3, <1>6
    <2>2. QED
      BY <1>7, <1>8, <2>1 DEF isOnTarget
  <1>11. /\ pass'.pc = "items" /\ pass'.cur = pass.cur /\ pass'.next = pass.next
         /\ pass'.held = pass.held /\ pass'.authority = pass.authority
         /\ mayMoveCursor(pass') = mayMoveCursor(pass)
    BY <1>1, <1>5, <1>6 DEF Pass, mayMoveCursor
  <1>12. UNCHANGED <<clock, at, ver, cursor, phase>>
    BY <1>5 DEF sourceVars
  <1>13. CASE writes(act, TRUE)
    <2>1. work'[k].st = "write" /\ work'[k].ver = work[k].ver
      BY <1>2, <1>4, <1>6, <1>13 DEF Work
    <2>2. ~Retired(k, cursor) /\ ~Retired(k, pass.held)
      <3>1. CASE at[k] = pass.cur /\ ver[k] = work[k].ver /\ ver[k] \in Nat \ {0}
        <4>1. ~Carried(k)
          BY <1>2, <1>6, <1>8, <1>13, <3>1, CarriedIsPassedOver DEF Carried
        <4>2. QED
          BY <4>1 DEF CursorInv, RetiredInv
      <3>2. QED
        BY <1>2, <3>1
    <2>3. QED
      BY <1>1, <1>9, <1>10, <1>11, <1>12, <2>1, <2>2, ItemFrame
  <1>14. CASE ~writes(act, TRUE)
    <2>1. work'[k].st = "out"
      BY <1>2, <1>4, <1>6, <1>14 DEF Out
    <2>2. row'[k] = l
      <3>1. act # "create"
        BY <1>14 DEF writes
      <3>2. QED
        BY <1>3, <1>6, <3>1
    <2>3. ASSUME at[k] = pass.cur, ver[k] = work[k].ver, ver[k] \in Nat \ {0}
          PROVE  Carried(k)'
      <3>1. /\ settled(l)
            /\ l.status \in {"copied", "updated"} /\ l.coll = pass.cur => l.sv = ver[k]
        BY <1>2, <1>6, <1>8, <1>14, <2>3, PassedOver
      <3>2. QED
        BY <1>12, <2>2, <2>3, <3>1 DEF Carried
    <2>4. /\ Retired(k, cursor) \/ Retired(k, pass.held) => Carried(k)'
          /\ at[k] = pass.cur /\ ver[k] <= pass.next => Carried(k)'
      BY <1>2, <1>6, <2>3
    <2>5. QED
      BY <1>1, <1>9, <1>10, <1>11, <1>12, <2>1, <2>4, ItemFrame
  <1>15. QED
    BY <1>13, <1>14

\* A failure leaves the item to a retry, which holds the cursor, or to a person.
LEMMA FailedCursor ==
  ASSUME TypeOK, CursorInv, NEW k \in Key, NEW park \in BOOLEAN,
         At(k, "write"), Failed(k, park)
  PROVE  CursorInv'
  <1> DEFINE r == recordFailure(row[k], park, work[k].ref, pass.cur)
  <1>1. work[k].st = "write" /\ pass.pc = "items"
    BY DEF At
  <1>2. /\ row' = [row EXCEPT ![k] = r]
        /\ pass' = [pass EXCEPT !.retryable = @ \/ ~needsDecision(r)]
        /\ work' = [work EXCEPT ![k] = Out]
        /\ UNCHANGED <<clock, at, ver, cursor, phase>>
    BY DEF Failed, sourceVars
  <1>3. row \in [Key -> Row] /\ row[k] \in Row /\ work \in [Key -> Work] /\ pass \in Pass
    BY DEF TypeOK
  <1>4. r.status = "failed"
    BY <1>3 DEF recordFailure, Row
  <1>5. row'[k] = r /\ work'[k] = Out /\ \A j \in Key : j # k => row'[j] = row[j] /\ work'[j] = work[j]
    BY <1>2, <1>3
  <1> HIDE DEF r
  <1>6. /\ pass'.pc = "items" /\ pass'.cur = pass.cur /\ pass'.next = pass.next
        /\ pass'.held = pass.held /\ pass'.authority = pass.authority
        /\ mayMoveCursor(pass') => mayMoveCursor(pass) /\ needsDecision(r)
    BY <1>1, <1>2, <1>3 DEF Pass, mayMoveCursor
  <1>7. ~Retired(k, cursor) /\ ~Retired(k, pass.held)
    BY <1>1 DEF CursorInv, WorkInv
  <1>8. mayMoveCursor(pass') => Carried(k)'
    BY <1>4, <1>5, <1>6 DEF Carried, settled
  <1>9. row'[k].status = "failed" /\ work'[k].st = "out"
    <2>1. Out.st = "out"
      BY DEF Out
    <2>2. QED
      BY <1>4, <1>5, <2>1
  <1>10. QED
    BY <1>1, <1>2, <1>5, <1>6, <1>7, <1>8, <1>9, ItemFrame

\* What was written and is now recorded was listed at the version it is
\* recorded at, or has changed since.
LEMMA RecordCursor ==
  ASSUME TypeOK, CursorInv, NEW k \in Key, RecordItem(k)
  PROVE  CursorInv'
  <1> DEFINE r == Recorded(row[k], work[k], pass.cur)
  <1>1. work[k].st = "record" /\ pass.pc = "items"
    BY DEF RecordItem, At
  <1>2. /\ row' = [row EXCEPT ![k] = r] /\ work' = [work EXCEPT ![k] = Out]
        /\ UNCHANGED <<clock, at, ver, cursor, phase, pass>>
    BY DEF RecordItem, sourceVars
  <1>3. /\ row \in [Key -> Row] /\ row[k] \in Row /\ work \in [Key -> Work]
        /\ work[k] \in Work /\ ver[k] \in Nat /\ pass.next \in Nat
    BY DEF TypeOK, Pass
  <1>4. /\ pass.cur \in Collection
        /\ \/ at[k] = pass.cur /\ ver[k] = work[k].ver
           \/ ver[k] > pass.next
    BY <1>1, InHand
  <1>6. /\ r.status \in {"copied", "updated", "adopted"}
        /\ r.status # "adopted" => r.sv = work[k].ver /\ r.coll = pass.cur
    BY <1>3 DEF Recorded, Row, Work
  <1>7. row'[k] = r /\ work'[k] = Out /\ \A j \in Key : j # k => row'[j] = row[j] /\ work'[j] = work[j]
    BY <1>2, <1>3
  <1> HIDE DEF r
  <1>8. at[k] = pass.cur /\ ver[k] <= pass.next => Carried(k)'
    BY <1>2, <1>3, <1>4, <1>6, <1>7 DEF Carried, settled, isOnTarget
  <1>9. ~Retired(k, cursor) /\ ~Retired(k, pass.held)
    BY <1>1 DEF CursorInv, WorkInv
  <1>10. work'[k].st = "out"
    <2>1. Out.st = "out"
      BY DEF Out
    <2>2. QED
      BY <1>7, <2>1
  <1>11. row'[k].status \in {"copied", "updated"} => row'[k].coll \in Collection
    BY <1>4, <1>6, <1>7
  <1>12. QED
    BY <1>1, <1>2, <1>7, <1>8, <1>9, <1>10, <1>11, ItemFrame

\* A PUT changes the target alone, and the item stays in hand.
LEMMA PutCursor ==
  ASSUME TypeOK, CursorInv, NEW k \in Key, NEW res, At(k, "write"),
         work' = [work EXCEPT ![k] = [work[k] EXCEPT !.st = "record", !.res = res]],
         UNCHANGED <<clock, at, ver, row, cursor, phase, pass>>
  PROVE  CursorInv'
  <1>1. work[k].st = "write" /\ pass.pc = "items"
    BY DEF At
  <1>2. work'[k].st = "record" /\ work'[k].ver = work[k].ver
        /\ \A j \in Key : j # k => work'[j] = work[j]
    BY DEF TypeOK, Work
  <1>3. ~Retired(k, cursor) /\ ~Retired(k, pass.held)
    BY <1>1 DEF CursorInv, WorkInv
  <1>4. row[k].status \in {"copied", "updated"} => row[k].coll \in Collection
    BY DEF CursorInv, RetiredInv
  <1>5. QED
    BY <1>1, <1>2, <1>3, <1>4, ItemFrame

LEMMA ItemsCursor ==
  ASSUME Quiet PROVE TypeOK /\ CursorInv /\ Items => CursorInv'
  <1> SUFFICES ASSUME TypeOK, CursorInv, NEW k \in Key,
                      SkipItem(k) \/ LookItem(k) \/ VanishItem(k) \/ PutItem(k) \/ RecordItem(k)
               PROVE  CursorInv'
    BY DEF Items
  <1>1. CASE SkipItem(k)
    <2>1. /\ pass.pc = "items" /\ work[k].st = "listed" /\ pass.stopped
          /\ pass' = [pass EXCEPT !.unfinished = @ \cup {pass.cur}]
          /\ work' = [work EXCEPT ![k] = Out]
          /\ UNCHANGED <<clock, at, ver, row, cursor, phase>>
      BY <1>1 DEF SkipItem, At, sourceVars
    <2>2. /\ pass'.pc = "items" /\ pass'.cur = pass.cur /\ pass'.next = pass.next
          /\ pass'.held = pass.held /\ pass'.authority = pass.authority /\ ~mayMoveCursor(pass')
      BY <2>1 DEF TypeOK, Pass, mayMoveCursor
    <2>3. work'[k].st = "out" /\ \A j \in Key : j # k => work'[j] = work[j]
      BY <2>1 DEF TypeOK, Out
    <2>4. /\ row[k].status \in {"copied", "updated"} => row[k].coll \in Collection
          /\ Retired(k, cursor) \/ Retired(k, pass.held) => Carried(k)
      BY DEF CursorInv, RetiredInv
    <2>5. Carried(k) => Carried(k)'
      BY <2>1 DEF Carried
    <2>6. QED
      BY <2>1, <2>2, <2>3, <2>4, <2>5, ItemFrame
  <1>2. CASE LookItem(k)
    BY <1>2, LookCursor
  <1>3. CASE VanishItem(k)
    BY <1>3, FailedCursor DEF VanishItem
  <1>4. CASE PutItem(k)
    BY <1>4, PutCursor DEF PutItem, TypeOK, sourceVars
  <1>5. CASE RecordItem(k)
    BY <1>5, RecordCursor
  <1>6. QED
    BY <1>1, <1>2, <1>3, <1>4, <1>5

-----------------------------------------------------------------------------
\* A listing that leaves an item out had a cursor past it, or saw nothing.
LEMMA OpenCursor ==
  ASSUME Quiet, TypeOK, CursorInv, NEW c \in Collection,
         NEW items \in SUBSET listSince(c), NEW removed,
         Open(c, items, removed),
         items = listSince(c) \/ (prevCursor(c) = NoCursor /\ items = {} /\ removed = {})
  PROVE  CursorInv'
  <1>1. /\ pass.pc = "folders" /\ UNCHANGED <<clock, at, ver, row, cursor, phase>>
        /\ work' = [k \in Key |-> IF k \in items
                        THEN [Out EXCEPT !.st = "listed", !.ver = Version(k), !.ref = href[k]]
                        ELSE Out]
    BY DEF Open, sourceVars
  <1>2. /\ pass'.pc = "items" /\ pass'.cur = c /\ pass'.next = clock /\ pass'.held = pass.held
        /\ pass'.authority = pass.authority /\ pass'.stores = pass.stores
        /\ pass'.sawNothing <=> (prevCursor(c) = NoCursor /\ items = {} /\ removed = {})
    BY DEF Open, TypeOK, Pass
  <1>3. /\ clock \in Nat /\ cursor \in [Collection -> Nat] /\ ver \in [Key -> Nat]
        /\ pass.held \in [Collection -> Nat] /\ c # Nowhere
    BY SyncConstants DEF TypeOK, Pass
  <1>4. ASSUME NEW k \in Key, k \in items
        PROVE  work'[k].st = "listed" /\ at[k] = c /\ ver[k] = work'[k].ver
    BY <1>1, <1>4 DEF listSince, Version, Quiet, Out
  <1>5. ASSUME NEW k \in Key, k \notin items PROVE work'[k].st = "out"
    BY <1>1, <1>5 DEF Out
  <1>6. StampsInv'
    <2>1. UNCHANGED <<clock, at, ver, cursor>> /\ pass'.next = clock /\ pass'.held = pass.held
      BY <1>1, <1>2
    <2>2. QED
      BY <1>3, <2>1 DEF CursorInv, StampsInv
  <1>7. PassInv'
    BY <1>1, <1>2 DEF CursorInv, StampsInv, PassInv
  <1>8. RetiredInv'
    BY <1>1, <1>2 DEF CursorInv, RetiredInv, Retired, Carried
  <1>9. WorkInv'
    <2> SUFFICES ASSUME NEW k \in Key
                 PROVE  /\ work'[k].st # "out" => at'[k] = c /\ ver'[k] = work'[k].ver
                        /\ work'[k].st \notin {"write", "record"}
      BY <1>2 DEF WorkInv
    <2> QED
      BY <1>1, <1>4, <1>5
  <1>10. DoneInv'
    <2> SUFFICES ASSUME mayMoveCursor(pass'), NEW k \in Key, at[k] = c, work'[k].st = "out"
                 PROVE  Carried(k)
      BY <1>1, <1>2 DEF DoneInv, Carried
    <2>1. pass.stores /\ items = listSince(c)
      BY <1>2 DEF mayMoveCursor
    <2>2. k \notin listSince(c)
      BY <1>4, <2>1
    <2>3. ver[k] <= cursor[c]
      BY <1>3, <2>1, <2>2 DEF listSince, prevCursor
    <2>4. QED
      BY <1>3, <2>3 DEF CursorInv, RetiredInv, Retired
  <1>11. QED
    BY <1>6, <1>7, <1>8, <1>9, <1>10 DEF CursorInv

\* A step of the pass that takes no item, saves no cursor and holds no new one.
LEMMA PassFrame ==
  ASSUME TypeOK, CursorInv, UNCHANGED <<clock, at, ver, row, cursor, phase, work>>,
         pass.pc # "items", pass'.pc # "items", pass'.next <= clock,
         pass'.pc # "idle" => pass'.authority,
         pass'.held = pass.held \/ \A c \in Collection : pass'.held[c] = NoCursor,
         pass'.pc = "idle" => \A c \in Collection : pass'.held[c] = NoCursor
  PROVE  CursorInv'
  <1>1. /\ clock \in Nat /\ ver \in [Key -> Nat] /\ cursor \in [Collection -> Nat]
        /\ at \in [Key -> Collection \cup {Nowhere}]
    BY DEF TypeOK
  <1>2. StampsInv'
    BY <1>1 DEF CursorInv, StampsInv, NoCursor
  <1>3. PassInv'
    BY DEF CursorInv, PassInv
  <1>4. ASSUME NEW k \in Key, Retired(k, pass.held)' PROVE Retired(k, pass.held)
    BY <1>1, <1>4 DEF CursorInv, StampsInv, Retired, NoCursor
  <1>5. RetiredInv'
    BY <1>4 DEF CursorInv, RetiredInv, Retired, Carried
  <1>6. WorkInv' /\ DoneInv'
    BY DEF CursorInv, WorkInv, DoneInv
  <1>7. QED
    BY <1>2, <1>3, <1>5, <1>6 DEF CursorInv

LEMMA CloseCursor ==
  ASSUME TypeOK, CursorInv, CloseFolder
  PROVE  CursorInv'
  <1>1. /\ pass.pc = "items" /\ UNCHANGED <<clock, at, ver, row, phase, work>>
        /\ \A k \in Key : work[k].st = "out"
    BY DEF CloseFolder, setCursor, Unlisted, Out, sourceVars
  <1>2. /\ clock \in Nat /\ pass.next \in Nat /\ pass.next <= clock
        /\ cursor \in [Collection -> Nat] /\ pass.held \in [Collection -> Nat]
        /\ pass.cur \in Collection /\ pass \in Pass
    BY <1>1 DEF TypeOK, Pass, CursorInv, StampsInv
  <1>3. /\ pass'.pc = "folders" /\ pass'.next = 0 /\ pass'.authority = pass.authority
        /\ pass'.held = IF mayMoveCursor(pass) /\ pass.removedHere
                        THEN [pass.held EXCEPT ![pass.cur] = pass.next] ELSE pass.held
    BY <1>2 DEF CloseFolder, setCursor, Pass
  <1>4. cursor' = IF mayMoveCursor(pass) /\ ~pass.removedHere
                  THEN [cursor EXCEPT ![pass.cur] = pass.next] ELSE cursor
    BY DEF CloseFolder, setCursor
  <1>5. ASSUME NEW c \in Collection
        PROVE  /\ cursor'[c] = cursor[c]
                  \/ (c = pass.cur /\ cursor'[c] = pass.next /\ mayMoveCursor(pass))
               /\ pass'.held[c] = pass.held[c]
                  \/ (c = pass.cur /\ pass'.held[c] = pass.next /\ mayMoveCursor(pass))
    BY <1>2, <1>3, <1>4
  <1>6. StampsInv'
    BY <1>1, <1>2, <1>3, <1>5 DEF CursorInv, StampsInv
  <1>7. PassInv'
    BY <1>1, <1>3 DEF CursorInv, PassInv
  <1>8. ASSUME NEW k \in Key, Retired(k, cursor)' \/ Retired(k, pass.held)' PROVE Carried(k)
    <2>1. at[k] \in Collection
      BY <1>1, <1>8 DEF Retired, TypeOK
    <2>2. CASE Retired(k, cursor) \/ Retired(k, pass.held)
      BY <2>2 DEF CursorInv, RetiredInv
    <2>3. CASE at[k] = pass.cur /\ ver[k] <= pass.next /\ mayMoveCursor(pass)
      BY <1>1, <2>3 DEF CursorInv, DoneInv
    <2>4. QED
      BY <1>1, <1>5, <1>8, <2>1, <2>2, <2>3 DEF Retired
  <1>9. RetiredInv'
    BY <1>1, <1>8 DEF CursorInv, RetiredInv, Carried
  <1>10. WorkInv' /\ DoneInv'
    BY <1>1, <1>3 DEF WorkInv, DoneInv
  <1>11. QED
    BY <1>6, <1>7, <1>9, <1>10 DEF CursorInv

LEMMA SaveCursor ==
  ASSUME TypeOK, CursorInv, NEW c \in Collection, SaveHeldCursor(c)
  PROVE  CursorInv'
  <1>1. /\ pass.pc = "resolve" /\ UNCHANGED <<clock, at, ver, row, phase, work>>
        /\ cursor' = [cursor EXCEPT ![c] = pass.held[c]]
        /\ pass' = [pass EXCEPT !.held = [pass.held EXCEPT ![c] = 0]]
    BY DEF SaveHeldCursor, setCursor, sourceVars, NoCursor, TypeOK, Pass
  <1>2. /\ clock \in Nat /\ cursor \in [Collection -> Nat] /\ pass.held \in [Collection -> Nat]
        /\ ver \in [Key -> Nat] /\ at \in [Key -> Collection \cup {Nowhere}] /\ pass \in Pass
    BY DEF TypeOK, Pass
  <1>3. /\ pass'.pc = "resolve" /\ pass'.next = pass.next /\ pass'.authority = pass.authority
        /\ pass'.held = [pass.held EXCEPT ![c] = 0]
    BY <1>1, <1>2 DEF Pass
  <1>4. ASSUME NEW d \in Collection
        PROVE  /\ cursor'[d] = cursor[d] \/ cursor'[d] = pass.held[d]
               /\ pass'.held[d] = 0 \/ pass'.held[d] = pass.held[d]
    BY <1>1, <1>2, <1>3
  <1>5. StampsInv'
    BY <1>1, <1>2, <1>3, <1>4 DEF CursorInv, StampsInv
  <1>6. PassInv'
    BY <1>1, <1>3 DEF CursorInv, PassInv
  <1>7. ASSUME NEW k \in Key, Retired(k, cursor)' \/ Retired(k, pass.held)'
        PROVE  Retired(k, cursor) \/ Retired(k, pass.held)
    <2>1. at[k] \in Collection /\ ver[k] \in Nat /\ ver[k] > 0
      BY <1>1, <1>2, <1>7 DEF Retired, CursorInv, StampsInv
    <2>2. QED
      BY <1>1, <1>4, <1>7, <2>1 DEF Retired
  <1>8. RetiredInv'
    BY <1>1, <1>7 DEF CursorInv, RetiredInv, Carried
  <1>9. WorkInv' /\ DoneInv'
    BY <1>1, <1>3 DEF CursorInv, WorkInv, DoneInv
  <1>10. QED
    BY <1>5, <1>6, <1>8, <1>9 DEF CursorInv

LEMMA IdleFields ==
  /\ Idle.pc = "idle" /\ Idle.next = 0 /\ \A c \in Collection : Idle.held[c] = NoCursor
  /\ \A k \in Key : Unlisted[k].st = "out"
  BY DEF Idle, Unlisted, Out

LEMMA FoldersCursor ==
  ASSUME Quiet PROVE TypeOK /\ CursorInv /\ Folders => CursorInv'
  <1> SUFFICES ASSUME TypeOK, CursorInv, Folders PROVE CursorInv'
    OBVIOUS
  <1>a. clock \in Nat /\ pass \in Pass /\ pass.next <= clock
        /\ (pass.pc # "idle" => pass.authority)
    BY DEF TypeOK, CursorInv, StampsInv, PassInv
  <1>1. CASE StartPass
    <2>1. pass'.pc = "folders" /\ pass'.next = 0 /\ (pass'.authority <=> isAuthority)
          /\ \A c \in Collection : pass'.held[c] = NoCursor
      BY <1>1 DEF StartPass, Idle
    <2>2. isAuthority
      BY DEF isAuthority, CursorInv, PassInv
    <2>3. pass.pc = "idle" /\ UNCHANGED <<clock, at, ver, row, cursor, phase, work>>
      BY <1>1 DEF StartPass, sourceVars
    <2>4. QED
      BY <1>a, <2>1, <2>2, <2>3, PassFrame
  <1>2. CASE CloseFolder
    BY <1>2, CloseCursor
  <1>3. CASE ConcludePass
    <2>1. pass.pc = "folders" /\ UNCHANGED <<clock, at, ver, row, cursor, phase, work>>
      BY <1>3 DEF ConcludePass, sourceVars
    <2>2. \/ pass' = Idle
          \/ /\ pass'.pc = "resolve" /\ pass'.next = pass.next
             /\ pass'.authority = pass.authority /\ pass'.held = pass.held
      BY <1>a, <1>3 DEF ConcludePass, Pass
    <2>3. QED
      BY <1>a, <2>1, <2>2, IdleFields, PassFrame
  <1>4. CASE EndPass
    <2>1. /\ pass.pc = "resolve" /\ pass' = Idle
          /\ UNCHANGED <<clock, at, ver, row, cursor, phase, work>>
      BY <1>4 DEF EndPass, sourceVars
    <2>2. QED
      BY <1>a, <2>1, IdleFields, PassFrame
  <1>5. ASSUME NEW c \in Collection, OpenFolder(c) PROVE CursorInv'
    <2>1. Open(c, listSince(c), removedSince(c))
      BY <1>5 DEF OpenFolder
    <2>2. QED
      BY <2>1, OpenCursor
  <1>6. ASSUME NEW c \in Collection, SkipFolder(c) PROVE CursorInv'
    <2>1. pass.pc = "folders" /\ UNCHANGED <<clock, at, ver, row, cursor, phase, work>>
      BY <1>6 DEF SkipFolder, sourceVars
    <2>2. /\ pass'.pc = "folders" /\ pass'.next = pass.next
          /\ pass'.authority = pass.authority /\ pass'.held = pass.held
      BY <1>a, <1>6 DEF SkipFolder, Pass
    <2>3. QED
      BY <1>a, <2>1, <2>2, PassFrame
  <1>7. ASSUME NEW c \in Collection, SaveHeldCursor(c) PROVE CursorInv'
    BY <1>7, SaveCursor
  <1>8. ASSUME NEW d \in pass.removals, ResolveRemoval(d) PROVE CursorInv'
    <2>1. pass.pc = "resolve" /\ UNCHANGED <<clock, at, ver, cursor, phase, work>>
      BY <1>8 DEF ResolveRemoval, recordReportedDeletion, sourceVars
    <2>2. /\ pass'.pc = "resolve" /\ pass'.next = pass.next
          /\ pass'.authority = pass.authority /\ pass'.held = pass.held
      BY <1>a, <1>8 DEF ResolveRemoval, recordReportedDeletion, Pass
    <2>3. ASSUME NEW k \in Key
          PROVE  /\ row'[k].status = row[k].status /\ row'[k].coll = row[k].coll
                 /\ row'[k].sv = row[k].sv /\ row'[k].attempts = row[k].attempts
                 /\ row'[k].parked = row[k].parked
      BY <1>8 DEF ResolveRemoval, recordReportedDeletion, TypeOK, Row
    <2>4. \A k \in Key : Carried(k)' <=> Carried(k)
      BY <2>1, <2>3 DEF Carried, settled, isOnTarget, needsDecision
    <2>5. StampsInv' /\ PassInv'
      BY <2>1, <2>2 DEF CursorInv, StampsInv, PassInv
    <2>6. RetiredInv'
      BY <2>1, <2>2, <2>3, <2>4 DEF CursorInv, RetiredInv, Retired
    <2>7. WorkInv' /\ DoneInv'
      BY <2>1, <2>2 DEF CursorInv, WorkInv, DoneInv
    <2>8. QED
      BY <2>5, <2>6, <2>7 DEF CursorInv
  <1>9. QED
    BY <1>1, <1>2, <1>3, <1>4, <1>5, <1>6, <1>7, <1>8 DEF Folders

LEMMA FaultsCursor ==
  ASSUME Quiet PROVE TypeOK /\ CursorInv /\ Faults => CursorInv'
  <1> SUFFICES ASSUME TypeOK, CursorInv, Faults PROVE CursorInv'
    OBVIOUS
  <1>a. clock \in Nat /\ pass \in Pass /\ pass.next <= clock
        /\ (pass.pc # "idle" => pass.authority)
    BY DEF TypeOK, CursorInv, StampsInv, PassInv
  <1>1. CASE Stop
    <2>1. UNCHANGED <<clock, at, ver, row, cursor, phase, work>>
      BY <1>1 DEF Stop, sourceVars
    <2>2. /\ pass'.pc = pass.pc /\ pass'.next = pass.next /\ pass'.cur = pass.cur
          /\ pass'.authority = pass.authority /\ pass'.held = pass.held /\ ~mayMoveCursor(pass')
      BY <1>a, <1>1 DEF Stop, Pass, mayMoveCursor
    <2>3. QED
      BY <2>1, <2>2
         DEF CursorInv, StampsInv, PassInv, RetiredInv, WorkInv, DoneInv, Retired, Carried
  <1>2. CASE AbandonPass
    <2>1. /\ UNCHANGED <<clock, at, ver, row, cursor, phase>> /\ pass' = Idle /\ work' = Unlisted
      BY <1>2 DEF AbandonPass, sourceVars
    <2>2. /\ pass'.pc = "idle" /\ pass'.next = 0 /\ (\A c \in Collection : pass'.held[c] = 0)
          /\ \A k \in Key : work'[k].st = "out"
      BY <2>1, IdleFields DEF NoCursor
    <2>3. StampsInv'
      <3>1. cursor \in [Collection -> Nat]
        BY DEF TypeOK
      <3>2. QED
        BY <1>a, <2>1, <2>2, <3>1 DEF CursorInv, StampsInv
    <2>4. PassInv'
      BY <2>1, <2>2 DEF CursorInv, PassInv, NoCursor
    <2>5. ASSUME NEW k \in Key PROVE ~Retired(k, pass.held)'
      <3>1. ver[k] \in Nat /\ at[k] \in Collection \cup {Nowhere}
        BY DEF TypeOK
      <3>2. QED
        BY <2>1, <2>2, <3>1 DEF CursorInv, StampsInv, Retired
    <2>6. RetiredInv'
      BY <2>1, <2>5 DEF CursorInv, RetiredInv, Retired, Carried
    <2>7. WorkInv' /\ DoneInv'
      BY <2>2 DEF WorkInv, DoneInv
    <2>8. QED
      BY <2>3, <2>4, <2>6, <2>7 DEF CursorInv
  <1>3. ASSUME NEW c \in Collection, OpenUnseeing(c) PROVE CursorInv'
    <2>1. Open(c, {}, {}) /\ prevCursor(c) = NoCursor
      BY <1>3 DEF OpenUnseeing
    <2>2. QED
      BY <2>1, OpenCursor
  <1>4. ASSUME NEW c \in Collection, UnreadFolder(c) PROVE CursorInv'
    <2>1. pass.pc = "folders" /\ UNCHANGED <<clock, at, ver, row, cursor, phase, work>>
      BY <1>4 DEF UnreadFolder, sourceVars
    <2>2. /\ pass'.pc = "folders" /\ pass'.next = pass.next
          /\ pass'.authority = pass.authority /\ pass'.held = pass.held
      BY <1>a, <1>4 DEF UnreadFolder, Pass
    <2>3. QED
      BY <1>a, <2>1, <2>2, PassFrame
  <1>5. ASSUME NEW k \in Key, FailUnkeyed(k) PROVE CursorInv'
    BY <1>5 DEF FailUnkeyed, Quiet
  <1>6. ASSUME NEW k \in Key, HoldItem(k) PROVE CursorInv'
    <2>1. /\ pass.pc = "items" /\ work[k].st = "write"
          /\ pass' = [pass EXCEPT !.heldHere = TRUE] \/ pass' = [pass EXCEPT !.stopped = TRUE]
          /\ work' = [work EXCEPT ![k] = Out]
          /\ UNCHANGED <<clock, at, ver, row, cursor, phase>>
      BY <1>6 DEF HoldItem, At, sourceVars
    <2>2. /\ pass'.pc = "items" /\ pass'.cur = pass.cur /\ pass'.next = pass.next
          /\ pass'.held = pass.held /\ pass'.authority = pass.authority /\ ~mayMoveCursor(pass')
      BY <1>a, <2>1 DEF Pass, mayMoveCursor
    <2>3. work'[k].st = "out" /\ \A j \in Key : j # k => work'[j] = work[j]
      BY <2>1 DEF TypeOK, Out
    <2>4. /\ row[k].status \in {"copied", "updated"} => row[k].coll \in Collection
          /\ ~Retired(k, cursor) /\ ~Retired(k, pass.held)
      BY <2>1 DEF CursorInv, RetiredInv, WorkInv
    <2>5. QED
      BY <2>1, <2>2, <2>3, <2>4, ItemFrame
  <1>7. ASSUME NEW k \in Key, PutItemTwice(k) PROVE CursorInv'
    BY <1>7, PutCursor DEF PutItemTwice, TypeOK, sourceVars
  <1>8. ASSUME NEW k \in Key, PutItemLost(k) PROVE CursorInv'
    BY <1>8, FailedCursor DEF PutItemLost
  <1>9. ASSUME NEW k \in Key, NEW park \in BOOLEAN, FailItem(k, park) PROVE CursorInv'
    BY <1>9, FailedCursor DEF FailItem
  <1>10. QED
    BY <1>1, <1>2, <1>3, <1>4, <1>5, <1>6, <1>7, <1>8, <1>9 DEF Faults

\* The invariant behind the two theorems below: initial, and preserved by every
\* step of the source, the owners, the operator, the pass and its faults.
THEOREM CursorInvariant == ASSUME Quiet PROVE Spec => []CursorInv
  <1>1. Init => TypeOK /\ CursorInv
    BY InitType, InitCursor
  <1>2. TypeOK /\ CursorInv /\ [Next]_vars => CursorInv'
    <2>1. TypeOK /\ CursorInv /\ UNCHANGED vars => CursorInv'
      BY DEF vars, CursorInv, StampsInv, PassInv, RetiredInv, WorkInv, DoneInv, Retired, Carried
    <2>2. QED
      BY <2>1, SourceCursor, OwnerCursor, OperatorCursor, FoldersCursor, ItemsCursor, FaultsCursor
         DEF Next
  <1>3. QED
    BY <1>1, <1>2, TypeStep, PTL DEF Spec

\* A saved cursor leaves out no item that is still to be copied, or is merely
\* failed: lost items cannot hide behind a position in the source's feed.
THEOREM CursorSafety == ASSUME Quiet PROVE Spec => []CursorRetiresNothing
  <1>1. CursorInv => CursorRetiresNothing
    BY DEF CursorInv, RetiredInv, Retired, Carried, CursorRetiresNothing
  <1>2. QED
    BY <1>1, CursorInvariant, PTL

\* Nor does it leave out an edit: an item we copied, still where it was, is
\* recorded at the version the cursor has passed.
THEOREM CursorCarriesEdits == ASSUME Quiet PROVE Spec => []CursorRetiresNoEdit
  <1>1. CursorInv => CursorRetiresNoEdit
    BY DEF CursorInv, RetiredInv, Retired, Carried, CursorRetiresNoEdit
  <1>2. QED
    BY <1>1, CursorInvariant, PTL
=============================================================================
