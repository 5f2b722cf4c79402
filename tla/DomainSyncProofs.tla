------------------------- MODULE DomainSyncProofs -------------------------
(***************************************************************************)
(* Proofs about DomainSync, for every set of items and collections, every  *)
(* number of source changes, faults and attempts.                          *)
(***************************************************************************)
EXTENDS DomainSync, TLAPS

(***************************************************************************)
(* Type correctness.  The operators that build rows and items in work are  *)
(* typed first, so that the actions need not be opened to their fields.    *)
(***************************************************************************)

LEMMA IdleTypes == Idle \in Pass /\ Unlisted \in [Key -> Work] /\ Out \in Work /\ NoRow \in Row
                   /\ NoCopy \in Copy /\ Idle.pc = "idle"
  BY SyncConstants DEF Idle, Pass, Unlisted, Work, Out, NoRow, Row, NoCopy, Copy, Ref, NoRef,
     NoVersion, NoCursor, Statuses

LEMMA LookedType ==
  ASSUME NEW r \in Row, NEW act, NEW v \in Nat, NEW c \in Collection
  PROVE  Looked(r, act, v, c) \in Row
  BY DEF Looked, clearAbsent, recordMove, clearMove, Row

LEMMA FailureType ==
  ASSUME NEW r \in Row, NEW park \in BOOLEAN, NEW ref \in Ref, NEW c \in Collection
  PROVE  recordFailure(r, park, ref, c) \in Row
  <1>1. (r.attempts + 1) \in Nat
    BY DEF Row
  <1>2. (IF park THEN TRUE ELSE r.parked) \in BOOLEAN
    BY DEF Row
  <1>3. QED
    BY <1>1, <1>2 DEF recordFailure, Row, Statuses

LEMMA RecordedType ==
  ASSUME NEW r \in Row, NEW w \in Work, NEW c \in Collection
  PROVE  Recorded(r, w, c) \in Row
  BY DEF Recorded, Row, Work, Statuses

LEMMA UpsertType ==
  ASSUME NEW c \in Copy, NEW r \in Row, NEW rewrite \in BOOLEAN, NEW bytes \in Nat
  PROVE  /\ Upsert(c, r, rewrite, bytes).copy \in Copy
         /\ Upsert(c, r, rewrite, bytes).res \in {"created", "adopted", "updated", "conflicted"}
  BY DEF Upsert, Copy

LEMMA InitType == Init => TypeOK
  <1> SUFFICES ASSUME Init PROVE TypeOK
    OBVIOUS
  <1> USE SyncConstants, IdleTypes
  <1>1. PICK c \in Collection, old \in SUBSET Legacy :
           /\ at = [k \in Key |-> IF k \in old THEN c ELSE Nowhere]
           /\ ver = [k \in Key |-> IF k \in old THEN 1 ELSE 0]
           /\ href = [k \in Key |-> IF k \in old THEN <<k, 1>> ELSE NoRef]
           /\ copy = [k \in Key |-> [d \in Collection |->
                        IF k \in old /\ d = c THEN [by |-> "us", ver |-> 1] ELSE NoCopy]]
           /\ row = [k \in Key |-> IF k \in old
                                   THEN [NoRow EXCEPT !.status = "copied", !.coll = c] ELSE NoRow]
    BY DEF Init
  <1>2. [NoRow EXCEPT !.status = "copied", !.coll = c] \in Row
    BY DEF Row, Statuses
  <1>3. [by |-> "us", ver |-> 1] \in Copy
    BY DEF Copy
  <1>4. \A k \in Key : <<k, 1>> \in Ref /\ NoRef \in Ref
    BY DEF Ref
  <1>5. row \in [Key -> Row]
    BY <1>1, <1>2
  <1>6. copy \in [Key -> [Collection -> Copy]]
    BY <1>1, <1>3
  <1>7. href \in [Key -> Ref]
    BY <1>1, <1>4
  <1>8. at \in [Key -> Collection \cup {Nowhere}] /\ ver \in [Key -> Nat]
    BY <1>1
  <1>9. /\ clock \in Nat /\ dead \subseteq Removal
        /\ cursor \in [Collection -> Nat] /\ phase \in Nat /\ faults \in Nat
    BY DEF Init, NoCursor
  <1>10. pass \in Pass /\ pass.pc = "idle" /\ work \in [Key -> Work]
    BY DEF Init
  <1>11. QED
    BY <1>5, <1>6, <1>7, <1>8, <1>9, <1>10 DEF TypeOK

\* A move, a removal: what dies is a removal.
LEMMA DieType ==
  ASSUME TypeOK, NEW k \in Key, at[k] # Nowhere
  PROVE  Die(k) \subseteq Removal
  <1>1. [ref |-> href[k], coll |-> at[k], stamp |-> clock + 1] \in Removal
    BY DEF TypeOK, Removal
  <1>2. QED
    BY <1>1 DEF TypeOK, Die

LEMMA SourceType == TypeOK /\ Source => TypeOK'
  <1> SUFFICES ASSUME TypeOK, NEW k \in Key,
                      \/ SourceEdit(k) \/ SourceRemove(k)
                      \/ \E c \in Collection : SourceCreate(k, c) \/ SourceMove(k, c)
               PROVE  TypeOK'
    BY DEF Source
  <1>1. clock + 1 \in Nat /\ <<k, clock + 1>> \in Ref
    BY DEF TypeOK, Ref
  <1>2. CASE SourceEdit(k)
    BY <1>1, <1>2 DEF SourceEdit, TypeOK
  <1>3. CASE SourceRemove(k)
    <2>1. dead' \subseteq Removal
      BY <1>3, DieType DEF SourceRemove
    <2>2. QED
      BY <1>1, <1>3, <2>1 DEF SourceRemove, TypeOK
  <1>4. ASSUME NEW c \in Collection, SourceCreate(k, c) PROVE TypeOK'
    BY <1>1, <1>4 DEF SourceCreate, TypeOK
  <1>5. ASSUME NEW c \in Collection, SourceMove(k, c) PROVE TypeOK'
    <2>1. dead' \subseteq Removal
      BY <1>5, DieType DEF SourceMove
    <2>2. QED
      BY <1>1, <1>5, <2>1 DEF SourceMove, TypeOK
  <1>6. QED
    BY <1>2, <1>3, <1>4, <1>5

LEMMA CopyType ==
  ASSUME TypeOK, NEW k \in Key, NEW c \in Collection, NEW o \in Copy
  PROVE  [copy EXCEPT ![k][c] = o] \in [Key -> [Collection -> Copy]]
  <1>1. copy[k] \in [Collection -> Copy]
    BY DEF TypeOK
  <1>2. [copy[k] EXCEPT ![c] = o] \in [Collection -> Copy]
    BY <1>1
  <1>3. QED
    BY <1>2 DEF TypeOK

LEMMA OwnerType == TypeOK /\ Owner => TypeOK'
  <1> SUFFICES ASSUME TypeOK, NEW k \in Key, NEW c \in Collection,
                      OwnerWrite(k, c) \/ OwnerRemove(k, c)
               PROVE  TypeOK'
    BY DEF Owner
  <1>1. [by |-> "owner", ver |-> 0] \in Copy /\ NoCopy \in Copy
    BY DEF Copy, NoCopy
  <1>2. QED
    <2>0. PICK o \in Copy : copy' = [copy EXCEPT ![k][c] = o]
      BY <1>1 DEF OwnerWrite, OwnerRemove
    <2>1. copy' \in [Key -> [Collection -> Copy]]
      BY <2>0, CopyType
    <2>2. UNCHANGED <<sourceVars, row, cursor, phase, faults, pass, work>>
      BY DEF OwnerWrite, OwnerRemove
    <2>3. QED
      BY <2>1, <2>2 DEF TypeOK, sourceVars

LEMMA OperatorType == TypeOK /\ Operator => TypeOK'
  <1> SUFFICES ASSUME TypeOK, Operator PROVE TypeOK'
    OBVIOUS
  <1>1. CASE ExecuteCutover \/ RollBackCutover
    BY <1>1 DEF ExecuteCutover, RollBackCutover, TypeOK, sourceVars
  <1>2. ASSUME NEW k \in Key, RetryFailure(k) PROVE TypeOK'
    <2>1. [row[k] EXCEPT !.attempts = 0, !.parked = FALSE] \in Row
      BY DEF TypeOK, Row
    <2>2. row' \in [Key -> Row] /\ cursor' \in [Collection -> Nat]
      BY <1>2, <2>1 DEF RetryFailure, clearCursors, TypeOK, NoCursor
    <2>3. QED
      BY <1>2, <2>2 DEF RetryFailure, clearCursors, TypeOK, sourceVars
  <1>3. ASSUME NEW k \in Key, AcceptFailure(k) PROVE TypeOK'
    <2>1. [row[k] EXCEPT !.status = "left_behind"] \in Row
      BY DEF TypeOK, Row, Statuses
    <2>2. row' \in [Key -> Row]
      BY <1>3, <2>1 DEF AcceptFailure, TypeOK
    <2>3. QED
      BY <1>3, <2>2 DEF AcceptFailure, TypeOK, sourceVars
  <1>4. QED
    BY <1>1, <1>2, <1>3 DEF Operator

LEMMA OpenType ==
  ASSUME TypeOK, NEW c \in Collection, NEW items \in SUBSET Key, NEW removed \in SUBSET dead,
         Open(c, items, removed), faults' \in Nat
  PROVE  TypeOK'
  <1> DEFINE saw == prevCursor(c) = NoCursor /\ items = {} /\ removed = {}
             gone == pass.authority /\ removed # {}
             told == IF pass.authority THEN pass.removals \cup removed ELSE pass.removals
  <1>a. saw \in BOOLEAN /\ gone \in BOOLEAN
    OBVIOUS
  <1>b. told \in SUBSET Removal
    BY DEF TypeOK, Pass
  <1>c. pass' = [pass EXCEPT !.pc = "items", !.todo = @ \ {c}, !.cur = c, !.next = clock,
                   !.heldHere = FALSE, !.sawNothing = saw, !.removedHere = gone, !.removals = told]
    BY DEF Open
  <1>1. pass' \in Pass /\ pass'.cur \in Collection
    <2> HIDE DEF saw, gone, told
    <2> QED
      BY <1>a, <1>b, <1>c DEF TypeOK, Pass
  <1>2. ASSUME NEW k \in Key
        PROVE [Out EXCEPT !.st = "listed", !.ver = Version(k), !.ref = href[k]] \in Work
    BY IdleTypes DEF TypeOK, Work, Version, NoVersion
  <1>3. work' \in [Key -> Work]
    BY <1>2, IdleTypes DEF Open, TypeOK
  <1>4. QED
    BY <1>1, <1>3 DEF Open, TypeOK, sourceVars

LEMMA FoldersType == TypeOK /\ Folders => TypeOK'
  <1> SUFFICES ASSUME TypeOK, Folders PROVE TypeOK'
    OBVIOUS
  <1> USE IdleTypes
  <1>1. CASE StartPass
    <2>1. isAuthority \in BOOLEAN
      BY DEF isAuthority
    <2>2. PICK full \in BOOLEAN :
             pass' = [Idle EXCEPT !.pc = "folders", !.todo = Collection, !.began = clock,
                                  !.authority = isAuthority, !.stores = ~full]
      BY <1>1 DEF StartPass
    <2>3. (~full) \in BOOLEAN
      OBVIOUS
    <2>4. pass' \in Pass /\ pass'.pc = "folders"
      BY <2>1, <2>2, <2>3 DEF TypeOK, Pass
    <2>5. QED
      BY <1>1, <2>4 DEF StartPass, TypeOK, sourceVars
  <1>2. CASE CloseFolder
    <2>1. cursor' \in [Collection -> Nat]
      BY <1>2 DEF CloseFolder, setCursor, TypeOK, Pass
    <2> DEFINE h == IF mayMoveCursor(pass) /\ pass.removedHere
                    THEN [pass.held EXCEPT ![pass.cur] = pass.next] ELSE pass.held
    <2>a. h \in [Collection -> Nat]
      BY DEF TypeOK, Pass
    <2>b. pass' = [pass EXCEPT !.pc = "folders", !.cur = Nowhere, !.next = 0, !.sawNothing = FALSE,
                               !.heldHere = FALSE, !.removedHere = FALSE, !.held = h]
      BY <1>2 DEF CloseFolder, setCursor
    <2>2. pass' \in Pass /\ pass'.pc = "folders"
      <3> HIDE DEF h
      <3> QED
        BY <2>a, <2>b DEF TypeOK, Pass
    <2>3. QED
      BY <1>2, <2>1, <2>2 DEF CloseFolder, setCursor, TypeOK, sourceVars
  <1>3. CASE ConcludePass
    <2>1. pass' \in Pass /\ pass'.pc # "items"
      BY <1>3 DEF ConcludePass, TypeOK, Pass
    <2>2. QED
      BY <1>3, <2>1 DEF ConcludePass, TypeOK, sourceVars
  <1>4. CASE EndPass
    BY <1>4 DEF EndPass, TypeOK, sourceVars
  <1>5. ASSUME NEW c \in Collection, OpenFolder(c) PROVE TypeOK'
    <2>1. listSince(c) \in SUBSET Key /\ removedSince(c) \in SUBSET dead
      BY DEF listSince, removedSince
    <2>2. Open(c, listSince(c), removedSince(c)) /\ faults' \in Nat
      BY <1>5 DEF OpenFolder, TypeOK
    <2>3. QED
      BY <2>1, <2>2, OpenType
  <1>6. ASSUME NEW c \in Collection, SkipFolder(c) PROVE TypeOK'
    <2>1. pass' \in Pass /\ pass'.pc = "folders"
      BY <1>6 DEF SkipFolder, TypeOK, Pass
    <2>2. QED
      BY <1>6, <2>1 DEF SkipFolder, TypeOK, sourceVars
  <1>7. ASSUME NEW c \in Collection, SaveHeldCursor(c) PROVE TypeOK'
    <2>1. pass' \in Pass /\ pass'.pc = "resolve"
      BY <1>7 DEF SaveHeldCursor, setCursor, TypeOK, Pass, NoCursor
    <2>2. cursor' \in [Collection -> Nat]
      BY <1>7 DEF SaveHeldCursor, setCursor, TypeOK, Pass
    <2>3. QED
      BY <1>7, <2>1, <2>2 DEF SaveHeldCursor, setCursor, TypeOK, sourceVars
  <1>8. ASSUME NEW d \in pass.removals, ResolveRemoval(d) PROVE TypeOK'
    <2>1. pass' \in Pass /\ pass'.pc = "resolve"
      BY <1>8 DEF ResolveRemoval, recordReportedDeletion, TypeOK, Pass
    <2>2. ASSUME NEW k \in Key PROVE [row[k] EXCEPT !.reported = TRUE] \in Row
      BY DEF TypeOK, Row
    <2>3. row' \in [Key -> Row]
      BY <1>8, <2>2 DEF ResolveRemoval, recordReportedDeletion, TypeOK
    <2>4. QED
      BY <1>8, <2>1, <2>3 DEF ResolveRemoval, recordReportedDeletion, TypeOK, sourceVars
  <1>9. QED
    BY <1>1, <1>2, <1>3, <1>4, <1>5, <1>6, <1>7, <1>8 DEF Folders

\* What ends an item's turn in the pass, and what a failure leaves.
LEMMA FailedType ==
  ASSUME TypeOK, NEW k \in Key, NEW park \in BOOLEAN, pass.pc = "items", Failed(k, park),
         faults' \in Nat, copy' \in [Key -> [Collection -> Copy]]
  PROVE  TypeOK'
  <1> DEFINE r == recordFailure(row[k], park, work[k].ref, pass.cur)
             again == pass.retryable \/ ~needsDecision(r)
  <1>1. row[k] \in Row /\ work[k].ref \in Ref /\ pass.cur \in Collection
    BY DEF TypeOK, Work
  <1>2. r \in Row
    BY <1>1, FailureType
  <1>3. again \in BOOLEAN
    OBVIOUS
  <1>4. row' = [row EXCEPT ![k] = r] /\ pass' = [pass EXCEPT !.retryable = again]
        /\ work' = [work EXCEPT ![k] = Out] /\ UNCHANGED <<sourceVars, cursor, phase>>
    BY DEF Failed
  <1> HIDE DEF r, again
  <1>5. pass' \in Pass /\ pass'.cur \in Collection
    BY <1>1, <1>3, <1>4 DEF TypeOK, Pass
  <1>6. row' \in [Key -> Row] /\ work' \in [Key -> Work]
    BY <1>2, <1>4, IdleTypes DEF TypeOK
  <1>7. QED
    BY <1>4, <1>5, <1>6 DEF TypeOK, sourceVars

\* What a PUT leaves on the target.
LEMMA PutType ==
  ASSUME TypeOK, NEW k \in Key, pass.pc = "items"
  PROVE  /\ Put(k).copy \in Copy
         /\ Put(k).res \in {"created", "adopted", "updated", "conflicted"}
         /\ Upsert(Put(k).copy, row[k], work[k].rewrite, work[k].bytes).res
               \in {"created", "adopted", "updated", "conflicted"}
         /\ [copy EXCEPT ![k][pass.cur] = Put(k).copy] \in [Key -> [Collection -> Copy]]
  <1>1. /\ copy[k][pass.cur] \in Copy /\ row[k] \in Row /\ pass.cur \in Collection
        /\ work[k].rewrite \in BOOLEAN /\ work[k].bytes \in Nat
    BY DEF TypeOK, Work
  <1>2. Put(k).copy \in Copy /\ Put(k).res \in {"created", "adopted", "updated", "conflicted"}
    BY <1>1, UpsertType DEF Put
  <1>3. Upsert(Put(k).copy, row[k], work[k].rewrite, work[k].bytes).res
          \in {"created", "adopted", "updated", "conflicted"}
    BY <1>1, <1>2, UpsertType
  <1>4. QED
    BY <1>1, <1>2, <1>3, CopyType

LEMMA ItemsType == TypeOK /\ Items => TypeOK'
  <1> SUFFICES ASSUME TypeOK, NEW k \in Key,
                      SkipItem(k) \/ LookItem(k) \/ VanishItem(k) \/ PutItem(k) \/ RecordItem(k)
               PROVE  TypeOK'
    BY DEF Items
  <1> USE IdleTypes
  <1>a. /\ pass.pc = "items" /\ pass.cur \in Collection /\ row[k] \in Row
        /\ work[k] \in Work /\ work[k].ver \in Nat
    BY DEF SkipItem, LookItem, VanishItem, PutItem, RecordItem, At, TypeOK, Work
  <1>1. CASE SkipItem(k)
    <2>1. pass' \in Pass /\ pass'.cur \in Collection
      BY <1>a, <1>1 DEF SkipItem, TypeOK, Pass
    <2>2. work' \in [Key -> Work]
      BY <1>1 DEF SkipItem, TypeOK
    <2>3. QED
      BY <1>1, <2>1, <2>2 DEF SkipItem, TypeOK, sourceVars
  <1>2. CASE LookItem(k)
    <2> DEFINE act == classifyKnownItem(row[k], work[k].ver, pass.cur)
               wr == act = "rewrite"
               looked == Looked(row[k], act, work[k].ver, pass.cur)
    <2>1. pass' \in Pass /\ pass'.cur \in Collection
      BY <1>a, <1>2 DEF LookItem, TypeOK, Pass
    <2>2. looked \in Row
      BY <1>a, LookedType
    <2>3. row' \in [Key -> Row]
      BY <1>2, <2>2 DEF LookItem, TypeOK
    <2>4. wr \in BOOLEAN /\ Fetched(k) \in Nat
      BY DEF Fetched, TypeOK
    <2>5. work' = [work EXCEPT ![k] = IF writes(act, pass.authority)
                     THEN [work[k] EXCEPT !.st = "write", !.rewrite = wr, !.bytes = Fetched(k)]
                     ELSE Out]
      BY <1>2 DEF LookItem
    <2>6. work' \in [Key -> Work]
      <3> HIDE DEF act, wr
      <3>1. [work[k] EXCEPT !.st = "write", !.rewrite = wr, !.bytes = Fetched(k)] \in Work
        BY <1>a, <2>4 DEF Work
      <3>2. QED
        BY <2>5, <3>1 DEF TypeOK
    <2>7. QED
      BY <1>2, <2>1, <2>3, <2>6 DEF LookItem, TypeOK, sourceVars
  <1>3. CASE VanishItem(k)
    <2>1. Failed(k, FALSE) /\ UNCHANGED <<copy, faults>>
      BY <1>3 DEF VanishItem
    <2>2. QED
      BY <1>a, <2>1, FailedType DEF TypeOK
  <1>4. CASE PutItem(k)
    <2>1. copy' \in [Key -> [Collection -> Copy]]
      BY <1>a, <1>4, PutType DEF PutItem
    <2>2. [work[k] EXCEPT !.st = "record", !.res = Put(k).res] \in Work
      BY <1>a, PutType DEF Work
    <2>3. work' = [work EXCEPT ![k] = [work[k] EXCEPT !.st = "record", !.res = Put(k).res]]
      BY <1>4 DEF PutItem, TypeOK
    <2>4. work' \in [Key -> Work]
      BY <2>2, <2>3 DEF TypeOK
    <2>5. QED
      BY <1>4, <2>1, <2>4 DEF PutItem, TypeOK, sourceVars
  <1>5. CASE RecordItem(k)
    <2>1. Recorded(row[k], work[k], pass.cur) \in Row
      BY <1>a, RecordedType
    <2>2. row' \in [Key -> Row] /\ work' \in [Key -> Work]
      BY <1>5, <2>1 DEF RecordItem, TypeOK
    <2>3. QED
      BY <1>5, <2>2 DEF RecordItem, TypeOK, sourceVars
  <1>6. QED
    BY <1>1, <1>2, <1>3, <1>4, <1>5

LEMMA FaultsType == TypeOK /\ Faults => TypeOK'
  <1> SUFFICES ASSUME TypeOK, Faults PROVE TypeOK'
    OBVIOUS
  <1> USE IdleTypes
  <1>a. faults + 1 \in Nat
    BY DEF TypeOK
  <1>1. CASE Stop
    <2>1. pass' \in Pass /\ pass'.pc = pass.pc /\ pass'.cur = pass.cur
      BY <1>1 DEF Stop, TypeOK, Pass
    <2>2. QED
      BY <1>a, <1>1, <2>1 DEF Stop, Fault, TypeOK, sourceVars
  <1>2. CASE AbandonPass
    BY <1>a, <1>2 DEF AbandonPass, Fault, TypeOK, sourceVars
  <1>3. ASSUME NEW c \in Collection, OpenUnseeing(c) PROVE TypeOK'
    <2>1. Open(c, {}, {}) /\ faults' \in Nat
      BY <1>a, <1>3 DEF OpenUnseeing, Fault
    <2>2. QED
      BY <2>1, OpenType
  <1>4. ASSUME NEW c \in Collection, UnreadFolder(c) PROVE TypeOK'
    <2>1. pass' \in Pass /\ pass'.pc = "folders"
      BY <1>4 DEF UnreadFolder, TypeOK, Pass
    <2>2. QED
      BY <1>a, <1>4, <2>1 DEF UnreadFolder, Fault, TypeOK, sourceVars
  <1>5. ASSUME NEW k \in Key, FailUnkeyed(k) PROVE TypeOK'
    <2>1. work' \in [Key -> Work]
      BY <1>5 DEF FailUnkeyed, TypeOK
    <2>2. QED
      BY <1>a, <1>5, <2>1 DEF FailUnkeyed, Fault, TypeOK, sourceVars
  <1>6. ASSUME NEW k \in Key, HoldItem(k) PROVE TypeOK'
    <2>1. work' \in [Key -> Work]
      BY <1>6 DEF HoldItem, TypeOK
    <2>2. pass' \in Pass /\ pass'.pc = pass.pc /\ pass'.cur = pass.cur
      BY <1>6 DEF HoldItem, TypeOK, Pass
    <2>3. QED
      BY <1>a, <1>6, <2>1, <2>2 DEF HoldItem, Fault, TypeOK, sourceVars
  <1>7. ASSUME NEW k \in Key, PutItemTwice(k) PROVE TypeOK'
    <2> DEFINE again == Upsert(Put(k).copy, row[k], work[k].rewrite, work[k].bytes).res
    <2>1. pass.pc = "items" /\ work[k] \in Work
      BY <1>7 DEF PutItemTwice, At, TypeOK
    <2>2. copy' \in [Key -> [Collection -> Copy]]
      BY <2>1, <1>7, PutType DEF PutItemTwice
    <2>3. [work[k] EXCEPT !.st = "record", !.res = again] \in Work
      BY <2>1, PutType DEF Work
    <2>4. work' = [work EXCEPT ![k] = [work[k] EXCEPT !.st = "record", !.res = again]]
      BY <1>7 DEF PutItemTwice, TypeOK
    <2>5. work' \in [Key -> Work]
      <3> HIDE DEF again
      <3> QED
        BY <2>3, <2>4 DEF TypeOK
    <2>6. QED
      BY <1>a, <1>7, <2>2, <2>5 DEF PutItemTwice, Fault, TypeOK, sourceVars
  <1>8. ASSUME NEW k \in Key, PutItemLost(k) PROVE TypeOK'
    <2>1. pass.pc = "items" /\ Failed(k, FALSE) /\ faults' \in Nat
      BY <1>a, <1>8 DEF PutItemLost, At, Fault
    <2>2. copy' \in [Key -> [Collection -> Copy]]
      BY <1>8, <2>1, PutType DEF PutItemLost
    <2>3. QED
      BY <2>1, <2>2, FailedType
  <1>9. ASSUME NEW k \in Key, NEW park \in BOOLEAN, FailItem(k, park) PROVE TypeOK'
    <2>1. pass.pc = "items" /\ Failed(k, park) /\ faults' \in Nat /\ copy' = copy
      BY <1>a, <1>9 DEF FailItem, At, Fault
    <2>2. QED
      BY <2>1, FailedType DEF TypeOK
  <1>10. QED
    BY <1>1, <1>2, <1>3, <1>4, <1>5, <1>6, <1>7, <1>8, <1>9 DEF Faults

LEMMA TypeStep == TypeOK /\ [Next]_vars => TypeOK'
  <1>1. TypeOK /\ UNCHANGED vars => TypeOK'
    BY DEF TypeOK, vars
  <1>2. QED
    BY <1>1, SourceType, OwnerType, OperatorType, FoldersType, ItemsType, FaultsType DEF Next

\* Every reachable state is well typed: the pass, the ledger's rows and the
\* target's objects keep their shape through every action of the pass, the
\* owners, the operator and the faults, and a pass that handles items is in a
\* collection.
THEOREM TypeCorrect == Spec => []TypeOK
  BY InitType, TypeStep, PTL DEF Spec

(***************************************************************************)
(* The owner's bytes.  Only the owner and a PUT change the target, and a   *)
(* PUT over the owner's object is a rewrite that had no version to check.  *)
(***************************************************************************)

Spared == \A k \in Key, c \in Collection :
             copy[k][c].by = "owner" /\ copy'[k][c].by = "us" => row[k].tv = NoVersion

LEMMA UpsertSpares ==
  ASSUME NEW c \in Copy, NEW r \in Row, NEW rewrite \in BOOLEAN, NEW bytes \in Nat,
         c.by = "owner", Upsert(c, r, rewrite, bytes).copy.by = "us"
  PROVE  r.tv = NoVersion
  <1>1. c # NoCopy /\ c # [by |-> "us", ver |-> r.tv]
    BY DEF NoCopy
  <1>2. QED
    BY <1>1 DEF Upsert

LEMMA PutSpares ==
  ASSUME TypeOK, NEW k \in Key, pass.pc = "items",
         copy' = [copy EXCEPT ![k][pass.cur] = Put(k).copy]
  PROVE  Spared
  <1> SUFFICES ASSUME NEW j \in Key, NEW c \in Collection,
                      copy[j][c].by = "owner", copy'[j][c].by = "us"
               PROVE  row[j].tv = NoVersion
    BY DEF Spared
  <1>1. /\ pass.cur \in Collection /\ copy[k][pass.cur] \in Copy /\ row[k] \in Row
        /\ work[k].rewrite \in BOOLEAN /\ work[k].bytes \in Nat
    BY DEF TypeOK, Work
  <1>2. j = k /\ c = pass.cur /\ copy'[j][c] = Put(k).copy
    BY <1>1 DEF TypeOK
  <1>3. QED
    BY <1>1, <1>2, UpsertSpares DEF Put

\* The pass replaces an object the target's owner wrote only where the ledger
\* holds no target version to check it against: every interleaving of listing,
\* fetch, PUT, retry of a PUT, and the owner's own work.
THEOREM OwnerBytesKept == Spec => OwnerBytesSurvive
  <1>1. TypeOK /\ [Next]_vars => [Spared]_vars
    <2> SUFFICES ASSUME TypeOK, Next PROVE Spared
      OBVIOUS
    <2>1. CASE copy' = copy
      BY <2>1 DEF Spared, TypeOK, Copy
    <2>2. ASSUME NEW k \in Key, PutItem(k) \/ PutItemTwice(k) \/ PutItemLost(k) PROVE Spared
      <3>1. pass.pc = "items" /\ copy' = [copy EXCEPT ![k][pass.cur] = Put(k).copy]
        BY <2>2 DEF PutItem, PutItemTwice, PutItemLost, At
      <3>2. QED
        BY <3>1, PutSpares
    <2>3. CASE Owner
      <3>1. PICK k \in Key, c \in Collection : OwnerWrite(k, c) \/ OwnerRemove(k, c)
        BY <2>3 DEF Owner
      <3>2. PICK o \in {[by |-> "owner", ver |-> 0], NoCopy} : copy' = [copy EXCEPT ![k][c] = o]
        BY <3>1 DEF OwnerWrite, OwnerRemove
      <3>3. o.by # "us"
        BY DEF NoCopy
      <3>4. \A j \in Key, d \in Collection : copy'[j][d] = o \/ copy'[j][d] = copy[j][d]
        BY <3>2 DEF TypeOK
      <3>5. QED
        BY <3>3, <3>4 DEF Spared
    <2>4. CASE Source \/ Operator
      BY <2>1, <2>4 DEF Source, SourceCreate, SourceEdit, SourceMove, SourceRemove, Operator,
         ExecuteCutover, RollBackCutover, RetryFailure, clearCursors, AcceptFailure
    <2>5. CASE Folders
      BY <2>1, <2>5 DEF Folders, StartPass, CloseFolder, ConcludePass, EndPass, OpenFolder,
         Open, SkipFolder, SaveHeldCursor, setCursor, ResolveRemoval, recordReportedDeletion
    <2>6. CASE Items
      BY <2>1, <2>2, <2>6 DEF Items, SkipItem, LookItem, VanishItem, RecordItem
    <2>7. CASE Faults
      BY <2>1, <2>2, <2>7 DEF Faults, Stop, AbandonPass, OpenUnseeing, Open, UnreadFolder,
         FailUnkeyed, HoldItem, FailItem
    <2>8. QED
      BY <2>3, <2>4, <2>5, <2>6, <2>7 DEF Next
  <1>2. OwnerBytesSurvive <=> [][Spared]_vars
    BY DEF OwnerBytesSurvive, Spared
  <1>3. QED
    BY <1>1, <1>2, TypeCorrect, PTL DEF Spec

(***************************************************************************)
(* The ledger is never ahead of the target.  By itself this is not         *)
(* inductive: what the row will record is decided when the item is listed  *)
(* and fetched, long before it is put and recorded.  So: a version that is *)
(* recorded, listed or fetched is one the source has had; the bytes in     *)
(* hand are at least as new as the version they were listed under and as   *)
(* anything the row says; from the put to its record our copy is at least  *)
(* those bytes; and an item with a key of its own is never without a       *)
(* version once we hold a target version of it, so that no first version   *)
(* is filled in for bytes we know.                                         *)
(***************************************************************************)

Behind(r, c, cs) ==
    r.status \in {"copied", "updated"} /\ r.coll = c /\ r.tv # NoVersion /\ cs.by = "us"
    => r.sv <= cs.ver /\ r.tv <= cs.ver

InHandInv(r, w, v) ==
    /\ w.st # "out" => w.ver <= v
    /\ w.st \in {"write", "record"} /\ w.bytes # 0 =>
          w.ver <= w.bytes /\ w.bytes <= v /\ r.sv <= w.bytes /\ r.tv <= w.bytes

PutInv(w, cs) ==
    w.st = "record" => /\ w.bytes # 0 /\ w.res # ""
                       /\ w.res \in {"created", "updated"} /\ cs.by = "us" => w.bytes <= cs.ver

KnownInv(k, r, w) ==
    k \notin Unkeyed => /\ w.st # "out" => w.ver # NoVersion
                        /\ r.tv # NoVersion => r.sv # NoVersion

AheadInv ==
    \A k \in Key :
        /\ ver[k] <= clock /\ row[k].sv <= ver[k] /\ row[k].tv <= ver[k]
        /\ work[k].st # "out" => pass.pc = "items"
        /\ InHandInv(row[k], work[k], ver[k]) /\ KnownInv(k, row[k], work[k])
        /\ pass.pc = "items" => PutInv(work[k], copy[k][pass.cur])
        /\ \A c \in Collection : Behind(row[k], c, copy[k][c])

LEMMA InitAhead == Init => AheadInv
  <1> SUFFICES ASSUME Init, NEW k \in Key
               PROVE  /\ ver[k] <= clock /\ row[k].sv <= ver[k] /\ row[k].tv <= ver[k]
                      /\ work[k].st = "out" /\ row[k].tv = NoVersion /\ pass.pc = "idle"
    BY DEF AheadInv, InHandInv, PutInv, Behind, KnownInv
  <1>1. PICK c \in Collection, old \in SUBSET Legacy :
           /\ ver = [i \in Key |-> IF i \in old THEN 1 ELSE 0]
           /\ row = [i \in Key |-> IF i \in old
                                   THEN [NoRow EXCEPT !.status = "copied", !.coll = c] ELSE NoRow]
    BY DEF Init
  <1>2. row[k].sv = 0 /\ row[k].tv = 0
    BY <1>1 DEF NoRow, NoVersion
  <1>3. ver[k] \in {0, 1} /\ clock = 1
    BY <1>1 DEF Init
  <1>4. work[k].st = "out" /\ pass.pc = "idle"
    BY IdleTypes DEF Init, Unlisted, Out
  <1>5. QED
    BY <1>2, <1>3, <1>4 DEF NoVersion

\* What the provers need of the types, item by item.
LEMMA ItemTypes ==
  ASSUME TypeOK, NEW k \in Key
  PROVE  /\ clock \in Nat /\ ver[k] \in Nat /\ row[k] \in Row /\ work[k] \in Work
         /\ row[k].sv \in Nat /\ row[k].tv \in Nat /\ work[k].ver \in Nat /\ work[k].bytes \in Nat
         /\ \A c \in Collection : copy[k][c] \in Copy /\ copy[k][c].ver \in Nat
  <1>1. row[k] \in Row /\ work[k] \in Work /\ clock \in Nat /\ ver[k] \in Nat
    BY DEF TypeOK
  <1>2. \A c \in Collection : copy[k][c] \in Copy
    BY DEF TypeOK
  <1>3. /\ row[k].sv \in Nat /\ row[k].tv \in Nat /\ work[k].ver \in Nat /\ work[k].bytes \in Nat
    BY <1>1 DEF Row, Work
  <1>4. \A c \in Collection : copy[k][c].ver \in Nat
    BY <1>2 DEF Copy
  <1>5. QED
    BY <1>1, <1>2, <1>3, <1>4

\* The source only moves on.
LEMMA SourceAhead == TypeOK /\ AheadInv /\ Source => AheadInv'
  <1> SUFFICES ASSUME TypeOK, AheadInv, Source PROVE AheadInv'
    OBVIOUS
  <1>1. /\ clock' = clock + 1 /\ UNCHANGED <<copy, row, pass, work>>
        /\ \E i \in Key : ver' = [ver EXCEPT ![i] = clock + 1]
    BY DEF Source, SourceCreate, SourceEdit, SourceMove, SourceRemove
  <1>2. ASSUME NEW k \in Key PROVE ver'[k] \in {ver[k], clock + 1}
    BY <1>1 DEF TypeOK
  <1>3. ASSUME NEW k \in Key PROVE ver[k] <= ver'[k] /\ ver'[k] <= clock' /\ ver'[k] \in Nat
    BY <1>1, <1>2, ItemTypes DEF AheadInv
  <1>4. ASSUME NEW k \in Key PROVE InHandInv(row[k], work[k], ver'[k])
    BY <1>3, ItemTypes DEF AheadInv, InHandInv
  <1>5. ASSUME NEW k \in Key PROVE row[k].sv <= ver'[k] /\ row[k].tv <= ver'[k]
    BY <1>3, ItemTypes DEF AheadInv
  <1>6. QED
    BY <1>1, <1>3, <1>4, <1>5 DEF AheadInv

\* What the owner leaves is not ours.
LEMMA OwnerAhead == TypeOK /\ AheadInv /\ Owner => AheadInv'
  <1> SUFFICES ASSUME TypeOK, AheadInv, Owner PROVE AheadInv'
    OBVIOUS
  <1>1. PICK j \in Key, d \in Collection, o \in {[by |-> "owner", ver |-> 0], NoCopy} :
           copy' = [copy EXCEPT ![j][d] = o]
    BY DEF Owner, OwnerWrite, OwnerRemove
  <1>2. UNCHANGED <<clock, ver, row, pass, work>>
    BY DEF Owner, OwnerWrite, OwnerRemove, sourceVars
  <1>3. \A k \in Key, c \in Collection : copy'[k][c] = copy[k][c] \/ copy'[k][c].by # "us"
    BY <1>1 DEF TypeOK, NoCopy
  <1>4. pass.pc = "items" => pass.cur \in Collection
    BY DEF TypeOK
  <1>5. QED
    BY <1>2, <1>3, <1>4 DEF AheadInv, PutInv, Behind

\* A step that leaves the source, the target and the items in hand alone, or
\* lets go of the items, and says no more in the rows about versions.
LEMMA StillAhead ==
  ASSUME AheadInv, UNCHANGED <<clock, ver, copy>>,
         \A k \in Key : /\ row'[k].sv = row[k].sv /\ row'[k].tv = row[k].tv
                        /\ row'[k].coll = row[k].coll
                        /\ row'[k].status \in {"copied", "updated"} => row'[k].status = row[k].status,
         \/ work' = work /\ pass'.pc = pass.pc /\ pass'.cur = pass.cur
         \/ \A k \in Key : work'[k].st = "out"
  PROVE  AheadInv'
  <1>1. ASSUME NEW k \in Key, NEW c \in Collection PROVE Behind(row'[k], c, copy[k][c])
    BY <1>1 DEF AheadInv, Behind
  <1>2. ASSUME NEW k \in Key
        PROVE  /\ work'[k].st # "out" => pass'.pc = "items"
               /\ InHandInv(row'[k], work'[k], ver[k]) /\ KnownInv(k, row'[k], work'[k])
               /\ pass'.pc = "items" => PutInv(work'[k], copy[k][pass'.cur])
    BY DEF AheadInv, InHandInv, PutInv, KnownInv
  <1>3. QED
    BY <1>1, <1>2 DEF AheadInv

LEMMA OperatorAhead == TypeOK /\ AheadInv /\ Operator => AheadInv'
  <1> SUFFICES ASSUME TypeOK, AheadInv, Operator PROVE AheadInv'
    OBVIOUS
  <1>1. UNCHANGED <<clock, ver, copy, pass, work>>
    BY DEF Operator, ExecuteCutover, RollBackCutover, RetryFailure, AcceptFailure, sourceVars
  <1>2. ASSUME NEW i \in Key, RetryFailure(i) \/ AcceptFailure(i) PROVE AheadInv'
    <2>1. row'[i] \in {[row[i] EXCEPT !.attempts = 0, !.parked = FALSE],
                       [row[i] EXCEPT !.status = "left_behind"]}
      BY <1>2 DEF RetryFailure, AcceptFailure, TypeOK
    <2>2. \A k \in Key \ {i} : row'[k] = row[k]
      BY <1>2 DEF RetryFailure, AcceptFailure, TypeOK
    <2>3. /\ row'[i].sv = row[i].sv /\ row'[i].tv = row[i].tv /\ row'[i].coll = row[i].coll
          /\ row'[i].status \in {"copied", "updated"} => row'[i].status = row[i].status
      BY <2>1 DEF TypeOK, Row
    <2>4. QED
      BY <1>1, <2>2, <2>3, StillAhead
  <1>3. CASE ExecuteCutover \/ RollBackCutover
    BY <1>1, <1>3, StillAhead DEF ExecuteCutover, RollBackCutover
  <1>4. QED
    BY <1>2, <1>3 DEF Operator

LEMMA OpenAhead ==
  ASSUME TypeOK, AheadInv, NEW c \in Collection, NEW items, NEW removed, Open(c, items, removed),
         \A k \in Key : k \in items => ver[k] # 0
  PROVE  AheadInv'
  <1>1. UNCHANGED <<clock, ver, copy, row>> /\ pass'.pc = "items"
    BY DEF Open, sourceVars, TypeOK, Pass
  <1>2. ASSUME NEW k \in Key
        PROVE  /\ work'[k].st \in {"out", "listed"} /\ work'[k].ver \in {0, ver[k]}
               /\ work'[k].st # "out" /\ k \notin Unkeyed => work'[k].ver = ver[k] /\ k \in items
    BY DEF Open, Out, Version, NoVersion
  <1>3. ASSUME NEW k \in Key
        PROVE  InHandInv(row[k], work'[k], ver[k]) /\ PutInv(work'[k], copy[k][pass'.cur])
    <2>1. work'[k].st \in {"out", "listed"} /\ work'[k].ver <= ver[k]
      BY <1>2, ItemTypes
    <2>2. QED
      BY <2>1 DEF InHandInv, PutInv
  <1>4. ASSUME NEW k \in Key PROVE KnownInv(k, row[k], work'[k])
    BY <1>2 DEF KnownInv, AheadInv, NoVersion
  <1>5. QED
    BY <1>1, <1>3, <1>4 DEF AheadInv

\* One item moves on, with its row, and the target is left alone.
LEMMA ItemAhead ==
  ASSUME TypeOK, AheadInv, NEW i \in Key, NEW r, NEW w, pass.pc = "items",
         row' = [row EXCEPT ![i] = r], work' = [work EXCEPT ![i] = w],
         pass'.pc = "items", pass'.cur = pass.cur, UNCHANGED <<clock, ver, copy>>,
         r.sv <= ver[i], r.tv <= ver[i], InHandInv(r, w, ver[i]), KnownInv(i, r, w),
         PutInv(w, copy[i][pass.cur]), \A c \in Collection : Behind(r, c, copy[i][c])
  PROVE  AheadInv'
  <1>1. row'[i] = r /\ work'[i] = w
    BY DEF TypeOK
  <1>2. \A k \in Key \ {i} : row'[k] = row[k] /\ work'[k] = work[k]
    BY DEF TypeOK
  <1>3. QED
    BY <1>1, <1>2 DEF AheadInv

\* An item out of the pass's hands, whose row says no more about versions.
LEMMA OutAhead ==
  ASSUME TypeOK, AheadInv, NEW i \in Key, NEW r, pass.pc = "items",
         row' = [row EXCEPT ![i] = r], work' = [work EXCEPT ![i] = Out],
         pass'.pc = "items", pass'.cur = pass.cur, UNCHANGED <<clock, ver, copy>>,
         r.sv = row[i].sv, r.tv = row[i].tv,
         r.status \in {"copied", "updated"} => r.status = row[i].status /\ r.coll = row[i].coll
  PROVE  AheadInv'
  <1>1. Out.st = "out"
    BY DEF Out
  <1>2. InHandInv(r, Out, ver[i]) /\ PutInv(Out, copy[i][pass.cur]) /\ KnownInv(i, r, Out)
    BY <1>1 DEF InHandInv, PutInv, KnownInv, AheadInv
  <1>3. \A c \in Collection : Behind(r, c, copy[i][c])
    BY DEF AheadInv, Behind
  <1>4. QED
    BY <1>2, <1>3, ItemAhead DEF AheadInv

LEMMA FailureSays ==
  ASSUME NEW r \in Row, NEW park, NEW ref, NEW c
  PROVE  /\ recordFailure(r, park, ref, c).sv = r.sv /\ recordFailure(r, park, ref, c).tv = r.tv
         /\ recordFailure(r, park, ref, c).status = "failed"
  <1> DEFINE a == r.attempts + 1
             b == IF park THEN TRUE ELSE r.parked
  <1>1. recordFailure(r, park, ref, c) = [r EXCEPT !.status = "failed", !.attempts = a, !.parked = b,
                                                   !.coll = c, !.ref = ref]
    BY DEF recordFailure
  <1> HIDE DEF a, b
  <1>2. QED
    BY <1>1 DEF Row

LEMMA FailedAhead ==
  ASSUME TypeOK, AheadInv, NEW k \in Key, NEW park, pass.pc = "items", Failed(k, park), copy' = copy
  PROVE  AheadInv'
  <1> DEFINE r == recordFailure(row[k], park, work[k].ref, pass.cur)
             again == pass.retryable \/ ~needsDecision(r)
  <1>1. r.sv = row[k].sv /\ r.tv = row[k].tv /\ r.status = "failed"
    BY ItemTypes, FailureSays
  <1>2. /\ row' = [row EXCEPT ![k] = r] /\ work' = [work EXCEPT ![k] = Out]
        /\ pass' = [pass EXCEPT !.retryable = again] /\ UNCHANGED <<clock, ver>>
    BY DEF Failed, sourceVars
  <1> HIDE DEF r, again
  <1>3. pass'.pc = "items" /\ pass'.cur = pass.cur
    BY <1>2 DEF TypeOK, Pass
  <1>4. QED
    BY <1>1, <1>2, <1>3, OutAhead

LEMMA LookedSays ==
  ASSUME NEW r \in Row, NEW act, NEW v \in Nat, NEW c
  PROVE  /\ Looked(r, act, v, c).tv = r.tv /\ Looked(r, act, v, c).coll = r.coll
         /\ Looked(r, act, v, c).status = r.status
         /\ Looked(r, act, v, c).sv = IF act = "record-version" THEN v ELSE r.sv
  <1>1. ASSUME NEW t \in Row
        PROVE  /\ clearAbsent(t) \in Row /\ clearMove(t).sv = t.sv /\ clearMove(t).tv = t.tv
               /\ clearMove(t).coll = t.coll /\ clearMove(t).status = t.status
               /\ clearAbsent(t).sv = t.sv /\ clearAbsent(t).tv = t.tv
               /\ clearAbsent(t).coll = t.coll /\ clearAbsent(t).status = t.status
               /\ recordMove(t, c).sv = t.sv /\ recordMove(t, c).tv = t.tv
               /\ recordMove(t, c).coll = t.coll /\ recordMove(t, c).status = t.status
    BY DEF clearMove, clearAbsent, recordMove, Row
  <1>2. ASSUME NEW t \in Row
        PROVE  /\ [clearMove(t) EXCEPT !.sv = v].sv = v /\ [clearMove(t) EXCEPT !.sv = v].tv = t.tv
               /\ [clearMove(t) EXCEPT !.sv = v].coll = t.coll
               /\ [clearMove(t) EXCEPT !.sv = v].status = t.status
    BY DEF clearMove, Row
  <1>3. QED
    BY <1>1, <1>2 DEF Looked

LEMMA LookAhead ==
  ASSUME TypeOK, AheadInv, NEW k \in Key, LookItem(k)
  PROVE  AheadInv'
  <1> DEFINE act == classifyKnownItem(row[k], work[k].ver, pass.cur)
             r == IF k \in Unkeyed \/ act = "create" THEN row[k]
                  ELSE Looked(row[k], act, work[k].ver, pass.cur)
             w == IF writes(act, pass.authority)
                  THEN [work[k] EXCEPT !.st = "write", !.rewrite = (act = "rewrite"), !.bytes = Fetched(k)]
                  ELSE Out
  <1>1. /\ row' = [row EXCEPT ![k] = r] /\ work' = [work EXCEPT ![k] = w] /\ pass.pc = "items"
        /\ pass'.pc = "items" /\ pass'.cur = pass.cur /\ UNCHANGED <<clock, ver, copy>>
        /\ work[k].st = "listed"
    BY DEF LookItem, At, sourceVars, TypeOK, Pass
  <1>t. row[k] \in Row /\ work[k] \in Work /\ ver[k] \in Nat /\ row[k].sv \in Nat /\ row[k].tv \in Nat
        /\ work[k].ver \in Nat
    BY ItemTypes
  <1>2. /\ r.tv = row[k].tv /\ r.coll = row[k].coll /\ r.status = row[k].status
        /\ \/ r.sv = row[k].sv
           \/ act = "record-version" /\ k \notin Unkeyed /\ r.sv = work[k].ver
    BY <1>t, LookedSays
  <1>3. act = "record-version" => row[k].sv = NoVersion
    BY DEF classifyKnownItem, presentItem, failedItem
  <1>4. /\ work[k].ver <= ver[k] /\ row[k].sv <= ver[k] /\ row[k].tv <= ver[k]
        /\ k \notin Unkeyed => /\ work[k].ver # NoVersion
                               /\ row[k].tv # NoVersion => row[k].sv # NoVersion
    BY <1>1 DEF AheadInv, InHandInv, KnownInv
  <1>5. r.sv <= ver[k] /\ r.tv <= ver[k]
    BY <1>2, <1>4
  <1>6. \A c \in Collection : Behind(r, c, copy[k][c])
    BY <1>2, <1>3, <1>4 DEF AheadInv, Behind
  <1>7. /\ w.st \in {"out", "write"} /\ (w.st = "write" => w.ver = work[k].ver /\ w.bytes \in {0, ver[k]})
    <2>1. Fetched(k) \in {0, ver[k]} /\ Out.st = "out"
      BY DEF Fetched, Out
    <2>2. ASSUME NEW b, NEW o
          PROVE  /\ [work[k] EXCEPT !.st = "write", !.rewrite = b, !.bytes = o].st = "write"
                 /\ [work[k] EXCEPT !.st = "write", !.rewrite = b, !.bytes = o].ver = work[k].ver
                 /\ [work[k] EXCEPT !.st = "write", !.rewrite = b, !.bytes = o].bytes = o
      BY <1>t DEF Work
    <2>3. QED
      BY <2>1, <2>2
  <1> HIDE DEF r, w
  <1>8. InHandInv(r, w, ver[k])
    BY <1>t, <1>4, <1>5, <1>7 DEF InHandInv
  <1>9. KnownInv(k, r, w)
    BY <1>2, <1>4, <1>7 DEF KnownInv
  <1>10. PutInv(w, copy[k][pass.cur])
    BY <1>7 DEF PutInv
  <1>11. QED
    BY <1>1, <1>5, <1>6, <1>8, <1>9, <1>10, ItemAhead

LEMMA RecordAhead ==
  ASSUME TypeOK, AheadInv, NEW k \in Key, RecordItem(k)
  PROVE  AheadInv'
  <1> DEFINE r == Recorded(row[k], work[k], pass.cur)
  <1>1. /\ row' = [row EXCEPT ![k] = r] /\ work' = [work EXCEPT ![k] = Out] /\ pass.pc = "items"
        /\ pass'.pc = "items" /\ pass'.cur = pass.cur /\ UNCHANGED <<clock, ver, copy>>
        /\ work[k].st = "record"
    BY DEF RecordItem, At, sourceVars
  <1>t. row[k] \in Row /\ work[k] \in Work /\ ver[k] \in Nat /\ row[k].sv \in Nat /\ row[k].tv \in Nat
        /\ work[k].ver \in Nat /\ work[k].bytes \in Nat /\ pass.cur \in Collection
    BY <1>1, ItemTypes DEF TypeOK
  <1>2. /\ work[k].bytes # 0 /\ work[k].ver <= work[k].bytes /\ work[k].bytes <= ver[k]
        /\ row[k].sv <= work[k].bytes /\ row[k].tv <= work[k].bytes
        /\ k \notin Unkeyed => work[k].ver # NoVersion
        /\ work[k].res \in {"created", "updated"} /\ copy[k][pass.cur].by = "us"
           => work[k].bytes <= copy[k][pass.cur].ver
    BY <1>1 DEF AheadInv, InHandInv, PutInv, KnownInv
  <1>3. CASE work[k].res = "conflicted"
    <2>1. r.sv = row[k].sv /\ r.tv = row[k].tv /\ r.status = "adopted"
      BY <1>t, <1>3 DEF Recorded, Row
    <2>2. QED
      BY <1>1, <2>1, OutAhead
  <1>4. CASE work[k].res # "conflicted"
    <2> DEFINE st == CASE work[k].res = "created" -> "copied"
                       [] work[k].res = "adopted" -> "adopted"
                       [] OTHER -> "updated"
               tv == IF ServerTags /\ work[k].res \in {"created", "updated"} THEN work[k].bytes ELSE row[k].tv
    <2>1. r = [row[k] EXCEPT !.status = st, !.sv = work[k].ver, !.coll = pass.cur,
                             !.ref = work[k].ref, !.tv = tv]
      BY <1>4 DEF Recorded
    <2>2. /\ tv \in {work[k].bytes, row[k].tv}
          /\ st \in {"copied", "updated"} => work[k].res \in {"created", "updated"}
      <3>1. work[k].res \in {"created", "adopted", "updated"}
        BY <1>t, <1>1, <1>4 DEF Work, AheadInv, PutInv
      <3>2. QED
        BY <3>1
    <2>3. r.status = st /\ r.sv = work[k].ver /\ r.coll = pass.cur /\ r.tv = tv
      <3> HIDE DEF st, tv
      <3> QED
        BY <1>t, <2>1 DEF Row
    <2> HIDE DEF r, st, tv
    <2>4. r.sv <= ver[k] /\ r.tv <= ver[k]
      BY <1>t, <1>2, <2>2, <2>3
    <2>5. Out.st = "out"
      BY DEF Out
    <2>6. InHandInv(r, Out, ver[k]) /\ PutInv(Out, copy[k][pass.cur])
      BY <2>5 DEF InHandInv, PutInv
    <2>7. KnownInv(k, r, Out)
      BY <1>2, <2>3, <2>5 DEF KnownInv
    <2>8. ASSUME NEW c \in Collection PROVE Behind(r, c, copy[k][c])
      <3>1. copy[k][pass.cur].ver \in Nat
        BY <1>t, ItemTypes
      <3>2. QED
        BY <1>t, <1>2, <2>2, <2>3, <3>1 DEF Behind
    <2>9. QED
      BY <1>1, <2>4, <2>6, <2>7, <2>8, ItemAhead
  <1>5. QED
    BY <1>3, <1>4

\* A put: what it leaves at the target, and what it answers.
LEMMA UpsertLeaves ==
  ASSUME NEW c, NEW r, NEW rewrite \in BOOLEAN, NEW bytes
  PROVE  LET u == Upsert(c, r, rewrite, bytes)
             ours == [by |-> "us", ver |-> bytes]
             again == Upsert(u.copy, r, rewrite, bytes)
         IN /\ u.copy \in {c, ours}
            /\ u.res \in {"created", "adopted", "updated", "conflicted"}
            /\ again.res \in {"created", "adopted", "updated", "conflicted"}
            /\ u.res \in {"created", "updated"} => u.copy = ours
            /\ again.res \in {"created", "updated"} => u.copy = ours \/ u.copy = NoCopy
  <1>1. CASE rewrite
    BY <1>1 DEF Upsert
  <1>2. CASE ~rewrite
    BY <1>2 DEF Upsert
  <1>3. QED
    BY <1>1, <1>2

\* Our bytes, as the put left them, and nothing at all.
LEMMA OursLeft ==
  ASSUME NEW r, NEW c, NEW bytes \in Nat, r.sv <= bytes, r.tv <= bytes
  PROVE  Behind(r, c, [by |-> "us", ver |-> bytes])
  BY DEF Behind

LEMMA SameAge == \A n \in Nat : n <= n
  OBVIOUS

LEMMA PutLeft ==
  ASSUME NEW w \in Work, NEW cs \in Copy, w.st = "record" => w.bytes # 0 /\ w.res # "",
         w.st = "record" /\ w.res \in {"created", "updated"} =>
            cs = [by |-> "us", ver |-> w.bytes] \/ cs = NoCopy
  PROVE  PutInv(w, cs)
  <1>1. w.bytes \in Nat
    BY DEF Work
  <1>2. CASE cs = [by |-> "us", ver |-> w.bytes]
    <2>1. cs.ver = w.bytes /\ w.bytes <= w.bytes
      BY <1>1, <1>2, SameAge, Zenon
    <2>2. QED
      BY <2>1, Zenon DEF PutInv
  <1>3. CASE cs = NoCopy
    BY <1>3 DEF PutInv, NoCopy
  <1>4. QED
    BY <1>2, <1>3 DEF PutInv

LEMMA PutAhead ==
  ASSUME TypeOK, AheadInv, NEW k \in Key, NEW r, NEW w \in Work, At(k, "write"), work[k].bytes # 0,
         copy' = [copy EXCEPT ![k][pass.cur] = Put(k).copy], row' = [row EXCEPT ![k] = r],
         work' = [work EXCEPT ![k] = w], pass'.pc = pass.pc, pass'.cur = pass.cur,
         UNCHANGED <<clock, ver>>, r.sv = row[k].sv, r.tv = row[k].tv, r.coll = row[k].coll \/ r.status = "failed",
         r.status \in {row[k].status, "failed"}, w.st \in {"out", "record"},
         w.st = "record" => /\ w.ver = work[k].ver /\ w.bytes = work[k].bytes /\ w.res # ""
                            /\ w.res \in {"created", "updated"} =>
                                  Put(k).copy = [by |-> "us", ver |-> work[k].bytes] \/ Put(k).copy = NoCopy
  PROVE  AheadInv'
  <1>1. pass.pc = "items" /\ pass.cur \in Collection /\ work[k].st = "write"
    BY DEF At, TypeOK
  <1>t. row[k] \in Row /\ work[k] \in Work /\ ver[k] \in Nat /\ row[k].sv \in Nat /\ row[k].tv \in Nat
        /\ work[k].ver \in Nat /\ work[k].bytes \in Nat /\ work[k].rewrite \in BOOLEAN
    BY ItemTypes DEF Work
  <1>2. Put(k).copy \in {copy[k][pass.cur], [by |-> "us", ver |-> work[k].bytes]}
    BY <1>t, UpsertLeaves DEF Put
  <1>3. /\ copy'[k][pass.cur] = Put(k).copy
        /\ \A c \in Collection \ {pass.cur} : copy'[k][c] = copy[k][c]
        /\ \A j \in Key \ {k} : copy'[j] = copy[j]
    BY <1>1 DEF TypeOK
  <1>4. row'[k] = r /\ work'[k] = w
    BY DEF TypeOK
  <1>5. \A j \in Key \ {k} : row'[j] = row[j] /\ work'[j] = work[j]
    BY DEF TypeOK
  <1>6. /\ work[k].ver <= work[k].bytes /\ work[k].bytes <= ver[k]
        /\ row[k].sv <= work[k].bytes /\ row[k].tv <= work[k].bytes
    BY <1>1 DEF AheadInv, InHandInv
  <1>7. PutInv(w, copy'[k][pass.cur])
    <2>1. Put(k).copy \in Copy
      BY <1>t, <1>1, ItemTypes, UpsertType, Zenon DEF Put
    <2>2. QED
      BY <1>3, <2>1, PutLeft, Zenon
  <1>8. InHandInv(r, w, ver[k]) /\ KnownInv(k, r, w)
    BY <1>1, <1>6 DEF AheadInv, InHandInv, KnownInv
  <1>9. ASSUME NEW c \in Collection PROVE Behind(r, c, copy'[k][c])
    <2>1. Behind(row[k], c, copy[k][c])
      BY DEF AheadInv
    <2>2. copy'[k][c] \in {copy[k][c], [by |-> "us", ver |-> work[k].bytes]}
      BY <1>2, <1>3
    <2>3. CASE copy'[k][c] = copy[k][c]
      BY <2>1, <2>3 DEF Behind
    <2>4. CASE copy'[k][c] = [by |-> "us", ver |-> work[k].bytes]
      BY <1>t, <1>6, <2>4, OursLeft
    <2>5. QED
      BY <2>2, <2>3, <2>4
  <1>10. /\ ver'[k] <= clock' /\ row'[k].sv <= ver'[k] /\ row'[k].tv <= ver'[k]
         /\ \A j \in Key \ {k} : ver'[j] <= clock' /\ row'[j].sv <= ver'[j] /\ row'[j].tv <= ver'[j]
    BY <1>4, <1>5 DEF AheadInv
  <1>11. ASSUME NEW j \in Key, j # k
         PROVE  /\ work'[j].st # "out" => pass'.pc = "items"
                /\ InHandInv(row'[j], work'[j], ver'[j]) /\ KnownInv(j, row'[j], work'[j])
                /\ pass'.pc = "items" => PutInv(work'[j], copy'[j][pass'.cur])
                /\ \A c \in Collection : Behind(row'[j], c, copy'[j][c])
    BY <1>1, <1>3, <1>5, <1>11 DEF AheadInv
  <1>12. QED
    BY <1>1, <1>4, <1>7, <1>8, <1>9, <1>10, <1>11 DEF AheadInv

LEMMA PutStepAhead ==
  ASSUME TypeOK, AheadInv, NEW k \in Key, PutItem(k) \/ PutItemTwice(k) \/ PutItemLost(k)
  PROVE  AheadInv'
  <1>t. row[k] \in Row /\ work[k] \in Work /\ work[k].rewrite \in BOOLEAN
    BY ItemTypes DEF Work
  <1>u. UNCHANGED <<clock, ver>>
    BY DEF PutItem, PutItemTwice, PutItemLost, Failed, sourceVars
  <1>r. row = [row EXCEPT ![k] = row[k]]
    BY DEF TypeOK
  <1>1. ASSUME NEW res \in {"created", "adopted", "updated", "conflicted"}, work' = [work EXCEPT ![k].st = "record", ![k].res = res],
               UNCHANGED <<row, pass>>, At(k, "write"), work[k].bytes # 0,
               copy' = [copy EXCEPT ![k][pass.cur] = Put(k).copy],
               res \in {"created", "updated"} =>
                  Put(k).copy = [by |-> "us", ver |-> work[k].bytes] \/ Put(k).copy = NoCopy
        PROVE  AheadInv'
    <2> DEFINE w == [work[k] EXCEPT !.st = "record", !.res = res]
    <2>1. work' = [work EXCEPT ![k] = w]
      BY <1>1 DEF TypeOK
    <2>2. w \in Work /\ w.st = "record" /\ w.ver = work[k].ver /\ w.bytes = work[k].bytes /\ w.res = res
      BY <1>t, <1>1 DEF Work
    <2> HIDE DEF w
    <2>3. row' = [row EXCEPT ![k] = row[k]]
      BY <1>r, <1>1
    <2>4. QED
      BY <1>u, <1>1, <2>1, <2>2, <2>3, PutAhead
  <1>p. /\ Put(k).res \in {"created", "adopted", "updated", "conflicted"}
        /\ Put(k).res \in {"created", "updated"} =>
              Put(k).copy = [by |-> "us", ver |-> work[k].bytes]
    <2> DEFINE c == copy[k][pass.cur]
               r == row[k]
               bytes == work[k].bytes
    <2>1. \A b \in BOOLEAN :
             /\ Upsert(c, r, b, bytes).res \in {"created", "adopted", "updated", "conflicted"}
             /\ Upsert(c, r, b, bytes).res \in {"created", "updated"} =>
                   Upsert(c, r, b, bytes).copy = [by |-> "us", ver |-> bytes]
      <3> HIDE DEF c, r, bytes
      <3> QED
        BY UpsertLeaves, Zenon
    <2>2. QED
      BY <1>t, <2>1, Zenon DEF Put
  <1>2. CASE PutItem(k)
    BY <1>p, <1>1, <1>2 DEF PutItem
  <1>3. CASE PutItemTwice(k)
    <2> DEFINE res == Upsert(Put(k).copy, row[k], work[k].rewrite, work[k].bytes).res
    <2>1. /\ res \in {"created", "adopted", "updated", "conflicted"}
          /\ res \in {"created", "updated"} =>
                Put(k).copy = [by |-> "us", ver |-> work[k].bytes] \/ Put(k).copy = NoCopy
      <3> DEFINE c == copy[k][pass.cur]
                 r == row[k]
                 bytes == work[k].bytes
      <3>1. \A b \in BOOLEAN :
               /\ Upsert(Upsert(c, r, b, bytes).copy, r, b, bytes).res
                     \in {"created", "adopted", "updated", "conflicted"}
               /\ Upsert(Upsert(c, r, b, bytes).copy, r, b, bytes).res \in {"created", "updated"} =>
                     \/ Upsert(c, r, b, bytes).copy = [by |-> "us", ver |-> bytes]
                     \/ Upsert(c, r, b, bytes).copy = NoCopy
        <4> HIDE DEF c, r, bytes
        <4> QED
          BY UpsertLeaves, Zenon
      <3>2. QED
        BY <1>t, <3>1, Zenon DEF Put
    <2>2. work' = [work EXCEPT ![k].st = "record", ![k].res = res]
      BY <1>3 DEF PutItemTwice
    <2> HIDE DEF res
    <2>3. QED
      BY <1>1, <1>3, <2>1, <2>2 DEF PutItemTwice
  <1>4. CASE PutItemLost(k)
    <2>0. PICK park \in BOOLEAN : Failed(k, park)
      BY <1>4, Zenon DEF PutItemLost
    <2> DEFINE r == recordFailure(row[k], park, work[k].ref, pass.cur)
               again == pass.retryable \/ ~needsDecision(r)
    <2>1. r.sv = row[k].sv /\ r.tv = row[k].tv /\ r.status = "failed"
      BY <1>t, FailureSays
    <2>2. /\ row' = [row EXCEPT ![k] = r] /\ work' = [work EXCEPT ![k] = Out]
          /\ pass' = [pass EXCEPT !.retryable = again]
          /\ At(k, "write") /\ work[k].bytes # 0
          /\ copy' = [copy EXCEPT ![k][pass.cur] = Put(k).copy]
      BY <1>4, <2>0 DEF PutItemLost, Failed
    <2> HIDE DEF r, again
    <2>3. pass'.pc = pass.pc /\ pass'.cur = pass.cur /\ Out.st = "out"
      BY <2>2 DEF TypeOK, Pass, Out
    <2>4. QED
      BY <1>u, <2>1, <2>2, <2>3, IdleTypes, PutAhead
  <1>5. QED
    BY <1>2, <1>3, <1>4

LEMMA FoldersAhead == TypeOK /\ AheadInv /\ Folders => AheadInv'
  <1> SUFFICES ASSUME TypeOK, AheadInv, Folders PROVE AheadInv'
    OBVIOUS
  <1>1. ASSUME NEW c \in Collection, OpenFolder(c) PROVE AheadInv'
    <2>1. prevCursor(c) \in Nat
      BY DEF prevCursor, TypeOK, NoCursor
    <2>2. \A k \in Key : k \in listSince(c) => ver[k] # 0
      BY <2>1 DEF listSince, TypeOK
    <2>3. QED
      BY <1>1, <2>2, OpenAhead DEF OpenFolder
  <1>2. ASSUME pass.pc # "items" \/ work = Unlisted, work' = work, UNCHANGED <<clock, ver, copy>>,
               row' = row
        PROVE  AheadInv'
    <2>1. \A k \in Key : work[k].st = "out"
      <3>1. CASE work = Unlisted
        BY <3>1 DEF Unlisted, Out
      <3>2. CASE pass.pc # "items"
        BY <3>2 DEF AheadInv
      <3>3. QED
        BY <1>2, <3>1, <3>2
    <2>2. QED
      BY <1>2, <2>1, StillAhead
  <1>3. CASE StartPass \/ CloseFolder \/ ConcludePass \/ EndPass
    BY <1>2, <1>3 DEF StartPass, CloseFolder, ConcludePass, EndPass, sourceVars
  <1>4. ASSUME NEW c \in Collection, SkipFolder(c) \/ SaveHeldCursor(c) PROVE AheadInv'
    BY <1>2, <1>4 DEF SkipFolder, SaveHeldCursor, sourceVars
  <1>5. ASSUME NEW d \in pass.removals, ResolveRemoval(d) PROVE AheadInv'
    <2>1. \A k \in Key : work'[k].st = "out"
      BY <1>5 DEF ResolveRemoval, AheadInv
    <2>2. ASSUME NEW k \in Key
          PROVE  /\ row'[k].sv = row[k].sv /\ row'[k].tv = row[k].tv
                 /\ row'[k].coll = row[k].coll /\ row'[k].status = row[k].status
      <3>1. row'[k] \in {row[k], [row[k] EXCEPT !.reported = TRUE]}
        BY <1>5 DEF ResolveRemoval, recordReportedDeletion
      <3>2. QED
        BY <3>1, ItemTypes DEF Row
    <2>3. QED
      BY <1>5, <2>1, <2>2, StillAhead DEF ResolveRemoval, sourceVars
  <1>6. QED
    BY <1>1, <1>3, <1>4, <1>5 DEF Folders

\* An item that leaves the pass's hands without a word in its row.
LEMMA LetGoAhead ==
  ASSUME TypeOK, AheadInv, NEW k \in Key, pass.pc = "items", work' = [work EXCEPT ![k] = Out],
         UNCHANGED <<clock, ver, copy, row>>, pass'.pc = "items", pass'.cur = pass.cur
  PROVE  AheadInv'
  <1>1. row' = [row EXCEPT ![k] = row[k]]
    BY DEF TypeOK
  <1>2. QED
    BY <1>1, OutAhead

LEMMA ItemsAhead == TypeOK /\ AheadInv /\ Items => AheadInv'
  <1> SUFFICES ASSUME TypeOK, AheadInv, NEW k \in Key,
                      SkipItem(k) \/ LookItem(k) \/ VanishItem(k) \/ PutItem(k) \/ RecordItem(k)
               PROVE  AheadInv'
    BY DEF Items
  <1>1. CASE SkipItem(k)
    <2>1. pass'.pc = "items" /\ pass'.cur = pass.cur
      BY <1>1 DEF SkipItem, At, TypeOK, Pass
    <2>2. QED
      BY <1>1, <2>1, LetGoAhead DEF SkipItem, At, sourceVars
  <1>2. CASE VanishItem(k)
    BY <1>2, FailedAhead DEF VanishItem, At
  <1>3. QED
    BY <1>1, <1>2, LookAhead, PutStepAhead, RecordAhead

LEMMA FaultsAhead == TypeOK /\ AheadInv /\ Faults => AheadInv'
  <1> SUFFICES ASSUME TypeOK, AheadInv, Faults PROVE AheadInv'
    OBVIOUS
  <1>1. CASE Stop
    <2>1. pass'.pc = pass.pc /\ pass'.cur = pass.cur
      BY <1>1 DEF Stop, TypeOK, Pass
    <2>2. QED
      BY <1>1, <2>1, StillAhead DEF Stop, sourceVars
  <1>2. CASE AbandonPass
    <2>1. \A k \in Key : work'[k].st = "out"
      BY <1>2 DEF AbandonPass, Unlisted, Out
    <2>2. QED
      BY <1>2, <2>1, StillAhead DEF AbandonPass, sourceVars
  <1>3. ASSUME NEW c \in Collection, OpenUnseeing(c) PROVE AheadInv'
    BY <1>3, OpenAhead DEF OpenUnseeing
  <1>4. ASSUME NEW c \in Collection, UnreadFolder(c) PROVE AheadInv'
    <2>1. \A k \in Key : work'[k].st = "out"
      BY <1>4 DEF UnreadFolder, AheadInv
    <2>2. QED
      BY <1>4, <2>1, StillAhead DEF UnreadFolder, sourceVars
  <1>5. ASSUME NEW k \in Key, FailUnkeyed(k) \/ HoldItem(k) PROVE AheadInv'
    <2>1. pass'.pc = "items" /\ pass'.cur = pass.cur /\ pass.pc = "items"
      BY <1>5 DEF FailUnkeyed, HoldItem, At, TypeOK, Pass
    <2>2. QED
      BY <1>5, <2>1, LetGoAhead DEF FailUnkeyed, HoldItem, sourceVars
  <1>6. ASSUME NEW k \in Key, NEW park \in BOOLEAN, FailItem(k, park) PROVE AheadInv'
    BY <1>6, FailedAhead DEF FailItem, At
  <1>7. QED
    BY <1>1, <1>2, <1>3, <1>4, <1>5, <1>6, PutStepAhead DEF Faults

\* While the copy behind a row is ours, its bytes are at least as new as the
\* version the row records, and as the target version it records: for any
\* number of items, collections, crashes, lost answers, cutovers and answers of
\* the operator, with and without ETags from the server.
THEOREM LedgerAlwaysBehind == Spec => []LedgerNeverAhead
  <1>1. TypeOK /\ AheadInv /\ [Next]_vars => AheadInv'
    <2>1. AheadInv /\ UNCHANGED vars => AheadInv'
      BY DEF vars, AheadInv
    <2>2. QED
      BY <2>1, SourceAhead, OwnerAhead, OperatorAhead, FoldersAhead, ItemsAhead, FaultsAhead DEF Next
  <1>2. AheadInv => LedgerNeverAhead
    BY DEF AheadInv, LedgerNeverAhead, Behind
  <1>3. QED
    BY <1>1, <1>2, InitAhead, TypeCorrect, PTL DEF Spec
=============================================================================
