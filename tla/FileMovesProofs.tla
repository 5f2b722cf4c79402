-------------------------- MODULE FileMovesProofs --------------------------
(***************************************************************************)
(* Proofs about FileMoves, for every set of paths, folders and contents    *)
(* and any number of changes, failures and deaths.                         *)
(***************************************************************************)
EXTENDS FileMoves, TLAPS

-----------------------------------------------------------------------------
(* Types.                                                                   *)

\* The folder whose items are looked at, and the path of a job that has begun.
WhereInv ==
    /\ pass.pc = "items" => pass.cur \in Folder
    /\ \A x \in Job : /\ job[x].pc # "idle" => job[x].path \in Path
                      /\ job[x].kind = "relocation" => job[x].to \in Path
                      /\ job[x].pc = "ask" => job[x].kind = "relocation"

TypeInv == TypeOK /\ WhereInv

LEMMA NoTypes ==
    /\ NoObject \in Object /\ NoRow \in Row /\ Unread \in [Path -> Row]
    /\ NoJob \in JobState /\ NoJob.pc = "idle" /\ NoJob.kind = "" /\ NoJob.to = Nothing
<1>1. NoObject \in Object
  BY DEF NoObject, Object
<1>2. NoRow \in Row
  BY DEF NoRow, Row, Statuses
<1>3. NoJob \in JobState /\ NoJob.pc = "idle" /\ NoJob.kind = "" /\ NoJob.to = Nothing
  BY DEF NoJob, JobState
<1> QED BY <1>1, <1>2, <1>3 DEF Unread

LEMMA IdleType == Idle \in Pass /\ Idle.pc = "idle" /\ Idle.seen = {} /\ Idle.stable = Path
BY NoTypes DEF Idle, Pass

\* The ledger's writes make rows of rows.
LEMMA RowWrites ==
    ASSUME NEW r \in Row
    PROVE  /\ clearMove(r) \in Row /\ recordAbsent(r) \in Row /\ recordTrashedDeletion(r) \in Row
           /\ clearAbsent(r) \in Row /\ recordFailure(r) \in Row
<1>1. clearMove(r) \in Row /\ recordTrashedDeletion(r) \in Row
  BY DEF clearMove, recordTrashedDeletion, Row
<1>2. recordFailure(r) \in Row
  BY DEF recordFailure, Row, Statuses
<1>3. clearAbsent(r) \in Row
  <2>1. 0 \in 0..2 /\ FALSE \in BOOLEAN
    OBVIOUS
  <2> QED BY <2>1, Zenon DEF clearAbsent, Row
<1>4. recordAbsent(r) \in Row
  BY DEF recordAbsent, Row
<1> QED BY <1>1, <1>2, <1>3, <1>4

LEMMA LookedType == ASSUME NEW r \in Row PROVE Looked(r) \in Row
BY RowWrites DEF Looked

LEMMA MoveType == ASSUME NEW r \in Row, NEW q \in Path PROVE recordMove(r, q) \in Row
<1>1. (IF r.moved # q THEN FALSE ELSE r.kept) \in BOOLEAN
  BY DEF Row
<1>2. (r.moved # q \/ r.fresh) \in BOOLEAN
  OBVIOUS
<1> QED BY <1>1, <1>2 DEF recordMove, Row

LEMMA UpdateType ==
    ASSUME NEW r \in Row, NEW st \in Statuses, NEW b \in Bytes \cup {Nothing}
    PROVE  recordUpdate(r, st, b) \in Row
BY DEF recordUpdate, Row

\* A step of the pass keeps the types when it keeps those of what it writes.
LEMMA PassWrites ==
    ASSUME TypeInv, UNCHANGED <<outside, job>>, tgt' \in [Path -> Object],
           row' \in [Path -> Row], pass' \in Pass, pass'.pc = "items" => pass'.cur \in Folder,
           faults' \in Nat
    PROVE  TypeInv'
BY DEF TypeInv, TypeOK, WhereInv, outside

LEMMA FaultType == ASSUME TypeOK, Fault \/ UNCHANGED faults PROVE faults' \in Nat
BY DEF TypeOK, Fault

LEMMA StartTypes == ASSUME TypeInv, StartPass PROVE TypeInv'
<1> USE DEF TypeInv
<1>1. ASSUME NEW p \in Path PROVE [row[p] EXCEPT !.fresh = FALSE] \in Row
  BY DEF TypeOK, Row
<1>2. pass' = [Idle EXCEPT !.pc = "folders", !.decides = decides, !.left = Folder]
  BY DEF StartPass
<1>3. pass' \in Pass /\ pass'.pc = "folders"
  BY <1>2, IdleType DEF TypeOK, Pass
<1>4. row' \in [Path -> Row]
  BY <1>1 DEF StartPass
<1> QED BY <1>3, <1>4, PassWrites DEF StartPass, TypeOK

LEMMA ListTypes == ASSUME TypeInv, NEW f \in Folder, ListFolder(f) PROVE TypeInv'
<1> USE DEF TypeInv
<1> DEFINE l == {[path |-> p, ver |-> src[p]] : p \in {q \in Path : FolderOf[q] = f /\ There(q)}}
<1>1. l \in SUBSET Item
  BY DEF TypeOK, Item
<1>2. pass' = [pass EXCEPT !.pc = "items", !.left = pass.left \ {f}, !.cur = f, !.listed = l]
  BY DEF ListFolder
<1> HIDE DEF l
<1>3. pass' \in Pass /\ pass'.cur = f
  BY <1>1, <1>2 DEF TypeOK, Pass
<1> QED BY <1>3, PassWrites DEF ListFolder, TypeOK

LEMMA UnreadTypes == ASSUME TypeInv, NEW f \in Folder, UnreadFolder(f) PROVE TypeInv'
<1> USE DEF TypeInv
<1>1. pass' \in Pass /\ pass'.pc = "folders"
  BY DEF UnreadFolder, TypeOK, Pass
<1>2. faults' \in Nat
  BY FaultType DEF UnreadFolder
<1> QED BY <1>1, <1>2, PassWrites DEF UnreadFolder, TypeOK

LEMMA StopTypes ==
    ASSUME TypeInv, NEW why \in {"told", "late"}, Stop(why) PROVE TypeInv'
<1> USE DEF TypeInv
<1>1. pass' \in Pass /\ pass'.pc = pass.pc /\ pass'.cur = pass.cur
  BY DEF Stop, TypeOK, Pass
<1>2. faults' \in Nat
  BY FaultType DEF Stop
<1> QED BY <1>1, <1>2, PassWrites DEF Stop, TypeOK, WhereInv

LEMMA LeaveTypes == ASSUME TypeInv, NEW i \in pass.listed, LeaveItem(i) PROVE TypeInv'
<1> USE DEF TypeInv
<1>1. pass.cur \in Folder
  BY DEF LeaveItem, WhereInv
<1>2. pass' \in Pass /\ pass'.cur = pass.cur
  BY <1>1 DEF LeaveItem, TypeOK, Pass
<1> QED BY <1>1, <1>2, PassWrites DEF LeaveItem, TypeOK

LEMMA LookTypes == ASSUME TypeInv, NEW i \in pass.listed, LookItem(i) PROVE TypeInv'
<1> USE DEF TypeInv
<1>1. i \in Item /\ i.path \in Path
  BY DEF TypeOK, Pass, Item
<1>2. PICK h \in SUBSET Item :
         pass' = [pass EXCEPT !.listed = pass.listed \ {i}, !.seen = pass.seen \cup {i.path}, !.hand = h]
  <2> DEFINE act == classifyKnownItem(row[i.path], i.ver)
             writes == \/ act \in {"create", "retry-failed", "relocated-away"}
                       \/ act = "rewrite" /\ pass.decides
             known == IF act = "rewrite" THEN row[i.path].hash ELSE Nothing
             h == IF writes THEN pass.hand \cup {[path |-> i.path, ver |-> known]} ELSE pass.hand
  <2>1. known \in Bytes \cup {Nothing}
    BY <1>1 DEF TypeOK, Row
  <2>2. [path |-> i.path, ver |-> known] \in Item
    BY <1>1, <2>1 DEF Item
  <2>3. h \in SUBSET Item
    BY <2>2 DEF TypeOK, Pass
  <2>4. pass' = [pass EXCEPT !.listed = pass.listed \ {i}, !.seen = pass.seen \cup {i.path}, !.hand = h]
    BY DEF LookItem
  <2> QED BY <2>3, <2>4
<1>3. pass' \in Pass /\ pass'.cur = pass.cur
  BY <1>1, <1>2 DEF TypeOK, Pass
<1>4. row' \in [Path -> Row]
  BY <1>1, LookedType DEF LookItem, TypeOK
<1> QED BY <1>3, <1>4, PassWrites DEF LookItem, TypeOK, WhereInv

\* An item that is out of hand.
LEMMA DoneType == ASSUME TypeInv, NEW h PROVE Done(h) \in Pass /\ Done(h).cur = pass.cur
BY DEF TypeInv, TypeOK, Pass, Done

LEMMA HoldTypes ==
    ASSUME TypeInv, NEW h \in pass.hand, NEW why, HoldItem(h, why) PROVE TypeInv'
<1>1. pass' \in Pass /\ pass'.cur = pass.cur
  BY DoneType DEF HoldItem, Pass
<1>2. faults' \in Nat
  BY FaultType DEF HoldItem, TypeInv
<1> QED BY <1>1, <1>2, PassWrites DEF HoldItem, TypeInv, TypeOK, WhereInv

LEMMA CopyTypes == ASSUME TypeInv, NEW h \in pass.hand, CopyItem(h) PROVE TypeInv'
<1> USE DEF TypeInv
<1>1. h \in Item /\ h.path \in Path /\ h.ver \in Bytes \cup {Nothing}
  BY DEF TypeOK, Pass, Item
<1>2. src[h.path] \in Bytes \cup {Nothing} /\ row[h.path] \in Row
  BY <1>1 DEF TypeOK
<1>3. upsertFile(h) \in {"updated", "conflicted", "adopted", "copied"}
  BY DEF upsertFile
<1>4. [bytes |-> src[h.path], ours |-> TRUE] \in Object
  BY <1>2 DEF Object
<1>5. tgt' \in [Path -> Object]
  BY <1>1, <1>4 DEF CopyItem, TypeOK
<1>6. row' \in [Path -> Row]
  <2>1. recordUpdate(row[h.path], "adopted", h.ver) \in Row
    BY <1>1, <1>2, UpdateType DEF Statuses
  <2>2. upsertFile(h) # "conflicted" => recordUpdate(row[h.path], upsertFile(h), src[h.path]) \in Row
    BY <1>2, <1>3, UpdateType DEF Statuses
  <2> QED BY <1>1, <2>1, <2>2 DEF CopyItem, TypeOK
<1>7. pass' \in Pass /\ pass'.cur = pass.cur
  BY <1>1, DoneType DEF CopyItem, Pass
<1> QED BY <1>5, <1>6, <1>7, PassWrites DEF CopyItem, TypeOK, WhereInv

LEMMA FailTypes == ASSUME TypeInv, NEW h \in pass.hand, FailItem(h) PROVE TypeInv'
<1> USE DEF TypeInv
<1>1. h.path \in Path
  BY DEF TypeOK, Pass, Item
<1>2. row' \in [Path -> Row]
  BY <1>1, RowWrites DEF FailItem, TypeOK
<1>3. pass' \in Pass /\ pass'.cur = pass.cur
  BY DoneType DEF FailItem
<1>4. faults' \in Nat
  BY FaultType DEF FailItem
<1> QED BY <1>2, <1>3, <1>4, PassWrites DEF FailItem, TypeOK, WhereInv

LEMMA CloseTypes == ASSUME TypeInv, CloseFolder PROVE TypeInv'
<1> USE DEF TypeInv
<1>1. pass' \in Pass /\ pass'.pc = "folders"
  BY DEF CloseFolder, TypeOK, Pass
<1> QED BY <1>1, PassWrites DEF CloseFolder, TypeOK

LEMMA AbandonTypes == ASSUME TypeInv, AbandonPass \/ EndPass PROVE TypeInv'
<1>1. faults' \in Nat
  BY FaultType DEF AbandonPass, EndPass, TypeInv
<1> QED BY <1>1, IdleType, PassWrites DEF AbandonPass, EndPass, TypeInv, TypeOK

LEMMA ConcludeTypes == ASSUME TypeInv, Conclude PROVE TypeInv'
<1>1. (pass.decides /\ decides) \in BOOLEAN
  OBVIOUS
<1>2. pass' \in Pass /\ pass'.pc # "items"
  BY <1>1, IdleType DEF Conclude, TypeInv, TypeOK, Pass
<1> QED BY <1>2, PassWrites DEF Conclude, TypeInv, TypeOK

LEMMA ConcludedType == ASSUME TypeInv PROVE Concluded \in Pass /\ Concluded.pc = "auto"
BY IdleType DEF Concluded, TypeInv, TypeOK, Pass

LEMMA CorrelateTypes ==
    ASSUME TypeInv, NEW rows \in [Path -> Row], Correlate(rows), faults' \in Nat PROVE TypeInv'
<1>1. placedItems(rows) \in SUBSET Path
  BY DEF placedItems
<1>2. pass' \in Pass /\ pass'.pc # "items"
  BY <1>1, ConcludedType DEF Correlate, TypeInv, TypeOK, Pass
<1> QED BY <1>2, PassWrites DEF Correlate, TypeInv, TypeOK

LEMMA BinTypes == ASSUME TypeInv, ReadBin \/ PassOverBin PROVE TypeInv'
<1>1. faults' \in Nat
  BY FaultType DEF ReadBin, PassOverBin, TypeInv
<1>2. CASE ReadBin
  <2> DEFINE rows == [p \in Path |-> IF p \in bin \ pass.seen /\ isOnTarget(row[p])
                                     THEN recordTrashedDeletion(row[p]) ELSE row[p]]
  <2>1. rows \in [Path -> Row]
    BY RowWrites DEF TypeInv, TypeOK
  <2>2. Correlate(rows)
    BY <1>2 DEF ReadBin
  <2> HIDE DEF rows
  <2> QED BY <1>1, <2>1, <2>2, CorrelateTypes
<1>3. CASE PassOverBin
  BY <1>1, <1>3, CorrelateTypes DEF PassOverBin, TypeInv, TypeOK
<1> QED BY <1>2, <1>3

\* What the end of a pass writes for one row.
LEMMA DetectWrites ==
    ASSUME TypeInv, NEW p \in Path, DetectRow(p)
    PROVE  /\ \/ row' = row
              \/ row' = [row EXCEPT ![p] = Looked(row[p])] /\ p \in pass.seen
              \/ row' = [row EXCEPT ![p] = recordAbsent(row[p])] /\ p \notin pass.seen
              \/ /\ \E q \in Path : row' = [row EXCEPT ![p] = recordMove(row[p], q)]
                 /\ p \notin pass.seen
           /\ \E c \in SUBSET Path : pass' = [pass EXCEPT !.check = pass.check \ {p}, !.created = c]
           /\ pass.pc = "moves" /\ UNCHANGED <<outside, tgt, job, faults>>
<1> DEFINE r == pass.placed[p]
           arrivals == {q \in pass.created : pass.placed[q].hash = r.hash}
           next == [pass EXCEPT !.check = @ \ {p}]
<1>0. pass \in Pass /\ pass.created \in SUBSET Path
  BY DEF TypeInv, TypeOK, Pass
<1>1. next = [pass EXCEPT !.check = pass.check \ {p}, !.created = pass.created]
  BY <1>0 DEF Pass
<1>2. \A q : [next EXCEPT !.created = @ \ {q}]
             = [pass EXCEPT !.check = pass.check \ {p}, !.created = pass.created \ {q}]
  BY <1>0 DEF Pass
<1>3. CASE /\ nothingToSay(r, p) \/ r.moved # Nothing
           /\ row' = IF p \in pass.seen /\ ~r.applied /\ (r.moved # Nothing \/ r.absent > 0)
                     THEN [row EXCEPT ![p] = Looked(@)] ELSE row
           /\ pass' = next
  BY <1>0, <1>1, <1>3 DEF DetectRow
<1>4. CASE /\ ~nothingToSay(r, p) /\ r.moved = Nothing
           /\ \E q \in arrivals : /\ row' = [row EXCEPT ![p] = recordMove(@, q)]
                                  /\ pass' = [next EXCEPT !.created = @ \ {q}]
  <2>1. PICK q \in arrivals : /\ row' = [row EXCEPT ![p] = recordMove(@, q)]
                              /\ pass' = [next EXCEPT !.created = @ \ {q}]
    BY <1>4
  <2>2. q \in Path /\ pass.created \ {q} \in SUBSET Path
    BY <1>0
  <2>3. pass' = [pass EXCEPT !.check = pass.check \ {p}, !.created = pass.created \ {q}]
    BY <1>2, <2>1
  <2>4. p \notin pass.seen
    BY <1>4 DEF nothingToSay
  <2> HIDE DEF next
  <2> QED BY <2>1, <2>2, <2>3, <2>4 DEF DetectRow
<1>5. CASE /\ ~nothingToSay(r, p) /\ r.moved = Nothing /\ arrivals = {}
           /\ row' = [row EXCEPT ![p] = recordAbsent(@)]
           /\ pass' = next
  BY <1>0, <1>1, <1>5 DEF DetectRow, nothingToSay
<1> QED BY <1>3, <1>4, <1>5 DEF DetectRow

LEMMA DetectTypes == ASSUME TypeInv, NEW p \in Path, DetectRow(p) PROVE TypeInv'
<1>1. row[p] \in Row /\ row \in [Path -> Row] /\ pass \in Pass
  BY DEF TypeInv, TypeOK
<1>2. row' \in [Path -> Row]
  <2>1. Looked(row[p]) \in Row /\ recordAbsent(row[p]) \in Row
        /\ \A q \in Path : recordMove(row[p], q) \in Row
    BY <1>1, RowWrites, LookedType, MoveType
  <2>2. PICK r \in Row : row' = row \/ row' = [row EXCEPT ![p] = r]
    BY <1>1, <2>1, DetectWrites
  <2> QED BY <1>1, <2>2
<1>3. PICK c \in SUBSET Path : pass' = [pass EXCEPT !.check = pass.check \ {p}, !.created = c]
  BY DetectWrites
<1>4. pass' \in Pass /\ pass'.pc = "moves"
  BY <1>1, <1>3, DetectWrites DEF Pass
<1> QED BY <1>2, <1>4, DetectWrites, PassWrites DEF TypeInv, TypeOK

LEMMA EndDetectionTypes == ASSUME TypeInv, EndDetection PROVE TypeInv'
BY ConcludedType, PassWrites DEF EndDetection, TypeInv, TypeOK

LEMMA PassTypes == ASSUME TypeInv, PassStep PROVE TypeInv'
<1>1. CASE ItemStep
  BY <1>1, LeaveTypes, LookTypes, HoldTypes, CopyTypes, FailTypes DEF ItemStep
<1>2. CASE ~ItemStep
  BY <1>2, StartTypes, CloseTypes, ConcludeTypes, BinTypes, EndDetectionTypes, AbandonTypes,
     ListTypes, UnreadTypes, StopTypes, DetectTypes DEF PassStep
<1> QED BY <1>1, <1>2

\* A job that has begun: what it is about.
JobWhere(j) ==
    /\ j.pc # "idle" => j.path \in Path
    /\ j.kind = "relocation" => j.to \in Path
    /\ j.pc = "ask" => j.kind = "relocation"

LEMMA SourceTypes ==
    ASSUME TypeInv, NEW s \in [Path -> Bytes \cup {Nothing}], SourceBecomes(s), bin' \in SUBSET Path
    PROVE  TypeInv'
<1> DEFINE st == {p \in pass.stable : (s[p] = Nothing) = (src[p] = Nothing)}
<1>1. pass' = IF pass.pc = "idle" THEN pass ELSE [pass EXCEPT !.stable = st]
  BY DEF SourceBecomes
<1>2. st \in SUBSET Path
  BY DEF TypeInv, TypeOK, Pass
<1> HIDE DEF st
<1>3. pass' \in Pass /\ pass'.pc = pass.pc /\ pass'.cur = pass.cur
  BY <1>1, <1>2 DEF TypeInv, TypeOK, Pass
<1>4. TypeOK'
  BY <1>3 DEF SourceBecomes, Change, TypeInv, TypeOK
<1> QED BY <1>3, <1>4 DEF SourceBecomes, TypeInv, WhereInv

\* What the people write.
LEMMA PeopleTypes == ASSUME TypeInv, PeopleStep PROVE TypeInv'
<1> USE DEF TypeInv
<1>1. ASSUME NEW p \in Path, SourceRemove(p) PROVE TypeInv'
  <2> DEFINE s == [src EXCEPT ![p] = Nothing]
  <2>1. s \in [Path -> Bytes \cup {Nothing}] /\ SourceBecomes(s) /\ bin' \in SUBSET Path
    BY <1>1 DEF SourceRemove, TypeOK
  <2> HIDE DEF s
  <2> QED BY <2>1, SourceTypes
<1>2. ASSUME NEW p \in Path, NEW b \in Bytes, SourceWrite(p, b) PROVE TypeInv'
  <2> DEFINE s == [src EXCEPT ![p] = b]
  <2>1. s \in [Path -> Bytes \cup {Nothing}] /\ SourceBecomes(s) /\ bin' \in SUBSET Path
    BY <1>2 DEF SourceWrite, TypeOK
  <2> HIDE DEF s
  <2> QED BY <2>1, SourceTypes
<1>3. ASSUME NEW p \in Path, NEW q \in Path, SourceRename(p, q) PROVE TypeInv'
  <2> DEFINE s == [src EXCEPT ![p] = Nothing, ![q] = src[p]]
  <2>1. s \in [Path -> Bytes \cup {Nothing}] /\ SourceBecomes(s) /\ bin' \in SUBSET Path
    BY <1>3 DEF SourceRename, TypeOK
  <2> HIDE DEF s
  <2> QED BY <2>1, SourceTypes
<1>4. ASSUME NEW p \in Path, OwnerWrite(p) PROVE TypeInv'
  <2>1. [bytes |-> Theirs, ours |-> FALSE] \in Object
    BY DEF Object
  <2> QED BY <1>4, <2>1 DEF OwnerWrite, Change, TypeOK, WhereInv
<1>5. ASSUME NEW p \in Path, OwnerRemove(p) PROVE TypeInv'
  <2>1. ASSUME NEW j \in JobState
        PROVE  /\ [j EXCEPT !.lost = TRUE] \in JobState
               /\ JobWhere(j) => JobWhere([j EXCEPT !.lost = TRUE])
    BY DEF JobState, JobWhere
  <2>2. job' \in [Job -> JobState] /\ (\A x \in Job : JobWhere(job'[x]))
    BY <1>5, <2>1 DEF OwnerRemove, TypeOK, WhereInv, JobWhere
  <2>3. tgt' \in [Path -> Object]
    BY <1>5, NoTypes DEF OwnerRemove, TypeOK
  <2> QED BY <1>5, <2>2, <2>3 DEF OwnerRemove, Change, TypeOK, WhereInv, JobWhere
<1>6. CASE Cutover
  BY <1>6 DEF Cutover, Change, TypeOK, WhereInv
<1>7. ASSUME NEW p \in Path, resolveMove(p) \/ resolveDeletion(p) PROVE TypeInv'
  <2>1. [row[p] EXCEPT !.kept = TRUE] \in Row /\ [row[p] EXCEPT !.answered = TRUE] \in Row
    BY DEF TypeOK, Row
  <2>2. row' \in [Path -> Row]
    BY <1>7, <2>1 DEF resolveMove, resolveDeletion, TypeOK
  <2> QED BY <1>7, <2>2, PassWrites DEF resolveMove, resolveDeletion, TypeOK, WhereInv
<1> QED BY <1>1, <1>2, <1>3, <1>4, <1>5, <1>6, <1>7 DEF PeopleStep

\* A step of one job keeps the types when what it becomes is a job.
LEMMA JobWrites ==
    ASSUME TypeInv, UNCHANGED <<outside, pass>>, tgt' \in [Path -> Object],
           row' \in [Path -> Row], faults' \in Nat,
           NEW x \in Job, NEW j \in JobState, JobWhere(j), job' = [job EXCEPT ![x] = j]
    PROVE  TypeInv'
<1>1. \A y \in Job : JobWhere(job'[y])
  BY DEF TypeInv, TypeOK, WhereInv, JobWhere
<1> QED BY <1>1 DEF TypeInv, TypeOK, WhereInv, JobWhere, outside

LEMMA DroppedJob == NoJob \in JobState /\ JobWhere(NoJob)
BY DEF NoJob, JobState, JobWhere

LEMMA BeginTypes ==
    ASSUME TypeInv, NEW x \in Job, NEW p \in Path, NEW kind \in {"relocation", "deletion"},
           NEW pc \in {"ask", "remove"}, pc = "ask" => kind = "relocation",
           kind = "relocation" => row[p].moved \in Path, Begin(x, kind, p, pc)
    PROVE  TypeInv'
<1> DEFINE to == IF kind = "relocation" THEN row[p].moved ELSE Nothing
           j == [pc |-> pc, kind |-> kind, path |-> p, to |-> to, ver |-> row[p].hash, lost |-> FALSE]
<1>1. row[p].hash \in Bytes \cup {Nothing} /\ to \in Path \cup {Nothing}
  BY DEF TypeInv, TypeOK, Row
<1>2. j \in JobState
  BY <1>1 DEF JobState
<1>3. JobWhere(j)
  BY DEF JobWhere
<1>4. job' = [job EXCEPT ![x] = j]
  BY DEF Begin
<1> HIDE DEF j
<1> QED BY <1>2, <1>3, <1>4, JobWrites DEF Begin, TypeInv, TypeOK

LEMMA RelocationTypes ==
    ASSUME TypeInv, NEW x \in Job, NEW p \in Path, relocationCheck(p), BeginRelocation(x, p)
    PROVE  TypeInv'
<1>1. row[p].moved \in Path
  BY DEF relocationCheck, TypeInv, TypeOK, Row
<1> QED BY <1>1, BeginTypes DEF BeginRelocation

LEMMA AskTypes == ASSUME TypeInv, NEW x \in Job, AskArrival(x) PROVE TypeInv'
<1>1. [job[x] EXCEPT !.pc = "remove"] \in JobState /\ JobWhere([job[x] EXCEPT !.pc = "remove"])
  BY DEF AskArrival, At, TypeInv, TypeOK, WhereInv, JobState, JobWhere
<1>2. \/ job' = [job EXCEPT ![x] = [job[x] EXCEPT !.pc = "remove"]]
      \/ job' = [job EXCEPT ![x] = NoJob]
  BY DEF AskArrival, Go, Drop
<1> QED BY <1>1, <1>2, DroppedJob, JobWrites DEF AskArrival, TypeInv, TypeOK

LEMMA RemoveTypes == ASSUME TypeInv, NEW x \in Job, RemoveCopy(x) PROVE TypeInv'
<1>1. [job[x] EXCEPT !.pc = "record"] \in JobState /\ JobWhere([job[x] EXCEPT !.pc = "record"])
  BY DEF RemoveCopy, At, TypeInv, TypeOK, WhereInv, JobState, JobWhere
<1>2. \/ job' = [job EXCEPT ![x] = [job[x] EXCEPT !.pc = "record"]]
      \/ job' = [job EXCEPT ![x] = NoJob]
  BY DEF RemoveCopy, Go, Drop
<1>3. tgt' \in [Path -> Object]
  BY NoTypes DEF RemoveCopy, TypeInv, TypeOK
<1> QED BY <1>1, <1>2, <1>3, DroppedJob, JobWrites DEF RemoveCopy, TypeInv, TypeOK

\* The tombstone a removal leaves.
LEMMA TombstoneType ==
    ASSUME NEW r \in Row, NEW kept \in BOOLEAN, NEW answered \in BOOLEAN
    PROVE  [r EXCEPT !.status = "tombstoned", !.applied = TRUE,
                     !.kept = kept, !.answered = answered] \in Row
BY DEF Row, Statuses

LEMMA RecordTypes == ASSUME TypeInv, NEW x \in Job, RecordRemoval(x) PROVE TypeInv'
<1> DEFINE p == job[x].path
           r == row[p]
           relocated == job[x].kind = "relocation"
           answered == ~relocated \/ r.trashed \/ r.absent > 0 \/ r.answered
           kept == relocated \/ r.kept
<1>1. p \in Path
  BY DEF RecordRemoval, At, TypeInv, WhereInv
<1>2. r \in Row
  BY <1>1 DEF TypeInv, TypeOK
<1>3. kept \in BOOLEAN /\ answered \in BOOLEAN
  OBVIOUS
<1>4. row' \in [Path -> Row]
  <2> DEFINE t == [r EXCEPT !.status = "tombstoned", !.applied = TRUE, !.kept = kept,
                            !.answered = answered]
  <2>1. t \in Row
    <3> HIDE DEF kept, answered, r
    <3> QED BY <1>2, <1>3, TombstoneType
  <2>2. row' = row \/ row' = [row EXCEPT ![p] = t]
    BY Zenon DEF RecordRemoval
  <2> HIDE DEF t, p
  <2> QED BY <2>1, <2>2 DEF TypeInv, TypeOK
<1>5. job' = [job EXCEPT ![x] = NoJob] /\ UNCHANGED <<outside, tgt, pass, faults>>
  BY DEF RecordRemoval, Drop
<1> QED BY <1>4, <1>5, DroppedJob, JobWrites DEF TypeInv, TypeOK

LEMMA JobTypes == ASSUME TypeInv, JobStep PROVE TypeInv'
<1>1. ASSUME NEW x \in Job, NEW p \in Path, ApplyRelocation(x, p) PROVE TypeInv'
  BY <1>1, RelocationTypes DEF ApplyRelocation
<1>2. ASSUME NEW p \in Path, AutoApplyRelocation(p) PROVE TypeInv'
  BY <1>2, RelocationTypes, FileConstants DEF AutoApplyRelocation
<1>3. ASSUME NEW x \in Job, NEW p \in Path, ApplyDeletion(x, p) PROVE TypeInv'
  BY <1>3, BeginTypes DEF ApplyDeletion
<1>4. ASSUME NEW x \in Job, Die(x) PROVE TypeInv'
  BY <1>4, DroppedJob, JobWrites, FaultType DEF Die, Drop, TypeInv, TypeOK
<1> QED BY <1>1, <1>2, <1>3, <1>4, AskTypes, RemoveTypes, RecordTypes DEF JobStep

LEMMA InitTypes == Init => TypeInv
<1> SUFFICES ASSUME Init PROVE TypeInv
  OBVIOUS
<1>1. ASSUME NEW p \in Path PROVE [bytes |-> src[p], ours |-> src[p] # Nothing] \in Object
  <2>1. (src[p] # Nothing) \in BOOLEAN
    OBVIOUS
  <2> QED BY <2>1 DEF Init, Object
<1>2. ASSUME NEW b \in Bytes PROVE [NoRow EXCEPT !.status = "copied", !.hash = b] \in Row
  BY NoTypes DEF Row, Statuses
<1>3. row \in [Path -> Row]
  BY <1>2, NoTypes DEF Init
<1> QED BY <1>1, <1>3, NoTypes, IdleType DEF Init, TypeInv, TypeOK, WhereInv

LEMMA TypesKept == TypeInv /\ [Next]_vars => TypeInv'
<1> SUFFICES ASSUME TypeInv, [Next]_vars PROVE TypeInv'
  OBVIOUS
<1>1. CASE UNCHANGED vars
  BY <1>1 DEF vars, TypeInv, TypeOK, WhereInv
<1> QED BY <1>1, PeopleTypes, PassTypes, JobTypes DEF Next

LEMMA TypesHold == Spec => []TypeInv
BY InitTypes, TypesKept, PTL DEF Spec

\* Every state is well formed: no upsert leaves a row with an outcome the ledger
\* does not know, and a job that has begun names a path.
THEOREM FileTypes == Spec => []TypeOK
<1>1. TypeInv => TypeOK
  BY DEF TypeInv
<1> QED BY <1>1, TypesHold, PTL

-----------------------------------------------------------------------------
(* What a step does to the target.                                          *)

\* One path is written: a file of the source, over nothing or over bytes of
\* ours; a file of the owner's; or nothing, over bytes of ours or by the owner.
LEMMA TargetWrites ==
    ASSUME TypeInv, Next
    PROVE  \/ tgt' = tgt
           \/ \E p \in Path, o \in Object :
                 /\ tgt' = [tgt EXCEPT ![p] = o] /\ o.bytes # Nothing
                 /\ ~OnTarget(p) \/ tgt[p].ours \/ changes' # changes
                 /\ job' = job
           \/ \E p \in Path, x \in Job :
                 /\ tgt' = [tgt EXCEPT ![p] = NoObject] /\ tgt[p].ours /\ RemoveCopy(x)
           \/ \E p \in Path : OwnerRemove(p) /\ changes' # changes
<1> DEFINE Stays == tgt' = tgt
<1>1. ASSUME NEW h \in pass.hand, CopyItem(h)
      PROVE  \/ tgt' = tgt
             \/ \E p \in Path, o \in Object :
                 /\ tgt' = [tgt EXCEPT ![p] = o] /\ o.bytes # Nothing
                 /\ ~OnTarget(p) \/ tgt[p].ours \/ changes' # changes
                 /\ job' = job
  <2>1. h.path \in Path /\ src[h.path] \in Bytes
    BY <1>1 DEF CopyItem, There, TypeInv, TypeOK, Pass, Item
  <2>2. CASE upsertFile(h) \in {"copied", "updated"}
    <3>1. ~OnTarget(h.path) \/ tgt[h.path].ours
      BY <2>2 DEF upsertFile, Matches
    <3>2. PICK o \in Object : o.bytes # Nothing /\ o = [bytes |-> src[h.path], ours |-> TRUE]
      BY <2>1, FileConstants DEF Object
    <3>3. tgt' = [tgt EXCEPT ![h.path] = o]
      BY <1>1, <2>2, <3>2 DEF CopyItem
    <3> QED BY <1>1, <2>1, <3>1, <3>2, <3>3 DEF CopyItem
  <2> QED BY <1>1, <2>2 DEF CopyItem
<1>2. ASSUME NEW p \in Path, OwnerWrite(p)
      PROVE  /\ \E o \in Object : tgt' = [tgt EXCEPT ![p] = o] /\ o.bytes # Nothing
             /\ changes' # changes /\ job' = job
  <2>1. PICK o \in Object : o.bytes # Nothing /\ o = [bytes |-> Theirs, ours |-> FALSE]
    BY FileConstants DEF Object
  <2>2. changes' # changes
    BY <1>2 DEF OwnerWrite, Change, TypeInv, TypeOK
  <2> QED BY <1>2, <2>1, <2>2 DEF OwnerWrite
<1>3. ASSUME NEW x \in Job, RemoveCopy(x)
      PROVE  \/ tgt' = tgt
             \/ \E p \in Path : tgt' = [tgt EXCEPT ![p] = NoObject] /\ tgt[p].ours
  <2>1. job[x].path \in Path
    BY <1>3 DEF RemoveCopy, At, TypeInv, WhereInv
  <2> QED BY <1>3, <2>1 DEF RemoveCopy, Matches
<1>4. ASSUME NEW p \in Path, OwnerRemove(p) PROVE changes' # changes
  BY <1>4 DEF OwnerRemove, Change, TypeInv, TypeOK
<1>5. CASE PeopleStep
  <2>1. ASSUME NEW p \in Path, SourceRemove(p) PROVE Stays
    BY <2>1 DEF SourceRemove, SourceBecomes
  <2>2. ASSUME NEW p \in Path, NEW b \in Bytes, SourceWrite(p, b) PROVE Stays
    BY <2>2 DEF SourceWrite, SourceBecomes
  <2>3. ASSUME NEW p \in Path, NEW q \in Path, SourceRename(p, q) PROVE Stays
    BY <2>3 DEF SourceRename, SourceBecomes
  <2>4. ASSUME NEW p \in Path, Cutover \/ resolveMove(p) \/ resolveDeletion(p) PROVE Stays
    BY <2>4 DEF Cutover, resolveMove, resolveDeletion
  <2>5. Cutover => Stays
    BY DEF Cutover
  <2>6. (\E p \in Path : OwnerWrite(p) \/ OwnerRemove(p)) \/ Stays
    BY <1>5, <2>1, <2>2, <2>3, <2>4, <2>5 DEF PeopleStep
  <2> QED BY <1>2, <1>4, <2>6
<1>6. CASE PassStep
  <2>1. Stays \/ \E h \in pass.hand : CopyItem(h)
    BY <1>6 DEF PassStep, ItemStep, StartPass, CloseFolder, Conclude, ReadBin, PassOverBin, Correlate,
       EndDetection, EndPass, AbandonPass, ListFolder, UnreadFolder, Stop, DetectRow,
       LeaveItem, LookItem, FailItem, HoldItem
  <2> QED BY <1>1, <2>1
<1>7. CASE JobStep
  <2>1. Stays \/ \E x \in Job : RemoveCopy(x)
    BY <1>7 DEF JobStep, ApplyRelocation, ApplyDeletion, AutoApplyRelocation, BeginRelocation, Begin,
       AskArrival, RecordRemoval, Die
  <2> QED BY <1>3, <2>1
<1> QED BY <1>5, <1>6, <1>7 DEF Next

\* Neither a pass nor an apply job ever changes or removes an object that is not
\* ours, whoever works beside it: a rewrite and a removal are conditional on the
\* bytes we left, and a create adopts what it finds.
THEOREM OwnersCopiesAlwaysStay == Spec => OwnersCopiesStay
<1> DEFINE A == changes' = changes => \A p \in Path : OnTarget(p) /\ ~tgt[p].ours => tgt'[p] = tgt[p]
<1>1. TypeInv /\ [Next]_vars => [A]_vars
  <2> SUFFICES ASSUME TypeInv, Next, changes' = changes,
                      NEW p \in Path, OnTarget(p), ~tgt[p].ours
               PROVE  tgt'[p] = tgt[p]
    BY DEF vars
  <2> QED BY TargetWrites DEF TypeInv, TypeOK
<1> QED BY <1>1, TypesHold, PTL DEF Spec, OwnersCopiesStay

-----------------------------------------------------------------------------
(* A relocation leaves a copy, when apply jobs take turns.                  *)

\* Apply jobs take turns, and one that has asked for the arrival has seen it.
TurnInv == \A x, y \in Job : job[x] # NoJob /\ job[y] # NoJob => x = y
ArrivalInv ==
    \A x \in Job : job[x].kind = "relocation" /\ job[x].pc = "remove"
                   => OnTarget(job[x].to) \/ job[x].lost
RelocationInv == TurnInv /\ ArrivalInv

LEMMA InitRelocation == Init => RelocationInv
BY NoTypes DEF Init, RelocationInv, TurnInv, ArrivalInv

\* A step that leaves the target alone, and begins at most one job.
LEMMA QuietJob ==
    ASSUME TypeInv, RelocationInv, NEW x \in Job, NEW j, job' = [job EXCEPT ![x] = j],
           \/ job[x] # NoJob
           \/ \A y \in Job : job[y] = NoJob,
           tgt' = tgt,
           j.kind = "relocation" /\ j.pc = "remove" => OnTarget(j.to)
    PROVE  RelocationInv'
BY DEF TypeInv, TypeOK, RelocationInv, TurnInv, ArrivalInv, OnTarget

LEMMA BeginsAlone ==
    ASSUME TypeInv, ~Overlap, RelocationInv, NEW x \in Job, NEW p \in Path, mayBegin(x),
           Begin(x, "relocation", p, "ask") \/ Begin(x, "deletion", p, "remove")
    PROVE  RelocationInv'
<1>1. ASSUME NEW kind, NEW pc, ~(kind = "relocation" /\ pc = "remove"), Begin(x, kind, p, pc)
      PROVE  RelocationInv'
  <2> DEFINE j == [pc |-> pc, kind |-> kind, path |-> p,
                   to |-> IF kind = "relocation" THEN row[p].moved ELSE Nothing,
                   ver |-> row[p].hash, lost |-> FALSE]
  <2>1. j.kind = kind /\ j.pc = pc
    OBVIOUS
  <2>2. job' = [job EXCEPT ![x] = j] /\ tgt' = tgt
    BY <1>1 DEF Begin
  <2> HIDE DEF j
  <2> QED BY <1>1, <2>1, <2>2, QuietJob DEF mayBegin
<1> QED BY <1>1

LEMMA RemovesAlone ==
    ASSUME TypeInv, RelocationInv, NEW x \in Job, RemoveCopy(x) PROVE RelocationInv'
<1>0. job[x] # NoJob
  BY NoTypes DEF RemoveCopy, At
<1>1. [job[x] EXCEPT !.pc = "record"].pc = "record" /\ NoJob.kind # "relocation"
  BY NoTypes DEF TypeInv, TypeOK, JobState
<1>2. PICK j : job' = [job EXCEPT ![x] = j] /\ ~(j.kind = "relocation" /\ j.pc = "remove")
  <2>1. \/ job' = [job EXCEPT ![x] = [job[x] EXCEPT !.pc = "record"]]
        \/ job' = [job EXCEPT ![x] = NoJob]
    BY DEF RemoveCopy, Go, Drop
  <2> QED BY <1>1, <2>1
<1>3. \A y \in Job \ {x} : job[y] = NoJob /\ job'[y] = NoJob
  BY <1>0, <1>2 DEF RelocationInv, TurnInv, TypeInv, TypeOK
<1>4. job'[x] = j
  BY <1>2 DEF TypeInv, TypeOK
<1> QED BY <1>2, <1>3, <1>4, NoTypes DEF RelocationInv, TurnInv, ArrivalInv

LEMMA OwnerRemovesAlone ==
    ASSUME TypeInv, RelocationInv, NEW p \in Path, OwnerRemove(p) PROVE RelocationInv'
<1>1. ASSUME NEW x \in Job
      PROVE  /\ job'[x] # NoJob => job[x] # NoJob
             /\ job'[x].kind = job[x].kind /\ job'[x].pc = job[x].pc /\ job'[x].to = job[x].to
             /\ IF job[x].to = p THEN job'[x].lost ELSE job'[x] = job[x]
  <2>1. job[x] \in JobState
    BY DEF TypeInv, TypeOK
  <2>2. job[x].to = p => job[x] # NoJob
    BY NoTypes, FileConstants
  <2>3. job'[x] = IF job[x].to = p THEN [job[x] EXCEPT !.lost = TRUE] ELSE job[x]
    BY DEF OwnerRemove
  <2> QED BY <2>1, <2>2, <2>3 DEF JobState
<1>2. TurnInv'
  BY <1>1 DEF RelocationInv, TurnInv
<1>3. ArrivalInv'
  <2> SUFFICES ASSUME NEW x \in Job, job'[x].kind = "relocation", job'[x].pc = "remove"
               PROVE  tgt'[job'[x].to].bytes # Nothing \/ job'[x].lost
    BY DEF ArrivalInv, OnTarget
  <2>1. job[x].to \in Path
    BY <1>1 DEF TypeInv, WhereInv
  <2>2. CASE job[x].to = p
    BY <1>1, <2>2
  <2>3. CASE job[x].to # p
    <3>1. tgt'[job[x].to] = tgt[job[x].to]
      BY <2>1, <2>3 DEF OwnerRemove, TypeInv, TypeOK
    <3> QED BY <1>1, <2>3, <3>1 DEF RelocationInv, ArrivalInv, OnTarget
  <2> QED BY <2>2, <2>3
<1> QED BY <1>2, <1>3 DEF RelocationInv

\* A file is written where none was, or over one: no arrival is lost.
LEMMA WritesLoseNothing ==
    ASSUME TypeInv, RelocationInv, job' = job,
           \/ tgt' = tgt
           \/ \E p \in Path, o \in Object :
                 tgt' = [tgt EXCEPT ![p] = o] /\ o.bytes # Nothing
    PROVE  RelocationInv'
<1>1. ASSUME NEW q \in Path, OnTarget(q) PROVE OnTarget(q)'
  BY <1>1, FileConstants DEF OnTarget, TypeInv, TypeOK
<1> QED BY <1>1 DEF RelocationInv, TurnInv, ArrivalInv, TypeInv, WhereInv

LEMMA RelocationKept ==
    ASSUME TypeInv, ~Overlap, RelocationInv, [Next]_vars PROVE RelocationInv'
<1>1. CASE UNCHANGED vars
  BY <1>1 DEF vars, RelocationInv, TurnInv, ArrivalInv, OnTarget
<1>2. CASE JobStep
  <2>1. ASSUME NEW x \in Job, NEW p \in Path, ApplyRelocation(x, p) PROVE RelocationInv'
    BY <2>1, BeginsAlone DEF ApplyRelocation, BeginRelocation
  <2>2. ASSUME NEW p \in Path, AutoApplyRelocation(p) PROVE RelocationInv'
    BY <2>2, BeginsAlone, FileConstants DEF AutoApplyRelocation, BeginRelocation
  <2>3. ASSUME NEW x \in Job, NEW p \in Path, ApplyDeletion(x, p) PROVE RelocationInv'
    BY <2>3, BeginsAlone DEF ApplyDeletion
  <2>4. ASSUME NEW x \in Job, AskArrival(x) PROVE RelocationInv'
    <3>1. job[x] # NoJob /\ job[x] \in JobState
      BY <2>4, NoTypes DEF AskArrival, At, TypeInv, TypeOK
    <3>2. CASE OnTarget(job[x].to)
      <4> DEFINE j == [job[x] EXCEPT !.pc = "remove"]
      <4>1. j.to = job[x].to
        BY <3>1 DEF JobState
      <4>2. job' = [job EXCEPT ![x] = j] /\ tgt' = tgt
        BY <2>4, <3>2 DEF AskArrival, Go
      <4> HIDE DEF j
      <4> QED BY <3>1, <3>2, <4>1, <4>2, QuietJob
    <3>3. CASE ~OnTarget(job[x].to)
      BY <2>4, <3>1, <3>3, NoTypes, QuietJob DEF AskArrival, Drop
    <3> QED BY <3>2, <3>3
  <2>5. ASSUME NEW x \in Job, RecordRemoval(x) \/ Die(x) PROVE RelocationInv'
    <3>1. job[x] # NoJob
      BY <2>5, NoTypes DEF RecordRemoval, Die, At
    <3> QED BY <2>5, <3>1, NoTypes, QuietJob DEF RecordRemoval, Die, Drop
  <2> QED BY <1>2, <2>1, <2>2, <2>3, <2>4, <2>5, RemovesAlone DEF JobStep
<1>3. CASE \E p \in Path : OwnerRemove(p)
  BY <1>3, OwnerRemovesAlone
<1>4. CASE Next /\ ~JobStep /\ ~\E p \in Path : OwnerRemove(p)
  <2>1. job' = job
    <3>1. CASE PassStep
      BY <3>1 DEF PassStep, ItemStep, StartPass, CloseFolder, Conclude, ReadBin, PassOverBin, Correlate,
         EndDetection, EndPass, AbandonPass, ListFolder, UnreadFolder, Stop, DetectRow,
         LeaveItem, LookItem, CopyItem, FailItem, HoldItem
    <3>2. CASE PeopleStep
      BY <1>4, <3>2 DEF PeopleStep, SourceRemove, SourceWrite, SourceRename, SourceBecomes, OwnerWrite,
         Cutover, resolveMove, resolveDeletion
    <3> QED BY <1>4, <3>1, <3>2 DEF Next
  <2>2. ~\E x \in Job : RemoveCopy(x)
    BY <1>4 DEF JobStep
  <2>3. \/ tgt' = tgt
        \/ \E p \in Path, o \in Object :
              tgt' = [tgt EXCEPT ![p] = o] /\ o.bytes # Nothing
    BY <1>4, <2>2, TargetWrites
  <2> QED BY <2>1, <2>3, WritesLoseNothing
<1> QED BY <1>1, <1>2, <1>3, <1>4

\* While apply jobs take turns, applying a relocation never takes the last copy,
\* whatever the passes and the owners do.  (Nothing in the code makes them take
\* turns: the assumption is what the promise rests on.)
THEOREM RelocationAlwaysLeavesCopy == ASSUME ~Overlap PROVE Spec => RelocationLeavesCopy
<1> DEFINE A == \A x \in Job :
         /\ job[x].kind = "relocation" /\ job[x].pc = "remove" /\ job'[x].pc = "record"
         /\ tgt'[job[x].path] # tgt[job[x].path]
         => OnTarget(job[x].to) \/ job[x].lost
<1>1. Init => RelocationInv
  BY InitRelocation
<1>2. TypeInv /\ RelocationInv /\ [Next]_vars => RelocationInv'
  BY RelocationKept
<1>3. RelocationInv => A
  BY DEF RelocationInv, ArrivalInv
<1> QED BY <1>1, <1>2, <1>3, TypesHold, PTL DEF Spec, RelocationLeavesCopy

-----------------------------------------------------------------------------
(* What a step says of a file: absent, in the bin, moved.                   *)

SaysNothing(p) ==
    /\ row'[p].absent = row[p].absent /\ row'[p].moved = row[p].moved
    /\ row'[p].trashed = row[p].trashed

LEMMA LookedClears ==
    ASSUME NEW r \in Row
    PROVE  Looked(r).absent = 0 /\ ~Looked(r).trashed /\ Looked(r).moved = Nothing
<1>1. clearAbsent(r).absent = 0 /\ ~clearAbsent(r).trashed /\ clearAbsent(r) \in Row
      /\ clearAbsent(r).moved = r.moved
  BY RowWrites DEF clearAbsent, Row
<1>2. ASSUME NEW t \in Row
      PROVE  clearMove(t).absent = t.absent /\ clearMove(t).trashed = t.trashed
             /\ clearMove(t).moved = Nothing
  BY DEF clearMove, Row
<1>3. r.absent \in 0..2
  BY DEF Row
<1> QED BY <1>1, <1>2, <1>3 DEF Looked

LEMMA PeopleSayNothing ==
    ASSUME TypeInv, PeopleStep, NEW p \in Path
    PROVE  /\ SaysNothing(p)
           /\ row'[p].status = row[p].status /\ row'[p].applied = row[p].applied
<1>0. row \in [Path -> Row] /\ row[p] \in Row
  BY DEF TypeInv, TypeOK
<1>1. CASE row' = row
  BY <1>1 DEF SaysNothing
<1>2. ASSUME NEW q \in Path, resolveMove(q) \/ resolveDeletion(q)
      PROVE  /\ SaysNothing(p)
             /\ row'[p].status = row[p].status /\ row'[p].applied = row[p].applied
  <2>1. row'[p] \in {row[p], [row[p] EXCEPT !.kept = TRUE], [row[p] EXCEPT !.answered = TRUE]}
    BY <1>0, <1>2 DEF resolveMove, resolveDeletion
  <2> QED BY <1>0, <2>1 DEF SaysNothing, Row
<1> QED BY <1>1, <1>2 DEF PeopleStep, SourceRemove, SourceWrite, SourceRename, SourceBecomes,
      OwnerWrite, OwnerRemove, Cutover

LEMMA JobsSayNothing ==
    ASSUME TypeInv, JobStep, NEW p \in Path
    PROVE  /\ SaysNothing(p) /\ (row[p].applied => row'[p].applied)
           /\ writtenByUs(row'[p]) => writtenByUs(row[p])
<1>0. row \in [Path -> Row] /\ row[p] \in Row
  BY DEF TypeInv, TypeOK
<1>1. CASE row' = row
  BY <1>1 DEF SaysNothing
<1>2. ASSUME NEW x \in Job, RecordRemoval(x)
      PROVE  /\ SaysNothing(p) /\ (row[p].applied => row'[p].applied)
             /\ writtenByUs(row'[p]) => writtenByUs(row[p])
  <2>1. ASSUME NEW k \in BOOLEAN, NEW s \in BOOLEAN,
               row'[p] = [row[p] EXCEPT !.status = "tombstoned", !.applied = TRUE,
                                        !.kept = k, !.answered = s]
        PROVE  /\ SaysNothing(p) /\ row'[p].applied
               /\ ~writtenByUs(row'[p])
    BY <1>0, <2>1 DEF SaysNothing, Row, writtenByUs
  <2> DEFINE relocated == job[x].kind = "relocation"
             k(r) == relocated \/ r.kept
             s(r) == ~relocated \/ r.trashed \/ r.absent > 0 \/ r.answered
  <2>2. \/ row' = row
        \/ row' = [row EXCEPT ![job[x].path] =
                     [row[job[x].path] EXCEPT !.status = "tombstoned", !.applied = TRUE,
                        !.kept = k(row[job[x].path]), !.answered = s(row[job[x].path])]]
    BY <1>2, Zenon DEF RecordRemoval
  <2>3. k(row[p]) \in BOOLEAN /\ s(row[p]) \in BOOLEAN
    OBVIOUS
  <2> HIDE DEF k, s
  <2>4. \/ row'[p] = row[p]
        \/ row'[p] = [row[p] EXCEPT !.status = "tombstoned", !.applied = TRUE,
                                    !.kept = k(row[p]), !.answered = s(row[p])]
    BY <1>0, <2>2, Zenon
  <2>5. CASE row'[p] = row[p]
    BY <2>5 DEF SaysNothing
  <2> QED BY <2>1, <2>3, <2>4, <2>5
<1> QED BY <1>1, <1>2 DEF JobStep, ApplyRelocation, ApplyDeletion, AutoApplyRelocation,
      BeginRelocation, Begin, AskArrival, RemoveCopy, Die

\* Only looking at a file, reading the bin and the end of a pass say anything.
LEMMA PassSays ==
    ASSUME TypeInv, PassStep, NEW p \in Path
    PROVE  \/ SaysNothing(p) /\ pass'.seen \subseteq pass.seen
           \/ \E i \in pass.listed : LookItem(i)
           \/ ReadBin
           \/ \E q \in Path : DetectRow(q)
<1>0. row \in [Path -> Row] /\ row[p] \in Row /\ pass \in Pass
  BY DEF TypeInv, TypeOK
<1>1. ASSUME StartPass PROVE SaysNothing(p) /\ pass'.seen = {}
  <2>1. row'[p] = [row[p] EXCEPT !.fresh = FALSE]
    BY <1>1 DEF StartPass
  <2>2. pass'.seen = {}
    BY <1>1, IdleType DEF StartPass, Pass
  <2> QED BY <1>0, <2>1, <2>2 DEF SaysNothing, Row
<1>2. ASSUME NEW h \in pass.hand, CopyItem(h) \/ FailItem(h) \/ \E why \in {"ceiling", "late"} : HoldItem(h, why)
      PROVE  SaysNothing(p) /\ pass'.seen = pass.seen
  <2>1. \A st, b : SaysNothing(p) \/ row'[p] # recordUpdate(row[p], st, b)
    BY <1>0 DEF SaysNothing, recordUpdate, Row
  <2>2. SaysNothing(p) \/ row'[p] # recordFailure(row[p])
    BY <1>0 DEF SaysNothing, recordFailure, Row
  <2>3. row'[p] = row[p] => SaysNothing(p)
    BY DEF SaysNothing
  <2>4. SaysNothing(p)
    <3>1. CASE CopyItem(h)
      <4>1. \/ row'[p] = row[p]
            \/ \E st, b : row'[p] = recordUpdate(row[p], st, b)
        BY <1>0, <3>1 DEF CopyItem
      <4> QED BY <2>1, <2>3, <4>1
    <3>2. CASE FailItem(h)
      BY <1>0, <2>2, <2>3, <3>2 DEF FailItem
    <3>3. CASE \E why \in {"ceiling", "late"} : HoldItem(h, why)
      BY <2>3, <3>3 DEF HoldItem
    <3> QED BY <1>2, <3>1, <3>2, <3>3
  <2>5. Done(h).seen = pass.seen /\ Done(h) \in Pass
    BY <1>0, DoneType DEF Done, Pass
  <2>6. pass'.seen = pass.seen
    BY <1>2, <2>5 DEF CopyItem, FailItem, HoldItem, Pass
  <2> QED BY <2>4, <2>6
<1>3. ASSUME NEW f \in Folder, ListFolder(f) \/ UnreadFolder(f) PROVE SaysNothing(p) /\ pass'.seen = pass.seen
  <2>1. pass'.seen = pass.seen
    BY <1>0, <1>3 DEF ListFolder, UnreadFolder, Pass
  <2> QED BY <1>3, <2>1 DEF ListFolder, UnreadFolder, SaysNothing
<1>4. ASSUME NEW i \in pass.listed, LeaveItem(i) PROVE SaysNothing(p) /\ pass'.seen = pass.seen
  BY <1>0, <1>4 DEF LeaveItem, Pass, SaysNothing
<1>5. ASSUME NEW why, Stop(why) PROVE SaysNothing(p) /\ pass'.seen = pass.seen
  BY <1>0, <1>5 DEF Stop, Pass, SaysNothing
<1>6. CASE CloseFolder
  BY <1>0, <1>6 DEF CloseFolder, Pass, SaysNothing
<1>7. Concluded.seen = {}
  BY IdleType DEF Concluded, Pass
<1>8. CASE Conclude \/ EndPass \/ AbandonPass \/ EndDetection
  <2>1. pass'.seen \subseteq pass.seen
    <3> DEFINE d == pass.decides /\ decides
    <3>1. CASE Conclude
      <4>1. pass' = Idle \/ pass' = [pass EXCEPT !.pc = "bin", !.decides = d]
        BY <3>1 DEF Conclude
      <4> HIDE DEF d
      <4> QED BY <1>0, <4>1, IdleType DEF Pass
    <3> QED BY <1>7, <1>8, <3>1, IdleType DEF EndPass, AbandonPass, EndDetection
  <2> QED BY <1>8, <2>1 DEF Conclude, EndPass, AbandonPass, EndDetection, SaysNothing
<1>9. CASE PassOverBin
  <2>1. pass'.seen \subseteq pass.seen
    BY <1>0, <1>7, <1>9 DEF PassOverBin, Correlate, Pass
  <2> QED BY <1>9, <2>1 DEF PassOverBin, Correlate, SaysNothing
<1> QED BY <1>1, <1>2, <1>3, <1>4, <1>5, <1>6, <1>8, <1>9 DEF PassStep, ItemStep

-----------------------------------------------------------------------------
(* A file the running pass has seen stands.                                 *)

SeenInv == \A p \in pass.seen : row[p].absent = 0 /\ ~row[p].trashed /\ row[p].moved = Nothing

\* Outside the steps of the pass, what was seen stays.
LEMMA SeenOutside ==
    ASSUME TypeInv, PeopleStep \/ JobStep PROVE pass'.seen = pass.seen
<1>1. CASE pass' = pass
  BY <1>1
<1>2. ASSUME NEW s, SourceBecomes(s) PROVE pass'.seen = pass.seen
  BY <1>2 DEF SourceBecomes, TypeInv, TypeOK, Pass
<1> QED BY <1>1, <1>2 DEF PeopleStep, SourceRemove, SourceWrite, SourceRename,
      OwnerWrite, OwnerRemove, Cutover, resolveMove, resolveDeletion,
      JobStep, ApplyRelocation, ApplyDeletion, AutoApplyRelocation,
      BeginRelocation, Begin, AskArrival, RemoveCopy, RecordRemoval, Die

LEMMA SeenKept == ASSUME TypeInv, SeenInv, [Next]_vars PROVE SeenInv'
<1>0. pass.seen \in SUBSET Path /\ row \in [Path -> Row] /\ pass \in Pass
  BY DEF TypeInv, TypeOK, Pass
<1>1. CASE UNCHANGED vars
  BY <1>1 DEF vars, SeenInv
<1>2. CASE PeopleStep \/ JobStep
  BY <1>0, <1>2, SeenOutside, PeopleSayNothing, JobsSayNothing DEF SeenInv, SaysNothing
<1>3. ASSUME NEW i \in pass.listed, LookItem(i) PROVE SeenInv'
  <2>1. i.path \in Path
    BY DEF TypeInv, TypeOK, Pass, Item
  <2>2. pass'.seen = pass.seen \cup {i.path} /\ row' = [row EXCEPT ![i.path] = Looked(row[i.path])]
    BY <1>0, <1>3 DEF LookItem, Pass
  <2> QED BY <1>0, <2>1, <2>2, LookedClears DEF SeenInv
<1>4. CASE ReadBin
  <2>1. \A p \in pass.seen : row'[p] = row[p]
    BY <1>0, <1>4 DEF ReadBin, Correlate
  <2>2. Concluded.seen = {}
    BY IdleType DEF Concluded, Pass
  <2>3. pass'.seen \subseteq pass.seen
    BY <1>0, <1>4, <2>2 DEF ReadBin, Correlate, Pass
  <2> QED BY <2>1, <2>3 DEF SeenInv
<1>5. ASSUME NEW q \in Path, DetectRow(q) PROVE SeenInv'
  <2>1. pass'.seen = pass.seen
    BY <1>0, <1>5, DetectWrites DEF Pass
  <2>2. \A p \in pass.seen : row'[p] = row[p] \/ row'[p] = Looked(row[p])
    BY <1>0, <1>5, DetectWrites
  <2> QED BY <1>0, <2>1, <2>2, LookedClears DEF SeenInv
<1>6. CASE PassStep /\ ~ReadBin /\ ~(\E i \in pass.listed : LookItem(i)) /\ ~(\E q \in Path : DetectRow(q))
  <2>1. \A p \in Path : SaysNothing(p) /\ pass'.seen \subseteq pass.seen
    BY <1>6, PassSays
  <2>2. pass'.seen \in SUBSET Path
    BY <1>6, PassTypes DEF TypeInv, TypeOK, Pass
  <2> QED BY <1>0, <2>1, <2>2 DEF SeenInv, SaysNothing
<1> QED BY <1>1, <1>2, <1>3, <1>4, <1>5, <1>6 DEF Next

\* A file the running pass has seen is neither missing, nor in the bin, nor moved
\* away in the ledger, in every interleaving with the people and the apply jobs.
THEOREM SeenAlwaysStands == Spec => []SeenStands
<1>1. Init => SeenInv
  BY IdleType DEF Init, SeenInv
<1>2. TypeInv /\ SeenInv /\ [Next]_vars => SeenInv'
  BY SeenKept
<1>3. SeenInv => SeenStands
  BY DEF SeenInv, SeenStands
<1> QED BY <1>1, <1>2, <1>3, TypesHold, PTL DEF Spec

-----------------------------------------------------------------------------
(* What a pass has and has not read of the files that stayed as they were.  *)

Listed(p) == \E i \in pass.listed : i.path = p

\* A file that was there all the time, in a folder the pass read to its end, was
\* seen or is still to be looked at; one that was never there was not seen.
PlaceInv ==
    /\ pass.pc \in {"bin", "moves"} => pass.left = {}
    /\ pass.pc = "items" => \A i \in pass.listed : FolderOf[i.path] = pass.cur
    /\ pass.pc # "idle" => \A p \in pass.stable : p \in pass.seen \/ Listed(p) => There(p)
    /\ pass.pc \in {"folders", "items", "bin", "moves"} =>
         \A p \in pass.stable : There(p) /\ FolderOf[p] \notin pass.left \cup pass.unfinished
                                => p \in pass.seen \/ (pass.pc = "items" /\ Listed(p))

\* A pass that has nothing in hand says nothing of any file.
LEMMA PlaceRest ==
    ASSUME pass' = Idle \/ pass' = Concluded PROVE PlaceInv'
<1>1. Idle.pc = "idle" /\ Concluded.pc = "auto" /\ Concluded.seen = {} /\ Concluded.listed = {}
  BY IdleType DEF Concluded, Idle, Pass
<1> QED BY <1>1 DEF PlaceInv, Listed

LEMMA PlaceSource ==
    ASSUME TypeInv, PlaceInv, NEW s \in [Path -> Bytes \cup {Nothing}], SourceBecomes(s) PROVE PlaceInv'
<1>1. CASE pass.pc = "idle"
  BY <1>1 DEF SourceBecomes, PlaceInv, Listed
<1>2. CASE pass.pc # "idle"
  <2> DEFINE st == {p \in pass.stable : (s[p] = Nothing) = (src[p] = Nothing)}
  <2>1. pass' = [pass EXCEPT !.stable = st] /\ src' = s
    BY <1>2 DEF SourceBecomes
  <2>2. \A p \in st : p \in pass.stable /\ (There(p)' <=> There(p))
    BY <2>1 DEF There
  <2> HIDE DEF st
  <2>3. /\ pass'.pc = pass.pc /\ pass'.left = pass.left /\ pass'.listed = pass.listed
        /\ pass'.cur = pass.cur /\ pass'.seen = pass.seen /\ pass'.unfinished = pass.unfinished
        /\ pass'.stable = st
    BY <2>1 DEF TypeInv, TypeOK, Pass
  <2> QED BY <2>2, <2>3 DEF PlaceInv, Listed
<1> QED BY <1>1, <1>2

LEMMA PlaceOutside == ASSUME TypeInv, PlaceInv, PeopleStep \/ JobStep PROVE PlaceInv'
<1>1. CASE pass' = pass /\ src' = src
  BY <1>1 DEF PlaceInv, Listed, There
<1>2. ASSUME NEW p \in Path, SourceRemove(p) PROVE PlaceInv'
  <2> DEFINE s == [src EXCEPT ![p] = Nothing]
  <2>1. s \in [Path -> Bytes \cup {Nothing}] /\ SourceBecomes(s)
    BY <1>2 DEF SourceRemove, TypeInv, TypeOK
  <2> HIDE DEF s
  <2> QED BY <2>1, PlaceSource
<1>3. ASSUME NEW p \in Path, NEW b \in Bytes, SourceWrite(p, b) PROVE PlaceInv'
  <2> DEFINE s == [src EXCEPT ![p] = b]
  <2>1. s \in [Path -> Bytes \cup {Nothing}] /\ SourceBecomes(s)
    BY <1>3 DEF SourceWrite, TypeInv, TypeOK
  <2> HIDE DEF s
  <2> QED BY <2>1, PlaceSource
<1>4. ASSUME NEW p \in Path, NEW q \in Path, SourceRename(p, q) PROVE PlaceInv'
  <2> DEFINE s == [src EXCEPT ![p] = Nothing, ![q] = src[p]]
  <2>1. s \in [Path -> Bytes \cup {Nothing}] /\ SourceBecomes(s)
    BY <1>4 DEF SourceRename, TypeInv, TypeOK
  <2> HIDE DEF s
  <2> QED BY <2>1, PlaceSource
<1>5. CASE JobStep
  BY <1>1, <1>5 DEF JobStep, ApplyRelocation, ApplyDeletion, AutoApplyRelocation,
      BeginRelocation, Begin, AskArrival, RemoveCopy, RecordRemoval, Die, outside
<1> QED BY <1>1, <1>2, <1>3, <1>4, <1>5 DEF PeopleStep, OwnerWrite, OwnerRemove, Cutover,
      resolveMove, resolveDeletion, outside

LEMMA PlaceItems == ASSUME TypeInv, PlaceInv, ItemStep PROVE PlaceInv'
<1>0. pass \in Pass
  BY DEF TypeInv, TypeOK
<1>1. ASSUME NEW i \in pass.listed, LeaveItem(i) PROVE PlaceInv'
  <2>1. /\ pass.pc = "items" /\ pass'.pc = "items" /\ pass'.left = pass.left
        /\ pass'.listed = pass.listed \ {i} /\ pass'.cur = pass.cur /\ pass'.seen = pass.seen
        /\ pass'.unfinished = pass.unfinished \cup {pass.cur} /\ pass'.stable = pass.stable /\ src' = src
    BY <1>0, <1>1 DEF LeaveItem, Pass, outside
  <2>2. FolderOf[i.path] = pass.cur
    BY <2>1 DEF PlaceInv
  <2> QED BY <2>1, <2>2 DEF PlaceInv, Listed, There
<1>2. ASSUME NEW i \in pass.listed, LookItem(i) PROVE PlaceInv'
  <2>1. /\ pass.pc = "items" /\ pass'.pc = "items" /\ pass'.left = pass.left
        /\ pass'.listed = pass.listed \ {i} /\ pass'.cur = pass.cur
        /\ pass'.seen = pass.seen \cup {i.path}
        /\ pass'.unfinished = pass.unfinished /\ pass'.stable = pass.stable /\ src' = src
    BY <1>0, <1>2 DEF LookItem, Pass, outside
  <2> QED BY <2>1 DEF PlaceInv, Listed, There
<1>3. ASSUME NEW h \in pass.hand, CopyItem(h) \/ FailItem(h) \/ \E why \in {"ceiling", "late"} : HoldItem(h, why)
      PROVE  PlaceInv'
  <2>1. /\ Done(h).pc = pass.pc /\ Done(h).left = pass.left
        /\ Done(h).listed = pass.listed /\ Done(h).cur = pass.cur
        /\ Done(h).seen = pass.seen /\ Done(h) \in Pass
        /\ Done(h).unfinished = pass.unfinished /\ Done(h).stable = pass.stable
    BY <1>0, DoneType DEF Done, Pass
  <2>2. /\ pass'.pc = pass.pc /\ pass'.left = pass.left
        /\ pass'.listed = pass.listed /\ pass'.cur = pass.cur
        /\ pass'.seen = pass.seen
        /\ pass'.unfinished = pass.unfinished /\ pass'.stable = pass.stable
    BY <1>3, <2>1 DEF CopyItem, FailItem, HoldItem, Pass
  <2>3. src' = src
    BY <1>3 DEF CopyItem, FailItem, HoldItem, outside
  <2> QED BY <2>2, <2>3 DEF PlaceInv, Listed, There
<1> QED BY <1>1, <1>2, <1>3 DEF ItemStep

LEMMA PlaceFolders ==
    ASSUME TypeInv, PlaceInv, NEW f \in Folder, ListFolder(f) \/ UnreadFolder(f) PROVE PlaceInv'
<1>0. pass \in Pass
  BY DEF TypeInv, TypeOK
<1>1. CASE ListFolder(f)
  <2> DEFINE l == {[path |-> p, ver |-> src[p]] : p \in {q \in Path : FolderOf[q] = f /\ There(q)}}
  <2>1. /\ \A i \in l : FolderOf[i.path] = f /\ There(i.path)
        /\ \A p \in Path : FolderOf[p] = f /\ There(p) => \E i \in l : i.path = p
    <3>1. ASSUME NEW i \in l PROVE FolderOf[i.path] = f /\ There(i.path)
      OBVIOUS
    <3>2. ASSUME NEW p \in Path, FolderOf[p] = f, There(p) PROVE \E i \in l : i.path = p
      <4>1. [path |-> p, ver |-> src[p]] \in l
        BY <3>2
      <4> QED BY <4>1
    <3> QED BY <3>1, <3>2
  <2>2. /\ pass.pc = "folders" /\ src' = src
        /\ pass' = [pass EXCEPT !.pc = "items", !.left = pass.left \ {f}, !.cur = f, !.listed = l]
    BY <1>1 DEF ListFolder, outside
  <2> HIDE DEF l
  <2>3. /\ pass'.pc = "items" /\ pass'.left = pass.left \ {f}
        /\ pass'.listed = l /\ pass'.cur = f /\ pass'.seen = pass.seen
        /\ pass'.unfinished = pass.unfinished /\ pass'.stable = pass.stable
        /\ pass.stable \subseteq Path
    BY <1>0, <2>2 DEF Pass
  <2> QED BY <2>1, <2>2, <2>3 DEF PlaceInv, Listed, There
<1>2. CASE UnreadFolder(f)
  <2>1. /\ pass.pc = "folders" /\ pass'.pc = "folders" /\ pass'.left = pass.left \ {f}
        /\ pass'.listed = pass.listed /\ pass'.seen = pass.seen
        /\ pass'.unfinished = pass.unfinished \cup {f} /\ pass'.stable = pass.stable /\ src' = src
    BY <1>0, <1>2 DEF UnreadFolder, Pass, outside
  <2> QED BY <2>1 DEF PlaceInv, Listed, There
<1> QED BY <1>1, <1>2

\* The steps that leave the lists of the pass alone.
LEMMA PlaceStill ==
    ASSUME PlaceInv, src' = src, pass.pc # "idle", pass'.left = pass.left,
           pass'.listed = pass.listed, pass'.cur = pass.cur,
           pass'.seen = pass.seen, pass'.unfinished = pass.unfinished, pass'.stable = pass.stable,
           \/ pass'.pc = pass.pc
           \/ pass.pc = "items" /\ pass.listed = {} /\ pass'.pc = "folders"
           \/ pass.pc \in {"folders", "bin"} /\ pass.left = {} /\ pass'.pc \in {"bin", "moves"}
    PROVE  PlaceInv'
BY DEF PlaceInv, Listed, There

LEMMA PlaceKept == ASSUME TypeInv, PlaceInv, [Next]_vars PROVE PlaceInv'
<1>0. pass \in Pass
  BY DEF TypeInv, TypeOK
<1>1. CASE UNCHANGED vars
  BY <1>1 DEF vars, PlaceInv, Listed, There
<1>2. CASE StartPass
  <2>1. pass'.pc = "folders" /\ pass'.left = Folder /\ pass'.seen = {} /\ pass'.listed = {}
        /\ pass'.stable = Path
    BY <1>2, IdleType DEF StartPass, Pass, Idle
  <2> QED BY <2>1, FileConstants DEF PlaceInv, Listed
<1>3. ASSUME NEW why, Stop(why) PROVE PlaceInv'
  <2>1. /\ pass'.left = pass.left /\ pass'.listed = pass.listed /\ pass'.cur = pass.cur
        /\ pass'.seen = pass.seen /\ pass'.unfinished = pass.unfinished
        /\ pass'.stable = pass.stable /\ pass'.pc = pass.pc /\ src' = src
    BY <1>0, <1>3 DEF Stop, Pass, outside
  <2> QED BY <1>3, <2>1, PlaceStill DEF Stop
<1>4. CASE CloseFolder
  <2>1. /\ pass'.left = pass.left /\ pass'.listed = pass.listed /\ pass'.cur = pass.cur
        /\ pass'.seen = pass.seen /\ pass'.unfinished = pass.unfinished
        /\ pass'.stable = pass.stable /\ pass'.pc = "folders" /\ src' = src
    BY <1>0, <1>4 DEF CloseFolder, Pass, outside
  <2> QED BY <1>4, <2>1, PlaceStill DEF CloseFolder
<1>5. CASE Conclude
  <2> DEFINE d == pass.decides /\ decides
  <2>1. pass' = Idle \/ pass' = [pass EXCEPT !.pc = "bin", !.decides = d]
    BY <1>5 DEF Conclude
  <2>2. src' = src /\ pass.pc = "folders" /\ pass.left = {}
    BY <1>5 DEF Conclude, outside
  <2> HIDE DEF d
  <2>3. CASE pass' = [pass EXCEPT !.pc = "bin", !.decides = d]
    <3>1. /\ pass'.left = pass.left /\ pass'.listed = pass.listed /\ pass'.cur = pass.cur
          /\ pass'.seen = pass.seen /\ pass'.unfinished = pass.unfinished
          /\ pass'.stable = pass.stable /\ pass'.pc = "bin"
      BY <1>0, <2>3 DEF Pass
    <3> QED BY <2>2, <3>1, PlaceStill
  <2> QED BY <2>1, <2>3, PlaceRest
<1>6. ASSUME NEW rows, pass.pc = "bin", Correlate(rows) PROVE PlaceInv'
  <2>1. CASE pass' = [pass EXCEPT !.pc = "moves", !.check = placedItems(rows), !.placed = rows]
    <3>1. /\ pass'.left = pass.left /\ pass'.listed = pass.listed /\ pass'.cur = pass.cur
          /\ pass'.seen = pass.seen /\ pass'.unfinished = pass.unfinished
          /\ pass'.stable = pass.stable /\ pass'.pc = "moves"
      BY <1>0, <2>1 DEF Pass
    <3>2. pass.left = {} /\ src' = src
      BY <1>6 DEF PlaceInv, Correlate, outside
    <3> QED BY <1>6, <3>1, <3>2, PlaceStill
  <2> QED BY <1>6, <2>1, PlaceRest DEF Correlate
<1>7. CASE EndDetection \/ EndPass \/ AbandonPass
  BY <1>7, PlaceRest DEF EndDetection, EndPass, AbandonPass
<1>8. ASSUME NEW p \in Path, DetectRow(p) PROVE PlaceInv'
  <2>1. /\ pass'.left = pass.left /\ pass'.listed = pass.listed /\ pass'.cur = pass.cur
        /\ pass'.seen = pass.seen /\ pass'.unfinished = pass.unfinished
        /\ pass'.stable = pass.stable /\ pass'.pc = pass.pc /\ pass.pc = "moves" /\ src' = src
    BY <1>0, <1>8, DetectWrites DEF Pass, outside
  <2> QED BY <2>1, PlaceStill
<1>9. CASE ReadBin \/ PassOverBin
  BY <1>6, <1>9 DEF ReadBin, PassOverBin
<1> QED BY <1>1, <1>2, <1>3, <1>4, <1>5, <1>7, <1>8, <1>9, PlaceOutside, PlaceItems, PlaceFolders
        DEF Next, PassStep

LEMMA PlaceHolds == Spec => []PlaceInv
<1>1. Init => PlaceInv
  BY IdleType DEF Init, PlaceInv
<1>2. TypeInv /\ PlaceInv /\ [Next]_vars => PlaceInv'
  BY PlaceKept
<1> QED BY <1>1, <1>2, TypesHold, PTL DEF Spec

\* The end of a pass counts no file missing, and pairs none with another, that
\* was at its path all the time the pass ran, whatever stopped the pass and
\* whichever of its folders could not be read.
THEOREM NeverMissedWhileThere == Spec => NotMissedWhileThere
<1> DEFINE A == \A p \in Path :
         (row'[p].absent > row[p].absent \/ row'[p].moved \notin {row[p].moved, Nothing})
         => ~(There(p) /\ p \in pass.stable)
<1>1. TypeInv /\ PlaceInv /\ [Next]_vars => [A]_vars
  <2> SUFFICES ASSUME TypeInv, PlaceInv, Next, NEW p \in Path, There(p), p \in pass.stable
               PROVE  ~(row'[p].absent > row[p].absent) /\ row'[p].moved \in {row[p].moved, Nothing}
    BY DEF vars
  <2>0. row \in [Path -> Row] /\ row[p] \in Row /\ row[p].absent \in 0..2
    BY DEF TypeInv, TypeOK, Row
  <2>1. CASE SaysNothing(p)
    BY <2>0, <2>1 DEF SaysNothing
  <2>2. CASE row'[p] = Looked(row[p])
    BY <2>0, <2>2, LookedClears
  <2>3. ASSUME NEW i \in pass.listed, LookItem(i) PROVE SaysNothing(p) \/ row'[p] = Looked(row[p])
    BY <2>0, <2>3 DEF LookItem, SaysNothing
  <2>4. ASSUME ReadBin PROVE /\ row'[p].absent = row[p].absent /\ row'[p].moved = row[p].moved
    <3>1. row'[p] \in {row[p], recordTrashedDeletion(row[p])}
      BY <2>4 DEF ReadBin, Correlate
    <3> QED BY <2>0, <3>1 DEF recordTrashedDeletion, Row
  <2>5. ASSUME NEW q \in Path, DetectRow(q) PROVE SaysNothing(p) \/ row'[p] = Looked(row[p])
    <3>1. CASE q # p
      <4>1. PICK r : row' = row \/ row' = [row EXCEPT ![q] = r]
        <5>1. \/ row' = row
              \/ row' = [row EXCEPT ![q] = Looked(row[q])]
              \/ row' = [row EXCEPT ![q] = recordAbsent(row[q])]
              \/ \E a \in Path : row' = [row EXCEPT ![q] = recordMove(row[q], a)]
          BY <2>5, DetectWrites
        <5> QED BY <5>1
      <4> QED BY <2>0, <3>1, <4>1 DEF SaysNothing
    <3>2. CASE q = p
      <4>1. pass.pc = "moves" /\ pass.left = {}
        BY <2>5 DEF DetectRow, PlaceInv
      <4>2. p \in pass.seen \/ FolderOf[p] \in pass.unfinished
        BY <4>1 DEF PlaceInv
      <4>3. nothingToSay(pass.placed[p], p)
        BY <4>2 DEF nothingToSay
      <4>4. row' = row \/ row' = [row EXCEPT ![p] = Looked(row[p])]
        BY <2>5, <3>2, <4>3 DEF DetectRow
      <4> QED BY <2>0, <4>4 DEF SaysNothing
    <3> QED BY <3>1, <3>2
  <2>6. CASE PassStep
    BY <2>0, <2>1, <2>2, <2>3, <2>4, <2>5, <2>6, PassSays
  <2> QED BY <2>1, <2>6, PeopleSayNothing, JobsSayNothing DEF Next
<1> QED BY <1>1, TypesHold, PlaceHolds, PTL DEF Spec, NotMissedWhileThere

-----------------------------------------------------------------------------
(* What is missing is noticed.                                              *)

\* While the rows are gone through: how a row stands to the way it was read, and
\* what has been said of the ones the loop has passed.
NoticedInv ==
    pass.pc = "moves" => \A p \in Path :
        /\ pass.placed[p].applied => row[p].applied
        /\ writtenByUs(row[p]) => p \in placedItems(pass.placed)
        /\ p \notin pass.seen =>
             /\ pass.placed[p].moved # Nothing => row[p].moved # Nothing
             /\ /\ p \in placedItems(pass.placed) \ pass.check
                /\ ~pass.placed[p].applied /\ FolderOf[p] \notin pass.unfinished
                => row[p].absent > 0 \/ row[p].moved # Nothing

\* What the end of a pass writes changes neither what a row is nor whether its
\* removal was applied.
LEMMA DetectLeaves ==
    ASSUME NEW r \in Row, NEW a \in Path
    PROVE  /\ Looked(r).status = r.status /\ Looked(r).applied = r.applied
           /\ recordAbsent(r).status = r.status /\ recordAbsent(r).applied = r.applied
           /\ recordAbsent(r).absent > 0 /\ recordAbsent(r).moved = r.moved
           /\ recordMove(r, a).status = r.status /\ recordMove(r, a).applied = r.applied
           /\ recordMove(r, a).moved = a
<1>1. ASSUME NEW t \in Row
      PROVE  /\ clearMove(t).status = t.status /\ clearMove(t).applied = t.applied
             /\ clearAbsent(t).status = t.status /\ clearAbsent(t).applied = t.applied
             /\ clearAbsent(t) \in Row
  BY RowWrites DEF clearMove, clearAbsent, Row
<1>2. Looked(r).status = r.status /\ Looked(r).applied = r.applied
  BY <1>1 DEF Looked
<1>3. /\ recordAbsent(r).status = r.status /\ recordAbsent(r).applied = r.applied
      /\ recordAbsent(r).absent > 0 /\ recordAbsent(r).moved = r.moved
  BY DEF recordAbsent, Row
<1>4. /\ recordMove(r, a).status = r.status /\ recordMove(r, a).applied = r.applied
      /\ recordMove(r, a).moved = a
  <2> DEFINE k == IF r.moved # a THEN FALSE ELSE r.kept
             n == r.moved # a \/ r.fresh
  <2>1. recordMove(r, a) = [r EXCEPT !.moved = a, !.kept = k, !.fresh = n]
    BY DEF recordMove
  <2> HIDE DEF k, n
  <2> QED BY <2>1 DEF Row
<1> QED BY <1>2, <1>3, <1>4

LEMMA NoticedOutside == ASSUME TypeInv, NoticedInv, PeopleStep \/ JobStep PROVE NoticedInv'
<1>1. /\ pass'.pc = pass.pc /\ pass'.placed = pass.placed /\ pass'.seen = pass.seen
      /\ pass'.check = pass.check /\ pass'.unfinished = pass.unfinished
  <2>1. CASE pass' = pass
    BY <2>1
  <2>2. ASSUME NEW s, SourceBecomes(s)
        PROVE  /\ pass'.pc = pass.pc /\ pass'.placed = pass.placed /\ pass'.seen = pass.seen
               /\ pass'.check = pass.check /\ pass'.unfinished = pass.unfinished
    BY <2>2 DEF SourceBecomes, TypeInv, TypeOK, Pass
  <2> QED BY <2>1, <2>2 DEF PeopleStep, SourceRemove, SourceWrite, SourceRename,
        OwnerWrite, OwnerRemove, Cutover, resolveMove, resolveDeletion,
        JobStep, ApplyRelocation, ApplyDeletion, AutoApplyRelocation,
        BeginRelocation, Begin, AskArrival, RemoveCopy, RecordRemoval, Die
<1>2. ASSUME NEW p \in Path
      PROVE  /\ SaysNothing(p) /\ (row[p].applied => row'[p].applied)
             /\ writtenByUs(row'[p]) => writtenByUs(row[p])
  BY PeopleSayNothing, JobsSayNothing DEF writtenByUs
<1> QED BY <1>1, <1>2 DEF NoticedInv, SaysNothing

LEMMA NoticedDetect == ASSUME TypeInv, NoticedInv, NEW q \in Path, DetectRow(q) PROVE NoticedInv'
<1>0. row \in [Path -> Row] /\ row[q] \in Row /\ pass \in Pass
  BY DEF TypeInv, TypeOK
<1>1. /\ pass.pc = "moves" /\ pass'.placed = pass.placed /\ pass'.seen = pass.seen
      /\ pass'.check = pass.check \ {q} /\ pass'.unfinished = pass.unfinished
  <2>1. PICK c \in SUBSET Path : pass' = [pass EXCEPT !.check = pass.check \ {q}, !.created = c]
    BY DetectWrites
  <2>2. pass.pc = "moves"
    BY DetectWrites
  <2> QED BY <1>0, <2>1, <2>2 DEF Pass
<1>2. PICK r : row' = row \/ row' = [row EXCEPT ![q] = r]
  <2>1. \/ row' = row
        \/ row' = [row EXCEPT ![q] = Looked(row[q])]
        \/ row' = [row EXCEPT ![q] = recordAbsent(row[q])]
        \/ \E a \in Path : row' = [row EXCEPT ![q] = recordMove(row[q], a)]
    BY DetectWrites
  <2> QED BY <2>1
<1>3. \A p \in Path \ {q} : row'[p] = row[p]
  BY <1>0, <1>2
<1>4. row'[q].status = row[q].status /\ row'[q].applied = row[q].applied
  <2>1. \/ row'[q] = row[q]
        \/ row'[q] = Looked(row[q])
        \/ row'[q] = recordAbsent(row[q])
        \/ \E a \in Path : row'[q] = recordMove(row[q], a)
    <3>1. \/ row' = row
          \/ row' = [row EXCEPT ![q] = Looked(row[q])]
          \/ row' = [row EXCEPT ![q] = recordAbsent(row[q])]
          \/ \E a \in Path : row' = [row EXCEPT ![q] = recordMove(row[q], a)]
      BY DetectWrites
    <3>2. \A z : row' = [row EXCEPT ![q] = z] => row'[q] = z
      BY <1>0
    <3> QED BY <3>1, <3>2
  <2> QED BY <1>0, <2>1, DetectLeaves
<1>5. q \notin pass.seen =>
        /\ pass.placed[q].moved # Nothing => row'[q].moved # Nothing
        /\ ~pass.placed[q].applied /\ FolderOf[q] \notin pass.unfinished
           => row'[q].absent > 0 \/ row'[q].moved # Nothing
  <2> SUFFICES ASSUME q \notin pass.seen
               PROVE  /\ pass.placed[q].moved # Nothing => row'[q].moved # Nothing
                      /\ ~pass.placed[q].applied /\ FolderOf[q] \notin pass.unfinished
                         => row'[q].absent > 0 \/ row'[q].moved # Nothing
    OBVIOUS
  <2>1. pass.placed[q].moved # Nothing => row[q].moved # Nothing
    BY <1>1 DEF NoticedInv
  <2>2. CASE row' = row /\ (nothingToSay(pass.placed[q], q) \/ pass.placed[q].moved # Nothing)
    BY <2>1, <2>2 DEF nothingToSay
  <2>3. CASE row' = [row EXCEPT ![q] = recordAbsent(row[q])]
    BY <1>0, <2>1, <2>3, DetectLeaves
  <2>4. CASE \E a \in Path : row' = [row EXCEPT ![q] = recordMove(row[q], a)]
    <3>1. PICK a \in Path : row' = [row EXCEPT ![q] = recordMove(row[q], a)]
      BY <2>4
    <3>2. row'[q].moved = a /\ a # Nothing
      BY <1>0, <3>1, DetectLeaves, FileConstants
    <3> QED BY <3>2
  <2>5. pass.created \subseteq Path
    BY <1>0 DEF Pass
  <2>6. \/ row' = row /\ (nothingToSay(pass.placed[q], q) \/ pass.placed[q].moved # Nothing)
        \/ row' = [row EXCEPT ![q] = recordAbsent(row[q])]
        \/ \E a \in Path : row' = [row EXCEPT ![q] = recordMove(row[q], a)]
    BY <2>5 DEF DetectRow
  <2> QED BY <2>2, <2>3, <2>4, <2>6
<1> QED BY <1>1, <1>3, <1>4, <1>5 DEF NoticedInv, writtenByUs

LEMMA NoticedKept == ASSUME TypeInv, NoticedInv, [Next]_vars PROVE NoticedInv'
<1>0. pass \in Pass /\ row \in [Path -> Row]
  BY DEF TypeInv, TypeOK
<1>1. CASE UNCHANGED vars
  BY <1>1 DEF vars, NoticedInv
<1>2. ASSUME NEW rows \in [Path -> Row], Correlate(rows) PROVE NoticedInv'
  <2>1. CASE pass' = [pass EXCEPT !.pc = "moves", !.check = placedItems(rows), !.placed = rows]
    <3>1. pass'.placed = rows /\ row' = rows /\ pass'.check = placedItems(rows)
      BY <1>0, <1>2, <2>1 DEF Correlate, Pass
    <3> QED BY <3>1 DEF NoticedInv, placedItems, writtenByUs
  <2> QED BY <1>2, <2>1, ConcludedType DEF Correlate, NoticedInv
<1>3. CASE ReadBin \/ PassOverBin
  <2>1. \A p \in Path : recordTrashedDeletion(row[p]) \in Row
    BY <1>0, RowWrites
  <2> DEFINE rows == [p \in Path |-> IF p \in bin \ pass.seen /\ isOnTarget(row[p])
                                     THEN recordTrashedDeletion(row[p]) ELSE row[p]]
  <2>2. rows \in [Path -> Row]
    BY <1>0, <2>1
  <2>3. Correlate(rows) \/ Correlate(row)
    BY <1>3 DEF ReadBin, PassOverBin
  <2> HIDE DEF rows
  <2> QED BY <1>0, <1>2, <2>2, <2>3
<1>4. CASE PassStep /\ ~ReadBin /\ ~PassOverBin /\ ~(\E q \in Path : DetectRow(q))
  <2>1. pass'.pc # "moves"
    <3>1. CASE ItemStep
      <4>1. \A h : Done(h).pc = pass.pc /\ Done(h) \in Pass
        BY <1>0, DoneType DEF Done, Pass
      <4>2. ASSUME NEW i \in pass.listed, LeaveItem(i) \/ LookItem(i) PROVE pass'.pc = "items"
        BY <1>0, <4>2 DEF LeaveItem, LookItem, Pass
      <4>3. ASSUME NEW h \in pass.hand, CopyItem(h) \/ FailItem(h) PROVE pass'.pc = "items"
        <5>1. pass.pc = "items" /\ Done(h).pc = "items" /\ Done(h) \in Pass
          BY <4>1, <4>3 DEF CopyItem, FailItem
        <5>2. pass' = Done(h) \/ \E c : pass' = [Done(h) EXCEPT !.created = c]
          BY <4>3 DEF CopyItem, FailItem
        <5> QED BY <5>1, <5>2 DEF Pass
      <4>4. ASSUME NEW h \in pass.hand, NEW why, HoldItem(h, why) PROVE pass'.pc = "items"
        BY <4>1, <4>4 DEF HoldItem, Pass
      <4> QED BY <3>1, <4>2, <4>3, <4>4 DEF ItemStep
    <3>2. CASE StartPass \/ CloseFolder \/ EndDetection \/ EndPass \/ AbandonPass
      BY <1>0, <3>2, IdleType, ConcludedType
         DEF StartPass, CloseFolder, EndDetection, EndPass, AbandonPass, Pass
    <3>3. CASE Conclude
      <4> DEFINE d == pass.decides /\ decides
      <4>1. pass' = Idle \/ pass' = [pass EXCEPT !.pc = "bin", !.decides = d]
        BY <3>3 DEF Conclude
      <4> HIDE DEF d
      <4> QED BY <1>0, <4>1, IdleType DEF Pass
    <3>4. ASSUME NEW f \in Folder, ListFolder(f) \/ UnreadFolder(f) PROVE pass'.pc # "moves"
      BY <1>0, <3>4 DEF ListFolder, UnreadFolder, Pass
    <3>5. ASSUME NEW why, Stop(why) PROVE pass'.pc # "moves"
      BY <1>0, <3>5 DEF Stop, Pass
    <3> QED BY <1>4, <3>1, <3>2, <3>3, <3>4, <3>5 DEF PassStep
  <2> QED BY <2>1 DEF NoticedInv
<1> QED BY <1>1, <1>3, <1>4, NoticedOutside, NoticedDetect DEF Next

\* A pass that went through its rows has accounted for every copy of ours whose
\* file was away all the time it ran, in every folder it finished: whatever was
\* applied, kept or written beside it, the file is counted absent or has moved.
THEOREM MissingAlwaysNoticed == Spec => MissingIsNoticed
<1> DEFINE A == pass.pc = "moves" /\ pass'.pc = "auto" =>
         \A p \in Path :
            /\ writtenByUs(row[p]) /\ ~row[p].applied
            /\ ~There(p) /\ p \in pass.stable /\ FolderOf[p] \notin pass.unfinished
            => row[p].absent > 0 \/ row[p].moved # Nothing
<1>1. Init => NoticedInv
  BY IdleType DEF Init, NoticedInv
<1>2. TypeInv /\ NoticedInv /\ [Next]_vars => NoticedInv'
  BY NoticedKept
<1>3. TypeInv /\ PlaceInv /\ NoticedInv /\ [Next]_vars => [A]_vars
  <2> SUFFICES ASSUME TypeInv, PlaceInv, NoticedInv, Next, pass.pc = "moves", pass'.pc = "auto",
                      NEW p \in Path, writtenByUs(row[p]), ~row[p].applied,
                      ~There(p), p \in pass.stable, FolderOf[p] \notin pass.unfinished
               PROVE  row[p].absent > 0 \/ row[p].moved # Nothing
    BY DEF vars
  <2>0. pass \in Pass
    BY DEF TypeInv, TypeOK
  <2>1. pass.check = {}
    <3>1. CASE EndDetection
      BY <3>1 DEF EndDetection
    <3>2. ASSUME NEW q \in Path, DetectRow(q) PROVE FALSE
      BY <2>0, <3>2, DetectWrites DEF Pass
    <3>3. CASE PeopleStep \/ JobStep
      <4>1. pass' = pass \/ \E s : SourceBecomes(s)
        BY <3>3 DEF PeopleStep, SourceRemove, SourceWrite, SourceRename,
           OwnerWrite, OwnerRemove, Cutover, resolveMove, resolveDeletion,
           JobStep, ApplyRelocation, ApplyDeletion, AutoApplyRelocation,
           BeginRelocation, Begin, AskArrival, RemoveCopy, RecordRemoval, Die
      <4>2. pass'.pc = pass.pc
        BY <2>0, <4>1 DEF SourceBecomes, Pass
      <4> QED BY <4>2
    <3>4. CASE PassStep /\ ~EndDetection /\ ~(\E q \in Path : DetectRow(q))
      <4>1. CASE AbandonPass
        BY <4>1, IdleType DEF AbandonPass
      <4> QED BY <3>4, <4>1 DEF PassStep, ItemStep, StartPass, CloseFolder, Conclude, ReadBin, PassOverBin,
            EndPass, ListFolder, UnreadFolder, Stop, LeaveItem, LookItem, CopyItem, FailItem, HoldItem
    <3> QED BY <3>1, <3>2, <3>3, <3>4 DEF Next
  <2>2. p \notin pass.seen
    BY DEF PlaceInv
  <2> QED BY <2>1, <2>2 DEF NoticedInv
<1> QED BY <1>1, <1>2, <1>3, TypesHold, PlaceHolds, PTL DEF Spec, MissingIsNoticed
=============================================================================
