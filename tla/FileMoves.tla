----------------------------- MODULE FileMoves -----------------------------
(***************************************************************************)
(* Files that are renamed, moved or removed at the source, and the one     *)
(* operation of the product that removes anything: carrying a removal, or  *)
(* the removal half of a rename, over to the target.                       *)
(*                                                                         *)
(* A file's natural key is its path, so a rename is a path that disappears *)
(* and one that arrives.  The end of a file pass pairs the two by their    *)
(* bytes (detectPathKeyedMoves, packages/core/src/domain-sync.ts), counts  *)
(* what is missing and reads the source's bin.  Applying a relocation or a *)
(* deletion (apply-deletion.ts) checks the ledger, asks the target whether *)
(* the new copy is there, removes the old one and records it: four steps   *)
(* that no transaction covers, beside a pass that may run and an owner who *)
(* works on the target.                                                    *)
(*                                                                         *)
(* A file's version is its bytes.  The object at a path is `ours` while    *)
(* its ETag is the one we recorded.  The upsert of an item and its row are *)
(* one step here; the gap between them is DomainSync's.  Documents paired  *)
(* by an id of their own, and names an export policy changed, are left     *)
(* out.                                                                    *)
(***************************************************************************)
EXTENDS Naturals, FiniteSets

CONSTANTS
    Path,         \* the natural keys of the files
    Folder,       \* the collections they lie in
    FolderOf,     \* the collection of each path
    Bytes,        \* contents, which are also versions and content hashes
    Nothing,      \* no file, no bytes
    Theirs,       \* bytes the target's owner put there
    Job,          \* apply jobs: what an operator started, and the unattended apply
    Unattended,   \* the unattended apply of a pass, one of Job
    Overlap,      \* whether apply jobs may run at the same time
    MassMin,      \* MASS_DELETION_MIN_ITEMS
    MaxChanges,   \* bound: changes by the owners of the source and of the target
    MaxFaults     \* bound: stops, unread folders, held items, deaths

ASSUME FileConstants ==
    /\ IsFiniteSet(Path) /\ IsFiniteSet(Folder) /\ FolderOf \in [Path -> Folder]
    /\ Nothing \notin Bytes \cup Path /\ Theirs \notin Bytes \cup {Nothing}
    /\ Unattended \in Job /\ Overlap \in BOOLEAN /\ MassMin \in Nat
    /\ MaxChanges \in Nat /\ MaxFaults \in Nat

VARIABLES
    src,       \* src[p]: the bytes of the file at path p of the source
    bin,       \* the paths the source's bin names
    tgt,       \* tgt[p]: the object at path p of the target
    row,       \* row[p]: the ledger's row of natural key p
    decides,   \* stillTheAuthority: the source decides what exists
    pass,      \* the pass that runs, or Idle
    job,       \* job[x]: what apply job x has read and where it is
    changes,
    faults

vars == <<src, bin, tgt, row, decides, pass, job, changes, faults>>
outside == <<src, bin, decides, changes>>

Statuses == {"none", "copied", "updated", "adopted", "failed", "tombstoned"}
Object == [bytes : Bytes \cup {Nothing, Theirs}, ours : BOOLEAN]
Row == [status : Statuses, hash : Bytes \cup {Nothing}, moved : Path \cup {Nothing}, kept : BOOLEAN,
        fresh : BOOLEAN, absent : 0..2, trashed : BOOLEAN, answered : BOOLEAN, applied : BOOLEAN]
Item == [path : Path, ver : Bytes \cup {Nothing}]
\* `stable` and `lost` are history: the paths that were there, or not, ever
\* since the pass began, and whether the target's owner removed the arrival.
Pass == [pc : {"idle", "folders", "items", "bin", "moves", "auto"}, decides : BOOLEAN,
         left : SUBSET Folder, cur : Folder \cup {Nothing}, listed : SUBSET Item, hand : SUBSET Item,
         seen : SUBSET Path, created : SUBSET Path, unfinished : SUBSET Folder,
         stop : {"", "told", "late"}, check : SUBSET Path, placed : [Path -> Row],
         stable : SUBSET Path]
JobState == [pc : {"idle", "ask", "remove", "record"}, kind : {"", "relocation", "deletion"},
             path : Path \cup {Nothing}, to : Path \cup {Nothing}, ver : Bytes \cup {Nothing},
             lost : BOOLEAN]

NoObject == [bytes |-> Nothing, ours |-> FALSE]
NoRow == [status |-> "none", hash |-> Nothing, moved |-> Nothing, kept |-> FALSE, fresh |-> FALSE,
          absent |-> 0, trashed |-> FALSE, answered |-> FALSE, applied |-> FALSE]
Unread == [p \in Path |-> NoRow]
Idle == [pc |-> "idle", decides |-> FALSE, left |-> {}, cur |-> Nothing, listed |-> {}, hand |-> {},
         seen |-> {}, created |-> {}, unfinished |-> {}, stop |-> "", check |-> {},
         placed |-> Unread, stable |-> Path]
NoJob == [pc |-> "idle", kind |-> "", path |-> Nothing, to |-> Nothing, ver |-> Nothing, lost |-> FALSE]

There(p) == src[p] # Nothing
OnTarget(p) == tgt[p].bytes # Nothing
isOnTarget(r) == r.status \in {"copied", "updated", "adopted"}
writtenByUs(r) == r.status \in {"copied", "updated"}

-----------------------------------------------------------------------------
(* The people: the owner of the source, the owner of the target, and the    *)
(* cutover.                                                                 *)

Change == changes < MaxChanges /\ changes' = changes + 1

SourceBecomes(s) ==
    /\ Change
    /\ src' = s
    /\ pass' = IF pass.pc = "idle" THEN pass
               ELSE [pass EXCEPT !.stable = {p \in @ : (s[p] = Nothing) = (src[p] = Nothing)}]
    /\ UNCHANGED <<tgt, row, decides, job, faults>>

SourceWrite(p, b) ==
    /\ src[p] # b
    /\ SourceBecomes([src EXCEPT ![p] = b]) /\ UNCHANGED bin

SourceRename(p, q) ==
    /\ There(p) /\ ~There(q)
    /\ SourceBecomes([src EXCEPT ![p] = Nothing, ![q] = src[p]]) /\ UNCHANGED bin

SourceRemove(p) ==
    /\ There(p)
    /\ SourceBecomes([src EXCEPT ![p] = Nothing])
    /\ bin' = bin \cup {p}

OwnerWrite(p) ==
    /\ Change
    /\ tgt' = [tgt EXCEPT ![p] = [bytes |-> Theirs, ours |-> FALSE]]
    /\ UNCHANGED <<src, bin, row, decides, pass, job, faults>>

OwnerRemove(p) ==
    /\ Change /\ OnTarget(p)
    /\ tgt' = [tgt EXCEPT ![p] = NoObject]
    /\ job' = [x \in Job |-> IF job[x].to = p THEN [job[x] EXCEPT !.lost = TRUE] ELSE job[x]]
    /\ UNCHANGED <<src, bin, row, decides, pass, faults>>

Cutover ==
    /\ Change
    /\ decides' = ~decides
    /\ UNCHANGED <<src, bin, tgt, row, pass, job, faults>>

-----------------------------------------------------------------------------
(* The ledger's writes.                                                     *)

recordMove(r, q) ==
    [r EXCEPT !.moved = q, !.kept = IF r.moved # q THEN FALSE ELSE @,
              !.fresh = r.moved # q \/ @]
clearMove(r) == [r EXCEPT !.moved = Nothing, !.kept = FALSE, !.fresh = FALSE]
recordAbsent(r) == [r EXCEPT !.absent = IF @ < 2 THEN @ + 1 ELSE @]
recordTrashedDeletion(r) == [r EXCEPT !.trashed = TRUE]
clearAbsent(r) == [r EXCEPT !.absent = 0, !.trashed = FALSE, !.answered = FALSE]

\* Neither clears what an earlier removal left on the row.
recordUpdate(r, status, hash) == [r EXCEPT !.status = status, !.hash = hash]
recordFailure(r) == [r EXCEPT !.status = "failed"]

\* `fresh` stands for a detection time that is not before the running pass began;
\* absences are counted up to the two that make a reported deletion.

\* The rows the mass breakers, the pairing and the ambiguity test count.
placedItems(rows) == {p \in Path : rows[p].status \notin {"none", "failed"}}

openMoves == {p \in Path : row[p].moved # Nothing /\ ~row[p].kept}
pendingDeletions ==
    {p \in Path : (row[p].trashed \/ row[p].absent = 2) /\ ~row[p].answered}

\* The operator keeps a copy that a move or a removal would take away.
resolveMove(p) ==
    /\ row[p].moved # Nothing /\ ~row[p].kept
    /\ Overlap \/ \A x \in Job : job[x] = NoJob
    /\ row' = [row EXCEPT ![p].kept = TRUE]
    /\ UNCHANGED <<outside, tgt, pass, job, faults>>

resolveDeletion(p) ==
    /\ p \in pendingDeletions
    /\ Overlap \/ \A x \in Job : job[x] = NoJob
    /\ row' = [row EXCEPT ![p].answered = TRUE]
    /\ UNCHANGED <<outside, tgt, pass, job, faults>>

-----------------------------------------------------------------------------
(* A file pass: every folder is listed in full, every listed file looked at *)
(* and, when there is something to write, copied.                           *)

Fault == faults < MaxFaults /\ faults' = faults + 1

StartPass ==
    /\ pass.pc = "idle"
    /\ row' = [p \in Path |-> [row[p] EXCEPT !.fresh = FALSE]]
    /\ pass' = [Idle EXCEPT !.pc = "folders", !.decides = decides, !.left = Folder]
    /\ UNCHANGED <<outside, tgt, job, faults>>

ListFolder(f) ==
    /\ pass.pc = "folders" /\ f \in pass.left /\ pass.stop = ""
    /\ pass' = [pass EXCEPT !.pc = "items", !.left = @ \ {f}, !.cur = f,
                            !.listed = {[path |-> p, ver |-> src[p]] :
                                        p \in {q \in Path : FolderOf[q] = f /\ There(q)}}]
    /\ UNCHANGED <<outside, tgt, row, job, faults>>

\* The listing failed, or the pass takes no new work.
UnreadFolder(f) ==
    /\ pass.pc = "folders" /\ f \in pass.left
    /\ IF pass.stop = "" THEN Fault ELSE UNCHANGED faults
    /\ pass' = [pass EXCEPT !.left = @ \ {f}, !.unfinished = @ \cup {f}]
    /\ UNCHANGED <<outside, tgt, row, job>>

\* Told to stop, or out of time or of download budget.
Stop(why) ==
    /\ pass.pc \in {"folders", "items"} /\ pass.stop = "" /\ Fault
    /\ pass' = [pass EXCEPT !.stop = why]
    /\ UNCHANGED <<outside, tgt, row, job>>

LeaveItem(i) ==
    /\ pass.pc = "items" /\ i \in pass.listed /\ pass.stop # ""
    /\ pass' = [pass EXCEPT !.listed = @ \ {i}, !.unfinished = @ \cup {pass.cur}]
    /\ UNCHANGED <<outside, tgt, row, job, faults>>

\* A removal carried out as a relocation is known by the key it names.
classifyKnownItem(r, version) ==
    CASE r.status = "none" -> "create"
      [] r.status = "tombstoned" -> IF r.moved # Nothing THEN "relocated-away" ELSE "tombstoned"
      [] r.status = "failed" -> "retry-failed"
      [] r.hash = version -> "skip"
      [] r.status = "adopted" -> "leave-adopted"
      [] OTHER -> "rewrite"

\* Mutant: a file that is there again keeps its run of absences.
LookedKeepsCount(r) == IF r.moved # Nothing THEN clearMove(r) ELSE r

\* A file that is there takes back what was said of its absence, and a move
\* recorded for it is over, before anything is decided about its bytes.
Looked(r) ==
    LET back == IF r.absent > 0 \/ r.trashed THEN clearAbsent(r) ELSE r
    IN IF r.moved # Nothing THEN clearMove(back) ELSE back

LookItem(i) ==
    /\ pass.pc = "items" /\ i \in pass.listed /\ pass.stop = ""
    /\ LET p == i.path
           act == classifyKnownItem(row[p], i.ver)
           writes == \/ act \in {"create", "retry-failed", "relocated-away"}
                     \/ act = "rewrite" /\ pass.decides
           known == IF act = "rewrite" THEN row[p].hash ELSE Nothing
       IN /\ row' = [row EXCEPT ![p] = Looked(@)]
          /\ pass' = [pass EXCEPT
                !.listed = @ \ {i}, !.seen = @ \cup {p},
                !.hand = IF writes THEN @ \cup {[path |-> p, ver |-> known]} ELSE @]
    /\ UNCHANGED <<outside, tgt, job, faults>>

\* An item in hand carries the version its rewrite expects at the target.
Done(h) == [pass EXCEPT !.hand = @ \ {h}]

\* A first copy waits at the customer's ceiling; any copy waits for the meter,
\* and the pass then stops.
HoldItem(h, why) ==
    /\ pass.pc = "items" /\ h \in pass.hand /\ Fault
    /\ why = "late" \/ h.ver = Nothing
    /\ pass' = IF why = "late" /\ pass.stop = "" THEN [Done(h) EXCEPT !.stop = "late"] ELSE Done(h)
    /\ UNCHANGED <<outside, tgt, row, job>>

Matches(p, version) == tgt[p].ours /\ tgt[p].bytes = version

\* Mutant: a rewrite does not ask whose object it replaces.
upsertUnasked(h) ==
    IF h.ver # Nothing THEN "updated" ELSE IF OnTarget(h.path) THEN "adopted" ELSE "copied"

\* Mutant: what a create finds has an outcome the ledger does not know.
upsertExists(h) ==
    IF h.ver # Nothing THEN IF Matches(h.path, h.ver) THEN "updated" ELSE "conflicted"
    ELSE IF OnTarget(h.path) THEN "exists" ELSE "copied"

\* upsertFile: a conditional rewrite, or a create that adopts what it finds.
upsertFile(h) ==
    IF h.ver # Nothing THEN IF Matches(h.path, h.ver) THEN "updated" ELSE "conflicted"
    ELSE IF OnTarget(h.path) THEN "adopted" ELSE "copied"

CopyItem(h) ==
    /\ pass.pc = "items" /\ h \in pass.hand /\ There(h.path)
    /\ LET p == h.path
           res == upsertFile(h)
           wrote == res \in {"copied", "updated"}
       IN /\ tgt' = IF wrote THEN [tgt EXCEPT ![p] = [bytes |-> src[p], ours |-> TRUE]] ELSE tgt
          /\ row' = [row EXCEPT ![p] =
                IF res = "conflicted" THEN recordUpdate(@, "adopted", h.ver)
                ELSE recordUpdate(@, res, src[p])]
          /\ pass' = IF res = "copied" THEN [Done(h) EXCEPT !.created = @ \cup {p}] ELSE Done(h)
    /\ UNCHANGED <<outside, job, faults>>

\* The file is gone when it is fetched, or either end refuses.
FailItem(h) ==
    /\ pass.pc = "items" /\ h \in pass.hand
    /\ IF There(h.path) THEN Fault ELSE UNCHANGED faults
    /\ row' = [row EXCEPT ![h.path] = recordFailure(@)]
    /\ pass' = Done(h)
    /\ UNCHANGED <<outside, tgt, job>>

CloseFolder ==
    /\ pass.pc = "items" /\ pass.listed = {} /\ pass.hand = {}
    /\ pass' = [pass EXCEPT !.pc = "folders"]
    /\ UNCHANGED <<outside, tgt, row, job, faults>>

AbandonPass ==
    /\ pass.pc # "idle" /\ Fault /\ pass' = Idle
    /\ UNCHANGED <<outside, tgt, row, job>>

-----------------------------------------------------------------------------
(* The end of a pass.                                                       *)

\* A pass that read no folder at all fails; any other asks once more whether
\* the source still decides.
Conclude ==
    /\ pass.pc = "folders" /\ pass.left = {}
    /\ pass' = IF pass.cur = Nothing THEN Idle
               ELSE [pass EXCEPT !.pc = "bin", !.decides = @ /\ decides]
    /\ UNCHANGED <<outside, tgt, row, job, faults>>

readsTheBin == pass.decides /\ pass.unfinished = {} /\ pass.stop # "told"

\* What the unattended apply still needs to know of the pass.
Concluded == [Idle EXCEPT !.pc = "auto", !.stop = pass.stop]

\* The rows are read for the pairing, once.
Correlate(rows) ==
    /\ row' = rows
    /\ pass' = IF pass.decides
               THEN [pass EXCEPT !.pc = "moves", !.check = placedItems(rows), !.placed = rows]
               ELSE Concluded
    /\ UNCHANGED <<outside, tgt, job>>

\* resolveDiscardedItems: the bin names what its owner removed; what this pass
\* saw alive is not removed.
ReadBin ==
    /\ pass.pc = "bin" /\ readsTheBin /\ UNCHANGED faults
    /\ Correlate([p \in Path |-> IF p \in bin \ pass.seen /\ isOnTarget(row[p])
                                 THEN recordTrashedDeletion(row[p]) ELSE row[p]])

\* The bin could not be read, or is not asked.
PassOverBin ==
    /\ pass.pc = "bin"
    /\ IF readsTheBin THEN Fault ELSE UNCHANGED faults
    /\ Correlate(row)

\* Mutants: what an unfinished folder hides counts as missing; a path a move
\* or an absence was ever recorded for is not looked at again.
settledInFull(r, p) == r.applied \/ p \in pass.seen
settledForGood(r, p) == r.applied \/ p \in pass.seen \/ FolderOf[p] \in pass.unfinished \/ r.hash # Nothing

\* A row nothing is concluded about.
nothingToSay(r, p) == r.applied \/ p \in pass.seen \/ FolderOf[p] \in pass.unfinished

\* detectPathKeyedMoves for one row, as it was read before the loop: a row
\* whose file was seen is cleared, an arrival with its bytes is its new place
\* and is spent, anything else is one more absence.
DetectRow(p) ==
    LET r == pass.placed[p]
        arrivals == {q \in pass.created : pass.placed[q].hash = r.hash}
        next == [pass EXCEPT !.check = @ \ {p}]
    IN /\ pass.pc = "moves" /\ p \in pass.check
       /\ \/ /\ nothingToSay(r, p) \/ r.moved # Nothing
             /\ row' = IF p \in pass.seen /\ ~r.applied /\ (r.moved # Nothing \/ r.absent > 0)
                       THEN [row EXCEPT ![p] = Looked(@)] ELSE row
             /\ pass' = next
          \/ /\ ~nothingToSay(r, p) /\ r.moved = Nothing
             /\ \E q \in arrivals : /\ row' = [row EXCEPT ![p] = recordMove(@, q)]
                                    /\ pass' = [next EXCEPT !.created = @ \ {q}]
          \/ /\ ~nothingToSay(r, p) /\ r.moved = Nothing /\ arrivals = {}
             /\ row' = [row EXCEPT ![p] = recordAbsent(@)]
             /\ pass' = next
       /\ UNCHANGED <<outside, tgt, job, faults>>

EndDetection ==
    /\ pass.pc = "moves" /\ pass.check = {}
    /\ pass' = Concluded
    /\ UNCHANGED <<outside, tgt, row, job, faults>>

EndPass ==
    /\ pass.pc = "auto" /\ job[Unattended] = NoJob
    /\ pass' = Idle
    /\ UNCHANGED <<outside, tgt, row, job, faults>>

-----------------------------------------------------------------------------
(* Applying a relocation or a deletion.                                     *)

massCheck(pending) ==
    Cardinality(placedItems(row)) < MassMin \/ 5 * Cardinality(pending) <= Cardinality(placedItems(row))

sharers(r) == {q \in placedItems(row) : row[q].hash = r.hash}

\* relocationCheck: not kept, and the arrival is another key, on the target by
\* our hand, with these bytes, which nobody else has.
relocationCheck(p) ==
    LET r == row[p]
    IN /\ ~r.kept /\ r.moved \notin {Nothing, p}
       /\ writtenByUs(row[r.moved]) /\ row[r.moved].hash = r.hash
       /\ Cardinality(sharers(r)) <= 2

mayBegin(x) == job[x] = NoJob /\ (Overlap \/ \A y \in Job : job[y] = NoJob)
mayRemove(p) == decides /\ ~row[p].applied /\ writtenByUs(row[p])

Begin(x, kind, p, pc) ==
    /\ job' = [job EXCEPT ![x] = [pc |-> pc, kind |-> kind, path |-> p,
                                  to |-> IF kind = "relocation" THEN row[p].moved ELSE Nothing,
                                  ver |-> row[p].hash, lost |-> FALSE]]
    /\ UNCHANGED <<outside, tgt, row, pass, faults>>

\* Mutant: the ledger's word for the arrival is enough.
BeginUnasked(x, p) == Begin(x, "relocation", p, "remove")
BeginRelocation(x, p) == Begin(x, "relocation", p, "ask")

ApplyRelocation(x, p) ==
    /\ x # Unattended /\ mayBegin(x)
    /\ mayRemove(p) /\ relocationCheck(p) /\ massCheck(pendingDeletions) /\ massCheck(openMoves)
    /\ BeginRelocation(x, p)

\* The unattended apply at the end of a pass: only a move an earlier pass
\* recorded, and only a pair.
AutoApplyRelocation(p) ==
    /\ pass.pc = "auto" /\ pass.stop # "told" /\ mayBegin(Unattended)
    /\ p \in openMoves /\ ~row[p].fresh /\ Cardinality(sharers(row[p])) = 2
    /\ mayRemove(p) /\ relocationCheck(p) /\ massCheck(pendingDeletions) /\ massCheck(openMoves)
    /\ BeginRelocation(Unattended, p)

\* A deletion needs the source's own word: absence alone removes nothing.
ApplyDeletion(x, p) ==
    /\ x # Unattended /\ mayBegin(x)
    /\ mayRemove(p) /\ row[p].trashed /\ massCheck(pendingDeletions)
    /\ Begin(x, "deletion", p, "remove")

At(x, pc) == job[x].pc = pc
Drop(x) == job' = [job EXCEPT ![x] = NoJob]
Go(x, pc) == job' = [job EXCEPT ![x].pc = pc]

\* hasItem: is the new copy there?
AskArrival(x) ==
    /\ At(x, "ask")
    /\ IF OnTarget(job[x].to) THEN Go(x, "remove") ELSE Drop(x)
    /\ UNCHANGED <<outside, tgt, row, pass, faults>>

\* removeItem: a conditional DELETE; an object that is gone already is removed.
RemoveCopy(x) ==
    LET p == job[x].path
    IN /\ At(x, "remove")
       /\ \/ ~OnTarget(p) /\ Go(x, "record") /\ UNCHANGED tgt
          \/ Matches(p, job[x].ver) /\ tgt' = [tgt EXCEPT ![p] = NoObject] /\ Go(x, "record")
          \/ OnTarget(p) /\ ~Matches(p, job[x].ver) /\ Drop(x) /\ UNCHANGED tgt
       /\ UNCHANGED <<outside, row, pass, faults>>

stillRelocated(r, p) ==
    /\ r.moved \notin {Nothing, p} /\ ~r.kept
    /\ writtenByUs(row[r.moved]) /\ row[r.moved].hash = r.hash

\* ledger.applyRelocation and ledger.applyDeletion: conditional updates, with
\* nothing left to undo when they refuse.
RecordRemoval(x) ==
    LET p == job[x].path
        r == row[p]
        relocated == job[x].kind = "relocation"
    IN /\ At(x, "record")
       /\ row' = IF /\ ~r.applied /\ writtenByUs(r)
                    /\ IF relocated THEN stillRelocated(r, p) ELSE r.trashed
                 THEN [row EXCEPT ![p] =
                          [r EXCEPT !.status = "tombstoned", !.applied = TRUE,
                                    !.kept = relocated \/ @,
                                    !.answered = ~relocated \/ r.trashed \/ r.absent > 0 \/ @]]
                 ELSE row
       /\ Drop(x)
       /\ UNCHANGED <<outside, tgt, pass, faults>>

\* The job's process dies, or a request of it fails.
Die(x) ==
    /\ job[x] # NoJob /\ Fault /\ Drop(x)
    /\ UNCHANGED <<outside, tgt, row, pass>>

-----------------------------------------------------------------------------
(* The specification.  It begins with files that are there and copied.      *)

Init ==
    /\ src \in [Path -> Bytes \cup {Nothing}]
    /\ bin = {}
    /\ tgt = [p \in Path |-> [bytes |-> src[p], ours |-> src[p] # Nothing]]
    /\ row = [p \in Path |-> IF src[p] = Nothing THEN NoRow
                             ELSE [NoRow EXCEPT !.status = "copied", !.hash = src[p]]]
    /\ decides = TRUE /\ pass = Idle /\ job = [x \in Job |-> NoJob]
    /\ changes = 0 /\ faults = 0

PeopleStep ==
    \/ \E p \in Path : SourceRemove(p) \/ OwnerWrite(p) \/ OwnerRemove(p)
    \/ \E p \in Path, b \in Bytes : SourceWrite(p, b)
    \/ \E p, q \in Path : SourceRename(p, q)
    \/ Cutover
    \/ \E p \in Path : resolveMove(p) \/ resolveDeletion(p)

ItemStep ==
    \/ \E i \in pass.listed : LeaveItem(i) \/ LookItem(i)
    \/ \E h \in pass.hand : CopyItem(h) \/ FailItem(h)
    \/ \E h \in pass.hand, why \in {"ceiling", "late"} : HoldItem(h, why)

PassStep ==
    \/ StartPass \/ CloseFolder \/ Conclude \/ ReadBin \/ PassOverBin \/ EndDetection \/ EndPass
    \/ AbandonPass
    \/ \E f \in Folder : ListFolder(f) \/ UnreadFolder(f)
    \/ \E why \in {"told", "late"} : Stop(why)
    \/ \E p \in Path : DetectRow(p)
    \/ ItemStep

JobStep ==
    \/ \E x \in Job, p \in Path : ApplyRelocation(x, p) \/ ApplyDeletion(x, p)
    \/ \E p \in Path : AutoApplyRelocation(p)
    \/ \E x \in Job : AskArrival(x) \/ RemoveCopy(x) \/ RecordRemoval(x) \/ Die(x)

Next == PeopleStep \/ PassStep \/ JobStep

Spec == Init /\ [][Next]_vars

-----------------------------------------------------------------------------
(* Properties.                                                              *)

TypeOK ==
    /\ src \in [Path -> Bytes \cup {Nothing}] /\ bin \in SUBSET Path
    /\ tgt \in [Path -> Object] /\ row \in [Path -> Row] /\ decides \in BOOLEAN
    /\ pass \in Pass /\ job \in [Job -> JobState]
    /\ changes \in Nat /\ faults \in Nat

\* Applying a relocation never takes the last copy: when the old one is removed,
\* there is an object at the path the file moved to, unless the target's owner
\* took that one away (apply-deletion.ts, applyRelocation).
RelocationLeavesCopy ==
    [][\A x \in Job :
         /\ job[x].kind = "relocation" /\ job[x].pc = "remove" /\ job'[x].pc = "record"
         /\ tgt'[job[x].path] # tgt[job[x].path]
         => OnTarget(job[x].to) \/ job[x].lost]_vars

\* Neither a pass nor an apply job changes or removes an object whose bytes are
\* not the ones we left there: it is its owner's.
OwnersCopiesStay ==
    [][changes' = changes => \A p \in Path : OnTarget(p) /\ ~tgt[p].ours => tgt'[p] = tgt[p]]_vars

\* The end of a pass counts no file missing, and pairs none with another, that
\* was at its path all the time the pass ran, however little of it was read.
NotMissedWhileThere ==
    [][\A p \in Path :
         (row'[p].absent > row[p].absent \/ row'[p].moved \notin {row[p].moved, Nothing})
         => ~(There(p) /\ p \in pass.stable)]_vars

\* A file the running pass has seen is neither missing, nor in the bin, nor moved
\* away in the ledger, whatever was said of it before and whoever else writes:
\* no apply that begins now can take its copy (domain-sync.ts, the item loop).
SeenStands ==
    pass.pc # "idle" => \A p \in pass.seen :
        row[p].absent = 0 /\ ~row[p].trashed /\ row[p].moved = Nothing

\* A pass that finished a folder has accounted for every copy of ours whose file
\* was not there all the time it ran: counted absent or recorded as moved.
MissingIsNoticed ==
    [][pass.pc = "moves" /\ pass'.pc = "auto" =>
         \A p \in Path :
            /\ writtenByUs(row[p]) /\ ~row[p].applied
            /\ ~There(p) /\ p \in pass.stable /\ FolderOf[p] \notin pass.unfinished
            => row[p].absent > 0 \/ row[p].moved # Nothing]_vars

\* A copy the operator had removed as a deletion stays removed: no pass makes
\* another (domain-sync.ts, the two kinds of tombstone).
ErasedStaysErased ==
    [][\A h \in pass'.hand \ pass.hand :
         ~(row[h.path].status = "tombstoned" /\ ~row[h.path].kept)]_vars
=============================================================================
