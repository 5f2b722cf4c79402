---------------------------- MODULE DomainSync ----------------------------
(***************************************************************************)
(* One mapping, one data type: the passes of `runDomainSync`               *)
(* (packages/core/src/domain-sync.ts) that copy a source account into a    *)
(* target account, the item ledger (packages/ledger/src/ledger.ts) they    *)
(* write, the cursors they keep, and everything that moves underneath      *)
(* them: the source's owner, the target's owner, the operator, the cutover *)
(* and a worker that may die between any two awaits.                       *)
(*                                                                         *)
(* Time at the source is one counter: every change there takes the next    *)
(* stamp, an item's version is the stamp of its last change, and a cursor  *)
(* is the stamp up to which a collection has been listed.  An ETag of the  *)
(* target changes when, and only when, the object does, so the recorded    *)
(* target version is the version of the bytes we left there, and it still  *)
(* matches exactly while the copy is ours with that content.               *)
(***************************************************************************)
EXTENDS Naturals, FiniteSets

CONSTANTS
    Key,             \* natural keys of the items
    Collection,      \* source collections; each has its collection at the target
    Nowhere,         \* the place of an item that is in no collection
    Unkeyed,         \* keys the listing cannot give: known once the bytes are read
    Legacy,          \* keys copied before the ledger kept versions and handles
    ServerTags,      \* BOOLEAN: the target answers a PUT with a strong ETag
    MaxAttempts,     \* MAX_ITEM_ATTEMPTS
    OperatorActs,    \* "never", "between passes" or "any time"
    MaxClock,        \* bound: changes at the source
    MaxFaults,       \* bound: crashes, stops, refusals and lost answers
    MaxCutovers      \* bound: executes and rollbacks

ASSUME SyncConstants ==
    /\ IsFiniteSet(Key) /\ IsFiniteSet(Collection)
    /\ Nowhere \notin Collection
    /\ Unkeyed \subseteq Key /\ Legacy \subseteq Key
    /\ ServerTags \in BOOLEAN
    /\ OperatorActs \in {"never", "between passes", "any time"}
    /\ MaxAttempts \in Nat \ {0}
    /\ MaxClock \in Nat /\ MaxFaults \in Nat /\ MaxCutovers \in Nat

NoVersion == 0   \* a source that reports no version; an absent target version
NoCursor == 0    \* stamps of changes start at 1
NoRef == <<>>    \* a row that carries no source handle

VARIABLES
    clock,     \* stamp of the latest change at the source
    at,        \* at[k]: the collection that holds item k, or Nowhere
    ver,       \* ver[k]: stamp of k's last change
    href,      \* href[k]: the source's handle of the current object of k
    dead,      \* the removals the source's change feed can still report
    copy,      \* copy[k][c]: what the target's collection c holds under k
    row,       \* row[k]: the ledger's row of k
    cursor,    \* cursor[c]: the saved position in c
    phase,     \* cutovers and rollbacks so far: even, the source is authority
    faults,    \* faults spent
    pass,      \* the pass in progress
    work       \* work[k]: how far the pass is with the listed item k

sourceVars == <<clock, at, ver, href, dead>>
vars == <<clock, at, ver, href, dead, copy, row, cursor, phase, faults, pass, work>>

Statuses == {"none", "copied", "updated", "adopted", "failed", "left_behind", "tombstoned"}

Ref == {NoRef} \cup (Key \X Nat)
Removal == [ref : Ref, coll : Collection, stamp : Nat]
Copy == [by : {"none", "us", "owner"}, ver : Nat]
Row == [status : Statuses, sv : Nat, tv : Nat, coll : Collection \cup {Nowhere}, ref : Ref,
        attempts : Nat, parked : BOOLEAN, reported : BOOLEAN, moved : Collection \cup {Nowhere}]
Work == [st : {"out", "listed", "write", "record"}, ver : Nat, ref : Ref, rewrite : BOOLEAN,
         bytes : Nat, res : {"", "created", "adopted", "updated", "conflicted"}]
Pass == [pc : {"idle", "folders", "items", "resolve"}, todo : SUBSET Collection,
         cur : Collection \cup {Nowhere}, next : Nat, began : Nat, authority : BOOLEAN,
         stores : BOOLEAN, stopped : BOOLEAN, unfinished : SUBSET Collection,
         retryable : BOOLEAN, sawNothing : BOOLEAN, heldHere : BOOLEAN,
         removedHere : BOOLEAN, removals : SUBSET Removal, seen : SUBSET Key,
         held : [Collection -> Nat]]

NoCopy == [by |-> "none", ver |-> 0]
NoRow == [status |-> "none", sv |-> NoVersion, tv |-> NoVersion, coll |-> Nowhere, ref |-> NoRef,
          attempts |-> 0, parked |-> FALSE, reported |-> FALSE, moved |-> Nowhere]
Out == [st |-> "out", ver |-> NoVersion, ref |-> NoRef, rewrite |-> FALSE, bytes |-> 0, res |-> ""]
Idle == [pc |-> "idle", todo |-> {}, cur |-> Nowhere, next |-> 0, began |-> 0,
         authority |-> FALSE, stores |-> FALSE, stopped |-> FALSE, unfinished |-> {},
         retryable |-> FALSE, sawNothing |-> FALSE, heldHere |-> FALSE, removedHere |-> FALSE,
         removals |-> {}, seen |-> {}, held |-> [c \in Collection |-> NoCursor]]
Unlisted == [k \in Key |-> Out]

-----------------------------------------------------------------------------
(* The source and its owner.  `dead` is what the collection's change feed   *)
(* reports as removed: a move takes a new handle in the new collection and  *)
(* the old handle dies.                                                     *)

isAuthority == phase % 2 = 0

Die(k) == dead \cup {[ref |-> href[k], coll |-> at[k], stamp |-> clock + 1]}

SourceCreate(k, c) ==
    /\ clock < MaxClock /\ at[k] = Nowhere
    /\ clock' = clock + 1
    /\ at' = [at EXCEPT ![k] = c]
    /\ ver' = [ver EXCEPT ![k] = clock + 1]
    /\ href' = [href EXCEPT ![k] = <<k, clock + 1>>]
    /\ UNCHANGED <<dead, copy, row, cursor, phase, faults, pass, work>>

SourceEdit(k) ==
    /\ clock < MaxClock /\ at[k] # Nowhere /\ k \notin Unkeyed
    /\ clock' = clock + 1
    /\ ver' = [ver EXCEPT ![k] = clock + 1]
    /\ UNCHANGED <<at, href, dead, copy, row, cursor, phase, faults, pass, work>>

SourceMove(k, c) ==
    /\ clock < MaxClock /\ at[k] # Nowhere /\ at[k] # c
    /\ clock' = clock + 1
    /\ dead' = Die(k)
    /\ at' = [at EXCEPT ![k] = c]
    /\ ver' = [ver EXCEPT ![k] = clock + 1]
    /\ href' = [href EXCEPT ![k] = <<k, clock + 1>>]
    /\ UNCHANGED <<copy, row, cursor, phase, faults, pass, work>>

SourceRemove(k) ==
    /\ clock < MaxClock /\ at[k] # Nowhere
    /\ clock' = clock + 1
    /\ dead' = Die(k)
    /\ at' = [at EXCEPT ![k] = Nowhere]
    /\ ver' = [ver EXCEPT ![k] = clock + 1]
    /\ UNCHANGED <<href, copy, row, cursor, phase, faults, pass, work>>

-----------------------------------------------------------------------------
(* The target's owner works in the new system before cutover: creates an    *)
(* object under a key, edits the copy, or removes it.                       *)

OwnerWrite(k, c) ==
    /\ copy' = [copy EXCEPT ![k][c] = [by |-> "owner", ver |-> 0]]
    /\ copy' # copy
    /\ UNCHANGED <<sourceVars, row, cursor, phase, faults, pass, work>>

OwnerRemove(k, c) ==
    /\ copy[k][c] # NoCopy
    /\ copy' = [copy EXCEPT ![k][c] = NoCopy]
    /\ UNCHANGED <<sourceVars, row, cursor, phase, faults, pass, work>>

-----------------------------------------------------------------------------
(* The cutover: execute hands the authority to the target, a rollback gives *)
(* it back.  Neither waits for a pass that is running.                      *)

ExecuteCutover ==
    /\ phase < MaxCutovers /\ isAuthority
    /\ phase' = phase + 1
    /\ UNCHANGED <<sourceVars, copy, row, cursor, faults, pass, work>>

RollBackCutover ==
    /\ phase < MaxCutovers /\ ~isAuthority
    /\ phase' = phase + 1
    /\ UNCHANGED <<sourceVars, copy, row, cursor, faults, pass, work>>

-----------------------------------------------------------------------------
(* The operator's answers to a failed item.                                 *)

clearCursors == [c \in Collection |-> NoCursor]

operatorMay == \/ OperatorActs = "any time"
               \/ OperatorActs = "between passes" /\ pass.pc = "idle"

\* `retry` gives the attempts back and drops every cursor of the mapping, so
\* that the next pass lists in full.
RetryFailure(k) ==
    /\ operatorMay /\ row[k].status = "failed"
    /\ row' = [row EXCEPT ![k].attempts = 0, ![k].parked = FALSE]
    /\ cursor' = clearCursors
    /\ UNCHANGED <<sourceVars, copy, phase, faults, pass, work>>

AcceptFailure(k) ==
    /\ operatorMay /\ row[k].status = "failed"
    /\ row' = [row EXCEPT ![k].status = "left_behind"]
    /\ UNCHANGED <<sourceVars, copy, cursor, phase, faults, pass, work>>

-----------------------------------------------------------------------------
(* A pass.  One at a time per mapping: the delta-sync queue runs one job    *)
(* per mapping, and the appliance's scheduler coalesces by key.             *)

Fault == faults < MaxFaults /\ faults' = faults + 1

isOnTarget(r) == r.status \in {"copied", "updated", "adopted"}
needsDecision(r) == r.status = "failed" /\ (r.parked \/ r.attempts >= MaxAttempts)

\* Mutants: a failure waits for a person at once; an item is rewritten once
\* only, or never.
failedItemIsAsked(r) == "needs-decision"
presentItemOnce(r, v) == IF r.status = "copied" /\ r.sv # v THEN "rewrite" ELSE "skip"
presentItemNever(r, v) == IF r.sv = NoVersion THEN "record-version" ELSE "skip"

\* What a pass does with an item the ledger knows, in the code's order.
failedItem(r) == IF needsDecision(r) THEN "needs-decision" ELSE "retry-failed"

presentItem(r, v) ==
    IF v = NoVersion \/ r.sv = v THEN "skip"
    ELSE IF r.sv = NoVersion THEN "record-version"
    ELSE IF r.status = "adopted" THEN "leave-adopted"
    ELSE "rewrite"

\* Mutant: an answer is not one of the reasons to pass an item over.
classifyUnanswered(r, v, c) ==
    CASE r.status = "tombstoned" -> "tombstoned"
      [] r.status = "failed" -> failedItem(r)
      [] isOnTarget(r) -> IF r.coll \in {Nowhere, c} THEN presentItem(r, v) ELSE "moved"
      [] OTHER -> "create"

classifyKnownItem(r, v, c) ==
    CASE r.status = "left_behind" -> "left-behind"
      [] r.status = "tombstoned" -> "tombstoned"
      [] r.status = "failed" -> failedItem(r)
      [] isOnTarget(r) -> IF r.coll \in {Nowhere, c} THEN presentItem(r, v) ELSE "moved"
      [] OTHER -> "create"

Version(k) == IF k \in Unkeyed THEN NoVersion ELSE ver[k]

\* A pass given no cursors (a full scan) neither reads nor saves a position.
StartPass ==
    /\ pass.pc = "idle"
    /\ \E full \in BOOLEAN :
          pass' = [Idle EXCEPT !.pc = "folders", !.todo = Collection, !.began = clock,
                               !.authority = isAuthority, !.stores = ~full]
    /\ UNCHANGED <<sourceVars, copy, row, cursor, phase, faults, work>>

prevCursor(c) == IF pass.stores THEN cursor[c] ELSE NoCursor

\* A listing since a cursor names what changed and what was removed after it;
\* a first listing names what is there and no removal.
listSince(c) == {k \in Key : at[k] = c /\ ver[k] > prevCursor(c)}
removedSince(c) ==
    {d \in dead : d.coll = c /\ prevCursor(c) # NoCursor /\ d.stamp > prevCursor(c)}

Open(c, items, removed) ==
    /\ pass.pc = "folders" /\ c \in pass.todo /\ ~pass.stopped
    /\ pass' = [pass EXCEPT
          !.pc = "items", !.todo = @ \ {c}, !.cur = c, !.next = clock, !.heldHere = FALSE,
          !.sawNothing = prevCursor(c) = NoCursor /\ items = {} /\ removed = {},
          !.removedHere = pass.authority /\ removed # {},
          !.removals = IF pass.authority THEN @ \cup removed ELSE @]
    /\ work' = [k \in Key |-> IF k \in items
                              THEN [Out EXCEPT !.st = "listed", !.ver = Version(k), !.ref = href[k]]
                              ELSE Out]
    /\ UNCHANGED <<sourceVars, copy, row, cursor, phase>>

OpenFolder(c) == Open(c, listSince(c), removedSince(c)) /\ UNCHANGED faults

\* A first read that failed to see what is there, and says so by an empty list.
OpenUnseeing(c) == prevCursor(c) = NoCursor /\ Open(c, {}, {}) /\ Fault

\* Told to stop, past the deadline, or out of download budget: the pass takes
\* no new work.
Stop ==
    /\ pass.pc \in {"folders", "items"} /\ ~pass.stopped /\ Fault
    /\ pass' = [pass EXCEPT !.stopped = TRUE]
    /\ UNCHANGED <<sourceVars, copy, row, cursor, phase, work>>

SkipFolder(c) ==
    /\ pass.pc = "folders" /\ c \in pass.todo /\ pass.stopped
    /\ pass' = [pass EXCEPT !.todo = @ \ {c}, !.unfinished = @ \cup {c}]
    /\ UNCHANGED <<sourceVars, copy, row, cursor, phase, faults, work>>

\* The listing failed: the collection waits for the next pass.
UnreadFolder(c) ==
    /\ pass.pc = "folders" /\ c \in pass.todo /\ ~pass.stopped /\ Fault
    /\ pass' = [pass EXCEPT !.todo = @ \ {c}, !.unfinished = @ \cup {c}]
    /\ UNCHANGED <<sourceVars, copy, row, cursor, phase, work>>

-----------------------------------------------------------------------------
(* The items of one collection, in any order and concurrently: `work` moves *)
(* each from listed, through the decision (and the fetch, which commutes    *)
(* with it), the target write and the ledger write, to out.                 *)

At(k, st) == pass.pc = "items" /\ work[k].st = st

SkipItem(k) ==
    /\ At(k, "listed") /\ pass.stopped
    /\ pass' = [pass EXCEPT !.unfinished = @ \cup {pass.cur}]
    /\ work' = [work EXCEPT ![k] = Out]
    /\ UNCHANGED <<sourceVars, copy, row, cursor, phase, faults>>

\* The ledger's writes about where an item is, and whether it is.
clearAbsent(r) == [r EXCEPT !.reported = FALSE]
recordReportedDeletion(r) == [r EXCEPT !.reported = TRUE]
recordMove(r, c) == [r EXCEPT !.moved = c]
clearMove(r) == [r EXCEPT !.moved = Nowhere]

\* Mutant: the version just listed is recorded before it is carried over.
LookedRecordsAhead(r, act, v, c) ==
    [r EXCEPT !.reported = FALSE, !.moved = IF act = "moved" THEN c ELSE Nowhere,
              !.sv = IF act = "rewrite" THEN v ELSE @]

\* What the loop writes on a known row before it branches or as its branch:
\* an item seen alive takes back its deletion report, a move is recorded, a
\* settled location clears one, a first version is filled in.
Looked(r, act, v, c) ==
    CASE act = "moved" -> recordMove(clearAbsent(r), c)
      [] act = "record-version" -> [clearMove(clearAbsent(r)) EXCEPT !.sv = v]
      [] OTHER -> clearMove(clearAbsent(r))

\* The bytes the fetch by handle returns: none once that object is gone.
Fetched(k) == IF at[k] = pass.cur /\ href[k] = work[k].ref THEN ver[k] ELSE 0

\* Mutant: a rewrite does not ask who the authority is.
writesAlways(act, authority) == act \in {"create", "retry-failed", "rewrite"}

\* After cutover a change at the old system overwrites nothing.
writes(act, authority) == act \in {"create", "retry-failed"} \/ (act = "rewrite" /\ authority)

LookItem(k) ==
    /\ At(k, "listed") /\ ~pass.stopped
    /\ LET act == classifyKnownItem(row[k], work[k].ver, pass.cur)
       IN /\ row' = IF k \in Unkeyed \/ act = "create" THEN row
                    ELSE [row EXCEPT ![k] = Looked(@, act, work[k].ver, pass.cur)]
          /\ work' = [work EXCEPT ![k] = IF writes(act, pass.authority)
                         THEN [@ EXCEPT !.st = "write", !.rewrite = (act = "rewrite"),
                                        !.bytes = Fetched(k)]
                         ELSE Out]
    /\ pass' = [pass EXCEPT !.seen = @ \cup {k}]
    /\ UNCHANGED <<sourceVars, copy, cursor, phase, faults>>

\* An item keyed by its bytes whose fetch fails has no key to record a failure
\* under: no row is written and nothing joins the pass's list of failures.
FailUnkeyed(k) ==
    /\ At(k, "listed") /\ ~pass.stopped /\ k \in Unkeyed /\ Fault
    /\ work' = [work EXCEPT ![k] = Out]
    /\ UNCHANGED <<sourceVars, copy, row, cursor, phase, pass>>

\* The data ceiling holds a first copy; the download meter, read before the fetch,
\* any copy, and the pass then stops: no row, no failure, no cursor.
HoldItem(k) ==
    /\ At(k, "write") /\ Fault
    /\ \/ ~work[k].rewrite /\ pass' = [pass EXCEPT !.heldHere = TRUE]
       \/ pass' = [pass EXCEPT !.stopped = TRUE]
    /\ work' = [work EXCEPT ![k] = Out]
    /\ UNCHANGED <<sourceVars, copy, row, cursor, phase>>

\* Mutant: the attempts left are counted down, from a row that starts at none.
recordFailureCountsDown(r, park, ref, c) ==
    [r EXCEPT !.status = "failed", !.attempts = @ - 1, !.parked = IF park THEN TRUE ELSE @,
              !.coll = c, !.ref = ref]

\* recordFailure: the attempt is counted, and the row keeps what describes the
\* target.  `park` is a failure only a person can resolve.
recordFailure(r, park, ref, c) ==
    [r EXCEPT !.status = "failed", !.attempts = @ + 1, !.parked = IF park THEN TRUE ELSE @,
              !.coll = c, !.ref = ref]

Failed(k, park) ==
    LET r == recordFailure(row[k], park, work[k].ref, pass.cur) IN
    /\ row' = [row EXCEPT ![k] = r]
    /\ pass' = [pass EXCEPT !.retryable = @ \/ ~needsDecision(r)]
    /\ work' = [work EXCEPT ![k] = Out]
    /\ UNCHANGED <<sourceVars, cursor, phase>>

\* The fetch failed, or the target refused the write.
FailItem(k, park) ==
    /\ At(k, "write") /\ work[k].bytes # 0 /\ Fault
    /\ Failed(k, park)
    /\ UNCHANGED copy

\* The object was edited away, moved or removed between listing and fetch.
VanishItem(k) ==
    /\ At(k, "write") /\ work[k].bytes = 0
    /\ Failed(k, FALSE)
    /\ UNCHANGED <<copy, faults>>

\* Mutant: a rewrite is a plain PUT, without If-Match.
UpsertBlindly(c, r, rewrite, bytes) ==
    LET ours == [by |-> "us", ver |-> bytes] IN
    IF ~rewrite /\ c # NoCopy THEN [copy |-> c, res |-> "adopted"]
    ELSE [copy |-> ours, res |-> IF rewrite THEN "updated" ELSE "created"]

\* What the writer does with the target's object, and what it answers.  A
\* rewrite carries the recorded version as If-Match, when there is one; any
\* other write creates, and adopts what the target already holds.
Upsert(c, r, rewrite, bytes) ==
    LET ours == [by |-> "us", ver |-> bytes] IN
    IF rewrite
    THEN IF r.tv # NoVersion /\ c # [by |-> "us", ver |-> r.tv]
         THEN [copy |-> c, res |-> "conflicted"]
         ELSE [copy |-> ours, res |-> "updated"]
    ELSE IF c # NoCopy THEN [copy |-> c, res |-> "adopted"]
                       ELSE [copy |-> ours, res |-> "created"]

Put(k) == Upsert(copy[k][pass.cur], row[k], work[k].rewrite, work[k].bytes)

PutItem(k) ==
    /\ At(k, "write") /\ work[k].bytes # 0
    /\ copy' = [copy EXCEPT ![k][pass.cur] = Put(k).copy]
    /\ work' = [work EXCEPT ![k].st = "record", ![k].res = Put(k).res]
    /\ UNCHANGED <<sourceVars, row, cursor, phase, faults, pass>>

\* The write landed but its answer was a gateway's 5xx: the writer sends it
\* again, and the second attempt meets the object the first one left.
PutItemTwice(k) ==
    /\ At(k, "write") /\ work[k].bytes # 0 /\ Fault
    /\ copy' = [copy EXCEPT ![k][pass.cur] = Put(k).copy]
    /\ work' = [work EXCEPT ![k].st = "record",
                            ![k].res = Upsert(Put(k).copy, row[k], work[k].rewrite, work[k].bytes).res]
    /\ UNCHANGED <<sourceVars, row, cursor, phase, pass>>

\* The write landed and the connection died: the item is recorded as failed.
PutItemLost(k) ==
    /\ At(k, "write") /\ work[k].bytes # 0 /\ Fault
    /\ copy' = [copy EXCEPT ![k][pass.cur] = Put(k).copy]
    /\ Failed(k, FALSE)

\* Mutant: what is recorded is the object as adopted, whoever wrote it.
RecordedAsOurs(r, w, c) ==
    [r EXCEPT !.status = IF w.rewrite THEN "updated" ELSE "copied", !.sv = w.ver, !.coll = c,
              !.ref = w.ref, !.tv = IF ServerTags THEN w.bytes ELSE @]

\* recordIfAbsent for an item without a row, recordUpdate for one with.
Recorded(r, w, c) ==
    IF w.res = "conflicted" THEN [r EXCEPT !.status = "adopted"]
    ELSE [r EXCEPT !.status = CASE w.res = "created" -> "copied"
                                [] w.res = "adopted" -> "adopted"
                                [] OTHER -> "updated",
                   !.sv = w.ver, !.coll = c, !.ref = w.ref,
                   !.tv = IF ServerTags /\ w.res \in {"created", "updated"} THEN w.bytes ELSE @]

RecordItem(k) ==
    /\ At(k, "record")
    /\ row' = [row EXCEPT ![k] = Recorded(@, work[k], pass.cur)]
    /\ work' = [work EXCEPT ![k] = Out]
    /\ UNCHANGED <<sourceVars, copy, cursor, phase, faults, pass>>

-----------------------------------------------------------------------------
(* The end of a collection, and of the pass.                                *)

\* Mutants: a cursor that moves past a retryable failure, past what a stop left
\* for later.
mayMovePastRetry(p) == p.stores /\ ~p.stopped /\ ~p.sawNothing /\ ~p.heldHere
mayMovePastStop(p) == p.stores /\ ~p.retryable /\ ~p.sawNothing /\ ~p.heldHere

\* The cursor moves only past what needs no further listing: nothing still to
\* be retried, nothing left for later, and not on the strength of a first read
\* that saw nothing.
mayMoveCursor(p) ==
    p.stores /\ ~p.retryable /\ ~p.stopped /\ ~p.sawNothing /\ ~p.heldHere

setCursor(c, position) == [cursor EXCEPT ![c] = position]

\* Mutant: the cursor is saved before the removals behind it are recorded.
CloseFolderAtOnce ==
    /\ pass.pc = "items" /\ work = Unlisted
    /\ cursor' = IF mayMoveCursor(pass) THEN [cursor EXCEPT ![pass.cur] = pass.next] ELSE cursor
    /\ pass' = [pass EXCEPT !.pc = "folders", !.cur = Nowhere, !.next = 0, !.sawNothing = FALSE,
                            !.heldHere = FALSE, !.removedHere = FALSE]
    /\ UNCHANGED <<sourceVars, copy, row, phase, faults, work>>

CloseFolder ==
    /\ pass.pc = "items" /\ work = Unlisted
    /\ cursor' = IF mayMoveCursor(pass) /\ ~pass.removedHere
                 THEN setCursor(pass.cur, pass.next) ELSE cursor
    /\ pass' = [pass EXCEPT
          !.pc = "folders", !.cur = Nowhere, !.next = 0, !.sawNothing = FALSE,
          !.heldHere = FALSE, !.removedHere = FALSE,
          !.held = IF mayMoveCursor(pass) /\ pass.removedHere
                   THEN [@ EXCEPT ![pass.cur] = pass.next] ELSE @]
    /\ UNCHANGED <<sourceVars, copy, row, phase, faults, work>>

\* Mutant: an unfinished pass drops its removals and still saves its cursors.
ConcludePassAnyway ==
    /\ pass.pc = "folders" /\ pass.todo = {}
    /\ pass' = [pass EXCEPT !.pc = "resolve",
                   !.removals = IF pass.unfinished = {} /\ isAuthority THEN @ ELSE {}]
    /\ UNCHANGED <<sourceVars, copy, row, cursor, phase, faults, work>>

\* Every collection is behind the pass: is the source still the authority, and
\* did the pass reach them all?
ConcludePass ==
    /\ pass.pc = "folders" /\ pass.todo = {}
    /\ pass' = IF pass.unfinished = {}
               THEN [pass EXCEPT !.pc = "resolve",
                                 !.removals = IF pass.authority /\ isAuthority THEN @ ELSE {}]
               ELSE Idle
    /\ UNCHANGED <<sourceVars, copy, row, cursor, phase, faults, work>>

\* Mutant: the pass does not ask whether it has just seen the item.
resolvesUnseen(r, d, seenHere) == r.ref = d.ref /\ isOnTarget(r)

resolves(r, d, seenHere) == r.ref = d.ref /\ isOnTarget(r) /\ ~seenHere

ResolveRemoval(d) ==
    /\ pass.pc = "resolve" /\ d \in pass.removals
    /\ row' = [k \in Key |-> IF resolves(row[k], d, k \in pass.seen)
                             THEN recordReportedDeletion(row[k]) ELSE row[k]]
    /\ pass' = [pass EXCEPT !.removals = @ \ {d}]
    /\ UNCHANGED <<sourceVars, copy, cursor, phase, faults, work>>

SaveHeldCursor(c) ==
    /\ pass.pc = "resolve" /\ pass.removals = {} /\ pass.held[c] # NoCursor
    /\ cursor' = setCursor(c, pass.held[c])
    /\ pass' = [pass EXCEPT !.held[c] = NoCursor]
    /\ UNCHANGED <<sourceVars, copy, row, phase, faults, work>>

EndPass ==
    /\ pass.pc = "resolve" /\ pass.removals = {} /\ \A c \in Collection : pass.held[c] = NoCursor
    /\ pass' = Idle
    /\ UNCHANGED <<sourceVars, copy, row, cursor, phase, faults, work>>

\* The worker dies, or the pass throws: a listing that ends it at once, too
\* many failures in a row, a collision under onCollision 'fail'.
AbandonPass ==
    /\ pass.pc # "idle" /\ Fault
    /\ pass' = Idle /\ work' = Unlisted
    /\ UNCHANGED <<sourceVars, copy, row, cursor, phase>>

-----------------------------------------------------------------------------
\* The mapping may have been copied before the ledger kept versions and handles.
Init ==
    /\ clock = 1
    /\ \E c \in Collection, old \in SUBSET Legacy :
          /\ at = [k \in Key |-> IF k \in old THEN c ELSE Nowhere]
          /\ ver = [k \in Key |-> IF k \in old THEN 1 ELSE 0]
          /\ href = [k \in Key |-> IF k \in old THEN <<k, 1>> ELSE NoRef]
          /\ copy = [k \in Key |-> [d \in Collection |->
                        IF k \in old /\ d = c THEN [by |-> "us", ver |-> 1] ELSE NoCopy]]
          /\ row = [k \in Key |-> IF k \in old
                                  THEN [NoRow EXCEPT !.status = "copied", !.coll = c] ELSE NoRow]
    /\ dead = {}
    /\ cursor = [c \in Collection |-> NoCursor]
    /\ phase = 0 /\ faults = 0
    /\ pass = Idle /\ work = Unlisted

Source == \E k \in Key :
    \/ SourceEdit(k) \/ SourceRemove(k)
    \/ \E c \in Collection : SourceCreate(k, c) \/ SourceMove(k, c)

Owner == \E k \in Key, c \in Collection : OwnerWrite(k, c) \/ OwnerRemove(k, c)

Operator ==
    \/ ExecuteCutover \/ RollBackCutover
    \/ \E k \in Key : RetryFailure(k) \/ AcceptFailure(k)

Folders ==
    \/ StartPass \/ CloseFolder \/ ConcludePass \/ EndPass
    \/ \E c \in Collection : OpenFolder(c) \/ SkipFolder(c) \/ SaveHeldCursor(c)
    \/ \E d \in pass.removals : ResolveRemoval(d)

Items == \E k \in Key :
    \/ SkipItem(k) \/ LookItem(k) \/ VanishItem(k) \/ PutItem(k) \/ RecordItem(k)

Faults ==
    \/ Stop \/ AbandonPass
    \/ \E c \in Collection : OpenUnseeing(c) \/ UnreadFolder(c)
    \/ \E k \in Key :
          \/ FailUnkeyed(k) \/ HoldItem(k) \/ PutItemTwice(k) \/ PutItemLost(k)
          \/ \E park \in BOOLEAN : FailItem(k, park)

Next == Source \/ Owner \/ Operator \/ Folders \/ Items \/ Faults

Spec == Init /\ [][Next]_vars

\* The scheduler starts a pass again whenever none runs, and a pass that runs
\* keeps taking its next step; the faults that end or stop one are finitely many.
FairSpec == Spec /\ WF_vars(Folders \/ Items)

-----------------------------------------------------------------------------
(* Properties                                                               *)

TypeOK ==
    /\ clock \in Nat
    /\ at \in [Key -> Collection \cup {Nowhere}]
    /\ ver \in [Key -> Nat]
    /\ href \in [Key -> Ref]
    /\ dead \subseteq Removal
    /\ copy \in [Key -> [Collection -> Copy]]
    /\ row \in [Key -> Row]
    /\ cursor \in [Collection -> Nat]
    /\ phase \in Nat /\ faults \in Nat
    /\ pass \in Pass /\ (pass.pc = "items" => pass.cur \in Collection)
    /\ work \in [Key -> Work]

settled(r) == isOnTarget(r) \/ r.status \in {"left_behind", "tombstoned"} \/ needsDecision(r)

\* A saved cursor says "do not show me these again".  So every item of a
\* collection that a listing since its cursor would leave out is one the
\* ledger has settled: copied, removed on purpose, left behind, or waiting for
\* a person.  None is merely failed, and none is unknown.
CursorRetiresNothing ==
    \A k \in Key : at[k] # Nowhere /\ ver[k] <= cursor[at[k]] => settled(row[k])

\* A saved cursor retires no edit either: an item we copied and may rewrite,
\* still where it was copied from, is recorded at the version the cursor has
\* passed.
CursorRetiresNoEdit ==
    \A k \in Key :
        (/\ at[k] # Nowhere /\ ver[k] <= cursor[at[k]]
         /\ row[k].status \in {"copied", "updated"} /\ row[k].coll = at[k] /\ k \notin Unkeyed)
        => row[k].sv = ver[k]

\* Why: the inductive invariant behind the two.  What a cursor retires, saved or
\* held, is carried over; an item in hand is as listed or has changed since; one
\* being written is behind no cursor; and one the pass is done with, in a
\* collection whose cursor it may still move, is carried over.
Retired(k, position) == at[k] # Nowhere /\ ver[k] <= position[at[k]]

Carried(k) ==
    /\ settled(row[k])
    /\ row[k].status \in {"copied", "updated"} /\ row[k].coll = at[k] => row[k].sv = ver[k]

StampsInv ==
    /\ pass.next <= clock
    /\ \A k \in Key : ver[k] <= clock /\ (at[k] # Nowhere => ver[k] > 0)
    /\ \A c \in Collection : cursor[c] <= clock /\ pass.held[c] <= clock

PassInv ==
    /\ phase = 0
    /\ pass.pc # "idle" => pass.authority
    /\ pass.pc = "idle" => \A c \in Collection : pass.held[c] = NoCursor
    /\ pass.pc = "items" => \A c \in Collection : cursor[c] <= pass.next /\ pass.held[c] <= pass.next

RetiredInv ==
    \A k \in Key :
        /\ row[k].status \in {"copied", "updated"} => row[k].coll \in Collection
        /\ Retired(k, cursor) \/ Retired(k, pass.held) => Carried(k)

WorkInv ==
    \A k \in Key :
        /\ work[k].st # "out" =>
              /\ pass.pc = "items"
              /\ (at[k] = pass.cur /\ ver[k] = work[k].ver) \/ ver[k] > pass.next
        /\ work[k].st \in {"write", "record"} => ~Retired(k, cursor) /\ ~Retired(k, pass.held)

DoneInv ==
    pass.pc = "items" /\ mayMoveCursor(pass) =>
        \A k \in Key :
            at[k] = pass.cur /\ ver[k] <= pass.next /\ work[k].st = "out" => Carried(k)

CursorInv == StampsInv /\ PassInv /\ RetiredInv /\ WorkInv /\ DoneInv

\* Whatever the interleaving of the pass and the target's owner, the pass
\* replaces an object the owner wrote or edited only where the ledger holds no
\* target version to check it against (ownershipOf's "both unknowns proceed").
OwnerBytesSurvive ==
    [][\A k \in Key, c \in Collection :
          copy[k][c].by = "owner" /\ copy'[k][c].by = "us" => row[k].tv = NoVersion]_vars

\* The ledger never claims more than the target holds: while the copy behind a
\* `copied` or `updated` row is ours, its bytes are at least as new as the
\* version the row records, and the recorded target version is of bytes we
\* wrote.  A crash between the two writes may leave the row behind, not ahead.
\* (A row without a target version took its first source version on trust.)
LedgerNeverAhead ==
    \A k \in Key, c \in Collection :
        (/\ row[k].status \in {"copied", "updated"} /\ row[k].coll = c /\ row[k].tv # NoVersion
         /\ copy[k][c].by = "us")
        => row[k].sv <= copy[k][c].ver /\ row[k].tv <= copy[k][c].ver

\* A pass records a reported deletion only of an item that is no longer in the
\* collection its row names, or changed while the pass ran: never of one that has
\* been alive and still, where it was copied from, since before the pass began.
LiveItemNotReported ==
    [][\A k \in Key :
          ~row[k].reported /\ row'[k].reported => at[k] # row[k].coll \/ ver[k] > pass.began]_vars

\* A cursor that moves on from a saved position skips no removal: where it
\* passes the removal of the object a row on the target names, and the item
\* has not come back, the row carries the report.  A crash, a stop or an unread
\* collection in between makes the next pass read the removal again.
RemovalNotSkipped ==
    [][\A d \in dead, k \in Key :
          (/\ cursor[d.coll] # NoCursor /\ cursor[d.coll] < d.stamp /\ d.stamp <= cursor'[d.coll]
           /\ d.ref = row[k].ref /\ isOnTarget(row[k]) /\ at[k] = Nowhere /\ ver[k] = d.stamp)
          => row'[k].reported]_vars

\* "Left behind for good": no pass puts an item its owner accepted as left
\* behind back among the failures.
AnswerStands ==
    [][\A k \in Key : row[k].status = "left_behind" => row'[k].status # "failed"]_vars

\* A pass that began after the cutover only adds: it replaces no object at the
\* target and records no deletion, whatever was listed, and even where the
\* cutover is rolled back before it ends.
LatePassOnlyAdds ==
    [][~pass.authority =>
          \A k \in Key :
             /\ row'[k].reported => row[k].reported
             /\ \A c \in Collection : copy'[k][c].by = "us" => copy[k][c] \in {NoCopy, copy'[k][c]}]_vars

\* A rewrite that failed is retried rather than recorded as landed: when the
\* row of an item copied before leaves `failed` for a state on the target, our
\* copy there is as new as the version the row now records.
FailedRewriteIsRetried ==
    [][\A k \in Key :
          (/\ row[k].status = "failed" /\ row[k].sv # NoVersion /\ isOnTarget(row'[k])
           /\ copy[k][row'[k].coll].by = "us")
          => row'[k].sv <= copy[k][row'[k].coll].ver]_vars

\* Once the source is still, every item of it is settled: no pass leaves one
\* behind a cursor, in a retry that never comes, or in nobody's queue.
EventuallySettled == \A k \in Key : <>[](at[k] # Nowhere => settled(row[k]))

\* And every edit of an item that stayed ours and in its place has been carried.
EditsLand ==
    \A k \in Key \ Unkeyed :
        <>[](at[k] # Nowhere /\ row[k].status \in {"copied", "updated"} /\ row[k].coll = at[k]
             => row[k].sv = ver[k])
=============================================================================
