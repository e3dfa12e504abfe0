------------------------------ MODULE AtomicFile ------------------------------
(***************************************************************************)
(* AtomicFile, src/fixio/io/atomic_file.fix: transactions on a file that   *)
(* several processes open, with a rollback log behind the data.            *)
(*                                                                         *)
(* A call of the class first decides what to do to the file (its plan) and *)
(* then does it, one operation of FileImage at a time; the process or the  *)
(* machine may crash between any two.  A plan may be decided at once       *)
(* because its process holds the lock of the file alone.                   *)
(*                                                                         *)
(* Abstracted: what lies inside a page (a write replaces whole pages), the *)
(* change of the page size, reads (they change nothing), the cache         *)
(* handlers and the objects registered with set_on_rollback, except the    *)
(* length of the file, which the class itself restores in that way; the    *)
(* count of nested read transactions.                                      *)
(***************************************************************************)
EXTENDS FileImage

CONSTANTS
    Process,        \* the processes that use the file
    Writer,         \* the ones that write
    InitialContent, \* the pages of the file at the start
    Writes,         \* <<first, last, value>>: the page ranges that are written
    Sizes,          \* the sizes given to set_length
    MaxCalls,       \* bound: calls made inside write transactions
    MaxDepth,       \* bound: nested transactions
    MaxCrashes,     \* bound: crashes
    LongerAllowed   \* whether a crash may leave a file longer than the last commit did

ASSUME AtomicFileAssumption ==
    /\ Writer \subseteq Process
    /\ InitialContent \in Seq(Values) /\ Len(InitialContent) \in 1 .. LastPage
    /\ Writes \subseteq (1 .. LastPage) \X (1 .. LastPage) \X Values
    /\ Sizes \subseteq 1 .. LastPage
    /\ LongerAllowed \in BOOLEAN

VARIABLES
    file,           \* the file as the processes see it
    images,         \* the files that a crash of the machine may leave on the disk
    lock,           \* the lock each process holds on the file
    phase,          \* where each process is in the class
    plan,           \* what the call it is in has yet to do to the file
    txn,            \* the fields of the AtomicFile of the process in a write transaction
    corrupted,      \* history: "corrupted file" was thrown
    possible,       \* history: the contents that the commits and crashes so far allow
    working,        \* history: what the open transactions wrote
    calls, crashes  \* counters for the bounds

ghosts == <<possible, working>>
vars == <<file, images, lock, phase, plan, txn, corrupted, possible, working, calls, crashes>>

(* The innermost RollbackBuffer is the last: where its records start in    *)
(* the log, the sizes it would restore, and the pages it has saved.        *)
Buffer(start) == [start |-> start, undo |-> <<>>, dirty |-> {}]
NoTxn == [size |-> 0, state |-> CLEAN, offset |-> 0, hole |-> 0, buffers |-> <<>>]

Init ==
    /\ file = [state |-> CLEAN, size |-> 0, offset |-> [s \in Slots |-> 0],
               length |-> <<Len(InitialContent), 0>>,
               data |-> [n \in 1 .. LastPage |->
                           IF n <= Len(InitialContent) THEN InitialContent[n] ELSE Zero],
               log |-> <<>>]
    /\ images = {file}
    /\ lock = [p \in Process |-> "none"]
    /\ phase = [p \in Process |-> "idle"]
    /\ plan = [p \in Process |-> <<>>]
    /\ txn = NoTxn
    /\ corrupted = FALSE
    /\ possible = {InitialContent}
    /\ working = <<>>
    /\ calls = 0 /\ crashes = 0

-------------------------------------------------------------------------------
(* The plans. *)

(* apply_rollback, from record number start + 1 of the log at offset o: it *)
(* stops at the first record that is not committed or not there, writes    *)
(* each page once, and throws at a wrong checksum.  Reads are the records  *)
(* it gets to see as committed ones.                                       *)
Reads(f, o, start) ==
    LET log == LogAt(f, o)
    IN  {i \in start + 1 .. Len(log) : \A j \in start + 1 .. i : log[j].committed}

RollbackIsCorrupt(f, o, start) == \E i \in Reads(f, o, start) : ~LogAt(f, o)[i].crc

(* Mutant: a page that was saved twice is written twice. *)
ApplyWholeRollback(f, o, start) ==
    LET log == LogAt(f, o)
        writes[i \in start .. Len(log)] ==
            IF i = start THEN <<>>
            ELSE IF i \in Reads(f, o, start) /\ \A j \in start + 1 .. i : log[j].crc
            THEN Append(writes[i - 1], WritePage(log[i].page, log[i].old))
            ELSE writes[i - 1]
    IN  writes[Len(log)]

ApplyRollback(f, o, start) ==
    LET log == LogAt(f, o)
        writes[i \in start .. Len(log)] ==
            IF i = start THEN <<>>
            ELSE IF /\ i \in Reads(f, o, start)
                    /\ \A j \in start + 1 .. i : log[j].crc
                    /\ \A j \in start + 1 .. i - 1 : log[j].page # log[i].page
            THEN Append(writes[i - 1], WritePage(log[i].page, log[i].old))
            ELSE writes[i - 1]
    IN  writes[Len(log)]

(* Where apply_rollback leaves the offset it was given, which it advances  *)
(* past each record, the one it stops at included.                         *)
ReadUpTo(f, o, start) ==
    LET log == LogAt(f, o)
        stops == {i \in start + 1 .. Len(log) : ~log[i].committed}
    IN  IF stops = {} THEN Len(log) ELSE Min(stops)

Clean == <<SetState(CLEAN), Sync, SetSize(0), SetOffset(USE_FIRST, 0), SetOffset(USE_SECOND, 0), Sync>>

(* init, which brings the file into a clean state.  A log that would start *)
(* at the end of the file or beyond it is taken for a committed            *)
(* transaction, and the length of the file is left alone.                  *)
NoLog(f) == f.offset[f.state] >= Ceil(f.length)

InitIsCorrupt(f) ==
    f.state # CLEAN /\ ~NoLog(f)
    /\ (RollbackIsCorrupt(f, f.offset[f.state], 0) \/ f.size = 0)

InitPlan(f) ==
    IF f.state = CLEAN THEN <<>>
    ELSE IF NoLog(f) THEN <<Sync>> \o Clean
    ELSE IF InitIsCorrupt(f) THEN ApplyRollback(f, f.offset[f.state], 0)
    ELSE ApplyRollback(f, f.offset[f.state], 0) \o <<Sync, SetLength(f.size, 0), Sync>> \o Clean

(* A step of a plan: the fields of the object after it, and the            *)
(* operations.                                                             *)
Step(t, ops) == [txn |-> t, ops |-> ops]
Then(step, next(_, _), f) ==
    LET more == next(step.txn, ApplyAll(f, step.ops)) IN Step(more.txn, step.ops \o more.ops)

(* create_rollback *)
CreateRollback(t, f) ==
    IF t.offset # 0 THEN Step(t, <<>>)
    ELSE LET hole == 2
             offset == t.size + hole
         IN  Step([t EXCEPT !.state = USE_FIRST, !.offset = offset, !.hole = hole],
                  (IF t.state = CLEAN THEN <<SetSize(t.size)>> ELSE <<>>)
                  \o <<SetOffset(USE_FIRST, offset), Sync, SetState(USE_FIRST), Sync, SetLength(offset, 0)>>)

(* move_rollback: the hole doubles until the new log starts behind the old *)
(* one, the records are copied, the header is switched to the copy.        *)
NewHole(t, f) ==
    LET holes[n \in 0 .. Ceil(f.length)] ==
            IF n = 0 THEN 2 * t.hole
            ELSE IF t.size + holes[n - 1] >= Ceil(f.length) THEN holes[n - 1]
            ELSE 2 * holes[n - 1]
    IN  holes[Ceil(f.length)]

MoveRollback(t, f) ==
    LET hole == NewHole(t, f)
        offset == t.size + hole
        records == LogAt(f, t.offset)
        other == IF t.state = USE_FIRST THEN USE_SECOND ELSE USE_FIRST
    IN  Step([t EXCEPT !.state = other, !.offset = offset, !.hole = hole],
             (IF records = <<>> THEN <<SetLength(offset, 0)>>
              ELSE [i \in DOMAIN records |-> WriteRecord(offset, i, records[i])])
             \o <<SetOffset(other, offset), Sync, SetState(other), Sync>>
             \o (IF records = <<>> THEN <<>> ELSE <<EraseLog(t.offset)>>))

Top(t) == Len(t.buffers)

(* set_length *)
Resize(t, n) == 
    [t EXCEPT !.buffers[Top(t)].undo = Append(@, t.size), !.size = n]

SetLengthStep(t, n, f) ==
    IF n = t.size THEN Step(t, <<>>)
    ELSE Then(CreateRollback(t, f),
              LAMBDA u, g : IF n > u.offset THEN MoveRollback(Resize(u, n), g) ELSE Step(Resize(u, n), <<>>),
              f)

(* write: every page that this buffer has not saved is appended to the     *)
(* log, all but the first already committed; the first commits them        *)
(* together, and only then is the data written.  The checksum of a record  *)
(* is computed with that of the one before it still in its place.          *)
SavedPages(t, first, last, f) ==
    LET records[i \in first - 1 .. last] ==
            IF i = first - 1 THEN <<>>
            ELSE IF i \in t.buffers[Top(t)].dirty THEN records[i - 1]
            ELSE LET earlier == records[i - 1] # <<>>
                 IN  Append(records[i - 1], [page |-> i, old |-> PageAt(f, i),
                                             committed |-> earlier, crc |-> ~earlier])
    IN  records[last]

Dirtied(t, first, last) == [t EXCEPT !.buffers[Top(t)].dirty = @ \union (first .. last)]

(* Mutant: the records are committed before they have reached the disk. *)
SavePagesHastily(t, first, last, f) ==
    LET records == SavedPages(t, first, last, f)
        index == Len(LogAt(f, t.offset))
    IN  Step(Dirtied(t, first, last),
             IF records = <<>> THEN <<>>
             ELSE [i \in DOMAIN records |-> WriteRecord(t.offset, index + i, records[i])]
                  \o <<CommitRecord(t.offset, index + 1), Sync>>)

SavePages(t, first, last, f) ==
    LET records == SavedPages(t, first, last, f)
        index == Len(LogAt(f, t.offset))
    IN  Step(Dirtied(t, first, last),
             IF records = <<>> THEN <<>>
             ELSE [i \in DOMAIN records |-> WriteRecord(t.offset, index + i, records[i])]
                  \o <<Sync, CommitRecord(t.offset, index + 1), Sync>>)

WriteStep(t, first, last, v, f) ==
    LET enlarged == IF last > t.size THEN SetLengthStep(t, last, f) ELSE Step(t, <<>>)
        logged == Then(enlarged, CreateRollback, f)
        saved == Then(logged, LAMBDA u, g : SavePages(u, first, last, g), f)
    IN  Step(saved.txn, saved.ops \o [i \in 1 .. last - first + 1 |-> WritePage(first + i - 1, v)])

(* rollback, of the innermost transaction: first the size, which the undo  *)
(* entries give back in reverse order, then the pages.  The length that    *)
(* the file gets is the offset which apply_rollback has advanced, so the   *)
(* log keeps its records.                                                  *)
(* Mutant: the size of the last change, not of the first. *)
UndoSizeOnce(t) == IF t.buffers[Top(t)].undo = <<>> THEN t.size ELSE Last(t.buffers[Top(t)].undo)

UndoSize(t) == IF t.buffers[Top(t)].undo = <<>> THEN t.size ELSE t.buffers[Top(t)].undo[1]

RollbackStep(t, f) ==
    LET start == t.buffers[Top(t)].start
        undone == [t EXCEPT !.size = UndoSize(t), !.buffers = Front(@)]
    IN  Step(undone, 
             IF t.offset = 0 THEN <<>>
             ELSE ApplyRollback(f, t.offset, start)
                  \o <<SetLength(t.offset, ReadUpTo(f, t.offset, start))>>)

OuterRollbackPlan(t, f) ==
    LET step == RollbackStep(t, f)
    IN  step.ops
        \o (IF ApplyAll(f, step.ops).length # <<step.txn.size, 0>>
            THEN <<SetLength(step.txn.size, 0)>> ELSE <<>>)
        \o <<Sync>>
        \o (IF t.state # CLEAN THEN Clean ELSE <<>>)

CommitPlan(t) ==
    IF t.state = CLEAN THEN <<>> ELSE <<SetLength(t.size, 0), Sync>> \o Clean

-------------------------------------------------------------------------------
(* The operations of a plan, one at a time. *)
Goto(p, place) == phase' = [phase EXCEPT ![p] = place]
Lock(p, kind) == lock' = [lock EXCEPT ![p] = kind]
MayWrite(p) == \A q \in Process \ {p} : lock[q] = "none"
(* Mutant: a reader does not wait for the writer. *)
MayAlwaysRead(p) == TRUE
MayRead(p) == \A q \in Process \ {p} : lock[q] # "write"

FileOperation(p) ==
    /\ plan[p] # <<>>
    /\ plan' = [plan EXCEPT ![p] = Tail(@)]
    /\ file' = Apply(file, Head(plan[p]))
    /\ images' = CrashImages(file, images, Head(plan[p]))
    /\ UNCHANGED <<lock, phase, txn, corrupted, possible, working, calls, crashes>>

(* open, and the begin of a write transaction: both hold the lock alone    *)
(* while they run init.  A corrupted file is unlocked and the error thrown. *)
StartInit(p, place) ==
    /\ MayWrite(p)
    /\ Lock(p, "write")
    /\ Goto(p, place)
    /\ plan' = [plan EXCEPT ![p] = InitPlan(file)]
    /\ corrupted' = (corrupted \/ InitIsCorrupt(file))
    /\ UNCHANGED <<file, images, txn, possible, working, calls, crashes>>

Open(p) == phase[p] = "closed" /\ StartInit(p, "opening")

Opened(p) ==
    /\ phase[p] = "opening" /\ plan[p] = <<>>
    /\ Lock(p, "none")
    /\ Goto(p, IF corrupted THEN "failed" ELSE "idle")
    /\ UNCHANGED <<file, images, plan, txn, corrupted, possible, working, calls, crashes>>

BeginWrite(p) == phase[p] = "idle" /\ p \in Writer /\ calls < MaxCalls /\ StartInit(p, "beginning")

(* What a new transaction finds in the file settles what the last commit,  *)
(* if a crash cut it short, has come to: of the contents that are allowed, *)
(* the one found remains, and none when something else is found.           *)
Found == Content(file, Ceil(file.length))

Began(p) ==
    /\ phase[p] = "beginning" /\ plan[p] = <<>>
    /\ IF corrupted
       THEN Lock(p, "none") /\ Goto(p, "failed") /\ UNCHANGED <<txn, possible, working>>
       ELSE /\ Goto(p, "writing")
            /\ txn' = [NoTxn EXCEPT !.size = Ceil(file.length), !.buffers = <<Buffer(0)>>]
            /\ possible' = possible \intersect {Found}
            /\ working' = <<Found>>
            /\ UNCHANGED lock
    /\ UNCHANGED <<file, images, plan, corrupted, calls, crashes>>

(* The begin of a read transaction.  A file that is not clean is unlocked, *)
(* locked for writing, recovered, and unlocked again before it is locked   *)
(* for reading; nothing is looked at again after that.                     *)
BeginRead(p) ==
    /\ phase[p] = "idle" /\ MayRead(p)
    /\ IF file.state = CLEAN
       THEN Lock(p, "read") /\ Goto(p, "reading") /\ possible' = possible \intersect {Found}
       ELSE Goto(p, "upgrading") /\ UNCHANGED <<lock, possible>>
    /\ UNCHANGED <<file, images, plan, txn, corrupted, working, calls, crashes>>

Recover(p) == phase[p] = "upgrading" /\ StartInit(p, "recovering")

Recovered(p) ==
    /\ phase[p] = "recovering" /\ plan[p] = <<>>
    /\ Lock(p, "none")
    /\ Goto(p, IF corrupted THEN "failed" ELSE "relocking")
    /\ UNCHANGED <<file, images, plan, txn, corrupted, possible, working, calls, crashes>>

Relock(p) ==
    /\ phase[p] = "relocking" /\ MayRead(p)
    /\ Lock(p, "read")
    /\ Goto(p, "reading")
    /\ possible' = IF file.state = CLEAN THEN possible \intersect {Found} ELSE possible
    /\ UNCHANGED <<file, images, plan, txn, corrupted, working, calls, crashes>>

(* begin returns false when a lock is not granted in time. *)
BeginTimedOut(p) ==
    /\ \/ phase[p] = "upgrading" /\ ~MayWrite(p)
       \/ phase[p] = "relocking" /\ ~MayRead(p)
    /\ Goto(p, "idle")
    /\ UNCHANGED <<file, images, lock, plan, txn, corrupted, possible, working, calls, crashes>>

EndRead(p) ==
    /\ phase[p] = "reading"
    /\ Lock(p, "none")
    /\ Goto(p, "idle")
    /\ UNCHANGED <<file, images, plan, txn, corrupted, possible, working, calls, crashes>>

-------------------------------------------------------------------------------
(* The calls inside a write transaction. *)
Ready(p) == phase[p] = "writing" /\ plan[p] = <<>>
Calling(p) == Ready(p) /\ calls < MaxCalls /\ calls' = calls + 1

(* What the caller may now expect to read: its pages, the pages it left    *)
(* alone, and in a longer file anything where nothing was written.         *)
Expected(old, first, last, v, step) ==
    [page \in 1 .. step.txn.size |->
        IF page \in first .. last THEN v
        ELSE IF page <= Len(old) THEN old[page]
        ELSE PageAt(ApplyAll(file, step.ops), page)]

Carry(p, step, first, last, v) ==
    /\ plan' = [plan EXCEPT ![p] = step.ops]
    /\ txn' = step.txn
    /\ working' = Append(Front(working), Expected(Last(working), first, last, v, step))
    /\ UNCHANGED <<file, images, lock, phase, corrupted, possible, crashes>>

Write(p, first, last, v) == Calling(p) /\ Carry(p, WriteStep(txn, first, last, v, file), first, last, v)

SetFileLength(p, n) == Calling(p) /\ n # txn.size /\ Carry(p, SetLengthStep(txn, n, file), 1, 0, Zero)

(* begin, commit and rollback of a nested transaction. *)
BeginNested(p) ==
    /\ Calling(p)
    /\ Top(txn) < MaxDepth
    /\ txn' = [txn EXCEPT !.buffers = Append(@, Buffer(IF txn.offset = 0 THEN 0 ELSE file.length[2]))]
    /\ working' = Append(working, Last(working))
    /\ UNCHANGED <<file, images, lock, phase, plan, corrupted, possible, crashes>>

Merge(buffer, inner) == 
    [buffer EXCEPT !.undo = @ \o inner.undo, !.dirty = @ \union inner.dirty]

CommitNested(p) ==
    /\ Ready(p) /\ Top(txn) > 1
    /\ txn' = [txn EXCEPT !.buffers = Append(SubSeq(@, 1, Top(txn) - 2), Merge(@[Top(txn) - 1], Last(@)))]
    /\ working' = Append(SubSeq(working, 1, Len(working) - 2), Last(working))
    /\ UNCHANGED <<file, images, lock, phase, plan, corrupted, possible, calls, crashes>>

RollbackNested(p) ==
    /\ Ready(p) /\ Top(txn) > 1
    /\ LET step == RollbackStep(txn, file)
       IN  txn' = step.txn /\ plan' = [plan EXCEPT ![p] = step.ops]
    /\ corrupted' = (corrupted \/ (txn.offset # 0 /\ RollbackIsCorrupt(file, txn.offset, Last(txn.buffers).start)))
    /\ working' = Front(working)
    /\ UNCHANGED <<file, images, lock, phase, possible, calls, crashes>>

(* commit of the outermost transaction.  A transaction that wrote nothing  *)
(* leaves the file alone.                                                  *)
Commit(p) ==
    /\ Ready(p) /\ Top(txn) = 1
    /\ Goto(p, "committing")
    /\ plan' = [plan EXCEPT ![p] = CommitPlan(txn)]
    /\ possible' = possible \union {Last(working)}
    /\ UNCHANGED <<file, images, lock, txn, corrupted, working, calls, crashes>>

Rollback(p) ==
    /\ Ready(p) /\ Top(txn) = 1
    /\ Goto(p, "rolling")
    /\ plan' = [plan EXCEPT ![p] = OuterRollbackPlan(txn, file)]
    /\ corrupted' = (corrupted \/ (txn.offset # 0 /\ RollbackIsCorrupt(file, txn.offset, 0)))
    /\ working' = <<>>
    /\ UNCHANGED <<file, images, lock, txn, possible, calls, crashes>>

EndWrite(p) ==
    /\ phase[p] \in {"committing", "rolling"} /\ plan[p] = <<>>
    /\ Lock(p, "none")
    /\ Goto(p, "idle")
    /\ txn' = NoTxn
    /\ IF phase[p] = "committing" THEN possible' = {Last(working)} /\ working' = <<>> ELSE UNCHANGED ghosts
    /\ UNCHANGED <<file, images, plan, corrupted, calls, crashes>>

-------------------------------------------------------------------------------
(* Crashes. *)
InWriteTransaction(p) == phase[p] \in {"writing", "committing", "rolling"}

(* A log without records lies at the end of the file, where init takes it  *)
(* for that of a transaction that was committed: the content is the old    *)
(* one and the file as long as create_rollback made it (534).              *)
EmptyLog(f) == f.state # CLEAN /\ f.length = <<f.offset[f.state], 0>>
FoundLonger(f) ==
    {content \in {Content(f, Ceil(f.length))} :
        EmptyLog(f) /\ \E old \in possible : IsPrefix(old, content)}

(* Nobody goes on with a transaction that left the log there.  Bound: the  *)
(* file is not prolonged beyond LastPage.                                  *)
Abandoned(dead, left) ==
    /\ EmptyLog(left) => Ceil(left.length) <= LastPage
    /\ possible' = IF LongerAllowed /\ \A p \in Process \ dead : lock[p] # "write"
                   THEN possible \union FoundLonger(left) ELSE possible

Forget(dead) ==
    /\ crashes < MaxCrashes
    /\ crashes' = crashes + 1
    /\ lock' = [p \in Process |-> IF p \in dead THEN "none" ELSE lock[p]]
    /\ phase' = [p \in Process |-> IF p \in dead THEN "closed" ELSE phase[p]]
    /\ plan' = [p \in Process |-> IF p \in dead THEN <<>> ELSE plan[p]]
    /\ IF \E p \in dead : InWriteTransaction(p) 
       THEN txn' = NoTxn /\ working' = <<>> ELSE UNCHANGED <<txn, working>>
    /\ UNCHANGED <<corrupted, calls>>

ProcessCrash(p) ==
    /\ phase[p] \notin {"closed", "failed"}
    /\ Abandoned({p}, file)
    /\ Forget({p})
    /\ UNCHANGED <<file, images>>

MachineCrash ==
    /\ \E p \in Process : phase[p] # "closed"
    /\ file' \in images
    /\ images' = {file'}
    /\ Abandoned(Process, file')
    /\ Forget(Process)

-------------------------------------------------------------------------------
Act(p) ==
    \/ FileOperation(p)
    \/ Open(p) \/ Opened(p)
    \/ BeginWrite(p) \/ Began(p)
    \/ BeginRead(p) \/ Recover(p) \/ Recovered(p) \/ Relock(p) \/ BeginTimedOut(p) \/ EndRead(p)
    \/ \E w \in Writes : Write(p, w[1], w[2], w[3])
    \/ \E n \in Sizes : SetFileLength(p, n)
    \/ BeginNested(p) \/ CommitNested(p) \/ RollbackNested(p)
    \/ Commit(p) \/ Rollback(p) \/ EndWrite(p)
    \/ ProcessCrash(p)

Next == MachineCrash \/ \E p \in Process : Act(p)

Spec == Init /\ [][Next]_vars

-------------------------------------------------------------------------------
(* A transaction reads back what it wrote: between two calls the file,     *)
(* read up to get_length, is what the transaction and the ones nested in   *)
(* it that were committed made of it, and nothing of those that were       *)
(* rolled back; growing over the old place of the log uncovers no bytes of *)
(* it (write, set_length, move_rollback, commit and rollback of nested     *)
(* transactions).                                                          *)
ReadsItsOwnWrites ==
    \A p \in Process : Ready(p) => Content(file, txn.size) = Last(working)

(* "When there is a crash during the transaction the rollback is applied   *)
(* and the modified data is rewritten with its original content": whatever *)
(* the crashes, init and rollback find a log they can apply and a length   *)
(* they can restore.                                                       *)
NeverCorrupted == ~corrupted

(* What a read transaction finds in the file is one of the contents that   *)
(* the commits and crashes so far allow, and the same as long as it lasts: *)
(* neither the writes of a transaction in progress nor the half of one     *)
(* that a crash cut off.  Excused is a file that is not clean: begin       *)
(* recovers it, but another writer may crash between the recovery and the  *)
(* lock for reading (304-316).                                             *)
SeesCommitted(p) == phase[p] = "reading" => possible = {Found}
ReadersSeeCommitted == file.state = CLEAN => \A p \in Process : SeesCommitted(p)

(* Every transaction begins with the content the last commit left, or, if  *)
(* a crash hit that commit, with either the old or the new content and     *)
(* always the same one from then on; a commit that has returned and a      *)
(* rollback are final.  A crash that left an empty log may have made the   *)
(* old content longer.  This is the refinement of AbstractFile.            *)
Abstract == INSTANCE AbstractFile WITH PageValues <- Values
Transactional == Abstract!Spec
===============================================================================
