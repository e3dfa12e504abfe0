------------------------------- MODULE FileImage -------------------------------
(***************************************************************************)
(* The physical file under an AtomicFile (src/fixio/io/atomic_file.fix),   *)
(* at the granularity of pages: the five fields of the 32 byte header that *)
(* change, the data pages, and the records of the rollback logs.  The file *)
(* system keeps the operations done since the last sync in memory; a crash *)
(* of the machine leaves a file to which any part of them was done.        *)
(*                                                                         *)
(* Page n is the n-th page, so a file of n pages ends after page n.  A     *)
(* record of the log is 12 bytes longer than the page it saves, which is   *)
(* why a length is a pair: <<o, k>> stands for o pages and k records.      *)
(***************************************************************************)
EXTENDS Naturals, Sequences, FiniteSets, SequencesExt

CONSTANTS
    Values,         \* what a data page can contain, 0 among them
    LastPage,       \* bound: the highest page of a file that is open
    Garbage,        \* what is read from a page that was written in part
    LengthsOrdered  \* whether the file system journals lengths after the data

Zero == 0           \* a page that was never written

ASSUME FileImageAssumption ==
    /\ Values \subseteq Nat /\ Zero \in Values /\ Garbage \notin Values
    /\ LastPage \in Nat
    /\ LengthsOrdered \in BOOLEAN

CLEAN == 0          \* ROLLBACK_CLEAN
USE_FIRST == 1      \* ROLLBACK_USE_FIRST
USE_SECOND == 2     \* ROLLBACK_USE_SECOND
Slots == {USE_FIRST, USE_SECOND}

(* A record is a saved page, [page, old, committed, crc]: committed is the *)
(* top bit of the offset in its header, crc tells whether the checksum     *)
(* matches what recovery computes.                                         *)

-------------------------------------------------------------------------------
(* The operations on the file. *)
Sync == [op |-> "sync"]
SetState(s) == [op |-> "state", state |-> s]
SetSize(n) == [op |-> "size", size |-> n]
SetOffset(slot, o) == [op |-> "offset", slot |-> slot, at |-> o]
SetLength(o, k) == [op |-> "length", length |-> <<o, k>>]
WritePage(n, v) == [op |-> "page", page |-> n, value |-> v]
WriteRecord(o, i, r) == [op |-> "record", at |-> o, index |-> i, record |-> r]
CommitRecord(o, i) == [op |-> "commit", at |-> o, index |-> i]
EraseLog(o) == [op |-> "erase", at |-> o]

(* The whole pages that a length covers, when it is rounded up. *)
Ceil(length) == length[1] + length[2] + (IF length[2] > 0 THEN 1 ELSE 0)

(* The records of the log that starts after page at, when one lies there:  *)
(* the domain of log is the set of the places where one does.              *)
LogAt(file, at) == IF at \in DOMAIN file.log THEN file.log[at] ELSE <<>>

(* A record that was appended where an earlier one never arrived leaves    *)
(* zeros there: a record that is not committed.                            *)
Hole == [page |-> 0, old |-> Zero, committed |-> FALSE, crc |-> FALSE]

PutRecord(log, i, r) ==
    [j \in 1 .. (IF i > Len(log) THEN i ELSE Len(log)) |->
        IF j = i THEN r ELSE IF j <= Len(log) THEN log[j] ELSE Hole]

(* The logs of a file that gets a new length: what was beyond is lost.     *)
CutLogs(log, length) ==
    [at \in {a \in DOMAIN log : a < length[1] \/ (a = length[1] /\ length[2] > 0)} |->
        IF at = length[1] THEN SubSeq(log[at], 1, length[2]) ELSE log[at]]

(* The file after one operation.  A file that is made shorter loses what   *)
(* was beyond, and zeros appear when it is made longer again.              *)
Apply(file, o) ==
    CASE o.op = "state" -> [file EXCEPT !.state = o.state]
      [] o.op = "size" -> [file EXCEPT !.size = o.size]
      [] o.op = "offset" -> [file EXCEPT !.offset[o.slot] = o.at]
      [] o.op = "length" ->
            [file EXCEPT !.length = o.length,
                         !.data = [n \in DOMAIN @ |-> IF n > o.length[1] THEN Zero ELSE @[n]],
                         !.log = CutLogs(@, o.length)]
      [] o.op = "page" -> [file EXCEPT !.data[o.page] = o.value]
      [] o.op = "torn page" -> [file EXCEPT !.data[o.page] = IF @ = o.value THEN @ ELSE Garbage]
      [] o.op = "record" ->
            [file EXCEPT !.log = [at \in DOMAIN @ \union {o.at} |->
                                    IF at = o.at THEN PutRecord(LogAt(file, at), o.index, o.record)
                                    ELSE @[at]],
                         !.length = IF @[1] > o.at \/ (@[1] = o.at /\ @[2] >= o.index) THEN @
                                    ELSE <<o.at, o.index>>]
      [] o.op = "commit" ->
            [file EXCEPT !.log = [at \in DOMAIN @ |->
                                    IF at = o.at /\ o.index \in DOMAIN @[at]
                                    THEN [@[at] EXCEPT ![o.index].committed = TRUE]
                                    ELSE @[at]]]
      [] o.op = "erase" -> [file EXCEPT !.log = [at \in DOMAIN @ \ {o.at} |-> @[at]]]
      [] OTHER -> file

ApplyAll(file, ops) ==
    LET after[n \in 0 .. Len(ops)] == IF n = 0 THEN file ELSE Apply(after[n - 1], ops[n])
    IN  after[Len(ops)]

(* What reading page n gives: the bytes of a log when one lies there. *)
PageAt(file, n) ==
    IF \E at \in DOMAIN file.log : at < n /\ n <= Ceil(<<at, Len(file.log[at])>>)
    THEN Garbage
    ELSE file.data[n]

(* The first n pages. *)
Content(file, n) == [page \in 1 .. n |-> PageAt(file, page)]

-------------------------------------------------------------------------------
(* What can become of an operation that is not synced, if it is not lost.  *)
(* A page or a record may be written in part, which does no harm to a page *)
(* that already has the content written.                                   *)
Outcomes(o) ==
    CASE o.op = "page" -> {o, [o EXCEPT !.op = "torn page"]}
      [] o.op = "record" -> {o, [o EXCEPT !.record.crc = FALSE]}
      [] OTHER -> {o}

(* What changes the length of the file: set_length, and a record, which is *)
(* always appended.                                                        *)
Lengthens(o) == o.op \in {"length", "record"}

(* The files that a crash of the machine may leave after the operation, if *)
(* it might have left images before: any part of what was not synced may   *)
(* have reached the disk.  The class puts no sync between the data and a   *)
(* change of the length (commit 369, rollback 409-415).  LengthsOrdered    *)
(* assumes of the file system that the change arrives only together with   *)
(* all that was done before it.                                            *)
CrashImages(file, images, o) ==
    IF o = Sync THEN {file}
    ELSE images \union {Apply(image, outcome) :
                            image \in IF LengthsOrdered /\ Lengthens(o) THEN {file} ELSE images,
                            outcome \in Outcomes(o)}
===============================================================================
