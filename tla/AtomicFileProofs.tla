--------------------------- MODULE AtomicFileProofs ---------------------------
(***************************************************************************)
(* What a file with transactions owes its callers, for any number of       *)
(* processes, pages, calls, nested transactions and crashes.               *)
(*                                                                         *)
(* A call that writes is a plan: the operations it will do on the file,    *)
(* one step each, any of which a crash may be the last of.  So the proof   *)
(* is about plans.  Leads(d, ops, e, cs): the plan ops takes the disk d (a *)
(* file and the images a crash may leave of it) to the disk e, and at no   *)
(* point of it can a crash leave anything that recovery would not turn     *)
(* into one of the contents cs.  Every handler is shown to make plans that *)
(* lead where it should; plans are joined, and a step of the model takes   *)
(* the first operation of one.  Restored contents are kept as a sequence   *)
(* b, one per nested transaction: a rollback from level l on gives b[l].   *)
(*                                                                         *)
(* The sections: induction and sequences; what one operation does to a     *)
(* file; what a crash may leave (Settled, Undoable, Guarded, Crashable);   *)
(* plans (Leads); a write transaction (Writing) and the handlers that keep *)
(* it (create_rollback, move_rollback, set_length, write, begin, commit    *)
(* and rollback of nested transactions); apply_rollback; commit, rollback  *)
(* and init; the locks; the inductive invariant (FileInv); the theorems.   *)
(***************************************************************************)
EXTENDS AtomicFile, SequenceTheorems, WellFoundedInduction, TLAPS

-----------------------------------------------------------------------------
(* Induction over the natural numbers, on a set instead of a predicate.     *)
LEMMA LeastNumber ==
    ASSUME NEW T \in SUBSET Nat, T # {}
    PROVE  \E x \in T : \A y \in T : x <= y
<1>1. \E x \in T : \A y \in T : ~(<<y, x>> \in OpToRel(<, Nat))
  BY NatLessThanWellFounded, WFMin
<1>2. PICK x \in T : \A y \in T : ~(<<y, x>> \in OpToRel(<, Nat)) BY <1>1
<1>3. \A y \in T : ~(y < x) BY <1>2 DEF OpToRel
<1> QED BY <1>3

(* What holds of 0 and of n + 1 whenever of n holds of every number.        *)
LEMMA SetInduction ==
    ASSUME NEW P, 0 \in P, \A n \in Nat : n \in P => n + 1 \in P
    PROVE  \A n \in Nat : n \in P
<1> SUFFICES ASSUME Nat \ P # {} PROVE FALSE OBVIOUS
<1>1. PICK x \in Nat \ P : \A y \in Nat \ P : x <= y BY LeastNumber
<1>2. CASE x = 0 BY <1>2
<1>3. CASE x # 0
  <2>1. x - 1 \in Nat BY <1>3
  <2>2. x - 1 \in P BY <2>1, <1>1
  <2>3. (x - 1) + 1 \in P BY <2>1, <2>2
  <2> QED BY <2>3
<1> QED BY <1>2, <1>3

(* A function that is defined along a range of numbers exists.              *)
Closed(a, b, S, next) == \A x \in S, n \in a + 1 .. b : next[<<x, n>>] \in S
Recursive(g, a, b, S, first, next) ==
    /\ g \in [a .. b -> S]
    /\ g[a] = first
    /\ \A n \in a + 1 .. b : g[n] = next[<<g[n - 1], n>>]

(* Along a .. b there is such a function.                                   *)
LEMMA RecursionAlong ==
    ASSUME NEW a \in Nat, NEW b \in Nat, a <= b, NEW S, NEW first \in S,
           NEW next, Closed(a, b, S, next)
    PROVE  \E g : Recursive(g, a, b, S, first, next)
<1> DEFINE Upto(n, g) == /\ g \in [a .. a + n -> S]
                         /\ g[a] = first
                         /\ \A k \in a + 1 .. a + n : g[k] = next[<<g[k - 1], k>>]
<1> DEFINE P == {n \in Nat : a + n <= b => \E g : Upto(n, g)}
<1>1. 0 \in P
  <2>1. Upto(0, [k \in a .. a |-> first]) OBVIOUS
  <2> QED BY <2>1
<1>2. ASSUME NEW n \in Nat, n \in P PROVE n + 1 \in P
  <2> SUFFICES ASSUME a + (n + 1) <= b PROVE \E g : Upto(n + 1, g) OBVIOUS
  <2>1. PICK g : Upto(n, g) BY <1>2
  <2> DEFINE m == a + n + 1
  <2> DEFINE h == [k \in a .. a + (n + 1) |-> IF k <= a + n THEN g[k] ELSE next[<<g[a + n], m>>]]
  <2>2. m \in a + 1 .. b /\ g[a + n] \in S BY <2>1
  <2>3. next[<<g[a + n], m>>] \in S BY <2>2 DEF Closed
  <2>4. h \in [a .. a + (n + 1) -> S] BY <2>1, <2>3
  <2>5. h[a] = first BY <2>1
  <2>6. ASSUME NEW k \in a + 1 .. a + (n + 1) PROVE h[k] = next[<<h[k - 1], k>>]
    <3>1. CASE k <= a + n
      <4>1. h[k] = g[k] /\ h[k - 1] = g[k - 1] BY <3>1
      <4> QED BY <4>1, <3>1, <2>1
    <3>2. CASE k = m
      <4>1. h[k] = next[<<g[a + n], m>>] /\ h[k - 1] = g[a + n] BY <3>2
      <4> QED BY <4>1, <3>2
    <3> QED BY <3>1, <3>2
  <2> HIDE DEF h
  <2> QED BY <2>4, <2>5, <2>6
<1>3. \A n \in Nat : n \in P
  <2> HIDE DEF P
  <2> QED BY <1>1, <1>2, SetInduction
<1>4. b - a \in Nat /\ a + (b - a) = b OBVIOUS
<1>5. PICK g : Upto(b - a, g)
  <2>1. b - a \in P BY <1>3, <1>4
  <2> QED BY <2>1, <1>4
<1> QED BY <1>5, <1>4 DEF Recursive

-----------------------------------------------------------------------------
(* The types.                                                               *)
States == {CLEAN} \union Slots
Cells == Values \union {Garbage}
Record == [page : Nat, old : Cells, committed : BOOLEAN, crc : BOOLEAN]
Logs == UNION {[places -> Seq(Record)] : places \in SUBSET Nat}
Files == [state : States, size : Nat, offset : [Slots -> Nat], length : Nat \X Nat,
          data : [1 .. LastPage -> Cells], log : Logs]
Contents == {c \in Seq(Values) : Len(c) \in 1 .. LastPage}

(* A log is a sequence of records, at whatever places there are logs.       *)
LEMMA LogsType ==
    /\ \A log \in Logs : /\ DOMAIN log \subseteq Nat
                         /\ \A at \in DOMAIN log : log[at] \in Seq(Record)
                         /\ log = [at \in DOMAIN log |-> log[at]]
    /\ \A places \in SUBSET Nat : [places -> Seq(Record)] \subseteq Logs
BY DEF Logs

(* Where no log was written the records read are none.                      *)
LEMMA LogAtType ==
    ASSUME NEW f \in Files, NEW at \in Nat
    PROVE  LogAt(f, at) \in Seq(Record)
<1>1. f.log \in Logs BY DEF Files
<1> QED BY <1>1, LogsType, EmptySeq DEF LogAt

(* The fields of a file.                                                    *)
LEMMA FilesType ==
    ASSUME NEW f \in Files
    PROVE  /\ f.state \in States /\ f.size \in Nat /\ f.offset \in [Slots -> Nat]
           /\ f.length \in Nat \X Nat /\ f.length = <<f.length[1], f.length[2]>>
           /\ f.length[1] \in Nat /\ f.length[2] \in Nat
           /\ f.data \in [1 .. LastPage -> Cells] /\ f.log \in Logs
BY DEF Files

(* What a crash may leave when lengths are ordered after the data.          *)
OrderedImages(f, im, o) ==
    IF o = Sync THEN {f}
    ELSE im \union {Apply(image, outcome) :
                            image \in IF Lengthens(o) THEN {f} ELSE im,
                            outcome \in Outcomes(o)}

LEMMA OrderedCrashes ==
    ASSUME LengthsOrdered, NEW f, NEW im, NEW o
    PROVE  CrashImages(f, im, o) = OrderedImages(f, im, o)
BY DEF CrashImages, OrderedImages

(* What each operation does.                                                *)
LEMMA SyncEffect ==
    ASSUME NEW f \in Files, NEW im
    PROVE  /\ Apply(f, Sync) = f
           /\ OrderedImages(f, im, Sync) = {f}
BY DEF Apply, Sync, OrderedImages

(* set_long of the state changes the state alone.                           *)
LEMMA StateEffect ==
    ASSUME NEW f \in Files, NEW s \in States, NEW g, g = Apply(f, SetState(s))
    PROVE  /\ g \in Files /\ g.state = s
           /\ g.size = f.size /\ g.offset = f.offset /\ g.length = f.length
           /\ g.data = f.data /\ g.log = f.log
BY DEF Apply, SetState, Files

(* set_long of the size to be restored changes that size alone.             *)
LEMMA SizeEffect ==
    ASSUME NEW f \in Files, NEW n \in Nat, NEW g, g = Apply(f, SetSize(n))
    PROVE  /\ g \in Files /\ g.size = n
           /\ g.state = f.state /\ g.offset = f.offset /\ g.length = f.length
           /\ g.data = f.data /\ g.log = f.log
BY DEF Apply, SetSize, Files

(* set_long of the place of a log changes that place alone.                 *)
LEMMA OffsetEffect ==
    ASSUME NEW f \in Files, NEW s \in Slots, NEW at \in Nat, NEW g, g = Apply(f, SetOffset(s, at))
    PROVE  /\ g \in Files /\ g.offset[s] = at
           /\ \A t \in Slots : t # s => g.offset[t] = f.offset[t]
           /\ g.state = f.state /\ g.size = f.size /\ g.length = f.length
           /\ g.data = f.data /\ g.log = f.log
<1> DEFINE offset == [f.offset EXCEPT ![s] = at]
<1>1. g = [f EXCEPT !.offset = offset] BY DEF Apply, SetOffset
<1>0. offset \in [Slots -> Nat] BY FilesType
<1>2. g \in Files
  <2> HIDE DEF offset
  <2> QED BY <1>0, <1>1 DEF Files
<1>3. g.offset = [f.offset EXCEPT ![s] = at] BY <1>1 DEF Files
<1>4. g.offset[s] = at /\ \A t \in Slots : t # s => g.offset[t] = f.offset[t]
  BY <1>3 DEF Files
<1>5. /\ g.state = f.state /\ g.size = f.size /\ g.length = f.length
      /\ g.data = f.data /\ g.log = f.log
  BY <1>1 DEF Files
<1> QED BY <1>2, <1>4, <1>5

(* A length that leaves every log whole or cuts it off entirely.            *)
LEMMA CutLogsType ==
    ASSUME NEW log \in Logs, NEW at \in Nat, NEW k \in Nat,
           k > 0 /\ at \in DOMAIN log => k = Len(log[at])
    PROVE  /\ CutLogs(log, <<at, k>>) \in Logs
           /\ DOMAIN CutLogs(log, <<at, k>>) = {a \in DOMAIN log : a < at \/ (a = at /\ k > 0)}
           /\ \A a \in DOMAIN CutLogs(log, <<at, k>>) : CutLogs(log, <<at, k>>)[a] = log[a]
<1> DEFINE places == {a \in DOMAIN log : a < at \/ (a = at /\ k > 0)}
           cut == CutLogs(log, <<at, k>>)
<1>1. cut = [a \in places |-> IF a = at THEN SubSeq(log[a], 1, k) ELSE log[a]]
  BY DEF CutLogs
<1>2. places \in SUBSET Nat /\ places \subseteq DOMAIN log BY LogsType
<1>3. ASSUME NEW a \in places PROVE cut[a] = log[a] /\ cut[a] \in Seq(Record)
  <2>1. log[a] \in Seq(Record) BY LogsType
  <2>2. CASE a = at
    <3>1. k = Len(log[a]) BY <2>2
    <3>2. SubSeq(log[a], 1, Len(log[a])) = log[a] BY <2>1, SubSeqFull
    <3> QED BY <1>1, <2>1, <3>1, <3>2, <2>2
  <2>3. CASE a # at BY <1>1, <2>1, <2>3
  <2> QED BY <2>2, <2>3
<1>4. DOMAIN cut = places BY <1>1
<1> HIDE DEF cut, places
<1>5. cut = [a \in places |-> cut[a]] BY <1>1
<1>6. cut \in [places -> Seq(Record)] BY <1>3, <1>5
<1>7. cut \in Logs BY <1>2, <1>6, LogsType
<1> QED BY <1>3, <1>4, <1>7 DEF cut, places

(* What lies beyond the length is lost, the rest stays.                     *)
LEMMA LengthEffect ==
    ASSUME NEW f \in Files, NEW at \in Nat, NEW k \in Nat, NEW g, g = Apply(f, SetLength(at, k)),
           k > 0 /\ at \in DOMAIN f.log => k = Len(f.log[at])
    PROVE  /\ g \in Files /\ g.length = <<at, k>>
           /\ g.data \in [1 .. LastPage -> Cells]
           /\ \A n \in 1 .. LastPage : g.data[n] = IF n > at THEN Zero ELSE f.data[n]
           /\ DOMAIN g.log = {a \in DOMAIN f.log : a < at \/ (a = at /\ k > 0)}
           /\ \A a \in DOMAIN g.log : g.log[a] = f.log[a]
           /\ g.state = f.state /\ g.size = f.size /\ g.offset = f.offset
<1> DEFINE data == [n \in 1 .. LastPage |-> IF n > at THEN Zero ELSE f.data[n]]
           log == CutLogs(f.log, <<at, k>>)
<1>1. f.data \in [1 .. LastPage -> Cells] /\ f.log \in Logs BY FilesType
<1>2. DOMAIN f.data = 1 .. LastPage BY <1>1
<1>3. g = [f EXCEPT !.length = <<at, k>>, !.data = [n \in DOMAIN f.data |-> IF n > at THEN Zero ELSE f.data[n]],
                    !.log = log]
  <2> HIDE DEF log
  <2> QED BY DEF Apply, SetLength, log
<1>4. g = [f EXCEPT !.length = <<at, k>>, !.data = data, !.log = log] BY <1>2, <1>3
<1>5. log \in Logs /\ DOMAIN log = {a \in DOMAIN f.log : a < at \/ (a = at /\ k > 0)}
      /\ \A a \in DOMAIN log : log[a] = f.log[a]
  BY <1>1, CutLogsType
<1>6. data \in [1 .. LastPage -> Cells] BY <1>1, FileImageAssumption DEF Cells
<1> HIDE DEF log
<1>7. g.log = log /\ g.data = data /\ g.length = <<at, k>>
      /\ g.state = f.state /\ g.size = f.size /\ g.offset = f.offset
  BY <1>4 DEF Files
<1>8. g \in Files
  <2>1. <<at, k>> \in Nat \X Nat OBVIOUS
  <2> HIDE DEF data
  <2> QED BY <1>4, <1>5, <1>6, <2>1 DEF Files
<1> QED BY <1>5, <1>6, <1>7, <1>8

(* A length of whole pages.                                                 *)
Ends(f, at, g) ==
    /\ g \in Files /\ g.length = <<at, 0>>
    /\ \A n \in 1 .. LastPage : g.data[n] = IF n > at THEN Zero ELSE f.data[n]
    /\ DOMAIN g.log = {a \in DOMAIN f.log : a < at}
    /\ \A a \in DOMAIN g.log : g.log[a] = f.log[a]
    /\ g.state = f.state /\ g.size = f.size /\ g.offset = f.offset

(* The logs beyond the page are lost.                                       *)
LEMMA EndEffect ==
    ASSUME NEW f \in Files, NEW at \in Nat, NEW g, g = Apply(f, SetLength(at, 0))
    PROVE  Ends(f, at, g)
<1> DEFINE k == 0
<1>1. g = Apply(f, SetLength(at, k)) /\ k \in Nat /\ ~(k > 0) OBVIOUS
<1> HIDE DEF k
<1>2. /\ g \in Files /\ g.length = <<at, k>>
      /\ \A n \in 1 .. LastPage : g.data[n] = IF n > at THEN Zero ELSE f.data[n]
      /\ DOMAIN g.log = {a \in DOMAIN f.log : a < at \/ (a = at /\ k > 0)}
      /\ \A a \in DOMAIN g.log : g.log[a] = f.log[a]
      /\ g.state = f.state /\ g.size = f.size /\ g.offset = f.offset
  BY <1>1, LengthEffect
<1>3. {a \in DOMAIN f.log : a < at \/ (a = at /\ k > 0)} = {a \in DOMAIN f.log : a < at} BY <1>1
<1> QED BY <1>2, <1>3 DEF k, Ends

(* A page that is written whole, in part, or not at all.                    *)
LEMMA PageEffect ==
    ASSUME NEW f \in Files, NEW n \in Nat, NEW v \in Cells,
           NEW g \in {Apply(f, o) : o \in Outcomes(WritePage(n, v))}
    PROVE  /\ g \in Files
           /\ \A m \in 1 .. LastPage : m # n => g.data[m] = f.data[m]
           /\ g = Apply(f, WritePage(n, v)) /\ n \in 1 .. LastPage => g.data[n] = v
           /\ n \in 1 .. LastPage /\ f.data[n] = v => g.data[n] = v
           /\ g.state = f.state /\ g.size = f.size /\ g.offset = f.offset
           /\ g.length = f.length /\ g.log = f.log
<1>1. Outcomes(WritePage(n, v)) = {WritePage(n, v), [WritePage(n, v) EXCEPT !.op = "torn page"]}
  BY DEF Outcomes, WritePage
<1>2. f.data \in [1 .. LastPage -> Cells] BY FilesType
<1>3. CASE g = Apply(f, WritePage(n, v))
  <2>1. g = [f EXCEPT !.data[n] = v] BY <1>3 DEF Apply, WritePage
  <2>2. g \in Files BY <2>1 DEF Files
  <2>3. g.data = [f.data EXCEPT ![n] = v] BY <2>1 DEF Files
  <2>4. g.state = f.state /\ g.size = f.size /\ g.offset = f.offset
        /\ g.length = f.length /\ g.log = f.log BY <2>1 DEF Files
  <2> QED BY <2>2, <2>3, <2>4, <1>2
<1>4. CASE g = Apply(f, [WritePage(n, v) EXCEPT !.op = "torn page"])
  <2> DEFINE w == IF f.data[n] = v THEN f.data[n] ELSE Garbage
  <2>1. g = [f EXCEPT !.data[n] = w] BY <1>4 DEF Apply, WritePage
  <2>2. n \in 1 .. LastPage => w \in Cells BY <1>2 DEF Cells
  <2>3. g.data = [f.data EXCEPT ![n] = w] BY <2>1 DEF Files
  <2>4. g.state = f.state /\ g.size = f.size /\ g.offset = f.offset
        /\ g.length = f.length /\ g.log = f.log BY <2>1 DEF Files
  <2>5. g.data \in [1 .. LastPage -> Cells] BY <2>2, <2>3, <1>2
  <2>6. g \in Files
    <3>1. g = [f EXCEPT !.data = [f.data EXCEPT ![n] = w]] BY <2>1
    <3> HIDE DEF w
    <3> QED BY <2>3, <2>5, <3>1 DEF Files
  <2>7. Apply(f, WritePage(n, v)) = [f EXCEPT !.data[n] = v] BY DEF Apply, WritePage
  <2>8. g = Apply(f, WritePage(n, v)) /\ n \in 1 .. LastPage => g.data[n] = v
    <3> SUFFICES ASSUME g = Apply(f, WritePage(n, v)), n \in 1 .. LastPage PROVE g.data[n] = v
      OBVIOUS
    <3>1. g.data = [f.data EXCEPT ![n] = v] BY <2>7 DEF Files
    <3> QED BY <3>1, <1>2
  <2>9. \A m \in 1 .. LastPage : m # n => g.data[m] = f.data[m] BY <2>3, <1>2
  <2>10. n \in 1 .. LastPage /\ f.data[n] = v => g.data[n] = v BY <2>3, <1>2
  <2> QED BY <2>4, <2>6, <2>8, <2>9, <2>10
<1> QED BY <1>1, <1>3, <1>4

(* Logs at new places are logs.                                             *)
LEMMA LogsExtend ==
    ASSUME NEW log \in Logs, NEW places \in SUBSET Nat, NEW new,
           new = [at \in places |-> new[at]],
           \A at \in places : new[at] \in Seq(Record)
    PROVE  new \in Logs
<1>1. new \in [places -> Seq(Record)] OBVIOUS
<1> QED BY <1>1, LogsType

(* A record that is written after the last one is appended.                 *)
LEMMA PutRecordIsAppend ==
    ASSUME NEW log \in Seq(Record), NEW r \in Record
    PROVE  PutRecord(log, Len(log) + 1, r) = Append(log, r)
<1> DEFINE new == PutRecord(log, Len(log) + 1, r)
<1>1. Len(log) \in Nat OBVIOUS
<1>2. new = [j \in 1 .. Len(log) + 1 |-> IF j = Len(log) + 1 THEN r
                                         ELSE IF j <= Len(log) THEN log[j] ELSE Hole]
  BY <1>1 DEF PutRecord
<1>3. ASSUME NEW j \in 1 .. Len(log) + 1 PROVE new[j] = Append(log, r)[j]
  BY <1>1, <1>2
<1> QED BY <1>1, <1>2, <1>3

(* A record that is appended to a log at the end of the file.               *)
Recorded(f, at, r, g) ==
    /\ g \in Files
    /\ g.length = <<at, Len(LogAt(f, at)) + 1>>
    /\ DOMAIN g.log = DOMAIN f.log \union {at}
    /\ g.log[at] = Append(LogAt(f, at), r)
    /\ \A a \in DOMAIN f.log : a # at => g.log[a] = f.log[a]
    /\ g.state = f.state /\ g.size = f.size /\ g.offset = f.offset /\ g.data = f.data

(* The file ends with the record.                                           *)
LEMMA RecordEffect ==
    ASSUME NEW f \in Files, NEW at \in Nat, NEW r \in Record, NEW g,
           g = Apply(f, WriteRecord(at, Len(LogAt(f, at)) + 1, r)),
           f.length[1] < at \/ (f.length[1] = at /\ f.length[2] <= Len(LogAt(f, at)))
    PROVE  Recorded(f, at, r, g)
<1> DEFINE old == LogAt(f, at)
           i == Len(old) + 1
           log == [a \in DOMAIN f.log \union {at} |->
                      IF a = at THEN PutRecord(LogAt(f, a), i, r) ELSE f.log[a]]
<1>1. old \in Seq(Record) BY LogAtType
<1>2. i \in Nat /\ i > 0 /\ Len(old) \in Nat BY <1>1
<1>3. f.length[1] \in Nat /\ f.length[2] \in Nat BY FilesType
<1>4. ~(f.length[1] > at \/ (f.length[1] = at /\ f.length[2] >= i)) BY <1>2, <1>3
<1>5. g = [f EXCEPT !.log = log, !.length = <<at, i>>]
  <2> HIDE DEF old, i
  <2>1. WriteRecord(at, i, r).op = "record" /\ WriteRecord(at, i, r).at = at
        /\ WriteRecord(at, i, r).index = i /\ WriteRecord(at, i, r).record = r BY DEF WriteRecord
  <2>2. g = Apply(f, WriteRecord(at, i, r)) BY DEF i, old
  <2> DEFINE w == WriteRecord(at, i, r)
  <2> HIDE DEF w
  <2>3. g = [f EXCEPT !.log = [a \in DOMAIN f.log \union {w.at} |->
                                  IF a = w.at THEN PutRecord(LogAt(f, a), w.index, w.record) ELSE f.log[a]],
                      !.length = IF f.length[1] > w.at \/ (f.length[1] = w.at /\ f.length[2] >= w.index)
                                 THEN f.length ELSE <<w.at, w.index>>]
    <3>1. w.op = "record" BY <2>1 DEF w
    <3>2. g = Apply(f, w) BY <2>2 DEF w
    <3> QED BY <3>1, <3>2 DEF Apply
  <2>4. w.at = at /\ w.index = i /\ w.record = r BY <2>1 DEF w
  <2> QED BY <2>3, <2>4, <1>4
<1>6. PutRecord(old, i, r) = Append(old, r) BY <1>1, PutRecordIsAppend
<1>7. log \in Logs
  <2>1. f.log \in Logs BY FilesType
  <2>2. DOMAIN f.log \union {at} \in SUBSET Nat BY <2>1, LogsType
  <2>3. Append(old, r) \in Seq(Record) BY <1>1
  <2>4. \A a \in DOMAIN f.log \union {at} : log[a] \in Seq(Record) BY <2>1, <2>3, <1>6, LogsType
  <2>5. log = [a \in DOMAIN f.log \union {at} |-> log[a]] OBVIOUS
  <2> HIDE DEF log
  <2> QED BY <2>1, <2>2, <2>4, <2>5, LogsExtend
<1>8. <<at, i>> \in Nat \X Nat BY <1>2
<1>9. DOMAIN log = DOMAIN f.log \union {at} /\ log[at] = Append(old, r)
      /\ \A a \in DOMAIN f.log : a # at => log[a] = f.log[a]
  BY <1>6
<1> HIDE DEF log, i, old
<1>10. g \in Files BY <1>5, <1>7, <1>8 DEF Files
<1>11. g.log = log /\ g.length = <<at, i>> /\ g.state = f.state /\ g.size = f.size
       /\ g.offset = f.offset /\ g.data = f.data
  BY <1>5 DEF Files
<1> QED BY <1>9, <1>10, <1>11 DEF i, old, Recorded

CommittedLast(f, at, log, r, g) ==
    /\ g \in Files
    /\ DOMAIN g.log = DOMAIN f.log
    /\ g.log[at] = Append(log, [r EXCEPT !.committed = TRUE])
    /\ \A a \in DOMAIN f.log : a # at => g.log[a] = f.log[a]
    /\ g.state = f.state /\ g.size = f.size /\ g.offset = f.offset /\ g.data = f.data
    /\ g.length = f.length

(* The last record is marked as committed.                                  *)
LEMMA CommitEffect ==
    ASSUME NEW f \in Files, NEW at \in Nat, NEW log \in Seq(Record), NEW r \in Record, NEW g,
           at \in DOMAIN f.log, f.log[at] = Append(log, r),
           g = Apply(f, CommitRecord(at, Len(log) + 1))
    PROVE  CommittedLast(f, at, log, r, g)
<1> DEFINE i == Len(log) + 1
           s == [r EXCEPT !.committed = TRUE]
           new == [a \in DOMAIN f.log |-> IF a = at /\ i \in DOMAIN f.log[a]
                                          THEN [f.log[a] EXCEPT ![i].committed = TRUE]
                                          ELSE f.log[a]]
<1>1. i \in Nat /\ Len(log) \in Nat OBVIOUS
<1>2. g = [f EXCEPT !.log = new]
  <2> HIDE DEF i
  <2>1. CommitRecord(at, i).op = "commit" /\ CommitRecord(at, i).at = at
        /\ CommitRecord(at, i).index = i BY DEF CommitRecord
  <2>2. g = Apply(f, CommitRecord(at, i)) BY DEF i
  <2> QED BY <2>1, <2>2 DEF Apply
<1>3. i \in DOMAIN f.log[at] OBVIOUS
<1>4. new[at] = Append(log, s)
  <2>1. new[at] = [Append(log, r) EXCEPT ![i].committed = TRUE] BY <1>3
  <2>2. Append(log, r)[i] = r BY <1>1
  <2>3. new[at] = [Append(log, r) EXCEPT ![i] = s] BY <2>1, <2>2
  <2>4. s \in Record BY DEF Record
  <2> HIDE DEF s, new
  <2> DEFINE x == [Append(log, r) EXCEPT ![i] = s]
             y == Append(log, s)
             z == Append(log, r)
  <2>5. z \in Seq(Record) /\ Len(z) = i /\ \A j \in 1 .. Len(log) : z[j] = log[j]
    BY AppendProperties
  <2>6. y \in Seq(Record) /\ Len(y) = i /\ y[i] = s /\ \A j \in 1 .. Len(log) : y[j] = log[j]
    BY <2>4, AppendProperties
  <2>7. x \in Seq(Record) /\ Len(x) = i /\ x[i] = s /\ \A j \in 1 .. Len(log) : x[j] = log[j]
    <3>1. x = [z EXCEPT ![i] = s] OBVIOUS
    <3> HIDE DEF x, z
    <3>2. i \in 1 .. Len(z) BY <2>5, <1>1
    <3>3. x \in Seq(Record) /\ Len(x) = Len(z) /\ \A j \in 1 .. Len(z) : x[j] = IF j = i THEN s ELSE z[j]
      BY <3>1, <3>2, <2>4, <2>5, ExceptSeq
    <3> QED BY <3>2, <3>3, <2>5, <1>1
  <2> HIDE DEF x, y
  <2>8. \A j \in 1 .. Len(x) : x[j] = y[j] BY <2>6, <2>7, <1>1
  <2>9. x = y BY <2>6, <2>7, <2>8, SeqEqual
  <2> QED BY <2>3, <2>9 DEF x, y
<1>5. s \in Record BY DEF Record
<1>6. new \in Logs
  <2>1. f.log \in Logs BY FilesType
  <2>2. DOMAIN f.log \in SUBSET Nat BY <2>1, LogsType
  <2>3. Append(log, s) \in Seq(Record) BY <1>5
  <2>4. \A a \in DOMAIN f.log : a # at => new[a] = f.log[a] OBVIOUS
  <2>5. new = [a \in DOMAIN f.log |-> new[a]] OBVIOUS
  <2> HIDE DEF new, s
  <2>6. \A a \in DOMAIN f.log : new[a] \in Seq(Record) BY <2>1, <2>3, <2>4, <1>4, LogsType
  <2> QED BY <2>1, <2>2, <2>6, <2>5, LogsExtend
<1>7. DOMAIN new = DOMAIN f.log /\ \A a \in DOMAIN f.log : a # at => new[a] = f.log[a] OBVIOUS
<1> HIDE DEF new
<1>8. g \in Files BY <1>2, <1>6 DEF Files
<1>9. g.log = new /\ g.length = f.length /\ g.state = f.state /\ g.size = f.size
       /\ g.offset = f.offset /\ g.data = f.data
  BY <1>2 DEF Files
<1> QED BY <1>4, <1>7, <1>8, <1>9 DEF CommittedLast

Erased(f, at, g) ==
    /\ g \in Files
    /\ DOMAIN g.log = DOMAIN f.log \ {at}
    /\ \A a \in DOMAIN g.log : g.log[a] = f.log[a]
    /\ g.state = f.state /\ g.size = f.size /\ g.offset = f.offset /\ g.data = f.data
    /\ g.length = f.length

(* The log is gone, and nothing else.                                       *)
LEMMA EraseEffect ==
    ASSUME NEW f \in Files, NEW at \in Nat, NEW g, g = Apply(f, EraseLog(at))
    PROVE  Erased(f, at, g)
<1> DEFINE log == [a \in DOMAIN f.log \ {at} |-> f.log[a]]
<1>1. g = [f EXCEPT !.log = log] BY DEF Apply, EraseLog
<1>2. log \in Logs
  <2>1. f.log \in Logs BY FilesType
  <2>2. DOMAIN f.log \ {at} \in SUBSET Nat BY <2>1, LogsType
  <2>3. \A a \in DOMAIN f.log \ {at} : log[a] \in Seq(Record) BY <2>1, LogsType
  <2>4. log = [a \in DOMAIN f.log \ {at} |-> log[a]] OBVIOUS
  <2> HIDE DEF log
  <2> QED BY <2>1, <2>2, <2>3, <2>4, LogsExtend
<1>3. DOMAIN log = DOMAIN f.log \ {at} /\ \A a \in DOMAIN log : log[a] = f.log[a] OBVIOUS
<1> HIDE DEF log
<1>4. g \in Files BY <1>1, <1>2 DEF Files
<1>5. g.log = log /\ g.length = f.length /\ g.state = f.state /\ g.size = f.size
       /\ g.offset = f.offset /\ g.data = f.data
  BY <1>1 DEF Files
<1> QED BY <1>3, <1>4, <1>5 DEF Erased

-----------------------------------------------------------------------------
(* What the images are.                                                     *)
Active(f) == f.offset[f.state]
Log(f) == LogAt(f, Active(f))
Reading(f) == Reads(f, Active(f), 0)

(* What page n is after the records read have been undone is v.             *)
Undoes(log, read, data, n, v) ==
    \/ \E k \in read : /\ log[k].page = n /\ log[k].old = v
                       /\ \A j \in read : j < k => log[j].page # n
    \/ data[n] = v /\ \A k \in read : log[k].page # n

(* A file with content c and no log in use.                                 *)
Settled(f, c) ==
    /\ f.length = <<Len(c), 0>>
    /\ DOMAIN f.log = {}
    /\ \A n \in 1 .. LastPage : IF n <= Len(c) THEN f.data[n] = c[n] ELSE f.data[n] \in Values
    /\ f.state \in Slots => Active(f) >= Len(c)

(* A file with content c that is as long as create_rollback made it, and    *)
(* whose log in use has no record: init leaves it that long.                *)
Stretched(f, c) ==
    /\ EmptyLog(f) /\ Len(c) <= Active(f)
    /\ DOMAIN f.log = {}
    /\ \A n \in 1 .. LastPage : IF n <= Len(c) THEN f.data[n] = c[n] ELSE f.data[n] \in Values

Whole(f, c) == Settled(f, c) \/ Stretched(f, c)

(* A file in the midst of a transaction, from which init makes content c.   *)
Undoable(f, c) ==
    /\ f.state \in Slots
    /\ f.size = Len(c) /\ Len(c) < Active(f) /\ ~NoLog(f)
    /\ \A at \in DOMAIN f.log : at > Len(c)
    /\ \A k \in Reading(f) : Log(f)[k].crc
    /\ \A n \in 1 .. Len(c) : Undoes(Log(f), Reading(f), f.data, n, c[n])

(* The pages that recovery writes.                                          *)
Covered(f) == IF f.state = CLEAN \/ NoLog(f) THEN {} ELSE {Log(f)[k].page : k \in Reading(f)}

(* Recovering f does no harm to what a crash may leave instead.             *)
Guarded(f, im, c) ==
    \A i \in im : Undoable(i, c) \/ (Whole(i, c) /\ Covered(f) = {})

(* Whatever a crash leaves, recovery makes one of the contents cs of it.    *)
Crashable(d, cs) ==
    /\ d.file \in d.images /\ d.images \subseteq Files
    /\ \A i \in d.images : \E c \in cs : Whole(i, c) \/ Undoable(i, c)
    /\ d.file.state = CLEAN => \E c \in cs : \A i \in d.images : Settled(i, c)
    /\ d.file.state # CLEAN /\ ~NoLog(d.file) =>
          \E c \in cs : Undoable(d.file, c) /\ Guarded(d.file, d.images, c)

-----------------------------------------------------------------------------
(* Plans.                                                                   *)
Disk(f, im) == [file |-> f, images |-> im]
After(d, o) == Disk(Apply(d.file, o), OrderedImages(d.file, d.images, o))

IsPlan(ops) == \E S : ops \in Seq(S)

(* The plan takes disk d to disk e, and a crash may hit it anywhere.        *)
Leads(d, ops, e, cs) ==
    /\ IsPlan(ops)
    /\ \E r : /\ r[0] = d /\ r[Len(ops)] = e
              /\ \A n \in 0 .. Len(ops) : Crashable(r[n], cs)
              /\ \A n \in 1 .. Len(ops) : r[n] = After(r[n - 1], ops[n])

(* A disk is the file as the program sees it and its images.                *)
LEMMA DiskFields == \A f, im : Disk(f, im).file = f /\ Disk(f, im).images = im
BY DEF Disk

(* What an operation makes of both.                                         *)
LEMMA AfterFields ==
    \A d, o : /\ After(d, o).file = Apply(d.file, o)
              /\ After(d, o).images = OrderedImages(d.file, d.images, o)
BY DEF After, Disk

(* The same, of a disk given by its parts.                                  *)
LEMMA AfterDisk ==
    \A f, im, o : After(Disk(f, im), o) = Disk(Apply(f, o), OrderedImages(f, im, o))
BY DEF After, Disk

(* The images of a header whose state is written before the sync.           *)
LEMMA AfterState ==
    \A f, im, s : After(Disk(f, im), SetState(s)) =
        Disk(Apply(f, SetState(s)), im \union {Apply(i, SetState(s)) : i \in im})
<1> TAKE f, im, s
<1>1. OrderedImages(f, im, SetState(s)) = im \union {Apply(i, SetState(s)) : i \in im}
  BY DEF OrderedImages, Lengthens, Outcomes, SetState, Sync
<1> QED BY <1>1, AfterDisk

(* The same of the size,                                                    *)
LEMMA AfterSize ==
    \A f, im, n : After(Disk(f, im), SetSize(n)) =
        Disk(Apply(f, SetSize(n)), im \union {Apply(i, SetSize(n)) : i \in im})
<1> TAKE f, im, n
<1>1. OrderedImages(f, im, SetSize(n)) = im \union {Apply(i, SetSize(n)) : i \in im}
  BY DEF OrderedImages, Lengthens, Outcomes, SetSize, Sync
<1> QED BY <1>1, AfterDisk

(* of the place of a log,                                                   *)
LEMMA AfterOffset ==
    \A f, im, s, n : After(Disk(f, im), SetOffset(s, n)) =
        Disk(Apply(f, SetOffset(s, n)), im \union {Apply(i, SetOffset(s, n)) : i \in im})
<1> TAKE f, im, s, n
<1>1. OrderedImages(f, im, SetOffset(s, n)) = im \union {Apply(i, SetOffset(s, n)) : i \in im}
  BY DEF OrderedImages, Lengthens, Outcomes, SetOffset, Sync
<1> QED BY <1>1, AfterDisk

(* of the length, which survives or not,                                    *)
LEMMA AfterLength ==
    \A f, im, at, k : After(Disk(f, im), SetLength(at, k)) =
        Disk(Apply(f, SetLength(at, k)), im \union {Apply(f, SetLength(at, k))})
<1> TAKE f, im, at, k
<1>1. OrderedImages(f, im, SetLength(at, k)) = im \union {Apply(f, SetLength(at, k))}
  BY DEF OrderedImages, Lengthens, Outcomes, SetLength, Sync
<1> QED BY <1>1, AfterDisk

(* and of a page, which may survive in part.                                *)
LEMMA AfterPage ==
    \A f, im, n, v : After(Disk(f, im), WritePage(n, v)) =
        Disk(Apply(f, WritePage(n, v)), im \union {Apply(i, o) : i \in im, o \in Outcomes(WritePage(n, v))})
<1> TAKE f, im, n, v
<1>1. OrderedImages(f, im, WritePage(n, v)) = im \union {Apply(i, o) : i \in im, o \in Outcomes(WritePage(n, v))}
  BY DEF OrderedImages, Lengthens, WritePage, Sync
<1> QED BY <1>1, AfterDisk

(* A record that was written in part.                                       *)
Spoilt(r) == [r EXCEPT !.crc = FALSE]

(* A record survives whole, in part, or not at all.                         *)
LEMMA AfterRecord ==
    \A f, im, at, k, r : After(Disk(f, im), WriteRecord(at, k, r)) =
        Disk(Apply(f, WriteRecord(at, k, r)), im \union {Apply(f, WriteRecord(at, k, r)),
                                                    Apply(f, WriteRecord(at, k, Spoilt(r)))})
<1> TAKE f, im, at, k, r
<1>1. OrderedImages(f, im, WriteRecord(at, k, r)) = im \union {Apply(f, WriteRecord(at, k, r)),
                                                    Apply(f, WriteRecord(at, k, Spoilt(r)))}
  <2>1. Outcomes(WriteRecord(at, k, r))
            = {WriteRecord(at, k, r), WriteRecord(at, k, Spoilt(r))}
    BY DEF Outcomes, WriteRecord, Spoilt
  <2>2. Lengthens(WriteRecord(at, k, r)) /\ WriteRecord(at, k, r) # Sync
    BY DEF Lengthens, WriteRecord, Sync
  <2> QED BY <2>1, <2>2 DEF OrderedImages
<1> QED BY <1>1, AfterDisk

(* The mark of a record survives or not,                                    *)
LEMMA AfterCommit ==
    \A f, im, at, k : After(Disk(f, im), CommitRecord(at, k)) =
        Disk(Apply(f, CommitRecord(at, k)), im \union {Apply(i, CommitRecord(at, k)) : i \in im})
<1> TAKE f, im, at, k
<1>1. OrderedImages(f, im, CommitRecord(at, k)) = im \union {Apply(i, CommitRecord(at, k)) : i \in im}
  BY DEF OrderedImages, Lengthens, Outcomes, CommitRecord, Sync
<1> QED BY <1>1, AfterDisk

(* and so does what erases a log.                                           *)
LEMMA AfterErase ==
    \A f, im, at : After(Disk(f, im), EraseLog(at)) =
        Disk(Apply(f, EraseLog(at)), im \union {Apply(i, EraseLog(at)) : i \in im})
<1> TAKE f, im, at
<1>1. OrderedImages(f, im, EraseLog(at)) = im \union {Apply(i, EraseLog(at)) : i \in im}
  BY DEF OrderedImages, Lengthens, Outcomes, EraseLog, Sync
<1> QED BY <1>1, AfterDisk

(* Crashable, with its definitions expanded.                                *)
LEMMA CrashableDisk ==
    \A f, im, cs : Crashable(Disk(f, im), cs) <=>
        /\ f \in im /\ im \subseteq Files
        /\ \A i \in im : \E c \in cs : Whole(i, c) \/ Undoable(i, c)
        /\ f.state = CLEAN => \E c \in cs : \A i \in im : Settled(i, c)
        /\ f.state # CLEAN /\ ~NoLog(f) => \E c \in cs : Undoable(f, c) /\ Guarded(f, im, c)
BY DiskFields DEF Crashable

(* Plans are finite, and so are two plans one after the other.              *)
LEMMA PlanType ==
    /\ IsPlan(<<>>)
    /\ \A o : IsPlan(<<o>>)
    /\ \A a, b : IsPlan(a) /\ IsPlan(b) => IsPlan(a \o b)
<1>1. IsPlan(<<>>) BY EmptySeq DEF IsPlan
<1>2. ASSUME NEW o PROVE IsPlan(<<o>>)
  <2>1. <<o>> \in Seq({o}) OBVIOUS
  <2> QED BY <2>1 DEF IsPlan
<1>3. ASSUME NEW a, NEW b, IsPlan(a), IsPlan(b) PROVE IsPlan(a \o b)
  <2>1. PICK S : a \in Seq(S) BY <1>3 DEF IsPlan
  <2>2. PICK T : b \in Seq(T) BY <1>3 DEF IsPlan
  <2>3. a \in Seq(S \union T) /\ b \in Seq(S \union T) BY <2>1, <2>2, SeqMonotonic
  <2>4. a \o b \in Seq(S \union T) BY <2>3, ConcatProperties
  <2> QED BY <2>4 DEF IsPlan
<1> QED BY <1>1, <1>2, <1>3

(* Where the operations of two plans are.                                   *)
LEMMA PlanConcat ==
    ASSUME NEW a, NEW b, IsPlan(a), IsPlan(b)
    PROVE  /\ Len(a) \in Nat /\ Len(b) \in Nat /\ Len(a \o b) = Len(a) + Len(b)
           /\ \A n \in 1 .. Len(a) : (a \o b)[n] = a[n]
           /\ \A n \in Len(a) + 1 .. Len(a) + Len(b) : (a \o b)[n] = b[n - Len(a)]
<1>1. PICK S : a \in Seq(S) BY DEF IsPlan
<1>2. PICK T : b \in Seq(T) BY DEF IsPlan
<1>3. a \in Seq(S \union T) /\ b \in Seq(S \union T) BY <1>1, <1>2, SeqMonotonic
<1> QED BY <1>3, ConcatProperties, LenProperties

(* The empty plan leads nowhere.                                            *)
LEMMA LeadsNone ==
    ASSUME NEW d, NEW cs, Crashable(d, cs)
    PROVE  Leads(d, <<>>, d, cs)
<1> DEFINE r == [n \in {0} |-> d]
<1>1. r[0] = d /\ r[Len(<<>>)] = d OBVIOUS
<1>2. \A n \in 0 .. Len(<<>>) : Crashable(r[n], cs)
  <2>1. 0 .. Len(<<>>) = {0} OBVIOUS
  <2> QED BY <2>1
<1>3. \A n \in 1 .. Len(<<>>) : r[n] = After(r[n - 1], <<>>[n]) OBVIOUS
<1> QED BY <1>1, <1>2, <1>3, PlanType DEF Leads

(* A plan of one operation.                                                 *)
LEMMA LeadsOne ==
    ASSUME NEW d, NEW o, NEW cs, Crashable(d, cs), Crashable(After(d, o), cs)
    PROVE  Leads(d, <<o>>, After(d, o), cs)
<1> DEFINE r == [n \in {0, 1} |-> IF n = 0 THEN d ELSE After(d, o)]
<1>1. r[0] = d /\ r[1] = After(d, o) OBVIOUS
<1> HIDE DEF r
<1>2. \A n \in 0 .. 1 : Crashable(r[n], cs)
  <2>1. 0 .. 1 = {0, 1} OBVIOUS
  <2> QED BY <1>1, <2>1
<1>3. \A n \in 1 .. 1 : r[n] = After(r[n - 1], <<o>>[n])
  <2>1. 1 .. 1 = {1} /\ 1 - 1 = 0 /\ <<o>>[1] = o OBVIOUS
  <2> QED BY <1>1, <2>1
<1>4. Len(<<o>>) = 1 OBVIOUS
<1> QED BY <1>1, <1>2, <1>3, <1>4, PlanType DEF Leads

(* A plan that follows another.                                             *)
LEMMA LeadsThen ==
    ASSUME NEW d, NEW e, NEW g, NEW a, NEW b, NEW cs, Leads(d, a, e, cs), Leads(e, b, g, cs)
    PROVE  Leads(d, a \o b, g, cs)
<1>1. IsPlan(a) /\ IsPlan(b) BY DEF Leads
<1>2. PICK r : /\ r[0] = d /\ r[Len(a)] = e
              /\ \A n \in 0 .. Len(a) : Crashable(r[n], cs)
              /\ \A m \in 1 .. Len(a) : r[m] = After(r[m - 1], a[m])
  BY DEF Leads
<1>3. PICK s : /\ s[0] = e /\ s[Len(b)] = g
              /\ \A n \in 0 .. Len(b) : Crashable(s[n], cs)
              /\ \A m \in 1 .. Len(b) : s[m] = After(s[m - 1], b[m])
  BY DEF Leads
<1> DEFINE A == Len(a)
           B == Len(b)
           ab == a \o b
           q == [n \in Nat |-> IF n <= A THEN r[n] ELSE s[n - A]]
<1>4. A \in Nat /\ B \in Nat /\ Len(ab) = A + B
      /\ (\A n \in 1 .. A : ab[n] = a[n])
      /\ \A n \in A + 1 .. A + B : ab[n] = b[n - A]
  BY <1>1, PlanConcat
<1>5. \A n \in 0 .. A : q[n] = r[n] BY <1>4
<1>6. \A n \in A .. A + B : q[n] = s[n - A]
  <2> TAKE n \in A .. A + B
  <2>1. CASE n = A BY <2>1, <1>2, <1>3, <1>4
  <2>2. CASE n > A BY <2>2, <1>4
  <2> QED BY <2>1, <2>2, <1>4
<1> HIDE DEF q, ab, A, B
<1>7. q[0] = d BY <1>2, <1>5, <1>4
<1>8. q[A + B] = g
  <2>1. A + B \in A .. A + B /\ (A + B) - A = B BY <1>4
  <2> QED BY <2>1, <1>6, <1>3 DEF B
<1>9. ASSUME NEW n \in 0 .. A + B PROVE Crashable(q[n], cs)
  <2>1. CASE n \in 0 .. A BY <2>1, <1>5, <1>2 DEF A
  <2>2. CASE n \in A .. A + B
    <3>1. n - A \in 0 .. B BY <2>2, <1>4
    <3> QED BY <2>2, <3>1, <1>6, <1>3 DEF B
  <2> QED BY <2>1, <2>2, <1>4
<1>10. ASSUME NEW n \in 1 .. A + B PROVE q[n] = After(q[n - 1], ab[n])
  <2>1. CASE n \in 1 .. A
    <3>1. n \in 0 .. A /\ n - 1 \in 0 .. A BY <2>1, <1>4
    <3>2. r[n] = After(r[n - 1], a[n]) BY <2>1, <1>2 DEF A
    <3> QED BY <2>1, <3>1, <3>2, <1>5, <1>4
  <2>2. CASE n \in A + 1 .. A + B
    <3>1. n \in A .. A + B /\ n - 1 \in A .. A + B /\ n - A \in 1 .. B /\ (n - 1) - A = (n - A) - 1
      BY <2>2, <1>4
    <3>2. s[n - A] = After(s[(n - A) - 1], b[n - A]) BY <3>1, <1>3 DEF B
    <3> QED BY <2>2, <3>1, <3>2, <1>6, <1>4
  <2> QED BY <2>1, <2>2, <1>4
<1>11. IsPlan(ab) BY <1>1, PlanType DEF ab
<1> QED BY <1>4, <1>7, <1>8, <1>9, <1>10, <1>11 DEF Leads, ab

(* The first operation of a plan, and the plan that is left.                *)
LEMMA LeadsStep ==
    ASSUME NEW d, NEW e, NEW ops, NEW cs, Leads(d, ops, e, cs), ops # <<>>
    PROVE  Crashable(d, cs) /\ Leads(After(d, Head(ops)), Tail(ops), e, cs)
<1>1. PICK S : ops \in Seq(S) BY DEF Leads, IsPlan
<1>2. PICK r : /\ r[0] = d /\ r[Len(ops)] = e
              /\ \A n \in 0 .. Len(ops) : Crashable(r[n], cs)
              /\ \A m \in 1 .. Len(ops) : r[m] = After(r[m - 1], ops[m])
  BY DEF Leads
<1> DEFINE N == Len(ops)
           rest == Tail(ops)
<1>3. N \in Nat /\ N > 0 BY <1>1, EmptySeq
<1>4. rest \in Seq(S) /\ Len(rest) = N - 1 /\ \A n \in 1 .. N - 1 : rest[n] = ops[n + 1]
  BY <1>1, HeadTailProperties
<1>5. Head(ops) = ops[1] BY <1>1
<1> DEFINE q == [n \in Nat |-> r[n + 1]]
<1>6. \A n \in 0 .. N - 1 : q[n] = r[n + 1] BY <1>3
<1>7. q[0] = After(d, Head(ops))
  <2>1. 1 \in 1 .. N /\ 0 \in 0 .. N - 1 /\ 0 + 1 = 1 /\ 1 - 1 = 0 BY <1>3
  <2> HIDE DEF q
  <2> QED BY <1>2, <1>5, <1>6, <2>1
<1> HIDE DEF q, rest
<1>8. q[Len(rest)] = e
  <2>1. N - 1 \in 0 .. N - 1 /\ (N - 1) + 1 = N BY <1>3
  <2> QED BY <2>1, <1>2, <1>4, <1>6
<1>9. ASSUME NEW n \in 0 .. Len(rest) PROVE Crashable(q[n], cs)
  <2>1. n \in 0 .. N - 1 /\ n + 1 \in 0 .. N BY <1>3, <1>4
  <2> QED BY <2>1, <1>2, <1>6
<1>10. ASSUME NEW n \in 1 .. Len(rest) PROVE q[n] = After(q[n - 1], rest[n])
  <2>1. n \in 1 .. N - 1 /\ n \in 0 .. N - 1 /\ n - 1 \in 0 .. N - 1 /\ n + 1 \in 1 .. N /\ (n - 1) + 1 = (n + 1) - 1
    BY <1>3, <1>4
  <2>2. r[n + 1] = After(r[(n + 1) - 1], ops[n + 1]) BY <2>1, <1>2
  <2> QED BY <2>1, <2>2, <1>4, <1>6
<1>11. IsPlan(rest) BY <1>4 DEF IsPlan
<1>12. Crashable(d, cs) BY <1>2, <1>3
<1> QED BY <1>7, <1>8, <1>9, <1>10, <1>11, <1>12 DEF Leads, rest

(* Both ends of a plan, as ApplyAll computes the second.                    *)
LEMMA LeadsEnd ==
    ASSUME NEW d, NEW e, NEW ops, NEW cs, Leads(d, ops, e, cs)
    PROVE  /\ Crashable(d, cs) /\ Crashable(e, cs)
           /\ ApplyAll(d.file, ops) = e.file
           /\ ops = <<>> => d = e
<1>1. PICK S : ops \in Seq(S) BY DEF Leads, IsPlan
<1>2. PICK r : /\ r[0] = d /\ r[Len(ops)] = e
              /\ \A n \in 0 .. Len(ops) : Crashable(r[n], cs)
              /\ \A m \in 1 .. Len(ops) : r[m] = After(r[m - 1], ops[m])
  BY DEF Leads
<1> DEFINE N == Len(ops)
           Runs(g) == g = [n \in 0 .. N |-> IF n = 0 THEN d.file ELSE Apply(g[n - 1], ops[n])]
<1>3. N \in Nat BY <1>1
<1>4. \E g : Runs(g)
  <2> DEFINE g == [n \in 0 .. N |-> r[n].file]
  <2>1. ASSUME NEW n \in 0 .. N PROVE g[n] = IF n = 0 THEN d.file ELSE Apply(g[n - 1], ops[n])
    <3>1. CASE n = 0 BY <3>1, <1>2
    <3>2. CASE n # 0
      <4>1. n \in 1 .. N /\ n - 1 \in 0 .. N BY <3>2, <1>3
      <4>2. r[n].file = Apply(r[n - 1].file, ops[n])
        <5>1. r[n] = After(r[n - 1], ops[n]) BY <4>1, <1>2
        <5> QED BY <5>1, AfterFields
      <4>3. g[n] = r[n].file /\ g[n - 1] = r[n - 1].file BY <4>1
      <4> HIDE DEF g
      <4> QED BY <3>2, <4>2, <4>3
    <3> QED BY <3>1, <3>2
  <2> DEFINE h == [n \in 0 .. N |-> IF n = 0 THEN d.file ELSE Apply(g[n - 1], ops[n])]
  <2>2. g = [n \in 0 .. N |-> g[n]] OBVIOUS
  <2> HIDE DEF g
  <2>3. g = h BY <2>1, <2>2
  <2> QED BY <2>3
<1> DEFINE g == CHOOSE g : Runs(g)
<1>5. Runs(g) BY <1>4
<1>6. ApplyAll(d.file, ops) = g[N] BY DEF ApplyAll
<1> HIDE DEF g
<1>7. g[0] = d.file /\ \A n \in 1 .. N : g[n] = Apply(g[n - 1], ops[n])
  <2> DEFINE h == [n \in 0 .. N |-> IF n = 0 THEN d.file ELSE Apply(g[n - 1], ops[n])]
  <2>1. g = h BY <1>5
  <2>2. h[0] = d.file /\ \A n \in 1 .. N : h[n] = Apply(g[n - 1], ops[n]) BY <1>3
  <2> HIDE DEF h
  <2> QED BY <2>1, <2>2
<1> DEFINE P == {n \in Nat : n <= N => g[n] = r[n].file}
<1>8. 0 \in P BY <1>7, <1>2
<1>9. ASSUME NEW n \in Nat, n \in P PROVE n + 1 \in P
  <2> SUFFICES ASSUME n + 1 <= N PROVE g[n + 1] = r[n + 1].file OBVIOUS
  <2>1. n + 1 \in 1 .. N /\ (n + 1) - 1 = n BY <1>3
  <2>2. g[n] = r[n].file BY <1>9, <1>3
  <2>3. g[n + 1] = Apply(g[n], ops[n + 1]) BY <2>1, <1>7
  <2>4. r[n + 1] = After(r[n], ops[n + 1]) BY <2>1, <1>2
  <2> QED BY <2>2, <2>3, <2>4, AfterFields
<1>10. N \in P
  <2> HIDE DEF P
  <2> QED BY <1>3, <1>8, <1>9, SetInduction
<1>11. ApplyAll(d.file, ops) = e.file BY <1>3, <1>6, <1>10, <1>2
<1>12. Crashable(d, cs) /\ Crashable(e, cs)
  <2>1. 0 \in 0 .. N /\ N \in 0 .. N BY <1>3
  <2> QED BY <2>1, <1>2
<1>13. ops = <<>> => d = e BY <1>2
<1> QED BY <1>11, <1>12, <1>13

(* More contents allowed to the crash do no harm,                           *)
LEMMA CrashableMore ==
    ASSUME NEW d, NEW cs, NEW more, cs \subseteq more, Crashable(d, cs)
    PROVE  Crashable(d, more)
BY DEF Crashable

(* nor on the way.                                                          *)
LEMMA LeadsMore ==
    ASSUME NEW d, NEW e, NEW ops, NEW cs, NEW more, cs \subseteq more, Leads(d, ops, e, cs)
    PROVE  Leads(d, ops, e, more)
BY CrashableMore DEF Leads

-----------------------------------------------------------------------------
(* Lemmas about the images.                                                 *)
LEMMA ContentType ==
    ASSUME NEW c \in Contents
    PROVE  /\ c \in Seq(Values) /\ Len(c) \in Nat /\ Len(c) \in 1 .. LastPage
           /\ \A n \in 1 .. Len(c) : c[n] \in Values /\ n \in 1 .. LastPage
BY FileImageAssumption DEF Contents

(* Where a length that is not of whole pages ends.                          *)
LEMMA CeilOf ==
    /\ \A n \in Nat : Ceil(<<n, 0>>) = n
    /\ \A n, k \in Nat : k > 0 => Ceil(<<n, k>>) > n
    /\ \A f \in Files : /\ Ceil(f.length) \in Nat /\ Ceil(f.length) >= f.length[1]
                        /\ f.length[2] > 0 => Ceil(f.length) > f.length[1]
                        /\ f.length[2] = 0 => Ceil(f.length) = f.length[1]
<1>1. \A n \in Nat : Ceil(<<n, 0>>) = n BY DEF Ceil
<1>2. \A n, k \in Nat : k > 0 => Ceil(<<n, k>>) > n BY DEF Ceil
<1>3. \A f \in Files : f.length[1] \in Nat /\ f.length[2] \in Nat BY FilesType
<1>4. \A f \in Files : /\ Ceil(f.length) \in Nat /\ Ceil(f.length) >= f.length[1]
                       /\ f.length[2] > 0 => Ceil(f.length) > f.length[1]
                       /\ f.length[2] = 0 => Ceil(f.length) = f.length[1] BY <1>3 DEF Ceil
<1> QED BY <1>1, <1>2, <1>4

(* The log in use, and what recovery reads of it.                           *)
LEMMA ActiveType ==
    ASSUME NEW f \in Files, f.state \in Slots
    PROVE  /\ Active(f) \in Nat /\ Log(f) \in Seq(Record) /\ f.state # CLEAN
           /\ Reading(f) \subseteq 1 .. Len(Log(f))
<1>1. Active(f) \in Nat BY FilesType DEF Active
<1>2. Log(f) \in Seq(Record) BY <1>1, LogAtType DEF Log
<1>3. Reading(f) \subseteq 1 .. Len(Log(f)) BY <1>1, <1>2 DEF Reading, Reads, Log
<1> QED BY <1>1, <1>2, <1>3 DEF Slots, USE_FIRST, USE_SECOND, CLEAN

(* The states are clean and two that name a log.                            *)
LEMMA StateCases ==
    /\ CLEAN \in States /\ Slots \subseteq States /\ CLEAN \notin Slots
    /\ USE_FIRST \in Slots /\ USE_SECOND \in Slots /\ USE_FIRST # USE_SECOND
    /\ \A s \in Slots : s = USE_FIRST \/ s = USE_SECOND
    /\ \A f \in Files : f.state # CLEAN <=> f.state \in Slots
<1>1. \A f \in Files : f.state \in States BY FilesType
<1> QED BY <1>1 DEF States, Slots, USE_FIRST, USE_SECOND, CLEAN

(* A settled file has no log in use.                                        *)
LEMMA SettledNoLog ==
    ASSUME NEW f \in Files, NEW c \in Contents, Settled(f, c), f.state \in Slots
    PROVE  NoLog(f) /\ Covered(f) = {}
<1>1. f.length = <<Len(c), 0>> /\ Active(f) >= Len(c) BY DEF Settled
<1>2. Ceil(f.length) = Len(c) BY <1>1, ContentType, CeilOf
<1>3. NoLog(f) BY <1>1, <1>2 DEF NoLog, Active
<1> QED BY <1>3 DEF Covered

(* An empty log in use restores nothing.                                    *)
LEMMA EmptyNoLog ==
    ASSUME NEW f \in Files, EmptyLog(f)
    PROVE  f.state \in Slots /\ NoLog(f) /\ Covered(f) = {}
<1>1. f.state \in Slots /\ f.length = <<Active(f), 0>> BY StateCases DEF EmptyLog, Active
<1>2. Active(f) \in Nat BY <1>1, ActiveType
<1>3. Ceil(f.length) = Active(f) BY <1>1, <1>2, CeilOf
<1>4. NoLog(f) BY <1>2, <1>3 DEF NoLog, Active
<1> QED BY <1>1, <1>4 DEF Covered

(* Neither of a settled file nor of a stretched one.                        *)
LEMMA WholeNoLog ==
    ASSUME NEW f \in Files, NEW c \in Contents, Whole(f, c), f.state \in Slots
    PROVE  NoLog(f) /\ Covered(f) = {} /\ ~Undoable(f, c)
<1>1. CASE Settled(f, c) BY <1>1, SettledNoLog DEF Undoable
<1>2. CASE Stretched(f, c) BY <1>2, EmptyNoLog DEF Stretched, Undoable
<1> QED BY <1>1, <1>2 DEF Whole

(* Two files that differ only in the size that is restored, and in the      *)
(* place of a log that is not in use.                                       *)
LEMMA Alike ==
    ASSUME NEW f \in Files, NEW g \in Files, NEW c,
           g.state = f.state, g.length = f.length, g.data = f.data, g.log = f.log,
           f.state \in Slots => g.offset[f.state] = f.offset[f.state]
    PROVE  /\ Settled(f, c) => Settled(g, c)
           /\ Stretched(f, c) => Stretched(g, c)
           /\ Undoable(f, c) /\ g.size = f.size => Undoable(g, c)
           /\ Covered(g) = Covered(f)
<1>1. CASE f.state \in Slots
  <2>1. Active(g) = Active(f) BY <1>1 DEF Active
  <2>2. Log(g) = Log(f) /\ Reading(g) = Reading(f) BY <2>1 DEF Log, Reading, Reads, LogAt
  <2>3. NoLog(g) <=> NoLog(f) BY <1>1 DEF NoLog
  <2> QED BY <1>1, <2>1, <2>2, <2>3 DEF EmptyLog, Settled, Stretched, Undoable, Covered
<1>2. CASE f.state \notin Slots
  <2>1. f.state = CLEAN BY <1>2, StateCases
  <2> QED BY <1>2, <2>1 DEF EmptyLog, Settled, Stretched, Undoable, Covered
<1> QED BY <1>1, <1>2

(* Two files with the same log in use.                                      *)
LEMMA SameLog ==
    ASSUME NEW f \in Files, NEW g \in Files, NEW c, Undoable(f, c),
           g.state = f.state, Active(g) = Active(f), g.size = f.size, ~NoLog(g),
           LogAt(g, Active(f)) = Log(f),
           \A at \in DOMAIN g.log : at > Len(c),
           \A n \in 1 .. Len(c) : g.data[n] = f.data[n]
    PROVE  Undoable(g, c) /\ Covered(g) = Covered(f)
<1>1. Log(g) = Log(f) /\ Reading(g) = Reading(f) BY DEF Log, Reading, Reads
<1>2. \A n \in 1 .. Len(c) : Undoes(Log(g), Reading(g), g.data, n, c[n])
  BY <1>1 DEF Undoable, Undoes
<1>3. Undoable(g, c) BY <1>1, <1>2 DEF Undoable
<1> QED BY <1>1, <1>3 DEF Undoable, Covered

(* A crash of a settled file is harmless,                                   *)
LEMMA SettledCrashable ==
    ASSUME NEW f, NEW im \in SUBSET Files, f \in im, NEW c \in Contents, NEW cs, c \in cs,
           \A i \in im : Settled(i, c)
    PROVE  Crashable(Disk(f, im), cs)
<1>1. f.state # CLEAN => NoLog(f) BY SettledNoLog, StateCases
<1> QED BY <1>1, CrashableDisk DEF Whole

(* and so is one where every image is undone.                               *)
LEMMA GuardedCrashable ==
    ASSUME NEW f, NEW im \in SUBSET Files, f \in im, NEW c \in Contents, NEW cs, c \in cs,
           Guarded(f, im, c), f.state # CLEAN
    PROVE  Crashable(Disk(f, im), cs)
<1>1. Undoable(f, c) \/ Whole(f, c) BY DEF Guarded
<1>2. ~NoLog(f) => Undoable(f, c) BY <1>1, WholeNoLog, StateCases
<1>3. \A i \in im : \E b \in cs : Whole(i, b) \/ Undoable(i, b) BY DEF Guarded
<1> QED BY <1>2, <1>3, CrashableDisk

(* After a sync the file is its only image.                                 *)
LEMMA SyncLeads ==
    ASSUME NEW f, NEW im, NEW cs, cs \subseteq Contents, Crashable(Disk(f, im), cs)
    PROVE  Leads(Disk(f, im), <<Sync>>, Disk(f, {f}), cs)
<1>1. f \in im /\ im \subseteq Files BY CrashableDisk
<1>2. After(Disk(f, im), Sync) = Disk(f, {f})
  <2>1. f \in Files BY <1>1
  <2>2. Apply(f, Sync) = f /\ OrderedImages(f, im, Sync) = {f} BY <2>1, SyncEffect
  <2>3. After(Disk(f, im), Sync) = Disk(Apply(f, Sync), OrderedImages(f, im, Sync)) BY AfterDisk
  <2> QED BY <2>2, <2>3
<1>3. Crashable(Disk(f, {f}), cs)
  <2>1. \E c \in cs : Whole(f, c) \/ Undoable(f, c) BY <1>1, CrashableDisk
  <2>2. f.state = CLEAN => \E c \in cs : Settled(f, c) BY <1>1, CrashableDisk
  <2>3. f.state # CLEAN /\ ~NoLog(f) => \E c \in cs : Undoable(f, c) BY CrashableDisk
  <2>4. \A c : Undoable(f, c) => Guarded(f, {f}, c) BY DEF Guarded
  <2> QED BY <1>1, <2>1, <2>2, <2>3, <2>4, CrashableDisk
<1> QED BY <1>2, <1>3, LeadsOne

(* The header is cleaned when the content is settled.                       *)
LEMMA CleanLeads ==
    ASSUME NEW f \in Files, NEW c \in Contents, NEW cs, c \in cs, cs \subseteq Contents, Settled(f, c)
    PROVE  \E e : /\ Leads(Disk(f, {f}), Clean, e, cs)
                  /\ e.file.state = CLEAN /\ \A i \in e.images : Settled(i, c)
<1> DEFINE d0 == Disk(f, {f})
           f1 == Apply(f, SetState(CLEAN))
           d1 == Disk(f1, {f, f1})
           d2 == Disk(f1, {f1})
<1>1. f1 \in Files /\ f1.state = CLEAN /\ Settled(f1, c)
  <2>1. f1 \in Files /\ f1.state = CLEAN /\ f1.length = f.length /\ f1.data = f.data /\ f1.log = f.log
    BY StateEffect, StateCases
  <2> QED BY <2>1, StateCases DEF Settled
<1>2. Crashable(d0, cs) BY SettledCrashable
<1>3. After(d0, SetState(CLEAN)) = d1
  <2>1. {f} \union {Apply(i, SetState(CLEAN)) : i \in {f}} = {f, f1} OBVIOUS
  <2> QED BY <2>1, AfterState
<1>4. Crashable(d1, cs) BY <1>1, SettledCrashable
<1>5. Leads(d0, <<SetState(CLEAN)>>, d1, cs) BY <1>2, <1>3, <1>4, LeadsOne
<1>6. Leads(d1, <<Sync>>, d2, cs) BY <1>4, SyncLeads
<1> DEFINE S == {i \in Files : i.state = CLEAN /\ Settled(i, c)}
<1>7. ASSUME NEW g \in S, NEW h \in Files, h.state = g.state, h.length = g.length, h.data = g.data, h.log = g.log
      PROVE  h \in S
  BY <1>7, StateCases DEF Settled
<1>8. ASSUME NEW g \in S, NEW im \in SUBSET S, g \in im
      PROVE  Crashable(Disk(g, im), cs)
  BY <1>8, SettledCrashable
<1> DEFINE Good(d) == \E g \in S, im \in SUBSET S : g \in im /\ d = Disk(g, im)
<1>9. ASSUME NEW d, Good(d)
      PROVE  /\ Good(After(d, SetSize(0))) /\ Leads(d, <<SetSize(0)>>, After(d, SetSize(0)), cs)
             /\ \A s \in Slots : /\ Good(After(d, SetOffset(s, 0)))
                                 /\ Leads(d, <<SetOffset(s, 0)>>, After(d, SetOffset(s, 0)), cs)
  <2>1. PICK g \in S, im \in SUBSET S : g \in im /\ d = Disk(g, im) BY <1>9
  <2>2. ASSUME NEW i \in S PROVE Apply(i, SetSize(0)) \in S
    <3> DEFINE h == Apply(i, SetSize(0))
    <3>1. h \in Files /\ h.state = i.state /\ h.length = i.length /\ h.data = i.data /\ h.log = i.log
      BY SizeEffect
    <3> HIDE DEF h
    <3> QED BY <1>7, <3>1 DEF h
  <2>3. ASSUME NEW i \in S, NEW s \in Slots PROVE Apply(i, SetOffset(s, 0)) \in S
    <3> DEFINE h == Apply(i, SetOffset(s, 0))
    <3>1. h \in Files /\ h.state = i.state /\ h.length = i.length /\ h.data = i.data /\ h.log = i.log
      <4>1. i \in Files /\ 0 \in Nat /\ h = Apply(i, SetOffset(s, 0)) OBVIOUS
      <4> HIDE DEF S, h
      <4> QED BY <4>1, OffsetEffect
    <3> HIDE DEF h
    <3> QED BY <1>7, <3>1 DEF h
  <2>4. Good(After(d, SetSize(0)))
    <3> DEFINE im2 == im \union {Apply(i, SetSize(0)) : i \in im}
    <3>1. After(d, SetSize(0)) = Disk(Apply(g, SetSize(0)), im2) BY <2>1, AfterSize
    <3>2. im2 \in SUBSET S /\ Apply(g, SetSize(0)) \in im2 BY <2>1, <2>2
    <3> HIDE DEF S, im2
    <3> QED BY <3>1, <3>2, <2>1, <2>2
  <2>5. ASSUME NEW s \in Slots PROVE Good(After(d, SetOffset(s, 0)))
    <3> DEFINE im2 == im \union {Apply(i, SetOffset(s, 0)) : i \in im}
    <3>1. After(d, SetOffset(s, 0)) = Disk(Apply(g, SetOffset(s, 0)), im2) BY <2>1, AfterOffset
    <3>2. im2 \in SUBSET S /\ Apply(g, SetOffset(s, 0)) \in im2 BY <2>1, <2>3
    <3> HIDE DEF S, im2
    <3> QED BY <3>1, <3>2, <2>1, <2>3
  <2>6. \A x : Good(x) => Crashable(x, cs)
    <3> HIDE DEF S
    <3> QED BY <1>8
  <2> HIDE DEF Good
  <2> QED BY <1>9, <2>4, <2>5, <2>6, LeadsOne
<1>10. Good(d2) BY <1>1
<1> DEFINE d3 == After(d2, SetSize(0))
           d4 == After(d3, SetOffset(USE_FIRST, 0))
           d5 == After(d4, SetOffset(USE_SECOND, 0))
<1>11. ASSUME NEW d, Good(d)
       PROVE  \E e : Good(e) /\ Leads(d, <<Sync>>, e, cs)
  <2>1. PICK g \in S, im \in SUBSET S : g \in im /\ d = Disk(g, im) BY <1>11
  <2>2. Leads(d, <<Sync>>, Disk(g, {g}), cs) BY <2>1, <1>8, SyncLeads
  <2> QED BY <2>1, <2>2
<1>12. ASSUME NEW d, Good(d) PROVE d.file.state = CLEAN /\ \A i \in d.images : Settled(i, c)
  BY <1>12, DiskFields
<1> HIDE DEF Good, d0, d1, d2
<1>13. Good(d3) /\ Good(d4) /\ Good(d5) BY <1>9, <1>10, StateCases
<1>14. PICK e : Good(e) /\ Leads(d5, <<Sync>>, e, cs) BY <1>11, <1>13
<1>15. /\ Leads(d2, <<SetSize(0)>>, d3, cs) /\ Leads(d3, <<SetOffset(USE_FIRST, 0)>>, d4, cs)
       /\ Leads(d4, <<SetOffset(USE_SECOND, 0)>>, d5, cs)
  BY <1>9, <1>10, <1>13, StateCases
<1> HIDE DEF d3, d4, d5
<1>16. Leads(d0, <<SetState(CLEAN)>> \o <<Sync>> \o <<SetSize(0)>> \o <<SetOffset(USE_FIRST, 0)>>
                   \o <<SetOffset(USE_SECOND, 0)>> \o <<Sync>>, e, cs)
  BY <1>5, <1>6, <1>14, <1>15, LeadsThen
<1>17. Clean = <<SetState(CLEAN)>> \o <<Sync>> \o <<SetSize(0)>> \o <<SetOffset(USE_FIRST, 0)>>
                   \o <<SetOffset(USE_SECOND, 0)>> \o <<Sync>>
  BY DEF Clean
<1> QED BY <1>12, <1>14, <1>16, <1>17 DEF d0

-----------------------------------------------------------------------------
(* A write transaction.                                                     *)
Buffers == [start : Nat, undo : Seq(1 .. LastPage), dirty : SUBSET (1 .. LastPage)]
Txns == [size : 1 .. LastPage, state : States, offset : Nat, hole : Nat, buffers : Seq(Buffers)]

(* Before it changes anything.                                              *)
Fresh(f, im, t, b) ==
    /\ t.state = CLEAN /\ f.state = CLEAN
    /\ \A i \in im : Settled(i, b[1])
    /\ \A l \in 1 .. Top(t) : b[l] = b[1] /\ t.buffers[l] = Buffer(0)

(* The log that it has.                                                     *)
LogKept(f, t) ==
    /\ t.state \in Slots /\ f.state = t.state /\ f.offset[t.state] = t.offset
    /\ DOMAIN f.log = IF LogAt(f, t.offset) = <<>> THEN {} ELSE {t.offset}
    /\ f.length = <<t.offset, Len(LogAt(f, t.offset))>>
    /\ \A k \in 1 .. Len(LogAt(f, t.offset)) :
          LogAt(f, t.offset)[k].committed /\ LogAt(f, t.offset)[k].crc /\ LogAt(f, t.offset)[k].old \in Values

(* The records of a nested transaction.                                     *)
Span(f, t, l) == t.buffers[l].start + 1 .. Len(LogAt(f, t.offset))

(* Rolling back the transactions from level l on gives content b[l].        *)
Nested(f, t, b) ==
    \A l \in 1 .. Top(t) :
        /\ t.buffers[l].start <= Len(LogAt(f, t.offset))
        /\ \A m \in 1 .. Top(t) : l <= m => t.buffers[l].start <= t.buffers[m].start
        /\ Len(b[l]) <= t.offset
        /\ \A n \in 1 .. Len(b[l]) : Undoes(LogAt(f, t.offset), Span(f, t, l), f.data, n, b[l][n])
        /\ \A n \in t.buffers[l].dirty : \E k \in Span(f, t, l) : LogAt(f, t.offset)[k].page = n

(* What a crash may leave of it.                                            *)
Imaged(f, im, s, c) ==
    /\ f \in im /\ im \subseteq Files /\ Guarded(f, im, c)
    /\ \A i \in im : i.state = s /\ Covered(f) \subseteq Covered(i)

Logged(f, im, t, b) ==
    /\ LogKept(f, t) /\ Nested(f, t, b)
    /\ t.hole > 0 /\ t.buffers[1].start = 0
    /\ f.size = Len(b[1]) /\ Len(b[1]) < t.offset
    /\ Imaged(f, im, t.state, b[1])

Writing(f, im, t, b) ==
    /\ t \in Txns /\ b \in Seq(Contents) /\ Len(b) = Top(t) /\ Top(t) > 0
    /\ f \in im /\ im \subseteq Files
    /\ \A n \in 1 .. LastPage : f.data[n] \in Values
    /\ \A l \in 1 .. Top(t) :
          Len(b[l]) = IF t.buffers[l].undo # <<>> THEN t.buffers[l].undo[1]
                      ELSE IF l = Top(t) THEN t.size ELSE Len(b[l + 1])
    /\ IF t.offset = 0 THEN Fresh(f, im, t, b) ELSE Logged(f, im, t, b)

(* The file ends before its log.                                            *)
Fits(t) == t.offset # 0 => t.size <= t.offset

(* The fields of a transaction.                                             *)
LEMMA TxnFields ==
    ASSUME NEW t \in Txns, Top(t) > 0
    PROVE  /\ t.size \in Nat /\ t.size \in 1 .. LastPage /\ t.state \in States /\ t.offset \in Nat /\ t.hole \in Nat
           /\ t.buffers \in Seq(Buffers) /\ Top(t) \in Nat
           /\ \A l \in 1 .. Top(t) : /\ t.buffers[l] \in Buffers
                                     /\ t.buffers[l].start \in Nat
                                     /\ t.buffers[l].undo \in Seq(1 .. LastPage)
                                     /\ t.buffers[l].dirty \in SUBSET (1 .. LastPage)
<1>1. t.buffers \in Seq(Buffers) /\ Top(t) \in Nat BY DEF Txns, Top
<1>2. \A l \in 1 .. Top(t) : t.buffers[l] \in Buffers BY <1>1 DEF Top
<1>3. t.size \in 1 .. LastPage /\ t.state \in States /\ t.offset \in Nat /\ t.hole \in Nat BY DEF Txns
<1>4. t.size \in Nat BY <1>3, FileImageAssumption
<1>5. \A l \in 1 .. Top(t) : /\ t.buffers[l].start \in Nat
                             /\ t.buffers[l].undo \in Seq(1 .. LastPage)
                             /\ t.buffers[l].dirty \in SUBSET (1 .. LastPage)
  BY <1>2 DEF Buffers
<1> QED BY <1>1, <1>2, <1>3, <1>4, <1>5

(* What follows from Writing by its definition.                             *)
LEMMA WritingFields ==
    ASSUME NEW f, NEW im, NEW t, NEW b, Writing(f, im, t, b)
    PROVE  /\ t \in Txns /\ Top(t) \in Nat /\ Top(t) > 0 /\ f \in im /\ f \in Files /\ im \in SUBSET Files
           /\ \A l \in 1 .. Top(t) : b[l] \in Contents /\ Len(b[l]) \in Nat
           /\ 1 \in 1 .. Top(t) /\ Top(t) \in 1 .. Top(t)
           /\ b[1] \in Contents /\ Len(b[1]) \in Nat
           /\ t.offset # 0 => /\ t.state \in Slots /\ f.state = t.state /\ Active(f) = t.offset
                              /\ Log(f) = LogAt(f, t.offset)
                              /\ LogAt(f, t.offset) \in Seq(Record)
<1>1. t \in Txns /\ Top(t) > 0 /\ f \in im /\ f \in Files /\ im \in SUBSET Files BY DEF Writing
<1>2. Top(t) \in Nat BY <1>1, TxnFields
<1>3. \A l \in 1 .. Top(t) : b[l] \in Contents BY <1>2 DEF Writing
<1>4. \A l \in 1 .. Top(t) : Len(b[l]) \in Nat BY <1>3, ContentType
<1>5. 1 \in 1 .. Top(t) /\ Top(t) \in 1 .. Top(t) BY <1>1, <1>2
<1>6. ASSUME t.offset # 0
      PROVE /\ t.state \in Slots /\ f.state = t.state /\ Active(f) = t.offset
            /\ Log(f) = LogAt(f, t.offset)
            /\ LogAt(f, t.offset) \in Seq(Record)
  <2>1. t.state \in Slots /\ f.state = t.state /\ Active(f) = t.offset
    BY <1>6 DEF Writing, Logged, LogKept, Active
  <2>2. t.offset \in Nat BY <1>1, TxnFields
  <2> QED BY <1>1, <2>1, <2>2, LogAtType DEF Log
<1> QED BY <1>1, <1>2, <1>3, <1>4, <1>5, <1>6

(* The pages in the log.                                                    *)
LEMMA LoggedReads ==
    ASSUME NEW f, NEW im, NEW t, NEW b, Writing(f, im, t, b), t.offset # 0
    PROVE  /\ Reading(f) = 1 .. Len(Log(f))
           /\ Covered(f) = {Log(f)[k].page : k \in 1 .. Len(Log(f))}
           /\ Log(f) = <<>> <=> NoLog(f)
           /\ Log(f) = <<>> <=> EmptyLog(f)
<1>1. /\ f \in Files /\ f.state \in Slots /\ f.state # CLEAN /\ Active(f) = t.offset /\ f.state = t.state
      /\ Log(f) = LogAt(f, t.offset) /\ Log(f) \in Seq(Record)
  BY WritingFields, StateCases
<1>2. f.length = <<t.offset, Len(Log(f))>> /\ \A k \in 1 .. Len(Log(f)) : Log(f)[k].committed
  BY <1>1 DEF Writing, Logged, LogKept
<1>3. Len(Log(f)) \in Nat /\ (Len(Log(f)) = 0 <=> Log(f) = <<>>) BY <1>1, EmptySeq
<1>4. Reading(f) = 1 .. Len(Log(f))
  <2>1. Reading(f) = {i \in 0 + 1 .. Len(Log(f)) : \A j \in 0 + 1 .. i : Log(f)[j].committed}
    BY <1>1 DEF Reading, Reads, Log
  <2> QED BY <1>2, <1>3, <2>1
<1>5. t.offset \in Nat BY WritingFields, TxnFields
<1>6. Len(Log(f)) = 0 <=> NoLog(f)
  <2>1. NoLog(f) <=> t.offset >= Ceil(f.length) BY <1>1 DEF NoLog, Active
  <2>2. Ceil(<<t.offset, 0>>) = t.offset BY <1>5, CeilOf
  <2>3. Len(Log(f)) > 0 => Ceil(<<t.offset, Len(Log(f))>>) > t.offset BY <1>3, <1>5, CeilOf
  <2>4. Ceil(f.length) \in Nat BY <1>1, CeilOf
  <2> QED BY <2>1, <2>2, <2>3, <2>4, <1>2, <1>3, <1>5
<1>7. Len(Log(f)) = 0 <=> EmptyLog(f) BY <1>1, <1>2 DEF EmptyLog, Active
<1>8. Covered(f) = {Log(f)[k].page : k \in 1 .. Len(Log(f))}
  <2>1. CASE NoLog(f) BY <2>1, <1>6, <1>3 DEF Covered
  <2>2. CASE ~NoLog(f) BY <2>2, <1>4, <1>1 DEF Covered
  <2> QED BY <2>1, <2>2
<1> QED BY <1>3, <1>4, <1>6, <1>7, <1>8

(* A crash within a transaction restores what was there when it began.      *)
LEMMA WritingCrashable ==
    ASSUME NEW f, NEW im, NEW t, NEW b, Writing(f, im, t, b)
    PROVE  Crashable(Disk(f, im), {b[1]})
<1>1. f \in im /\ im \in SUBSET Files /\ b[1] \in Contents BY WritingFields
<1>2. CASE t.offset = 0
  BY <1>1, <1>2, SettledCrashable DEF Writing, Fresh
<1>3. CASE t.offset # 0
  <2>1. f.state # CLEAN BY <1>3, WritingFields, StateCases
  <2>2. Guarded(f, im, b[1]) BY <1>3 DEF Writing, Logged, Imaged
  <2> QED BY <1>1, <2>1, <2>2, GuardedCrashable
<1> QED BY <1>2, <1>3

(* A settled file whose header changes.                                     *)
LEMMA SettledHeader ==
    ASSUME NEW f \in Files, NEW g \in Files, NEW c, Settled(f, c),
           g.length = f.length, g.data = f.data, g.log = f.log,
           g.state \in Slots => Active(g) >= Len(c)
    PROVE  Settled(g, c)
BY DEF Settled

(* The header may prepare for a log while the content is settled.           *)
LEMMA SettledOps ==
    ASSUME NEW f \in Files, NEW c \in Contents, Settled(f, c), NEW at \in Nat, at >= Len(c)
    PROVE  /\ Settled(Apply(f, SetSize(at)), c)
           /\ \A s \in Slots : Settled(Apply(f, SetOffset(s, at)), c)
           /\ \A s \in Slots : f.offset[s] = at => Settled(Apply(f, SetState(s)), c)
<1>0. f.state \in Slots => Active(f) >= Len(c) BY DEF Settled
<1>1. Settled(Apply(f, SetSize(at)), c)
  <2> DEFINE g == Apply(f, SetSize(at))
  <2>1. g \in Files /\ g.length = f.length /\ g.data = f.data /\ g.log = f.log
        /\ g.state = f.state /\ g.offset = f.offset
    BY SizeEffect
  <2> HIDE DEF g
  <2>2. Settled(g, c) BY <1>0, <2>1, SettledHeader DEF Active
  <2> QED BY <2>2 DEF g
<1>2. ASSUME NEW s \in Slots PROVE Settled(Apply(f, SetOffset(s, at)), c)
  <2> DEFINE g == Apply(f, SetOffset(s, at))
  <2>1. g \in Files /\ g.length = f.length /\ g.data = f.data /\ g.log = f.log
        /\ g.state = f.state /\ g.offset[s] = at /\ \A r \in Slots : r # s => g.offset[r] = f.offset[r]
    BY OffsetEffect
  <2> HIDE DEF g
  <2>2. g.state \in Slots => Active(g) >= Len(c) BY <1>0, <2>1 DEF Active
  <2>3. Settled(g, c) BY <2>1, <2>2, SettledHeader
  <2> QED BY <2>3 DEF g
<1>3. ASSUME NEW s \in Slots, f.offset[s] = at PROVE Settled(Apply(f, SetState(s)), c)
  <2> DEFINE g == Apply(f, SetState(s))
  <2>1. g \in Files /\ g.length = f.length /\ g.data = f.data /\ g.log = f.log
        /\ g.state = s /\ g.offset = f.offset
    BY StateEffect, StateCases
  <2> HIDE DEF g
  <2>2. Settled(g, c) BY <1>3, <2>1, SettledHeader DEF Active
  <2> QED BY <2>2 DEF g
<1> QED BY <1>1, <1>2, <1>3

Moved(t, s, o, h) == [t EXCEPT !.state = s, !.offset = o, !.hole = h]

HasMoved(t, s, o, h, u) ==
    /\ u \in Txns /\ u.size = t.size /\ u.buffers = t.buffers /\ Top(u) = Top(t)
    /\ u.state = s /\ u.offset = o /\ u.hole = h

(* What a transaction becomes when its log has a new place.                 *)
LEMMA TxnMoved ==
    ASSUME NEW t \in Txns, NEW s \in States, NEW o \in Nat, NEW h \in Nat
    PROVE  HasMoved(t, s, o, h, Moved(t, s, o, h))
<1> DEFINE u == Moved(t, s, o, h)
<1>1. u.size = t.size /\ u.buffers = t.buffers /\ u.state = s /\ u.offset = o /\ u.hole = h
  BY DEF Txns, Moved
<1>2. u \in Txns BY DEF Txns, Moved
<1> QED BY <1>1, <1>2 DEF Top, HasMoved

(* A step whose operations keep the transaction going.                      *)
Reaches(f, im, b, step, e) ==
    /\ Leads(Disk(f, im), step.ops, e, {b[1]})
    /\ Writing(e.file, e.images, step.txn, b)
    /\ Fits(step.txn)

(* A step is what the transaction becomes and what is done to the file.     *)
LEMMA StepFields ==
    \A t, ops : Step(t, ops).txn = t /\ Step(t, ops).ops = ops
BY DEF Step

(* create_rollback: a log that is empty, and then in use.                   *)
LEMMA CreateReaches ==
    ASSUME NEW f, NEW im, NEW t, NEW b, Writing(f, im, t, b), Fits(t)
    PROVE  \E e : /\ Reaches(f, im, b, CreateRollback(t, f), e)
                  /\ CreateRollback(t, f).txn.offset # 0
                  /\ CreateRollback(t, f).txn.size = t.size
                  /\ CreateRollback(t, f).txn.buffers = t.buffers
                  /\ \A n \in 1 .. t.size : e.file.data[n] = f.data[n]
<1> DEFINE c == b[1]
           o == t.size + 2
           u == CreateRollback(t, f).txn
<1>0. /\ f \in Files /\ f \in im /\ im \in SUBSET Files /\ c \in Contents /\ t \in Txns
      /\ Top(t) > 0 /\ Top(t) \in Nat /\ 1 \in 1 .. Top(t) /\ Top(t) \in 1 .. Top(t)
  BY WritingFields
<1>1. CASE t.offset # 0
  <2>1. CreateRollback(t, f) = Step(t, <<>>) BY <1>1 DEF CreateRollback
  <2>2. CreateRollback(t, f).txn = t /\ CreateRollback(t, f).ops = <<>> BY <2>1 DEF Step
  <2>3. Leads(Disk(f, im), <<>>, Disk(f, im), {c}) BY WritingCrashable, LeadsNone
  <2>4. Reaches(f, im, b, CreateRollback(t, f), Disk(f, im)) BY <2>2, <2>3, DiskFields DEF Reaches
  <2> QED BY <1>1, <2>2, <2>4, DiskFields
<1>2. CASE t.offset = 0
  <2>0. Fresh(f, im, t, b) BY <1>2 DEF Writing
  <2>1. t.size \in 1 .. LastPage /\ t.size \in Nat /\ o \in Nat /\ o # 0 /\ o > t.size BY <1>0, TxnFields
  <2>2. t.size = Len(c)
    <3>1. t.buffers[Top(t)].undo = <<>> /\ b[Top(t)] = c BY <2>0, <1>0 DEF Fresh, Buffer
    <3> QED BY <3>1, <1>0 DEF Writing
  <2>3. t.state = CLEAN BY <2>0 DEF Fresh
  <2>4. CreateRollback(t, f) =
          Step([t EXCEPT !.state = USE_FIRST, !.offset = o, !.hole = 2],
               <<SetSize(t.size)>> \o <<SetOffset(USE_FIRST, o), Sync, SetState(USE_FIRST), Sync, SetLength(o, 0)>>)
    BY <1>2, <2>3 DEF CreateRollback
  <2> DEFINE ops == <<SetSize(t.size)>> \o <<SetOffset(USE_FIRST, o)>> \o <<Sync>> \o <<SetState(USE_FIRST)>>
                    \o <<Sync>> \o <<SetLength(o, 0)>>
  <2>5. CreateRollback(t, f).ops = ops /\ u = [t EXCEPT !.state = USE_FIRST, !.offset = o, !.hole = 2]
    BY <2>4 DEF Step
  <2>6. /\ u \in Txns /\ u.size = t.size /\ u.buffers = t.buffers /\ u.state = USE_FIRST
        /\ u.offset = o /\ u.hole = 2 /\ Top(u) = Top(t)
    <3>1. t \in Txns /\ USE_FIRST \in States /\ o \in Nat /\ 2 \in Nat BY <1>0, <2>1, StateCases
    <3>2. u = Moved(t, USE_FIRST, o, 2) BY <2>5 DEF Moved
    <3> HIDE DEF u, o
    <3>3. HasMoved(t, USE_FIRST, o, 2, u) BY <3>1, <3>2, TxnMoved
    <3> QED BY <3>3 DEF HasMoved
  <2> HIDE DEF u
  <2> DEFINE f1 == Apply(f, SetSize(t.size))
             im1 == im \union {Apply(i, SetSize(t.size)) : i \in im}
             f2 == Apply(f1, SetOffset(USE_FIRST, o))
             im2 == im1 \union {Apply(i, SetOffset(USE_FIRST, o)) : i \in im1}
             f3 == Apply(f2, SetState(USE_FIRST))
             f4 == Apply(f3, SetLength(o, 0))
  <2>a. f1 = Apply(f, SetSize(t.size)) /\ f2 = Apply(f1, SetOffset(USE_FIRST, o))
        /\ f3 = Apply(f2, SetState(USE_FIRST)) /\ f4 = Apply(f3, SetLength(o, 0))
    OBVIOUS
  <2>7. \A i \in im : Settled(i, c) BY <2>0 DEF Fresh
  <2>8. /\ f1 \in im1 /\ im1 \in SUBSET Files /\ \A i \in im1 : Settled(i, c)
        /\ After(Disk(f, im), SetSize(t.size)) = Disk(f1, im1)
    <3>1. ASSUME NEW i \in im PROVE Apply(i, SetSize(t.size)) \in Files /\ Settled(Apply(i, SetSize(t.size)), c)
      <4>1. i \in Files /\ Settled(i, c) BY <2>7, <1>0
      <4> DEFINE h == Apply(i, SetSize(t.size))
      <4>2. h \in Files BY <4>1, <2>1, SizeEffect
      <4>3. Settled(h, c) BY <4>1, <2>1, <2>2, <1>0, SettledOps
      <4> QED BY <4>2, <4>3
    <3>2. After(Disk(f, im), SetSize(t.size)) = Disk(f1, im1) BY AfterSize
    <3> QED BY <3>1, <3>2, <2>7, <1>0
  <2> HIDE DEF im1
  <2>9. /\ f2 \in im2 /\ im2 \in SUBSET Files /\ \A i \in im2 : Settled(i, c)
        /\ After(Disk(f1, im1), SetOffset(USE_FIRST, o)) = Disk(f2, im2)
    <3>1. ASSUME NEW i \in im1 PROVE Apply(i, SetOffset(USE_FIRST, o)) \in Files /\ Settled(Apply(i, SetOffset(USE_FIRST, o)), c)
      <4>1. i \in Files /\ Settled(i, c) BY <2>8
      <4> DEFINE h == Apply(i, SetOffset(USE_FIRST, o))
      <4>2. h \in Files BY <4>1, <2>1, OffsetEffect, StateCases
      <4>3. Settled(h, c) BY <4>1, <2>1, <2>2, <1>0, SettledOps, StateCases
      <4> QED BY <4>2, <4>3
    <3>2. After(Disk(f1, im1), SetOffset(USE_FIRST, o)) = Disk(f2, im2) BY AfterOffset
    <3> QED BY <3>1, <3>2, <2>8
  <2> HIDE DEF im2
  <2> HIDE DEF f1, f2, f3, f4, o
  <2>10. f1 \in Files /\ f1.size = Len(c) /\ f1.data = f.data
    <3>1. f \in Files /\ t.size \in Nat /\ f1 = Apply(f, SetSize(t.size)) BY <1>0, <2>1, <2>a
    <3>2. f1 \in Files /\ f1.size = t.size /\ f1.data = f.data BY <3>1, SizeEffect
    <3> QED BY <3>2, <2>2
  <2>11. f2 \in Files /\ f2.size = Len(c) /\ f2.data = f.data /\ f2.offset[USE_FIRST] = o
    <3>1. f1 \in Files /\ USE_FIRST \in Slots /\ o \in Nat /\ f2 = Apply(f1, SetOffset(USE_FIRST, o))
      BY <2>1, <2>10, <2>a, StateCases
    <3>2. f2 \in Files /\ f2.size = f1.size /\ f2.data = f1.data /\ f2.offset[USE_FIRST] = o
      BY <3>1, OffsetEffect
    <3> QED BY <3>2, <2>10
  <2>12. f3 \in Files /\ f3.size = Len(c) /\ f3.data = f.data /\ f3.offset[USE_FIRST] = o /\ f3.state = USE_FIRST
    BY <2>11, <2>a, StateEffect, StateCases
  <2>13. Settled(f2, c) /\ Settled(f3, c)
    <3>1. Settled(f2, c) BY <2>9
    <3>2. o >= Len(c) BY <2>1, <2>2
    <3> QED BY <3>1, <3>2, <2>1, <2>11, <2>a, <1>0, SettledOps, StateCases
  <2>14. After(Disk(f2, {f2}), SetState(USE_FIRST)) = Disk(f3, {f2, f3})
    <3>1. {f2} \union {Apply(i, SetState(USE_FIRST)) : i \in {f2}} = {f2, f3} BY <2>a
    <3> QED BY <3>1, <2>a, AfterState
  <2>15. /\ f4 \in Files /\ f4.length = <<o, 0>> /\ DOMAIN f4.log = {} /\ f4.state = USE_FIRST
         /\ f4.size = Len(c) /\ f4.offset[USE_FIRST] = o
         /\ \A n \in 1 .. LastPage : f4.data[n] = IF n > o THEN Zero ELSE f.data[n]
    <3>1. DOMAIN f3.log = {} BY <2>13 DEF Settled
    <3>2. f3 \in Files /\ o \in Nat /\ f4 = Apply(f3, SetLength(o, 0)) BY <2>1, <2>12, <2>a
    <3>3. Ends(f3, o, f4) BY <3>2, EndEffect
    <3>4. DOMAIN f4.log = {} BY <3>1, <3>3 DEF Ends
    <3> QED BY <2>12, <3>3, <3>4 DEF Ends
  <2>16. After(Disk(f3, {f3}), SetLength(o, 0)) = Disk(f4, {f3, f4})
    <3>1. {f3} \union {f4} = {f3, f4} OBVIOUS
    <3> QED BY <3>1, AfterLength DEF f4
  <2>17. EmptyLog(f4) /\ Covered(f4) = {}
    <3>1. EmptyLog(f4) BY <2>15, StateCases DEF EmptyLog
    <3> QED BY <3>1, <2>15, EmptyNoLog
  <2>18. LogAt(f4, o) = <<>> BY <2>15 DEF LogAt
  <2>19. Logged(f4, {f3, f4}, u, b)
    <3>1. LogKept(f4, u)
      <4>1. Len(<<>>) = 0 /\ 1 .. 0 = {} OBVIOUS
      <4> QED BY <4>1, <2>6, <2>15, <2>18, StateCases DEF LogKept
    <3>2. \A l \in 1 .. Top(t) : t.buffers[l].start = 0 /\ t.buffers[l].dirty = {} /\ b[l] = c
      BY <2>0 DEF Fresh, Buffer
    <3>3. \A l \in 1 .. Top(u) : Span(f4, u, l) = {}
      <4>1. Len(<<>>) = 0 /\ 0 + 1 .. 0 = {} OBVIOUS
      <4> QED BY <4>1, <3>2, <2>18, <2>6 DEF Span
    <3>4. Nested(f4, u, b)
      <4> SUFFICES ASSUME NEW l \in 1 .. Top(u)
                   PROVE  /\ u.buffers[l].start <= Len(LogAt(f4, u.offset))
                          /\ \A m \in 1 .. Top(u) : l <= m => u.buffers[l].start <= u.buffers[m].start
                          /\ Len(b[l]) <= u.offset
                          /\ \A n \in 1 .. Len(b[l]) : Undoes(LogAt(f4, u.offset), Span(f4, u, l), f4.data, n, b[l][n])
                          /\ \A n \in u.buffers[l].dirty : \E k \in Span(f4, u, l) : LogAt(f4, u.offset)[k].page = n
        BY DEF Nested
      <4>1. u.buffers[l].start <= Len(LogAt(f4, u.offset)) BY <2>6, <2>18, <3>2
      <4>2. \A m \in 1 .. Top(u) : l <= m => u.buffers[l].start <= u.buffers[m].start BY <2>6, <3>2
      <4>3. Len(b[l]) <= u.offset BY <2>1, <2>2, <2>6, <3>2
      <4>4. ASSUME NEW n \in 1 .. Len(b[l])
            PROVE  Undoes(LogAt(f4, u.offset), Span(f4, u, l), f4.data, n, b[l][n])
        <5>1. b[l] = c BY <3>2, <2>6
        <5>2. n \in 1 .. LastPage /\ n <= Len(c) BY <5>1, <1>0, ContentType
        <5>3. f.data[n] = c[n] BY <5>2, <2>7, <1>0 DEF Settled
        <5>4. f4.data[n] = c[n] BY <5>2, <5>3, <2>15, <2>1, <2>2
        <5> QED BY <5>1, <5>4, <3>3 DEF Undoes
      <4> QED BY <4>1, <4>2, <4>3, <4>4, <3>2, <2>6
    <3>5. Guarded(f4, {f3, f4}, c)
      <4>1. \A n \in 1 .. LastPage : n <= Len(c) => n <= o BY <2>1, <2>2
      <4>2. \A n \in 1 .. LastPage : IF n <= Len(c) THEN f.data[n] = c[n] ELSE f.data[n] \in Values
        BY <2>7, <1>0 DEF Settled
      <4>3. \A n \in 1 .. LastPage : IF n <= Len(c) THEN f4.data[n] = c[n] ELSE f4.data[n] \in Values
        BY <4>1, <4>2, <2>1, <2>2, <2>15, FileImageAssumption
      <4>4. Active(f4) = o BY <2>15 DEF Active
      <4>5. Stretched(f4, c) BY <4>3, <4>4, <2>1, <2>2, <2>15, <2>17 DEF Stretched
      <4> QED BY <4>5, <2>13, <2>17 DEF Guarded, Whole
    <3>6. \A i \in {f3, f4} : i.state = u.state /\ Covered(f4) \subseteq Covered(i)
      BY <2>12, <2>15, <2>17, <2>6
    <3>7. Imaged(f4, {f3, f4}, u.state, b[1]) BY <3>5, <3>6, <2>12, <2>15 DEF Imaged
    <3> QED BY <3>1, <3>2, <3>4, <3>7, <2>1, <2>2, <2>6, <2>15, <1>0 DEF Logged
  <2>20. Writing(f4, {f3, f4}, u, b)
    <3>1. \A n \in 1 .. LastPage : f4.data[n] \in Values
      BY <2>15, FileImageAssumption DEF Writing
    <3>2. \A l \in 1 .. Top(u) :
            Len(b[l]) = IF u.buffers[l].undo # <<>> THEN u.buffers[l].undo[1]
                        ELSE IF l = Top(u) THEN u.size ELSE Len(b[l + 1])
      BY <2>6 DEF Writing
    <3>3. b \in Seq(Contents) /\ Len(b) = Top(u) /\ Top(u) > 0 BY <2>6 DEF Writing
    <3> QED BY <3>1, <3>2, <3>3, <2>1, <2>6, <2>12, <2>15, <2>19 DEF Writing
  <2>21. /\ Crashable(Disk(f, im), {c}) /\ Crashable(Disk(f1, im1), {c})
         /\ Crashable(Disk(f2, im2), {c}) /\ Crashable(Disk(f2, {f2}), {c})
         /\ Crashable(Disk(f3, {f2, f3}), {c}) /\ Crashable(Disk(f3, {f3}), {c})
    BY <1>0, <2>7, <2>8, <2>9, <2>11, <2>12, <2>13, SettledCrashable
  <2>22. Crashable(Disk(f4, {f3, f4}), {c}) BY <2>20, WritingCrashable
  <2>23. /\ Leads(Disk(f, im), <<SetSize(t.size)>>, Disk(f1, im1), {c})
         /\ Leads(Disk(f1, im1), <<SetOffset(USE_FIRST, o)>>, Disk(f2, im2), {c})
    BY <2>8, <2>9, <2>21, LeadsOne
  <2>24. /\ Leads(Disk(f2, im2), <<Sync>>, Disk(f2, {f2}), {c})
         /\ Leads(Disk(f3, {f2, f3}), <<Sync>>, Disk(f3, {f3}), {c})
    BY <2>21, <1>0, SyncLeads
  <2>25. /\ Leads(Disk(f2, {f2}), <<SetState(USE_FIRST)>>, Disk(f3, {f2, f3}), {c})
         /\ Leads(Disk(f3, {f3}), <<SetLength(o, 0)>>, Disk(f4, {f3, f4}), {c})
    BY <2>14, <2>16, <2>21, <2>22, LeadsOne
  <2>26. Leads(Disk(f, im), ops, Disk(f4, {f3, f4}), {c}) BY <2>23, <2>24, <2>25, LeadsThen
  <2>27. \A n \in 1 .. t.size : f4.data[n] = f.data[n] BY <2>1, <2>15, FileImageAssumption
  <2>28. Fits(u) /\ u.offset # 0 BY <2>6, <2>1 DEF Fits
  <2> DEFINE e == Disk(f4, {f3, f4})
  <2>30. e.file = f4 /\ e.images = {f3, f4} BY DiskFields
  <2>31. u = CreateRollback(t, f).txn BY DEF u
  <2>32. Leads(Disk(f, im), CreateRollback(t, f).ops, e, {b[1]}) BY <2>5, <2>26
  <2> HIDE DEF e, ops
  <2>33. Reaches(f, im, b, CreateRollback(t, f), e) BY <2>20, <2>28, <2>30, <2>31, <2>32 DEF Reaches
  <2> QED BY <2>6, <2>27, <2>28, <2>30, <2>31, <2>33
<1> QED BY <1>1, <1>2

(* A plan whose operations lead from one set of disks to the next.          *)
LEMMA LoopLeads ==
    ASSUME NEW S, NEW W \in Seq(S), NEW cs, NEW G, NEW d, d \in G[0],
           \A m \in 0 .. Len(W) : \A x \in G[m] : Crashable(x, cs),
           \A m \in 1 .. Len(W) : \A x \in G[m - 1] : After(x, W[m]) \in G[m]
    PROVE  \E e \in G[Len(W)] : Leads(d, W, e, cs)
<1> DEFINE N == Len(W)
           Upto(m, r) == /\ r[0] = d
                         /\ \A n \in 0 .. m : r[n] \in G[n]
                         /\ \A n \in 1 .. m : r[n] = After(r[n - 1], W[n])
           P == {m \in Nat : m <= N => \E r : Upto(m, r)}
<1>1. N \in Nat OBVIOUS
<1>2. 0 \in P
  <2> DEFINE r == [n \in {0} |-> d]
  <2>1. r[0] = d OBVIOUS
  <2>2. 0 .. 0 = {0} /\ 1 .. 0 = {} OBVIOUS
  <2> HIDE DEF r
  <2>3. Upto(0, r) BY <2>1, <2>2
  <2> QED BY <2>3
<1>3. ASSUME NEW m \in Nat, m \in P PROVE m + 1 \in P
  <2> SUFFICES ASSUME m + 1 <= N PROVE \E r : Upto(m + 1, r) OBVIOUS
  <2>1. PICK r : Upto(m, r) BY <1>1, <1>3
  <2> DEFINE q == [n \in Nat |-> IF n <= m THEN r[n] ELSE After(r[m], W[m + 1])]
  <2>2. /\ \A n \in 0 .. m : q[n] = r[n]
        /\ q[m + 1] = After(r[m], W[m + 1])
    OBVIOUS
  <2> HIDE DEF q
  <2>3. q[0] = d BY <2>1, <2>2
  <2>4. ASSUME NEW n \in 0 .. m + 1 PROVE q[n] \in G[n]
    <3>1. CASE n \in 0 .. m BY <3>1, <2>1, <2>2
    <3>2. CASE n = m + 1
      <4>1. m + 1 \in 1 .. N /\ (m + 1) - 1 = m /\ r[m] \in G[m] BY <1>1, <2>1
      <4>2. After(r[m], W[m + 1]) \in G[m + 1] BY <4>1
      <4> QED BY <3>2, <4>2, <2>2
    <3> QED BY <3>1, <3>2
  <2>5. ASSUME NEW n \in 1 .. m + 1 PROVE q[n] = After(q[n - 1], W[n])
    <3>1. CASE n \in 1 .. m
      <4>1. n \in 0 .. m /\ n - 1 \in 0 .. m BY <3>1
      <4> QED BY <3>1, <4>1, <2>1, <2>2
    <3>2. CASE n = m + 1
      <4>1. n - 1 = m /\ m \in 0 .. m BY <3>2
      <4> QED BY <3>2, <4>1, <2>2
    <3> QED BY <3>1, <3>2
  <2>6. Upto(m + 1, q) BY <2>3, <2>4, <2>5
  <2> QED BY <2>6
<1>4. N \in P
  <2> HIDE DEF P
  <2> QED BY <1>1, <1>2, <1>3, SetInduction
<1>5. PICK r : Upto(N, r) BY <1>1, <1>4
<1>6. r[N] \in G[N] /\ \A n \in 0 .. N : Crashable(r[n], cs) BY <1>1, <1>5
<1>7. IsPlan(W) BY DEF IsPlan
<1>8. Leads(d, W, r[N], cs) BY <1>5, <1>6, <1>7 DEF Leads
<1> QED BY <1>6, <1>8

(* The hole is wide enough after that many doublings.                       *)
LEMMA HoleEnough ==
    ASSUME NEW t \in Txns, Top(t) > 0, t.hole > 0, NEW f \in Files
    PROVE  /\ NewHole(t, f) \in Nat /\ NewHole(t, f) > 0
           /\ t.size + NewHole(t, f) >= Ceil(f.length)
<1> DEFINE N == Ceil(f.length)
           h == t.hole
           s == t.size
           Runs(g) == g = [n \in 0 .. N |-> IF n = 0 THEN 2 * h
                                            ELSE IF s + g[n - 1] >= N THEN g[n - 1] ELSE 2 * g[n - 1]]
           next == [x \in Nat \X Nat |-> IF s + x[1] >= N THEN x[1] ELSE 2 * x[1]]
<1>1. N \in Nat /\ h \in Nat /\ h > 0 /\ s \in Nat BY CeilOf, TxnFields
<1> DEFINE g == CHOOSE g : Runs(g)
<1>2. NewHole(t, f) = g[N] BY DEF NewHole
<1> HIDE DEF N, h, s
<1>3. \E k : Runs(k)
  <2>1. \A x \in Nat, n \in 0 + 1 .. N : next[<<x, n>>] \in Nat
    <3> TAKE x \in Nat, n \in 0 + 1 .. N
    <3>1. n \in Nat BY <1>1
    <3>2. next[<<x, n>>] = IF s + x >= N THEN x ELSE 2 * x BY <3>1
    <3> HIDE DEF next
    <3> QED BY <3>2
  <2>2. 0 <= N /\ 0 \in Nat /\ N \in Nat /\ 2 * h \in Nat BY <1>1
  <2>3. PICK k : Recursive(k, 0, N, Nat, 2 * h, next)
    <3> HIDE DEF next
    <3>1. Closed(0, N, Nat, next) BY <2>1 DEF Closed
    <3> QED BY <3>1, <2>2, RecursionAlong
  <2>b. k \in [0 .. N -> Nat] /\ k[0] = 2 * h /\ \A n \in 0 + 1 .. N : k[n] = next[<<k[n - 1], n>>]
    BY <2>3 DEF Recursive
  <2>4. ASSUME NEW n \in 0 .. N
        PROVE  k[n] = IF n = 0 THEN 2 * h ELSE IF s + k[n - 1] >= N THEN k[n - 1] ELSE 2 * k[n - 1]
    <3>1. CASE n = 0 BY <3>1, <2>b
    <3>2. CASE n # 0
      <4>1. n \in 0 + 1 .. N /\ n - 1 \in 0 .. N /\ n \in Nat BY <3>2, <1>1
      <4>2. k[n - 1] \in Nat BY <4>1, <2>b
      <4>3. k[n] = next[<<k[n - 1], n>>] BY <4>1, <2>b
      <4>4. next[<<k[n - 1], n>>] = IF s + k[n - 1] >= N THEN k[n - 1] ELSE 2 * k[n - 1] BY <4>1, <4>2
      <4> QED BY <3>2, <4>3, <4>4
    <3> QED BY <3>1, <3>2
  <2>5. Runs(k) BY <2>b, <2>4
  <2> QED BY <2>5
<1>4. Runs(g) BY <1>3
<1> HIDE DEF g
<1>5. g[0] = 2 * h /\ \A n \in 1 .. N : g[n] = IF s + g[n - 1] >= N THEN g[n - 1] ELSE 2 * g[n - 1]
  <2> DEFINE k == [n \in 0 .. N |-> IF n = 0 THEN 2 * h
                                    ELSE IF s + g[n - 1] >= N THEN g[n - 1] ELSE 2 * g[n - 1]]
  <2>1. g = k BY <1>4
  <2>2. k[0] = 2 * h /\ \A n \in 1 .. N : k[n] = IF s + g[n - 1] >= N THEN g[n - 1] ELSE 2 * g[n - 1]
    BY <1>1
  <2> HIDE DEF k
  <2> QED BY <2>1, <2>2
<1> DEFINE P == {n \in Nat : n <= N => g[n] \in Nat /\ g[n] > 0 /\ (g[n] > n \/ s + g[n] >= N)}
<1>6. 0 \in P BY <1>1, <1>5
<1>7. ASSUME NEW n \in Nat, n \in P PROVE n + 1 \in P
  <2> SUFFICES ASSUME n + 1 <= N
               PROVE  g[n + 1] \in Nat /\ g[n + 1] > 0 /\ (g[n + 1] > n + 1 \/ s + g[n + 1] >= N)
    OBVIOUS
  <2>1. g[n] \in Nat /\ g[n] > 0 /\ (g[n] > n \/ s + g[n] >= N) BY <1>1, <1>7
  <2>2. n + 1 \in 1 .. N /\ (n + 1) - 1 = n BY <1>1
  <2>3. g[n + 1] = IF s + g[n] >= N THEN g[n] ELSE 2 * g[n] BY <2>2, <1>5
  <2> QED BY <1>1, <2>1, <2>3
<1>8. N \in P
  <2> HIDE DEF P
  <2> QED BY <1>1, <1>6, <1>7, SetInduction
<1>9. g[N] \in Nat /\ g[N] > 0 /\ s + g[N] >= N BY <1>1, <1>8
<1> QED BY <1>2, <1>9 DEF N, s

(* A log in use that lies elsewhere.                                        *)
LEMMA LogElsewhere ==
    ASSUME NEW f \in Files, NEW g \in Files, NEW c, Undoable(f, c),
           g.state \in Slots, Len(c) < Active(g), g.size = f.size, ~NoLog(g), Log(g) = Log(f),
           \A at \in DOMAIN g.log : at > Len(c),
           \A n \in 1 .. Len(c) : g.data[n] = f.data[n]
    PROVE  Undoable(g, c) /\ Covered(g) = Covered(f)
<1>1. Reading(g) = Reading(f) BY DEF Log, Reading, Reads
<1>2. \A n \in 1 .. Len(c) : Undoes(Log(g), Reading(g), g.data, n, c[n])
  BY <1>1 DEF Undoable, Undoes
<1>3. Undoable(g, c) BY <1>1, <1>2 DEF Undoable
<1>4. g.state # CLEAN /\ f.state # CLEAN BY StateCases DEF Undoable
<1> QED BY <1>1, <1>3, <1>4 DEF Undoable, Covered

(* The place of the other log is written and synced.                        *)
AllInUse(f, im, s, c) ==
    f \in im /\ im \in SUBSET Files /\ Guarded(f, im, c) /\ \A i \in im : i.state = s

Placed(f, s, other, at, g) ==
    /\ g \in Files /\ g.state = s /\ g.offset[other] = at /\ g.offset[s] = f.offset[s]
    /\ g.size = f.size /\ g.length = f.length /\ g.data = f.data /\ g.log = f.log

(* The place may be written because only the log in use is read.            *)
LEMMA OffsetLeads ==
    ASSUME NEW f, NEW im, NEW c \in Contents, NEW s \in Slots, AllInUse(f, im, s, c),
           NEW other \in Slots, s # other, NEW at \in Nat, NEW g, g = Apply(f, SetOffset(other, at))
    PROVE  /\ Leads(Disk(f, im), <<SetOffset(other, at)>> \o <<Sync>>, Disk(g, {g}), {c})
           /\ Placed(f, s, other, at, g)
<1>a. f \in im /\ im \in SUBSET Files /\ Guarded(f, im, c) /\ \A i \in im : i.state = s BY DEF AllInUse
<1>0. f \in Files /\ f.state = s /\ s # CLEAN BY <1>a, StateCases
<1>1. /\ g \in Files /\ g.state = s /\ g.offset[other] = at /\ g.offset[s] = f.offset[s]
      /\ g.size = f.size /\ g.length = f.length /\ g.data = f.data /\ g.log = f.log
  BY <1>0, OffsetEffect
<1> DEFINE im2 == im \union {Apply(i, SetOffset(other, at)) : i \in im}
<1>2. After(Disk(f, im), SetOffset(other, at)) = Disk(g, im2) BY AfterOffset
<1>3. Covered(g) = Covered(f) BY <1>0, <1>1, Alike
<1>4. ASSUME NEW i \in im, NEW h, h = Apply(i, SetOffset(other, at))
      PROVE  h \in Files /\ (Undoable(h, c) \/ (Whole(h, c) /\ Covered(g) = {}))
  <2>1. i \in Files /\ i.state = s BY <1>a
  <2>2. /\ h \in Files /\ h.state = s /\ h.offset[s] = i.offset[s]
        /\ h.size = i.size /\ h.length = i.length /\ h.data = i.data /\ h.log = i.log
    BY <2>1, <1>4, OffsetEffect
  <2>3. Whole(i, c) => Whole(h, c)
    BY <2>1, <2>2, Alike DEF Whole
  <2>5. Undoable(i, c) => Undoable(h, c)
    BY <2>1, <2>2, Alike
  <2>4. Undoable(i, c) \/ (Whole(i, c) /\ Covered(f) = {}) BY <1>a DEF Guarded
  <2> QED BY <2>2, <2>3, <2>4, <2>5, <1>3
<1>5. Guarded(g, im2, c)
  <2>1. \A i \in im : Undoable(i, c) \/ (Whole(i, c) /\ Covered(f) = {}) BY <1>a DEF Guarded
  <2> QED BY <2>1, <1>3, <1>4 DEF Guarded
<1>6. g \in im2 /\ im2 \in SUBSET Files BY <1>4, <1>a
<1> HIDE DEF im2
<1>7. Crashable(Disk(f, im), {c}) BY <1>0, <1>a, GuardedCrashable
<1>8. Crashable(Disk(g, im2), {c}) BY <1>0, <1>1, <1>5, <1>6, GuardedCrashable
<1>9. Leads(Disk(f, im), <<SetOffset(other, at)>>, Disk(g, im2), {c}) BY <1>2, <1>7, <1>8, LeadsOne
<1>10. Leads(Disk(g, im2), <<Sync>>, Disk(g, {g}), {c}) BY <1>8, SyncLeads
<1>11. Leads(Disk(f, im), <<SetOffset(other, at)>> \o <<Sync>>, Disk(g, {g}), {c}) BY <1>9, <1>10, LeadsThen
<1> QED BY <1>1, <1>11 DEF Placed

(* The header is switched to a log from which the same is undone.           *)
LEMMA SwitchLeads ==
    ASSUME NEW f \in Files, NEW c \in Contents, Undoable(f, c),
           NEW s \in Slots, NEW g, g = Apply(f, SetState(s)), Stretched(g, c) \/ Undoable(g, c)
    PROVE  Leads(Disk(f, {f}), <<SetState(s)>> \o <<Sync>>, Disk(g, {g}), {c})
<1>0. g \in Files /\ g.state = s /\ s # CLEAN
  <2>1. s \in States /\ s # CLEAN BY StateCases
  <2> QED BY <2>1, StateEffect
<1>1. f.state # CLEAN BY StateCases DEF Undoable
<1>2. After(Disk(f, {f}), SetState(s)) = Disk(g, {f, g})
  <2>1. {f} \union {Apply(i, SetState(s)) : i \in {f}} = {f, g} OBVIOUS
  <2> QED BY <2>1, AfterState
<1>3. Guarded(f, {f}, c) /\ Guarded(g, {f, g}, c)
  <2>1. Stretched(g, c) => Covered(g) = {} BY <1>0, EmptyNoLog DEF Stretched
  <2> QED BY <2>1 DEF Guarded, Whole
<1>4. Crashable(Disk(f, {f}), {c}) BY <1>1, <1>3, GuardedCrashable
<1>5. Crashable(Disk(g, {f, g}), {c}) BY <1>0, <1>3, GuardedCrashable
<1>6. Leads(Disk(f, {f}), <<SetState(s)>>, Disk(g, {f, g}), {c}) BY <1>2, <1>4, <1>5, LeadsOne
<1>7. Leads(Disk(g, {f, g}), <<Sync>>, Disk(g, {g}), {c}) BY <1>5, SyncLeads
<1> QED BY <1>6, <1>7, LeadsThen

(* What move_rollback leaves.                                               *)
LogMoved(f, s, o, g) ==
    /\ g \in Files /\ g.state = s /\ g.offset[s] = o /\ LogAt(g, o) = Log(f)
    /\ DOMAIN g.log = IF Log(f) = <<>> THEN {} ELSE {o}
    /\ g.length = <<o, Len(Log(f))>> /\ g.size = f.size
    /\ \A n \in 1 .. LastPage : g.data[n] \in Values /\ (n <= o => g.data[n] = f.data[n])

(* The transaction goes on with its log in the new place.                   *)
LEMMA MovedWriting ==
    ASSUME NEW f, NEW im, NEW t, NEW b, Writing(f, im, t, b), t.offset # 0,
           NEW s \in Slots, NEW o \in Nat, o > t.offset, NEW h \in Nat, h > 0,
           NEW u, u = Moved(t, s, o, h),
           NEW g, LogMoved(f, s, o, g), NEW jm, Imaged(g, jm, s, b[1])
    PROVE  Writing(g, jm, u, b)
<1>0. /\ t \in Txns /\ Top(t) \in Nat /\ Top(t) > 0 /\ s \in States /\ t.offset \in Nat
      /\ Log(f) = LogAt(f, t.offset) /\ Log(f) \in Seq(Record)
      /\ \A l \in 1 .. Top(t) : b[l] \in Contents /\ Len(b[l]) \in Nat
      /\ \A l \in 1 .. Top(t) : t.buffers[l].start \in Nat
      /\ b[1] \in Contents /\ Len(b[1]) \in Nat
  BY WritingFields, StateCases, TxnFields
<1>1. /\ u \in Txns /\ u.size = t.size /\ u.buffers = t.buffers /\ Top(u) = Top(t)
      /\ u.state = s /\ u.offset = o /\ u.hole = h
  <2>1. t \in Txns /\ s \in States /\ u = Moved(t, s, o, h) BY <1>0
  <2>2. HasMoved(t, s, o, h, u) BY <2>1, TxnMoved
  <2> QED BY <2>2 DEF HasMoved
<1>a. g \in Files /\ g \in jm /\ jm \subseteq Files BY DEF LogMoved, Imaged
<1>2. Logged(f, im, t, b) BY DEF Writing
<1>3. LogKept(g, u)
  <2>1. \A k \in 1 .. Len(Log(f)) : Log(f)[k].committed /\ Log(f)[k].crc /\ Log(f)[k].old \in Values
    BY <1>0, <1>2 DEF Logged, LogKept
  <2> QED BY <1>1, <2>1 DEF LogKept, LogMoved
<1>4. Nested(g, u, b)
  <2> SUFFICES ASSUME NEW l \in 1 .. Top(t)
               PROVE  /\ t.buffers[l].start <= Len(Log(f))
                      /\ \A m \in 1 .. Top(t) : l <= m => t.buffers[l].start <= t.buffers[m].start
                      /\ Len(b[l]) <= o
                      /\ \A n \in 1 .. Len(b[l]) : Undoes(Log(f), Span(g, u, l), g.data, n, b[l][n])
                      /\ \A n \in t.buffers[l].dirty : \E k \in Span(g, u, l) : Log(f)[k].page = n
    BY <1>1 DEF Nested, LogMoved
  <2>1. Span(g, u, l) = Span(f, t, l) BY <1>0, <1>1 DEF Span, LogMoved
  <2>2. /\ t.buffers[l].start <= Len(Log(f))
        /\ \A m \in 1 .. Top(t) : l <= m => t.buffers[l].start <= t.buffers[m].start
        /\ Len(b[l]) <= t.offset
        /\ \A n \in 1 .. Len(b[l]) : Undoes(Log(f), Span(f, t, l), f.data, n, b[l][n])
        /\ \A n \in t.buffers[l].dirty : \E k \in Span(f, t, l) : Log(f)[k].page = n
    BY <1>0, <1>2 DEF Logged, Nested
  <2>3. Len(b[l]) <= o BY <1>0, <2>2
  <2>4. ASSUME NEW n \in 1 .. Len(b[l]) PROVE Undoes(Log(f), Span(g, u, l), g.data, n, b[l][n])
    <3>1. n \in 1 .. LastPage BY <1>0, ContentType
    <3>2. g.data[n] = f.data[n] BY <3>1, <2>3, <1>0 DEF LogMoved
    <3>3. Undoes(Log(f), Span(f, t, l), f.data, n, b[l][n]) BY <2>2
    <3> QED BY <2>1, <3>2, <3>3 DEF Undoes
  <2> QED BY <2>1, <2>2, <2>3, <2>4
<1>5. Logged(g, jm, u, b)
  <2>1. t.buffers[1].start = 0 /\ f.size = Len(b[1]) /\ Len(b[1]) < t.offset BY <1>2 DEF Logged
  <2>2. Len(b[1]) < o BY <2>1, <1>0
  <2>3. g.size = Len(b[1]) BY <2>1 DEF LogMoved
  <2> QED BY <1>1, <1>3, <1>4, <2>1, <2>2, <2>3 DEF Logged
<1>6. \A l \in 1 .. Top(u) :
          Len(b[l]) = IF u.buffers[l].undo # <<>> THEN u.buffers[l].undo[1]
                      ELSE IF l = Top(u) THEN u.size ELSE Len(b[l + 1])
  BY <1>1 DEF Writing
<1>7. b \in Seq(Contents) /\ Len(b) = Top(u) BY <1>1 DEF Writing
<1>8. \A n \in 1 .. LastPage : g.data[n] \in Values BY DEF LogMoved
<1>9. u.offset # 0 BY <1>0, <1>1
<1> QED BY <1>0, <1>a, <1>1, <1>5, <1>6, <1>7, <1>8, <1>9 DEF Writing

Moving(t, other, o, h, u) ==
    /\ t.offset # 0 /\ other \in Slots /\ other # t.state /\ o \in Nat /\ o > t.offset
    /\ h \in Nat /\ h > 0 /\ u = Moved(t, other, o, h)

HasCopy(f, im, b, u, o, ops) ==
    \E e : /\ Leads(Disk(f, im), ops, e, {b[1]}) /\ Writing(e.file, e.images, u, b)
           /\ \A n \in 1 .. LastPage : n <= o => e.file.data[n] = f.data[n]

(* The log is empty: the file is enlarged.                                  *)
LEMMA MoveEmptyLeads ==
    ASSUME NEW f, NEW im, NEW t, NEW b, Writing(f, im, t, b), Log(f) = <<>>,
           NEW other, NEW o, NEW h, NEW u, Moving(t, other, o, h, u)
    PROVE  HasCopy(f, im, b, u, o, <<SetLength(o, 0)>> \o <<SetOffset(other, o)>> \o <<Sync>>
                                        \o <<SetState(other)>> \o <<Sync>>)
<1>b. /\ t.offset # 0 /\ other \in Slots /\ other # t.state /\ o \in Nat /\ o > t.offset
      /\ h \in Nat /\ h > 0 /\ u = Moved(t, other, o, h)
  BY DEF Moving
<1> USE <1>b
<1> DEFINE c == b[1]
           s == t.state
<1>0. /\ f \in Files /\ f \in im /\ im \in SUBSET Files /\ c \in Contents /\ Len(c) \in Nat
      /\ Top(t) \in Nat /\ 1 \in 1 .. Top(t) /\ f.state = s /\ s \in Slots /\ Active(f) = t.offset /\ t.offset \in Nat
  BY WritingFields, TxnFields
<1>1. /\ f.length = <<t.offset, 0>> /\ DOMAIN f.log = {} /\ f.size = Len(c) /\ Len(c) < t.offset
      /\ f.offset[s] = t.offset
      /\ Guarded(f, im, c) /\ \A i \in im : i.state = s
      /\ LogAt(f, t.offset) = <<>> /\ Nested(f, t, b) /\ t.buffers[1].start = 0
  <2>1. LogAt(f, t.offset) = <<>> BY WritingFields
  <2>2. Len(<<>>) = 0 OBVIOUS
  <2> QED BY <2>1, <2>2 DEF Writing, Logged, LogKept, Imaged
<1>2. Covered(f) = {} BY LoggedReads, EmptyNoLog
<1>3. \A n \in 1 .. Len(c) : f.data[n] = c[n]
  <2>1. Span(f, t, 1) = {}
    <3>1. Len(<<>>) = 0 /\ 0 + 1 .. 0 = {} OBVIOUS
    <3> QED BY <3>1, <1>1 DEF Span
  <2> QED BY <2>1, <1>0, <1>1 DEF Nested, Undoes
<1> DEFINE g1 == Apply(f, SetLength(o, 0))
           g2 == Apply(g1, SetOffset(other, o))
           g3 == Apply(g2, SetState(other))
<1>4. g1 = Apply(f, SetLength(o, 0)) /\ g2 = Apply(g1, SetOffset(other, o)) /\ g3 = Apply(g2, SetState(other))
  OBVIOUS
<1>5. /\ g1 \in Files /\ g1.length = <<o, 0>> /\ DOMAIN g1.log = {}
      /\ g1.state = s /\ g1.size = Len(c) /\ g1.offset[s] = t.offset
      /\ \A n \in 1 .. LastPage : g1.data[n] = IF n > o THEN Zero ELSE f.data[n]
  <2>1. f \in Files /\ g1 = Apply(f, SetLength(o, 0)) BY <1>0
  <2> HIDE DEF g1
  <2>2. Ends(f, o, g1) BY <2>1, EndEffect
  <2>3. DOMAIN g1.log = {} BY <2>2, <1>1 DEF Ends
  <2> QED BY <2>2, <2>3, <1>0, <1>1 DEF Ends
<1>6. After(Disk(f, im), SetLength(o, 0)) = Disk(g1, im \union {g1}) BY AfterLength
<1> HIDE DEF g1, g2, g3
<1>7. Active(g1) = t.offset /\ Log(g1) = <<>> /\ Reading(g1) = {} /\ ~NoLog(g1)
  <2>1. Active(g1) = t.offset /\ Log(g1) = <<>> BY <1>5 DEF Active, Log, LogAt
  <2>2. Len(<<>>) = 0 /\ 0 + 1 .. 0 = {} OBVIOUS
  <2>3. LogAt(g1, t.offset) = <<>> BY <2>1 DEF Log
  <2>4. Reading(g1) = {} BY <2>1, <2>2, <2>3 DEF Reading, Reads
  <2>5. Ceil(g1.length) = o BY <1>5, CeilOf
  <2>6. ~NoLog(g1) BY <1>0, <1>5, <2>5 DEF NoLog
  <2> QED BY <2>1, <2>4, <2>6
<1>8. Undoable(g1, c) /\ Covered(g1) = {}
  <2>1. \A n \in 1 .. Len(c) : Undoes(Log(g1), Reading(g1), g1.data, n, c[n])
    <3> TAKE n \in 1 .. Len(c)
    <3>1. n \in 1 .. LastPage /\ n <= o BY <1>0, <1>1, ContentType
    <3>2. g1.data[n] = c[n] BY <3>1, <1>3, <1>5
    <3> QED BY <3>2, <1>7 DEF Undoes
  <2>2. Undoable(g1, c) BY <2>1, <1>0, <1>1, <1>5, <1>7 DEF Undoable
  <2> QED BY <2>2, <1>7 DEF Covered
<1>9. Guarded(g1, im \union {g1}, c) BY <1>1, <1>8 DEF Guarded
<1>10. s # CLEAN BY <1>0, StateCases
<1>11. Leads(Disk(f, im), <<SetLength(o, 0)>>, Disk(g1, im \union {g1}), {c})
  <2>1. Crashable(Disk(f, im), {c}) BY WritingCrashable
  <2>2. im \union {g1} \in SUBSET Files /\ g1 \in im \union {g1} BY <1>0, <1>5
  <2>3. Crashable(Disk(g1, im \union {g1}), {c}) BY <1>0, <1>5, <1>9, <1>10, <2>2, GuardedCrashable
  <2> QED BY <2>1, <2>3, <1>6, LeadsOne
<1>12. /\ Leads(Disk(g1, im \union {g1}), <<SetOffset(other, o)>> \o <<Sync>>, Disk(g2, {g2}), {c})
       /\ g2 \in Files /\ g2.state = s /\ g2.offset[other] = o /\ g2.offset[s] = t.offset
       /\ g2.size = g1.size /\ g2.length = g1.length /\ g2.data = g1.data /\ g2.log = g1.log
  <2> DEFINE jm == im \union {g1}
  <2>1. AllInUse(g1, jm, s, c) BY <1>0, <1>1, <1>5, <1>9 DEF AllInUse
  <2>2. c \in Contents /\ s \in Slots /\ s # other /\ g2 = Apply(g1, SetOffset(other, o)) BY <1>0, <1>4
  <2> HIDE DEF s, c, jm
  <2>3. Leads(Disk(g1, jm), <<SetOffset(other, o)>> \o <<Sync>>, Disk(g2, {g2}), {c}) /\ Placed(g1, s, other, o, g2)
    BY <2>1, <2>2, OffsetLeads
  <2> QED BY <2>3, <1>5 DEF jm, Placed
<1>13. Undoable(g2, c) BY <1>5, <1>8, <1>12, Alike
<1>14. /\ g3 \in Files /\ g3.state = other /\ g3.offset[other] = o
       /\ g3.size = Len(c) /\ g3.length = <<o, 0>> /\ g3.data = g1.data /\ DOMAIN g3.log = {}
  <2>1. other \in States /\ g3 = Apply(g2, SetState(other)) BY <1>4, StateCases
  <2>2. /\ g3 \in Files /\ g3.state = other /\ g3.offset = g2.offset
        /\ g3.size = g2.size /\ g3.length = g2.length /\ g3.data = g2.data /\ g3.log = g2.log
    BY <2>1, <1>12, StateEffect
  <2> QED BY <2>2, <1>5, <1>12
<1>15. Stretched(g3, c) /\ Covered(g3) = {}
  <2>1. EmptyLog(g3) BY <1>14, StateCases DEF EmptyLog
  <2>2. Active(g3) = o BY <1>14 DEF Active
  <2>3. ASSUME NEW n \in 1 .. LastPage
        PROVE  IF n <= Len(c) THEN g3.data[n] = c[n] ELSE g3.data[n] \in Values
    <3>1. n \in Nat /\ (n <= Len(c) => n \in 1 .. Len(c) /\ ~(n > o)) BY <1>0, <1>1, FileImageAssumption
    <3>2. g3.data[n] = IF n > o THEN Zero ELSE f.data[n] BY <1>5, <1>14
    <3>3. f.data[n] \in Values BY DEF Writing
    <3> QED BY <3>1, <3>2, <3>3, <1>3, FileImageAssumption
  <2>4. Stretched(g3, c) BY <2>1, <2>2, <2>3, <1>0, <1>1, <1>14 DEF Stretched
  <2> QED BY <2>1, <2>4, <1>14, EmptyNoLog
<1>16. Leads(Disk(g2, {g2}), <<SetState(other)>> \o <<Sync>>, Disk(g3, {g3}), {c})
  BY <1>0, <1>4, <1>12, <1>13, <1>15, SwitchLeads
<1>17. Writing(g3, {g3}, u, b)
  <2>1. LogAt(g3, o) = <<>> /\ Len(<<>>) = 0 BY <1>14 DEF LogAt
  <2>2. \A n \in 1 .. LastPage : g3.data[n] \in Values /\ (n <= o => g3.data[n] = f.data[n])
    <3> TAKE n \in 1 .. LastPage
    <3>1. g3.data[n] = IF n > o THEN Zero ELSE f.data[n] BY <1>14, <1>5
    <3>2. f.data[n] \in Values BY DEF Writing
    <3>3. n \in Nat BY FileImageAssumption
    <3> QED BY <3>1, <3>2, <3>3, FileImageAssumption
  <2>3. LogMoved(f, other, o, g3) BY <1>1, <1>14, <2>1, <2>2 DEF LogMoved
  <2>4. Imaged(g3, {g3}, other, b[1]) BY <1>14, <1>15 DEF Imaged, Guarded, Whole
  <2> HIDE DEF c, s
  <2> QED BY <2>3, <2>4, MovedWriting
<1>18. Leads(Disk(f, im), <<SetLength(o, 0)>> \o (<<SetOffset(other, o)>> \o <<Sync>>)
                                        \o (<<SetState(other)>> \o <<Sync>>), Disk(g3, {g3}), {c})
  BY <1>11, <1>12, <1>16, LeadsThen
<1> DEFINE e == Disk(g3, {g3})
<1>19. e.file = g3 /\ e.images = {g3} BY DiskFields
<1>20. \A n \in 1 .. LastPage : n <= o => g3.data[n] = f.data[n]
  <2> TAKE n \in 1 .. LastPage
  <2>1. n \in Nat BY FileImageAssumption
  <2> QED BY <2>1, <1>5, <1>14
<1>21. <<SetLength(o, 0)>> \o (<<SetOffset(other, o)>> \o <<Sync>>) \o (<<SetState(other)>> \o <<Sync>>)
        = <<SetLength(o, 0)>> \o <<SetOffset(other, o)>> \o <<Sync>> \o <<SetState(other)>> \o <<Sync>>
  OBVIOUS
<1> HIDE DEF e
<1> QED BY <1>17, <1>18, <1>19, <1>20, <1>21 DEF e, HasCopy

(* A transaction with records.                                              *)
LEMMA LoggedUndoable ==
    ASSUME NEW f, NEW im, NEW t, NEW b, Writing(f, im, t, b), t.offset # 0, Log(f) # <<>>
    PROVE  /\ Undoable(f, b[1]) /\ AllInUse(f, im, t.state, b[1])
           /\ \A i \in im : Undoable(i, b[1]) /\ Covered(f) \subseteq Covered(i)
<1>0. f \in im /\ im \in SUBSET Files /\ f \in Files /\ b[1] \in Contents /\ f.state \in Slots /\ f.state = t.state
      /\ Log(f) \in Seq(Record)
  BY WritingFields
<1>1. Imaged(f, im, t.state, b[1]) BY DEF Writing, Logged
<1>2. ~NoLog(f) BY LoggedReads
<1>3. ~Whole(f, b[1]) BY <1>0, <1>2, WholeNoLog
<1>4. Undoable(f, b[1]) BY <1>0, <1>1, <1>2, <1>3 DEF Imaged, Guarded
<1>5. Covered(f) # {}
  <2>1. Covered(f) = {Log(f)[k].page : k \in 1 .. Len(Log(f))} BY LoggedReads
  <2>2. 1 \in 1 .. Len(Log(f)) BY <1>0, EmptySeq
  <2> QED BY <2>1, <2>2
<1>6. \A i \in im : Undoable(i, b[1]) /\ Covered(f) \subseteq Covered(i)
  BY <1>1, <1>5 DEF Imaged, Guarded
<1>7. AllInUse(f, im, t.state, b[1]) BY <1>0, <1>1 DEF AllInUse, Imaged
<1> QED BY <1>4, <1>6, <1>7

(* After m records have been copied.                                        *)
Copying(f, at, o, g, m) ==
    /\ g \in Files /\ g.state = f.state /\ g.offset = f.offset /\ g.size = f.size /\ g.data = f.data
    /\ DOMAIN g.log = {at} \union (IF m = 0 THEN {} ELSE {o})
    /\ g.log[at] = Log(f)
    /\ Len(LogAt(g, o)) = m /\ \A j \in 1 .. m : LogAt(g, o)[j] = Log(f)[j]
    /\ g.length = IF m = 0 THEN <<at, Len(Log(f))>> ELSE <<o, m>>

InCopying(f, at, o) ==
    /\ f \in Files /\ f.state \in Slots /\ at \in Nat /\ o \in Nat /\ o > at /\ Active(f) = at
    /\ Log(f) # <<>> /\ Log(f) \in Seq(Record)

CopyMade(f, at, o, g, k) ==
    /\ g \in Files /\ g.state = f.state /\ g.offset = f.offset /\ g.size = f.size /\ g.data = f.data
    /\ DOMAIN g.log \subseteq {at, o} /\ at \in DOMAIN g.log /\ g.log[at] = Log(f)
    /\ g.length = <<at, k>> \/ g.length = <<o, k>>

(* Copies beyond the log in use do not disturb it.                          *)
LEMMA CopyingUndoable ==
    ASSUME NEW f, NEW at, NEW o, InCopying(f, at, o), NEW c \in Contents, Undoable(f, c),
           NEW g, NEW k \in Nat, k > 0, CopyMade(f, at, o, g, k)
    PROVE  Undoable(g, c) /\ Covered(g) = Covered(f)
<1>1. f \in Files /\ f.state \in Slots /\ at \in Nat /\ o \in Nat /\ o > at /\ Active(f) = at BY DEF InCopying
<1>a. /\ g \in Files /\ g.state = f.state /\ g.offset = f.offset /\ g.size = f.size /\ g.data = f.data
      /\ DOMAIN g.log \subseteq {at, o} /\ at \in DOMAIN g.log /\ g.log[at] = Log(f)
      /\ g.length = <<at, k>> \/ g.length = <<o, k>>
  BY DEF CopyMade
<1>2. Active(g) = at BY <1>1, <1>a DEF Active
<1>3. Log(g) = Log(f) BY <1>2, <1>a DEF Log, LogAt
<1>4. Len(c) < at BY <1>1 DEF Undoable
<1>5. Len(c) \in Nat BY ContentType
<1>6. \A a \in DOMAIN g.log : a > Len(c)
  <2> TAKE a \in DOMAIN g.log
  <2>1. a = at \/ a = o BY <1>a
  <2> QED BY <2>1, <1>1, <1>4, <1>5
<1>7. ~NoLog(g)
  <2>1. Ceil(<<at, k>>) > at /\ Ceil(<<o, k>>) > o BY <1>1, CeilOf
  <2>2. Ceil(g.length) \in Nat BY <1>a, CeilOf
  <2>3. Ceil(g.length) > at BY <2>1, <2>2, <1>1, <1>a
  <2> QED BY <2>2, <2>3, <1>1, <1>2 DEF NoLog, Active
<1>8. g.state \in Slots /\ Len(c) < Active(g) /\ \A n \in 1 .. Len(c) : g.data[n] = f.data[n]
  BY <1>1, <1>2, <1>4, <1>a
<1> QED BY <1>1, <1>a, <1>3, <1>6, <1>7, <1>8, LogElsewhere

(* One more record is copied: it survives whole, in part, or not,           *)
LEMMA CopyStep ==
    ASSUME NEW f, NEW at, NEW o, InCopying(f, at, o), NEW c \in Contents, Undoable(f, c),
           NEW m \in Nat, m < Len(Log(f)), NEW g, Copying(f, at, o, g, m),
           NEW r \in Record, NEW h, h = Apply(g, WriteRecord(o, m + 1, r))
    PROVE  /\ h \in Files /\ h.state = f.state /\ Undoable(h, c) /\ Covered(h) = Covered(f)
           /\ r = Log(f)[m + 1] => Copying(f, at, o, h, m + 1)
<1>1. f \in Files /\ f.state \in Slots /\ at \in Nat /\ o \in Nat /\ o > at /\ Active(f) = at
      /\ Log(f) \in Seq(Record) /\ Len(Log(f)) \in Nat
  BY DEF InCopying
<1>2. g \in Files /\ LogAt(g, o) \in Seq(Record) /\ Len(LogAt(g, o)) = m BY <1>1, LogAtType DEF Copying
<1>3. Recorded(g, o, r, h)
  <2>1. g.length[1] < o \/ (g.length[1] = o /\ g.length[2] <= Len(LogAt(g, o)))
    BY <1>1, <1>2 DEF Copying
  <2>2. h = Apply(g, WriteRecord(o, Len(LogAt(g, o)) + 1, r)) BY <1>2
  <2> QED BY <1>1, <1>2, <2>1, <2>2, RecordEffect
<1>4. /\ h \in Files /\ h.state = f.state /\ h.offset = f.offset /\ h.size = f.size /\ h.data = f.data
      /\ h.length = <<o, m + 1>>
      /\ DOMAIN h.log = {at, o} /\ h.log[at] = Log(f) /\ h.log[o] = Append(LogAt(g, o), r)
  <2>1. /\ h \in Files /\ h.state = f.state /\ h.offset = f.offset /\ h.size = f.size /\ h.data = f.data
        /\ h.length = <<o, m + 1>>
    BY <1>2, <1>3 DEF Recorded, Copying
  <2>2. DOMAIN g.log = {at} \union (IF m = 0 THEN {} ELSE {o}) /\ g.log[at] = Log(f) BY DEF Copying
  <2>3. at # o BY <1>1
  <2>4. DOMAIN h.log = {at, o} BY <2>2, <1>3 DEF Recorded
  <2>5. h.log[at] = Log(f) BY <2>2, <2>3, <1>3 DEF Recorded
  <2>6. h.log[o] = Append(LogAt(g, o), r) BY <1>3 DEF Recorded
  <2> QED BY <2>1, <2>4, <2>5, <2>6
<1>5. Undoable(h, c) /\ Covered(h) = Covered(f)
  <2>1. m + 1 \in Nat /\ m + 1 > 0 OBVIOUS
  <2>2. CopyMade(f, at, o, h, m + 1) BY <1>4 DEF CopyMade
  <2> QED BY <2>1, <2>2, CopyingUndoable
<1>6. ASSUME r = Log(f)[m + 1] PROVE Copying(f, at, o, h, m + 1)
  <2>1. LogAt(h, o) = Append(LogAt(g, o), r) BY <1>4 DEF LogAt
  <2>2. Len(LogAt(h, o)) = m + 1 BY <2>1, <1>2
  <2>3. ASSUME NEW j \in 1 .. m + 1 PROVE LogAt(h, o)[j] = Log(f)[j]
    <3>1. CASE j = m + 1 BY <3>1, <2>1, <1>2, <1>6
    <3>2. CASE j # m + 1
      <4>1. j \in 1 .. m BY <3>2
      <4>2. LogAt(h, o)[j] = LogAt(g, o)[j] BY <4>1, <2>1, <1>2
      <4> QED BY <4>1, <4>2 DEF Copying
    <3> QED BY <3>1, <3>2
  <2>4. DOMAIN h.log = {at} \union (IF m + 1 = 0 THEN {} ELSE {o}) BY <1>4
  <2>5. h.length = IF m + 1 = 0 THEN <<at, Len(Log(f))>> ELSE <<o, m + 1>>
    <3>1. m + 1 # 0 /\ h.length = <<o, m + 1>> BY <1>4
    <3> QED BY <3>1, Zenon
  <2> QED BY <1>4, <2>2, <2>3, <2>4, <2>5 DEF Copying
<1> QED BY <1>4, <1>5, <1>6

CopyDisk(f, at, o, s, c, x, m) ==
    x = Disk(x.file, x.images) /\ Copying(f, at, o, x.file, m) /\ AllInUse(x.file, x.images, s, c)

(* and the images stay as they have to be.                                  *)
LEMMA CopyDiskStep ==
    ASSUME NEW f, NEW at, NEW o, InCopying(f, at, o), NEW c \in Contents, Undoable(f, c), Covered(f) # {},
           NEW s, s = f.state,
           NEW m \in Nat, m < Len(Log(f)), NEW x, CopyDisk(f, at, o, s, c, x, m), Covered(x.file) = Covered(f)
    PROVE  LET y == After(x, WriteRecord(o, m + 1, Log(f)[m + 1]))
           IN  CopyDisk(f, at, o, s, c, y, m + 1) /\ Covered(y.file) = Covered(f)
<1> DEFINE g == x.file
           im == x.images
           r == Log(f)[m + 1]
           q == Spoilt(r)
           h == Apply(g, WriteRecord(o, m + 1, r))
           i == Apply(g, WriteRecord(o, m + 1, q))
           jm == im \union {h, i}
           y == After(x, WriteRecord(o, m + 1, r))
<1>1. Copying(f, at, o, g, m) /\ AllInUse(g, im, s, c) /\ x = Disk(g, im) BY DEF CopyDisk
<1>2. y = Disk(h, jm) BY <1>1, AfterRecord
<1>3. r \in Record /\ q \in Record
  <2>1. Log(f) \in Seq(Record) BY DEF InCopying
  <2>2. m + 1 \in 1 .. Len(Log(f)) BY <2>1
  <2>3. r \in Record BY <2>1, <2>2
  <2> HIDE DEF r
  <2> QED BY <2>3 DEF Record, Spoilt
<1>4. /\ h \in Files /\ h.state = f.state /\ Undoable(h, c) /\ Covered(h) = Covered(f)
      /\ Copying(f, at, o, h, m + 1)
  BY <1>1, <1>3, CopyStep
<1>5. i \in Files /\ i.state = f.state /\ Undoable(i, c)
  <2>1. i = Apply(g, WriteRecord(o, m + 1, q)) OBVIOUS
  <2> HIDE DEF i, g, q
  <2> QED BY <1>1, <1>3, <2>1, CopyStep
<1> HIDE DEF g, im, h, i, r
<1>6. AllInUse(h, jm, s, c)
  <2>1. g \in im /\ im \in SUBSET Files /\ Guarded(g, im, c) /\ \A k \in im : k.state = s BY <1>1 DEF AllInUse
  <2>2. Covered(g) = Covered(f) BY DEF g
  <2>3. \A k \in im : Undoable(k, c) \/ (Whole(k, c) /\ Covered(h) = {}) BY <2>1, <2>2, <1>4 DEF Guarded
  <2>4. Guarded(h, jm, c) BY <2>3, <1>4, <1>5 DEF Guarded
  <2> QED BY <2>1, <2>4, <1>4, <1>5 DEF AllInUse
<1>7. y.file = h /\ y.images = jm BY <1>2, DiskFields
<1>8. CopyDisk(f, at, o, s, c, y, m + 1) BY <1>2, <1>4, <1>6, <1>7 DEF CopyDisk
<1> QED BY <1>4, <1>7, <1>8 DEF r

DiskSet == [file : Files, images : SUBSET Files]

(* A set that has the disks as members, as the induction needs one.         *)
LEMMA DiskType ==
    ASSUME NEW f \in Files, NEW im \in SUBSET Files
    PROVE  Disk(f, im) \in DiskSet
BY DEF Disk, DiskSet

(* The copies of the records.                                               *)
Copies(o, log) == [i \in DOMAIN log |-> WriteRecord(o, i, log[i])]

(* Every record is copied, and synced.                                      *)
LEMMA CopyLeads ==
    ASSUME NEW f, NEW im, NEW at, NEW o, InCopying(f, at, o), NEW c \in Contents, Undoable(f, c), Covered(f) # {},
           DOMAIN f.log = {at}, f.length = <<at, Len(Log(f))>>,
           AllInUse(f, im, f.state, c)
    PROVE  \E e : /\ Leads(Disk(f, im), Copies(o, Log(f)), e, {c})
                  /\ CopyDisk(f, at, o, f.state, c, e, Len(Log(f)))
<1> DEFINE L == Log(f)
           s == f.state
           W == Copies(o, L)
           S == {WriteRecord(o, i, L[i]) : i \in 1 .. Len(L)}
           Q(x, m) == CopyDisk(f, at, o, s, c, x, m) /\ Covered(x.file) = Covered(f)
           G == [m \in Nat |-> {x \in DiskSet : Q(x, m)}]
           d == Disk(f, im)
<1>1. L \in Seq(Record) /\ Len(L) \in Nat /\ DOMAIN L = 1 .. Len(L) /\ f \in Files /\ at \in Nat /\ o \in Nat
      /\ o > at /\ Active(f) = at /\ s \in Slots
  BY DEF InCopying
<1>2. W \in Seq(S) /\ Len(W) = Len(L) /\ \A m \in 1 .. Len(L) : W[m] = WriteRecord(o, m, L[m])
  <2>1. W = [i \in 1 .. Len(L) |-> WriteRecord(o, i, L[i])] BY <1>1 DEF Copies
  <2>2. W \in [1 .. Len(L) -> S] BY <2>1
  <2> QED BY <2>1, <2>2, <1>1
<1>3. d \in G[0]
  <2>1. d \in DiskSet BY <1>1, DiskType DEF AllInUse
  <2>2. Copying(f, at, o, f, 0)
    <3>1. LogAt(f, o) = <<>> /\ Len(<<>>) = 0 BY <1>1 DEF LogAt
    <3>2. f.log[at] = Log(f) BY <1>1 DEF Log, LogAt
    <3>3. \A j \in 1 .. 0 : LogAt(f, o)[j] = Log(f)[j] OBVIOUS
    <3> QED BY <1>1, <3>1, <3>2, <3>3 DEF Copying
  <2>3. Q(d, 0) BY <2>2, DiskFields DEF CopyDisk
  <2> HIDE DEF d, Q
  <2> QED BY <2>1, <2>3
<1>4. ASSUME NEW m \in 0 .. Len(W), NEW x \in G[m] PROVE Crashable(x, {c})
  <2>1. m \in Nat BY <1>1, <1>2
  <2>2. Q(x, m)
    <3> HIDE DEF Q
    <3> QED BY <2>1
  <2>3. x = Disk(x.file, x.images) /\ AllInUse(x.file, x.images, s, c) BY <2>2 DEF CopyDisk
  <2>4. Crashable(Disk(x.file, x.images), {c})
    <3>1. x.file \in x.images /\ x.images \in SUBSET Files /\ Guarded(x.file, x.images, c) /\ x.file.state # CLEAN
      BY <2>3, <1>1, StateCases DEF AllInUse
    <3> QED BY <3>1, GuardedCrashable
  <2> QED BY <2>3, <2>4
<1>5. ASSUME NEW m \in 1 .. Len(W), NEW x \in G[m - 1] PROVE After(x, W[m]) \in G[m]
  <2> DEFINE n == m - 1
             y == After(x, WriteRecord(o, n + 1, L[n + 1]))
  <2>1. m \in Nat /\ n \in Nat /\ n + 1 = m /\ n < Len(L) /\ m \in 1 .. Len(L) BY <1>1, <1>2
  <2>2. Q(x, n)
    <3> HIDE DEF Q
    <3> QED BY <2>1
  <2>3. W[m] = WriteRecord(o, n + 1, L[n + 1]) BY <2>1, <1>2
  <2> HIDE DEF n
  <2>4. CopyDisk(f, at, o, s, c, y, n + 1) /\ Covered(y.file) = Covered(f)
    BY <2>1, <2>2, CopyDiskStep
  <2>5. y \in DiskSet
    <3>1. y = Disk(y.file, y.images) /\ AllInUse(y.file, y.images, s, c) BY <2>4 DEF CopyDisk
    <3>2. y.file \in Files /\ y.images \in SUBSET Files BY <3>1 DEF AllInUse
    <3> HIDE DEF y
    <3> QED BY <3>1, <3>2, DiskType
  <2>6. Q(y, m) BY <2>4, <2>1
  <2>7. y \in G[m]
    <3> HIDE DEF Q, y
    <3> QED BY <2>1, <2>5, <2>6
  <2> QED BY <2>3, <2>7
<1> HIDE DEF G, W, d, S
<1>6. PICK e \in G[Len(W)] : Leads(d, W, e, {c})
  <2>1. \A m \in 0 .. Len(W) : \A x \in G[m] : Crashable(x, {c}) BY <1>4
  <2>2. \A m \in 1 .. Len(W) : \A x \in G[m - 1] : After(x, W[m]) \in G[m] BY <1>5
  <2>3. W \in Seq(S) BY <1>2
  <2> QED BY <1>3, <2>1, <2>2, <2>3, LoopLeads
<1>7. Q(e, Len(L))
  <2>1. Len(W) \in Nat BY <1>1, <1>2
  <2> HIDE DEF Q
  <2>2. Q(e, Len(W)) BY <1>6, <2>1 DEF G
  <2> QED BY <2>2, <1>2
<1> QED BY <1>6, <1>7 DEF d, W

(* move_rollback of a log with records: copied, placed, switched to, erased.*)
LEMMA MoveFullLeads ==
    ASSUME NEW f, NEW im, NEW t, NEW b, Writing(f, im, t, b), Log(f) # <<>>,
           NEW other, NEW o, NEW h, NEW u, Moving(t, other, o, h, u)
    PROVE  HasCopy(f, im, b, u, o, Copies(o, Log(f)) \o <<SetOffset(other, o)>> \o <<Sync>>
                                        \o <<SetState(other)>> \o <<Sync>> \o <<EraseLog(t.offset)>>)
<1>b. /\ t.offset # 0 /\ other \in Slots /\ other # t.state /\ o \in Nat /\ o > t.offset
      /\ h \in Nat /\ h > 0 /\ u = Moved(t, other, o, h)
  BY DEF Moving
<1> USE <1>b
<1> DEFINE c == b[1]
           s == f.state
           at == t.offset
           L == Log(f)
           K == Len(L)
<1>0. /\ f \in Files /\ f \in im /\ im \in SUBSET Files /\ c \in Contents /\ Len(c) \in Nat
      /\ s = t.state /\ s \in Slots /\ s # CLEAN /\ Active(f) = at /\ at \in Nat /\ L \in Seq(Record)
      /\ L = LogAt(f, at)
  BY WritingFields, TxnFields, ContentType, StateCases
<1>1. Undoable(f, c) /\ AllInUse(f, im, s, c) BY <1>0, LoggedUndoable
<1>2. InCopying(f, at, o) BY <1>0 DEF InCopying
<1>3. DOMAIN f.log = {at} /\ f.length = <<at, K>> /\ Len(c) < at
  BY <1>0 DEF Writing, Logged, LogKept
<1>4. Covered(f) # {} /\ K \in Nat /\ K > 0
  <2>1. Covered(f) = {L[k].page : k \in 1 .. K} BY LoggedReads
  <2>2. 1 \in 1 .. K /\ K \in Nat /\ K > 0 BY <1>0, EmptySeq
  <2> QED BY <2>1, <2>2
<1>5. PICK d : Leads(Disk(f, im), Copies(o, L), d, {c}) /\ CopyDisk(f, at, o, s, c, d, K)
  BY <1>0, <1>1, <1>2, <1>3, <1>4, CopyLeads
<1> DEFINE g1 == d.file
           jm == d.images
           g2 == Apply(g1, SetOffset(other, o))
           g3 == Apply(g2, SetState(other))
           g4 == Apply(g3, EraseLog(at))
<1>6. d = Disk(g1, jm) /\ Copying(f, at, o, g1, K) /\ AllInUse(g1, jm, s, c) BY <1>5 DEF CopyDisk
<1>7. /\ g1 \in Files /\ g1.state = s /\ g1.offset = f.offset /\ g1.size = f.size /\ g1.data = f.data
      /\ DOMAIN g1.log = {at, o} /\ g1.log[at] = L /\ LogAt(g1, o) = L
      /\ g1.length = <<o, K>>
  <2>1. K # 0 BY <1>4
  <2>2. Len(LogAt(g1, o)) = K /\ \A j \in 1 .. K : LogAt(g1, o)[j] = L[j] BY <1>6 DEF Copying
  <2>3. g1 \in Files BY <1>6 DEF Copying
  <2>4. LogAt(g1, o) \in Seq(Record) BY <2>3, LogAtType
  <2>5. LogAt(g1, o) = L BY <2>2, <2>4, <1>0, SeqEqual
  <2>6. g1.length = IF K = 0 THEN <<at, K>> ELSE <<o, K>> BY <1>6 DEF Copying
  <2>7. g1.length = <<o, K>> BY <2>1, <2>6, Zenon
  <2>8. /\ g1.state = s /\ g1.offset = f.offset /\ g1.size = f.size /\ g1.data = f.data
        /\ DOMAIN g1.log = {at, o} /\ g1.log[at] = L
    BY <1>6, <2>1 DEF Copying
  <2> QED BY <2>3, <2>5, <2>7, <2>8
<1>8. g2 = Apply(g1, SetOffset(other, o)) /\ g3 = Apply(g2, SetState(other)) /\ g4 = Apply(g3, EraseLog(at))
  OBVIOUS
<1> HIDE DEF g1, g2, g3, g4, jm
<1>9. Undoable(g1, c) /\ Covered(g1) = Covered(f)
  <2>1. CopyMade(f, at, o, g1, K) BY <1>7 DEF CopyMade
  <2> QED BY <1>1, <1>2, <1>4, <2>1, <1>0, CopyingUndoable
<1>10. Leads(Disk(g1, jm), <<SetOffset(other, o)>> \o <<Sync>>, Disk(g2, {g2}), {c}) /\ Placed(g1, s, other, o, g2)
  <2>1. c \in Contents /\ s \in Slots /\ s # other /\ g2 = Apply(g1, SetOffset(other, o)) BY <1>0, <1>8
  <2> HIDE DEF s, c, at
  <2> QED BY <1>6, <2>1, OffsetLeads
<1>11. /\ g2 \in Files /\ g2.state = s /\ g2.offset[other] = o /\ g2.offset[s] = at
       /\ g2.size = f.size /\ g2.length = <<o, K>> /\ g2.data = f.data /\ g2.log = g1.log
  <2>1. f.offset[s] = at BY <1>0 DEF Active
  <2> QED BY <2>1, <1>7, <1>10 DEF Placed
<1>12. Undoable(g2, c) BY <1>7, <1>9, <1>10, <1>11, Alike DEF Placed
<1>13. /\ g3 \in Files /\ g3.state = other /\ g3.offset[other] = o
       /\ g3.size = f.size /\ g3.length = <<o, K>> /\ g3.data = f.data /\ DOMAIN g3.log = {at, o} /\ LogAt(g3, o) = L
  <2>1. other \in States /\ g3 = Apply(g2, SetState(other)) BY <1>8, StateCases
  <2>2. /\ g3 \in Files /\ g3.state = other /\ g3.offset = g2.offset
        /\ g3.size = g2.size /\ g3.length = g2.length /\ g3.data = g2.data /\ g3.log = g2.log
    BY <2>1, <1>11, StateEffect
  <2> QED BY <2>2, <1>7, <1>11 DEF LogAt
<1>14. ASSUME NEW g, g \in Files, g.state = other, g.offset[other] = o,
              g.size = f.size, g.length = <<o, K>>, g.data = f.data, DOMAIN g.log \subseteq {at, o}, LogAt(g, o) = L
       PROVE  Undoable(g, c) /\ Covered(g) = Covered(f)
  <2>1. Active(g) = o /\ Log(g) = L BY <1>14 DEF Active, Log
  <2>2. Len(c) < o BY <1>0, <1>3
  <2>3. \A a \in DOMAIN g.log : a > Len(c)
    <3> TAKE a \in DOMAIN g.log
    <3>1. a = at \/ a = o BY <1>14
    <3> QED BY <3>1, <1>0, <1>3, <2>2
  <2>4. ~NoLog(g)
    <3>1. Ceil(g.length) > o /\ Ceil(g.length) \in Nat BY <1>4, <1>14, CeilOf
    <3> QED BY <3>1, <2>1 DEF NoLog, Active
  <2>5. \A n \in 1 .. Len(c) : g.data[n] = f.data[n] BY <1>14
  <2>6. g.state \in Slots /\ Len(c) < Active(g) /\ g.size = f.size /\ Log(g) = Log(f) /\ g \in Files
    BY <1>14, <2>1, <2>2
  <2> QED BY <1>0, <1>1, <2>3, <2>4, <2>5, <2>6, LogElsewhere
<1>15. Undoable(g3, c) /\ Covered(g3) = Covered(f) BY <1>13, <1>14
<1>16. Leads(Disk(g2, {g2}), <<SetState(other)>> \o <<Sync>>, Disk(g3, {g3}), {c})
  BY <1>0, <1>8, <1>11, <1>12, <1>15, SwitchLeads
<1>17. /\ g4 \in Files /\ g4.state = other /\ g4.offset[other] = o
       /\ g4.size = f.size /\ g4.length = <<o, K>> /\ g4.data = f.data /\ DOMAIN g4.log = {o} /\ LogAt(g4, o) = L
  <2>1. Erased(g3, at, g4) BY <1>0, <1>8, <1>13, EraseEffect
  <2>2. /\ g4 \in Files /\ g4.state = g3.state /\ g4.offset = g3.offset
        /\ g4.size = g3.size /\ g4.length = g3.length /\ g4.data = g3.data
    BY <2>1 DEF Erased
  <2>3. at # o BY <1>0
  <2>4. DOMAIN g4.log = {o} BY <2>1, <2>3, <1>13 DEF Erased
  <2>5. LogAt(g4, o) = L
    <3>1. g4.log[o] = g3.log[o] BY <2>1, <2>4 DEF Erased
    <3> QED BY <3>1, <2>4, <1>13 DEF LogAt
  <2> QED BY <2>2, <2>4, <2>5, <1>13
<1>18. Undoable(g4, c) /\ Covered(g4) = Covered(f) BY <1>14, <1>17
<1>19. Imaged(g4, {g3, g4}, other, c) BY <1>13, <1>15, <1>17, <1>18 DEF Imaged, Guarded
<1>20. Leads(Disk(g3, {g3}), <<EraseLog(at)>>, Disk(g4, {g3, g4}), {c})
  <2>1. {g3} \union {Apply(i, EraseLog(at)) : i \in {g3}} = {g3, g4} BY <1>8
  <2>2. After(Disk(g3, {g3}), EraseLog(at)) = Disk(g4, {g3, g4}) BY <2>1, <1>8, AfterErase
  <2>3. Crashable(Disk(g3, {g3}), {c}) BY <1>16, LeadsEnd
  <2>4. g4.state # CLEAN BY <1>17, StateCases
  <2>5. Crashable(Disk(g4, {g3, g4}), {c})
    <3> DEFINE km == {g3, g4}
    <3>1. km \in SUBSET Files /\ g4 \in km /\ Guarded(g4, km, c) BY <1>19 DEF Imaged
    <3> HIDE DEF km
    <3>2. Crashable(Disk(g4, km), {c}) BY <3>1, <2>4, <1>0, GuardedCrashable
    <3> QED BY <3>2 DEF km
  <2> QED BY <2>2, <2>3, <2>5, LeadsOne
<1>21. Writing(g4, {g3, g4}, u, b)
  <2>1. \A n \in 1 .. LastPage : g4.data[n] \in Values /\ (n <= o => g4.data[n] = f.data[n])
    BY <1>17 DEF Writing
  <2>2. LogMoved(f, other, o, g4) BY <1>17, <2>1 DEF LogMoved
  <2> HIDE DEF s, at
  <2> QED BY <2>2, <1>19, MovedWriting
<1>22. Leads(Disk(f, im), Copies(o, L) \o (<<SetOffset(other, o)>> \o <<Sync>>)
                          \o (<<SetState(other)>> \o <<Sync>>) \o <<EraseLog(at)>>, Disk(g4, {g3, g4}), {c})
  BY <1>5, <1>6, <1>10, <1>16, <1>20, LeadsThen
<1> DEFINE e == Disk(g4, {g3, g4})
<1>23. e.file = g4 /\ e.images = {g3, g4} BY DiskFields
<1>24. Copies(o, L) \o (<<SetOffset(other, o)>> \o <<Sync>>) \o (<<SetState(other)>> \o <<Sync>>) \o <<EraseLog(at)>>
        = Copies(o, L) \o <<SetOffset(other, o)>> \o <<Sync>> \o <<SetState(other)>> \o <<Sync>> \o <<EraseLog(at)>>
  <2>1. IsPlan(Copies(o, L)) BY <1>5 DEF Leads
  <2>2. PICK S : Copies(o, L) \in Seq(S) BY <2>1 DEF IsPlan
  <2> QED BY <2>2
<1> HIDE DEF e
<1>25. \A n \in 1 .. LastPage : n <= o => g4.data[n] = f.data[n] BY <1>17
<1> QED BY <1>21, <1>22, <1>23, <1>24, <1>25 DEF e, HasCopy

(* A plan ends at a disk.                                                   *)
LEMMA LeadsDisk ==
    ASSUME NEW f, NEW im, NEW e, NEW ops, NEW cs, Leads(Disk(f, im), ops, e, cs)
    PROVE  e = Disk(e.file, e.images)
<1>1. PICK S : ops \in Seq(S) BY DEF Leads, IsPlan
<1>2. PICK r : /\ r[0] = Disk(f, im) /\ r[Len(ops)] = e
              /\ \A m \in 1 .. Len(ops) : r[m] = After(r[m - 1], ops[m])
  BY DEF Leads
<1>3. CASE Len(ops) = 0 BY <1>2, <1>3, DiskFields
<1>4. CASE Len(ops) # 0
  <2>1. Len(ops) \in 1 .. Len(ops) BY <1>1, <1>4
  <2>2. e = After(r[Len(ops) - 1], ops[Len(ops)]) BY <1>2, <2>1
  <2> QED BY <2>2, DiskFields DEF After
<1> QED BY <1>3, <1>4

(* A step that follows another is a step.                                   *)
LEMMA ReachesThen ==
    ASSUME NEW f, NEW im, NEW b, NEW one, NEW d, Reaches(f, im, b, one, d),
           NEW two, NEW e, Reaches(d.file, d.images, b, two, e)
    PROVE  /\ Reaches(f, im, b, Step(two.txn, one.ops \o two.ops), e)
           /\ d.file = ApplyAll(f, one.ops)
<1>1. d = Disk(d.file, d.images) BY LeadsDisk DEF Reaches
<1>2. Leads(Disk(f, im), one.ops \o two.ops, e, {b[1]}) BY <1>1, LeadsThen DEF Reaches
<1>3. ApplyAll(Disk(f, im).file, one.ops) = d.file BY LeadsEnd DEF Reaches
<1> QED BY <1>2, <1>3, StepFields, DiskFields DEF Reaches

(* A step that does nothing.                                                *)
LEMMA StayReaches ==
    ASSUME NEW f, NEW im, NEW t, NEW b, Writing(f, im, t, b), Fits(t)
    PROVE  Reaches(f, im, b, Step(t, <<>>), Disk(f, im))
<1>1. Leads(Disk(f, im), <<>>, Disk(f, im), {b[1]}) BY WritingCrashable, LeadsNone
<1> QED BY <1>1, StepFields, DiskFields DEF Reaches

(* move_rollback makes room for a file that has been enlarged.              *)
LEMMA MoveReaches ==
    ASSUME NEW f, NEW im, NEW t, NEW b, Writing(f, im, t, b), t.offset # 0, t.size > t.offset
    PROVE  \E e : /\ Reaches(f, im, b, MoveRollback(t, f), e)
                  /\ MoveRollback(t, f).txn.offset # 0
                  /\ MoveRollback(t, f).txn.size = t.size
                  /\ MoveRollback(t, f).txn.buffers = t.buffers
                  /\ \A n \in 1 .. t.size : e.file.data[n] = f.data[n]
<1> DEFINE h == NewHole(t, f)
           o == t.size + h
           other == IF t.state = USE_FIRST THEN USE_SECOND ELSE USE_FIRST
           u == Moved(t, other, o, h)
           L == LogAt(f, t.offset)
           ops == (IF L = <<>> THEN <<SetLength(o, 0)>> ELSE Copies(o, L))
                  \o <<SetOffset(other, o), Sync, SetState(other), Sync>>
                  \o (IF L = <<>> THEN <<>> ELSE <<EraseLog(t.offset)>>)
<1>1. MoveRollback(t, f) = Step(u, ops) BY DEF MoveRollback, Moved, Copies
<1>2. MoveRollback(t, f).txn = u /\ MoveRollback(t, f).ops = ops
  <2> HIDE DEF u, ops
  <2> QED BY <1>1, StepFields
<1>3. t \in Txns /\ Top(t) > 0 /\ f \in Files /\ L = Log(f) /\ t.state \in Slots /\ L \in Seq(Record)
  BY WritingFields
<1>4. t.size \in Nat /\ t.size \in 1 .. LastPage /\ t.offset \in Nat /\ t.hole \in Nat BY <1>3, TxnFields
<1>5. t.hole > 0 BY DEF Writing, Logged
<1>6. h \in Nat /\ h > 0 BY <1>3, <1>5, HoleEnough
<1> HIDE DEF h
<1>7. o \in Nat /\ o > t.offset /\ o > t.size BY <1>4, <1>6
<1>8. other \in Slots /\ other # t.state BY StateCases
<1>9. u = Moved(t, other, o, h) OBVIOUS
<1> HIDE DEF o, other, u
<1>10. u.size = t.size /\ u.buffers = t.buffers /\ u.offset = o /\ u \in Txns
  <2>1. other \in States BY <1>8, StateCases
  <2>2. HasMoved(t, other, o, h, u) BY <1>3, <1>6, <1>7, <1>9, <2>1, TxnMoved
  <2> QED BY <2>2 DEF HasMoved
<1>11. Fits(u) /\ u.offset # 0 BY <1>4, <1>7, <1>10 DEF Fits
<1>b. Moving(t, other, o, h, u) BY <1>6, <1>7, <1>8, <1>9 DEF Moving
<1>12. HasCopy(f, im, b, u, o, ops)
  <2>1. CASE L = <<>>
    <3>1. Log(f) = <<>> BY <2>1, <1>3
    <3>2. ops = <<SetLength(o, 0)>> \o <<SetOffset(other, o)>> \o <<Sync>> \o <<SetState(other)>> \o <<Sync>>
      BY <2>1
    <3> HIDE DEF ops, L
    <3> QED BY <3>1, <3>2, <1>b, MoveEmptyLeads
  <2>2. CASE L # <<>>
    <3>1. Log(f) # <<>> BY <2>2, <1>3
    <3> DEFINE tail == <<SetOffset(other, o), Sync, SetState(other), Sync>>
    <3>2. HasCopy(f, im, b, u, o, Copies(o, Log(f)) \o <<SetOffset(other, o)>> \o <<Sync>>
                                        \o <<SetState(other)>> \o <<Sync>> \o <<EraseLog(t.offset)>>)
      <4> HIDE DEF ops, L
      <4> QED BY <3>1, <1>b, MoveFullLeads
    <3>3. ops = Copies(o, L) \o tail \o <<EraseLog(t.offset)>> BY <2>2
    <3>4. IsPlan(Copies(o, L))
      <4>1. Copies(o, L) = [i \in 1 .. Len(L) |-> WriteRecord(o, i, L[i])] BY <1>3 DEF Copies
      <4>2. Copies(o, L) \in Seq({WriteRecord(o, i, L[i]) : i \in 1 .. Len(L)}) BY <1>3, <4>1
      <4> QED BY <4>2 DEF IsPlan
    <3>5. PICK S : Copies(o, L) \in Seq(S) BY <3>4 DEF IsPlan
    <3> HIDE DEF L
    <3>6. Copies(o, L) \o <<SetOffset(other, o)>> \o <<Sync>> \o <<SetState(other)>> \o <<Sync>>
            = Copies(o, L) \o tail
      BY <3>5
    <3> HIDE DEF ops, tail
    <3> QED BY <3>2, <3>3, <3>6, <1>3
  <2> QED BY <2>1, <2>2
<1>13. PICK e : /\ Leads(Disk(f, im), ops, e, {b[1]}) /\ Writing(e.file, e.images, u, b)
                /\ \A n \in 1 .. LastPage : n <= o => e.file.data[n] = f.data[n]
  BY <1>12 DEF HasCopy
<1>14. \A n \in 1 .. t.size : e.file.data[n] = f.data[n]
  <2>1. \A n \in 1 .. t.size : n \in 1 .. LastPage /\ n <= o BY <1>4, <1>7, FileImageAssumption
  <2> QED BY <2>1, <1>13
<1> HIDE DEF ops
<1> QED BY <1>2, <1>10, <1>11, <1>13, <1>14 DEF Reaches

(* The size of the file is changed, and the old one can be restored.        *)
HasResized(t, n, u) ==
    /\ u \in Txns /\ Top(u) = Top(t)
    /\ u.size = n /\ u.state = t.state /\ u.offset = t.offset /\ u.hole = t.hole
    /\ \A l \in 1 .. Top(t) :
          /\ u.buffers[l].start = t.buffers[l].start /\ u.buffers[l].dirty = t.buffers[l].dirty
          /\ u.buffers[l].undo = IF l = Top(t) THEN Append(t.buffers[l].undo, t.size) ELSE t.buffers[l].undo

(* What the sizes are after a change, and what was saved of them.           *)
LEMMA TxnResized ==
    ASSUME NEW t \in Txns, Top(t) > 0, NEW n \in 1 .. LastPage
    PROVE  HasResized(t, n, Resize(t, n))
<1> DEFINE u == Resize(t, n)
           T == Top(t)
           x == t.buffers[T]
           y == [x EXCEPT !.undo = Append(t.buffers[T].undo, t.size)]
           B == [t.buffers EXCEPT ![T] = y]
<1>1. /\ t.size \in 1 .. LastPage /\ t.buffers \in Seq(Buffers) /\ T \in Nat
      /\ \A l \in 1 .. T : t.buffers[l] \in Buffers
  BY TxnFields
<1>2. T = Len(t.buffers) /\ T \in 1 .. T BY <1>1 DEF Top
<1>3. u = [t EXCEPT !.buffers = B, !.size = n]
  BY DEF Resize, Txns
<1>4. y \in Buffers /\ y.start = x.start /\ y.dirty = x.dirty /\ y.undo = Append(x.undo, t.size)
  <2>1. x \in Buffers BY <1>1, <1>2
  <2> HIDE DEF x
  <2>2. x.undo \in Seq(1 .. LastPage) BY <2>1 DEF Buffers
  <2>3. Append(x.undo, t.size) \in Seq(1 .. LastPage) BY <2>2, <1>1
  <2>4. y = [x EXCEPT !.undo = Append(x.undo, t.size)] BY DEF x
  <2> DEFINE a == Append(x.undo, t.size)
  <2> HIDE DEF a
  <2>5. y = [x EXCEPT !.undo = a] BY <2>4 DEF a
  <2> HIDE DEF y
  <2>6. y \in Buffers /\ y.start = x.start /\ y.dirty = x.dirty /\ y.undo = a BY <2>1, <2>3, <2>5 DEF Buffers, a
  <2> QED BY <2>6 DEF a
<1> HIDE DEF y
<1>5. B \in Seq(Buffers) /\ Len(B) = T /\ \A l \in 1 .. T : B[l] = IF l = T THEN y ELSE t.buffers[l]
  <2>1. B = [t.buffers EXCEPT ![T] = y] /\ T \in 1 .. Len(t.buffers) BY <1>2
  <2> HIDE DEF B, T
  <2> QED BY <2>1, <1>1, <1>2, <1>4, ExceptSeq
<1> HIDE DEF B
<1>6. u \in Txns /\ u.buffers = B /\ u.size = n /\ u.state = t.state /\ u.offset = t.offset /\ u.hole = t.hole
  <2> HIDE DEF u
  <2> QED BY <1>3, <1>5 DEF Txns
<1>7. Top(u) = T BY <1>5, <1>6 DEF Top
<1> HIDE DEF u
<1>8. \A l \in 1 .. T :
          /\ u.buffers[l].start = t.buffers[l].start /\ u.buffers[l].dirty = t.buffers[l].dirty
          /\ u.buffers[l].undo = IF l = T THEN Append(t.buffers[l].undo, t.size) ELSE t.buffers[l].undo
  BY <1>4, <1>5, <1>6
<1>9. HasResized(t, n, u) BY <1>6, <1>7, <1>8 DEF HasResized
<1> QED BY <1>9 DEF u

(* The transaction goes on, and restores what it restored.                  *)
LEMMA ResizeWriting ==
    ASSUME NEW f, NEW im, NEW t, NEW b, Writing(f, im, t, b), t.offset # 0,
           NEW n \in 1 .. LastPage, NEW u, u = Resize(t, n)
    PROVE  Writing(f, im, u, b) /\ HasResized(t, n, u)
<1>0. t \in Txns /\ Top(t) > 0 /\ Top(t) \in Nat BY WritingFields
<1>1. HasResized(t, n, u) BY <1>0, TxnResized
<1>a. /\ u \in Txns /\ Top(u) = Top(t)
      /\ u.size = n /\ u.state = t.state /\ u.offset = t.offset /\ u.hole = t.hole
      /\ \A l \in 1 .. Top(t) :
          /\ u.buffers[l].start = t.buffers[l].start /\ u.buffers[l].dirty = t.buffers[l].dirty
          /\ u.buffers[l].undo = IF l = Top(t) THEN Append(t.buffers[l].undo, t.size) ELSE t.buffers[l].undo
  BY <1>1 DEF HasResized
<1>2. Logged(f, im, t, b) BY DEF Writing
<1>3. \A l \in 1 .. Top(t) : Span(f, u, l) = Span(f, t, l) BY <1>a DEF Span
<1>4. Nested(f, u, b) BY <1>a, <1>2, <1>3 DEF Nested, Logged
<1>5. LogKept(f, u) BY <1>a, <1>2 DEF Logged, LogKept
<1>6. 1 \in 1 .. Top(t) BY <1>0
<1>7. Logged(f, im, u, b) BY <1>a, <1>2, <1>4, <1>5, <1>6 DEF Logged
<1>8. ASSUME NEW l \in 1 .. Top(u)
      PROVE  Len(b[l]) = IF u.buffers[l].undo # <<>> THEN u.buffers[l].undo[1]
                      ELSE IF l = Top(u) THEN u.size ELSE Len(b[l + 1])
  <2>1. Len(b[l]) = IF t.buffers[l].undo # <<>> THEN t.buffers[l].undo[1]
                      ELSE IF l = Top(t) THEN t.size ELSE Len(b[l + 1])
    BY <1>a DEF Writing
  <2>2. CASE l # Top(t) BY <2>1, <2>2, <1>a
  <2>3. CASE l = Top(t)
    <3> DEFINE w == t.buffers[l].undo
    <3>1. w \in Seq(1 .. LastPage) BY <1>0, <2>3, TxnFields
    <3>2. u.buffers[l].undo = Append(w, t.size) BY <1>a, <2>3
    <3>3. Len(b[l]) = IF w # <<>> THEN w[1] ELSE t.size BY <2>1, <2>3
    <3> HIDE DEF w
    <3>4. Append(w, t.size) # <<>> /\ Append(w, t.size)[1] = IF w # <<>> THEN w[1] ELSE t.size
      <4>1. CASE w = <<>> BY <4>1
      <4>2. CASE w # <<>>
        <5>1. 1 \in 1 .. Len(w) BY <4>2, <3>1, EmptySeq
        <5> QED BY <5>1, <4>2, <3>1, AppendProperties
      <4> QED BY <4>1, <4>2
    <3> QED BY <3>2, <3>3, <3>4
  <2> QED BY <2>2, <2>3
<1>9. u.offset # 0 BY <1>a
<1>10. b \in Seq(Contents) /\ Len(b) = Top(u) /\ Top(u) > 0 /\ f \in im /\ im \subseteq Files
       /\ \A m \in 1 .. LastPage : f.data[m] \in Values
  BY <1>a DEF Writing
<1> QED BY <1>1, <1>a, <1>7, <1>8, <1>9, <1>10 DEF Writing

(* set_length.                                                              *)
LEMMA SetLengthReaches ==
    ASSUME NEW f, NEW im, NEW t, NEW b, Writing(f, im, t, b), Fits(t), NEW n \in 1 .. LastPage, n # t.size
    PROVE  \E e : /\ Reaches(f, im, b, SetLengthStep(t, n, f), e)
                  /\ SetLengthStep(t, n, f).txn.offset # 0
                  /\ SetLengthStep(t, n, f).txn.size = n
                  /\ Top(SetLengthStep(t, n, f).txn) = Top(t)
                  /\ \A m \in 1 .. t.size : m <= n => e.file.data[m] = f.data[m]
<1> DEFINE one == CreateRollback(t, f)
           u == one.txn
           v == Resize(u, n)
           g == ApplyAll(f, one.ops)
           two == IF n > u.offset THEN MoveRollback(v, g) ELSE Step(v, <<>>)
<1>1. SetLengthStep(t, n, f) = Step(two.txn, one.ops \o two.ops)
  BY DEF SetLengthStep, Then
<1>2. PICK d : /\ Reaches(f, im, b, one, d) /\ u.offset # 0 /\ u.size = t.size /\ u.buffers = t.buffers
               /\ \A m \in 1 .. t.size : d.file.data[m] = f.data[m]
  BY CreateReaches
<1>3. g = d.file
  <2>1. Leads(Disk(f, im), one.ops, d, {b[1]}) BY <1>2 DEF Reaches
  <2> HIDE DEF one
  <2> QED BY <2>1, LeadsEnd, DiskFields
<1>4. Top(u) = Top(t) /\ u \in Txns /\ Writing(d.file, d.images, u, b)
  <2>1. Writing(d.file, d.images, u, b) BY <1>2 DEF Reaches
  <2> QED BY <2>1, <1>2, WritingFields DEF Top
<1> HIDE DEF one, u
<1>5. Writing(d.file, d.images, v, b) /\ HasResized(u, n, v)
  <2>1. v = Resize(u, n) OBVIOUS
  <2> HIDE DEF v
  <2> QED BY <2>1, <1>2, <1>4, ResizeWriting
<1> HIDE DEF v, g
<1>6. v.size = n /\ v.offset = u.offset /\ v.offset # 0 /\ Top(v) = Top(t) BY <1>2, <1>4, <1>5 DEF HasResized
<1>7. n \in Nat /\ u.offset \in Nat /\ v \in Txns /\ t.size \in Nat
  <2>1. v \in Txns /\ t \in Txns /\ Top(u) > 0 /\ Top(t) > 0 BY <1>4, <1>5, WritingFields
  <2> QED BY <2>1, <1>4, TxnFields, FileImageAssumption
<1>8. \E e : /\ Reaches(d.file, d.images, b, two, e)
             /\ two.txn.offset # 0 /\ two.txn.size = n /\ Top(two.txn) = Top(t)
             /\ \A m \in 1 .. n : e.file.data[m] = d.file.data[m]
  <2>1. CASE n > u.offset
    <3>1. two = MoveRollback(v, d.file) BY <2>1, <1>3
    <3>2. v.size > v.offset BY <2>1, <1>6
    <3>3. \E e : /\ Reaches(d.file, d.images, b, MoveRollback(v, d.file), e)
                 /\ MoveRollback(v, d.file).txn.offset # 0
                 /\ MoveRollback(v, d.file).txn.size = v.size
                 /\ MoveRollback(v, d.file).txn.buffers = v.buffers
                 /\ \A m \in 1 .. v.size : e.file.data[m] = d.file.data[m]
      BY <3>2, <1>5, <1>6, MoveReaches
    <3> HIDE DEF two
    <3> QED BY <3>1, <3>3, <1>6 DEF Top
  <2>2. CASE ~(n > u.offset)
    <3>1. two = Step(v, <<>>) BY <2>2
    <3>2. Fits(v) BY <2>2, <1>6, <1>7 DEF Fits
    <3>3. Reaches(d.file, d.images, b, Step(v, <<>>), Disk(d.file, d.images)) BY <3>2, <1>5, StayReaches
    <3>4. two.txn = v BY <3>1, StepFields
    <3> HIDE DEF two
    <3> QED BY <3>1, <3>3, <3>4, <1>6, DiskFields
  <2> QED BY <2>1, <2>2
<1>9. PICK e : /\ Reaches(d.file, d.images, b, two, e)
               /\ two.txn.offset # 0 /\ two.txn.size = n /\ Top(two.txn) = Top(t)
               /\ \A m \in 1 .. n : e.file.data[m] = d.file.data[m]
  BY <1>8
<1> HIDE DEF two
<1>10. Reaches(f, im, b, Step(two.txn, one.ops \o two.ops), e) BY <1>2, <1>9, ReachesThen
<1>11. \A m \in 1 .. t.size : m <= n => e.file.data[m] = f.data[m]
  <2>1. \A m \in 1 .. t.size : m <= n => m \in 1 .. n BY <1>7
  <2> QED BY <2>1, <1>2, <1>9
<1>12. SetLengthStep(t, n, f).txn = two.txn BY <1>1, StepFields
<1> QED BY <1>1, <1>9, <1>10, <1>11, <1>12

(* One more record with what the page now is.                               *)
LEMMA UndoesMore ==
    ASSUME NEW log \in Seq(Record), NEW r \in Record, NEW start \in Nat, start <= Len(log),
           NEW data, NEW n, NEW v, Undoes(log, start + 1 .. Len(log), data, n, v),
           r.page = n => r.old = data[n]
    PROVE  Undoes(Append(log, r), start + 1 .. Len(log) + 1, data, n, v)
<1> DEFINE K == Len(log)
           more == Append(log, r)
<1>1. K \in Nat /\ more[K + 1] = r /\ \A k \in start + 1 .. K : more[k] = log[k]
  <2>1. K \in Nat /\ Len(more) = K + 1 /\ more[K + 1] = r /\ \A k \in 1 .. K : more[k] = log[k]
    BY AppendProperties
  <2>2. \A k \in start + 1 .. K : k \in 1 .. K BY <2>1
  <2> QED BY <2>1, <2>2
<1> HIDE DEF more
<1>2. CASE \E k \in start + 1 .. K : /\ log[k].page = n /\ log[k].old = v
                                     /\ \A j \in start + 1 .. K : j < k => log[j].page # n
  <2>1. PICK k \in start + 1 .. K : /\ log[k].page = n /\ log[k].old = v
                                     /\ \A j \in start + 1 .. K : j < k => log[j].page # n
    BY <1>2
  <2>2. k \in start + 1 .. K + 1 /\ more[k] = log[k] BY <1>1
  <2>3. ASSUME NEW j \in start + 1 .. K + 1, j < k PROVE more[j].page # n
    <3>1. j \in start + 1 .. K BY <2>3, <1>1
    <3> QED BY <3>1, <2>1, <2>3, <1>1
  <2> QED BY <2>1, <2>2, <2>3 DEF Undoes, more
<1>3. CASE data[n] = v /\ \A k \in start + 1 .. K : log[k].page # n
  <2>1. \A k \in start + 1 .. K + 1 : k \in start + 1 .. K \/ k = K + 1 BY <1>1
  <2>2. K + 1 \in start + 1 .. K + 1 BY <1>1
  <2>3. CASE r.page = n
    <3>1. more[K + 1].page = n /\ more[K + 1].old = v BY <2>3, <1>1, <1>3
    <3>2. \A j \in start + 1 .. K + 1 : j < K + 1 => more[j].page # n
      <4>1. \A j \in start + 1 .. K + 1 : j < K + 1 => j \in start + 1 .. K BY <1>1
      <4> QED BY <4>1, <1>1, <1>3
    <3> QED BY <2>2, <3>1, <3>2 DEF Undoes, more
  <2>4. CASE r.page # n
    <3>1. \A k \in start + 1 .. K + 1 : more[k].page # n BY <2>1, <2>4, <1>1, <1>3
    <3> QED BY <3>1, <1>3 DEF Undoes, more
  <2> QED BY <2>3, <2>4
<1> QED BY <1>2, <1>3 DEF Undoes

(* The log of a transaction, and its file with another log in its place.    *)
Located(f, t, c, g, log) ==
    /\ g \in Files /\ g.state = t.state /\ g.offset[t.state] = t.offset /\ g.size = f.size /\ g.data = f.data
    /\ DOMAIN g.log = {t.offset} /\ g.log[t.offset] = log /\ g.length = <<t.offset, Len(log)>>

Restores(log, N, data, c) ==
    /\ log \in Seq(Record) /\ log # <<>> /\ N \in Nat /\ N <= Len(log)
    /\ \A k \in 1 .. N : log[k].committed /\ log[k].crc
    /\ N < Len(log) => ~log[N + 1].committed
    /\ \A n \in 1 .. Len(c) : Undoes(log, 1 .. N, data, n, c[n])

InPlaceAgain(log, N, c, g) ==
    /\ Undoable(g, c) /\ Covered(g) = {log[k].page : k \in 1 .. N}
    /\ g.state # CLEAN

(* If every page is restored from the log, the content is.                  *)
LEMMA LocatedUndoable ==
    ASSUME NEW f, NEW im, NEW t, NEW b, Writing(f, im, t, b), t.offset # 0,
           NEW c, c = b[1], NEW log, NEW g, Located(f, t, c, g, log),
           NEW N, Restores(log, N, f.data, c)
    PROVE  InPlaceAgain(log, N, c, g)
<1>b. /\ log \in Seq(Record) /\ log # <<>> /\ N \in Nat /\ N <= Len(log)
      /\ \A k \in 1 .. N : log[k].committed /\ log[k].crc
      /\ N < Len(log) => ~log[N + 1].committed
      /\ \A n \in 1 .. Len(c) : Undoes(log, 1 .. N, f.data, n, c[n])
  BY DEF Restores
<1> USE <1>b
<1>0. /\ t.offset \in Nat /\ t.state \in Slots /\ c \in Contents /\ Len(c) \in Nat /\ t.state # CLEAN
  BY WritingFields, TxnFields, StateCases
<1>1. f.size = Len(c) /\ Len(c) < t.offset BY DEF Writing, Logged
<1>a. /\ g \in Files /\ g.state = t.state /\ g.offset[t.state] = t.offset /\ g.size = f.size /\ g.data = f.data
      /\ DOMAIN g.log = {t.offset} /\ g.log[t.offset] = log /\ g.length = <<t.offset, Len(log)>>
  BY DEF Located
<1>2. Active(g) = t.offset /\ LogAt(g, t.offset) = log /\ Log(g) = log
  BY <1>a DEF Active, LogAt, Log
<1>3. Len(log) \in Nat /\ Len(log) > 0 BY EmptySeq
<1>4. Reading(g) = 1 .. N
  <2>1. Reading(g) = {i \in 0 + 1 .. Len(log) : \A j \in 0 + 1 .. i : log[j].committed}
    BY <1>2 DEF Reading, Reads
  <2>2. ASSUME NEW i \in 1 .. N PROVE i \in Reading(g)
    <3>1. i \in 0 + 1 .. Len(log) /\ \A j \in 0 + 1 .. i : j \in 1 .. N BY <1>3
    <3> QED BY <2>1, <3>1
  <2>3. ASSUME NEW i \in Reading(g) PROVE i \in 1 .. N
    <3>1. i \in 1 .. Len(log) /\ \A j \in 1 .. i : log[j].committed BY <2>1
    <3>2. CASE i > N
      <4>1. N + 1 \in 1 .. i /\ N < Len(log) BY <3>1, <3>2, <1>3
      <4> QED BY <4>1, <3>1
    <3> QED BY <3>1, <3>2
  <2> QED BY <2>2, <2>3
<1>5. ~NoLog(g)
  <2>1. Ceil(g.length) > t.offset BY <1>0, <1>3, <1>a, CeilOf
  <2>2. Ceil(g.length) \in Nat BY <1>a, CeilOf
  <2> QED BY <2>1, <2>2, <1>0, <1>2 DEF NoLog, Active
<1>6. \A n \in 1 .. Len(c) : Undoes(Log(g), Reading(g), g.data, n, c[n])
  BY <1>2, <1>4, <1>a
<1>7. \A at \in DOMAIN g.log : at > Len(c) BY <1>1, <1>a, <1>0
<1>8. Undoable(g, c) BY <1>0, <1>1, <1>a, <1>2, <1>4, <1>5, <1>6, <1>7 DEF Undoable
<1>9. Covered(g) = {log[k].page : k \in 1 .. N} BY <1>0, <1>a, <1>2, <1>4, <1>5 DEF Covered
<1> QED BY <1>0, <1>8, <1>9, <1>a DEF InPlaceAgain

(* A record is appended to the log of a transaction and then committed.     *)
Saves(f, n, r) ==
    r \in Record /\ r.page = n /\ r.old = f.data[n] /\ ~r.committed /\ r.crc /\ r.old \in Values

(* A record that is not committed yet changes nothing of what is undone.    *)
LEMMA RecordStep ==
    ASSUME NEW f, NEW im, NEW t, NEW b, Writing(f, im, t, b), t.offset # 0,
           NEW q \in Record, ~q.committed, NEW g,
           g = Apply(f, WriteRecord(t.offset, Len(LogAt(f, t.offset)) + 1, q))
    PROVE  /\ Located(f, t, b[1], g, Append(LogAt(f, t.offset), q))
           /\ Undoable(g, b[1]) /\ Covered(g) = Covered(f) /\ g.state = t.state /\ g.state # CLEAN
<1> DEFINE L == LogAt(f, t.offset)
           K == Len(L)
           c == b[1]
           log == Append(L, q)
<1>0. /\ f \in Files /\ t.offset \in Nat /\ t.state \in Slots /\ f.state = t.state /\ L \in Seq(Record) /\ Log(f) = L
      /\ 1 \in 1 .. Top(t) /\ Top(t) \in Nat /\ c \in Contents /\ K \in Nat
  BY WritingFields, TxnFields
<1>1. /\ f.offset[t.state] = t.offset /\ DOMAIN f.log \subseteq {t.offset}
      /\ f.length = <<t.offset, K>> /\ (\A k \in 1 .. K : L[k].committed /\ L[k].crc)
      /\ t.buffers[1].start = 0
  BY DEF Writing, Logged, LogKept
<1>2. Recorded(f, t.offset, q, g)
  <2>1. f.length[1] < t.offset \/ (f.length[1] = t.offset /\ f.length[2] <= K) BY <1>0, <1>1
  <2> QED BY <2>1, <1>0, RecordEffect
<1>3. log \in Seq(Record) /\ Len(log) = K + 1 /\ log[K + 1] = q /\ \A k \in 1 .. K : log[k] = L[k]
  BY <1>0, AppendProperties
<1>4. Located(f, t, c, g, log)
  <2>1. /\ g \in Files /\ g.length = <<t.offset, K + 1>> /\ DOMAIN g.log = DOMAIN f.log \union {t.offset}
        /\ g.log[t.offset] = log
        /\ g.state = f.state /\ g.size = f.size /\ g.offset = f.offset /\ g.data = f.data
    BY <1>2 DEF Recorded
  <2>2. DOMAIN g.log = {t.offset} BY <2>1, <1>1
  <2> HIDE DEF log
  <2> QED BY <2>1, <2>2, <1>0, <1>1, <1>3 DEF Located
<1>5. ASSUME NEW n \in 1 .. Len(c) PROVE Undoes(log, 1 .. K, f.data, n, c[n])
  <2>1. Span(f, t, 1) = 1 .. K BY <1>1 DEF Span
  <2>2. Undoes(L, 1 .. K, f.data, n, c[n]) BY <2>1, <1>0 DEF Writing, Logged, Nested
  <2> HIDE DEF log, K
  <2>3. \A k \in 1 .. K : log[k] = L[k] BY <1>3
  <2> QED BY <2>2, <2>3 DEF Undoes
<1>6. Covered(f) = {L[k].page : k \in 1 .. K} BY <1>0, LoggedReads
<1>7. Undoable(g, c) /\ Covered(g) = {log[k].page : k \in 1 .. K} /\ g.state # CLEAN
  <2>1. log # <<>> OBVIOUS
  <2>2. \A k \in 1 .. K : log[k].committed /\ log[k].crc BY <1>1, <1>3
  <2>3. K < Len(log) => ~log[K + 1].committed BY <1>3
  <2>4. K <= Len(log) BY <1>3, <1>0
  <2> HIDE DEF log, K
  <2>5. log \in Seq(Record) /\ K \in Nat BY <1>3, <1>0
  <2> DEFINE N == K
  <2> HIDE DEF N
  <2>6. Restores(log, N, f.data, c)
    BY <2>1, <2>2, <2>3, <2>4, <2>5, <1>5 DEF N, Restores
  <2>8. InPlaceAgain(log, N, c, g) BY <2>6, <1>4, LocatedUndoable
  <2>7. Undoable(g, c) /\ Covered(g) = {log[k].page : k \in 1 .. N} /\ g.state # CLEAN
    BY <2>8 DEF InPlaceAgain
  <2> QED BY <2>7 DEF N
<1>8. Covered(g) = Covered(f) BY <1>3, <1>6, <1>7
<1> QED BY <1>4, <1>7, <1>8 DEF Located

Committed(r) == [r EXCEPT !.committed = TRUE]

(* A transaction with one more record.                                      *)
Extended(f, t, b, n, log, g) ==
    /\ Undoable(g, b[1]) /\ g.state # CLEAN /\ g.state = t.state /\ LogAt(g, t.offset) = log
    /\ Len(log) = Len(LogAt(f, t.offset)) + 1 /\ log[Len(log)].page = n
    /\ Writing(g, {g}, t, b)

(* The record of a page whose content is still what was there before.       *)
LEMMA LoggedMore ==
    ASSUME NEW f, NEW im, NEW t, NEW b, Writing(f, im, t, b), t.offset # 0,
           NEW n, NEW r, Saves(f, n, r), NEW log, log = Append(LogAt(f, t.offset), Committed(r)),
           NEW g, Located(f, t, b[1], g, log)
    PROVE  Extended(f, t, b, n, log, g)
<1> DEFINE L == LogAt(f, t.offset)
           K == Len(L)
           c == b[1]
           q == Committed(r)
<1>0. /\ f \in Files /\ t.offset \in Nat /\ t.state \in Slots /\ f.state = t.state /\ L \in Seq(Record) /\ Log(f) = L
      /\ 1 \in 1 .. Top(t) /\ Top(t) \in Nat /\ Top(t) > 0 /\ c \in Contents /\ K \in Nat /\ t \in Txns
      /\ \A l \in 1 .. Top(t) : t.buffers[l].start \in Nat
  BY WritingFields, TxnFields
<1>1. /\ (\A k \in 1 .. K : L[k].committed /\ L[k].crc /\ L[k].old \in Values)
      /\ t.buffers[1].start = 0 /\ f.size = Len(c) /\ Len(c) < t.offset /\ t.hole > 0
  BY DEF Writing, Logged, LogKept
<1>2. q \in Record /\ q.page = n /\ q.old = f.data[n] /\ q.committed /\ q.crc /\ q.old \in Values
  BY DEF Saves, Committed, Record
<1> HIDE DEF q
<1>3. log = Append(L, q) BY DEF q
<1>4. log \in Seq(Record) /\ Len(log) = K + 1 /\ log[K + 1] = q /\ \A k \in 1 .. K : log[k] = L[k]
  BY <1>0, <1>2, <1>3, AppendProperties
<1>5. log # <<>> BY <1>3
<1>6. \A k \in 1 .. K + 1 : log[k].committed /\ log[k].crc /\ log[k].old \in Values
  <2>1. \A k \in 1 .. K + 1 : k \in 1 .. K \/ k = K + 1 BY <1>0
  <2> QED BY <2>1, <1>1, <1>2, <1>4
<1>7. ASSUME NEW l \in 1 .. Top(t)
      PROVE  /\ t.buffers[l].start <= K
             /\ \A m \in 1 .. Top(t) : l <= m => t.buffers[l].start <= t.buffers[m].start
             /\ Len(b[l]) <= t.offset
             /\ \A m \in 1 .. Len(b[l]) : Undoes(log, t.buffers[l].start + 1 .. K + 1, f.data, m, b[l][m])
             /\ \A m \in t.buffers[l].dirty : \E k \in t.buffers[l].start + 1 .. K + 1 : log[k].page = m
  <2>1. /\ t.buffers[l].start <= K
        /\ \A m \in 1 .. Top(t) : l <= m => t.buffers[l].start <= t.buffers[m].start
        /\ Len(b[l]) <= t.offset
        /\ \A m \in 1 .. Len(b[l]) : Undoes(L, t.buffers[l].start + 1 .. K, f.data, m, b[l][m])
        /\ \A m \in t.buffers[l].dirty : \E k \in t.buffers[l].start + 1 .. K : L[k].page = m
    BY DEF Writing, Logged, Nested, Span
  <2>2. t.buffers[l].start \in Nat BY <1>0
  <2> DEFINE start == t.buffers[l].start
  <2> HIDE DEF start
  <2>3. start \in Nat /\ start <= Len(L) BY <2>1, <2>2 DEF start
  <2>4. ASSUME NEW m \in 1 .. Len(b[l]) PROVE Undoes(Append(L, q), start + 1 .. Len(L) + 1, f.data, m, b[l][m])
    <3>1. Undoes(L, start + 1 .. Len(L), f.data, m, b[l][m]) BY <2>1 DEF start
    <3>2. q.page = m => q.old = f.data[m] BY <1>2
    <3>3. L \in Seq(Record) BY <1>0
    <3> DEFINE data == f.data
               v == b[l][m]
    <3>4. q.page = m => q.old = data[m] BY <3>2
    <3>5. Undoes(L, start + 1 .. Len(L), data, m, v) BY <3>1
    <3> HIDE DEF L, data, v
    <3>6. Undoes(Append(L, q), start + 1 .. Len(L) + 1, data, m, v)
      BY <3>3, <3>4, <3>5, <2>3, <1>2, UndoesMore
    <3> QED BY <3>6 DEF data, v
  <2>5. ASSUME NEW m \in t.buffers[l].dirty PROVE \E k \in start + 1 .. K + 1 : log[k].page = m
    <3>1. PICK k \in start + 1 .. K : L[k].page = m BY <2>1 DEF start
    <3>2. k \in 1 .. K /\ k \in start + 1 .. K + 1 BY <3>1, <2>3, <1>0
    <3> QED BY <3>1, <3>2, <1>4
  <2> QED BY <2>1, <2>4, <2>5, <1>3 DEF start
<1>8. InPlaceAgain(log, K + 1, c, g)
  <2>1. \A m \in 1 .. Len(c) : Undoes(log, 1 .. K + 1, f.data, m, c[m])
    <3>1. t.buffers[1].start + 1 .. K + 1 = 1 .. K + 1 BY <1>1
    <3> QED BY <3>1, <1>0, <1>7
  <2>2. K + 1 \in Nat /\ K + 1 <= Len(log) /\ ~(K + 1 < Len(log)) BY <1>0, <1>4
  <2>3. Restores(log, K + 1, f.data, c) BY <2>1, <2>2, <1>4, <1>5, <1>6 DEF Restores
  <2> DEFINE N == K + 1
  <2>4. Restores(log, N, f.data, c) BY <2>3
  <2> HIDE DEF N, c
  <2>5. c = b[1] BY DEF c
  <2>6. Located(f, t, c, g, log) BY <2>5
  <2>7. InPlaceAgain(log, N, c, g) BY <2>4, <2>5, <2>6, LocatedUndoable
  <2> QED BY <2>7 DEF N
<1>9. /\ g \in Files /\ g.state = t.state /\ g.offset[t.state] = t.offset /\ g.size = f.size /\ g.data = f.data
      /\ DOMAIN g.log = {t.offset} /\ g.log[t.offset] = log /\ g.length = <<t.offset, Len(log)>>
  BY DEF Located
<1>10. LogAt(g, t.offset) = log BY <1>9 DEF LogAt
<1>11. LogKept(g, t) BY <1>0, <1>4, <1>5, <1>6, <1>9, <1>10 DEF LogKept
<1>12. Nested(g, t, b)
  <2>1. \A l \in 1 .. Top(t) : Span(g, t, l) = t.buffers[l].start + 1 .. K + 1 BY <1>4, <1>10 DEF Span
  <2>2. \A l \in 1 .. Top(t) : t.buffers[l].start <= Len(log) BY <1>0, <1>4, <1>7
  <2> SUFFICES ASSUME NEW l \in 1 .. Top(t)
               PROVE  /\ t.buffers[l].start <= Len(LogAt(g, t.offset))
                      /\ \A m \in 1 .. Top(t) : l <= m => t.buffers[l].start <= t.buffers[m].start
                      /\ Len(b[l]) <= t.offset
                      /\ \A m \in 1 .. Len(b[l]) : Undoes(LogAt(g, t.offset), Span(g, t, l), g.data, m, b[l][m])
                      /\ \A m \in t.buffers[l].dirty : \E k \in Span(g, t, l) : LogAt(g, t.offset)[k].page = m
    BY DEF Nested
  <2>3. g.data = f.data BY <1>9
  <2>4. Span(g, t, l) = t.buffers[l].start + 1 .. K + 1 BY <2>1
  <2>5. t.buffers[l].start <= Len(LogAt(g, t.offset)) BY <2>2, <1>10
  <2>6. \A m \in 1 .. Top(t) : l <= m => t.buffers[l].start <= t.buffers[m].start BY <1>7
  <2>7. Len(b[l]) <= t.offset BY <1>7
  <2> HIDE DEF K
  <2>8. \A m \in 1 .. Len(b[l]) : Undoes(LogAt(g, t.offset), Span(g, t, l), g.data, m, b[l][m])
    BY <1>7, <1>10, <2>3, <2>4
  <2>9. ASSUME NEW m \in t.buffers[l].dirty PROVE \E k \in Span(g, t, l) : LogAt(g, t.offset)[k].page = m
    <3>1. PICK k \in t.buffers[l].start + 1 .. K + 1 : log[k].page = m BY <1>7
    <3>2. k \in Span(g, t, l) BY <2>4
    <3> QED BY <3>1, <3>2, <1>10
  <2> QED BY <2>5, <2>6, <2>7, <2>8, <2>9
<1>13. Undoable(g, c) /\ g.state # CLEAN BY <1>8 DEF InPlaceAgain
<1>14. Imaged(g, {g}, t.state, c) BY <1>9, <1>13 DEF Imaged, Guarded
<1>15. Logged(g, {g}, t, b) BY <1>1, <1>9, <1>11, <1>12, <1>14 DEF Logged
<1>16. Writing(g, {g}, t, b)
  <2>1. \A m \in 1 .. LastPage : g.data[m] \in Values BY <1>9 DEF Writing
  <2>2. b \in Seq(Contents) /\ Len(b) = Top(t)
        /\ \A l \in 1 .. Top(t) :
             Len(b[l]) = IF t.buffers[l].undo # <<>> THEN t.buffers[l].undo[1]
                         ELSE IF l = Top(t) THEN t.size ELSE Len(b[l + 1])
    BY DEF Writing
  <2> QED BY <2>1, <2>2, <1>0, <1>9, <1>15 DEF Writing
<1> QED BY <1>2, <1>4, <1>9, <1>10, <1>13, <1>16 DEF Extended

HasSaved(f, im, t, b, at, k, r, g) ==
    /\ Leads(Disk(f, im), <<WriteRecord(at, k, r)>> \o <<Sync>> \o <<CommitRecord(at, k)>> \o <<Sync>>,
             Disk(g, {g}), {b[1]})
    /\ Writing(g, {g}, t, b) /\ g.data = f.data
    /\ LogAt(g, at) = Append(LogAt(f, at), Committed(r))

(* write_record, sync, commit_record: the page can be restored.             *)
LEMMA RecordLeads ==
    ASSUME NEW f, NEW im, NEW t, NEW b, Writing(f, im, t, b), t.offset # 0,
           NEW n, NEW r, Saves(f, n, r), NEW at, at = t.offset, NEW k, k = Len(LogAt(f, at)) + 1
    PROVE  \E g : HasSaved(f, im, t, b, at, k, r, g)
<1> DEFINE c == b[1]
           L == LogAt(f, at)
           q == Spoilt(r)
           g1 == Apply(f, WriteRecord(at, k, r))
           i1 == Apply(f, WriteRecord(at, k, q))
           g2 == Apply(g1, CommitRecord(at, k))
           jm == im \union {g1, i1}
<1>0. /\ f \in Files /\ f \in im /\ im \in SUBSET Files /\ at \in Nat /\ L \in Seq(Record) /\ c \in Contents
      /\ r \in Record /\ ~r.committed /\ t.state \in Slots
  BY WritingFields, TxnFields DEF Saves
<1>1. q \in Record /\ ~q.committed BY <1>0 DEF Spoilt, Record
<1>2. g1 = Apply(f, WriteRecord(at, k, r)) /\ i1 = Apply(f, WriteRecord(at, k, q))
      /\ g2 = Apply(g1, CommitRecord(at, k))
  OBVIOUS
<1>3. After(Disk(f, im), WriteRecord(at, k, r)) = Disk(g1, jm) BY AfterRecord
<1> HIDE DEF g1, i1, g2, q, L, jm
<1>4. /\ Located(f, t, c, g1, Append(L, r))
      /\ Undoable(g1, c) /\ Covered(g1) = Covered(f) /\ g1.state = t.state /\ g1.state # CLEAN
  BY <1>0, <1>2, RecordStep DEF L
<1>5. /\ Located(f, t, c, i1, Append(L, q)) /\ Undoable(i1, c)
  BY <1>0, <1>1, <1>2, RecordStep DEF L
<1>6. g1 \in Files /\ i1 \in Files BY <1>4, <1>5 DEF Located
<1>7. Guarded(g1, jm, c)
  <2>1. Guarded(f, im, c) BY DEF Writing, Logged, Imaged
  <2> QED BY <2>1, <1>4, <1>5 DEF Guarded, jm
<1>8. g1 \in jm /\ jm \in SUBSET Files BY <1>0, <1>6 DEF jm
<1>9. Crashable(Disk(f, im), {c}) BY WritingCrashable
<1>10. Crashable(Disk(g1, jm), {c}) BY <1>0, <1>4, <1>7, <1>8, GuardedCrashable
<1>11. Leads(Disk(f, im), <<WriteRecord(at, k, r)>>, Disk(g1, jm), {c}) BY <1>3, <1>9, <1>10, LeadsOne
<1>12. Leads(Disk(g1, jm), <<Sync>>, Disk(g1, {g1}), {c}) BY <1>0, <1>10, SyncLeads
<1>13. Located(f, t, c, g2, Append(L, Committed(r)))
  <2>1. at \in DOMAIN g1.log /\ g1.log[at] = Append(L, r) /\ k = Len(L) + 1 BY <1>4 DEF Located, L
  <2>2. CommittedLast(g1, at, L, r, g2) BY <2>1, <1>0, <1>2, <1>6, CommitEffect
  <2> DEFINE old == Append(L, r)
             log == Append(L, Committed(r))
  <2>3. Len(log) = Len(old)
    <3>1. Committed(r) \in Record BY <1>0 DEF Committed, Record
    <3> QED BY <3>1, <1>0, AppendProperties
  <2>4. Located(f, t, c, g1, old) BY <1>4
  <2>5. /\ g2 \in Files /\ DOMAIN g2.log = DOMAIN g1.log /\ g2.log[at] = log
        /\ g2.state = g1.state /\ g2.size = g1.size /\ g2.offset = g1.offset /\ g2.data = g1.data
        /\ g2.length = g1.length
    BY <2>2 DEF CommittedLast, Committed
  <2> HIDE DEF log, old
  <2>6. Located(f, t, c, g2, log) BY <2>3, <2>4, <2>5 DEF Located
  <2> QED BY <2>6 DEF log
<1>14. /\ Undoable(g2, c) /\ g2.state # CLEAN /\ LogAt(g2, t.offset) = Append(L, Committed(r))
       /\ Writing(g2, {g2}, t, b)
  <2> DEFINE log == Append(L, Committed(r))
  <2>1. log = Append(LogAt(f, t.offset), Committed(r)) BY DEF L
  <2>2. Located(f, t, b[1], g2, log) BY <1>13
  <2> HIDE DEF log
  <2>3. /\ Undoable(g2, b[1]) /\ g2.state # CLEAN /\ LogAt(g2, t.offset) = log /\ Writing(g2, {g2}, t, b)
    <3>1. Extended(f, t, b, n, log, g2) BY <2>1, <2>2, LoggedMore
    <3> QED BY <3>1 DEF Extended
  <2> QED BY <2>3 DEF log
<1>15. After(Disk(g1, {g1}), CommitRecord(at, k)) = Disk(g2, {g1, g2})
  <2>1. {g1} \union {Apply(i, CommitRecord(at, k)) : i \in {g1}} = {g1, g2} BY <1>2
  <2> QED BY <2>1, <1>2, AfterCommit
<1>16. g2 \in Files /\ g2.data = f.data BY <1>13 DEF Located
<1>17. Crashable(Disk(g2, {g1, g2}), {c})
  <2> DEFINE km == {g1, g2}
  <2>1. Guarded(g2, km, c) BY <1>4, <1>14 DEF Guarded
  <2>2. km \in SUBSET Files /\ g2 \in km BY <1>6, <1>16
  <2> HIDE DEF km
  <2>3. Crashable(Disk(g2, km), {c}) BY <2>1, <2>2, <1>0, <1>14, GuardedCrashable
  <2> QED BY <2>3 DEF km
<1>18. Crashable(Disk(g1, {g1}), {c}) BY <1>12, LeadsEnd
<1>19. Leads(Disk(g1, {g1}), <<CommitRecord(at, k)>>, Disk(g2, {g1, g2}), {c}) BY <1>15, <1>17, <1>18, LeadsOne
<1>20. Leads(Disk(g2, {g1, g2}), <<Sync>>, Disk(g2, {g2}), {c}) BY <1>0, <1>17, SyncLeads
<1>21. Leads(Disk(f, im), <<WriteRecord(at, k, r)>> \o <<Sync>> \o <<CommitRecord(at, k)>> \o <<Sync>>, Disk(g2, {g2}), {c})
  BY <1>11, <1>12, <1>19, <1>20, LeadsThen
<1> QED BY <1>14, <1>16, <1>21 DEF L, HasSaved

(* The innermost transaction has saved page n.                              *)
HasPage(f, t, n) == \E k \in Span(f, t, Top(t)) : LogAt(f, t.offset)[k].page = n

HasDirtied(t, n, u) ==
    /\ u \in Txns /\ Top(u) = Top(t)
    /\ u.size = t.size /\ u.state = t.state /\ u.offset = t.offset /\ u.hole = t.hole
    /\ \A l \in 1 .. Top(t) :
          /\ u.buffers[l].start = t.buffers[l].start /\ u.buffers[l].undo = t.buffers[l].undo
          /\ u.buffers[l].dirty = IF l = Top(t) THEN t.buffers[l].dirty \union {n} ELSE t.buffers[l].dirty

(* The page counts as saved, in the innermost transaction alone.            *)
LEMMA TxnDirtied ==
    ASSUME NEW t \in Txns, Top(t) > 0, NEW n \in 1 .. LastPage
    PROVE  HasDirtied(t, n, Dirtied(t, n, n))
<1> DEFINE u == Dirtied(t, n, n)
           T == Top(t)
           x == t.buffers[T]
           y == [x EXCEPT !.dirty = x.dirty \union (n .. n)]
           B == [t.buffers EXCEPT ![T] = y]
<1>1. /\ t.buffers \in Seq(Buffers) /\ T \in Nat
      /\ \A l \in 1 .. T : t.buffers[l] \in Buffers
  BY TxnFields
<1>2. T = Len(t.buffers) /\ T \in 1 .. T BY <1>1 DEF Top
<1>3. u = [t EXCEPT !.buffers = B] BY DEF Dirtied, Txns
<1>4. y \in Buffers /\ y.start = x.start /\ y.undo = x.undo /\ y.dirty = x.dirty \union {n}
  <2>1. x \in Buffers BY <1>1, <1>2
  <2> HIDE DEF x
  <2>2. n .. n = {n} BY FileImageAssumption
  <2>3. x.dirty \union {n} \in SUBSET (1 .. LastPage) BY <2>1 DEF Buffers
  <2> DEFINE a == x.dirty \union {n}
  <2>4. y = [x EXCEPT !.dirty = a] BY <2>2
  <2> HIDE DEF a, y
  <2>5. y \in Buffers /\ y.start = x.start /\ y.undo = x.undo /\ y.dirty = a BY <2>1, <2>3, <2>4 DEF Buffers, a
  <2> QED BY <2>5 DEF a
<1> HIDE DEF y
<1>5. B \in Seq(Buffers) /\ Len(B) = T /\ \A l \in 1 .. T : B[l] = IF l = T THEN y ELSE t.buffers[l]
  <2>1. B = [t.buffers EXCEPT ![T] = y] /\ T \in 1 .. Len(t.buffers) BY <1>2
  <2> HIDE DEF B, T
  <2> QED BY <2>1, <1>1, <1>2, <1>4, ExceptSeq
<1> HIDE DEF B
<1>6. u \in Txns /\ u.buffers = B /\ u.size = t.size /\ u.state = t.state /\ u.offset = t.offset /\ u.hole = t.hole
  <2> HIDE DEF u
  <2> QED BY <1>3, <1>5 DEF Txns
<1>7. Top(u) = T BY <1>5, <1>6 DEF Top
<1> HIDE DEF u
<1>8. \A l \in 1 .. T :
          /\ u.buffers[l].start = t.buffers[l].start /\ u.buffers[l].undo = t.buffers[l].undo
          /\ u.buffers[l].dirty = IF l = T THEN t.buffers[l].dirty \union {n} ELSE t.buffers[l].dirty
  BY <1>4, <1>5, <1>6
<1>9. HasDirtied(t, n, u) BY <1>6, <1>7, <1>8 DEF HasDirtied
<1> QED BY <1>9 DEF u

(* It is, once its record is in the log.                                    *)
LEMMA DirtiedWriting ==
    ASSUME NEW f, NEW im, NEW t, NEW b, Writing(f, im, t, b), t.offset # 0,
           NEW n \in 1 .. LastPage, HasPage(f, t, n), NEW u, u = Dirtied(t, n, n)
    PROVE  Writing(f, im, u, b) /\ HasDirtied(t, n, u)
<1>0. t \in Txns /\ Top(t) > 0 /\ Top(t) \in Nat BY WritingFields
<1>1. HasDirtied(t, n, u) BY <1>0, TxnDirtied
<1>a. /\ u \in Txns /\ Top(u) = Top(t)
      /\ u.size = t.size /\ u.state = t.state /\ u.offset = t.offset /\ u.hole = t.hole
      /\ \A l \in 1 .. Top(t) :
          /\ u.buffers[l].start = t.buffers[l].start /\ u.buffers[l].undo = t.buffers[l].undo
          /\ u.buffers[l].dirty = IF l = Top(t) THEN t.buffers[l].dirty \union {n} ELSE t.buffers[l].dirty
  BY <1>1 DEF HasDirtied
<1>2. Logged(f, im, t, b) BY DEF Writing
<1>3. \A l \in 1 .. Top(t) : Span(f, u, l) = Span(f, t, l) BY <1>a DEF Span
<1>4. Nested(f, u, b)
  <2> SUFFICES ASSUME NEW l \in 1 .. Top(u)
               PROVE  /\ u.buffers[l].start <= Len(LogAt(f, u.offset))
                      /\ \A m \in 1 .. Top(u) : l <= m => u.buffers[l].start <= u.buffers[m].start
                      /\ Len(b[l]) <= u.offset
                      /\ \A m \in 1 .. Len(b[l]) : Undoes(LogAt(f, u.offset), Span(f, u, l), f.data, m, b[l][m])
                      /\ \A m \in u.buffers[l].dirty : \E k \in Span(f, u, l) : LogAt(f, u.offset)[k].page = m
    BY DEF Nested
  <2>0. l \in 1 .. Top(t) BY <1>a
  <2>1. /\ t.buffers[l].start <= Len(LogAt(f, t.offset))
        /\ \A m \in 1 .. Top(t) : l <= m => t.buffers[l].start <= t.buffers[m].start
        /\ Len(b[l]) <= t.offset
        /\ \A m \in 1 .. Len(b[l]) : Undoes(LogAt(f, t.offset), Span(f, t, l), f.data, m, b[l][m])
        /\ \A m \in t.buffers[l].dirty : \E k \in Span(f, t, l) : LogAt(f, t.offset)[k].page = m
    BY <2>0, <1>2 DEF Logged, Nested
  <2>2. ASSUME NEW m \in u.buffers[l].dirty PROVE \E k \in Span(f, t, l) : LogAt(f, t.offset)[k].page = m
    <3>1. CASE m \in t.buffers[l].dirty BY <2>1, <3>1
    <3>2. CASE m \notin t.buffers[l].dirty
      <4>1. l = Top(t) /\ m = n BY <1>a, <2>0, <3>2
      <4> QED BY <4>1 DEF HasPage
    <3> QED BY <3>1, <3>2
  <2>3. u.buffers[l].start <= Len(LogAt(f, u.offset)) BY <1>a, <2>0, <2>1
  <2>4. \A m \in 1 .. Top(u) : l <= m => u.buffers[l].start <= u.buffers[m].start BY <1>a, <2>0, <2>1
  <2>5. Len(b[l]) <= u.offset BY <1>a, <2>1
  <2>6. \A m \in 1 .. Len(b[l]) : Undoes(LogAt(f, u.offset), Span(f, u, l), f.data, m, b[l][m])
    BY <1>a, <1>3, <2>0, <2>1
  <2>7. \A m \in u.buffers[l].dirty : \E k \in Span(f, u, l) : LogAt(f, u.offset)[k].page = m
    <3>1. u.offset = t.offset /\ Span(f, u, l) = Span(f, t, l) BY <1>a, <1>3, <2>0
    <3> QED BY <3>1, <2>2
  <2> QED BY <2>3, <2>4, <2>5, <2>6, <2>7
<1>5. LogKept(f, u) BY <1>a, <1>2 DEF Logged, LogKept
<1>6. 1 \in 1 .. Top(t) BY <1>0
<1>7. Logged(f, im, u, b) BY <1>a, <1>2, <1>4, <1>5, <1>6 DEF Logged
<1>8. \A l \in 1 .. Top(u) :
          Len(b[l]) = IF u.buffers[l].undo # <<>> THEN u.buffers[l].undo[1]
                      ELSE IF l = Top(u) THEN u.size ELSE Len(b[l + 1])
  <2> SUFFICES ASSUME NEW l \in 1 .. Top(u)
               PROVE  Len(b[l]) = IF u.buffers[l].undo # <<>> THEN u.buffers[l].undo[1]
                                  ELSE IF l = Top(u) THEN u.size ELSE Len(b[l + 1])
    OBVIOUS
  <2>1. Top(u) = Top(t) /\ u.size = t.size BY <1>a
  <2>2. l \in 1 .. Top(t) BY <2>1
  <2>3. u.buffers[l].undo = t.buffers[l].undo BY <1>a, <2>2
  <2>4. Len(b[l]) = IF t.buffers[l].undo # <<>> THEN t.buffers[l].undo[1]
                    ELSE IF l = Top(t) THEN t.size ELSE Len(b[l + 1])
    BY <2>2 DEF Writing
  <2> QED BY <2>1, <2>3, <2>4
<1>9. u.offset # 0 BY <1>a
<1>10. b \in Seq(Contents) /\ Len(b) = Top(u) /\ Top(u) > 0 /\ f \in im /\ im \subseteq Files
       /\ \A m \in 1 .. LastPage : f.data[m] \in Values
  BY <1>a DEF Writing
<1> QED BY <1>1, <1>a, <1>7, <1>8, <1>9, <1>10 DEF Writing

(* The records that write appends for one page.                             *)
Copied(f, n) == [page |-> n, old |-> PageAt(f, n), committed |-> FALSE, crc |-> TRUE]

(* Only a page not saved yet gets a record.                                 *)
LEMMA SavedPage ==
    ASSUME NEW t, NEW n \in 1 .. LastPage, NEW f
    PROVE  SavedPages(t, n, n, f) = IF n \in t.buffers[Top(t)].dirty THEN <<>> ELSE <<Copied(f, n)>>
<1> DEFINE D == t.buffers[Top(t)].dirty
           next(x, i) == IF i \in D THEN x
                         ELSE Append(x, [page |-> i, old |-> PageAt(f, i),
                                         committed |-> x # <<>>, crc |-> ~(x # <<>>)])
           Runs(g) == g = [i \in n - 1 .. n |-> IF i = n - 1 THEN <<>> ELSE next(g[i - 1], i)]
           g == CHOOSE g : Runs(g)
<1>1. n \in Nat /\ n - 1 \in n - 1 .. n /\ n \in n - 1 .. n /\ n # n - 1 BY FileImageAssumption
<1>2. \E k : Runs(k)
  <2> DEFINE k == [i \in n - 1 .. n |-> IF i = n - 1 THEN <<>> ELSE next(<<>>, n)]
  <2>1. k[n - 1] = <<>> BY <1>1
  <2>2. \A i \in n - 1 .. n : i = n - 1 \/ (i = n /\ i # n - 1) BY <1>1
  <2>3. k = [i \in n - 1 .. n |-> k[i]] OBVIOUS
  <2>4. \A i \in n - 1 .. n : k[i] = IF i = n - 1 THEN <<>> ELSE next(k[i - 1], i)
    <3> TAKE i \in n - 1 .. n
    <3>1. CASE i = n - 1 BY <3>1
    <3>2. CASE i = n /\ i # n - 1
      <4>1. k[i] = next(<<>>, n) /\ k[i - 1] = <<>> BY <3>2, <2>1
      <4> HIDE DEF next, k
      <4> QED BY <3>2, <4>1
    <3> QED BY <3>1, <3>2, <2>2
  <2> HIDE DEF k, next
  <2> DEFINE h == [i \in n - 1 .. n |-> IF i = n - 1 THEN <<>> ELSE next(k[i - 1], i)]
  <2>5. k = h BY <2>3, <2>4
  <2> QED BY <2>5
<1>3. Runs(g) BY <1>2
<1>4. SavedPages(t, n, n, f) = g[n] BY DEF SavedPages
<1> HIDE DEF g, next
<1>5. g[n - 1] = <<>> /\ g[n] = next(g[n - 1], n)
  <2> DEFINE h == [i \in n - 1 .. n |-> IF i = n - 1 THEN <<>> ELSE next(g[i - 1], i)]
  <2>1. g = h BY <1>3
  <2>2. h[n - 1] = <<>> /\ h[n] = next(g[n - 1], n) BY <1>1
  <2> HIDE DEF h
  <2> QED BY <2>1, <2>2
<1>6. g[n] = next(<<>>, n) BY <1>5
<1>7. next(<<>>, n) = IF n \in D THEN <<>> ELSE <<Copied(f, n)>>
  <2>1. CASE n \in D BY <2>1 DEF next
  <2>2. CASE n \notin D
    <3>1. next(<<>>, n) = Append(<<>>, Copied(f, n)) BY <2>2 DEF next, Copied
    <3> QED BY <2>2, <3>1
  <2> QED BY <2>1, <2>2
<1> QED BY <1>4, <1>6, <1>7

(* The page is read from where it lies, not from the log.                   *)
LEMMA PageInPlace ==
    ASSUME NEW f, NEW im, NEW t, NEW b, Writing(f, im, t, b), Fits(t), NEW n \in 1 .. t.size
    PROVE  PageAt(f, n) = f.data[n]
<1>0. f \in Files /\ t \in Txns /\ Top(t) > 0 /\ t.size \in Nat /\ t.offset \in Nat BY WritingFields, TxnFields
<1>1. DOMAIN f.log \subseteq {t.offset} /\ (DOMAIN f.log = {} \/ t.size <= t.offset)
  <2>1. CASE t.offset = 0
    <3>1. Settled(f, b[1]) BY <1>0, <2>1 DEF Writing, Fresh
    <3> QED BY <3>1 DEF Settled
  <2>2. CASE t.offset # 0 BY <2>2 DEF Writing, Logged, LogKept, Fits
  <2> QED BY <2>1, <2>2
<1>2. \A at \in DOMAIN f.log : ~(at < n) BY <1>0, <1>1
<1> QED BY <1>2 DEF PageAt

SavedBy(f, im, t, b, n, step, e) ==
    /\ Reaches(f, im, b, step, e) /\ e.file.data = f.data
    /\ step.txn.size = t.size /\ step.txn.offset = t.offset /\ Top(step.txn) = Top(t)
    /\ HasPage(e.file, step.txn, n)

(* The page can be restored after that, and nothing else has changed.       *)
LEMMA SaveReaches ==
    ASSUME NEW f, NEW im, NEW t, NEW b, Writing(f, im, t, b), t.offset # 0, Fits(t), NEW n \in 1 .. t.size
    PROVE  \E e : SavedBy(f, im, t, b, n, SavePages(t, n, n, f), e)
<1> DEFINE u == Dirtied(t, n, n)
           L == LogAt(f, t.offset)
           T == Top(t)
           k == Len(L) + 1
           r == Copied(f, n)
           step == SavePages(t, n, n, f)
<1>0. /\ t \in Txns /\ T > 0 /\ T \in Nat /\ T \in 1 .. T /\ t.size \in Nat /\ t.size \in 1 .. LastPage /\ L \in Seq(Record)
      /\ t.buffers[T].start \in Nat /\ f \in Files
  BY WritingFields, TxnFields
<1>1. n \in 1 .. LastPage BY <1>0, FileImageAssumption
<1>2. CASE n \in t.buffers[T].dirty
  <2>1. SavedPages(t, n, n, f) = <<>> BY <1>1, <1>2, SavedPage
  <2>2. step = Step(u, <<>>) BY <2>1 DEF SavePages
  <2>3. HasPage(f, t, n) BY <1>0, <1>2 DEF HasPage, Writing, Logged, Nested
  <2>4. Writing(f, im, u, b) /\ HasDirtied(t, n, u) BY <2>3, <1>1, DirtiedWriting
  <2>5. u.size = t.size /\ u.offset = t.offset /\ Top(u) = T /\ u.buffers[T].start = t.buffers[T].start
    BY <2>4, <1>0 DEF HasDirtied
  <2>6. HasPage(f, u, n) BY <2>3, <2>5 DEF HasPage, Span
  <2>7. Fits(u) BY <2>5 DEF Fits
  <2> HIDE DEF u, step
  <2>8. Reaches(f, im, b, Step(u, <<>>), Disk(f, im)) BY <2>4, <2>7, StayReaches
  <2>9. SavedBy(f, im, t, b, n, step, Disk(f, im))
    BY <2>2, <2>5, <2>6, <2>8, StepFields, DiskFields DEF SavedBy
  <2> QED BY <2>9 DEF step
<1>3. CASE n \notin t.buffers[T].dirty
  <2>1. SavedPages(t, n, n, f) = <<r>> BY <1>1, <1>3, SavedPage
  <2> DEFINE ops == <<WriteRecord(t.offset, k, r)>> \o <<Sync>> \o <<CommitRecord(t.offset, k)>> \o <<Sync>>
  <2>2. step = Step(u, ops)
    <3>1. <<r>> # <<>> /\ Len(L) \in Nat BY <1>0
    <3> DEFINE w == [i \in DOMAIN <<r>> |-> WriteRecord(t.offset, Len(L) + i, <<r>>[i])]
    <3>2. w = <<WriteRecord(t.offset, k, r)>> OBVIOUS
    <3>3. step = Step(u, w \o <<Sync, CommitRecord(t.offset, k), Sync>>)
      BY <2>1, <3>1 DEF SavePages
    <3> HIDE DEF w
    <3> DEFINE o == WriteRecord(t.offset, k, r)
               p == CommitRecord(t.offset, k)
    <3> HIDE DEF o, p
    <3>4. <<o>> \o <<Sync, p, Sync>> = <<o>> \o <<Sync>> \o <<p>> \o <<Sync>> OBVIOUS
    <3> HIDE DEF step, u
    <3>5. ops = <<o>> \o <<Sync>> \o <<p>> \o <<Sync>> BY DEF o, p
    <3> HIDE DEF ops
    <3> QED BY <3>2, <3>3, <3>4, <3>5 DEF o, p
  <2>3. Saves(f, n, r)
    <3>1. PageAt(f, n) = f.data[n] BY PageInPlace
    <3>2. f.data[n] \in Values BY <1>1 DEF Writing
    <3>3. n \in Nat BY <1>1, FileImageAssumption
    <3> QED BY <3>1, <3>2, <3>3 DEF Saves, Copied, Record, Cells
  <2> DEFINE at == t.offset
  <2>a. at = t.offset /\ k = Len(LogAt(f, at)) + 1 OBVIOUS
  <2> HIDE DEF r, k, at
  <2>b. PICK g : HasSaved(f, im, t, b, at, k, r, g) BY <2>3, <2>a, RecordLeads
  <2>4. /\ Leads(Disk(f, im), <<WriteRecord(at, k, r)>> \o <<Sync>> \o <<CommitRecord(at, k)>> \o <<Sync>>,
                           Disk(g, {g}), {b[1]})
        /\ Writing(g, {g}, t, b) /\ g.data = f.data
        /\ LogAt(g, at) = Append(LogAt(f, at), Committed(r))
    BY <2>b DEF HasSaved
  <2> USE DEF at
  <2>5. HasPage(g, t, n)
    <3>1. r.page = n BY <2>3 DEF Saves
    <3>2. Committed(r) \in Record /\ Committed(r).page = n BY <2>3, <3>1 DEF Committed, Record, Saves
    <3>3. LogAt(g, t.offset) = Append(L, Committed(r)) BY <2>4
    <3>4. Len(LogAt(g, t.offset)) = Len(L) + 1 /\ LogAt(g, t.offset)[Len(L) + 1] = Committed(r)
      BY <3>2, <3>3, <1>0, AppendProperties
    <3>5. t.buffers[T].start <= Len(L) BY <1>0 DEF Writing, Logged, Nested
    <3>6. Len(L) + 1 \in Span(g, t, T) BY <3>4, <3>5, <1>0 DEF Span
    <3> QED BY <3>2, <3>4, <3>6 DEF HasPage
  <2>6. Writing(g, {g}, u, b) /\ HasDirtied(t, n, u) BY <2>4, <2>5, <1>1, DirtiedWriting
  <2>7. u.size = t.size /\ u.offset = t.offset /\ Top(u) = T /\ u.buffers[T].start = t.buffers[T].start
    BY <2>6, <1>0 DEF HasDirtied
  <2>8. HasPage(g, u, n) BY <2>5, <2>7 DEF HasPage, Span
  <2>9. Fits(u) BY <2>7 DEF Fits
  <2> DEFINE e == Disk(g, {g})
  <2>10. Leads(Disk(f, im), ops, e, {b[1]}) BY <2>4
  <2>11. e.file = g /\ e.images = {g} BY DiskFields
  <2> HIDE DEF u, step, ops, e
  <2>12. Reaches(f, im, b, step, e) BY <2>2, <2>6, <2>9, <2>10, <2>11, StepFields DEF Reaches
  <2>13. SavedBy(f, im, t, b, n, step, e)
    BY <2>2, <2>4, <2>7, <2>8, <2>11, <2>12, StepFields DEF SavedBy
  <2> QED BY <2>13 DEF step
<1> QED BY <1>2, <1>3

(* A page may be written once its content is in the log, or when it is      *)
(* what the log would make of it.                                           *)
PageLeft(i, n, v, h) ==
    /\ h \in Files
    /\ \A m \in 1 .. LastPage : m # n => h.data[m] = i.data[m]
    /\ n \in 1 .. LastPage /\ i.data[n] = v => h.data[n] = v
    /\ h.state = i.state /\ h.size = i.size /\ h.offset = i.offset /\ h.length = i.length /\ h.log = i.log

(* Whatever survives of a page leaves the other pages alone,                *)
LEMMA PageImages ==
    ASSUME NEW i \in Files, NEW n \in Nat, NEW v \in Cells
    PROVE  /\ \A o \in Outcomes(WritePage(n, v)) : PageLeft(i, n, v, Apply(i, o))
           /\ PageLeft(i, n, v, Apply(i, WritePage(n, v)))
           /\ n \in 1 .. LastPage => Apply(i, WritePage(n, v)).data[n] = v
<1>2. ASSUME NEW h \in {Apply(i, o) : o \in Outcomes(WritePage(n, v))}
      PROVE  PageLeft(i, n, v, h) /\ (n \in 1 .. LastPage /\ h = Apply(i, WritePage(n, v)) => h.data[n] = v)
  <2>1. /\ h \in Files
        /\ \A m \in 1 .. LastPage : m # n => h.data[m] = i.data[m]
        /\ h = Apply(i, WritePage(n, v)) /\ n \in 1 .. LastPage => h.data[n] = v
        /\ n \in 1 .. LastPage /\ i.data[n] = v => h.data[n] = v
        /\ h.state = i.state /\ h.size = i.size /\ h.offset = i.offset
        /\ h.length = i.length /\ h.log = i.log
    BY <1>2, PageEffect
  <2> QED BY <2>1 DEF PageLeft
<1>3. WritePage(n, v) \in Outcomes(WritePage(n, v)) BY DEF Outcomes, WritePage
<1>4. Apply(i, WritePage(n, v)) \in {Apply(i, o) : o \in Outcomes(WritePage(n, v))} BY <1>3
<1> QED BY <1>2, <1>4

(* so the file is still undone to the same content.                         *)
LEMMA PageUndoable ==
    ASSUME NEW i \in Files, NEW c \in Contents, Undoable(i, c),
           NEW n, NEW v, n \in 1 .. Len(c) => v = c[n] \/ n \in Covered(i),
           NEW h, PageLeft(i, n, v, h)
    PROVE  Undoable(h, c) /\ Covered(h) = Covered(i) /\ h.state = i.state
<1>1. /\ h \in Files /\ h.state = i.state /\ h.size = i.size /\ h.offset = i.offset
      /\ h.length = i.length /\ h.log = i.log
  BY DEF PageLeft
<1>2. /\ i.state \in Slots /\ i.state # CLEAN /\ i.size = Len(c) /\ Len(c) < Active(i) /\ ~NoLog(i)
      /\ \A at \in DOMAIN i.log : at > Len(c)
      /\ \A k \in Reading(i) : Log(i)[k].crc
      /\ \A m \in 1 .. Len(c) : Undoes(Log(i), Reading(i), i.data, m, c[m])
  BY StateCases DEF Undoable
<1>3. Active(h) = Active(i) BY <1>1 DEF Active
<1>4. Log(h) = Log(i) /\ Reading(h) = Reading(i) BY <1>1, <1>3 DEF Log, Reading, Reads, LogAt
<1>5. NoLog(h) <=> NoLog(i) BY <1>1 DEF NoLog
<1>6. Covered(h) = Covered(i) BY <1>1, <1>4, <1>5 DEF Covered
<1>7. ASSUME NEW m \in 1 .. Len(c) PROVE Undoes(Log(h), Reading(h), h.data, m, c[m])
  <2>1. Undoes(Log(i), Reading(i), i.data, m, c[m]) BY <1>2
  <2>2. m \in 1 .. LastPage BY ContentType
  <2>3. CASE \E k \in Reading(i) : /\ Log(i)[k].page = m /\ Log(i)[k].old = c[m]
                                   /\ \A j \in Reading(i) : j < k => Log(i)[j].page # m
    BY <2>3, <1>4 DEF Undoes
  <2>4. CASE i.data[m] = c[m] /\ \A k \in Reading(i) : Log(i)[k].page # m
    <3>1. h.data[m] = c[m]
      <4>1. CASE m # n BY <2>2, <2>4, <4>1 DEF PageLeft
      <4>2. CASE m = n
        <5>1. m \notin Covered(i) BY <2>4, <1>2 DEF Covered
        <5>2. v = c[m] BY <4>2, <5>1
        <5> QED BY <2>2, <2>4, <4>2, <5>2 DEF PageLeft
      <4> QED BY <4>1, <4>2
    <3> QED BY <3>1, <2>4, <1>4 DEF Undoes
  <2> QED BY <2>1, <2>3, <2>4 DEF Undoes
<1>8. Undoable(h, c) BY <1>1, <1>2, <1>3, <1>4, <1>5, <1>7 DEF Undoable
<1> QED BY <1>1, <1>6, <1>8

(* The page is written.                                                     *)
WrittenBy(f, im, t, b, n, v, e) ==
    /\ Reaches(f, im, b, Step(t, <<WritePage(n, v)>>), e)
    /\ e.file.data[n] = v /\ \A m \in 1 .. LastPage : m # n => e.file.data[m] = f.data[m]

(* The transaction goes on with the new page.                               *)
LEMMA PageReaches ==
    ASSUME NEW f, NEW im, NEW t, NEW b, Writing(f, im, t, b), t.offset # 0, Fits(t),
           NEW n \in 1 .. LastPage, HasPage(f, t, n), NEW v \in Values
    PROVE  \E e : WrittenBy(f, im, t, b, n, v, e)
<1> DEFINE L == LogAt(f, t.offset)
           T == Top(t)
           c == b[1]
           o == WritePage(n, v)
           g == Apply(f, o)
           jm == im \union {Apply(i, q) : i \in im, q \in Outcomes(o)}
<1>0. /\ t \in Txns /\ T > 0 /\ T \in Nat /\ T \in 1 .. T /\ 1 \in 1 .. T /\ L \in Seq(Record)
      /\ f \in Files /\ f \in im /\ im \in SUBSET Files /\ Log(f) = L /\ c \in Contents /\ f.state # CLEAN
      /\ f.state = t.state
      /\ \A l \in 1 .. T : t.buffers[l].start \in Nat
  BY WritingFields, TxnFields, StateCases
<1>1. ASSUME NEW l \in 1 .. T PROVE \E k \in Span(f, t, l) : L[k].page = n
  <2>1. PICK k \in Span(f, t, T) : L[k].page = n BY DEF HasPage
  <2>2. l <= T /\ t.buffers[l].start <= t.buffers[T].start BY <1>0 DEF Writing, Logged, Nested
  <2>3. k \in Span(f, t, l) BY <2>1, <2>2, <1>0 DEF Span
  <2> QED BY <2>1, <2>3
<1>2. n \in Covered(f) /\ L # <<>>
  <2>1. PICK k \in Span(f, t, 1) : L[k].page = n BY <1>0, <1>1
  <2>2. k \in 1 .. Len(L) BY <2>1, <1>0 DEF Span
  <2>3. Covered(f) = {L[j].page : j \in 1 .. Len(L)} BY <1>0, LoggedReads
  <2>4. L # <<>> BY <2>2
  <2> QED BY <2>1, <2>2, <2>3, <2>4
<1>3. /\ Undoable(f, c)
      /\ \A i \in im : Undoable(i, c) /\ Covered(f) \subseteq Covered(i)
  BY <1>0, <1>2, LoggedUndoable
<1>4. After(Disk(f, im), o) = Disk(g, jm) BY AfterPage
<1>5. /\ PageLeft(f, n, v, g) /\ g.data[n] = v
      /\ \A i \in Files : \A q \in Outcomes(o) : PageLeft(i, n, v, Apply(i, q))
  <2>1. n \in Nat /\ v \in Cells BY FileImageAssumption DEF Cells
  <2> QED BY <1>0, <2>1, PageImages
<1>6. g \in jm
  <2>1. o \in Outcomes(o) BY DEF Outcomes, WritePage
  <2> QED BY <2>1, <1>0
<1> HIDE DEF g, o
<1>7. Undoable(g, c) /\ Covered(g) = Covered(f) /\ g.state = f.state
  BY <1>0, <1>2, <1>3, <1>5, PageUndoable
<1>8. ASSUME NEW i \in jm
      PROVE  /\ i \in Files /\ i.state = t.state
             /\ Undoable(i, c) /\ Covered(f) \subseteq Covered(i)
  <2>1. CASE i \in im BY <2>1, <1>0, <1>3 DEF Writing, Logged, Imaged
  <2>2. CASE i \notin im
    <3>1. PICK j \in im, q \in Outcomes(o) : i = Apply(j, q) BY <2>2
    <3>2. j \in Files /\ PageLeft(j, n, v, i) BY <3>1, <1>0, <1>5
    <3>3. j.state = t.state BY <1>0 DEF Writing, Logged, Imaged
    <3>4. i \in Files /\ i.state = t.state BY <3>2, <3>3 DEF PageLeft
    <3>5. Undoable(j, c) /\ Covered(f) \subseteq Covered(j) BY <3>1, <1>3
    <3>6. n \in Covered(j) BY <3>5, <1>2
    <3>7. Undoable(i, c) /\ Covered(i) = Covered(j) BY <3>2, <3>5, <3>6, <1>0, PageUndoable
    <3> QED BY <3>4, <3>5, <3>7
  <2> QED BY <2>1, <2>2
<1> HIDE DEF jm
<1>9. Imaged(g, jm, t.state, c)
  <2>1. Guarded(g, jm, c) BY <1>8 DEF Guarded
  <2>2. jm \subseteq Files /\ \A i \in jm : i.state = t.state /\ Covered(g) \subseteq Covered(i)
    BY <1>7, <1>8
  <2> QED BY <2>1, <2>2, <1>6 DEF Imaged
<1>10. /\ g \in Files /\ g.state = f.state /\ g.size = f.size /\ g.offset = f.offset /\ g.length = f.length /\ g.log = f.log
       /\ \A m \in 1 .. LastPage : m # n => g.data[m] = f.data[m]
  BY <1>5 DEF PageLeft
<1>11. LogAt(g, t.offset) = L BY <1>10 DEF LogAt
<1>12. LogKept(g, t) BY <1>10, <1>11 DEF Writing, Logged, LogKept
<1>13. Nested(g, t, b)
  <2> SUFFICES ASSUME NEW l \in 1 .. T
               PROVE  /\ t.buffers[l].start <= Len(LogAt(g, t.offset))
                      /\ \A m \in 1 .. T : l <= m => t.buffers[l].start <= t.buffers[m].start
                      /\ Len(b[l]) <= t.offset
                      /\ \A m \in 1 .. Len(b[l]) : Undoes(LogAt(g, t.offset), Span(g, t, l), g.data, m, b[l][m])
                      /\ \A m \in t.buffers[l].dirty : \E k \in Span(g, t, l) : LogAt(g, t.offset)[k].page = m
    BY DEF Nested
  <2>1. /\ t.buffers[l].start <= Len(L)
        /\ \A m \in 1 .. T : l <= m => t.buffers[l].start <= t.buffers[m].start
        /\ Len(b[l]) <= t.offset
        /\ \A m \in 1 .. Len(b[l]) : Undoes(L, Span(f, t, l), f.data, m, b[l][m])
        /\ \A m \in t.buffers[l].dirty : \E k \in Span(f, t, l) : L[k].page = m
    BY DEF Writing, Logged, Nested
  <2>2. Span(g, t, l) = Span(f, t, l) BY <1>11 DEF Span
  <2>3. ASSUME NEW m \in 1 .. Len(b[l]) PROVE Undoes(L, Span(f, t, l), g.data, m, b[l][m])
    <3>1. m \in 1 .. LastPage BY WritingFields, ContentType
    <3>2. Undoes(L, Span(f, t, l), f.data, m, b[l][m]) BY <2>1
    <3>3. CASE m = n BY <3>2, <3>3, <1>1 DEF Undoes
    <3>4. CASE m # n
      <4>1. g.data[m] = f.data[m] BY <3>1, <3>4, <1>10
      <4> QED BY <3>2, <4>1 DEF Undoes
    <3> QED BY <3>3, <3>4
  <2> HIDE DEF L
  <2> QED BY <2>1, <2>2, <2>3, <1>11
<1>14. Logged(g, jm, t, b) BY <1>9, <1>10, <1>12, <1>13 DEF Writing, Logged
<1>15. Writing(g, jm, t, b)
  <2>1. \A m \in 1 .. LastPage : g.data[m] \in Values
    <3> TAKE m \in 1 .. LastPage
    <3>1. f.data[m] \in Values BY DEF Writing
    <3>2. m = n => g.data[m] = v BY <1>5
    <3> QED BY <3>1, <3>2, <1>10
  <2>2. b \in Seq(Contents) /\ Len(b) = Top(t)
        /\ \A l \in 1 .. Top(t) :
             Len(b[l]) = IF t.buffers[l].undo # <<>> THEN t.buffers[l].undo[1]
                         ELSE IF l = Top(t) THEN t.size ELSE Len(b[l + 1])
    BY DEF Writing
  <2>3. jm \subseteq Files BY <1>9 DEF Imaged
  <2> QED BY <2>1, <2>2, <2>3, <1>0, <1>6, <1>14 DEF Writing
<1>16. Leads(Disk(f, im), <<o>>, Disk(g, jm), {c})
  <2>1. Crashable(Disk(f, im), {c}) /\ Crashable(Disk(g, jm), {c}) BY <1>15, WritingCrashable
  <2> QED BY <2>1, <1>4, LeadsOne
<1> DEFINE e == Disk(g, jm)
           step == Step(t, <<o>>)
<1>17. e.file = g /\ e.images = jm BY DiskFields
<1>18. step.txn = t /\ step.ops = <<o>> BY StepFields
<1> HIDE DEF e, step
<1>19. Reaches(f, im, b, step, e) BY <1>15, <1>16, <1>17, <1>18 DEF Reaches, e
<1>20. WrittenBy(f, im, t, b, n, v, e) BY <1>5, <1>10, <1>17, <1>19 DEF WrittenBy, step, o
<1> QED BY <1>20

(* One step that follows another.                                           *)
LEMMA ReachesBoth ==
    ASSUME NEW f, NEW im, NEW b, NEW one, NEW d, Reaches(f, im, b, one, d),
           NEW two, NEW e, Reaches(d.file, d.images, b, two, e), NEW both, both = Step(two.txn, one.ops \o two.ops)
    PROVE  Reaches(f, im, b, both, e) /\ both.txn = two.txn
BY ReachesThen, StepFields

(* Where the first step ends the second begins.                             *)
LEMMA ReachesFile ==
    ASSUME NEW f, NEW im, NEW b, NEW one, NEW d, Reaches(f, im, b, one, d)
    PROVE  ApplyAll(f, one.ops) = d.file /\ Writing(d.file, d.images, one.txn, b) /\ Fits(one.txn)
<1>1. Leads(Disk(f, im), one.ops, d, {b[1]}) BY DEF Reaches
<1>2. ApplyAll(Disk(f, im).file, one.ops) = d.file BY <1>1, LeadsEnd
<1> QED BY <1>2, DiskFields DEF Reaches

Enlarged(t, n, f) == IF n > t.size THEN SetLengthStep(t, n, f) ELSE Step(t, <<>>)
WithLog(t, n, f) ==
    LET one == Enlarged(t, n, f)
        two == CreateRollback(one.txn, ApplyAll(f, one.ops))
    IN  Step(two.txn, one.ops \o two.ops)
WithPage(t, n, f) ==
    LET one == WithLog(t, n, f)
        two == SavePages(one.txn, n, n, ApplyAll(f, one.ops))
    IN  Step(two.txn, one.ops \o two.ops)
WriteOne(t, n, v, f) ==
    LET one == WithPage(t, n, f)
    IN  Step(one.txn, one.ops \o <<WritePage(n, v)>>)

(* A write of one page needs no loop.                                       *)
LEMMA WriteStepIsOne ==
    ASSUME NEW t, NEW n \in Nat, NEW v, NEW f
    PROVE  WriteStep(t, n, n, v, f) = WriteOne(t, n, v, f)
<1> DEFINE w == [i \in 1 .. n - n + 1 |-> WritePage(n + i - 1, v)]
           one == WithPage(t, n, f)
<1>1. w = <<WritePage(n, v)>>
  <2>1. n - n + 1 = 1 /\ n + 1 - 1 = n OBVIOUS
  <2>2. w = [i \in 1 .. 1 |-> WritePage(n + i - 1, v)] BY <2>1
  <2>3. 1 .. 1 = {1} OBVIOUS
  <2>4. \A i \in 1 .. 1 : WritePage(n + i - 1, v) = WritePage(n, v) BY <2>1, <2>3
  <2> DEFINE o == WritePage(n, v)
             x == [i \in 1 .. 1 |-> WritePage(n + i - 1, v)]
             y == [i \in 1 .. 1 |-> o]
  <2>5. x = y BY <2>4
  <2>6. y = <<o>> OBVIOUS
  <2> QED BY <2>2, <2>5, <2>6
<1>2. WriteStep(t, n, n, v, f) = Step(one.txn, one.ops \o w)
  BY DEF WriteStep, WithPage, WithLog, Enlarged, Then
<1> HIDE DEF w, one
<1>3. WriteStep(t, n, n, v, f) = Step(one.txn, one.ops \o <<WritePage(n, v)>>) BY <1>1, <1>2
<1> QED BY <1>3 DEF WriteOne, one

Larger(m, n) == IF n > m THEN n ELSE m

(* write, of one page.                                                      *)
WroteBy(f, im, t, b, n, v, step, e) ==
    /\ Reaches(f, im, b, step, e)
    /\ step.txn.offset # 0 /\ step.txn.size = Larger(t.size, n) /\ Top(step.txn) = Top(t)
    /\ e.file.data[n] = v /\ \A m \in 1 .. t.size : m # n => e.file.data[m] = f.data[m]

(* It enlarges the file, makes the log, saves the page and writes it.       *)
LEMMA WriteReaches ==
    ASSUME NEW f, NEW im, NEW t, NEW b, Writing(f, im, t, b), Fits(t),
           NEW n \in 1 .. LastPage, NEW v \in Values
    PROVE  \E e : WroteBy(f, im, t, b, n, v, WriteStep(t, n, n, v, f), e)
<1>0. t \in Txns /\ Top(t) > 0 /\ t.size \in Nat /\ t.size \in 1 .. LastPage /\ n \in Nat /\ n \in 1 .. n
  BY WritingFields, TxnFields, FileImageAssumption
<1> DEFINE one == Enlarged(t, n, f)
           s == Larger(t.size, n)
<1>1. PICK d : /\ Reaches(f, im, b, one, d)
               /\ one.txn.size = s /\ Top(one.txn) = Top(t)
               /\ \A m \in 1 .. t.size : d.file.data[m] = f.data[m]
  <2>1. CASE n > t.size
    <3>1. one = SetLengthStep(t, n, f) BY <2>1 DEF Enlarged
    <3>2. n # t.size BY <2>1, <1>0
    <3> HIDE DEF one
    <3>3. PICK e : /\ Reaches(f, im, b, SetLengthStep(t, n, f), e)
                   /\ SetLengthStep(t, n, f).txn.offset # 0
                   /\ SetLengthStep(t, n, f).txn.size = n
                   /\ Top(SetLengthStep(t, n, f).txn) = Top(t)
                   /\ \A m \in 1 .. t.size : m <= n => e.file.data[m] = f.data[m]
      BY <3>2, SetLengthReaches
    <3>4. \A m \in 1 .. t.size : m <= n BY <2>1, <1>0
    <3>5. s = n BY <2>1 DEF Larger
    <3> QED BY <3>1, <3>3, <3>4, <3>5
  <2>2. CASE ~(n > t.size)
    <3>1. one = Step(t, <<>>) BY <2>2 DEF Enlarged
    <3>2. one.txn = t BY <3>1, StepFields
    <3>3. Reaches(f, im, b, Step(t, <<>>), Disk(f, im)) BY StayReaches
    <3>4. s = t.size BY <2>2 DEF Larger
    <3> HIDE DEF one
    <3> QED BY <3>1, <3>2, <3>3, <3>4, DiskFields
  <2> QED BY <2>1, <2>2
<1> HIDE DEF one
<1>2. s \in Nat /\ n \in 1 .. s /\ \A m \in 1 .. t.size : m \in 1 .. s BY <1>0 DEF Larger
<1> HIDE DEF s
<1>3. ApplyAll(f, one.ops) = d.file /\ Writing(d.file, d.images, one.txn, b) /\ Fits(one.txn) BY <1>1, ReachesFile
<1> DEFINE two == CreateRollback(one.txn, ApplyAll(f, one.ops))
           logged == WithLog(t, n, f)
<1>4. two = CreateRollback(one.txn, d.file) BY <1>3
<1>5. logged = Step(two.txn, one.ops \o two.ops) BY DEF WithLog, one
<1> HIDE DEF two, logged
<1>6. PICK d2 : /\ Reaches(d.file, d.images, b, two, d2)
                /\ two.txn.offset # 0 /\ two.txn.size = s /\ Top(two.txn) = Top(t)
                /\ \A m \in 1 .. s : d2.file.data[m] = d.file.data[m]
  <2>1. PICK e : /\ Reaches(d.file, d.images, b, CreateRollback(one.txn, d.file), e)
                 /\ CreateRollback(one.txn, d.file).txn.offset # 0
                 /\ CreateRollback(one.txn, d.file).txn.size = one.txn.size
                 /\ CreateRollback(one.txn, d.file).txn.buffers = one.txn.buffers
                 /\ \A m \in 1 .. one.txn.size : e.file.data[m] = d.file.data[m]
    BY <1>3, CreateReaches
  <2>2. Top(two.txn) = Top(t) BY <2>1, <1>4, <1>1 DEF Top
  <2> QED BY <2>1, <2>2, <1>1, <1>4
<1>7. Reaches(f, im, b, logged, d2) /\ logged.txn = two.txn BY <1>1, <1>5, <1>6, ReachesBoth
<1>8. ApplyAll(f, logged.ops) = d2.file /\ Writing(d2.file, d2.images, logged.txn, b) /\ Fits(logged.txn)
  BY <1>7, ReachesFile
<1> DEFINE three == SavePages(logged.txn, n, n, ApplyAll(f, logged.ops))
           saved == WithPage(t, n, f)
<1>9. three = SavePages(logged.txn, n, n, d2.file) BY <1>8
<1>10. saved = Step(three.txn, logged.ops \o three.ops) BY DEF WithPage, logged
<1> HIDE DEF three, saved
<1>11. PICK d3 : SavedBy(d2.file, d2.images, logged.txn, b, n, three, d3)
  BY <1>2, <1>6, <1>7, <1>8, <1>9, SaveReaches
<1>12. /\ Reaches(d2.file, d2.images, b, three, d3) /\ d3.file.data = d2.file.data
       /\ three.txn.size = s /\ three.txn.offset # 0 /\ Top(three.txn) = Top(t)
       /\ HasPage(d3.file, three.txn, n)
  BY <1>6, <1>7, <1>11 DEF SavedBy
<1>13. Reaches(f, im, b, saved, d3) /\ saved.txn = three.txn BY <1>7, <1>10, <1>12, ReachesBoth
<1>14. Writing(d3.file, d3.images, saved.txn, b) /\ Fits(saved.txn) BY <1>13, ReachesFile
<1> DEFINE four == Step(saved.txn, <<WritePage(n, v)>>)
           step == WriteStep(t, n, n, v, f)
<1>15. PICK e : WrittenBy(d3.file, d3.images, saved.txn, b, n, v, e)
  BY <1>12, <1>13, <1>14, PageReaches
<1>16. /\ Reaches(d3.file, d3.images, b, four, e)
       /\ e.file.data[n] = v /\ \A m \in 1 .. LastPage : m # n => e.file.data[m] = d3.file.data[m]
  BY <1>15 DEF WrittenBy
<1>17. four.txn = saved.txn /\ four.ops = <<WritePage(n, v)>> BY StepFields
<1>18. step = Step(four.txn, saved.ops \o four.ops)
  <2>1. step = WriteOne(t, n, v, f) BY <1>0, WriteStepIsOne
  <2>2. step = Step(saved.txn, saved.ops \o <<WritePage(n, v)>>) BY <2>1 DEF WriteOne, saved
  <2> HIDE DEF step, four
  <2> QED BY <2>2, <1>17
<1> HIDE DEF four, step
<1>19. Reaches(f, im, b, step, e) /\ step.txn = four.txn BY <1>13, <1>16, <1>18, ReachesBoth
<1>20. ASSUME NEW m \in 1 .. t.size, m # n PROVE e.file.data[m] = f.data[m]
  <2>1. m \in 1 .. LastPage /\ m \in 1 .. s BY <1>0, <1>2, FileImageAssumption
  <2> QED BY <2>1, <1>1, <1>6, <1>12, <1>16, <1>20
<1>21. WroteBy(f, im, t, b, n, v, step, e)
  BY <1>12, <1>13, <1>16, <1>17, <1>19, <1>20 DEF WroteBy, s
<1> QED BY <1>21 DEF step

-----------------------------------------------------------------------------
(* What apply_rollback writes.                                              *)
Firsts(f, o, start) ==
    {k \in Reads(f, o, start) : \A j \in start + 1 .. k - 1 : LogAt(f, o)[j].page # LogAt(f, o)[k].page}

Undo(r) == WritePage(r.page, r.old)

Rewrites(f, o, start, W) ==
    /\ W \in Seq({Undo(r) : r \in Record})
    /\ \A m \in 1 .. Len(W) : \E k \in Firsts(f, o, start) : W[m] = Undo(LogAt(f, o)[k])
    /\ \A k \in Firsts(f, o, start) : \E m \in 1 .. Len(W) : W[m] = Undo(LogAt(f, o)[k])

(* One page for each record that is the first of its page.                  *)
LEMMA RollbackWrites ==
    ASSUME NEW f \in Files, NEW o \in Nat, NEW start \in Nat, start <= Len(LogAt(f, o)),
           \A k \in Reads(f, o, start) : LogAt(f, o)[k].crc
    PROVE  Rewrites(f, o, start, ApplyRollback(f, o, start))
<1> DEFINE L == LogAt(f, o)
           K == Len(L)
           P == {Undo(r) : r \in Record}
           F == Firsts(f, o, start)
           next == [x \in Seq(P) \X Nat |-> IF x[2] \in F THEN Append(x[1], Undo(L[x[2]])) ELSE x[1]]
           Takes(i) == /\ i \in Reads(f, o, start)
                       /\ \A j \in start + 1 .. i : L[j].crc
                       /\ \A j \in start + 1 .. i - 1 : L[j].page # L[i].page
           Runs(g) == g = [i \in start .. K |->
                             IF i = start THEN <<>>
                             ELSE IF Takes(i) THEN Append(g[i - 1], Undo(L[i])) ELSE g[i - 1]]
           g == CHOOSE g : Runs(g)
<1>0. L \in Seq(Record) /\ K \in Nat /\ start <= K
  <2>1. L \in Seq(Record) BY LogAtType
  <2> QED BY <2>1
<1>1. ApplyRollback(f, o, start) = g[K] BY DEF ApplyRollback, Undo
<1>2. \A i \in start + 1 .. K : Takes(i) <=> i \in F
  <2> TAKE i \in start + 1 .. K
  <2>1. i \in Reads(f, o, start) => \A j \in start + 1 .. i : j \in Reads(f, o, start)
    <3> SUFFICES ASSUME i \in Reads(f, o, start), NEW j \in start + 1 .. i PROVE j \in Reads(f, o, start)
      OBVIOUS
    <3>1. \A k \in start + 1 .. i : L[k].committed BY DEF Reads
    <3>2. j \in start + 1 .. K /\ \A k \in start + 1 .. j : k \in start + 1 .. i BY <1>0
    <3> QED BY <3>1, <3>2 DEF Reads
  <2>2. i \in Reads(f, o, start) => \A j \in start + 1 .. i : L[j].crc BY <2>1
  <2> QED BY <2>2 DEF Firsts
<1> HIDE DEF g, Takes
<1>3. \E k : Runs(k)
  <2>1. \A x \in Seq(P), n \in start + 1 .. K : next[<<x, n>>] = IF n \in F THEN Append(x, Undo(L[n])) ELSE x
    <3> TAKE x \in Seq(P), n \in start + 1 .. K
    <3>1. n \in Nat /\ <<x, n>> \in Seq(P) \X Nat BY <1>0
    <3> QED BY <3>1
  <2> HIDE DEF next, F
  <2>2. \A x \in Seq(P), n \in start + 1 .. K : next[<<x, n>>] \in Seq(P)
    <3> TAKE x \in Seq(P), n \in start + 1 .. K
    <3>1. Undo(L[n]) \in P
      <4>1. n \in 1 .. K BY <1>0
      <4>2. L[n] \in Record BY <4>1, <1>0
      <4> QED BY <4>2
    <3> HIDE DEF P
    <3>2. Append(x, Undo(L[n])) \in Seq(P) BY <3>1
    <3> QED BY <2>1, <3>2
  <2>3. <<>> \in Seq(P) OBVIOUS
  <2>4. PICK k : Recursive(k, start, K, Seq(P), <<>>, next)
    <3> DEFINE S == Seq(P)
    <3>1. Closed(start, K, S, next) BY <2>2 DEF Closed
    <3>2. <<>> \in S /\ K \in Nat /\ start <= K BY <2>3, <1>0
    <3> HIDE DEF S, K
    <3>3. \E k : Recursive(k, start, K, S, <<>>, next) BY <3>1, <3>2, RecursionAlong
    <3> QED BY <3>3 DEF S
  <2>5. k \in [start .. K -> Seq(P)] /\ k[start] = <<>> /\ \A n \in start + 1 .. K : k[n] = next[<<k[n - 1], n>>]
    BY <2>4 DEF Recursive
  <2>6. ASSUME NEW n \in start .. K
        PROVE  k[n] = IF n = start THEN <<>> ELSE IF Takes(n) THEN Append(k[n - 1], Undo(L[n])) ELSE k[n - 1]
    <3>1. CASE n = start BY <3>1, <2>5
    <3>2. CASE n # start
      <4>1. n \in start + 1 .. K /\ n - 1 \in start .. K BY <3>2, <1>0
      <4>2. k[n - 1] \in Seq(P) BY <4>1, <2>5
      <4>3. k[n] = next[<<k[n - 1], n>>] BY <4>1, <2>5
      <4>4. next[<<k[n - 1], n>>] = IF n \in F THEN Append(k[n - 1], Undo(L[n])) ELSE k[n - 1] BY <4>1, <4>2, <2>1
      <4>5. Takes(n) <=> n \in F BY <4>1, <1>2
      <4> QED BY <3>2, <4>3, <4>4, <4>5
    <3> QED BY <3>1, <3>2
  <2>7. k = [n \in start .. K |-> k[n]] BY <2>5
  <2>8. Runs(k) BY <2>6, <2>7
  <2> QED BY <2>8
<1>4. Runs(g) BY <1>3 DEF g
<1>5. g[start] = <<>> /\ \A n \in start + 1 .. K : g[n] = IF n \in F THEN Append(g[n - 1], Undo(L[n])) ELSE g[n - 1]
  <2> DEFINE h == [i \in start .. K |-> IF i = start THEN <<>>
                             ELSE IF Takes(i) THEN Append(g[i - 1], Undo(L[i])) ELSE g[i - 1]]
  <2>1. g = h BY <1>4
  <2>2. h[start] = <<>> BY <1>0
  <2>3. \A n \in start + 1 .. K : n \in start .. K /\ n # start BY <1>0
  <2>4. \A n \in start + 1 .. K : h[n] = IF Takes(n) THEN Append(g[n - 1], Undo(L[n])) ELSE g[n - 1]
    BY <2>3
  <2> HIDE DEF h, F
  <2> QED BY <2>1, <2>2, <2>4, <1>2
<1>6. \A n \in F : n \in start + 1 .. K BY DEF Firsts, Reads
<1> DEFINE Good(n) == /\ g[n] \in Seq(P)
                      /\ \A m \in 1 .. Len(g[n]) : \E k \in F : g[n][m] = Undo(L[k])
                      /\ \A k \in F : k <= n => \E m \in 1 .. Len(g[n]) : g[n][m] = Undo(L[k])
           Q == {m \in Nat : start + m <= K => Good(start + m)}
<1> HIDE DEF F, next, L, K
<1>7. 0 \in Q
  <2>1. g[start] = <<>> /\ start + 0 = start BY <1>5
  <2>2. \A k \in F : ~(k <= start) BY <1>0, <1>6
  <2>3. <<>> \in Seq(P) /\ Len(<<>>) = 0 OBVIOUS
  <2> HIDE DEF P
  <2>4. Good(start) BY <2>1, <2>2, <2>3
  <2> HIDE DEF Good
  <2> QED BY <2>1, <2>4
<1>8. ASSUME NEW m \in Nat, m \in Q PROVE m + 1 \in Q
  <2> SUFFICES ASSUME start + (m + 1) <= K PROVE Good(start + (m + 1)) OBVIOUS
  <2> DEFINE i == start + m
             n == start + (m + 1)
  <2>1. Good(i) /\ n \in start + 1 .. K /\ n - 1 = i /\ n \in Nat /\ i \in Nat /\ n \in 1 .. K
    <3>1. i <= K BY <1>0
    <3> HIDE DEF Good
    <3> QED BY <3>1, <1>8, <1>0
  <2>2. g[n] = IF n \in F THEN Append(g[i], Undo(L[n])) ELSE g[i] BY <2>1, <1>5
  <2>3. \A k \in F : k <= n => k <= i \/ k = n BY <2>1, <1>6, <1>0
  <2> HIDE DEF i, n
  <2>4. CASE n \notin F
    <3>1. g[n] = g[i] /\ \A k \in F : k <= n => k <= i BY <2>2, <2>3, <2>4
    <3>2. Good(n) BY <2>1, <3>1
    <3> QED BY <3>2 DEF n
  <2>5. CASE n \in F
    <3>1. g[n] = Append(g[i], Undo(L[n])) BY <2>2, <2>5
    <3>2. Undo(L[n]) \in P
      <4>1. L[n] \in Record BY <2>1, <1>0 DEF K
      <4> QED BY <4>1
    <3> HIDE DEF P
    <3>3. g[i] \in Seq(P) BY <2>1
    <3>4. /\ g[n] \in Seq(P) /\ Len(g[n]) = Len(g[i]) + 1 /\ g[n][Len(g[i]) + 1] = Undo(L[n])
          /\ \A j \in 1 .. Len(g[i]) : g[n][j] = g[i][j]
      BY <3>1, <3>2, <3>3, AppendProperties
    <3>5. Len(g[i]) \in Nat BY <3>3
    <3>6. ASSUME NEW j \in 1 .. Len(g[n]) PROVE \E k \in F : g[n][j] = Undo(L[k])
      <4>1. CASE j \in 1 .. Len(g[i])
        <5>1. \E k \in F : g[i][j] = Undo(L[k]) BY <4>1, <2>1
        <5> QED BY <4>1, <5>1, <3>4
      <4>2. CASE j = Len(g[i]) + 1 BY <4>2, <3>4, <2>5
      <4> QED BY <4>1, <4>2, <3>4, <3>5
    <3>7. ASSUME NEW k \in F, k <= n PROVE \E j \in 1 .. Len(g[n]) : g[n][j] = Undo(L[k])
      <4>1. CASE k <= i
        <5>1. PICK j \in 1 .. Len(g[i]) : g[i][j] = Undo(L[k]) BY <4>1, <2>1
        <5>2. j \in 1 .. Len(g[n]) /\ g[n][j] = g[i][j] BY <3>4, <3>5
        <5> QED BY <5>1, <5>2
      <4>2. CASE k = n
        <5>1. Len(g[i]) + 1 \in 1 .. Len(g[n]) BY <3>4, <3>5
        <5> QED BY <4>2, <5>1, <3>4
      <4> QED BY <4>1, <4>2, <2>3, <3>7
    <3>8. Good(n) BY <3>4, <3>6, <3>7
    <3> QED BY <3>8 DEF n
  <2> QED BY <2>4, <2>5
<1>9. K - start \in Nat /\ start + (K - start) = K BY <1>0
<1>10. Good(K)
  <2>1. K - start \in Q
    <3> HIDE DEF Q
    <3> QED BY <1>7, <1>8, <1>9, SetInduction
  <2> HIDE DEF Good
  <2>2. Good(start + (K - start)) BY <2>1, <1>9, <1>0
  <2> QED BY <2>2, <1>9
<1>11. \A k \in F : k <= K BY <1>6, <1>0
<1>12. /\ g[K] \in Seq(P)
       /\ \A m \in 1 .. Len(g[K]) : \E k \in F : g[K][m] = Undo(L[k])
       /\ \A k \in F : \E m \in 1 .. Len(g[K]) : g[K][m] = Undo(L[k])
  BY <1>10, <1>11
<1> HIDE DEF Good, Q
<1>13. g[K] = ApplyRollback(f, o, start) BY <1>1 DEF K, L
<1> QED BY <1>12, <1>13 DEF Rewrites, F, L

-----------------------------------------------------------------------------
(* The pages are written back one after the other.                          *)
Allowed(W, A, c) ==
    /\ A \subseteq Files /\ c \in Contents /\ \A i \in A : Undoable(i, c)
    /\ \A m \in 1 .. Len(W) : \A i \in A : \A h : PageLeft(i, W[m].page, W[m].value, h) => h \in A

SameHeader(f, g) ==
    /\ g \in Files /\ g.state = f.state /\ g.size = f.size /\ g.offset = f.offset
    /\ g.length = f.length /\ g.log = f.log

Rewritten(f, W, m, g) ==
    \A p \in 1 .. LastPage :
        \/ \E j \in 1 .. m : W[j].page = p /\ g.data[p] = W[j].value
        \/ g.data[p] = f.data[p] /\ \A j \in 1 .. m : W[j].page # p

RestoreDisk(f, W, A, m, x) ==
    /\ x = Disk(x.file, x.images) /\ x.file \in x.images /\ x.images \subseteq A
    /\ SameHeader(f, x.file) /\ Rewritten(f, W, m, x.file)

(* One more page is written back: no image is made worse,                   *)
LEMMA RestoreStep ==
    ASSUME NEW f, NEW W \in Seq({Undo(r) : r \in Record}), NEW A, NEW c, Allowed(W, A, c),
           NEW n \in Nat, n < Len(W), NEW x, RestoreDisk(f, W, A, n, x)
    PROVE  RestoreDisk(f, W, A, n + 1, After(x, W[n + 1]))
<1> DEFINE g == x.file
           im == x.images
           w == W[n + 1]
           h == Apply(g, w)
           jm == im \union {Apply(i, q) : i \in im, q \in Outcomes(w)}
           y == After(x, w)
<1>1. n + 1 \in 1 .. Len(W) /\ Len(W) \in Nat OBVIOUS
<1>2. PICK r \in Record : w = WritePage(r.page, r.old) BY <1>1 DEF Undo
<1>3. r.page \in Nat /\ r.old \in Cells BY DEF Record
<1>4. w.page = r.page /\ w.value = r.old BY <1>2 DEF WritePage
<1>5. x = Disk(g, im) /\ g \in im /\ im \subseteq A /\ SameHeader(f, g) /\ Rewritten(f, W, n, g) BY DEF RestoreDisk
<1>6. y = Disk(h, jm)
  <2> HIDE DEF g, im
  <2> QED BY <1>2, <1>5, AfterPage
<1>7. ASSUME NEW i \in Files
      PROVE  /\ \A q \in Outcomes(w) : PageLeft(i, w.page, w.value, Apply(i, q))
             /\ PageLeft(i, w.page, w.value, Apply(i, w))
             /\ w.page \in 1 .. LastPage => Apply(i, w).data[w.page] = w.value
  <2> HIDE DEF w
  <2> QED BY <1>2, <1>3, <1>4, PageImages
<1>8. A \subseteq Files BY DEF Allowed
<1>9. w \in Outcomes(w)
  <2> HIDE DEF w
  <2> QED BY <1>2 DEF Outcomes, WritePage
<1>10. \A i \in A : \A k : PageLeft(i, w.page, w.value, k) => k \in A BY <1>1 DEF Allowed
<1> HIDE DEF w
<1>11. g \in Files /\ PageLeft(g, w.page, w.value, h) /\ (w.page \in 1 .. LastPage => h.data[w.page] = w.value)
  BY <1>5, <1>7, <1>8
<1>12. h \in jm BY <1>5, <1>9
<1>13. jm \subseteq A
  <2>1. ASSUME NEW i \in im, NEW q \in Outcomes(w) PROVE Apply(i, q) \in A
    <3>1. i \in A /\ i \in Files BY <1>5, <1>8
    <3>2. PageLeft(i, w.page, w.value, Apply(i, q)) BY <3>1, <1>7
    <3> QED BY <3>1, <3>2, <1>10
  <2> QED BY <2>1, <1>5
<1> HIDE DEF h, jm
<1>14. SameHeader(f, h) BY <1>5, <1>11 DEF SameHeader, PageLeft
<1>15. Rewritten(f, W, n + 1, h)
  <2> SUFFICES ASSUME NEW p \in 1 .. LastPage
               PROVE  \/ \E j \in 1 .. n + 1 : W[j].page = p /\ h.data[p] = W[j].value
                      \/ h.data[p] = f.data[p] /\ \A j \in 1 .. n + 1 : W[j].page # p
    BY DEF Rewritten
  <2>1. CASE w.page = p
    <3>1. n + 1 \in 1 .. n + 1 OBVIOUS
    <3> QED BY <2>1, <3>1, <1>11 DEF w
  <2>2. CASE w.page # p
    <3>1. h.data[p] = g.data[p] BY <2>2, <1>11 DEF PageLeft
    <3>2. \/ \E j \in 1 .. n : W[j].page = p /\ g.data[p] = W[j].value
          \/ g.data[p] = f.data[p] /\ \A j \in 1 .. n : W[j].page # p
      BY <1>5 DEF Rewritten
    <3>3. \A j \in 1 .. n : j \in 1 .. n + 1 OBVIOUS
    <3>4. \A j \in 1 .. n + 1 : j \in 1 .. n \/ j = n + 1 OBVIOUS
    <3>5. W[n + 1].page # p BY <2>2 DEF w
    <3> QED BY <3>1, <3>2, <3>3, <3>4, <3>5
  <2> QED BY <2>1, <2>2
<1>16. y.file = h /\ y.images = jm /\ y = Disk(y.file, y.images) BY <1>6, DiskFields
<1> HIDE DEF y
<1>17. RestoreDisk(f, W, A, n + 1, y) BY <1>12, <1>13, <1>14, <1>15, <1>16 DEF RestoreDisk
<1> QED BY <1>17 DEF y, w

(* and so along the whole plan.                                             *)
LEMMA RestoreLoop ==
    ASSUME NEW f, NEW W \in Seq({Undo(r) : r \in Record}), NEW A, NEW c, Allowed(W, A, c),
           NEW im, f \in im, im \subseteq A, f.state # CLEAN
    PROVE  \E e : Leads(Disk(f, im), W, e, {c}) /\ RestoreDisk(f, W, A, Len(W), e)
<1> DEFINE Q(x, m) == RestoreDisk(f, W, A, m, x)
           G == [m \in Nat |-> {x \in DiskSet : Q(x, m)}]
           d == Disk(f, im)
           P == {Undo(r) : r \in Record}
<1>0. A \subseteq Files /\ c \in Contents /\ f \in Files /\ im \in SUBSET Files /\ Len(W) \in Nat
  BY DEF Allowed
<1>1. d \in G[0]
  <2>1. d \in DiskSet BY <1>0, DiskType
  <2>2. d.file = f /\ d.images = im BY DiskFields
  <2>3. Rewritten(f, W, 0, f) BY DEF Rewritten
  <2>4. SameHeader(f, f) BY <1>0 DEF SameHeader
  <2>5. d = Disk(d.file, d.images) BY <2>2
  <2> HIDE DEF d
  <2>6. Q(d, 0) BY <2>2, <2>3, <2>4, <2>5 DEF RestoreDisk
  <2> HIDE DEF Q
  <2> QED BY <2>1, <2>6
<1>2. ASSUME NEW m \in 0 .. Len(W), NEW x \in G[m] PROVE Crashable(x, {c})
  <2>1. m \in Nat BY <1>0
  <2>2. Q(x, m)
    <3> HIDE DEF Q
    <3> QED BY <2>1
  <2>3. x = Disk(x.file, x.images) /\ x.file \in x.images /\ x.images \subseteq A /\ x.file.state # CLEAN
    BY <2>2 DEF RestoreDisk, SameHeader
  <2>4. x.images \in SUBSET Files BY <2>3, <1>0
  <2>5. Guarded(x.file, x.images, c) BY <2>3 DEF Allowed, Guarded
  <2>6. c \in {c} OBVIOUS
  <2> DEFINE cs == {c}
             g == x.file
             jm == x.images
  <2> HIDE DEF cs, g, jm
  <2>7. Crashable(Disk(g, jm), cs)
    <3>1. g \in jm /\ jm \in SUBSET Files /\ Guarded(g, jm, c) /\ g.state # CLEAN /\ c \in cs
      BY <2>3, <2>4, <2>5, <2>6 DEF cs, g, jm
    <3> QED BY <3>1, <1>0, GuardedCrashable
  <2> QED BY <2>3, <2>7 DEF cs, g, jm
<1>3. ASSUME NEW m \in 1 .. Len(W), NEW x \in G[m - 1] PROVE After(x, W[m]) \in G[m]
  <2> DEFINE n == m - 1
             y == After(x, W[n + 1])
  <2>1. m \in Nat /\ n \in Nat /\ n + 1 = m /\ n < Len(W) BY <1>0
  <2>2. Q(x, n)
    <3> HIDE DEF Q
    <3> QED BY <2>1
  <2> HIDE DEF n
  <2>3. RestoreDisk(f, W, A, n + 1, y) BY <2>1, <2>2, RestoreStep
  <2>4. y \in DiskSet
    <3>1. y = Disk(y.file, y.images) /\ y.file \in Files /\ y.images \in SUBSET Files
      BY <2>3, <1>0 DEF RestoreDisk, SameHeader
    <3> HIDE DEF y
    <3> QED BY <3>1, DiskType
  <2>5. Q(y, m) BY <2>3, <2>1
  <2>6. y \in G[m]
    <3> HIDE DEF Q, y
    <3> QED BY <2>1, <2>4, <2>5
  <2> QED BY <2>1, <2>6
<1> DEFINE cs == {c}
<1> HIDE DEF G, d, P, cs
<1>4. PICK e \in G[Len(W)] : Leads(d, W, e, cs)
  <2>1. \A m \in 0 .. Len(W) : \A x \in G[m] : Crashable(x, cs) BY <1>2 DEF cs
  <2>2. \A m \in 1 .. Len(W) : \A x \in G[m - 1] : After(x, W[m]) \in G[m] BY <1>3
  <2>3. W \in Seq(P) BY DEF P
  <2> QED BY <1>1, <2>1, <2>2, <2>3, LoopLeads
<1>5. Q(e, Len(W))
  <2> HIDE DEF Q
  <2> QED BY <1>0, <1>4 DEF G
<1> QED BY <1>4, <1>5 DEF d, cs

(* What has been read has been undone.                                      *)
RestoredBy(f, o, start, A, e) ==
    /\ e = Disk(e.file, e.images) /\ e.file \in e.images /\ e.images \subseteq A
    /\ SameHeader(f, e.file)
    /\ \A p \in 1 .. LastPage : Undoes(LogAt(f, o), Reads(f, o, start), f.data, p, e.file.data[p])

(* The pages then are what the first records of each say.                   *)
LEMMA RewrittenUndoes ==
    ASSUME NEW f \in Files, NEW o \in Nat, NEW start \in Nat, NEW W, Rewrites(f, o, start, W),
           NEW g, Rewritten(f, W, Len(W), g)
    PROVE  \A p \in 1 .. LastPage : Undoes(LogAt(f, o), Reads(f, o, start), f.data, p, g.data[p])
<1> DEFINE L == LogAt(f, o)
           R == Reads(f, o, start)
<1> SUFFICES ASSUME NEW p \in 1 .. LastPage PROVE Undoes(L, R, f.data, p, g.data[p]) OBVIOUS
<1>0. L \in Seq(Record) BY LogAtType
<1>1. R \subseteq Nat /\ \A k \in R : \A j \in start + 1 .. k : j \in R
  <2>1. R \subseteq start + 1 .. Len(L) /\ Len(L) \in Nat BY <1>0 DEF Reads
  <2>2. ASSUME NEW k \in R, NEW j \in start + 1 .. k PROVE j \in R
    <3>1. \A i \in start + 1 .. k : L[i].committed BY DEF Reads
    <3>2. j \in start + 1 .. Len(L) /\ \A i \in start + 1 .. j : i \in start + 1 .. k BY <2>1
    <3> QED BY <3>1, <3>2 DEF Reads
  <2> QED BY <2>1, <2>2
<1>2. ASSUME NEW k \in R, NEW j \in R, j < k PROVE j \in start + 1 .. k - 1
  <2>1. j >= start + 1 BY DEF Reads
  <2> QED BY <2>1, <1>1, <1>2
<1>3. \A r : Undo(r).page = r.page /\ Undo(r).value = r.old BY DEF Undo, WritePage
<1>4. CASE \E j \in 1 .. Len(W) : W[j].page = p /\ g.data[p] = W[j].value
  <2>1. PICK j \in 1 .. Len(W) : W[j].page = p /\ g.data[p] = W[j].value BY <1>4
  <2>2. PICK k \in Firsts(f, o, start) : W[j] = Undo(L[k]) BY DEF Rewrites
  <2>3. L[k].page = p /\ L[k].old = g.data[p] BY <2>1, <2>2, <1>3
  <2>4. k \in R /\ \A i \in start + 1 .. k - 1 : L[i].page # p BY <2>3 DEF Firsts
  <2>5. \A i \in R : i < k => L[i].page # p BY <2>4, <1>2
  <2> QED BY <2>3, <2>4, <2>5 DEF Undoes
<1>5. CASE g.data[p] = f.data[p] /\ \A j \in 1 .. Len(W) : W[j].page # p
  <2>1. ASSUME NEW k \in R, L[k].page = p PROVE FALSE
    <3> DEFINE T == {j \in R : L[j].page = p}
    <3>1. T \in SUBSET Nat /\ T # {} BY <2>1, <1>1
    <3>2. PICK i \in T : \A j \in T : i <= j
      <4> HIDE DEF T
      <4> QED BY <3>1, LeastNumber
    <3>3. i \in Nat /\ \A j \in start + 1 .. i - 1 : j \in R /\ j < i BY <1>1
    <3>4. \A j \in start + 1 .. i - 1 : L[j].page # p BY <3>2, <3>3
    <3>5. i \in Firsts(f, o, start) BY <3>2, <3>4 DEF Firsts
    <3>6. PICK j \in 1 .. Len(W) : W[j] = Undo(L[i]) BY <3>5 DEF Rewrites
    <3>7. W[j].page = p BY <3>6, <3>2, <1>3
    <3> QED BY <3>7, <1>5
  <2> QED BY <2>1, <1>5 DEF Undoes
<1> QED BY <1>4, <1>5 DEF Rewritten

(* apply_rollback restores the pages, whatever crashes on the way.          *)
LEMMA RestoreLeads ==
    ASSUME NEW f, NEW o \in Nat, NEW start \in Nat, start <= Len(LogAt(f, o)),
           \A k \in Reads(f, o, start) : LogAt(f, o)[k].crc,
           NEW A, NEW c, Allowed(ApplyRollback(f, o, start), A, c),
           NEW im, f \in im, im \subseteq A, f.state # CLEAN
    PROVE  \E e : Leads(Disk(f, im), ApplyRollback(f, o, start), e, {c}) /\ RestoredBy(f, o, start, A, e)
<1> DEFINE W == ApplyRollback(f, o, start)
<1>1. f \in Files BY DEF Allowed
<1>2. Rewrites(f, o, start, W) BY <1>1, RollbackWrites
<1> HIDE DEF W
<1>3. W \in Seq({Undo(r) : r \in Record}) BY <1>2 DEF Rewrites
<1>4. Allowed(W, A, c) BY DEF W
<1>5. PICK e : Leads(Disk(f, im), W, e, {c}) /\ RestoreDisk(f, W, A, Len(W), e) BY <1>3, <1>4, RestoreLoop
<1>6. Rewritten(f, W, Len(W), e.file) BY <1>5 DEF RestoreDisk
<1>7. \A p \in 1 .. LastPage : Undoes(LogAt(f, o), Reads(f, o, start), f.data, p, e.file.data[p])
  BY <1>1, <1>2, <1>6, RewrittenUndoes
<1>8. RestoredBy(f, o, start, A, e) BY <1>5, <1>7 DEF RestoreDisk, RestoredBy
<1> QED BY <1>5, <1>8 DEF W

(* rollback of the transactions from a level on: the pages are restored.    *)
LEMMA WritingReads ==
    ASSUME NEW f, NEW im, NEW t, NEW b, Writing(f, im, t, b), t.offset # 0, NEW l \in 1 .. Top(t)
    PROVE  /\ Reads(f, t.offset, t.buffers[l].start) = Span(f, t, l)
           /\ Span(f, t, l) \subseteq 1 .. Len(LogAt(f, t.offset))
           /\ t.buffers[l].start \in Nat /\ t.buffers[l].start <= Len(LogAt(f, t.offset))
           /\ ReadUpTo(f, t.offset, t.buffers[l].start) = Len(LogAt(f, t.offset))
           /\ \A k \in 1 .. Len(LogAt(f, t.offset)) :
                 /\ LogAt(f, t.offset)[k].crc /\ LogAt(f, t.offset)[k].old \in Values
                 /\ LogAt(f, t.offset)[k].page \in Nat
<1> DEFINE L == LogAt(f, t.offset)
           start == t.buffers[l].start
<1>1. L \in Seq(Record) /\ Len(L) \in Nat /\ start \in Nat BY WritingFields, TxnFields
<1>2. start <= Len(L) BY DEF Writing, Logged, Nested
<1>3. \A k \in 1 .. Len(L) : L[k].committed /\ L[k].crc /\ L[k].old \in Values
  BY DEF Writing, Logged, LogKept
<1>4. \A k \in start + 1 .. Len(L) : k \in 1 .. Len(L) BY <1>1
<1>5. Reads(f, t.offset, start) = start + 1 .. Len(L)
  <2>1. \A i \in start + 1 .. Len(L) : \A j \in start + 1 .. i : j \in start + 1 .. Len(L) BY <1>1
  <2>2. \A i \in start + 1 .. Len(L) : \A j \in start + 1 .. i : L[j].committed BY <2>1, <1>3, <1>4
  <2> QED BY <2>2 DEF Reads
<1>6. ReadUpTo(f, t.offset, start) = Len(L)
  <2>1. {i \in start + 1 .. Len(L) : ~L[i].committed} = {} BY <1>3, <1>4
  <2> QED BY <2>1 DEF ReadUpTo
<1>7. \A k \in 1 .. Len(L) : L[k].page \in Nat
  <2> TAKE k \in 1 .. Len(L)
  <2>1. L[k] \in Record BY <1>1
  <2> QED BY <2>1 DEF Record
<1> QED BY <1>1, <1>2, <1>3, <1>4, <1>5, <1>6, <1>7 DEF Span

(* The disk after it.                                                       *)
RestoredFrom(f, t, c, l, d) ==
    /\ d = Disk(d.file, d.images) /\ Imaged(d.file, d.images, t.state, c) /\ SameHeader(f, d.file)
    /\ \A p \in 1 .. LastPage : Undoes(LogAt(f, t.offset), Span(f, t, l), f.data, p, d.file.data[p])

InUse(f, s, c) ==
    {i \in Files : i.state = s /\ Undoable(i, c) /\ Covered(f) \subseteq Covered(i)}

(* The pages of the log in use may be written at any time.                  *)
LEMMA InUseAllowed ==
    ASSUME NEW f, NEW o \in Nat, NEW start \in Nat, NEW c \in Contents, NEW s,
           NEW W, Rewrites(f, o, start, W),
           \A k \in Firsts(f, o, start) : LogAt(f, o)[k].page \in Covered(f)
    PROVE  Allowed(W, InUse(f, s, c), c)
<1> DEFINE A == InUse(f, s, c)
<1>1. A \subseteq Files /\ \A i \in A : Undoable(i, c) BY DEF InUse
<1>2. ASSUME NEW m \in 1 .. Len(W), NEW i \in A, NEW h, PageLeft(i, W[m].page, W[m].value, h)
      PROVE  h \in A
  <2>1. PICK k \in Firsts(f, o, start) : W[m] = Undo(LogAt(f, o)[k]) BY DEF Rewrites
  <2>2. W[m].page \in Covered(f) BY <2>1 DEF Undo, WritePage
  <2>3. i \in Files /\ i.state = s BY DEF InUse
  <2>4. h \in Files /\ h.state = s BY <1>2, <2>3 DEF PageLeft
  <2>5. Undoable(i, c) /\ Covered(f) \subseteq Covered(i) BY DEF InUse
  <2> DEFINE n == W[m].page
             v == W[m].value
  <2>6. n \in Covered(i) /\ PageLeft(i, n, v, h) BY <2>2, <2>5, <1>2
  <2> HIDE DEF n, v
  <2>7. Undoable(h, c) /\ Covered(h) = Covered(i) BY <2>3, <2>5, <2>6, PageUndoable
  <2> QED BY <2>4, <2>5, <2>7 DEF InUse
<1> HIDE DEF A
<1>3. Allowed(W, A, c) BY <1>1, <1>2 DEF Allowed
<1> QED BY <1>3 DEF A

(* The pages of the transactions from level l on are restored.              *)
LEMMA RestoreFrom ==
    ASSUME NEW f, NEW im, NEW t, NEW b, Writing(f, im, t, b), t.offset # 0, NEW l \in 1 .. Top(t)
    PROVE  \E d : /\ Leads(Disk(f, im), ApplyRollback(f, t.offset, t.buffers[l].start), d, {b[1]})
                  /\ RestoredFrom(f, t, b[1], l, d)
<1> DEFINE o == t.offset
           start == t.buffers[l].start
           L == LogAt(f, o)
           c == b[1]
           W == ApplyRollback(f, o, start)
           R == Span(f, t, l)
<1>0. /\ f \in Files /\ f \in im /\ im \in SUBSET Files /\ c \in Contents /\ f.state # CLEAN
      /\ f.state = t.state /\ o \in Nat /\ t \in Txns /\ Top(t) > 0 /\ Log(f) = L /\ L \in Seq(Record)
  BY WritingFields, TxnFields, StateCases
<1>1. /\ Reads(f, o, start) = R /\ R \subseteq 1 .. Len(L) /\ start \in Nat /\ start <= Len(L)
      /\ \A k \in 1 .. Len(L) : L[k].crc
  BY WritingReads
<1>2. Imaged(f, im, t.state, c) BY DEF Writing, Logged
<1>3. Rewrites(f, o, start, W) BY <1>0, <1>1, RollbackWrites
<1>4. CASE L = <<>>
  <2>1. R = {} BY <1>0, <1>1, <1>4
  <2>2. W = <<>>
    <3>1. Firsts(f, o, start) = {} BY <1>1, <2>1 DEF Firsts
    <3>2. W \in Seq({Undo(r) : r \in Record}) /\ \A m \in 1 .. Len(W) : FALSE BY <3>1, <1>3 DEF Rewrites
    <3> HIDE DEF W
    <3> QED BY <3>2, EmptySeq
  <2>3. Crashable(Disk(f, im), {c}) BY WritingCrashable
  <2>4. Leads(Disk(f, im), W, Disk(f, im), {c})
    <3> HIDE DEF W
    <3> QED BY <2>2, <2>3, LeadsNone
  <2> DEFINE d == Disk(f, im)
  <2>5. d.file = f /\ d.images = im BY DiskFields
  <2>6. SameHeader(f, f) BY <1>0 DEF SameHeader
  <2>7. \A p \in 1 .. LastPage : Undoes(L, R, f.data, p, f.data[p]) BY <2>1 DEF Undoes
  <2>8. d = Disk(d.file, d.images) BY <2>5
  <2> HIDE DEF d
  <2>9. RestoredFrom(f, t, c, l, d) BY <1>2, <2>5, <2>6, <2>7, <2>8 DEF RestoredFrom
  <2> QED BY <2>4, <2>9 DEF d
<1>5. CASE L # <<>>
  <2> DEFINE A == InUse(f, t.state, c)
  <2>1. /\ Undoable(f, c)
        /\ \A i \in im : Undoable(i, c) /\ Covered(f) \subseteq Covered(i)
    BY <1>0, <1>5, LoggedUndoable
  <2>2. Covered(f) = {L[k].page : k \in 1 .. Len(L)} BY <1>0, LoggedReads
  <2>3. \A k \in Firsts(f, o, start) : L[k].page \in Covered(f) BY <2>2, <1>1 DEF Firsts
  <2>4. im \subseteq A BY <2>1, <1>0, <1>2 DEF InUse, Imaged
  <2> HIDE DEF W
  <2>5. Allowed(W, A, c) BY <1>0, <1>1, <1>3, <2>3, InUseAllowed
  <2> HIDE DEF A
  <2>6. \A k \in Reads(f, o, start) : L[k].crc BY <1>1
  <2>7. \E d : Leads(Disk(f, im), W, d, {c}) /\ RestoredBy(f, o, start, A, d)
    <3> HIDE DEF c, o, start
    <3> QED BY <1>0, <1>1, <2>4, <2>5, <2>6, RestoreLeads DEF W
  <2>8. PICK d : Leads(Disk(f, im), W, d, {c}) /\ RestoredBy(f, o, start, A, d) BY <2>7
  <2>9. /\ d = Disk(d.file, d.images) /\ d.file \in d.images /\ d.images \subseteq A /\ SameHeader(f, d.file)
        /\ \A p \in 1 .. LastPage : Undoes(L, R, f.data, p, d.file.data[p])
    BY <2>8, <1>1 DEF RestoredBy
  <2>10. Covered(d.file) = Covered(f)
    <3>1. d.file.state = f.state /\ d.file.offset = f.offset /\ d.file.length = f.length /\ d.file.log = f.log
      BY <2>9 DEF SameHeader
    <3> QED BY <3>1 DEF Covered, NoLog, Log, Reading, Reads, LogAt, Active
  <2>11. Imaged(d.file, d.images, t.state, c)
    <3>1. \A i \in d.images : i \in Files /\ i.state = t.state
                /\ Undoable(i, c) /\ Covered(f) \subseteq Covered(i)
      BY <2>9 DEF A, InUse
    <3> QED BY <3>1, <2>9, <2>10 DEF Imaged, Guarded
  <2>12. RestoredFrom(f, t, c, l, d) BY <2>9, <2>11 DEF RestoredFrom
  <2> QED BY <2>8, <2>12 DEF W
<1> QED BY <1>4, <1>5

(* The length is set to where the log ends: the pages beyond the place of   *)
(* the log are lost, and nothing else.                                      *)
RolledBack(f, t, c, l, e) ==
    /\ e = Disk(e.file, e.images) /\ Imaged(e.file, e.images, t.state, c) /\ SameHeader(f, e.file)
    /\ \A p \in 1 .. LastPage :
          IF p <= t.offset THEN Undoes(LogAt(f, t.offset), Span(f, t, l), f.data, p, e.file.data[p])
          ELSE e.file.data[p] \in Values

RollbackOps(f, t, l) ==
    ApplyRollback(f, t.offset, t.buffers[l].start)
        \o <<SetLength(t.offset, ReadUpTo(f, t.offset, t.buffers[l].start))>>

CutAt(f, at, k, g) ==
    /\ g \in Files /\ g.length = <<at, k>>
    /\ \A n \in 1 .. LastPage : g.data[n] = IF n > at THEN Zero ELSE f.data[n]
    /\ DOMAIN g.log = {a \in DOMAIN f.log : a < at \/ (a = at /\ k > 0)}
    /\ \A a \in DOMAIN g.log : g.log[a] = f.log[a]
    /\ g.state = f.state /\ g.size = f.size /\ g.offset = f.offset

(* Where the length is cut.                                                 *)
LEMMA CutEffect ==
    ASSUME NEW f \in Files, NEW at \in Nat, NEW k \in Nat,
           k > 0 /\ at \in DOMAIN f.log => k = Len(f.log[at]),
           NEW g, g = Apply(f, SetLength(at, k))
    PROVE  CutAt(f, at, k, g)
<1>1. /\ g \in Files /\ g.length = <<at, k>>
      /\ \A n \in 1 .. LastPage : g.data[n] = IF n > at THEN Zero ELSE f.data[n]
      /\ DOMAIN g.log = {a \in DOMAIN f.log : a < at \/ (a = at /\ k > 0)}
      /\ \A a \in DOMAIN g.log : g.log[a] = f.log[a]
      /\ g.state = f.state /\ g.size = f.size /\ g.offset = f.offset
  BY LengthEffect
<1> QED BY <1>1 DEF CutAt

(* The records stay in the log: the length is set to its end.               *)
LEMMA LengthKept ==
    ASSUME NEW f, NEW im, NEW t, NEW b, Writing(f, im, t, b), t.offset # 0,
           NEW l \in 1 .. Top(t), NEW d, RestoredFrom(f, t, b[1], l, d),
           NEW o, o = SetLength(t.offset, Len(LogAt(f, t.offset)))
    PROVE  RolledBack(f, t, b[1], l, After(d, o))
<1> DEFINE L == LogAt(f, t.offset)
           K == Len(L)
           c == b[1]
           g == d.file
           h == Apply(g, o)
           jm == d.images \union {h}
<1>0. /\ f \in Files /\ c \in Contents /\ Len(c) \in Nat /\ t.offset \in Nat /\ t \in Txns /\ Top(t) > 0
      /\ L \in Seq(Record) /\ K \in Nat /\ f.state = t.state /\ t.state \in Slots /\ Active(f) = t.offset
  BY WritingFields, TxnFields
<1>1. d = Disk(g, d.images) /\ Imaged(g, d.images, t.state, c) /\ SameHeader(f, g)
      /\ \A p \in 1 .. LastPage : Undoes(L, Span(f, t, l), f.data, p, g.data[p])
  BY DEF RestoredFrom
<1>2. After(d, o) = Disk(h, jm)
  <2> HIDE DEF g
  <2> QED BY <1>1, AfterLength
<1>3. g \in Files /\ g.state = f.state /\ g.size = f.size /\ g.offset = f.offset /\ g.length = f.length /\ g.log = f.log
  BY <1>1 DEF SameHeader
<1>4. f.length = <<t.offset, K>> /\ (DOMAIN f.log = IF L = <<>> THEN {} ELSE {t.offset})
      /\ f.size = Len(c) /\ Len(c) < t.offset
  BY DEF Writing, Logged, LogKept
<1>5. K > 0 /\ t.offset \in DOMAIN g.log => K = Len(g.log[t.offset]) BY <1>3 DEF LogAt
<1>6. /\ h \in Files /\ h.length = <<t.offset, K>>
      /\ \A n \in 1 .. LastPage : h.data[n] = IF n > t.offset THEN Zero ELSE g.data[n]
      /\ DOMAIN h.log = {a \in DOMAIN g.log : a < t.offset \/ (a = t.offset /\ K > 0)}
      /\ \A a \in DOMAIN h.log : h.log[a] = g.log[a]
      /\ h.state = g.state /\ h.size = g.size /\ h.offset = g.offset
  <2> DEFINE at == t.offset
  <2>1. g \in Files /\ at \in Nat /\ K \in Nat /\ h = Apply(g, SetLength(at, K)) BY <1>0, <1>3
  <2>2. K > 0 /\ at \in DOMAIN g.log => K = Len(g.log[at]) BY <1>5
  <2> HIDE DEF g, K, h, at
  <2>3. /\ h \in Files /\ h.length = <<at, K>>
        /\ \A n \in 1 .. LastPage : h.data[n] = IF n > at THEN Zero ELSE g.data[n]
        /\ DOMAIN h.log = {a \in DOMAIN g.log : a < at \/ (a = at /\ K > 0)}
        /\ \A a \in DOMAIN h.log : h.log[a] = g.log[a]
        /\ h.state = g.state /\ h.size = g.size /\ h.offset = g.offset
    <3>1. CutAt(g, at, K, h) BY <2>1, <2>2, CutEffect
    <3> QED BY <3>1 DEF CutAt
  <2> QED BY <2>3 DEF at
<1> HIDE DEF h, g
<1>7. h.log = g.log
  <2>1. DOMAIN h.log = DOMAIN g.log
    <3>1. L # <<>> => K > 0 BY <1>0, EmptySeq
    <3>2. \A a \in DOMAIN g.log : a = t.offset /\ K > 0 BY <3>1, <1>3, <1>4
    <3> HIDE DEF K
    <3> QED BY <3>2, <1>6
  <2>2. h.log \in Logs /\ g.log \in Logs BY <1>3, <1>6, FilesType
  <2>3. h.log = [a \in DOMAIN h.log |-> h.log[a]] /\ g.log = [a \in DOMAIN g.log |-> g.log[a]] BY <2>2, LogsType
  <2> QED BY <2>1, <2>3, <1>6
<1>8. SameHeader(f, h) BY <1>3, <1>4, <1>6, <1>7 DEF SameHeader
<1>9. ASSUME NEW p \in 1 .. LastPage
      PROVE  IF p <= t.offset THEN Undoes(L, Span(f, t, l), f.data, p, h.data[p])
             ELSE h.data[p] \in Values
  <2>1. p \in Nat OBVIOUS
  <2>2. CASE p <= t.offset
    <3>1. h.data[p] = g.data[p] BY <2>1, <2>2, <1>0, <1>6
    <3> QED BY <2>2, <3>1, <1>1
  <2>3. CASE ~(p <= t.offset)
    <3>1. h.data[p] = Zero BY <2>1, <2>3, <1>0, <1>6
    <3> QED BY <2>3, <3>1, FileImageAssumption
  <2> QED BY <2>2, <2>3
<1>10. Active(h) = t.offset /\ Active(g) = t.offset BY <1>0, <1>3, <1>6 DEF Active
<1>11. Covered(h) = Covered(g)
  <2>1. h.state = g.state /\ h.offset = g.offset /\ h.length = g.length /\ h.log = g.log
    BY <1>3, <1>4, <1>6, <1>7
  <2> QED BY <2>1 DEF Covered, NoLog, Log, Reading, Reads, LogAt, Active
<1>12. Undoable(h, c) \/ (Whole(h, c) /\ Covered(g) = {})
  <2>1. Undoable(g, c) \/ (Whole(g, c) /\ Covered(g) = {}) BY <1>1 DEF Imaged, Guarded
  <2>2. CASE Stretched(g, c) /\ Covered(g) = {}
    <3>1. EmptyLog(g) /\ DOMAIN g.log = {} BY <2>2 DEF Stretched
    <3>2. EmptyLog(h) /\ DOMAIN h.log = {} BY <3>1, <1>3, <1>4, <1>6, <1>7 DEF EmptyLog
    <3>3. ASSUME NEW n \in 1 .. LastPage
          PROVE  IF n <= Len(c) THEN h.data[n] = c[n] ELSE h.data[n] \in Values
      <4>1. IF n <= Len(c) THEN g.data[n] = c[n] ELSE g.data[n] \in Values BY <2>2 DEF Stretched
      <4>2. n \in Nat /\ (n <= Len(c) => ~(n > t.offset)) BY <1>0, <1>4, FileImageAssumption
      <4> QED BY <4>1, <4>2, <1>6, FileImageAssumption
    <3>4. Stretched(h, c) BY <3>2, <3>3, <1>0, <1>4, <1>10 DEF Stretched
    <3> QED BY <2>2, <3>4 DEF Whole
  <2>3. CASE Undoable(g, c)
    <3>1. ~NoLog(h)
      <4>1. h.state = g.state /\ h.offset = g.offset /\ h.length = g.length BY <1>3, <1>4, <1>6
      <4> QED BY <4>1, <2>3 DEF NoLog, Undoable
    <3>2. \A at \in DOMAIN h.log : at > Len(c) BY <2>3, <1>7 DEF Undoable
    <3>3. \A n \in 1 .. Len(c) : h.data[n] = g.data[n]
      <4> TAKE n \in 1 .. Len(c)
      <4>1. n \in 1 .. LastPage /\ n \in Nat /\ ~(n > t.offset) BY <1>0, <1>4, ContentType
      <4> QED BY <4>1, <1>6
    <3>4. LogAt(h, Active(g)) = Log(g) BY <1>7 DEF Log, LogAt
    <3> QED BY <2>3, <3>1, <3>2, <3>3, <3>4, <1>3, <1>6, <1>10, SameLog
  <2>4. CASE Settled(g, c) /\ Covered(g) = {}
    <3>1. g.length = <<Len(c), 0>> BY <2>4 DEF Settled
    <3>2. Len(c) = t.offset BY <3>1, <1>3, <1>4
    <3> QED BY <3>2, <1>0, <1>4
  <2> QED BY <2>1, <2>2, <2>3, <2>4 DEF Whole
<1>13. Imaged(h, jm, t.state, c)
  <2>1. \A i \in d.images : Undoable(i, c) \/ (Whole(i, c) /\ Covered(h) = {})
    BY <1>1, <1>11 DEF Imaged, Guarded
  <2>2. Guarded(h, jm, c) BY <2>1, <1>11, <1>12 DEF Guarded
  <2>3. \A i \in d.images : i.state = t.state /\ Covered(h) \subseteq Covered(i)
    BY <1>1, <1>11 DEF Imaged
  <2>4. h.state = t.state BY <1>0, <1>3, <1>6
  <2>5. jm \subseteq Files /\ h \in jm BY <1>1, <1>6 DEF Imaged
  <2> QED BY <2>2, <2>3, <2>4, <2>5 DEF Imaged
<1> DEFINE e == After(d, o)
<1>14. e.file = h /\ e.images = jm /\ e = Disk(e.file, e.images) BY <1>2, DiskFields
<1> HIDE DEF e, jm
<1>15. RolledBack(f, t, c, l, e) BY <1>8, <1>9, <1>13, <1>14 DEF RolledBack
<1> QED BY <1>15 DEF e

(* rollback of a nested transaction on the disk.                            *)
LEMMA RollLeads ==
    ASSUME NEW f, NEW im, NEW t, NEW b, Writing(f, im, t, b), t.offset # 0, NEW l \in 1 .. Top(t)
    PROVE  \E e : Leads(Disk(f, im), RollbackOps(f, t, l), e, {b[1]}) /\ RolledBack(f, t, b[1], l, e)
<1> DEFINE W == ApplyRollback(f, t.offset, t.buffers[l].start)
           o == SetLength(t.offset, Len(LogAt(f, t.offset)))
           c == b[1]
<1>1. PICK d : Leads(Disk(f, im), W, d, {c}) /\ RestoredFrom(f, t, c, l, d) BY RestoreFrom
<1>2. RollbackOps(f, t, l) = W \o <<o>> BY WritingReads DEF RollbackOps
<1> HIDE DEF W, o
<1> DEFINE e == After(d, o)
<1>3. RolledBack(f, t, c, l, e) BY <1>1, LengthKept DEF o
<1>4. f.state = t.state /\ t.state \in Slots /\ c \in Contents BY WritingFields
<1> HIDE DEF c
<1>5. Crashable(d, {c}) BY <1>1, LeadsEnd
<1>6. Crashable(e, {c})
  <2>1. e = Disk(e.file, e.images) /\ e.file \in e.images /\ e.images \in SUBSET Files /\ Guarded(e.file, e.images, c)
        /\ e.file.state = f.state
    BY <1>3 DEF RolledBack, Imaged, SameHeader
  <2> HIDE DEF e
  <2>2. e.file.state # CLEAN BY <2>1, <1>4, StateCases
  <2> DEFINE cs == {c}
             g == e.file
             jm == e.images
  <2>3. c \in cs OBVIOUS
  <2> HIDE DEF cs, g, jm
  <2>4. Crashable(Disk(g, jm), cs)
    <3>1. g \in jm /\ jm \in SUBSET Files /\ Guarded(g, jm, c) /\ g.state # CLEAN BY <2>1, <2>2 DEF g, jm
    <3> QED BY <3>1, <2>3, <1>4, GuardedCrashable
  <2> QED BY <2>1, <2>4 DEF cs, g, jm
<1>7. Leads(d, <<o>>, e, {c}) BY <1>5, <1>6, LeadsOne
<1>8. Leads(Disk(f, im), W \o <<o>>, e, {c}) BY <1>1, <1>7, LeadsThen
<1> QED BY <1>2, <1>3, <1>8 DEF c

-----------------------------------------------------------------------------
(* Sequences whose last elements are replaced.                              *)
IsFront(s, r) == Len(r) = Len(s) - 1 /\ \A l \in 1 .. Len(r) : r[l] = s[l]
IsLonger(s, x, r) ==
    Len(r) = Len(s) + 1 /\ r[Len(s) + 1] = x /\ \A l \in 1 .. Len(s) : r[l] = s[l]
IsShorter(s, x, r) ==
    Len(r) = Len(s) - 1 /\ r[Len(s) - 1] = x /\ \A l \in 1 .. Len(s) - 2 : r[l] = s[l]

(* The last element.                                                        *)
LEMMA LastOf == \A s : Last(s) = s[Len(s)]
BY DEF Last

(* The first elements,                                                      *)
LEMMA PrefixOf ==
    ASSUME NEW S, NEW s \in Seq(S), NEW n \in Nat, n <= Len(s)
    PROVE  /\ SubSeq(s, 1, n) \in Seq(S) /\ Len(SubSeq(s, 1, n)) = n
           /\ \A i \in 1 .. n : SubSeq(s, 1, n)[i] = s[i]
<1>1. Len(s) \in Nat /\ \A i \in 1 .. n : s[i] \in S OBVIOUS
<1>2. /\ SubSeq(s, 1, n) \in Seq(S)
      /\ Len(SubSeq(s, 1, n)) = IF 1 <= n THEN n - 1 + 1 ELSE 0
      /\ \A i \in 1 .. n - 1 + 1 : SubSeq(s, 1, n)[i] = s[1 + i - 1]
  BY <1>1, SubSeqProperties
<1>3. Len(SubSeq(s, 1, n)) = n BY <1>2
<1>4. \A i \in 1 .. n : i \in 1 .. n - 1 + 1 /\ 1 + i - 1 = i OBVIOUS
<1> QED BY <1>2, <1>3, <1>4

(* all but the last,                                                        *)
LEMMA FrontOf ==
    ASSUME NEW S, NEW s \in Seq(S), Len(s) > 0
    PROVE  Front(s) \in Seq(S) /\ IsFront(s, Front(s))
<1> DEFINE n == Len(s) - 1
<1>1. Front(s) = SubSeq(s, 1, n) BY DEF Front
<1>2. n \in Nat /\ n <= Len(s) OBVIOUS
<1> HIDE DEF n
<1>3. /\ SubSeq(s, 1, n) \in Seq(S) /\ Len(SubSeq(s, 1, n)) = n
      /\ \A i \in 1 .. n : SubSeq(s, 1, n)[i] = s[i]
  BY <1>2, PrefixOf
<1> QED BY <1>1, <1>3 DEF IsFront, n

(* one more,                                                                *)
LEMMA LongerOf ==
    ASSUME NEW S, NEW s \in Seq(S), NEW x \in S
    PROVE  Append(s, x) \in Seq(S) /\ IsLonger(s, x, Append(s, x))
BY AppendProperties DEF IsLonger

(* and the last two replaced by one.                                        *)
LEMMA ShorterOf ==
    ASSUME NEW S, NEW s \in Seq(S), Len(s) > 1, NEW x \in S
    PROVE  /\ Append(SubSeq(s, 1, Len(s) - 2), x) \in Seq(S)
           /\ IsShorter(s, x, Append(SubSeq(s, 1, Len(s) - 2), x))
<1> DEFINE r == SubSeq(s, 1, Len(s) - 2)
<1>1. Len(s) \in Nat /\ Len(s) - 2 \in Nat /\ Len(s) - 2 <= Len(s) OBVIOUS
<1>3. r \in Seq(S) /\ Len(r) = Len(s) - 2 /\ \A i \in 1 .. Len(s) - 2 : r[i] = s[i]
  <2> DEFINE n == Len(s) - 2
  <2>1. n \in Nat /\ n <= Len(s) BY <1>1
  <2> HIDE DEF n
  <2>2. /\ SubSeq(s, 1, n) \in Seq(S) /\ Len(SubSeq(s, 1, n)) = n
        /\ \A i \in 1 .. n : SubSeq(s, 1, n)[i] = s[i]
    BY <2>1, PrefixOf
  <2> QED BY <2>2 DEF n
<1> HIDE DEF r
<1>4. Append(r, x) \in Seq(S) /\ Len(Append(r, x)) = Len(r) + 1 /\ Append(r, x)[Len(r) + 1] = x
      /\ \A i \in 1 .. Len(r) : Append(r, x)[i] = r[i]
  BY <1>3, AppendProperties
<1> QED BY <1>1, <1>3, <1>4 DEF IsShorter, r

-----------------------------------------------------------------------------
(* A nested transaction begins.                                             *)
Begun(t, start) == [t EXCEPT !.buffers = Append(@, Buffer(start))]
HasBegun(t, start, u) ==
    /\ u \in Txns /\ IsLonger(t.buffers, Buffer(start), u.buffers) /\ Top(u) = Top(t) + 1
    /\ u.size = t.size /\ u.state = t.state /\ u.offset = t.offset /\ u.hole = t.hole

(* What the stack of the transaction becomes.                               *)
LEMMA TxnBegun ==
    ASSUME NEW t \in Txns, Top(t) > 0, NEW start \in Nat
    PROVE  HasBegun(t, start, Begun(t, start))
<1> DEFINE B == Append(t.buffers, Buffer(start))
           u == Begun(t, start)
<1>1. t.buffers \in Seq(Buffers) BY TxnFields
<1>2. Buffer(start) \in Buffers
  <2>1. <<>> \in Seq(1 .. LastPage) /\ {} \in SUBSET (1 .. LastPage) BY EmptySeq
  <2> QED BY <2>1 DEF Buffer, Buffers
<1>3. B \in Seq(Buffers) /\ IsLonger(t.buffers, Buffer(start), B) BY <1>1, <1>2, LongerOf
<1>4. u = [t EXCEPT !.buffers = B] BY DEF Begun
<1> HIDE DEF B
<1>5. u \in Txns /\ u.buffers = B /\ u.size = t.size /\ u.state = t.state /\ u.offset = t.offset /\ u.hole = t.hole
  <2> HIDE DEF u
  <2> QED BY <1>3, <1>4 DEF Txns
<1> HIDE DEF u
<1>6. Top(u) = Top(t) + 1 BY <1>3, <1>5 DEF IsLonger, Top
<1>7. HasBegun(t, start, u) BY <1>3, <1>5, <1>6 DEF HasBegun
<1> QED BY <1>7 DEF u

(* What the file has up to the length that the transaction gave it.         *)
Holds(f, t, c) == c \in Contents /\ Len(c) = t.size /\ \A n \in 1 .. t.size : f.data[n] = c[n]

(* The new level restores what the file is now.                             *)
LEMMA BeginWriting ==
    ASSUME NEW f, NEW im, NEW t, NEW b, Writing(f, im, t, b), Fits(t), NEW c, Holds(f, t, c),
           NEW u, u = Begun(t, IF t.offset = 0 THEN 0 ELSE f.length[2]),
           NEW d \in Seq(Contents), IsLonger(b, c, d)
    PROVE  Writing(f, im, u, d) /\ Fits(u) /\ Top(u) = Top(t) + 1 /\ u.size = t.size
<1> DEFINE start == IF t.offset = 0 THEN 0 ELSE f.length[2]
           T == Top(t)
<1>0. /\ t \in Txns /\ T > 0 /\ T \in Nat /\ f \in Files /\ Len(b) = T /\ t.size \in Nat /\ t.offset \in Nat
      /\ f.length[2] \in Nat /\ 1 \in 1 .. T /\ T \in 1 .. T
      /\ \A l \in 1 .. T : t.buffers[l].start \in Nat
  BY WritingFields, TxnFields, FilesType DEF Writing
<1>1. start \in Nat /\ HasBegun(t, start, u)
  <2>1. start \in Nat BY <1>0
  <2>2. u = Begun(t, start) OBVIOUS
  <2> HIDE DEF start
  <2> QED BY <2>1, <2>2, <1>0, TxnBegun
<1>2. /\ u \in Txns /\ Top(u) = T + 1
      /\ u.size = t.size /\ u.state = t.state /\ u.offset = t.offset /\ u.hole = t.hole
      /\ (\A l \in 1 .. T : u.buffers[l] = t.buffers[l])
      /\ u.buffers[T + 1] = Buffer(start)
  BY <1>1 DEF HasBegun, IsLonger, Top
<1>3. Len(d) = T + 1 /\ d[T + 1] = c /\ \A l \in 1 .. T : d[l] = b[l] BY <1>0 DEF IsLonger
<1>4. c \in Contents /\ Len(c) = t.size /\ \A n \in 1 .. t.size : f.data[n] = c[n] BY DEF Holds
<1>5. \A l \in 1 .. T + 1 : l \in 1 .. T \/ l = T + 1 BY <1>0
<1>6. Buffer(start).undo = <<>> /\ Buffer(start).start = start /\ Buffer(start).dirty = {} BY DEF Buffer
<1>7. \A l \in 1 .. T : Len(b[l]) = IF t.buffers[l].undo # <<>> THEN t.buffers[l].undo[1]
                      ELSE IF l = T THEN t.size ELSE Len(b[l + 1])
  BY DEF Writing
<1> HIDE DEF T
<1>8. ASSUME NEW l \in 1 .. T + 1
      PROVE  Len(d[l]) = IF u.buffers[l].undo # <<>> THEN u.buffers[l].undo[1]
                      ELSE IF l = T + 1 THEN u.size ELSE Len(d[l + 1])
  <2>1. CASE l = T + 1 BY <2>1, <1>2, <1>3, <1>4, <1>6
  <2>2. CASE l \in 1 .. T
    <3>1. l # T + 1 /\ d[l] = b[l] /\ u.buffers[l] = t.buffers[l] BY <2>2, <1>0, <1>2, <1>3
    <3>2. CASE l = T BY <2>2, <3>1, <3>2, <1>3, <1>4, <1>7
    <3>3. CASE l # T
      <4>1. l + 1 \in 1 .. T BY <2>2, <3>3, <1>0
      <4>2. d[l + 1] = b[l + 1] BY <4>1, <1>3
      <4> QED BY <2>2, <3>1, <3>3, <4>2, <1>7
    <3> QED BY <3>2, <3>3
  <2> QED BY <2>1, <2>2, <1>5
<1>9. CASE t.offset = 0
  <2>1. Fresh(f, im, t, b) BY <1>9 DEF Writing
  <2>2. start = 0 BY <1>9
  <2>3. /\ t.state = CLEAN /\ f.state = CLEAN /\ (\A i \in im : Settled(i, b[1]))
        /\ \A l \in 1 .. T : b[l] = b[1] /\ t.buffers[l] = Buffer(0)
    BY <2>1 DEF Fresh, T
  <2>4. c = b[1]
    <3>1. f \in im /\ b[1] \in Contents BY WritingFields
    <3>2. Settled(f, b[1]) BY <2>3, <3>1
    <3>3. Len(b[1]) = t.size
      <4>1. t.buffers[T].undo = <<>> BY <2>3, <1>0 DEF Buffer
      <4>2. Len(b[T]) = t.size BY <4>1, <1>0, <1>7
      <4> QED BY <4>2, <2>3, <1>0
    <3>4. c \in Seq(Values) /\ b[1] \in Seq(Values) BY <3>1, <1>4, ContentType
    <3>5. \A n \in 1 .. t.size : n \in 1 .. LastPage BY <1>0, <3>1, <3>3, ContentType
    <3>6. \A n \in 1 .. Len(b[1]) : f.data[n] = b[1][n] BY <3>2, <3>3, <3>5, <1>0 DEF Settled
    <3>7. Len(c) = Len(b[1]) /\ \A n \in 1 .. Len(c) : c[n] = b[1][n] BY <3>3, <3>6, <1>4
    <3> QED BY <3>4, <3>7, SeqEqual
  <2>5. d[1] = b[1] BY <1>0, <1>3
  <2>6. \A l \in 1 .. Top(u) : d[l] = d[1] /\ u.buffers[l] = Buffer(0)
    BY <1>2, <1>3, <1>5, <2>2, <2>3, <2>4, <2>5
  <2>7. Fresh(f, im, u, d) BY <2>3, <2>5, <2>6, <1>2 DEF Fresh
  <2>8. Writing(f, im, u, d) BY <2>7, <1>0, <1>2, <1>3, <1>8, <1>9 DEF Writing
  <2>9. Fits(u) BY <1>2, <1>9 DEF Fits
  <2> QED BY <2>8, <2>9, <1>2 DEF T
<1>10. CASE t.offset # 0
  <2>1. Logged(f, im, t, b) BY <1>10 DEF Writing
  <2> DEFINE L == LogAt(f, t.offset)
  <2>2. start = Len(L) /\ L \in Seq(Record) /\ Len(L) \in Nat
    <3>1. f.length = <<t.offset, Len(L)>> BY <2>1 DEF Logged, LogKept
    <3>2. L \in Seq(Record) BY <1>10, WritingFields
    <3> QED BY <1>10, <3>1, <3>2
  <2>3. ASSUME NEW l \in 1 .. T
        PROVE  /\ t.buffers[l].start <= Len(L)
               /\ \A m \in 1 .. T : l <= m => t.buffers[l].start <= t.buffers[m].start
               /\ Len(b[l]) <= t.offset
               /\ \A n \in 1 .. Len(b[l]) : Undoes(L, Span(f, t, l), f.data, n, b[l][n])
               /\ \A n \in t.buffers[l].dirty : \E k \in Span(f, t, l) : L[k].page = n
    BY <2>1 DEF Logged, Nested, T
  <2>4. \A l \in 1 .. T : Span(f, u, l) = Span(f, t, l) BY <1>2 DEF Span
  <2>5. Span(f, u, T + 1) = {} BY <2>2, <1>2, <1>6 DEF Span
  <2> HIDE DEF start
  <2>6. Nested(f, u, d)
    <3> SUFFICES ASSUME NEW l \in 1 .. Top(u)
                 PROVE  /\ u.buffers[l].start <= Len(LogAt(f, u.offset))
                        /\ \A m \in 1 .. Top(u) : l <= m => u.buffers[l].start <= u.buffers[m].start
                        /\ Len(d[l]) <= u.offset
                        /\ \A n \in 1 .. Len(d[l]) : Undoes(LogAt(f, u.offset), Span(f, u, l), f.data, n, d[l][n])
                        /\ \A n \in u.buffers[l].dirty : \E k \in Span(f, u, l) : LogAt(f, u.offset)[k].page = n
      BY DEF Nested
    <3>1. LogAt(f, u.offset) = L BY <1>2
    <3> HIDE DEF L
    <3>2. CASE l \in 1 .. T
      <4>1. d[l] = b[l] /\ u.buffers[l] = t.buffers[l] BY <3>2, <1>2, <1>3
      <4>2. ASSUME NEW m \in 1 .. Top(u), l <= m PROVE u.buffers[l].start <= u.buffers[m].start
        <5>1. CASE m \in 1 .. T BY <5>1, <4>1, <4>2, <3>2, <2>3, <1>2
        <5>2. CASE m = T + 1 BY <5>2, <4>1, <3>2, <2>2, <2>3, <1>2, <1>6
        <5> QED BY <5>1, <5>2, <1>2, <1>5
      <4>3. u.offset = t.offset BY <1>2
      <4>4. u.buffers[l].start <= Len(L) /\ Len(d[l]) <= u.offset BY <3>2, <4>1, <4>3, <2>3
      <4>5. \A n \in 1 .. Len(d[l]) : Undoes(L, Span(f, u, l), f.data, n, d[l][n]) BY <3>2, <4>1, <2>3, <2>4
      <4>6. \A n \in u.buffers[l].dirty : \E k \in Span(f, u, l) : L[k].page = n BY <3>2, <4>1, <2>3, <2>4
      <4> QED BY <3>1, <4>2, <4>4, <4>5, <4>6
    <3>3. CASE l = T + 1
      <4>1. d[l] = c /\ u.buffers[l] = Buffer(start) BY <3>3, <1>2, <1>3
      <4>2. ASSUME NEW m \in 1 .. Top(u), l <= m PROVE u.buffers[l].start <= u.buffers[m].start
        <5>1. m = l BY <4>2, <3>3, <1>0, <1>2
        <5> QED BY <5>1, <4>1, <2>2, <1>6
      <4>3. \A n \in 1 .. Len(d[l]) : Undoes(L, Span(f, u, l), f.data, n, d[l][n])
        BY <4>1, <2>5, <3>3, <1>4 DEF Undoes
      <4>4. Len(d[l]) <= u.offset BY <4>1, <1>2, <1>4, <1>10 DEF Fits
      <4>5. u.buffers[l].start <= Len(L) BY <4>1, <1>6, <2>2
      <4>6. u.buffers[l].dirty = {} BY <4>1, <1>6
      <4> QED BY <3>1, <4>2, <4>3, <4>4, <4>5, <4>6
    <3> QED BY <3>2, <3>3, <1>2, <1>5
  <2>7. LogKept(f, u) BY <2>1, <1>2 DEF Logged, LogKept
  <2>8. d[1] = b[1] /\ u.buffers[1] = t.buffers[1] BY <1>0, <1>2, <1>3
  <2>9. Logged(f, im, u, d) BY <2>1, <2>6, <2>7, <2>8, <1>2 DEF Logged
  <2>10. Writing(f, im, u, d) BY <2>9, <1>0, <1>2, <1>3, <1>8, <1>10 DEF Writing
  <2>11. Fits(u) BY <1>2 DEF Fits
  <2> QED BY <2>10, <2>11, <1>2 DEF T
<1> QED BY <1>9, <1>10

(* A nested transaction is committed.                                       *)
Merged(t) == [t EXCEPT !.buffers = Append(SubSeq(@, 1, Top(t) - 2), Merge(@[Top(t) - 1], Last(@)))]
HasMerged(t, u) ==
    /\ u \in Txns /\ Top(u) = Top(t) - 1
    /\ IsShorter(t.buffers, Merge(t.buffers[Top(t) - 1], t.buffers[Top(t)]), u.buffers)
    /\ u.size = t.size /\ u.state = t.state /\ u.offset = t.offset /\ u.hole = t.hole

IsMerge(x, y, z) ==
    z \in Buffers /\ z.start = x.start /\ z.undo = x.undo \o y.undo /\ z.dirty = x.dirty \union y.dirty

(* The inner buffer is merged into the outer one:                           *)
LEMMA MergeFields ==
    ASSUME NEW x \in Buffers, NEW y \in Buffers, NEW z, z = Merge(x, y)
    PROVE  IsMerge(x, y, z)
<1> DEFINE a == x.undo \o y.undo
           c == x.dirty \union y.dirty
<1>1. x.undo \in Seq(1 .. LastPage) /\ y.undo \in Seq(1 .. LastPage)
      /\ x.dirty \in SUBSET (1 .. LastPage) /\ y.dirty \in SUBSET (1 .. LastPage)
  BY DEF Buffers
<1>2. a \in Seq(1 .. LastPage)
  <2> DEFINE S == 1 .. LastPage
  <2> HIDE DEF S
  <2>1. x.undo \in Seq(S) /\ y.undo \in Seq(S) BY <1>1 DEF S
  <2>2. x.undo \o y.undo \in Seq(S) BY <2>1, ConcatProperties
  <2> QED BY <2>2 DEF S
<1>3. c \in SUBSET (1 .. LastPage) BY <1>1
<1>4. z = [x EXCEPT !.undo = a, !.dirty = c] BY DEF Merge
<1> HIDE DEF a, c
<1>5. z \in Buffers /\ z.start = x.start /\ z.undo = a /\ z.dirty = c BY <1>2, <1>3, <1>4 DEF Buffers
<1> QED BY <1>5 DEF a, c, IsMerge

(* the older of the sizes, and the pages that either saved.                 *)
LEMMA TxnMerged ==
    ASSUME NEW t \in Txns, Top(t) > 1
    PROVE  HasMerged(t, Merged(t))
<1> DEFINE x == Merge(t.buffers[Top(t) - 1], t.buffers[Top(t)])
           B == Append(SubSeq(t.buffers, 1, Top(t) - 2), x)
           u == Merged(t)
<1>0. Top(t) \in Nat /\ Top(t) > 0 BY DEF Txns, Top
<1>1. t.buffers \in Seq(Buffers) /\ Top(t) = Len(t.buffers) BY <1>0, TxnFields DEF Top
<1>2. x \in Buffers
  <2>1. Top(t) - 1 \in 1 .. Top(t) /\ Top(t) \in 1 .. Top(t) BY <1>0
  <2>2. t.buffers[Top(t) - 1] \in Buffers /\ t.buffers[Top(t)] \in Buffers BY <1>0, <2>1, TxnFields
  <2> QED BY <2>2, MergeFields DEF IsMerge
<1> HIDE DEF x
<1>3. B \in Seq(Buffers) /\ IsShorter(t.buffers, x, B)
  <2> DEFINE s == t.buffers
  <2>1. s \in Seq(Buffers) /\ Len(s) > 1 BY <1>1
  <2>2. B = Append(SubSeq(s, 1, Len(s) - 2), x) BY <1>1
  <2> HIDE DEF s, B
  <2>3. B \in Seq(Buffers) /\ IsShorter(s, x, B) BY <2>1, <2>2, <1>2, ShorterOf
  <2> QED BY <2>3 DEF s
<1>4. u = [t EXCEPT !.buffers = B] BY <1>1, LastOf DEF Merged, x
<1> HIDE DEF B
<1>5. u \in Txns /\ u.buffers = B /\ u.size = t.size /\ u.state = t.state /\ u.offset = t.offset /\ u.hole = t.hole
  <2> HIDE DEF u
  <2> QED BY <1>3, <1>4 DEF Txns
<1> HIDE DEF u
<1>6. Top(u) = Top(t) - 1 BY <1>1, <1>3, <1>5 DEF IsShorter, Top
<1>7. HasMerged(t, u) BY <1>3, <1>5, <1>6 DEF HasMerged, x
<1> QED BY <1>7 DEF u

(* The outer level restores what it restored before.                        *)
LEMMA MergeWriting ==
    ASSUME NEW f, NEW im, NEW t, NEW b, Writing(f, im, t, b), Fits(t), Top(t) > 1,
           NEW u, u = Merged(t), NEW d \in Seq(Contents), IsFront(b, d)
    PROVE  Writing(f, im, u, d) /\ Fits(u) /\ Top(u) = Top(t) - 1 /\ u.size = t.size /\ d[1] = b[1]
<1> DEFINE T == Top(t)
           x == t.buffers[T - 1]
           y == t.buffers[T]
           z == Merge(x, y)
<1>0. /\ t \in Txns /\ T > 0 /\ T \in Nat /\ f \in Files /\ Len(b) = T
      /\ 1 \in 1 .. T - 1 /\ T - 1 \in 1 .. T /\ T \in 1 .. T
      /\ (\A l \in 1 .. T - 1 : l \in 1 .. T /\ l + 1 \in 1 .. T)
      /\ \A l \in 1 .. T : t.buffers[l] \in Buffers /\ t.buffers[l].start \in Nat
  BY WritingFields, TxnFields DEF Writing
<1>1. HasMerged(t, u) BY <1>0, TxnMerged
<1>2. /\ u \in Txns /\ Top(u) = T - 1
      /\ u.size = t.size /\ u.state = t.state /\ u.offset = t.offset /\ u.hole = t.hole
      /\ (\A l \in 1 .. T - 2 : u.buffers[l] = t.buffers[l])
      /\ u.buffers[T - 1] = z
  BY <1>1 DEF HasMerged, IsShorter, Top
<1>3. z \in Buffers /\ z.start = x.start /\ z.undo = x.undo \o y.undo /\ z.dirty = x.dirty \union y.dirty
  <2>1. x \in Buffers /\ y \in Buffers /\ z = Merge(x, y) BY <1>0
  <2> HIDE DEF x, y, z
  <2>2. IsMerge(x, y, z) BY <2>1, MergeFields
  <2> QED BY <2>2 DEF IsMerge
<1>4. Len(d) = T - 1 /\ \A l \in 1 .. T - 1 : d[l] = b[l] BY <1>0 DEF IsFront
<1>5. \A l \in 1 .. T - 1 : l \in 1 .. T - 2 \/ l = T - 1 BY <1>0
<1>6. \A l \in 1 .. T : Len(b[l]) = IF t.buffers[l].undo # <<>> THEN t.buffers[l].undo[1]
                      ELSE IF l = T THEN t.size ELSE Len(b[l + 1])
  BY DEF Writing
<1> HIDE DEF z
<1>7. ASSUME NEW l \in 1 .. T - 1
      PROVE  Len(d[l]) = IF u.buffers[l].undo # <<>> THEN u.buffers[l].undo[1]
                      ELSE IF l = T - 1 THEN u.size ELSE Len(d[l + 1])
  <2>1. CASE l \in 1 .. T - 2
    <3>1. l + 1 \in 1 .. T - 1 /\ l # T - 1 /\ l # T BY <2>1, <1>0
    <3>2. d[l + 1] = b[l + 1] /\ d[l] = b[l] /\ u.buffers[l] = t.buffers[l] BY <2>1, <3>1, <1>2, <1>4
    <3> QED BY <3>1, <3>2, <1>0, <1>6
  <2>2. CASE l = T - 1
    <3>1. Len(b[T]) = IF y.undo # <<>> THEN y.undo[1] ELSE t.size BY <1>0, <1>6
    <3>2. Len(b[T - 1]) = IF x.undo # <<>> THEN x.undo[1] ELSE Len(b[T])
      <4>1. (T - 1) + 1 = T /\ T - 1 # T BY <1>0
      <4> QED BY <4>1, <1>0, <1>6
    <3> DEFINE p == x.undo
               q == y.undo
    <3>3. p \in Seq(1 .. LastPage) /\ q \in Seq(1 .. LastPage) BY <1>0, TxnFields
    <3>4. u.buffers[l].undo = p \o q BY <2>2, <1>2, <1>3
    <3> HIDE DEF p, q
    <3>5. p # <<>> => p \o q # <<>> /\ (p \o q)[1] = p[1]
      <4> SUFFICES ASSUME p # <<>> PROVE p \o q # <<>> /\ (p \o q)[1] = p[1] OBVIOUS
      <4>1. Len(p) \in Nat /\ Len(p) > 0 /\ Len(q) \in Nat BY <3>3, EmptySeq
      <4>2. Len(p \o q) = Len(p) + Len(q) /\ (p \o q)[1] = p[1] BY <3>3, <4>1
      <4> QED BY <4>1, <4>2
    <3>6. p = <<>> => p \o q = q BY <3>3, ConcatEmptySeq
    <3>7. Len(d[l]) = Len(b[T - 1]) BY <2>2, <1>4, <1>0
    <3> QED BY <2>2, <3>1, <3>2, <3>4, <3>5, <3>6, <3>7, <1>2 DEF p, q
  <2> QED BY <2>1, <2>2, <1>5
<1>8. d[1] = b[1] BY <1>0, <1>4
<1>9. CASE t.offset = 0
  <2>1. Fresh(f, im, t, b) BY <1>9 DEF Writing
  <2>2. /\ t.state = CLEAN /\ f.state = CLEAN /\ (\A i \in im : Settled(i, b[1]))
        /\ \A l \in 1 .. T : b[l] = b[1] /\ t.buffers[l] = Buffer(0)
    BY <2>1 DEF Fresh
  <2>3. z = Buffer(0)
    <3>1. x = Buffer(0) /\ y = Buffer(0) BY <2>2, <1>0
    <3>2. <<>> \o <<>> = <<>> /\ {} \union {} = {} OBVIOUS
    <3>3. z.start = 0 /\ z.undo = <<>> \o <<>> /\ z.dirty = {} \union {} BY <3>1, <1>3 DEF Buffer
    <3>4. z = [start |-> 0, undo |-> <<>>, dirty |-> {}] BY <3>2, <3>3, <1>3 DEF Buffers
    <3> QED BY <3>4 DEF Buffer
  <2>4. \A l \in 1 .. Top(u) : d[l] = d[1] /\ u.buffers[l] = Buffer(0)
    BY <1>0, <1>2, <1>4, <1>5, <1>8, <2>2, <2>3
  <2>5. Fresh(f, im, u, d) BY <2>2, <2>4, <1>2, <1>8 DEF Fresh
  <2>6. Top(u) > 0 BY <1>0, <1>2
  <2>7. Writing(f, im, u, d) BY <2>5, <2>6, <1>0, <1>2, <1>4, <1>7, <1>9 DEF Writing
  <2>8. Fits(u) BY <1>2, <1>9 DEF Fits
  <2> QED BY <2>7, <2>8, <1>2, <1>8
<1>10. CASE t.offset # 0
  <2>1. Logged(f, im, t, b) BY <1>10 DEF Writing
  <2> DEFINE L == LogAt(f, t.offset)
  <2>2. ASSUME NEW l \in 1 .. T
        PROVE  /\ t.buffers[l].start <= Len(L)
               /\ \A m \in 1 .. T : l <= m => t.buffers[l].start <= t.buffers[m].start
               /\ Len(b[l]) <= t.offset
               /\ \A n \in 1 .. Len(b[l]) : Undoes(L, Span(f, t, l), f.data, n, b[l][n])
               /\ \A n \in t.buffers[l].dirty : \E k \in Span(f, t, l) : L[k].page = n
    BY <2>1 DEF Logged, Nested
  <2>3. \A l \in 1 .. T - 1 : u.buffers[l].start = t.buffers[l].start BY <1>2, <1>3, <1>5
  <2>4. \A l \in 1 .. T - 1 : Span(f, u, l) = Span(f, t, l) BY <2>3, <1>2 DEF Span
  <2>5. Span(f, t, T) \subseteq Span(f, t, T - 1)
    <3>1. t.buffers[T - 1].start <= t.buffers[T].start BY <2>2, <1>0
    <3>2. L \in Seq(Record) BY <1>10, WritingFields
    <3> QED BY <3>1, <3>2, <1>0 DEF Span
  <2>6. Nested(f, u, d)
    <3> SUFFICES ASSUME NEW l \in 1 .. Top(u)
                 PROVE  /\ u.buffers[l].start <= Len(LogAt(f, u.offset))
                        /\ \A m \in 1 .. Top(u) : l <= m => u.buffers[l].start <= u.buffers[m].start
                        /\ Len(d[l]) <= u.offset
                        /\ \A n \in 1 .. Len(d[l]) : Undoes(LogAt(f, u.offset), Span(f, u, l), f.data, n, d[l][n])
                        /\ \A n \in u.buffers[l].dirty : \E k \in Span(f, u, l) : LogAt(f, u.offset)[k].page = n
      BY DEF Nested
    <3>1. LogAt(f, u.offset) = L /\ l \in 1 .. T - 1 /\ l \in 1 .. T BY <1>0, <1>2
    <3> HIDE DEF L
    <3>2. d[l] = b[l] BY <3>1, <1>4
    <3>3. ASSUME NEW n \in u.buffers[l].dirty PROVE \E k \in Span(f, t, l) : L[k].page = n
      <4>1. CASE l \in 1 .. T - 2 BY <4>1, <3>1, <1>2, <2>2
      <4>2. CASE l = T - 1
        <5>1. n \in x.dirty \/ n \in y.dirty BY <4>2, <1>2, <1>3
        <5>2. CASE n \in x.dirty BY <5>2, <4>2, <2>2, <1>0
        <5>3. CASE n \in y.dirty BY <5>3, <4>2, <2>2, <2>5, <1>0
        <5> QED BY <5>1, <5>2, <5>3
      <4> QED BY <4>1, <4>2, <3>1, <1>5
    <3>4. \A m \in 1 .. Top(u) : m \in 1 .. T - 1 /\ m \in 1 .. T BY <1>0, <1>2
    <3> QED BY <3>1, <3>2, <3>3, <3>4, <2>2, <2>3, <2>4, <1>2
  <2>7. LogKept(f, u) BY <2>1, <1>2 DEF Logged, LogKept
  <2>8. u.buffers[1].start = t.buffers[1].start BY <1>0, <2>3
  <2>9. Logged(f, im, u, d) BY <2>1, <2>6, <2>7, <2>8, <1>2, <1>8 DEF Logged
  <2>10. Top(u) > 0 BY <1>0, <1>2
  <2>11. Writing(f, im, u, d) BY <2>9, <2>10, <1>0, <1>2, <1>4, <1>7, <1>10 DEF Writing
  <2>12. Fits(u) BY <1>2 DEF Fits
  <2> QED BY <2>11, <2>12, <1>2, <1>8
<1> QED BY <1>9, <1>10

(* The transactions of a level have been undone.                            *)
LEMMA UndoesOnce ==
    ASSUME NEW L, NEW R, R \subseteq Nat, NEW data, NEW n, NEW v, NEW w,
           Undoes(L, R, data, n, v), Undoes(L, R, data, n, w)
    PROVE  v = w
<1>1. CASE \E k \in R : /\ L[k].page = n /\ L[k].old = v
                        /\ \A j \in R : j < k => L[j].page # n
  <2>1. PICK k \in R : /\ L[k].page = n /\ L[k].old = v
                       /\ \A j \in R : j < k => L[j].page # n BY <1>1
  <2>2. PICK i \in R : /\ L[i].page = n /\ L[i].old = w
                       /\ \A j \in R : j < i => L[j].page # n BY <2>1 DEF Undoes
  <2>3. i = k
    <3>1. ~(i < k) /\ ~(k < i) BY <2>1, <2>2
    <3>2. i \in Nat /\ k \in Nat OBVIOUS
    <3> QED BY <3>1, <3>2
  <2> QED BY <2>1, <2>2, <2>3
<1>2. CASE data[n] = v /\ \A k \in R : L[k].page # n BY <1>2 DEF Undoes
<1> QED BY <1>1, <1>2 DEF Undoes

(* The pages are those of the content that the level began with.            *)
LEMMA RolledContent ==
    ASSUME NEW f, NEW im, NEW t, NEW b, Writing(f, im, t, b), t.offset # 0,
           NEW l \in 1 .. Top(t), NEW e, RolledBack(f, t, b[1], l, e)
    PROVE  /\ \A p \in 1 .. LastPage : e.file.data[p] \in Values
           /\ \A n \in 1 .. Len(b[l]) : e.file.data[n] = b[l][n]
<1> DEFINE L == LogAt(f, t.offset)
           R == Span(f, t, l)
<1>1. R \subseteq 1 .. Len(L) /\ \A k \in 1 .. Len(L) : L[k].old \in Values BY WritingReads
<1>2. ASSUME NEW p \in 1 .. LastPage PROVE e.file.data[p] \in Values
  <2>1. CASE p <= t.offset
    <3>1. Undoes(L, R, f.data, p, e.file.data[p]) BY <2>1 DEF RolledBack
    <3>2. f.data[p] \in Values BY DEF Writing
    <3> QED BY <3>1, <3>2, <1>1 DEF Undoes
  <2>2. CASE ~(p <= t.offset) BY <2>2 DEF RolledBack
  <2> QED BY <2>1, <2>2
<1>3. ASSUME NEW n \in 1 .. Len(b[l]) PROVE e.file.data[n] = b[l][n]
  <2>1. Len(b[l]) <= t.offset /\ Undoes(L, R, f.data, n, b[l][n]) BY DEF Writing, Logged, Nested
  <2>2. n \in 1 .. LastPage /\ n \in Nat /\ Len(b[l]) \in Nat BY WritingFields, ContentType
  <2>3. t.offset \in Nat BY WritingFields, TxnFields
  <2>4. n <= t.offset BY <2>1, <2>2, <2>3
  <2>5. Undoes(L, R, f.data, n, e.file.data[n]) BY <2>2, <2>4 DEF RolledBack
  <2>6. R \subseteq Nat BY <1>1
  <2> HIDE DEF L, R
  <2> QED BY <2>1, <2>5, <2>6, UndoesOnce
<1> QED BY <1>2, <1>3

(* What rollback makes of the fields.                                       *)
Undone(t) == [t EXCEPT !.size = UndoSize(t), !.buffers = Front(@)]
HasUndone(t, n, u) ==
    /\ u \in Txns /\ Top(u) = Top(t) - 1 /\ IsFront(t.buffers, u.buffers)
    /\ u.size = n /\ u.state = t.state /\ u.offset = t.offset /\ u.hole = t.hole

(* The size that rollback returns to is the one at the begin.               *)
LEMMA WritingUndoSize ==
    ASSUME NEW f, NEW im, NEW t, NEW b, Writing(f, im, t, b)
    PROVE  UndoSize(t) = Len(b[Top(t)])
BY WritingFields DEF UndoSize, Writing

(* What the stack of the transaction becomes.                               *)
LEMMA TxnUndone ==
    ASSUME NEW t \in Txns, Top(t) > 0, UndoSize(t) \in 1 .. LastPage, NEW u, u = Undone(t)
    PROVE  HasUndone(t, UndoSize(t), u)
<1> DEFINE B == Front(t.buffers)
           n == UndoSize(t)
<1>1. t.buffers \in Seq(Buffers) /\ Top(t) = Len(t.buffers) BY TxnFields DEF Top
<1>2. B \in Seq(Buffers) /\ IsFront(t.buffers, B) BY <1>1, FrontOf
<1>3. u = [t EXCEPT !.size = n, !.buffers = B] BY DEF Undone
<1> HIDE DEF B, n
<1>4. u \in Txns /\ u.buffers = B /\ u.size = n /\ u.state = t.state /\ u.offset = t.offset /\ u.hole = t.hole
  BY <1>2, <1>3 DEF Txns, n
<1>5. Top(u) = Top(t) - 1 BY <1>1, <1>2, <1>4 DEF IsFront, Top
<1> QED BY <1>2, <1>4, <1>5 DEF HasUndone, n

(* The transaction goes on at the outer level.                              *)
LEMMA RolledWriting ==
    ASSUME NEW f, NEW im, NEW t, NEW b, Writing(f, im, t, b), t.offset # 0, Top(t) > 1,
           NEW e, RolledBack(f, t, b[1], Top(t), e),
           NEW u, HasUndone(t, Len(b[Top(t)]), u), NEW d \in Seq(Contents), IsFront(b, d)
    PROVE  Writing(e.file, e.images, u, d)
<1> DEFINE T == Top(t)
           L == LogAt(f, t.offset)
           g == e.file
           c == b[1]
<1>a. Len(b) = T BY DEF Writing
<1>0. /\ t \in Txns /\ T > 0 /\ T \in Nat /\ f \in Files /\ Len(b) = T
      /\ 1 \in 1 .. T - 1 /\ T - 1 \in 1 .. T /\ T \in 1 .. T /\ 1 \in 1 .. T
      /\ (\A l \in 1 .. T - 1 : l \in 1 .. T /\ l + 1 \in 1 .. T)
      /\ L \in Seq(Record) /\ t.offset \in Nat
      /\ \A l \in 1 .. T : t.buffers[l] \in Buffers /\ t.buffers[l].start \in Nat /\ b[l] \in Contents
  BY <1>a, WritingFields, TxnFields
<1>1. Logged(f, im, t, b) BY DEF Writing
<1>2. /\ u \in Txns /\ Top(u) = T - 1 /\ u.state = t.state /\ u.offset = t.offset /\ u.hole = t.hole
      /\ u.size = Len(b[T]) /\ \A l \in 1 .. T - 1 : u.buffers[l] = t.buffers[l]
  BY DEF HasUndone, IsFront, Top
<1>3. Len(d) = T - 1 /\ \A l \in 1 .. T - 1 : d[l] = b[l] BY <1>0 DEF IsFront
<1>4. \A l \in 1 .. T : Len(b[l]) = IF t.buffers[l].undo # <<>> THEN t.buffers[l].undo[1]
                      ELSE IF l = T THEN t.size ELSE Len(b[l + 1])
  BY DEF Writing
<1>5. ASSUME NEW l \in 1 .. T - 1
      PROVE  Len(d[l]) = IF u.buffers[l].undo # <<>> THEN u.buffers[l].undo[1]
                      ELSE IF l = T - 1 THEN u.size ELSE Len(d[l + 1])
  <2>1. d[l] = b[l] /\ u.buffers[l] = t.buffers[l] /\ l # T BY <1>0, <1>2, <1>3
  <2>2. CASE l = T - 1
    <3>1. l + 1 = T BY <2>2, <1>0
    <3> QED BY <2>1, <2>2, <3>1, <1>0, <1>2, <1>4
  <2>3. CASE l # T - 1
    <3>1. l + 1 \in 1 .. T - 1 BY <2>3, <1>0
    <3>2. d[l + 1] = b[l + 1] BY <3>1, <1>3
    <3> QED BY <2>1, <2>3, <3>2, <1>0, <1>4
  <2> QED BY <2>2, <2>3
<1>6. /\ g \in Files /\ g.state = f.state /\ g.size = f.size /\ g.offset = f.offset /\ g.length = f.length
      /\ g.log = f.log
  BY DEF RolledBack, SameHeader
<1>7. Imaged(g, e.images, t.state, c) BY DEF RolledBack
<1>8. LogAt(g, t.offset) = L BY <1>6 DEF LogAt
<1>9. \A l \in 1 .. T - 1 : Span(g, u, l) = Span(f, t, l) BY <1>2, <1>8 DEF Span
<1>10. /\ \A p \in 1 .. LastPage : g.data[p] \in Values
       /\ \A p \in 1 .. LastPage : p <= t.offset => Undoes(L, Span(f, t, T), f.data, p, g.data[p])
  <2>1. \A p \in 1 .. LastPage : g.data[p] \in Values BY <1>0, RolledContent
  <2> QED BY <2>1 DEF RolledBack
<1> HIDE DEF g
<1>11. LogKept(g, u) BY <1>1, <1>2, <1>6, <1>8 DEF Logged, LogKept
<1>12. Nested(g, u, d)
  <2>1. ASSUME NEW l \in 1 .. T
        PROVE  /\ t.buffers[l].start <= Len(L)
               /\ \A m \in 1 .. T : l <= m => t.buffers[l].start <= t.buffers[m].start
               /\ Len(b[l]) <= t.offset
               /\ \A n \in 1 .. Len(b[l]) : Undoes(L, Span(f, t, l), f.data, n, b[l][n])
               /\ \A n \in t.buffers[l].dirty : \E k \in Span(f, t, l) : L[k].page = n
    BY <1>1 DEF Logged, Nested
  <2> SUFFICES ASSUME NEW l \in 1 .. Top(u)
               PROVE  /\ u.buffers[l].start <= Len(LogAt(g, u.offset))
                      /\ \A m \in 1 .. Top(u) : l <= m => u.buffers[l].start <= u.buffers[m].start
                      /\ Len(d[l]) <= u.offset
                      /\ \A n \in 1 .. Len(d[l]) : Undoes(LogAt(g, u.offset), Span(g, u, l), g.data, n, d[l][n])
                      /\ \A n \in u.buffers[l].dirty : \E k \in Span(g, u, l) : LogAt(g, u.offset)[k].page = n
    BY DEF Nested
  <2>2. LogAt(g, u.offset) = L /\ l \in 1 .. T - 1 /\ l \in 1 .. T BY <1>0, <1>2, <1>8
  <2>3. Span(f, t, T) \subseteq Span(f, t, l)
    <3>0. l \in 1 .. T /\ T \in 1 .. T /\ l <= T BY <2>2, <1>0
    <3>4. \A m \in 1 .. T : l <= m => t.buffers[l].start <= t.buffers[m].start BY <2>1, <3>0
    <3>1. l <= T /\ t.buffers[l].start <= t.buffers[T].start BY <3>0, <3>4
    <3>2. Span(f, t, T) = t.buffers[T].start + 1 .. Len(L) /\ Span(f, t, l) = t.buffers[l].start + 1 .. Len(L)
      BY DEF Span
    <3>3. t.buffers[T].start \in Nat BY <3>0, <1>0
    <3>5. t.buffers[l].start \in Nat BY <3>0, <1>0
    <3>6. Len(L) \in Nat BY <2>2, <1>0
    <3>7. ASSUME NEW p \in Nat, NEW q \in Nat, NEW r \in Nat, q <= p PROVE p + 1 .. r \subseteq q + 1 .. r
      BY <3>7
    <3>8. t.buffers[T].start + 1 .. Len(L) \subseteq t.buffers[l].start + 1 .. Len(L)
      <4> HIDE DEF L, T
      <4> QED BY <3>1, <3>3, <3>5, <3>6, <3>7
    <3> HIDE DEF L, T
    <3> QED BY <3>2, <3>8
  <2>4. ASSUME NEW n \in 1 .. Len(b[l]) PROVE Undoes(L, Span(f, t, l), g.data, n, b[l][n])
    <3>1. Undoes(L, Span(f, t, l), f.data, n, b[l][n]) /\ Len(b[l]) <= t.offset BY <2>1, <2>2
    <3>2. n \in 1 .. LastPage /\ n \in Nat /\ Len(b[l]) \in Nat BY <2>2, <1>0, ContentType
    <3>3. n <= t.offset BY <3>1, <3>2, <1>0
    <3>4. Undoes(L, Span(f, t, T), f.data, n, g.data[n]) BY <3>2, <3>3, <1>10
    <3> HIDE DEF L
    <3>5. CASE \E k \in Span(f, t, l) : L[k].page = n BY <3>1, <3>5 DEF Undoes
    <3>6. CASE ~\E k \in Span(f, t, l) : L[k].page = n
      <4>1. f.data[n] = b[l][n] BY <3>1, <3>6 DEF Undoes
      <4>2. g.data[n] = f.data[n] BY <3>4, <3>6, <2>3 DEF Undoes
      <4> QED BY <4>1, <4>2, <3>6 DEF Undoes
    <3> QED BY <3>5, <3>6
  <2>5. \A m \in 1 .. Top(u) : m \in 1 .. T - 1 /\ m \in 1 .. T BY <1>0, <1>2
  <2> HIDE DEF L
  <2> QED BY <2>1, <2>2, <2>4, <2>5, <1>2, <1>3, <1>9
<1>13. d[1] = c /\ u.buffers[1] = t.buffers[1] BY <1>0, <1>2, <1>3
<1>14. Logged(g, e.images, u, d) BY <1>1, <1>2, <1>6, <1>7, <1>11, <1>12, <1>13 DEF Logged
<1>15. Top(u) > 0 /\ g \in e.images /\ e.images \subseteq Files BY <1>0, <1>2, <1>7 DEF Imaged
<1>16. Writing(g, e.images, u, d)
  BY <1>2, <1>3, <1>5, <1>10, <1>14, <1>15 DEF Writing
<1> QED BY <1>16 DEF g

RolledTo(f, im, t, b, d, step, e) ==
    /\ Reaches(f, im, d, step, e) /\ Fits(step.txn) /\ Top(step.txn) = Top(t) - 1
    /\ Holds(e.file, step.txn, b[Top(t)])

(* rollback of a nested transaction.                                        *)
LEMMA RollbackReaches ==
    ASSUME NEW f, NEW im, NEW t, NEW b, Writing(f, im, t, b), Fits(t), Top(t) > 1,
           NEW d \in Seq(Contents), IsFront(b, d)
    PROVE  \E e : RolledTo(f, im, t, b, d, RollbackStep(t, f), e)
<1> DEFINE T == Top(t)
           u == Undone(t)
           ops == IF t.offset = 0 THEN <<>> ELSE RollbackOps(f, t, T)
           step == RollbackStep(t, f)
<1>0. /\ t \in Txns /\ T > 0 /\ T \in Nat /\ f \in Files /\ f \in im /\ Len(b) = T
      /\ T \in 1 .. T /\ 1 \in 1 .. T /\ 1 \in 1 .. T - 1 /\ b[T] \in Contents /\ b[1] \in Contents
      /\ im \in SUBSET Files
  BY WritingFields DEF Writing
<1>1. step = Step(u, ops) BY DEF RollbackStep, Undone, RollbackOps
<1>2. step.txn = u /\ step.ops = ops
  <2> HIDE DEF u, ops
  <2> QED BY <1>1, StepFields
<1>3. UndoSize(t) = Len(b[T]) /\ UndoSize(t) \in 1 .. LastPage BY <1>0, WritingUndoSize, ContentType
<1>4. HasUndone(t, Len(b[T]), u)
  <2> HIDE DEF u
  <2>1. u = Undone(t) BY DEF u
  <2>2. HasUndone(t, UndoSize(t), u) BY <2>1, <1>0, <1>3, TxnUndone
  <2> QED BY <2>2, <1>3
<1> HIDE DEF u, step, ops
<1>5. /\ u \in Txns /\ Top(u) = T - 1 /\ u.state = t.state /\ u.offset = t.offset /\ u.hole = t.hole
      /\ u.size = Len(b[T]) /\ \A l \in 1 .. T - 1 : u.buffers[l] = t.buffers[l]
  BY <1>4 DEF HasUndone, IsFront, Top
<1>6. Len(d) = T - 1 /\ (\A l \in 1 .. T - 1 : d[l] = b[l]) /\ d[1] = b[1] BY <1>0 DEF IsFront
<1>7. CASE t.offset = 0
  <2>1. /\ t.state = CLEAN /\ f.state = CLEAN /\ (\A i \in im : Settled(i, b[1]))
        /\ \A l \in 1 .. T : b[l] = b[1] /\ t.buffers[l] = Buffer(0)
    BY <1>7 DEF Writing, Fresh
  <2>2. \A l \in 1 .. T - 1 : l \in 1 .. T BY <1>0
  <2>3. \A l \in 1 .. Top(u) : d[l] = d[1] /\ u.buffers[l] = Buffer(0)
    BY <2>1, <2>2, <1>5, <1>6
  <2>4. Fresh(f, im, u, d) BY <2>1, <2>3, <1>5, <1>6 DEF Fresh
  <2>5. ASSUME NEW l \in 1 .. Top(u)
        PROVE Len(d[l]) = IF u.buffers[l].undo # <<>> THEN u.buffers[l].undo[1]
                      ELSE IF l = Top(u) THEN u.size ELSE Len(d[l + 1])
    <3>1. u.buffers[l].undo = <<>> BY <2>3 DEF Buffer
    <3>2. d[l] = b[1] /\ b[T] = b[1] BY <2>1, <2>3, <1>0, <1>6
    <3>3. l # Top(u) => l + 1 \in 1 .. Top(u) BY <1>0, <1>5
    <3>4. l # Top(u) => d[l + 1] = b[1] BY <2>3, <3>3, <1>6
    <3> QED BY <3>1, <3>2, <3>4, <1>5
  <2>6. Top(u) > 0 /\ \A n \in 1 .. LastPage : f.data[n] \in Values BY <1>0, <1>5 DEF Writing
  <2>7. Writing(f, im, u, d) BY <2>4, <2>5, <2>6, <1>0, <1>5, <1>6, <1>7 DEF Writing
  <2>8. Fits(u) BY <1>5, <1>7 DEF Fits
  <2>9. Reaches(f, im, d, Step(u, <<>>), Disk(f, im)) BY <2>7, <2>8, StayReaches
  <2>10. ops = <<>> BY <1>7 DEF ops
  <2>11. Holds(f, u, b[T])
    <3>1. Settled(f, b[T]) BY <2>1, <1>0
    <3>2. \A n \in 1 .. Len(b[T]) : n \in 1 .. LastPage BY <1>0, ContentType
    <3>3. \A n \in 1 .. Len(b[T]) : n <= Len(b[T]) BY <1>0, ContentType
    <3> QED BY <3>1, <3>2, <3>3, <1>0, <1>5 DEF Holds, Settled
  <2> DEFINE e == Disk(f, im)
  <2>12. e.file = f BY DiskFields
  <2> HIDE DEF e
  <2>13. RolledTo(f, im, t, b, d, step, e) BY <2>8, <2>9, <2>10, <2>11, <2>12, <1>1, <1>2, <1>5 DEF RolledTo, e
  <2> QED BY <2>13 DEF step
<1>8. CASE t.offset # 0
  <2>1. PICK e : Leads(Disk(f, im), RollbackOps(f, t, T), e, {b[1]}) /\ RolledBack(f, t, b[1], T, e)
    BY <1>0, <1>8, RollLeads
  <2>2. ops = RollbackOps(f, t, T) BY <1>8 DEF ops
  <2>3. Writing(e.file, e.images, u, d) BY <2>1, <1>4, <1>8, RolledWriting
  <2>5. Fits(u)
    <3>1. Len(b[T]) <= t.offset BY <1>0, <1>8 DEF Writing, Logged, Nested
    <3> QED BY <3>1, <1>5 DEF Fits
  <2>4. Reaches(f, im, d, step, e) BY <2>1, <2>2, <2>3, <2>5, <1>2, <1>6 DEF Reaches
  <2>6. Holds(e.file, u, b[T])
    <3>1. \A n \in 1 .. Len(b[T]) : e.file.data[n] = b[T][n] BY <2>1, <1>0, <1>8, RolledContent
    <3> QED BY <3>1, <1>0, <1>5 DEF Holds
  <2>7. RolledTo(f, im, t, b, d, step, e) BY <2>4, <2>5, <2>6, <1>2, <1>5 DEF RolledTo
  <2> QED BY <2>7 DEF step
<1> QED BY <1>7, <1>8

-----------------------------------------------------------------------------
(* The ends of a transaction, and recovery.                                 *)
Done(e, c) == e.file.state = CLEAN /\ \A i \in e.images : Settled(i, c)

Finish(c) == <<SetLength(Len(c), 0), Sync>> \o Clean

(* Two plans of one operation.                                              *)
LEMMA PairConcat ==
    ASSUME NEW x, NEW y
    PROVE  <<x>> \o <<y>> = <<x, y>>
<1> DEFINE S == {x, y}
           s == <<x>>
           r == <<y>>
           z == <<x, y>>
<1>1. s \in Seq(S) /\ r \in Seq(S) /\ z \in Seq(S) /\ Len(s) = 1 /\ Len(r) = 1 /\ Len(z) = 2
      /\ s[1] = x /\ r[1] = y /\ z[1] = x /\ z[2] = y
  OBVIOUS
<1> HIDE DEF S, s, r, z
<1>2. s \o r \in Seq(S) /\ Len(s \o r) = 2 /\ (s \o r)[1] = x /\ (s \o r)[2] = y
  <2>1. s \o r \in Seq(S) /\ Len(s \o r) = Len(s) + Len(r)
        /\ \A i \in 1 .. Len(s) + Len(r) : (s \o r)[i] = IF i <= Len(s) THEN s[i] ELSE r[i - Len(s)]
    BY <1>1, ConcatProperties
  <2>2. 1 \in 1 .. Len(s) + Len(r) /\ 2 \in 1 .. Len(s) + Len(r) BY <1>1
  <2> QED BY <1>1, <2>1, <2>2
<1>3. \A i \in 1 .. Len(z) : z[i] = (s \o r)[i] BY <1>1, <1>2
<1>4. z = s \o r BY <1>1, <1>2, <1>3, SeqEqual
<1> QED BY <1>4 DEF s, r, z

(* The length is set and synced, and only then is the header clean.         *)
LEMMA FinishLeads ==
    ASSUME NEW f, NEW im, NEW cs, cs \subseteq Contents, NEW c, c \in cs, Crashable(Disk(f, im), cs),
           f.state \in Slots, Settled(Apply(f, SetLength(Len(c), 0)), c)
    PROVE  \E e : Leads(Disk(f, im), Finish(c), e, cs) /\ Done(e, c)
<1> DEFINE n == Len(c)
           o == SetLength(n, 0)
           g == Apply(f, o)
           d == Disk(g, im \union {g})
<1>0. /\ f \in im /\ im \subseteq Files /\ c \in Contents /\ n \in Nat
      /\ \A i \in im : \E x \in cs : Whole(i, x) \/ Undoable(i, x)
  <2>1. f \in im /\ im \subseteq Files /\ \A i \in im : \E x \in cs : Whole(i, x) \/ Undoable(i, x)
    BY CrashableDisk
  <2> QED BY <2>1, ContentType
<1>1. After(Disk(f, im), o) = d BY AfterLength
<1>2. g \in Files /\ g.state = f.state
  <2>1. Ends(f, n, g) BY <1>0, EndEffect
  <2> QED BY <2>1 DEF Ends
<1>3. Settled(g, c) OBVIOUS
<1> HIDE DEF g, n, o
<1>4. Crashable(d, cs)
  <2>1. NoLog(g) /\ g.state # CLEAN BY <1>0, <1>2, <1>3, SettledNoLog, StateCases
  <2>2. Whole(g, c) BY <1>3 DEF Whole
  <2> QED BY <2>1, <2>2, <1>0, <1>2, CrashableDisk
<1>5. Leads(Disk(f, im), <<o>>, d, cs) BY <1>1, <1>4, LeadsOne
<1>6. Leads(d, <<Sync>>, Disk(g, {g}), cs) BY <1>4, SyncLeads
<1>7. PICK e : Leads(Disk(g, {g}), Clean, e, cs) /\ Done(e, c)
  <2>1. \E e : /\ Leads(Disk(g, {g}), Clean, e, cs)
               /\ e.file.state = CLEAN /\ \A i \in e.images : Settled(i, c)
    BY <1>0, <1>2, <1>3, CleanLeads
  <2> QED BY <2>1 DEF Done
<1>8. Leads(Disk(f, im), (<<o>> \o <<Sync>>) \o Clean, e, cs)
  <2> HIDE DEF d
  <2> QED BY <1>5, <1>6, <1>7, LeadsThen
<1>9. Finish(c) = (<<o>> \o <<Sync>>) \o Clean
  <2>1. <<o>> \o <<Sync>> = <<o, Sync>> BY PairConcat
  <2> QED BY <2>1 DEF Finish, o, n
<1> QED BY <1>7, <1>8, <1>9

(* commit.                                                                  *)
LEMMA HoldsFresh ==
    ASSUME NEW f, NEW im, NEW t, NEW b, Writing(f, im, t, b), t.offset = 0, NEW c, Holds(f, t, c)
    PROVE  c = b[1] /\ t.state = CLEAN /\ f.state = CLEAN /\ \A i \in im : Settled(i, c)
<1>1. /\ t.state = CLEAN /\ f.state = CLEAN /\ (\A i \in im : Settled(i, b[1]))
      /\ \A l \in 1 .. Top(t) : b[l] = b[1] /\ t.buffers[l] = Buffer(0)
  BY DEF Writing, Fresh
<1>2. f \in im /\ b[1] \in Contents /\ Top(t) \in 1 .. Top(t) BY WritingFields
<1>3. c \in Contents /\ Len(c) = t.size /\ \A n \in 1 .. t.size : f.data[n] = c[n] BY DEF Holds
<1>4. Len(b[1]) = t.size
  <2>1. t.buffers[Top(t)].undo = <<>> BY <1>1, <1>2 DEF Buffer
  <2>2. Len(b[Top(t)]) = t.size BY <2>1, <1>2 DEF Writing
  <2> QED BY <2>2, <1>1, <1>2
<1>5. ASSUME NEW n \in 1 .. Len(c) PROVE c[n] = b[1][n]
  <2>1. n \in 1 .. LastPage /\ n \in Nat /\ n <= Len(b[1]) BY <1>3, <1>4, ContentType
  <2>2. Settled(f, b[1]) BY <1>1, <1>2
  <2> QED BY <2>1, <2>2, <1>3 DEF Settled
<1>6. c = b[1]
  <2>1. c \in Seq(Values) /\ b[1] \in Seq(Values) /\ Len(c) = Len(b[1]) BY <1>2, <1>3, <1>4, ContentType
  <2> QED BY <2>1, <1>5, SeqEqual
<1> QED BY <1>1, <1>6

(* A crash leaves the content before or after; at the end it is after.      *)
LEMMA CommitLeads ==
    ASSUME NEW f, NEW im, NEW t, NEW b, Writing(f, im, t, b), Fits(t), NEW w, Holds(f, t, w)
    PROVE  \E e : Leads(Disk(f, im), CommitPlan(t), e, {b[1], w}) /\ Done(e, w)
<1> DEFINE cs == {b[1], w}
<1>0. /\ f \in Files /\ t \in Txns /\ t.size \in Nat /\ t.offset \in Nat /\ b[1] \in Contents /\ w \in Contents
      /\ Len(w) = t.size /\ \A n \in 1 .. t.size : f.data[n] = w[n]
  BY WritingFields, TxnFields DEF Holds
<1>1. cs \subseteq Contents /\ w \in cs /\ b[1] \in cs BY <1>0
<1>2. Crashable(Disk(f, im), cs)
  <2>1. Crashable(Disk(f, im), {b[1]}) BY WritingCrashable
  <2> QED BY <2>1, CrashableMore
<1> HIDE DEF cs
<1>3. CASE t.offset = 0
  <2>1. w = b[1] /\ t.state = CLEAN /\ f.state = CLEAN /\ \A i \in im : Settled(i, w)
    BY <1>3, HoldsFresh
  <2>2. CommitPlan(t) = <<>> BY <2>1 DEF CommitPlan
  <2>3. Leads(Disk(f, im), <<>>, Disk(f, im), cs) BY <1>2, LeadsNone
  <2>4. Done(Disk(f, im), w) BY <2>1, DiskFields DEF Done
  <2> QED BY <2>2, <2>3, <2>4 DEF cs
<1>4. CASE t.offset # 0
  <2>1. /\ t.state \in Slots /\ f.state = t.state /\ Active(f) = t.offset /\ t.state # CLEAN
        /\ DOMAIN f.log \subseteq {t.offset} /\ t.size <= t.offset
    <3>1. t.state \in Slots /\ f.state = t.state /\ Active(f) = t.offset BY <1>4, WritingFields
    <3>2. t.state # CLEAN BY <3>1, StateCases
    <3>3. DOMAIN f.log \subseteq {t.offset} BY <1>4 DEF Writing, Logged, LogKept
    <3>4. t.size <= t.offset BY <1>4 DEF Fits
    <3> QED BY <3>1, <3>2, <3>3, <3>4
  <2> DEFINE g == Apply(f, SetLength(Len(w), 0))
  <2>2. Ends(f, Len(w), g) BY <1>0, EndEffect
  <2> HIDE DEF g
  <2>3. Settled(g, w)
    <3>1. g.length = <<Len(w), 0>> BY <2>2 DEF Ends
    <3>2. DOMAIN g.log = {} BY <2>1, <2>2, <1>0 DEF Ends
    <3>3. ASSUME NEW n \in 1 .. LastPage PROVE IF n <= Len(w) THEN g.data[n] = w[n] ELSE g.data[n] \in Values
      <4>1. g.data[n] = IF n > Len(w) THEN Zero ELSE f.data[n] BY <2>2 DEF Ends
      <4>2. n \in Nat /\ (n <= Len(w) => n \in 1 .. t.size) BY <1>0
      <4> QED BY <4>1, <4>2, <1>0, FileImageAssumption
    <3>4. Active(g) >= Len(w) BY <2>1, <2>2, <1>0 DEF Ends, Active
    <3> QED BY <3>1, <3>2, <3>3, <3>4 DEF Settled
  <2>4. CommitPlan(t) = Finish(w) BY <2>1, <1>0 DEF CommitPlan, Finish
  <2>5. \E e : Leads(Disk(f, im), Finish(w), e, cs) /\ Done(e, w)
    BY <2>1, <2>3, <1>1, <1>2, FinishLeads DEF g
  <2> QED BY <2>4, <2>5 DEF cs
<1> QED BY <1>3, <1>4

(* rollback of the outermost transaction.                                   *)
LEMMA OuterRollbackLeads ==
    ASSUME NEW f, NEW im, NEW t, NEW b, Writing(f, im, t, b), Top(t) = 1
    PROVE  \E e : Leads(Disk(f, im), OuterRollbackPlan(t, f), e, {b[1]}) /\ Done(e, b[1])
<1> DEFINE c == b[1]
           cs == {c}
           step == RollbackStep(t, f)
           ops == IF t.offset = 0 THEN <<>> ELSE RollbackOps(f, t, 1)
           u == Undone(t)
<1>0. /\ f \in Files /\ f \in im /\ im \in SUBSET Files /\ t \in Txns /\ t.offset \in Nat /\ c \in Contents /\ Len(c) \in Nat
      /\ 1 \in 1 .. Top(t) /\ Top(t) > 0
  BY WritingFields, TxnFields
<1>1. cs \subseteq Contents /\ c \in cs BY <1>0
<1>2. step.txn = u /\ step.ops = ops
  <2>1. step = Step(u, ops) BY DEF RollbackStep, Undone, RollbackOps
  <2> HIDE DEF u, ops
  <2> QED BY <2>1, StepFields
<1>3. u.size = Len(c)
  <2>1. UndoSize(t) = Len(c) BY WritingUndoSize
  <2>2. UndoSize(t) \in 1 .. LastPage BY <2>1, <1>0, ContentType
  <2>3. HasUndone(t, UndoSize(t), u) BY <2>2, <1>0, TxnUndone
  <2> QED BY <2>1, <2>3 DEF HasUndone
<1>4. OuterRollbackPlan(t, f) =
        ops \o (IF ApplyAll(f, ops).length # <<Len(c), 0>> THEN <<SetLength(Len(c), 0)>> ELSE <<>>)
            \o <<Sync>> \o (IF t.state # CLEAN THEN Clean ELSE <<>>)
  <2> HIDE DEF step, ops, u
  <2> QED BY <1>2, <1>3 DEF OuterRollbackPlan, step
<1> HIDE DEF step, u
<1>5. Crashable(Disk(f, im), cs) BY WritingCrashable
<1>6. CASE t.offset = 0
  <2>1. /\ t.state = CLEAN /\ f.state = CLEAN /\ (\A i \in im : Settled(i, c))
    BY <1>6 DEF Writing, Fresh
  <2>2. ops = <<>> BY <1>6
  <2>3. ApplyAll(f, <<>>) = f
    <3>1. Leads(Disk(f, im), <<>>, Disk(f, im), cs) BY <1>5, LeadsNone
    <3> QED BY <3>1, LeadsEnd, DiskFields
  <2>4. f.length = <<Len(c), 0>> BY <2>1, <1>0 DEF Settled
  <2> HIDE DEF ops
  <2>5. OuterRollbackPlan(t, f) = <<Sync>>
    <3>1. (IF ApplyAll(f, ops).length # <<Len(c), 0>> THEN <<SetLength(Len(c), 0)>> ELSE <<>>) = <<>>
      BY <2>2, <2>3, <2>4
    <3>2. (IF t.state # CLEAN THEN Clean ELSE <<>>) = <<>> BY <2>1
    <3>3. OuterRollbackPlan(t, f) = <<>> \o <<>> \o <<Sync>> \o <<>> BY <1>4, <2>2, <3>1, <3>2
    <3>4. <<Sync>> \in Seq({Sync}) /\ <<>> \in Seq({Sync}) OBVIOUS
    <3>5. <<>> \o <<>> = <<>> BY <3>4, ConcatEmptySeq
    <3>6. <<>> \o <<Sync>> = <<Sync>> BY <3>4, ConcatEmptySeq
    <3>7. <<Sync>> \o <<>> = <<Sync>> BY <3>4, ConcatEmptySeq
    <3> QED BY <3>3, <3>5, <3>6, <3>7
  <2>6. Leads(Disk(f, im), <<Sync>>, Disk(f, {f}), cs) BY <1>1, <1>5, SyncLeads
  <2>7. Done(Disk(f, {f}), c) BY <2>1, <1>0, DiskFields DEF Done
  <2> QED BY <2>5, <2>6, <2>7
<1>7. CASE t.offset # 0
  <2>1. PICK d : Leads(Disk(f, im), RollbackOps(f, t, 1), d, {c}) /\ RolledBack(f, t, c, 1, d)
    BY <1>0, <1>7, RollLeads
  <2>2. ops = RollbackOps(f, t, 1) BY <1>7
  <2> HIDE DEF ops
  <2>3. Leads(Disk(f, im), ops, d, cs) /\ d = Disk(d.file, d.images) BY <2>1, <2>2 DEF RolledBack
  <2> DEFINE h == d.file
  <2>4. ApplyAll(f, ops) = h BY <2>3, LeadsEnd, DiskFields
  <2>5. /\ h \in Files /\ h.state = f.state /\ h.offset = f.offset /\ h.length = f.length /\ h.log = f.log
    BY <2>1 DEF RolledBack, SameHeader
  <2>6. /\ f.state = t.state /\ t.state \in Slots /\ t.state # CLEAN /\ Active(f) = t.offset
    BY <1>7, WritingFields, StateCases
  <2>7. Len(c) < t.offset /\ f.length[1] = t.offset /\ DOMAIN f.log \subseteq {t.offset}
    BY <1>7 DEF Writing, Logged, LogKept
  <2>8. h.length # <<Len(c), 0>> BY <2>5, <2>7, <1>0
  <2>9. \A n \in 1 .. Len(c) : h.data[n] = c[n] BY <2>1, <1>0, <1>7, RolledContent
  <2> HIDE DEF h
  <2>10. OuterRollbackPlan(t, f) = ops \o Finish(c)
    <3>1. OuterRollbackPlan(t, f) = ops \o <<SetLength(Len(c), 0)>> \o <<Sync>> \o Clean
      BY <2>4, <2>6, <2>8, <1>4
    <3>2. <<SetLength(Len(c), 0), Sync>> = <<SetLength(Len(c), 0)>> \o <<Sync>> BY PairConcat
    <3> DEFINE o == <<SetLength(Len(c), 0)>>
    <3>3. IsPlan(ops) /\ IsPlan(o) /\ IsPlan(<<Sync>>) /\ IsPlan(Clean)
      <4>1. IsPlan(ops) BY <2>3 DEF Leads
      <4>2. IsPlan(Clean)
        <5>1. Clean = <<SetState(CLEAN)>> \o <<Sync>> \o <<SetSize(0)>> \o <<SetOffset(USE_FIRST, 0)>>
                   \o <<SetOffset(USE_SECOND, 0)>> \o <<Sync>>
          BY DEF Clean
        <5> QED BY <5>1, PlanType
      <4> QED BY <4>1, <4>2, PlanType
    <3> HIDE DEF o
    <3>4. PICK S : ops \in Seq(S) /\ o \in Seq(S) /\ <<Sync>> \in Seq(S) /\ Clean \in Seq(S)
      <4>1. PICK P, Q, R, T : ops \in Seq(P) /\ o \in Seq(Q) /\ <<Sync>> \in Seq(R) /\ Clean \in Seq(T)
        BY <3>3 DEF IsPlan
      <4> DEFINE U == P \union Q \union R \union T
      <4>2. P \subseteq U /\ Q \subseteq U /\ R \subseteq U /\ T \subseteq U OBVIOUS
      <4> HIDE DEF U
      <4>3. ops \in Seq(U) /\ o \in Seq(U) /\ <<Sync>> \in Seq(U) /\ Clean \in Seq(U)
        BY <4>1, <4>2, SeqMonotonic
      <4> QED BY <4>3
    <3>5. ((ops \o o) \o <<Sync>>) \o Clean = ops \o ((o \o <<Sync>>) \o Clean)
      <4>1. (ops \o o) \o <<Sync>> = ops \o (o \o <<Sync>>) BY <3>4, ConcatAssociative
      <4>2. o \o <<Sync>> \in Seq(S) BY <3>4, ConcatProperties
      <4> DEFINE q == o \o <<Sync>>
      <4>3. (ops \o q) \o Clean = ops \o (q \o Clean)
        <5> HIDE DEF q, o
        <5> QED BY <3>4, <4>2, ConcatAssociative DEF q
      <4> QED BY <4>1, <4>3
    <3> QED BY <3>1, <3>2, <3>5 DEF Finish, o
  <2> DEFINE g == Apply(h, SetLength(Len(c), 0))
  <2>11. Ends(h, Len(c), g) BY <2>5, <1>0, EndEffect
  <2> HIDE DEF g
  <2>12. Settled(g, c)
    <3>1. g.length = <<Len(c), 0>> BY <2>11 DEF Ends
    <3>2. DOMAIN g.log = {} BY <2>5, <2>7, <2>11, <1>0 DEF Ends
    <3>3. ASSUME NEW n \in 1 .. LastPage PROVE IF n <= Len(c) THEN g.data[n] = c[n] ELSE g.data[n] \in Values
      <4>1. g.data[n] = IF n > Len(c) THEN Zero ELSE h.data[n] BY <2>11 DEF Ends
      <4>2. n \in Nat /\ (n <= Len(c) => n \in 1 .. Len(c)) BY <1>0
      <4> QED BY <4>1, <4>2, <2>9, <1>0, FileImageAssumption
    <3>4. Active(g) = t.offset
      <4>1. g.state = h.state /\ g.offset = h.offset BY <2>11 DEF Ends
      <4> QED BY <4>1, <2>5, <2>6 DEF Active
    <3>5. Active(g) >= Len(c) BY <3>4, <2>7, <1>0
    <3> QED BY <3>1, <3>2, <3>3, <3>5 DEF Settled
  <2>13. Crashable(Disk(h, d.images), cs) BY <2>3, LeadsEnd DEF h
  <2>14. \E e : Leads(Disk(h, d.images), Finish(c), e, cs) /\ Done(e, c)
    <3>1. h.state \in Slots BY <2>5, <2>6
    <3> DEFINE jm == d.images
    <3>2. Crashable(Disk(h, jm), cs) /\ Settled(Apply(h, SetLength(Len(c), 0)), c) BY <2>12, <2>13 DEF g
    <3> HIDE DEF jm, c, cs
    <3>3. \E e : Leads(Disk(h, jm), Finish(c), e, cs) /\ Done(e, c) BY <3>1, <3>2, <1>1, FinishLeads
    <3> QED BY <3>3 DEF jm
  <2>15. PICK e : Leads(Disk(h, d.images), Finish(c), e, cs) /\ Done(e, c) BY <2>14
  <2>16. Leads(Disk(f, im), ops \o Finish(c), e, cs) BY <2>3, <2>15, LeadsThen DEF h
  <2> QED BY <2>10, <2>15, <2>16
<1> QED BY <1>6, <1>7

-----------------------------------------------------------------------------
(* A plan of one operation before one of two.                               *)
LEMMA TripleConcat ==
    ASSUME NEW x, NEW y, NEW z
    PROVE  <<x>> \o <<y, z>> = <<x, y, z>>
<1> DEFINE S == {x, y, z}
           s == <<x>>
           r == <<y, z>>
           q == <<x, y, z>>
<1>1. s \in Seq(S) /\ r \in Seq(S) /\ q \in Seq(S) /\ Len(s) = 1 /\ Len(r) = 2 /\ Len(q) = 3
      /\ s[1] = x /\ r[1] = y /\ r[2] = z /\ q[1] = x /\ q[2] = y /\ q[3] = z
  OBVIOUS
<1> HIDE DEF S, s, r, q
<1>2. s \o r \in Seq(S) /\ Len(s \o r) = 3 /\ (s \o r)[1] = x /\ (s \o r)[2] = y /\ (s \o r)[3] = z
  <2>1. s \o r \in Seq(S) /\ Len(s \o r) = Len(s) + Len(r)
        /\ \A i \in 1 .. Len(s) + Len(r) : (s \o r)[i] = IF i <= Len(s) THEN s[i] ELSE r[i - Len(s)]
    BY <1>1, ConcatProperties
  <2>2. 1 \in 1 .. Len(s) + Len(r) /\ 2 \in 1 .. Len(s) + Len(r) /\ 3 \in 1 .. Len(s) + Len(r) BY <1>1
  <2>3. 2 - 1 = 1 /\ 3 - 1 = 2 OBVIOUS
  <2> QED BY <1>1, <2>1, <2>2, <2>3
<1>3. \A i \in 1 .. Len(q) : q[i] = (s \o r)[i] BY <1>1, <1>2
<1>4. q = s \o r BY <1>1, <1>2, <1>3, SeqEqual
<1> QED BY <1>4 DEF s, r, q

(* The order in which plans are joined does not matter.                     *)
LEMMA PlanAssociative ==
    ASSUME NEW a, NEW b, NEW c, IsPlan(a), IsPlan(b), IsPlan(c)
    PROVE  (a \o b) \o c = a \o (b \o c)
<1>1. PICK P, Q, R : a \in Seq(P) /\ b \in Seq(Q) /\ c \in Seq(R) BY DEF IsPlan
<1> DEFINE U == P \union Q \union R
<1>2. P \subseteq U /\ Q \subseteq U /\ R \subseteq U OBVIOUS
<1> HIDE DEF U
<1>3. a \in Seq(U) /\ b \in Seq(U) /\ c \in Seq(U) BY <1>1, <1>2, SeqMonotonic
<1> QED BY <1>3, ConcatAssociative

(* init, when it finds a log.                                               *)
Recoverable(c) == {i \in Files : Undoable(i, c)}

(* The first record of a page holds what the page was.                      *)
LEMMA FirstsUndo ==
    ASSUME NEW f, NEW c \in Contents, f \in Files, Undoable(f, c), NEW k \in Firsts(f, Active(f), 0),
           Log(f)[k].page \in 1 .. Len(c)
    PROVE  Log(f)[k].old = c[Log(f)[k].page]
<1> DEFINE L == Log(f)
           R == Reading(f)
           n == L[k].page
<1>1. Undoes(L, R, f.data, n, c[n]) BY DEF Undoable
<1>2. k \in R /\ \A j \in 1 .. k - 1 : L[j].page # n BY DEF Firsts, Reading, Log
<1>3. R \subseteq Nat /\ \A j \in R : j >= 1 BY DEF Reading, Reads
<1>4. \A j \in R : j < k => L[j].page # n
  <2>1. \A j \in R : j < k => j \in 1 .. k - 1 BY <1>2, <1>3
  <2> QED BY <2>1, <1>2
<1>5. Undoes(L, R, f.data, n, L[k].old) BY <1>2, <1>4 DEF Undoes
<1> HIDE DEF L, R, n
<1>6. c[n] = L[k].old BY <1>1, <1>3, <1>5, UndoesOnce
<1> QED BY <1>6 DEF L, n

(* A page that recovery writes may be written in any image.                 *)
LEMMA RecoverableAllowed ==
    ASSUME NEW f, NEW c \in Contents, f \in Files, Undoable(f, c),
           NEW W, Rewrites(f, Active(f), 0, W)
    PROVE  Allowed(W, Recoverable(c), c)
<1> DEFINE A == Recoverable(c)
           L == Log(f)
<1>1. A \subseteq Files /\ \A i \in A : Undoable(i, c) BY DEF Recoverable
<1>2. ASSUME NEW m \in 1 .. Len(W), NEW i \in A, NEW h, PageLeft(i, W[m].page, W[m].value, h)
      PROVE  h \in A
  <2> DEFINE n == W[m].page
             v == W[m].value
  <2>1. PICK k \in Firsts(f, Active(f), 0) : W[m] = Undo(L[k]) BY DEF Rewrites, Log
  <2>2. n = L[k].page /\ v = L[k].old BY <2>1 DEF Undo, WritePage
  <2>3. i \in Files BY DEF Recoverable
  <2>4. h \in Files BY <1>2, <2>3 DEF PageLeft
  <2>5. n \in 1 .. Len(c) => v = c[n]
    <3>1. L[k].page \in 1 .. Len(c) => L[k].old = c[L[k].page] BY FirstsUndo
    <3> QED BY <2>2, <3>1
  <2>6. PageLeft(i, n, v, h) BY <1>2
  <2> HIDE DEF n, v
  <2>7. Undoable(i, c) BY DEF Recoverable
  <2>8. Undoable(h, c) BY <2>3, <2>5, <2>6, <2>7, PageUndoable
  <2> QED BY <2>4, <2>8 DEF Recoverable
<1> HIDE DEF A
<1>3. Allowed(W, A, c) BY <1>1, <1>2 DEF Allowed
<1> QED BY <1>3 DEF A

(* The pages of f that are undone.                                          *)
Restored(f, c, d) ==
    /\ d = Disk(d.file, d.images) /\ SameHeader(f, d.file)
    /\ \A n \in 1 .. Len(c) : d.file.data[n] = c[n]

(* The pages are restored, and a crash finds a file to restore again.       *)
LEMMA UndoLeads ==
    ASSUME NEW f, NEW im, f \in im, im \in SUBSET Files, NEW c \in Contents, Undoable(f, c), Guarded(f, im, c)
    PROVE  \E d : Leads(Disk(f, im), ApplyRollback(f, Active(f), 0), d, {c}) /\ Restored(f, c, d)
<1> DEFINE o == Active(f)
           L == Log(f)
           R == Reading(f)
           W == ApplyRollback(f, o, 0)
           A == Recoverable(c)
<1>0. /\ f \in Files /\ f.state \in Slots /\ f.state # CLEAN /\ o \in Nat /\ L \in Seq(Record) /\ R \subseteq 1 .. Len(L)
      /\ Len(c) \in Nat /\ ~NoLog(f) /\ Len(L) \in Nat /\ 0 \in Nat /\ 0 <= Len(L)
  <2>1. f \in Files /\ f.state \in Slots /\ ~NoLog(f) BY DEF Undoable
  <2>2. o \in Nat /\ L \in Seq(Record) /\ f.state # CLEAN /\ R \subseteq 1 .. Len(L) BY <2>1, ActiveType
  <2> QED BY <2>1, <2>2, ContentType
<1>1. LogAt(f, o) = L /\ Reads(f, o, 0) = R BY DEF Log, Reading
<1>2. \A k \in Reads(f, o, 0) : LogAt(f, o)[k].crc BY <1>1 DEF Undoable
<1> HIDE DEF o, W, L, R
<1>3. Rewrites(f, o, 0, W) BY <1>0, <1>1, <1>2, RollbackWrites DEF W
<1>4. ASSUME NEW n \in 1 .. Len(c) PROVE Undoes(L, R, f.data, n, c[n]) /\ n \in 1 .. LastPage
  BY ContentType DEF Undoable, L, R
<1>5. CASE Covered(f) = {}
  <2>1. R = {} BY <1>0, <1>5 DEF Covered, R, L
  <2>2. W = <<>>
    <3>1. Firsts(f, o, 0) = {} BY <1>1, <2>1 DEF Firsts
    <3>2. W \in Seq({Undo(r) : r \in Record}) /\ \A m \in 1 .. Len(W) : FALSE BY <3>1, <1>3 DEF Rewrites
    <3> QED BY <3>2, EmptySeq
  <2> DEFINE cs == {c}
  <2>3. c \in cs OBVIOUS
  <2> HIDE DEF cs
  <2>4. Crashable(Disk(f, im), cs) BY <1>0, <2>3, GuardedCrashable
  <2> DEFINE d == Disk(f, im)
  <2>5. Leads(d, W, d, cs) BY <2>2, <2>4, LeadsNone
  <2>6. d.file = f /\ d = Disk(d.file, d.images) BY DiskFields
  <2>7. SameHeader(f, f) BY <1>0 DEF SameHeader
  <2>8. \A n \in 1 .. Len(c) : f.data[n] = c[n] BY <1>4, <2>1 DEF Undoes
  <2> HIDE DEF d
  <2>9. Restored(f, c, d) BY <2>6, <2>7, <2>8 DEF Restored
  <2> QED BY <2>5, <2>9 DEF d, cs, W, o
<1>6. CASE Covered(f) # {}
  <2>1. im \subseteq A BY <1>6 DEF Guarded, Recoverable
  <2>2. Allowed(W, A, c) BY <1>0, <1>3, RecoverableAllowed DEF o
  <2> HIDE DEF A
  <2>3. \E e : Leads(Disk(f, im), ApplyRollback(f, o, 0), e, {c}) /\ RestoredBy(f, o, 0, A, e)
    <3>1. Allowed(ApplyRollback(f, o, 0), A, c) BY <2>2 DEF W
    <3>2. 0 <= Len(LogAt(f, o)) BY <1>0, <1>1
    <3> DEFINE z == 0
    <3>3. z \in Nat /\ z <= Len(LogAt(f, o)) /\ Allowed(ApplyRollback(f, o, z), A, c)
          /\ \A k \in Reads(f, o, z) : LogAt(f, o)[k].crc
      BY <3>1, <3>2, <1>2
    <3> HIDE DEF z
    <3>4. \E e : Leads(Disk(f, im), ApplyRollback(f, o, z), e, {c}) /\ RestoredBy(f, o, z, A, e)
      BY <3>3, <2>1, <1>0, RestoreLeads
    <3> QED BY <3>4 DEF z
  <2>4. PICK e : Leads(Disk(f, im), ApplyRollback(f, o, 0), e, {c}) /\ RestoredBy(f, o, 0, A, e) BY <2>3
  <2>5. /\ e = Disk(e.file, e.images) /\ SameHeader(f, e.file)
        /\ \A p \in 1 .. LastPage : Undoes(L, R, f.data, p, e.file.data[p])
    BY <2>4, <1>1 DEF RestoredBy
  <2>6. ASSUME NEW n \in 1 .. Len(c) PROVE e.file.data[n] = c[n]
    <3>1. Undoes(L, R, f.data, n, c[n]) /\ Undoes(L, R, f.data, n, e.file.data[n]) BY <1>4, <2>5
    <3>2. R \subseteq Nat BY <1>0
    <3> DEFINE v == c[n]
               w == e.file.data[n]
               x == f.data
    <3>3. Undoes(L, R, x, n, v) /\ Undoes(L, R, x, n, w) BY <3>1
    <3> HIDE DEF v, w, x
    <3>4. w = v BY <3>2, <3>3, UndoesOnce
    <3> QED BY <3>4 DEF v, w
  <2>7. Restored(f, c, e) BY <2>5, <2>6 DEF Restored
  <2> QED BY <2>4, <2>7 DEF o
<1> QED BY <1>5, <1>6

(* init.                                                                    *)
LEMMA CleanIsPlan == IsPlan(Clean) /\ \A c : IsPlan(Finish(c))
<1>1. \A o : IsPlan(<<o>>) BY PlanType
<1>2. \A a, b : IsPlan(a) /\ IsPlan(b) => IsPlan(a \o b) BY PlanType
<1>3. IsPlan(Clean)
  <2>1. Clean = <<SetState(CLEAN)>> \o <<Sync>> \o <<SetSize(0)>> \o <<SetOffset(USE_FIRST, 0)>>
                   \o <<SetOffset(USE_SECOND, 0)>> \o <<Sync>>
    BY DEF Clean
  <2> QED BY <2>1, PlanType
<1>4. ASSUME NEW c PROVE IsPlan(Finish(c))
  <2>1. <<SetLength(Len(c), 0), Sync>> = <<SetLength(Len(c), 0)>> \o <<Sync>> BY PairConcat
  <2>2. IsPlan(<<SetLength(Len(c), 0), Sync>>) BY <2>1, PlanType
  <2> QED BY <1>3, <2>2, PlanType DEF Finish
<1> QED BY <1>3, <1>4

InitLeadsTo(f, im, cs, e, c) ==
    ~InitIsCorrupt(f) /\ c \in cs /\ Leads(Disk(f, im), InitPlan(f), e, cs) /\ Done(e, c)

(* A clean file is left as it is.                                           *)
LEMMA InitCleanLeads ==
    ASSUME NEW f, NEW im, NEW cs, Crashable(Disk(f, im), cs), f.state = CLEAN
    PROVE  \E e, c : InitLeadsTo(f, im, cs, e, c)
<1>1. PICK c \in cs : \A i \in im : Settled(i, c) BY CrashableDisk
<1>2. InitPlan(f) = <<>> /\ ~InitIsCorrupt(f) BY DEF InitPlan, InitIsCorrupt
<1>3. Leads(Disk(f, im), <<>>, Disk(f, im), cs) BY LeadsNone
<1>4. Done(Disk(f, im), c) BY <1>1, DiskFields DEF Done
<1>5. InitLeadsTo(f, im, cs, Disk(f, im), c) BY <1>1, <1>2, <1>3, <1>4 DEF InitLeadsTo
<1> QED BY <1>5

(* A header that names no log is cleaned.                                   *)
LEMMA InitNoLogLeads ==
    ASSUME NEW f, NEW im, NEW cs, cs \subseteq Contents, Crashable(Disk(f, im), cs),
           EmptyLog(f) => \E c \in cs : Settled(f, c), f.state # CLEAN, NoLog(f)
    PROVE  \E e, c : InitLeadsTo(f, im, cs, e, c)
<1>1. f \in im /\ im \subseteq Files /\ \A i \in im : \E c \in cs : Whole(i, c) \/ Undoable(i, c)
  BY CrashableDisk
<1>2. PICK c \in cs : Settled(f, c) BY <1>1 DEF Undoable, Whole, Stretched
<1>3. f \in Files /\ c \in Contents BY <1>1
<1>4. InitPlan(f) = <<Sync>> \o Clean /\ ~InitIsCorrupt(f) BY DEF InitPlan, InitIsCorrupt
<1>5. Leads(Disk(f, im), <<Sync>>, Disk(f, {f}), cs) BY SyncLeads
<1>6. PICK e : Leads(Disk(f, {f}), Clean, e, cs) /\ e.file.state = CLEAN /\ \A i \in e.images : Settled(i, c)
  BY <1>2, <1>3, CleanLeads
<1>7. Leads(Disk(f, im), <<Sync>> \o Clean, e, cs) BY <1>5, <1>6, LeadsThen
<1>8. InitLeadsTo(f, im, cs, e, c) BY <1>4, <1>6, <1>7 DEF InitLeadsTo, Done
<1> QED BY <1>8

(* With the length of the content the file is settled.                      *)
LEMMA RestoredSettles ==
    ASSUME NEW f \in Files, NEW c \in Contents, Undoable(f, c), NEW d, Restored(f, c, d),
           NEW g, g = Apply(d.file, SetLength(Len(c), 0))
    PROVE  d.file.state \in Slots /\ Settled(g, c)
<1> DEFINE h == d.file
           n == Len(c)
<1>1. /\ h \in Files /\ h.state = f.state /\ h.offset = f.offset /\ h.log = f.log
      /\ \A m \in 1 .. Len(c) : h.data[m] = c[m]
  BY DEF Restored, SameHeader
<1>2. n \in Nat /\ \A m \in 1 .. n : c[m] \in Values BY ContentType
<1>3. /\ f.state \in Slots /\ n < Active(f) /\ Active(f) \in Nat /\ \A at \in DOMAIN f.log : at > n
      /\ DOMAIN f.log \subseteq Nat
  BY ActiveType, LogsType, FilesType DEF Undoable
<1>4. Ends(h, n, g) BY <1>1, <1>2, EndEffect
<1> HIDE DEF h
<1>5. g.length = <<n, 0>> BY <1>4 DEF Ends
<1>6. DOMAIN g.log = {}
  <2>1. DOMAIN g.log = {a \in DOMAIN f.log : a < n} BY <1>1, <1>4 DEF Ends
  <2>2. \A a \in DOMAIN f.log : ~(a < n) BY <1>2, <1>3
  <2> QED BY <2>1, <2>2
<1>7. ASSUME NEW m \in 1 .. LastPage PROVE IF m <= n THEN g.data[m] = c[m] ELSE g.data[m] \in Values
  <2>1. g.data[m] = IF m > n THEN Zero ELSE h.data[m] BY <1>4 DEF Ends
  <2>2. m \in Nat /\ (m <= n => m \in 1 .. n) BY <1>2
  <2> QED BY <2>1, <2>2, <1>1, <1>2, FileImageAssumption
<1>8. Active(g) = Active(f) BY <1>1, <1>4 DEF Ends, Active
<1>9. Active(g) >= n BY <1>2, <1>3, <1>8
<1>10. Settled(g, c) BY <1>5, <1>6, <1>7, <1>9 DEF Settled
<1> QED BY <1>1, <1>3, <1>10 DEF h

(* A log in use is applied.                                                 *)
LEMMA InitLogLeads ==
    ASSUME NEW f, NEW im, NEW cs, cs \subseteq Contents, Crashable(Disk(f, im), cs),
           f.state # CLEAN, ~NoLog(f)
    PROVE  \E e, c : InitLeadsTo(f, im, cs, e, c)
<1>1. f \in im /\ im \subseteq Files /\ \E c \in cs : Undoable(f, c) /\ Guarded(f, im, c)
  BY CrashableDisk
<1>2. PICK c \in cs : Undoable(f, c) /\ Guarded(f, im, c) BY <1>1
<1>3. f \in Files /\ c \in Contents /\ {c} \subseteq cs /\ im \in SUBSET Files BY <1>1
<1>4. /\ \A k \in Reads(f, Active(f), 0) : LogAt(f, Active(f))[k].crc
      /\ f.size = Len(c) /\ Len(c) \in Nat /\ Len(c) >= 1
  BY <1>2, <1>3, ContentType DEF Undoable, Reading, Log
<1>5. ~InitIsCorrupt(f) BY <1>4 DEF InitIsCorrupt, RollbackIsCorrupt, Active
<1> DEFINE W == ApplyRollback(f, Active(f), 0)
           o == SetLength(Len(c), 0)
<1>6. InitPlan(f) = W \o <<Sync, o, Sync>> \o Clean BY <1>4, <1>5 DEF InitPlan, Active
<1>7. PICK d : Leads(Disk(f, im), W, d, {c}) /\ Restored(f, c, d) BY <1>1, <1>2, <1>3, UndoLeads
<1> HIDE DEF W
<1>8. Leads(Disk(f, im), W, d, cs) BY <1>3, <1>7, LeadsMore
<1> DEFINE h == d.file
           jm == d.images
<1>9. d = Disk(h, jm) BY <1>7 DEF Restored
<1>10. h.state \in Slots /\ Settled(Apply(h, o), c) BY <1>2, <1>3, <1>7, RestoredSettles
<1> HIDE DEF h, jm
<1>11. Crashable(Disk(h, jm), cs) BY <1>8, <1>9, LeadsEnd
<1> DEFINE im2 == {h}
<1>12. Leads(Disk(h, jm), <<Sync>>, Disk(h, im2), cs) BY <1>11, SyncLeads
<1>13. Crashable(Disk(h, im2), cs) BY <1>12, LeadsEnd
<1> HIDE DEF im2
<1>14. PICK e : Leads(Disk(h, im2), Finish(c), e, cs) /\ Done(e, c) BY <1>10, <1>13, FinishLeads
<1>15. Leads(Disk(h, jm), <<Sync>> \o Finish(c), e, cs) BY <1>12, <1>14, LeadsThen
<1>16. Leads(Disk(f, im), W \o (<<Sync>> \o Finish(c)), e, cs) BY <1>8, <1>9, <1>15, LeadsThen
<1>17. W \o <<Sync, o, Sync>> \o Clean = W \o (<<Sync>> \o Finish(c))
  <2> DEFINE P == <<o, Sync>>
  <2>1. <<Sync>> \o P = <<Sync, o, Sync>> BY TripleConcat
  <2>2. IsPlan(P)
    <3>1. <<o>> \o <<Sync>> = P BY PairConcat
    <3> QED BY <3>1, PlanType
  <2>3. IsPlan(W) /\ IsPlan(<<Sync>>) /\ IsPlan(Clean) BY <1>8, PlanType, CleanIsPlan DEF Leads
  <2>4. Finish(c) = P \o Clean BY DEF Finish
  <2> HIDE DEF P, o
  <2>5. (<<Sync>> \o P) \o Clean = <<Sync>> \o (P \o Clean) BY <2>2, <2>3, PlanAssociative
  <2>6. IsPlan(<<Sync>> \o P) BY <2>2, <2>3, PlanType
  <2> DEFINE Q == <<Sync>> \o P
  <2> HIDE DEF Q
  <2>7. (W \o Q) \o Clean = W \o (Q \o Clean) BY <2>3, <2>6, PlanAssociative DEF Q
  <2> QED BY <2>1, <2>4, <2>5, <2>7 DEF Q
<1>18. Leads(Disk(f, im), InitPlan(f), e, cs) BY <1>6, <1>16, <1>17
<1>19. InitLeadsTo(f, im, cs, e, c) BY <1>5, <1>14, <1>18 DEF InitLeadsTo
<1> QED BY <1>19

(* init leads from whatever a crash left to a clean file.                   *)
LEMMA InitLeads ==
    ASSUME NEW f, NEW im, NEW cs, cs \subseteq Contents, Crashable(Disk(f, im), cs),
           EmptyLog(f) => \E c \in cs : Settled(f, c)
    PROVE  \E e, c : InitLeadsTo(f, im, cs, e, c)
BY InitCleanLeads, InitNoLogLeads, InitLogLeads

-----------------------------------------------------------------------------
(* The locks.                                                               *)
WritePhases == {"opening", "beginning", "recovering", "writing", "committing", "rolling"}
Phases == {"closed", "failed", "idle", "upgrading", "relocking", "reading"} \union WritePhases

LockInv ==
    /\ lock \in [Process -> {"none", "read", "write"}]
    /\ phase \in [Process -> Phases]
    /\ plan = [p \in Process |-> plan[p]]
    /\ \A p \in Process : (lock[p] = "write" <=> phase[p] \in WritePhases)
                          /\ (lock[p] = "read" <=> phase[p] = "reading")
    /\ \A p, q \in Process : p # q /\ lock[p] = "write" => lock[q] = "none"
    /\ \A p \in Process : plan[p] # <<>> => lock[p] = "write"

(* What a call does to the locks.                                           *)
Steps(p, k, h, ops) ==
    /\ lock' = [lock EXCEPT ![p] = k]
    /\ phase' = [phase EXCEPT ![p] = h]
    /\ plan' = [plan EXCEPT ![p] = ops]

(* A lock is taken only when it may be.                                     *)
LEMMA StepsKeepLocks ==
    ASSUME LockInv, NEW p \in Process, NEW k \in {"none", "read", "write"}, NEW h \in Phases, NEW ops,
           Steps(p, k, h, ops),
           k = "write" <=> h \in WritePhases, k = "read" <=> h = "reading",
           k = "write" => \A q \in Process \ {p} : lock[q] = "none",
           k = "read" => \A q \in Process \ {p} : lock[q] # "write",
           ops # <<>> => k = "write"
    PROVE  LockInv'
<1>1. /\ lock' \in [Process -> {"none", "read", "write"}] /\ phase' \in [Process -> Phases]
      /\ plan' = [q \in Process |-> plan'[q]]
  BY DEF LockInv, Steps
<1>2. /\ lock'[p] = k /\ phase'[p] = h /\ plan'[p] = ops
      /\ \A q \in Process \ {p} : lock'[q] = lock[q] /\ phase'[q] = phase[q] /\ plan'[q] = plan[q]
  <2>1. p \in DOMAIN lock /\ p \in DOMAIN phase /\ p \in DOMAIN plan /\ DOMAIN lock = Process /\ DOMAIN phase = Process
        /\ DOMAIN plan = Process
    BY DEF LockInv
  <2> QED BY <2>1 DEF Steps
<1>3. \A q \in Process : (lock'[q] = "write" <=> phase'[q] \in WritePhases) /\ (lock'[q] = "read" <=> phase'[q] = "reading")
  BY <1>2 DEF LockInv
<1>4. ASSUME NEW r \in Process, NEW q \in Process, r # q, lock'[r] = "write" PROVE lock'[q] = "none"
  <2>1. CASE r = p BY <2>1, <1>2, <1>4
  <2>2. CASE q = p
    <3>1. lock[r] = "write" BY <2>2, <1>2, <1>4
    <3>2. k # "write" BY <3>1, <2>2, <1>4
    <3>3. k # "read" BY <3>1, <2>2, <1>4
    <3> QED BY <3>2, <3>3, <2>2, <1>2
  <2>3. CASE r # p /\ q # p BY <2>3, <1>2, <1>4 DEF LockInv
  <2> QED BY <2>1, <2>2, <2>3
<1>5. \A q \in Process : plan'[q] # <<>> => lock'[q] = "write" BY <1>2 DEF LockInv
<1> QED BY <1>1, <1>3, <1>4, <1>5 DEF LockInv

(* What stays, written as a step.                                           *)
LEMMA StaysStep ==
    ASSUME LockInv, NEW p \in Process
    PROVE  /\ lock = [lock EXCEPT ![p] = lock[p]]
           /\ phase = [phase EXCEPT ![p] = phase[p]]
           /\ plan = [plan EXCEPT ![p] = plan[p]]
           /\ lock[p] \in {"none", "read", "write"} /\ phase[p] \in Phases
           /\ lock[p] = "write" <=> phase[p] \in WritePhases
           /\ lock[p] = "read" <=> phase[p] = "reading"
           /\ lock[p] = "write" => \A q \in Process \ {p} : lock[q] = "none"
           /\ lock[p] = "read" => \A q \in Process \ {p} : lock[q] # "write"
           /\ plan[p] # <<>> => lock[p] = "write"
BY DEF LockInv

(* A process that dies gives its locks back.                                *)
LEMMA ForgetLocks ==
    ASSUME LockInv, NEW dead \in SUBSET Process, Forget(dead)
    PROVE  LockInv' /\ \A p \in Process : IF p \in dead THEN phase'[p] = "closed" /\ lock'[p] = "none" /\ plan'[p] = <<>>
                                          ELSE phase'[p] = phase[p] /\ lock'[p] = lock[p] /\ plan'[p] = plan[p]
<1>1. /\ lock' = [p \in Process |-> IF p \in dead THEN "none" ELSE lock[p]]
      /\ phase' = [p \in Process |-> IF p \in dead THEN "closed" ELSE phase[p]]
      /\ plan' = [p \in Process |-> IF p \in dead THEN <<>> ELSE plan[p]]
  BY DEF Forget
<1>2. \A p \in Process : IF p \in dead THEN phase'[p] = "closed" /\ lock'[p] = "none" /\ plan'[p] = <<>>
                         ELSE phase'[p] = phase[p] /\ lock'[p] = lock[p] /\ plan'[p] = plan[p]
  BY <1>1
<1>3. /\ lock' \in [Process -> {"none", "read", "write"}] /\ phase' \in [Process -> Phases]
      /\ plan' = [q \in Process |-> plan'[q]]
  BY <1>1 DEF LockInv, Phases
<1>4. \A q \in Process : (lock'[q] = "write" <=> phase'[q] \in WritePhases) /\ (lock'[q] = "read" <=> phase'[q] = "reading")
  BY <1>2 DEF LockInv, WritePhases
<1>5. \A p, q \in Process : p # q /\ lock'[p] = "write" => lock'[q] = "none" BY <1>2 DEF LockInv
<1>6. \A q \in Process : plan'[q] # <<>> => lock'[q] = "write" BY <1>2 DEF LockInv
<1> QED BY <1>2, <1>3, <1>4, <1>5, <1>6 DEF LockInv

(* Each call of a process takes a step.                                     *)
LEMMA CallSteps ==
    ASSUME LockInv, NEW p \in Process, Act(p), ~ProcessCrash(p)
    PROVE  LockInv'
<1>0. /\ lock = [lock EXCEPT ![p] = lock[p]]
      /\ phase = [phase EXCEPT ![p] = phase[p]]
      /\ plan = [plan EXCEPT ![p] = plan[p]]
      /\ lock[p] \in {"none", "read", "write"} /\ phase[p] \in Phases
      /\ lock[p] = "write" <=> phase[p] \in WritePhases
      /\ lock[p] = "read" <=> phase[p] = "reading"
      /\ lock[p] = "write" => \A q \in Process \ {p} : lock[q] = "none"
      /\ lock[p] = "read" => \A q \in Process \ {p} : lock[q] # "write"
      /\ plan[p] # <<>> => lock[p] = "write"
  BY StaysStep
<1>1. CASE FileOperation(p)
  <2>1. Steps(p, lock[p], phase[p], Tail(plan[p])) BY <1>0, <1>1 DEF FileOperation, Steps
  <2>2. lock[p] = "write" BY <1>0, <1>1 DEF FileOperation
  <2> QED BY <2>1, <2>2, <1>0, StepsKeepLocks
<1>2. ASSUME NEW place \in {"opening", "beginning", "recovering"}, StartInit(p, place) PROVE LockInv'
  <2>1. Steps(p, "write", place, InitPlan(file)) BY <1>2 DEF StartInit, Steps, Lock, Goto
  <2>2. \A q \in Process \ {p} : lock[q] = "none" BY <1>2 DEF StartInit, MayWrite
  <2>3. place \in Phases /\ place \in WritePhases /\ place # "reading" BY DEF Phases, WritePhases
  <2> QED BY <2>1, <2>2, <2>3, StepsKeepLocks
<1>3. CASE Opened(p) \/ Recovered(p) \/ EndRead(p) \/ EndWrite(p) \/ (Began(p) /\ corrupted)
  <2>1. PICK h \in {"failed", "idle", "relocking"} : Steps(p, "none", h, plan[p])
    BY <1>0, <1>3 DEF Opened, Recovered, EndRead, EndWrite, Began, Steps, Lock, Goto
  <2>2. plan[p] = <<>> BY <1>0, <1>3 DEF Opened, Recovered, EndRead, EndWrite, Began, WritePhases
  <2>3. h \in Phases /\ h \notin WritePhases /\ h # "reading" BY DEF Phases, WritePhases
  <2> QED BY <2>1, <2>2, <2>3, StepsKeepLocks
<1>4. CASE Began(p) /\ ~corrupted
  <2>1. Steps(p, lock[p], "writing", plan[p]) BY <1>0, <1>4 DEF Began, Steps, Goto
  <2>2. lock[p] = "write" /\ "writing" \in Phases /\ "writing" \in WritePhases BY <1>0, <1>4 DEF Began, WritePhases, Phases
  <2> QED BY <2>1, <2>2, <1>0, StepsKeepLocks
<1>5. CASE (BeginRead(p) /\ file.state = CLEAN) \/ Relock(p)
  <2>1. Steps(p, "read", "reading", plan[p]) BY <1>0, <1>5 DEF BeginRead, Relock, Steps, Lock, Goto
  <2>2. phase[p] \in {"idle", "relocking"} /\ MayRead(p) BY <1>5 DEF BeginRead, Relock
  <2>3. plan[p] = <<>> BY <1>0, <2>2 DEF WritePhases
  <2>4. "reading" \in Phases /\ "reading" \notin WritePhases BY DEF Phases, WritePhases
  <2> QED BY <2>1, <2>2, <2>3, <2>4, StepsKeepLocks DEF MayRead
<1>6. CASE (BeginRead(p) /\ file.state # CLEAN) \/ BeginTimedOut(p)
  <2>1. PICK h \in {"upgrading", "idle"} : Steps(p, lock[p], h, plan[p])
    BY <1>0, <1>6 DEF BeginRead, BeginTimedOut, Steps, Lock, Goto
  <2>2. phase[p] \in {"idle", "upgrading", "relocking"} BY <1>6 DEF BeginRead, BeginTimedOut
  <2>3. lock[p] \notin {"write", "read"} BY <1>0, <2>2 DEF WritePhases
  <2>4. h \in Phases /\ h \notin WritePhases /\ h # "reading" BY DEF Phases, WritePhases
  <2> QED BY <2>1, <2>3, <2>4, <1>0, StepsKeepLocks
<1>7. ASSUME Ready(p), \E h \in {"writing", "committing", "rolling"} : \E ops : Steps(p, lock[p], h, ops) PROVE LockInv'
  <2>1. lock[p] = "write" BY <1>0, <1>7 DEF Ready, WritePhases
  <2>2. PICK h \in {"writing", "committing", "rolling"} : \E ops : Steps(p, lock[p], h, ops) BY <1>7
  <2>4. PICK ops : Steps(p, lock[p], h, ops) BY <2>2
  <2>3. h \in Phases /\ h \in WritePhases /\ h # "reading" BY DEF Phases, WritePhases
  <2> QED BY <2>1, <2>4, <2>3, <1>0, StepsKeepLocks
<1>8. ASSUME Ready(p), NEW ops, plan' = [plan EXCEPT ![p] = ops], lock' = lock, phase' = phase PROVE LockInv'
  <2>1. Steps(p, lock[p], "writing", ops) BY <1>0, <1>8 DEF Ready, Steps
  <2> QED BY <2>1, <1>7, <1>8
<1>9. CASE \E w \in Writes : Write(p, w[1], w[2], w[3]) BY <1>8, <1>9 DEF Write, Carry, Calling
<1>10. CASE \E n \in Sizes : SetFileLength(p, n) BY <1>8, <1>10 DEF SetFileLength, Carry, Calling
<1>11. CASE RollbackNested(p) BY <1>8, <1>11 DEF RollbackNested
<1>12. CASE BeginNested(p) \/ CommitNested(p)
  BY <1>0, <1>8, <1>12 DEF BeginNested, CommitNested, Calling
<1>13. CASE Commit(p) \/ Rollback(p)
  <2>1. \E h \in {"writing", "committing", "rolling"} : \E ops : Steps(p, lock[p], h, ops)
    BY <1>0, <1>13 DEF Commit, Rollback, Steps, Goto
  <2> QED BY <2>1, <1>7, <1>13 DEF Commit, Rollback
<1>14. CASE Open(p) \/ BeginWrite(p) \/ Recover(p) BY <1>2, <1>14 DEF Open, BeginWrite, Recover
<1> QED BY <1>1, <1>3, <1>4, <1>5, <1>6, <1>9, <1>10, <1>11, <1>12, <1>13, <1>14 DEF Act

(* Nobody holds a lock at first.                                            *)
LEMMA InitLocks == ASSUME Init PROVE LockInv
BY DEF Init, LockInv, Phases, WritePhases

(* One writer, or readers, in every state.                                  *)
LEMMA NextLocks == ASSUME LockInv, [Next]_vars PROVE LockInv'
<1>1. CASE UNCHANGED vars BY <1>1 DEF vars, LockInv
<1>2. CASE MachineCrash
  <2>1. Forget(Process) BY <1>2 DEF MachineCrash
  <2> QED BY <2>1, ForgetLocks
<1>3. ASSUME NEW p \in Process, ProcessCrash(p) PROVE LockInv'
  <2>1. Forget({p}) /\ {p} \in SUBSET Process BY <1>3 DEF ProcessCrash
  <2> QED BY <2>1, ForgetLocks
<1>4. ASSUME NEW p \in Process, Act(p) PROVE LockInv' BY <1>3, <1>4, CallSteps
<1> QED BY <1>1, <1>2, <1>4 DEF Next

-----------------------------------------------------------------------------
(* The transaction that a process is in: where its plan ends the file has   *)
(* the pages w[Len(w)], and a rollback from level l on restores b[l].       *)
Serves(e, t, w, cs, b) ==
    /\ cs = {b[1]} /\ w \in Seq(Contents) /\ Len(w) = Top(t)
    /\ \A l \in 2 .. Top(t) : b[l] = w[l - 1]
    /\ Writing(e.file, e.images, t, b) /\ Fits(t) /\ Holds(e.file, t, w[Len(w)])

Underway(f, im, ops, t, w, cs) ==
    \E e, b : Leads(Disk(f, im), ops, e, cs) /\ Serves(e, t, w, cs, b)

(* Between two calls.                                                       *)
LEMMA UnderwayNow ==
    ASSUME NEW f, NEW im, NEW t, NEW w, NEW cs, Underway(f, im, <<>>, t, w, cs)
    PROVE  \E b : Serves(Disk(f, im), t, w, cs, b)
<1>1. PICK e, b : Leads(Disk(f, im), <<>>, e, cs) /\ Serves(e, t, w, cs, b) BY DEF Underway
<1> DEFINE ops == <<>>
<1>2. Leads(Disk(f, im), ops, e, cs) /\ ops = <<>> BY <1>1
<1> HIDE DEF ops
<1>3. e = Disk(f, im) BY <1>2, LeadsEnd
<1> QED BY <1>1, <1>3

(* What follows from Serves by its definition.                              *)
LEMMA ServesFields ==
    ASSUME NEW f, NEW im, NEW t, NEW w, NEW cs, NEW b, Serves(Disk(f, im), t, w, cs, b)
    PROVE  /\ cs = {b[1]} /\ w \in Seq(Contents) /\ Len(w) = Top(t) /\ Len(w) > 0 /\ Len(w) \in Nat
           /\ \A l \in 2 .. Top(t) : b[l] = w[l - 1]
           /\ b \in Seq(Contents) /\ Len(b) = Top(t)
           /\ Writing(f, im, t, b) /\ Fits(t) /\ Holds(f, t, w[Len(w)])
           /\ w[Len(w)] \in Contents /\ Last(w) = w[Len(w)]
<1>1. Writing(f, im, t, b) /\ w \in Seq(Contents) /\ Len(w) = Top(t) BY DiskFields DEF Serves
<1>2. Top(t) > 0 /\ b \in Seq(Contents) /\ Len(b) = Top(t) BY <1>1 DEF Writing
<1>3. Len(w) \in 1 .. Len(w) /\ Len(w) \in Nat BY <1>1, <1>2
<1>4. w[Len(w)] \in Contents BY <1>1, <1>3
<1> QED BY <1>1, <1>2, <1>3, <1>4, LastOf, DiskFields DEF Serves

(* The first and the last element of a sequence that is given a new end.    *)
Replaced(w, x, u) ==
    /\ u \in Seq(Contents) /\ Len(u) = Len(w) /\ u[Len(w)] = x
    /\ \A l \in 1 .. Len(w) - 1 : u[l] = w[l]

(* The innermost content is replaced.                                       *)
LEMMA ReplacedEnd ==
    ASSUME NEW w \in Seq(Contents), Len(w) > 0, NEW x \in Contents
    PROVE  Replaced(w, x, Append(Front(w), x))
<1> DEFINE v == Front(w)
           u == Append(v, x)
<1>1. v \in Seq(Contents) /\ Len(v) = Len(w) - 1 /\ \A l \in 1 .. Len(v) : v[l] = w[l] BY FrontOf DEF IsFront
<1> HIDE DEF v
<1>2. u \in Seq(Contents) /\ Len(u) = Len(v) + 1 /\ u[Len(v) + 1] = x /\ \A l \in 1 .. Len(v) : u[l] = v[l]
  BY <1>1, LongerOf DEF IsLonger
<1> HIDE DEF u
<1>3. Len(u) = Len(w) /\ Len(v) + 1 = Len(w) BY <1>1, <1>2
<1>4. Replaced(w, x, u) BY <1>1, <1>2, <1>3 DEF Replaced
<1> QED BY <1>4 DEF u, v

(* A call that changes the file.                                            *)
LEMMA ServesChange ==
    ASSUME NEW f, NEW im, NEW t, NEW w, NEW cs, NEW b, Serves(Disk(f, im), t, w, cs, b),
           NEW step, NEW e, Reaches(f, im, b, step, e), Top(step.txn) = Top(t),
           NEW x, Holds(e.file, step.txn, x), NEW u, Replaced(w, x, u)
    PROVE  Underway(f, im, step.ops, step.txn, u, cs)
<1>1. /\ cs = {b[1]} /\ w \in Seq(Contents) /\ Len(w) = Top(t) /\ Len(w) > 0 /\ Len(w) \in Nat
      /\ \A l \in 2 .. Top(t) : b[l] = w[l - 1]
  BY ServesFields
<1>2. /\ Leads(Disk(f, im), step.ops, e, cs) /\ Writing(e.file, e.images, step.txn, b) /\ Fits(step.txn)
  BY <1>1 DEF Reaches
<1>3. /\ u \in Seq(Contents) /\ Len(u) = Top(step.txn) /\ u[Len(u)] = x
      /\ \A l \in 2 .. Top(step.txn) : b[l] = u[l - 1]
  BY <1>1 DEF Replaced
<1>4. Serves(e, step.txn, u, cs, b) BY <1>1, <1>2, <1>3 DEF Serves
<1> QED BY <1>2, <1>4 DEF Underway

(* What the caller expects.                                                 *)
ExpectedIn(f, old, first, last, v, step) ==
    [page \in 1 .. step.txn.size |->
        IF page \in first .. last THEN v
        ELSE IF page <= Len(old) THEN old[page]
        ELSE PageAt(ApplyAll(f, step.ops), page)]

(* The file has what the caller was promised.                               *)
LEMMA ExpectedHolds ==
    ASSUME NEW f, NEW im, NEW b, NEW step, NEW e, Reaches(f, im, b, step, e),
           NEW old, Len(old) \in Nat, NEW first \in Nat, NEW last \in Nat, NEW v,
           \A page \in 1 .. step.txn.size :
              e.file.data[page] = IF page \in first .. last THEN v
                                  ELSE IF page <= Len(old) THEN old[page] ELSE e.file.data[page]
    PROVE  Holds(e.file, step.txn, ExpectedIn(f, old, first, last, v, step))
<1> DEFINE t == step.txn
           g == e.file
           x == ExpectedIn(f, old, first, last, v, step)
<1>1. Writing(g, e.images, t, b) /\ Fits(t) /\ ApplyAll(f, step.ops) = g BY ReachesFile
<1>2. /\ t \in Txns /\ t.size \in 1 .. LastPage /\ t.size \in Nat /\ \A n \in 1 .. LastPage : g.data[n] \in Values
      /\ \A n \in 1 .. t.size : n \in 1 .. LastPage
  BY <1>1, WritingFields, TxnFields, FileImageAssumption DEF Writing
<1>3. ASSUME NEW n \in 1 .. t.size PROVE x[n] = g.data[n]
  <2>1. PageAt(g, n) = g.data[n]
    <3> DEFINE jm == e.images
    <3>1. Writing(g, jm, t, b) BY <1>1
    <3> HIDE DEF jm, t, g
    <3> QED BY <3>1, <1>1, PageInPlace
  <2>2. x[n] = IF n \in first .. last THEN v
               ELSE IF n <= Len(old) THEN old[n] ELSE PageAt(ApplyAll(f, step.ops), n)
    BY DEF ExpectedIn
  <2> QED BY <2>1, <2>2, <1>1
<1>4. x = [n \in 1 .. t.size |-> g.data[n]]
  <2>1. x = [n \in 1 .. t.size |-> x[n]] BY DEF ExpectedIn
  <2> HIDE DEF x
  <2> QED BY <2>1, <1>3
<1> HIDE DEF x, t, g
<1>5. x \in Seq(Values) /\ Len(x) = t.size BY <1>2, <1>4
<1>6. x \in Contents BY <1>2, <1>5 DEF Contents
<1>7. Holds(g, t, x) BY <1>3, <1>5, <1>6 DEF Holds
<1> QED BY <1>7 DEF x, t, g

(* set_length and write.                                                    *)
Carried(f, im, step, t, w, cs, x, n) ==
    /\ Underway(f, im, step.ops, step.txn, Append(Front(w), x), cs)
    /\ Replaced(w, x, Append(Front(w), x)) /\ x \in Contents /\ Len(x) = n

(* A call whose step reaches the content it promises.                       *)
LEMMA CarriedBy ==
    ASSUME NEW f, NEW im, NEW t, NEW w, NEW cs, NEW b, Serves(Disk(f, im), t, w, cs, b),
           NEW step, NEW e, Reaches(f, im, b, step, e), Top(step.txn) = Top(t),
           NEW x, Holds(e.file, step.txn, x)
    PROVE  Carried(f, im, step, t, w, cs, x, step.txn.size)
<1>1. w \in Seq(Contents) /\ Len(w) > 0 BY ServesFields
<1>2. x \in Contents /\ Len(x) = step.txn.size BY DEF Holds
<1>3. Replaced(w, x, Append(Front(w), x)) BY <1>1, <1>2, ReplacedEnd
<1> DEFINE u == Append(Front(w), x)
<1> HIDE DEF u
<1>4. Replaced(w, x, u) BY <1>3 DEF u
<1>5. Underway(f, im, step.ops, step.txn, u, cs) BY <1>4, ServesChange
<1> QED BY <1>2, <1>3, <1>5 DEF Carried, u

(* set_length, in a transaction.                                            *)
LEMMA SetLengthUnderway ==
    ASSUME NEW f, NEW im, NEW t, NEW w, NEW cs, Underway(f, im, <<>>, t, w, cs),
           NEW n \in 1 .. LastPage, n # t.size, NEW step, step = SetLengthStep(t, n, f)
    PROVE  /\ Carried(f, im, step, t, w, cs, ExpectedIn(f, Last(w), 1, 0, Zero, step), n)
           /\ w \in Seq(Contents) /\ Len(w) > 0 /\ Len(Last(w)) = t.size
<1>1. PICK b : Serves(Disk(f, im), t, w, cs, b) BY UnderwayNow
<1>2. /\ Writing(f, im, t, b) /\ Fits(t) /\ Holds(f, t, w[Len(w)]) /\ Last(w) = w[Len(w)]
      /\ w \in Seq(Contents) /\ Len(w) > 0
  BY <1>1, ServesFields
<1>3. PICK e : /\ Reaches(f, im, b, step, e) /\ step.txn.size = n /\ Top(step.txn) = Top(t)
               /\ \A m \in 1 .. t.size : m <= n => e.file.data[m] = f.data[m]
  BY <1>2, SetLengthReaches
<1> DEFINE old == Last(w)
           x == ExpectedIn(f, old, 1, 0, Zero, step)
<1>4. Len(old) = t.size /\ Len(old) \in Nat /\ \A m \in 1 .. t.size : f.data[m] = old[m]
  BY <1>2, WritingFields, TxnFields DEF Holds
<1>5. ASSUME NEW m \in 1 .. step.txn.size
      PROVE  e.file.data[m] = IF m \in 1 .. 0 THEN Zero
                              ELSE IF m <= Len(old) THEN old[m] ELSE e.file.data[m]
  <2>1. m \notin 1 .. 0 /\ m \in Nat /\ m <= n /\ m >= 1 BY <1>3
  <2>2. m <= Len(old) => m \in 1 .. t.size BY <2>1, <1>4
  <2> QED BY <2>1, <2>2, <1>3, <1>4
<1> HIDE DEF old
<1>6. Holds(e.file, step.txn, x)
  <2> DEFINE one == 1
             zero == 0
  <2>1. one \in Nat /\ zero \in Nat OBVIOUS
  <2>2. \A m \in 1 .. step.txn.size :
           e.file.data[m] = IF m \in one .. zero THEN Zero
                            ELSE IF m <= Len(old) THEN old[m] ELSE e.file.data[m]
    BY <1>5
  <2> HIDE DEF one, zero
  <2>3. Holds(e.file, step.txn, ExpectedIn(f, old, one, zero, Zero, step))
    BY <2>1, <2>2, <1>3, <1>4, ExpectedHolds
  <2> QED BY <2>3 DEF one, zero
<1> HIDE DEF x
<1>7. Carried(f, im, step, t, w, cs, x, step.txn.size) BY <1>1, <1>3, <1>6, CarriedBy
<1> QED BY <1>2, <1>3, <1>4, <1>7 DEF x, old

(* write, in a transaction.                                                 *)
LEMMA WriteUnderway ==
    ASSUME NEW f, NEW im, NEW t, NEW w, NEW cs, Underway(f, im, <<>>, t, w, cs),
           NEW n \in 1 .. LastPage, NEW v \in Values, NEW step, step = WriteStep(t, n, n, v, f)
    PROVE  /\ Carried(f, im, step, t, w, cs, ExpectedIn(f, Last(w), n, n, v, step), Larger(t.size, n))
           /\ w \in Seq(Contents) /\ Len(w) > 0 /\ Len(Last(w)) = t.size
<1>1. PICK b : Serves(Disk(f, im), t, w, cs, b) BY UnderwayNow
<1>2. /\ Writing(f, im, t, b) /\ Fits(t) /\ Holds(f, t, w[Len(w)]) /\ Last(w) = w[Len(w)]
      /\ w \in Seq(Contents) /\ Len(w) > 0
  BY <1>1, ServesFields
<1>3. PICK e : WroteBy(f, im, t, b, n, v, step, e) BY <1>2, WriteReaches
<1>4. /\ Reaches(f, im, b, step, e) /\ step.txn.size = Larger(t.size, n) /\ Top(step.txn) = Top(t)
      /\ e.file.data[n] = v /\ \A m \in 1 .. t.size : m # n => e.file.data[m] = f.data[m]
  BY <1>3 DEF WroteBy
<1> DEFINE old == Last(w)
           x == ExpectedIn(f, old, n, n, v, step)
<1>5. Len(old) = t.size /\ Len(old) \in Nat /\ n \in Nat /\ \A m \in 1 .. t.size : f.data[m] = old[m]
  BY <1>2, WritingFields, TxnFields, FileImageAssumption DEF Holds
<1>6. ASSUME NEW m \in 1 .. step.txn.size
      PROVE  e.file.data[m] = IF m \in n .. n THEN v
                              ELSE IF m <= Len(old) THEN old[m] ELSE e.file.data[m]
  <2>1. step.txn.size \in Nat BY <1>4, <1>5 DEF Larger
  <2>2. m \in Nat /\ m >= 1 /\ (m \in n .. n <=> m = n) BY <2>1, <1>5
  <2>3. m <= Len(old) => m \in 1 .. t.size BY <2>2, <1>5
  <2> QED BY <2>2, <2>3, <1>4, <1>5
<1> HIDE DEF old
<1>7. Holds(e.file, step.txn, x) BY <1>4, <1>5, <1>6, ExpectedHolds
<1> HIDE DEF x
<1>8. Carried(f, im, step, t, w, cs, x, step.txn.size) BY <1>1, <1>4, <1>7, CarriedBy
<1> QED BY <1>2, <1>4, <1>5, <1>8 DEF x, old

(* begin, commit and rollback of a nested transaction.                      *)
LEMMA ServesStay ==
    ASSUME NEW f, NEW im, NEW t, NEW w, NEW cs, NEW b, Serves(Disk(f, im), t, w, cs, b)
    PROVE  Underway(f, im, <<>>, t, w, cs)
<1>1. Writing(f, im, t, b) /\ cs = {b[1]} BY ServesFields
<1>2. Crashable(Disk(f, im), cs) BY <1>1, WritingCrashable
<1>3. Leads(Disk(f, im), <<>>, Disk(f, im), cs) BY <1>2, LeadsNone
<1> QED BY <1>3 DEF Underway

(* begin of a nested transaction.                                           *)
LEMMA NestUnderway ==
    ASSUME NEW f, NEW im, NEW t, NEW w, NEW cs, Underway(f, im, <<>>, t, w, cs),
           NEW u, u = Begun(t, IF t.offset = 0 THEN 0 ELSE f.length[2]), NEW r, r = Append(w, Last(w))
    PROVE  Underway(f, im, <<>>, u, r, cs)
<1>1. PICK b : Serves(Disk(f, im), t, w, cs, b) BY UnderwayNow
<1> DEFINE c == w[Len(w)]
           n == Len(w)
           d == Append(b, c)
<1>2. /\ cs = {b[1]} /\ w \in Seq(Contents) /\ n = Top(t) /\ n > 0 /\ n \in Nat
      /\ \A l \in 2 .. n : b[l] = w[l - 1]
      /\ b \in Seq(Contents) /\ Len(b) = n
      /\ Writing(f, im, t, b) /\ Fits(t) /\ Holds(f, t, c)
      /\ c \in Contents /\ Last(w) = c
  BY <1>1, ServesFields
<1>3. r = Append(w, c) BY <1>2
<1> HIDE DEF c
<1>4. d \in Seq(Contents) /\ IsLonger(b, c, d) BY <1>2, LongerOf
<1> HIDE DEF d
<1>5. Writing(f, im, u, d) /\ Fits(u) /\ Top(u) = Top(t) + 1 /\ u.size = t.size BY <1>2, <1>4, BeginWriting
<1>6. r \in Seq(Contents) /\ IsLonger(w, c, r) BY <1>2, <1>3, LongerOf
<1> HIDE DEF n
<1>7. /\ Len(r) = n + 1 /\ r[n + 1] = c /\ \A l \in 1 .. n : r[l] = w[l]
      /\ d[n + 1] = c /\ \A l \in 1 .. n : d[l] = b[l]
  BY <1>2, <1>4, <1>6 DEF IsLonger, n
<1>8. ASSUME NEW l \in 2 .. n + 1 PROVE d[l] = r[l - 1]
  <2>1. CASE l = n + 1
    <3>1. n \in 1 .. n /\ l - 1 = n BY <2>1, <1>2
    <3>2. r[n] = w[n] /\ w[n] = c BY <3>1, <1>7 DEF c, n
    <3> QED BY <2>1, <3>1, <3>2, <1>7
  <2>2. CASE l # n + 1
    <3>1. l \in 2 .. n /\ l \in 1 .. n /\ l - 1 \in 1 .. n BY <2>2, <1>2
    <3> QED BY <3>1, <1>2, <1>7
  <2> QED BY <2>1, <2>2
<1>9. d[1] = b[1] BY <1>2, <1>7
<1>10. Holds(f, u, c) BY <1>2, <1>5 DEF Holds
<1>11. Serves(Disk(f, im), u, r, cs, d)
  <2>1. /\ cs = {d[1]} /\ r \in Seq(Contents) /\ Len(r) = Top(u) /\ r[Len(r)] = c
        /\ \A l \in 2 .. Top(u) : d[l] = r[l - 1]
    BY <1>2, <1>5, <1>6, <1>7, <1>8, <1>9
  <2> QED BY <2>1, <1>5, <1>10, DiskFields DEF Serves
<1> QED BY <1>11, ServesStay

(* commit of a nested transaction.                                          *)
LEMMA MergeUnderway ==
    ASSUME NEW f, NEW im, NEW t, NEW w, NEW cs, Underway(f, im, <<>>, t, w, cs), Top(t) > 1,
           NEW u, u = Merged(t), NEW r, r = Append(SubSeq(w, 1, Len(w) - 2), Last(w))
    PROVE  Underway(f, im, <<>>, u, r, cs)
<1>1. PICK b : Serves(Disk(f, im), t, w, cs, b) BY UnderwayNow
<1> DEFINE c == w[Len(w)]
           n == Len(w)
           d == Front(b)
<1>2. /\ cs = {b[1]} /\ w \in Seq(Contents) /\ n = Top(t) /\ n > 1 /\ n \in Nat
      /\ \A l \in 2 .. n : b[l] = w[l - 1]
      /\ b \in Seq(Contents) /\ Len(b) = n
      /\ Writing(f, im, t, b) /\ Fits(t) /\ Holds(f, t, c)
      /\ c \in Contents /\ Last(w) = c
  BY <1>1, ServesFields
<1>3. r = Append(SubSeq(w, 1, Len(w) - 2), c) BY <1>2
<1> HIDE DEF c
<1>4. d \in Seq(Contents) /\ IsFront(b, d) BY <1>2, FrontOf
<1> HIDE DEF d
<1>5. Writing(f, im, u, d) /\ Fits(u) /\ Top(u) = Top(t) - 1 /\ u.size = t.size /\ d[1] = b[1]
  BY <1>2, <1>4, MergeWriting
<1>6. r \in Seq(Contents) /\ IsShorter(w, c, r) BY <1>2, <1>3, ShorterOf
<1> HIDE DEF n
<1>7. /\ Len(r) = n - 1 /\ r[n - 1] = c /\ (\A l \in 1 .. n - 2 : r[l] = w[l])
      /\ Len(d) = n - 1 /\ \A l \in 1 .. n - 1 : d[l] = b[l]
  <2>1. Len(d) = Len(b) - 1 /\ \A l \in 1 .. Len(d) : d[l] = b[l] BY <1>4 DEF IsFront
  <2>2. Len(r) = n - 1 /\ r[n - 1] = c /\ \A l \in 1 .. n - 2 : r[l] = w[l] BY <1>6 DEF IsShorter, n
  <2> QED BY <2>1, <2>2, <1>2
<1>8. ASSUME NEW l \in 2 .. n - 1 PROVE d[l] = r[l - 1]
  <2>1. l \in 1 .. n - 1 /\ l \in 2 .. n /\ l - 1 \in 1 .. n - 2 BY <1>2
  <2> QED BY <2>1, <1>2, <1>7
<1>9. Holds(f, u, c) BY <1>2, <1>5 DEF Holds
<1>10. Serves(Disk(f, im), u, r, cs, d)
  <2>1. /\ cs = {d[1]} /\ r \in Seq(Contents) /\ Len(r) = Top(u) /\ r[Len(r)] = c
        /\ \A l \in 2 .. Top(u) : d[l] = r[l - 1]
    BY <1>2, <1>5, <1>6, <1>7, <1>8
  <2> QED BY <2>1, <1>5, <1>9, DiskFields DEF Serves
<1> QED BY <1>10, ServesStay

(* Every record of a transaction that goes on can be read.                  *)
LEMMA NotCorrupt ==
    ASSUME NEW f, NEW im, NEW t, NEW b, Writing(f, im, t, b), t.offset # 0, NEW l \in 1 .. Top(t)
    PROVE  ~RollbackIsCorrupt(f, t.offset, t.buffers[l].start)
<1>1. /\ Reads(f, t.offset, t.buffers[l].start) \subseteq 1 .. Len(LogAt(f, t.offset))
      /\ \A k \in 1 .. Len(LogAt(f, t.offset)) : LogAt(f, t.offset)[k].crc
  BY WritingReads
<1> QED BY <1>1 DEF RollbackIsCorrupt

(* rollback of a nested transaction: its content is dropped.                *)
LEMMA RollbackUnderway ==
    ASSUME NEW f, NEW im, NEW t, NEW w, NEW cs, Underway(f, im, <<>>, t, w, cs), Top(t) > 1,
           NEW step, step = RollbackStep(t, f), NEW r, r = Front(w)
    PROVE  /\ Underway(f, im, step.ops, step.txn, r, cs)
           /\ ~(t.offset # 0 /\ RollbackIsCorrupt(f, t.offset, Last(t.buffers).start))
<1>1. PICK b : Serves(Disk(f, im), t, w, cs, b) BY UnderwayNow
<1> DEFINE n == Len(w)
           d == Front(b)
<1>2. /\ cs = {b[1]} /\ w \in Seq(Contents) /\ n = Top(t) /\ n > 1 /\ n \in Nat
      /\ \A l \in 2 .. n : b[l] = w[l - 1]
      /\ b \in Seq(Contents) /\ Len(b) = n
      /\ Writing(f, im, t, b) /\ Fits(t)
  BY <1>1, ServesFields
<1>3. d \in Seq(Contents) /\ IsFront(b, d) BY <1>2, FrontOf
<1> HIDE DEF d
<1>4. PICK e : RolledTo(f, im, t, b, d, step, e) BY <1>2, <1>3, RollbackReaches
<1>5. /\ Leads(Disk(f, im), step.ops, e, {d[1]}) /\ Writing(e.file, e.images, step.txn, d)
      /\ Fits(step.txn) /\ Top(step.txn) = Top(t) - 1 /\ Holds(e.file, step.txn, b[Top(t)])
  BY <1>4 DEF RolledTo, Reaches
<1>6. r \in Seq(Contents) /\ IsFront(w, r) BY <1>2, FrontOf
<1> HIDE DEF n
<1>7. /\ Len(r) = n - 1 /\ (\A l \in 1 .. n - 1 : r[l] = w[l])
      /\ Len(d) = n - 1 /\ \A l \in 1 .. n - 1 : d[l] = b[l]
  BY <1>2, <1>3, <1>6 DEF IsFront, n
<1>8. r[n - 1] = b[n] /\ d[1] = b[1]
  <2>1. n \in 2 .. n /\ n - 1 \in 1 .. n - 1 /\ 1 \in 1 .. n - 1 BY <1>2
  <2> QED BY <2>1, <1>2, <1>7
<1>9. ASSUME NEW l \in 2 .. n - 1 PROVE d[l] = r[l - 1]
  <2>1. l \in 1 .. n - 1 /\ l \in 2 .. n /\ l - 1 \in 1 .. n - 1 BY <1>2
  <2> QED BY <2>1, <1>2, <1>7
<1>10. Serves(e, step.txn, r, cs, d)
  <2>1. /\ cs = {d[1]} /\ r \in Seq(Contents) /\ Len(r) = Top(step.txn) /\ r[Len(r)] = b[Top(t)]
        /\ \A l \in 2 .. Top(step.txn) : d[l] = r[l - 1]
    BY <1>2, <1>5, <1>6, <1>7, <1>8, <1>9
  <2> QED BY <2>1, <1>5 DEF Serves
<1>11. Underway(f, im, step.ops, step.txn, r, cs) BY <1>2, <1>5, <1>8, <1>10 DEF Underway
<1>12. Last(t.buffers) = t.buffers[Top(t)] /\ Top(t) \in 1 .. Top(t)
  <2>1. Last(t.buffers) = t.buffers[Len(t.buffers)] BY LastOf
  <2>2. Top(t) \in 1 .. Top(t) BY <1>2
  <2> QED BY <2>1, <2>2 DEF Top
<1>13. ~(t.offset # 0 /\ RollbackIsCorrupt(f, t.offset, Last(t.buffers).start)) BY <1>2, <1>12, NotCorrupt
<1> QED BY <1>11, <1>13

(* commit and rollback of the outermost transaction.                        *)
LEMMA CommitUnderway ==
    ASSUME NEW f, NEW im, NEW t, NEW w, NEW cs, Underway(f, im, <<>>, t, w, cs), Top(t) < 2
    PROVE  /\ \E e : Leads(Disk(f, im), CommitPlan(t), e, cs \union {Last(w)}) /\ Done(e, Last(w))
           /\ Len(w) = 1 /\ w = <<Last(w)>> /\ Last(w) \in Contents
<1>1. PICK b : Serves(Disk(f, im), t, w, cs, b) BY UnderwayNow
<1> DEFINE c == w[Len(w)]
<1>2. /\ cs = {b[1]} /\ w \in Seq(Contents) /\ Len(w) = 1
      /\ Writing(f, im, t, b) /\ Fits(t) /\ Holds(f, t, c) /\ Last(w) = c /\ c \in Contents
  <2>1. /\ cs = {b[1]} /\ w \in Seq(Contents) /\ Len(w) = Top(t) /\ Len(w) > 0 /\ Len(w) \in Nat
        /\ \A l \in 2 .. Top(t) : b[l] = w[l - 1]
        /\ b \in Seq(Contents) /\ Len(b) = Top(t)
        /\ Writing(f, im, t, b) /\ Fits(t) /\ Holds(f, t, w[Len(w)])
        /\ w[Len(w)] \in Contents /\ Last(w) = w[Len(w)]
    BY <1>1, ServesFields
  <2> QED BY <2>1
<1>3. w = <<c>> BY <1>2
<1> HIDE DEF c
<1>4. \E e : Leads(Disk(f, im), CommitPlan(t), e, {b[1], c}) /\ Done(e, c) BY <1>2, CommitLeads
<1>5. cs \union {c} = {b[1], c} BY <1>2
<1> QED BY <1>2, <1>3, <1>4, <1>5

(* rollback of the outermost: the content before it is back.                *)
LEMMA AbandonUnderway ==
    ASSUME NEW f, NEW im, NEW t, NEW w, NEW cs, Underway(f, im, <<>>, t, w, cs), Top(t) < 2
    PROVE  /\ \E e, c : c \in cs /\ Leads(Disk(f, im), OuterRollbackPlan(t, f), e, cs) /\ Done(e, c)
           /\ ~(t.offset # 0 /\ RollbackIsCorrupt(f, t.offset, 0))
<1>1. PICK b : Serves(Disk(f, im), t, w, cs, b) BY UnderwayNow
<1>2. cs = {b[1]} /\ Writing(f, im, t, b) /\ 1 \in 1 .. Top(t) /\ Top(t) = 1
  <2>1. /\ cs = {b[1]} /\ Len(w) = Top(t) /\ Len(w) > 0 /\ Len(w) \in Nat /\ Writing(f, im, t, b)
    BY <1>1, ServesFields
  <2> QED BY <2>1
<1>3. PICK e : Leads(Disk(f, im), OuterRollbackPlan(t, f), e, {b[1]}) /\ Done(e, b[1]) BY <1>2, OuterRollbackLeads
<1>4. t.offset # 0 => t.buffers[1].start = 0 BY <1>2 DEF Writing, Logged
<1>5. t.offset # 0 => ~RollbackIsCorrupt(f, t.offset, t.buffers[1].start) BY <1>2, NotCorrupt
<1> QED BY <1>2, <1>3, <1>4, <1>5

-----------------------------------------------------------------------------
(* What the process that holds the lock alone is at.                        *)
Settling(f, im, ops, cs) ==
    \E e, c : c \in cs /\ Leads(Disk(f, im), ops, e, cs) /\ Done(e, c)

Committing(f, im, ops, w, cs) ==
    /\ Len(w) = 1 /\ Last(w) \in cs
    /\ \E e : Leads(Disk(f, im), ops, e, cs) /\ Done(e, Last(w))

Held(p) ==
    /\ phase[p] \in {"opening", "beginning", "recovering", "rolling"} => Settling(file, images, plan[p], possible)
    /\ phase[p] = "writing" => Underway(file, images, plan[p], txn, working, possible)
    /\ phase[p] = "committing" => Committing(file, images, plan[p], working, possible)

(* A log in use without records, whose length recovery keeps, is as long as *)
(* one of the contents.                                                     *)
Fitted(f, cs) == EmptyLog(f) => \E c \in cs : Settled(f, c)

FileInv ==
    /\ LockInv
    /\ ~corrupted
    /\ possible \subseteq Contents
    /\ (\A p \in Process : phase[p] \notin WritePhases) => Crashable(Disk(file, images), possible) /\ Fitted(file, possible)
    /\ \A p \in Process : Held(p)
    /\ (\A p \in Process : ~InWriteTransaction(p)) => txn = NoTxn /\ working = <<>>
    /\ \A p \in Process : phase[p] = "rolling" => working = <<>>

(* A process without the lock owes nothing,                                 *)
LEMMA HeldFree ==
    ASSUME NEW p, phase[p] \notin WritePhases
    PROVE  Held(p) /\ ~InWriteTransaction(p) /\ phase[p] # "rolling"
BY DEF Held, WritePhases, InWriteTransaction

(* and one with it is alone.                                                *)
LEMMA OneHolder ==
    ASSUME LockInv, NEW p \in Process, phase[p] \in WritePhases
    PROVE  \A q \in Process \ {p} : phase[q] \notin WritePhases
BY DEF LockInv

(* The invariant after a step of the process that holds the lock.           *)
LEMMA HolderInv ==
    ASSUME LockInv', NEW p \in Process, phase'[p] \in WritePhases, ~corrupted', possible' \subseteq Contents, Held(p)',
           InWriteTransaction(p)' \/ (txn' = NoTxn /\ working' = <<>>), phase'[p] = "rolling" => working' = <<>>
    PROVE  FileInv'
<1>1. \A q \in Process \ {p} : phase'[q] \notin WritePhases BY DEF LockInv
<1>2. \A q \in Process \ {p} : Held(q)' BY <1>1 DEF Held, WritePhases
<1>3. \A q \in Process \ {p} : phase'[q] # "rolling" BY <1>1 DEF WritePhases
<1>4. \A q \in Process : Held(q)' BY <1>2
<1>5. \A q \in Process : phase'[q] = "rolling" => working' = <<>> BY <1>3
<1>6. (\A q \in Process : ~InWriteTransaction(q)') => txn' = NoTxn /\ working' = <<>> OBVIOUS
<1>7. ~(\A q \in Process : phase'[q] \notin WritePhases) OBVIOUS
<1> QED BY <1>4, <1>5, <1>6, <1>7 DEF FileInv

(* The invariant when nobody holds it.                                      *)
LEMMA FreeInv ==
    ASSUME LockInv', \A p \in Process : phase'[p] \notin WritePhases, ~corrupted', possible' \subseteq Contents,
           Crashable(Disk(file', images'), possible'), Fitted(file', possible'), txn' = NoTxn, working' = <<>>
    PROVE  FileInv'
<1>1. \A q \in Process : Held(q)' BY DEF Held, WritePhases
<1>2. \A q \in Process : phase'[q] # "rolling" BY DEF WritePhases
<1> QED BY <1>1, <1>2 DEF FileInv

(* One more operation of the plan.                                          *)
Wanted(p, f, im, ops) ==
    /\ phase[p] \in {"opening", "beginning", "recovering", "rolling"} => Settling(f, im, ops, possible)
    /\ phase[p] = "writing" => Underway(f, im, ops, txn, working, possible)
    /\ phase[p] = "committing" => Committing(f, im, ops, working, possible)

(* The plan that is left leads to the same end.                             *)
LEMMA WantedNext ==
    ASSUME LengthsOrdered, NEW p, NEW f, NEW im, NEW ops, Wanted(p, f, im, ops), ops # <<>>
    PROVE  Wanted(p, Apply(f, Head(ops)), CrashImages(f, im, Head(ops)), Tail(ops))
<1> DEFINE g == Apply(f, Head(ops))
           jm == CrashImages(f, im, Head(ops))
           d == Disk(f, im)
<1>1. After(d, Head(ops)) = Disk(g, jm) BY AfterDisk, OrderedCrashes
<1>2. ASSUME NEW e, Leads(d, ops, e, possible) PROVE Leads(Disk(g, jm), Tail(ops), e, possible)
  <2> HIDE DEF d, g, jm
  <2>1. Leads(After(d, Head(ops)), Tail(ops), e, possible) BY <1>2, LeadsStep
  <2> QED BY <1>1, <2>1
<1> HIDE DEF g, jm
<1>3. Settling(f, im, ops, possible) => Settling(g, jm, Tail(ops), possible) BY <1>2 DEF Settling
<1>4. Underway(f, im, ops, txn, working, possible) => Underway(g, jm, Tail(ops), txn, working, possible)
  BY <1>2 DEF Underway
<1>5. Committing(f, im, ops, working, possible) => Committing(g, jm, Tail(ops), working, possible)
  BY <1>2 DEF Committing
<1> QED BY <1>3, <1>4, <1>5 DEF Wanted, g, jm

(* Held, of the file as it is.                                              *)
LEMMA HeldWanted == \A p : Held(p) <=> Wanted(p, file, images, plan[p])
BY DEF Held, Wanted

(* A process that holds the lock leaves a disk that may crash.              *)
LEMMA WantedCrashable ==
    ASSUME NEW p, NEW f, NEW im, NEW ops, Wanted(p, f, im, ops), phase[p] \in WritePhases
    PROVE  Crashable(Disk(f, im), possible)
<1> DEFINE d == Disk(f, im)
<1>1. PICK e : Leads(d, ops, e, possible)
  BY DEF Wanted, WritePhases, Settling, Underway, Committing
<1> HIDE DEF d
<1>2. Crashable(d, possible) BY <1>1, LeadsEnd
<1> QED BY <1>2 DEF d

(* A crash is harmless in every state.                                      *)
LEMMA FileCrashable ==
    ASSUME FileInv
    PROVE  Crashable(Disk(file, images), possible)
<1>1. CASE \A p \in Process : phase[p] \notin WritePhases BY <1>1 DEF FileInv
<1>2. CASE \E p \in Process : phase[p] \in WritePhases
  <2>1. PICK p \in Process : phase[p] \in WritePhases BY <1>2
  <2>2. Wanted(p, file, images, plan[p]) BY HeldWanted DEF FileInv
  <2> QED BY <2>1, <2>2, WantedCrashable
<1> QED BY <1>1, <1>2

(* What a crash of the machine leaves.                                      *)
LEMMA ImageCrashable ==
    ASSUME NEW f, NEW im, NEW cs, cs \subseteq Contents, Crashable(Disk(f, im), cs), NEW i \in im
    PROVE  i \in Files /\ Crashable(Disk(i, {i}), cs)
<1>1. i \in Files /\ \E c \in cs : Whole(i, c) \/ Undoable(i, c) BY CrashableDisk
<1>2. PICK c \in cs : Whole(i, c) \/ Undoable(i, c) BY <1>1
<1> DEFINE jm == {i}
<1>3. c \in Contents /\ i \in jm /\ jm \in SUBSET Files BY <1>1
<1>4. CASE Settled(i, c)
  <2>1. \A j \in jm : Settled(j, c) BY <1>4
  <2> HIDE DEF jm
  <2> QED BY <1>1, <1>3, <2>1, SettledCrashable DEF jm
<1>5. CASE Undoable(i, c) \/ Stretched(i, c)
  <2>1. Guarded(i, jm, c)
    <3>1. Stretched(i, c) => Covered(i) = {} BY <1>1, EmptyNoLog DEF Stretched
    <3> QED BY <1>5, <3>1 DEF Guarded, Whole
  <2>2. i.state # CLEAN BY <1>1, <1>5, StateCases DEF Undoable, Stretched, EmptyLog
  <2> HIDE DEF jm
  <2>3. Crashable(Disk(i, jm), cs) BY <1>3, <2>1, <2>2, GuardedCrashable
  <2> QED BY <1>1, <2>3 DEF jm
<1> QED BY <1>2, <1>4, <1>5 DEF Whole

(* What the next process finds.                                             *)
LEMMA DoneFound ==
    ASSUME NEW f, NEW im, NEW c \in Contents, f \in im, im \subseteq Files, Settled(f, c)
    PROVE  Content(f, Ceil(f.length)) = c /\ Ceil(f.length) = Len(c)
<1> DEFINE n == Len(c)
<1>1. f.length = <<n, 0>> /\ DOMAIN f.log = {} /\ n \in Nat /\ c \in Seq(Values) BY ContentType DEF Settled
<1>2. Ceil(f.length) = n BY <1>1, CeilOf
<1>3. ASSUME NEW m \in 1 .. n PROVE PageAt(f, m) = c[m]
  <2>1. m \in 1 .. LastPage /\ m <= n BY <1>1, ContentType
  <2>2. f.data[m] = c[m] BY <2>1 DEF Settled
  <2> QED BY <2>2, <1>1 DEF PageAt
<1>4. Content(f, n) = [m \in 1 .. n |-> c[m]] BY <1>3 DEF Content
<1>5. [m \in 1 .. n |-> c[m]] = c BY <1>1
<1> QED BY <1>2, <1>4, <1>5

(* A log in use without records makes the content longer.                   *)
LEMMA StretchedFound ==
    ASSUME NEW f \in Files, NEW c \in Contents, Stretched(f, c), Ceil(f.length) <= LastPage,
           NEW x, x = Content(f, Ceil(f.length))
    PROVE  x \in Contents /\ Settled(f, x)
<1> DEFINE n == Ceil(f.length)
<1>1. f.length = <<Active(f), 0>> /\ f.state \in Slots /\ Active(f) \in Nat
  BY EmptyNoLog, ActiveType DEF Stretched, EmptyLog, Active
<1>2. n = Active(f) /\ n \in Nat BY <1>1, CeilOf
<1>3. Len(c) \in 1 .. LastPage /\ LastPage \in Nat /\ \A m \in 1 .. Len(c) : c[m] \in Values
  BY ContentType, FileImageAssumption
<1>4. n \in 1 .. LastPage BY <1>2, <1>3 DEF Stretched
<1>5. ASSUME NEW m \in 1 .. LastPage PROVE f.data[m] \in Values /\ PageAt(f, m) = f.data[m]
  <2>1. IF m <= Len(c) THEN f.data[m] = c[m] ELSE f.data[m] \in Values BY DEF Stretched
  <2>2. m <= Len(c) => m \in 1 .. Len(c) BY <1>3
  <2>3. DOMAIN f.log = {} BY DEF Stretched
  <2> QED BY <1>3, <2>1, <2>2, <2>3 DEF PageAt
<1> HIDE DEF n
<1>6. x = [m \in 1 .. n |-> f.data[m]]
  <2>1. x = [m \in 1 .. n |-> PageAt(f, m)] BY DEF Content, n
  <2>2. \A m \in 1 .. n : m \in 1 .. LastPage BY <1>2, <1>3, <1>4
  <2> QED BY <2>1, <2>2, <1>5
<1>7. x \in Seq(Values) /\ Len(x) = n
  <2>1. \A m \in 1 .. n : f.data[m] \in Values BY <1>3, <1>4, <1>5
  <2> QED BY <1>2, <1>6, <2>1
<1>8. x \in Contents BY <1>4, <1>7 DEF Contents
<1>9. \A m \in 1 .. LastPage : IF m <= Len(x) THEN f.data[m] = x[m] ELSE f.data[m] \in Values
  BY <1>2, <1>5, <1>6, <1>7
<1>10. DOMAIN f.log = {} BY DEF Stretched
<1>11. Settled(f, x) BY <1>1, <1>2, <1>7, <1>9, <1>10 DEF Settled
<1> QED BY <1>8, <1>11

(* It goes on where the old content ends.                                   *)
LEMMA StretchedPrefix ==
    ASSUME NEW f \in Files, NEW c \in Contents, Stretched(f, c), NEW x \in Contents, Settled(f, x)
    PROVE  IsPrefix(c, x)
<1> DEFINE n == Len(c)
<1>1. /\ n \in Nat /\ Len(x) \in Nat /\ c \in Seq(Values) /\ x \in Seq(Values)
      /\ \A m \in 1 .. n : m \in 1 .. LastPage /\ m <= n /\ c[m] \in Values
  BY ContentType
<1>2. f.length = <<Active(f), 0>> /\ Active(f) = Len(x) /\ n <= Active(f)
  <2>1. f.length = <<Active(f), 0>> /\ n <= Active(f) BY DEF Stretched, EmptyLog, Active
  <2> QED BY <2>1 DEF Settled
<1>3. ASSUME NEW m \in 1 .. n PROVE x[m] = c[m]
  <2>1. m \in 1 .. LastPage /\ m <= n /\ m <= Len(x) BY <1>1, <1>2
  <2>2. f.data[m] = c[m] BY <2>1 DEF Stretched
  <2>3. f.data[m] = x[m] BY <2>1 DEF Settled
  <2> QED BY <2>2, <2>3
<1> HIDE DEF n
<1>4. SubSeq(c, 1, n) = [m \in 1 .. n |-> c[m]] /\ SubSeq(x, 1, n) = [m \in 1 .. n |-> x[m]] BY <1>1, <1>2
<1>5. [m \in 1 .. n |-> c[m]] = [m \in 1 .. n |-> x[m]] BY <1>3
<1> QED BY <1>2, <1>4, <1>5 DEF IsPrefix, n

(* What is left of an abandoned transaction has a content that is allowed.  *)
LEMMA AbandonedFits ==
    ASSUME LongerAllowed, possible \subseteq Contents, NEW dead, NEW left \in Files, Abandoned(dead, left),
           \E c \in possible : Whole(left, c) \/ Undoable(left, c)
    PROVE  /\ possible \subseteq possible' /\ possible' \subseteq Contents
           /\ \A x \in possible' \ possible : EmptyLog(left) /\ \E old \in possible : IsPrefix(old, x)
           /\ (\A q \in Process \ dead : lock[q] # "write") => Fitted(left, possible')
<1> DEFINE x == Content(left, Ceil(left.length))
<1>1. possible' = possible \/ possible' = possible \union FoundLonger(left) BY DEF Abandoned
<1>2. (\A q \in Process \ dead : lock[q] # "write") => possible' = possible \union FoundLonger(left)
  BY DEF Abandoned
<1>3. FoundLonger(left) = IF EmptyLog(left) /\ \E old \in possible : IsPrefix(old, x) THEN {x} ELSE {}
  BY DEF FoundLonger
<1>4. ASSUME EmptyLog(left)
      PROVE  x \in Contents /\ Settled(left, x) /\ (x \in possible \/ \E old \in possible : IsPrefix(old, x))
  <2>1. PICK c \in possible : Whole(left, c) \/ Undoable(left, c) OBVIOUS
  <2>2. Whole(left, c) BY <1>4, <2>1, EmptyNoLog DEF Undoable
  <2>3. CASE Settled(left, c)
    <3>1. left \in {left} /\ {left} \subseteq Files /\ c \in Contents OBVIOUS
    <3>2. x = c BY <2>3, <3>1, DoneFound
    <3> QED BY <2>3, <3>1, <3>2
  <2>4. CASE Stretched(left, c)
    <3>1. Ceil(left.length) <= LastPage /\ c \in Contents BY <1>4 DEF Abandoned
    <3>2. x \in Contents /\ Settled(left, x) BY <2>4, <3>1, StretchedFound
    <3>3. IsPrefix(c, x) BY <2>4, <3>1, <3>2, StretchedPrefix
    <3> QED BY <3>2, <3>3
  <2> QED BY <2>2, <2>3, <2>4 DEF Whole
<1> HIDE DEF x
<1>5. (\A q \in Process \ dead : lock[q] # "write") => Fitted(left, possible')
  BY <1>2, <1>3, <1>4 DEF Fitted
<1> QED BY <1>1, <1>3, <1>4, <1>5

(* When the plan is done the file has one of the contents.                  *)
LEMMA SettlingNow ==
    ASSUME NEW f, NEW im, NEW cs, cs \subseteq Contents, Settling(f, im, <<>>, cs)
    PROVE  /\ \E c \in cs : c \in Contents /\ Done(Disk(f, im), c)
           /\ Crashable(Disk(f, im), cs) /\ f.state = CLEAN /\ f \in im /\ im \subseteq Files
<1> DEFINE ops == <<>>
           d == Disk(f, im)
<1>1. PICK e, c : c \in cs /\ Leads(d, ops, e, cs) /\ Done(e, c) /\ ops = <<>> BY DEF Settling
<1> HIDE DEF ops, d
<1>2. d = e /\ Crashable(d, cs) BY <1>1, LeadsEnd
<1>3. Done(d, c) BY <1>1, <1>2
<1> QED BY <1>1, <1>2, <1>3, DiskFields, CrashableDisk DEF d, Done

-----------------------------------------------------------------------------
(* What the theorems below suppose of the constants.  The writes are of     *)
(* single pages: of a wider write every record but the first has a checksum *)
(* that recovery refuses (AtomicFilePages.cfg).  The file system does not   *)
(* bring a new length to the disk before what was written earlier, since    *)
(* the class syncs nothing in between.  And a crash may leave the old       *)
(* content longer than it was: recovery does not shorten a file whose log   *)
(* is in use and empty.                                                     *)
Restrictions == (\A w \in Writes : w[1] = w[2]) /\ LengthsOrdered /\ LongerAllowed

(* The calls that do not touch what the writers share.                      *)
LEMMA SharedKept ==
    ASSUME FileInv, LockInv', UNCHANGED <<file, images, txn, corrupted, possible, working>>,
           NEW p \in Process, phase[p] \notin WritePhases, phase'[p] \notin WritePhases,
           \A q \in Process \ {p} : phase'[q] = phase[q] /\ plan'[q] = plan[q]
    PROVE  FileInv'
<1>1. ~corrupted' /\ possible' \subseteq Contents BY DEF FileInv
<1>2. CASE \A q \in Process : phase[q] \notin WritePhases
  <2>1. \A q \in Process : phase'[q] \notin WritePhases BY <1>2
  <2>2. /\ Crashable(Disk(file, images), possible) /\ Fitted(file, possible) /\ txn = NoTxn /\ working = <<>>
    BY <1>2, HeldFree DEF FileInv
  <2>3. Crashable(Disk(file', images'), possible') /\ Fitted(file', possible') /\ txn' = NoTxn /\ working' = <<>>
    BY <2>2
  <2> QED BY <1>1, <2>1, <2>3, FreeInv
<1>3. CASE \E q \in Process : phase[q] \in WritePhases
  <2>1. PICK q \in Process : phase[q] \in WritePhases BY <1>3
  <2>2. q # p /\ phase'[q] = phase[q] /\ plan'[q] = plan[q] BY <2>1
  <2>3. Held(q)'
    <3>1. Held(q) BY DEF FileInv
    <3> QED BY <3>1, <2>2 DEF Held
  <2>4. InWriteTransaction(q)' \/ (txn' = NoTxn /\ working' = <<>>)
    <3>1. \A r \in Process \ {q} : ~InWriteTransaction(r) BY <2>1, OneHolder, HeldFree DEF FileInv
    <3>2. CASE InWriteTransaction(q) BY <3>2, <2>2 DEF InWriteTransaction
    <3>3. CASE ~InWriteTransaction(q)
      <4>1. \A r \in Process : ~InWriteTransaction(r) BY <3>1, <3>3
      <4> QED BY <4>1 DEF FileInv
    <3> QED BY <3>2, <3>3
  <2>5. phase'[q] = "rolling" => working' = <<>> BY <2>2 DEF FileInv
  <2>6. phase'[q] \in WritePhases BY <2>1, <2>2
  <2> QED BY <1>1, <2>3, <2>4, <2>5, <2>6, HolderInv
<1> QED BY <1>2, <1>3

(* A process gives its lock back.                                           *)
LEMMA Releases ==
    ASSUME FileInv, LockInv', NEW p \in Process, phase[p] \in WritePhases,
           NEW h, phase' = [phase EXCEPT ![p] = h], h \notin WritePhases
    PROVE  \A q \in Process : phase'[q] \notin WritePhases
<1>1. \A q \in Process \ {p} : phase[q] \notin WritePhases BY OneHolder DEF FileInv
<1>2. \A q \in Process : phase'[q] = IF q = p THEN h ELSE phase[q] BY DEF FileInv, LockInv
<1> QED BY <1>1, <1>2

(* Nobody writes while a process asks for a lock or reads.                  *)
LEMMA NobodyWrites ==
    ASSUME FileInv, NEW p \in Process, phase[p] \notin WritePhases,
           \A q \in Process \ {p} : lock[q] # "write"
    PROVE  /\ \A q \in Process : phase[q] \notin WritePhases
           /\ Crashable(Disk(file, images), possible) /\ Fitted(file, possible) /\ txn = NoTxn /\ working = <<>>
<1>1. \A q \in Process : phase[q] \notin WritePhases BY DEF FileInv, LockInv
<1> QED BY <1>1, HeldFree DEF FileInv

(* init.                                                                    *)
LEMMA StartInitInv ==
    ASSUME FileInv, LockInv', NEW p \in Process, phase[p] \notin WritePhases,
           NEW place \in {"opening", "beginning", "recovering"}, StartInit(p, place)
    PROVE  FileInv'
<1>1. \A q \in Process \ {p} : lock[q] # "write" BY DEF StartInit, MayWrite
<1>2. Crashable(Disk(file, images), possible) /\ Fitted(file, possible) /\ txn = NoTxn /\ working = <<>>
  BY <1>1, NobodyWrites
<1>3. possible \subseteq Contents /\ ~corrupted BY DEF FileInv
<1>4. PICK e, c : InitLeadsTo(file, images, possible, e, c) BY <1>2, <1>3, InitLeads DEF Fitted
<1>5. ~InitIsCorrupt(file) /\ Settling(file, images, InitPlan(file), possible) BY <1>4 DEF InitLeadsTo, Settling
<1>6. phase'[p] = place /\ plan'[p] = InitPlan(file) BY DEF StartInit, Goto, FileInv, LockInv
<1>7. place \in WritePhases /\ place \notin {"writing", "committing", "rolling"} BY DEF WritePhases
<1>8. UNCHANGED <<file, images, txn, possible, working>> /\ corrupted' = (corrupted \/ InitIsCorrupt(file))
  BY DEF StartInit
<1>9. Held(p)' BY <1>5, <1>6, <1>7, <1>8 DEF Held
<1>10. ~corrupted' /\ possible' \subseteq Contents /\ txn' = NoTxn /\ working' = <<>> BY <1>2, <1>3, <1>5, <1>8
<1>11. phase'[p] \in WritePhases BY <1>6, <1>7
<1> QED BY <1>9, <1>10, <1>11, HolderInv

(* The lock is given back when the file is clean.                           *)
LEMMA InitDoneInv ==
    ASSUME FileInv, LockInv', NEW p \in Process, Opened(p) \/ Recovered(p)
    PROVE  FileInv'
<1>1. phase[p] \in {"opening", "recovering"} /\ phase[p] \in WritePhases /\ plan[p] = <<>> /\ ~corrupted
  BY DEF Opened, Recovered, WritePhases, FileInv
<1>2. UNCHANGED <<file, images, txn, corrupted, possible, working>> BY DEF Opened, Recovered
<1>3. \E h \in {"idle", "relocking"} : phase' = [phase EXCEPT ![p] = h] BY <1>1 DEF Opened, Recovered, Goto
<1>4. \A q \in Process : phase'[q] \notin WritePhases
  <2>1. PICK h \in {"idle", "relocking"} : phase' = [phase EXCEPT ![p] = h] BY <1>3
  <2>2. h \notin WritePhases BY DEF WritePhases
  <2> QED BY <1>1, <2>1, <2>2, Releases
<1>5. possible \subseteq Contents /\ Settling(file, images, <<>>, possible) BY <1>1 DEF FileInv, Held
<1>6. Crashable(Disk(file, images), possible) /\ file.state = CLEAN BY <1>5, SettlingNow
<1>7. Fitted(file, possible) BY <1>6 DEF EmptyLog, Fitted
<1>8. txn = NoTxn /\ working = <<>>
  <2>1. \A q \in Process : ~InWriteTransaction(q)
    <3>1. \A q \in Process \ {p} : ~InWriteTransaction(q) BY <1>1, OneHolder, HeldFree DEF FileInv
    <3>2. ~InWriteTransaction(p) BY <1>1 DEF InWriteTransaction
    <3> QED BY <3>1, <3>2
  <2> QED BY <2>1 DEF FileInv
<1>9. /\ ~corrupted' /\ possible' \subseteq Contents /\ Crashable(Disk(file', images'), possible')
      /\ Fitted(file', possible') /\ txn' = NoTxn /\ working' = <<>>
  BY <1>1, <1>2, <1>5, <1>6, <1>7, <1>8
<1> QED BY <1>4, <1>9, FreeInv

(* The begin of a write transaction.                                        *)
Opening(n) == [NoTxn EXCEPT !.size = n, !.buffers = <<Buffer(0)>>]

(* The transaction that begin opens.                                        *)
LEMMA OpeningFields ==
    ASSUME NEW n \in 1 .. LastPage, NEW t, t = Opening(n)
    PROVE  /\ t \in Txns /\ t.size = n /\ t.state = CLEAN /\ t.offset = 0
           /\ t.buffers = <<Buffer(0)>> /\ Top(t) = 1 /\ t.buffers[1] = Buffer(0)
<1>1. t = [size |-> n, state |-> CLEAN, offset |-> 0, hole |-> 0, buffers |-> <<Buffer(0)>>]
  BY DEF Opening, NoTxn
<1>2. Buffer(0) \in Buffers
  <2>1. <<>> \in Seq(1 .. LastPage) OBVIOUS
  <2> QED BY <2>1 DEF Buffer, Buffers
<1>3. <<Buffer(0)>> \in Seq(Buffers) /\ Len(<<Buffer(0)>>) = 1 /\ <<Buffer(0)>>[1] = Buffer(0) BY <1>2
<1>4. t \in Txns BY <1>1, <1>3 DEF Txns, States
<1> QED BY <1>1, <1>3, <1>4 DEF Top

(* It has the content found and restores the same.                          *)
LEMMA BeganServes ==
    ASSUME NEW f, NEW im, NEW c \in Contents, f \in im, im \in SUBSET Files, f.state = CLEAN,
           \A i \in im : Settled(i, c), NEW t, t = Opening(Len(c))
    PROVE  Underway(f, im, <<>>, t, <<c>>, {c})
<1> DEFINE b == <<c>>
           n == Len(c)
<1>1. n \in 1 .. LastPage /\ n \in Nat BY ContentType
<1>2. /\ t \in Txns /\ t.size = n /\ t.state = CLEAN /\ t.offset = 0 /\ Top(t) = 1 /\ t.buffers[1] = Buffer(0)
  BY <1>1, OpeningFields
<1>3. b \in Seq(Contents) /\ Len(b) = 1 /\ b[1] = c OBVIOUS
<1>4. Settled(f, c) OBVIOUS
<1>5. \A m \in 1 .. LastPage : f.data[m] \in Values
  <2> SUFFICES ASSUME NEW m \in 1 .. LastPage PROVE f.data[m] \in Values OBVIOUS
  <2>1. IF m <= n THEN f.data[m] = c[m] ELSE f.data[m] \in Values BY <1>4 DEF Settled
  <2>2. m <= n => m \in 1 .. n BY <1>1
  <2> QED BY <2>1, <2>2, ContentType
<1>6. Holds(f, t, c)
  <2>1. \A m \in 1 .. n : f.data[m] = c[m]
    <3> SUFFICES ASSUME NEW m \in 1 .. n PROVE f.data[m] = c[m] OBVIOUS
    <3>1. m \in 1 .. LastPage /\ m <= n BY <1>1, ContentType
    <3> QED BY <3>1, <1>4 DEF Settled
  <2> QED BY <2>1, <1>2 DEF Holds
<1> HIDE DEF b, n
<1>7. Fresh(f, im, t, b) BY <1>2, <1>3 DEF Fresh
<1>8. \A l \in 1 .. Top(t) :
          Len(b[l]) = IF t.buffers[l].undo # <<>> THEN t.buffers[l].undo[1]
                      ELSE IF l = Top(t) THEN t.size ELSE Len(b[l + 1])
  <2>1. \A l \in 1 .. Top(t) : l = 1 BY <1>2
  <2>2. t.buffers[1].undo = <<>> /\ Len(b[1]) = t.size BY <1>2, <1>3 DEF Buffer, n
  <2> QED BY <2>1, <2>2, <1>2
<1>9. Writing(f, im, t, b) BY <1>2, <1>3, <1>5, <1>7, <1>8 DEF Writing
<1>10. Fits(t) BY <1>2 DEF Fits
<1>11. Serves(Disk(f, im), t, b, {c}, b)
  <2>1. \A l \in 2 .. Top(t) : b[l] = b[l - 1] BY <1>2
  <2>2. {c} = {b[1]} /\ b[Len(b)] = c /\ Len(b) = Top(t) BY <1>2, <1>3
  <2> QED BY <2>1, <2>2, <1>3, <1>6, <1>9, <1>10, DiskFields DEF Serves
<1>12. Underway(f, im, <<>>, t, b, {c})
  <2> DEFINE cs == {c}
  <2> HIDE DEF cs
  <2> QED BY <1>11, ServesStay DEF cs
<1> QED BY <1>12 DEF b

(* A write transaction begins.                                              *)
LEMMA BeganInv ==
    ASSUME FileInv, LockInv', NEW p \in Process, Began(p)
    PROVE  /\ FileInv' /\ Found \in possible
           /\ working = <<>> /\ possible' = {Found} /\ working' = <<Found>>
<1>1. phase[p] = "beginning" /\ phase[p] \in WritePhases /\ plan[p] = <<>> /\ ~corrupted
  BY DEF Began, WritePhases, FileInv
<1>2. /\ UNCHANGED <<file, images, plan, corrupted>> /\ phase' = [phase EXCEPT ![p] = "writing"]
      /\ txn' = Opening(Ceil(file.length)) /\ possible' = possible \intersect {Found} /\ working' = <<Found>>
  BY <1>1 DEF Began, Goto, Opening
<1>3. possible \subseteq Contents /\ Settling(file, images, <<>>, possible) BY <1>1 DEF FileInv, Held
<1>4. file.state = CLEAN /\ file \in images /\ images \subseteq Files BY <1>3, SettlingNow
<1>5. PICK c \in possible : c \in Contents /\ Done(Disk(file, images), c) BY <1>3, SettlingNow
<1>6. \A i \in images : Settled(i, c) BY <1>5, DiskFields DEF Done
<1>7. Settled(file, c) BY <1>4, <1>6
<1>8. Found = c /\ Ceil(file.length) = Len(c) /\ possible' = {Found} BY <1>2, <1>4, <1>5, <1>7, DoneFound DEF Found
<1>9. Underway(file, images, <<>>, txn', <<c>>, {c})
  <2>1. txn' = Opening(Len(c)) BY <1>2, <1>8
  <2> DEFINE u == txn'
  <2>2. u = Opening(Len(c)) BY <2>1
  <2> HIDE DEF u
  <2>3. Underway(file, images, <<>>, u, <<c>>, {c}) BY <2>2, <1>4, <1>5, <1>6, BeganServes
  <2> QED BY <2>3 DEF u
<1>10. phase'[p] = "writing" /\ plan'[p] = <<>> BY <1>1, <1>2 DEF FileInv, LockInv
<1>11. Held(p)'
  <2>1. Underway(file', images', plan'[p], txn', working', possible') BY <1>2, <1>8, <1>9, <1>10
  <2> QED BY <2>1, <1>10 DEF Held
<1>12. ~corrupted' /\ possible' \subseteq Contents BY <1>1, <1>2, <1>5, <1>8
<1>13. InWriteTransaction(p)' /\ phase'[p] \in WritePhases /\ phase'[p] # "rolling"
  BY <1>10 DEF InWriteTransaction, WritePhases
<1>14. FileInv' BY <1>11, <1>12, <1>13, HolderInv
<1>15. working = <<>>
  <2>1. \A q \in Process : ~InWriteTransaction(q)
    <3>1. \A q \in Process \ {p} : ~InWriteTransaction(q) BY <1>1, OneHolder, HeldFree DEF FileInv
    <3>2. ~InWriteTransaction(p) BY <1>1 DEF InWriteTransaction
    <3> QED BY <3>1, <3>2
  <2> QED BY <2>1 DEF FileInv
<1> QED BY <1>2, <1>5, <1>8, <1>14, <1>15

(* The begin of a read transaction.                                         *)
LEMMA ReadInv ==
    ASSUME FileInv, LockInv', NEW p \in Process, phase[p] \notin WritePhases, MayRead(p), file.state = CLEAN,
           phase' = [phase EXCEPT ![p] = "reading"], possible' = possible \intersect {Found},
           UNCHANGED <<file, images, plan, txn, corrupted, working>>
    PROVE  FileInv' /\ Found \in possible /\ possible' = {Found}
<1>1. /\ \A q \in Process : phase[q] \notin WritePhases
      /\ Crashable(Disk(file, images), possible) /\ Fitted(file, possible) /\ txn = NoTxn /\ working = <<>>
  BY NobodyWrites DEF MayRead
<1>2. PICK c \in possible : \A i \in images : Settled(i, c) BY <1>1, CrashableDisk
<1>3. file \in images /\ images \in SUBSET Files /\ c \in Contents BY <1>1, CrashableDisk DEF FileInv
<1>4. Settled(file, c) BY <1>2, <1>3
<1>5. Found = c /\ possible' = {Found} BY <1>2, <1>3, <1>4, DoneFound DEF Found
<1> DEFINE cs == {c}
<1>6. c \in cs OBVIOUS
<1> HIDE DEF cs
<1>7. Crashable(Disk(file, images), cs) BY <1>2, <1>3, <1>6, SettledCrashable
<1>8. \A q \in Process : phase'[q] \notin WritePhases
  <2>1. \A q \in Process : phase'[q] = IF q = p THEN "reading" ELSE phase[q] BY DEF FileInv, LockInv
  <2>2. "reading" \notin WritePhases BY DEF WritePhases
  <2> QED BY <1>1, <2>1, <2>2
<1>9. /\ ~corrupted' /\ possible' \subseteq Contents /\ Crashable(Disk(file', images'), possible')
      /\ Fitted(file', possible') /\ txn' = NoTxn /\ working' = <<>>
  <2>1. Fitted(file', possible') BY <1>5, <1>4 DEF Fitted
  <2> QED BY <1>1, <1>3, <1>5, <1>7, <2>1 DEF FileInv, cs
<1>10. FileInv' BY <1>8, <1>9, FreeInv
<1> QED BY <1>5, <1>10

(* The calls of the process that holds the lock alone.                      *)
LEMMA OperationInv ==
    ASSUME FileInv, LockInv', LengthsOrdered, NEW p \in Process, FileOperation(p)
    PROVE  FileInv'
<1>1. phase[p] \in WritePhases /\ plan[p] # <<>> BY DEF FileOperation, FileInv, LockInv
<1>2. /\ plan' = [plan EXCEPT ![p] = Tail(plan[p])]
      /\ file' = Apply(file, Head(plan[p])) /\ images' = CrashImages(file, images, Head(plan[p]))
      /\ UNCHANGED <<phase, txn, corrupted, possible, working>>
  BY DEF FileOperation
<1>3. Wanted(p, file, images, plan[p]) BY HeldWanted DEF FileInv
<1>4. plan'[p] = Tail(plan[p]) BY <1>2 DEF FileInv, LockInv
<1> DEFINE ops == plan[p]
<1>5. Wanted(p, file', images', plan'[p])
  <2>1. Wanted(p, file, images, ops) /\ ops # <<>> BY <1>1, <1>3
  <2> HIDE DEF ops
  <2>2. Wanted(p, Apply(file, Head(ops)), CrashImages(file, images, Head(ops)), Tail(ops)) BY <2>1, WantedNext
  <2> QED BY <2>2, <1>2, <1>4 DEF ops
<1>6. Held(p)' BY <1>2, <1>5 DEF Held, Wanted
<1>7. InWriteTransaction(p)' \/ (txn' = NoTxn /\ working' = <<>>)
  <2>1. CASE InWriteTransaction(p) BY <2>1, <1>2 DEF InWriteTransaction
  <2>2. CASE ~InWriteTransaction(p)
    <3>1. \A q \in Process : ~InWriteTransaction(q) BY <2>2, <1>1, OneHolder, HeldFree DEF FileInv
    <3> QED BY <3>1, <1>2 DEF FileInv
  <2> QED BY <2>1, <2>2
<1>8. ~corrupted' /\ possible' \subseteq Contents /\ phase'[p] \in WritePhases
      /\ (phase'[p] = "rolling" => working' = <<>>)
  BY <1>1, <1>2 DEF FileInv
<1> QED BY <1>6, <1>7, <1>8, HolderInv

(* Between two calls.                                                       *)
LEMMA ReadyFields ==
    ASSUME FileInv, NEW p \in Process, Ready(p)
    PROVE  /\ phase[p] = "writing" /\ phase[p] \in WritePhases /\ plan[p] = <<>>
           /\ Underway(file, images, <<>>, txn, working, possible)
           /\ ~corrupted /\ possible \subseteq Contents
BY DEF Ready, WritePhases, FileInv, Held

(* A call that leaves the process in its transaction.                       *)
LEMMA StaysWriting ==
    ASSUME FileInv, LockInv', NEW p \in Process, Ready(p), phase' = phase,
           NEW ops, plan' = [plan EXCEPT ![p] = ops], ~corrupted', possible' = possible,
           Underway(file', images', ops, txn', working', possible')
    PROVE  FileInv'
<1>1. phase'[p] = "writing" /\ phase'[p] \in WritePhases /\ possible' \subseteq Contents BY ReadyFields
<1>2. plan'[p] = ops BY DEF FileInv, LockInv
<1>3. Held(p)' BY <1>1, <1>2 DEF Held
<1>4. InWriteTransaction(p)' /\ phase'[p] # "rolling" BY <1>1 DEF InWriteTransaction
<1> QED BY <1>1, <1>3, <1>4, HolderInv

(* A call that changes the content.                                         *)
LEMMA CarryInv ==
    ASSUME FileInv, LockInv', NEW p \in Process, Ready(p), NEW step, NEW first, NEW last, NEW v,
           Carry(p, step, first, last, v), NEW n,
           Carried(file, images, step, txn, working, possible, ExpectedIn(file, Last(working), first, last, v, step), n)
    PROVE  FileInv'
<1> DEFINE x == ExpectedIn(file, Last(working), first, last, v, step)
<1>1. /\ plan' = [plan EXCEPT ![p] = step.ops] /\ txn' = step.txn
      /\ working' = Append(Front(working), x)
      /\ UNCHANGED <<file, images, phase, corrupted, possible>>
  BY DEF Carry, Expected, ExpectedIn
<1>2. Carried(file, images, step, txn, working, possible, x, n) OBVIOUS
<1> HIDE DEF x
<1>3. Underway(file, images, step.ops, step.txn, Append(Front(working), x), possible) BY <1>2 DEF Carried
<1> DEFINE ops == step.ops
<1>4. Underway(file', images', ops, txn', working', possible') BY <1>1, <1>3
<1>5. plan' = [plan EXCEPT ![p] = ops] BY <1>1
<1>6. ~corrupted' /\ phase' = phase /\ possible' = possible BY <1>1 DEF FileInv
<1> HIDE DEF ops
<1> QED BY <1>4, <1>5, <1>6, StaysWriting

WriteCarries(n, v) ==
    LET step == WriteStep(txn, n, n, v, file)
        x == ExpectedIn(file, Last(working), n, n, v, step)
    IN  /\ Carried(file, images, step, txn, working, possible, x, Larger(txn.size, n))
        /\ working \in Seq(Contents) /\ Len(working) > 0 /\ Len(Last(working)) = txn.size

(* A write of one page,                                                     *)
LEMMA WriteInv ==
    ASSUME FileInv, LockInv', NEW p \in Process, NEW n \in 1 .. LastPage, NEW v \in Values, Write(p, n, n, v)
    PROVE  FileInv' /\ WriteCarries(n, v)
<1> DEFINE step == WriteStep(txn, n, n, v, file)
           x == ExpectedIn(file, Last(working), n, n, v, step)
<1>1. Ready(p) /\ Carry(p, step, n, n, v) BY DEF Write, Calling
<1>2. Underway(file, images, <<>>, txn, working, possible) BY <1>1, ReadyFields
<1> HIDE DEF step
<1>3. /\ Carried(file, images, step, txn, working, possible, x, Larger(txn.size, n))
      /\ working \in Seq(Contents) /\ Len(working) > 0 /\ Len(Last(working)) = txn.size
  BY <1>2, WriteUnderway DEF step
<1>4. FileInv' BY <1>1, <1>3, CarryInv
<1>5. WriteCarries(n, v) BY <1>3 DEF WriteCarries, step
<1> QED BY <1>4, <1>5

LengthCarries(n) ==
    LET step == SetLengthStep(txn, n, file)
        x == ExpectedIn(file, Last(working), 1, 0, Zero, step)
    IN  /\ Carried(file, images, step, txn, working, possible, x, n)
        /\ working \in Seq(Contents) /\ Len(working) > 0 /\ Len(Last(working)) = txn.size

(* and a change of the length, do what the caller expects.                  *)
LEMMA SetFileLengthInv ==
    ASSUME FileInv, LockInv', NEW p \in Process, NEW n \in 1 .. LastPage, SetFileLength(p, n)
    PROVE  FileInv' /\ LengthCarries(n)
<1> DEFINE step == SetLengthStep(txn, n, file)
           x == ExpectedIn(file, Last(working), 1, 0, Zero, step)
<1>1. Ready(p) /\ Carry(p, step, 1, 0, Zero) /\ n # txn.size BY DEF SetFileLength, Calling
<1>2. Underway(file, images, <<>>, txn, working, possible) BY <1>1, ReadyFields
<1> HIDE DEF step
<1>3. /\ Carried(file, images, step, txn, working, possible, x, n)
      /\ working \in Seq(Contents) /\ Len(working) > 0 /\ Len(Last(working)) = txn.size
  BY <1>1, <1>2, SetLengthUnderway DEF step
<1>4. FileInv' BY <1>1, <1>3, CarryInv
<1>5. LengthCarries(n) BY <1>3 DEF LengthCarries, step
<1> QED BY <1>4, <1>5

(* The calls of a nested transaction.                                       *)
LEMMA NestedInv ==
    ASSUME FileInv, LockInv', NEW p \in Process, BeginNested(p) \/ CommitNested(p) \/ RollbackNested(p)
    PROVE  FileInv'
<1>1. Ready(p) BY DEF BeginNested, CommitNested, RollbackNested, Calling
<1>2. /\ Underway(file, images, <<>>, txn, working, possible) /\ plan[p] = <<>> /\ ~corrupted
      /\ plan = [plan EXCEPT ![p] = plan[p]]
  BY <1>1, ReadyFields, StaysStep DEF FileInv
<1>3. CASE BeginNested(p)
  <2> DEFINE u == Begun(txn, IF txn.offset = 0 THEN 0 ELSE file.length[2])
             r == Append(working, Last(working))
  <2>1. /\ txn' = u /\ working' = r /\ UNCHANGED <<file, images, phase, plan, corrupted, possible>>
    BY <1>3 DEF BeginNested, Begun
  <2> HIDE DEF u, r
  <2>2. Underway(file, images, <<>>, u, r, possible) BY <1>2, NestUnderway DEF u, r
  <2> DEFINE ops == plan[p]
  <2>3. /\ Underway(file', images', ops, txn', working', possible') /\ plan' = [plan EXCEPT ![p] = ops]
        /\ ~corrupted' /\ phase' = phase /\ possible' = possible
    BY <1>2, <2>1, <2>2
  <2> HIDE DEF ops
  <2> QED BY <1>1, <2>3, StaysWriting
<1>4. CASE CommitNested(p)
  <2> DEFINE u == Merged(txn)
             r == Append(SubSeq(working, 1, Len(working) - 2), Last(working))
  <2>1. /\ txn' = u /\ working' = r /\ UNCHANGED <<file, images, phase, plan, corrupted, possible>> /\ Top(txn) > 1
    BY <1>4 DEF CommitNested, Merged
  <2> HIDE DEF u, r
  <2>2. Underway(file, images, <<>>, u, r, possible) BY <1>2, <2>1, MergeUnderway DEF u, r
  <2> DEFINE ops == plan[p]
  <2>3. /\ Underway(file', images', ops, txn', working', possible') /\ plan' = [plan EXCEPT ![p] = ops]
        /\ ~corrupted' /\ phase' = phase /\ possible' = possible
    BY <1>2, <2>1, <2>2
  <2> HIDE DEF ops
  <2> QED BY <1>1, <2>3, StaysWriting
<1>5. CASE RollbackNested(p)
  <2> DEFINE step == RollbackStep(txn, file)
             r == Front(working)
             bad == txn.offset # 0 /\ RollbackIsCorrupt(file, txn.offset, Last(txn.buffers).start)
  <2>1. /\ txn' = step.txn /\ working' = r /\ UNCHANGED <<file, images, phase, possible>> /\ Top(txn) > 1
        /\ plan' = [plan EXCEPT ![p] = step.ops] /\ corrupted' = (corrupted \/ bad)
    BY <1>5 DEF RollbackNested
  <2> HIDE DEF step, r
  <2>2. Underway(file, images, step.ops, step.txn, r, possible) /\ ~bad
    BY <1>2, <2>1, RollbackUnderway DEF step, r
  <2> HIDE DEF bad
  <2> DEFINE ops == step.ops
  <2>3. /\ Underway(file', images', ops, txn', working', possible') /\ plan' = [plan EXCEPT ![p] = ops]
        /\ ~corrupted' /\ phase' = phase /\ possible' = possible
    BY <1>2, <2>1, <2>2
  <2> HIDE DEF ops
  <2> QED BY <1>1, <2>3, StaysWriting
<1> QED BY <1>3, <1>4, <1>5

(* The outermost transaction is the only one on the stack.                  *)
LEMMA OutermostTop ==
    ASSUME Top(txn) = 1
    PROVE  Top(txn) < 2
OBVIOUS

(* The plan of commit leads to the new content.                             *)
LEMMA CommitInv ==
    ASSUME FileInv, LockInv', NEW p \in Process, Commit(p)
    PROVE  FileInv' /\ Len(working) = 1
<1>1. Ready(p) /\ Top(txn) < 2 BY OutermostTop DEF Commit
<1>2. /\ Underway(file, images, <<>>, txn, working, possible) /\ plan[p] = <<>> /\ ~corrupted
      /\ possible \subseteq Contents
  BY <1>1, ReadyFields
<1> DEFINE ops == CommitPlan(txn)
           c == Last(working)
           cs == possible \union {c}
<1>3. /\ phase' = [phase EXCEPT ![p] = "committing"] /\ plan' = [plan EXCEPT ![p] = ops]
      /\ possible' = cs /\ UNCHANGED <<file, images, txn, corrupted, working>>
  BY DEF Commit, Goto
<1>4. /\ (\E e : Leads(Disk(file, images), ops, e, cs) /\ Done(e, c))
      /\ Len(working) = 1 /\ c \in Contents
  BY <1>1, <1>2, CommitUnderway
<1> HIDE DEF ops
<1>5. Committing(file, images, ops, working, cs) BY <1>4 DEF Committing
<1>6. phase'[p] = "committing" /\ plan'[p] = ops BY <1>3 DEF FileInv, LockInv
<1> HIDE DEF c, cs
<1>7. Held(p)' BY <1>3, <1>5, <1>6 DEF Held
<1>8. ~corrupted' /\ possible' \subseteq Contents BY <1>2, <1>3, <1>4 DEF cs
<1>9. InWriteTransaction(p)' /\ phase'[p] \in WritePhases /\ phase'[p] # "rolling"
  BY <1>6 DEF InWriteTransaction, WritePhases
<1> QED BY <1>4, <1>7, <1>8, <1>9, HolderInv

(* The plan of rollback leads to the old one.                               *)
LEMMA RollbackInv ==
    ASSUME FileInv, LockInv', NEW p \in Process, Rollback(p)
    PROVE  FileInv'
<1>1. Ready(p) /\ Top(txn) < 2 BY OutermostTop DEF Rollback
<1>2. /\ Underway(file, images, <<>>, txn, working, possible) /\ plan[p] = <<>> /\ ~corrupted
      /\ possible \subseteq Contents
  BY <1>1, ReadyFields
<1> DEFINE ops == OuterRollbackPlan(txn, file)
           bad == txn.offset # 0 /\ RollbackIsCorrupt(file, txn.offset, 0)
<1>3. /\ phase' = [phase EXCEPT ![p] = "rolling"] /\ plan' = [plan EXCEPT ![p] = ops]
      /\ working' = <<>> /\ corrupted' = (corrupted \/ bad) /\ UNCHANGED <<file, images, possible>>
  BY DEF Rollback, Goto
<1>4. (\E e, c : c \in possible /\ Leads(Disk(file, images), ops, e, possible) /\ Done(e, c)) /\ ~bad
  BY <1>1, <1>2, AbandonUnderway
<1> HIDE DEF ops, bad
<1>5. Settling(file, images, ops, possible) BY <1>4 DEF Settling
<1>6. phase'[p] = "rolling" /\ plan'[p] = ops BY <1>3 DEF FileInv, LockInv
<1>7. Held(p)' BY <1>3, <1>5, <1>6 DEF Held
<1>8. ~corrupted' /\ possible' \subseteq Contents BY <1>2, <1>3, <1>4
<1>9. InWriteTransaction(p)' /\ phase'[p] \in WritePhases /\ working' = <<>>
  BY <1>3, <1>6 DEF InWriteTransaction, WritePhases
<1> QED BY <1>7, <1>8, <1>9, HolderInv

(* The lock is given back when the plan is done.                            *)
LEMMA EndWriteInv ==
    ASSUME FileInv, LockInv', NEW p \in Process, EndWrite(p)
    PROVE  /\ FileInv'
           /\ phase[p] = "committing" => Len(working) = 1 /\ Last(working) \in possible
           /\ phase[p] = "rolling" => working = <<>>
<1>1. /\ phase[p] \in {"committing", "rolling"} /\ phase[p] \in WritePhases /\ plan[p] = <<>>
      /\ possible \subseteq Contents /\ ~corrupted
  BY DEF EndWrite, WritePhases, FileInv
<1>2. phase' = [phase EXCEPT ![p] = "idle"] /\ txn' = NoTxn /\ UNCHANGED <<file, images, corrupted>>
  BY DEF EndWrite, Goto
<1>3. \A q \in Process : phase'[q] \notin WritePhases
  <2>1. "idle" \notin WritePhases BY DEF WritePhases
  <2> QED BY <1>1, <1>2, <2>1, Releases
<1>4. CASE phase[p] = "committing"
  <2> DEFINE c == Last(working)
             ops == plan[p]
             cs == {c}
  <2>1. Len(working) = 1 /\ c \in possible /\ (\E e : Leads(Disk(file, images), ops, e, possible) /\ Done(e, c))
    BY <1>4 DEF FileInv, Held, Committing
  <2> HIDE DEF c, ops
  <2>2. PICK e : Leads(Disk(file, images), ops, e, possible) /\ Done(e, c) BY <2>1
  <2>3. e = Disk(file, images) BY <2>2, <1>1, LeadsEnd DEF ops
  <2>4. file.state = CLEAN /\ \A i \in images : Settled(i, c) BY <2>2, <2>3, DiskFields DEF Done
  <2>5. file \in images /\ images \in SUBSET Files /\ c \in Contents BY <1>1, <2>1, FileCrashable, CrashableDisk
  <2>6. c \in cs OBVIOUS
  <2> HIDE DEF cs
  <2>7. Crashable(Disk(file, images), cs) BY <2>4, <2>5, <2>6, SettledCrashable
  <2>8. possible' = cs /\ working' = <<>> BY <1>4 DEF EndWrite, cs, c
  <2>9. Fitted(file, cs) BY <2>4 DEF EmptyLog, Fitted
  <2>10. /\ ~corrupted' /\ possible' \subseteq Contents /\ Crashable(Disk(file', images'), possible')
         /\ Fitted(file', possible') /\ txn' = NoTxn /\ working' = <<>>
    BY <1>1, <1>2, <2>5, <2>7, <2>8, <2>9 DEF cs
  <2>11. FileInv' BY <1>3, <2>10, FreeInv
  <2> QED BY <1>4, <2>1, <2>11 DEF c
<1>5. CASE phase[p] = "rolling"
  <2>1. Settling(file, images, <<>>, possible) /\ working = <<>> BY <1>1, <1>5 DEF FileInv, Held
  <2>2. Crashable(Disk(file, images), possible) /\ file.state = CLEAN BY <1>1, <2>1, SettlingNow
  <2>3. Fitted(file, possible) BY <2>2 DEF EmptyLog, Fitted
  <2>4. possible' = possible /\ working' = working BY <1>5 DEF EndWrite, ghosts
  <2>5. /\ ~corrupted' /\ possible' \subseteq Contents /\ Crashable(Disk(file', images'), possible')
        /\ Fitted(file', possible') /\ txn' = NoTxn /\ working' = <<>>
    BY <1>1, <1>2, <2>1, <2>2, <2>3, <2>4
  <2>6. FileInv' BY <1>3, <2>5, FreeInv
  <2> QED BY <1>5, <2>1, <2>6
<1> QED BY <1>1, <1>4, <1>5

(* A crash of a process.                                                    *)
LEMMA ProcessCrashInv ==
    ASSUME FileInv, LockInv', LongerAllowed, NEW p \in Process, ProcessCrash(p)
    PROVE  /\ FileInv'
           /\ \A x \in possible' \ possible : EmptyLog(file) /\ \E old \in possible : IsPrefix(old, x)
           /\ possible \subseteq possible' /\ (working' = <<>> \/ (working' = working /\ possible' = possible))
<1>1. /\ Forget({p}) /\ Abandoned({p}, file) /\ UNCHANGED <<file, images, corrupted>>
      /\ ~corrupted /\ possible \subseteq Contents /\ Crashable(Disk(file, images), possible)
  BY FileCrashable DEF ProcessCrash, Forget, FileInv
<1>2. \A q \in Process : IF q \in {p} THEN phase'[q] = "closed" /\ lock'[q] = "none" /\ plan'[q] = <<>>
                         ELSE phase'[q] = phase[q] /\ lock'[q] = lock[q] /\ plan'[q] = plan[q]
  <2>1. LockInv /\ {p} \in SUBSET Process BY DEF FileInv
  <2> QED BY <1>1, <2>1, ForgetLocks
<1>3. phase'[p] \notin WritePhases BY <1>2 DEF WritePhases
<1>4. file \in Files /\ \E c \in possible : Whole(file, c) \/ Undoable(file, c) BY <1>1, CrashableDisk
<1>5. /\ possible \subseteq possible' /\ possible' \subseteq Contents
      /\ \A x \in possible' \ possible : EmptyLog(file) /\ \E old \in possible : IsPrefix(old, x)
      /\ (\A q \in Process \ {p} : lock[q] # "write") => Fitted(file, possible')
  BY <1>1, <1>4, AbandonedFits
<1>6. CASE \A q \in Process \ {p} : phase[q] \notin WritePhases
  <2>1. \A q \in Process : phase'[q] \notin WritePhases BY <1>6, <1>2, <1>3
  <2>2. Fitted(file', possible')
    <3>1. \A q \in Process \ {p} : lock[q] # "write" BY <1>6 DEF FileInv, LockInv
    <3> QED BY <1>1, <1>5, <3>1
  <2>3. Crashable(Disk(file', images'), possible') BY <1>1, <1>5, CrashableMore
  <2>4. txn' = NoTxn /\ working' = <<>>
    <3>1. CASE InWriteTransaction(p) BY <3>1, <1>1 DEF Forget
    <3>2. CASE ~InWriteTransaction(p)
      <4>1. \A q \in Process : ~InWriteTransaction(q) BY <3>2, <1>6, HeldFree
      <4>2. txn' = txn /\ working' = working BY <3>2, <1>1 DEF Forget
      <4> QED BY <4>1, <4>2 DEF FileInv
    <3> QED BY <3>1, <3>2
  <2>5. FileInv' BY <1>1, <1>5, <2>1, <2>2, <2>3, <2>4, FreeInv
  <2> QED BY <1>5, <2>4, <2>5
<1>7. CASE \E q \in Process \ {p} : phase[q] \in WritePhases
  <2>1. PICK q \in Process \ {p} : phase[q] \in WritePhases BY <1>7
  <2>2. phase[p] \notin WritePhases BY <2>1, OneHolder DEF FileInv
  <2>3. lock[q] = "write" BY <2>1 DEF FileInv, LockInv
  <2>4. possible' = possible BY <1>1, <2>1, <2>3 DEF Abandoned
  <2>5. ~InWriteTransaction(p) BY <2>2, HeldFree
  <2>6. UNCHANGED <<file, images, txn, corrupted, possible, working>> BY <2>4, <2>5, <1>1 DEF Forget
  <2>7. \A r \in Process \ {p} : phase'[r] = phase[r] /\ plan'[r] = plan[r] BY <1>2
  <2>8. FileInv' BY <1>3, <2>2, <2>6, <2>7, SharedKept
  <2> QED BY <1>5, <2>6, <2>8
<1> QED BY <1>6, <1>7

(* The next process finds one of the images.                                *)
LEMMA MachineCrashInv ==
    ASSUME FileInv, LockInv', LongerAllowed, MachineCrash
    PROVE  /\ FileInv' /\ working' = <<>> /\ possible \subseteq possible'
           /\ \A x \in possible' \ possible : \E old \in possible : IsPrefix(old, x)
<1>1. /\ Forget(Process) /\ file' \in images /\ Abandoned(Process, file') /\ images' = {file'}
      /\ UNCHANGED corrupted /\ ~corrupted /\ possible \subseteq Contents
  BY DEF MachineCrash, Forget, FileInv
<1>2. \A q \in Process : phase'[q] \notin WritePhases
  <2>1. LockInv /\ Process \in SUBSET Process BY DEF FileInv
  <2>2. \A q \in Process : phase'[q] = "closed" BY <1>1, <2>1, ForgetLocks
  <2> QED BY <2>2 DEF WritePhases
<1> DEFINE i == file'
<1>3. i \in images /\ Abandoned(Process, i) BY <1>1
<1> HIDE DEF i
<1>4. i \in Files /\ Crashable(Disk(i, {i}), possible) BY <1>1, <1>3, FileCrashable, ImageCrashable
<1>5. \E c \in possible : Whole(i, c) \/ Undoable(i, c) BY <1>4, CrashableDisk
<1>6. /\ possible \subseteq possible' /\ possible' \subseteq Contents /\ Fitted(i, possible')
      /\ \A x \in possible' \ possible : \E old \in possible : IsPrefix(old, x)
  BY <1>1, <1>3, <1>4, <1>5, AbandonedFits
<1>7. Crashable(Disk(file', images'), possible') /\ Fitted(file', possible')
  <2>1. Crashable(Disk(i, {i}), possible') BY <1>4, <1>6, CrashableMore
  <2> QED BY <2>1, <1>1, <1>6 DEF i
<1>8. txn' = NoTxn /\ working' = <<>>
  <2>1. CASE \E q \in Process : InWriteTransaction(q) BY <2>1, <1>1 DEF Forget
  <2>2. CASE \A q \in Process : ~InWriteTransaction(q)
    <3>1. txn' = txn /\ working' = working BY <2>2, <1>1 DEF Forget
    <3> QED BY <2>2, <3>1 DEF FileInv
  <2> QED BY <2>1, <2>2
<1>9. FileInv' BY <1>1, <1>2, <1>6, <1>7, <1>8, FreeInv
<1> QED BY <1>6, <1>8, <1>9

(* The calls of a reader, and of one that waits for a lock.                 *)
LEMMA ReaderInv ==
    ASSUME FileInv, LockInv', NEW p \in Process,
           BeginRead(p) \/ Relock(p) \/ BeginTimedOut(p) \/ EndRead(p)
    PROVE  /\ FileInv' /\ (possible' = possible \/ (possible' = {Found} /\ Found \in possible))
           /\ (BeginRead(p) \/ Relock(p)) /\ file.state = CLEAN => possible' = {Found}
<1>1. /\ phase[p] \in {"idle", "upgrading", "relocking", "reading"} /\ phase[p] \notin WritePhases
      /\ UNCHANGED <<file, images, plan, txn, corrupted, working>>
  BY DEF BeginRead, Relock, BeginTimedOut, EndRead, WritePhases
<1>2. CASE (BeginRead(p) \/ Relock(p)) /\ file.state = CLEAN
  <2>1. MayRead(p) /\ phase' = [phase EXCEPT ![p] = "reading"] /\ possible' = possible \intersect {Found}
    BY <1>2 DEF BeginRead, Relock, Goto
  <2> QED BY <1>1, <1>2, <2>1, ReadInv
<1>3. CASE ~((BeginRead(p) \/ Relock(p)) /\ file.state = CLEAN)
  <2>1. possible' = possible BY <1>3 DEF BeginRead, Relock, BeginTimedOut, EndRead
  <2>0. BeginTimedOut(p) \/ EndRead(p) \/ file.state # CLEAN BY <1>3
  <2>2. PICK h \in {"idle", "upgrading", "reading"} : phase' = [phase EXCEPT ![p] = h]
    BY <2>0 DEF BeginRead, Relock, BeginTimedOut, EndRead, Goto
  <2>3. \A q \in Process : phase'[q] = IF q = p THEN h ELSE phase[q] BY <2>2 DEF FileInv, LockInv
  <2>4. phase'[p] \notin WritePhases BY <2>3 DEF WritePhases
  <2>5. \A q \in Process \ {p} : phase'[q] = phase[q] /\ plan'[q] = plan[q] BY <2>3, <1>1
  <2>6. UNCHANGED <<file, images, txn, corrupted, possible, working>> BY <1>1, <2>1
  <2>7. FileInv' BY <1>1, <2>4, <2>5, <2>6, SharedKept
  <2> QED BY <1>3, <2>1, <2>7
<1> QED BY <1>2, <1>3

(* What a call may be.                                                      *)
LEMMA WritesType ==
    ASSUME Restrictions
    PROVE  /\ \A w \in Writes : w[1] \in 1 .. LastPage /\ w[2] = w[1] /\ w[3] \in Values
           /\ \A n \in Sizes : n \in 1 .. LastPage
           /\ LongerAllowed
BY AtomicFileAssumption DEF Restrictions

(* The calls that run init.                                                 *)
LEMMA StartsInit ==
    ASSUME NEW p \in Process, Open(p) \/ BeginWrite(p) \/ Recover(p)
    PROVE  phase[p] \notin WritePhases /\ \E place \in {"opening", "beginning", "recovering"} : StartInit(p, place)
BY DEF Open, BeginWrite, Recover, WritePhases

(* Every step keeps the invariant.                                          *)
LEMMA NextInv ==
    ASSUME FileInv, Restrictions, [Next]_vars
    PROVE  FileInv'
<1>0. LockInv /\ LockInv' BY NextLocks DEF FileInv
<1>1. CASE UNCHANGED vars BY <1>1 DEF vars, FileInv, LockInv, Held, InWriteTransaction
<1>2. CASE MachineCrash BY <1>0, <1>2, WritesType, MachineCrashInv
<1>3. ASSUME NEW p \in Process, Act(p) PROVE FileInv'
  <2>1. CASE FileOperation(p) BY <1>0, <2>1, OperationInv DEF Restrictions
  <2>2. CASE Open(p) \/ BeginWrite(p) \/ Recover(p) BY <1>0, <2>2, StartsInit, StartInitInv
  <2>3. CASE Opened(p) \/ Recovered(p) BY <1>0, <2>3, InitDoneInv
  <2>4. CASE Began(p) BY <1>0, <2>4, BeganInv
  <2>5. CASE BeginRead(p) \/ Relock(p) \/ BeginTimedOut(p) \/ EndRead(p) BY <1>0, <2>5, ReaderInv
  <2>6. CASE \E w \in Writes : Write(p, w[1], w[2], w[3])
    <3>1. PICK w \in Writes : Write(p, w[1], w[2], w[3]) BY <2>6
    <3> DEFINE n == w[1]
               v == w[3]
    <3>2. n \in 1 .. LastPage /\ v \in Values /\ Write(p, n, n, v) BY <3>1, WritesType
    <3> HIDE DEF n, v
    <3> QED BY <1>0, <3>2, WriteInv
  <2>7. CASE \E n \in Sizes : SetFileLength(p, n)
    <3>1. PICK n \in Sizes : SetFileLength(p, n) BY <2>7
    <3>2. n \in 1 .. LastPage BY WritesType
    <3> QED BY <1>0, <3>1, <3>2, SetFileLengthInv
  <2>8. CASE BeginNested(p) \/ CommitNested(p) \/ RollbackNested(p) BY <1>0, <2>8, NestedInv
  <2>9. CASE Commit(p) BY <1>0, <2>9, CommitInv
  <2>10. CASE Rollback(p) BY <1>0, <2>10, RollbackInv
  <2>11. CASE EndWrite(p) BY <1>0, <2>11, EndWriteInv
  <2>12. CASE ProcessCrash(p) BY <1>0, <2>12, WritesType, ProcessCrashInv
  <2> QED BY <1>3, <2>1, <2>2, <2>3, <2>4, <2>5, <2>6, <2>7, <2>8, <2>9, <2>10, <2>11, <2>12 DEF Act
<1> QED BY <1>1, <1>2, <1>3 DEF Next

(* It holds of a file just made.                                            *)
LEMMA InitInv ==
    ASSUME Init
    PROVE  FileInv /\ possible # {} /\ working = <<>>
<1> DEFINE c == InitialContent
           n == Len(c)
<1>1. /\ c \in Contents /\ n \in Nat /\ LastPage \in Nat /\ Zero \in Values /\ Zero \in Nat
  BY AtomicFileAssumption, FileImageAssumption DEF Contents, Zero
<1>2. /\ file.state = CLEAN /\ file.length = <<n, 0>> /\ file.log = <<>>
      /\ file.data = [m \in 1 .. LastPage |-> IF m <= n THEN c[m] ELSE Zero]
      /\ file.size = 0 /\ file.offset = [s \in Slots |-> 0]
      /\ images = {file} /\ possible = {c} /\ txn = NoTxn /\ working = <<>> /\ corrupted = FALSE
  BY DEF Init
<1>3. file = [state |-> CLEAN, size |-> 0, offset |-> [s \in Slots |-> 0],
              length |-> <<n, 0>>,
              data |-> [m \in 1 .. LastPage |-> IF m <= n THEN c[m] ELSE Zero], log |-> <<>>]
  BY DEF Init
<1>4. ASSUME NEW m \in 1 .. LastPage PROVE (IF m <= n THEN c[m] ELSE Zero) \in Values
  <2>1. m <= n => m \in 1 .. n BY <1>1
  <2> QED BY <2>1, <1>1, ContentType
<1>5. file \in Files
  <2>1. file.log \in Logs
    <3>1. <<>> = [at \in {} |-> <<>>[at]] /\ {} \in SUBSET Nat OBVIOUS
    <3>2. <<>> \in [{} -> Seq(Record)] OBVIOUS
    <3> QED BY <3>1, <3>2, <1>2 DEF Logs
  <2>2. file.data \in [1 .. LastPage -> Cells] BY <1>2, <1>4 DEF Cells
  <2>3. file.offset \in [Slots -> Nat] BY <1>2
  <2>4. file.length \in Nat \X Nat BY <1>1, <1>2
  <2>5. file.state \in States /\ file.size \in Nat BY <1>2 DEF States
  <2> HIDE DEF n, c
  <2> QED BY <1>3, <2>1, <2>2, <2>3, <2>4, <2>5 DEF Files
<1>6. Settled(file, c)
  <2>1. DOMAIN file.log = {} BY <1>2
  <2>2. \A m \in 1 .. LastPage : IF m <= n THEN file.data[m] = c[m] ELSE file.data[m] \in Values
    BY <1>1, <1>2
  <2>3. file.state \notin Slots BY <1>2, StateCases
  <2> QED BY <1>2, <2>1, <2>2, <2>3 DEF Settled
<1> DEFINE cs == {c}
           im == {file}
<1>7. c \in cs /\ file \in im /\ im \in SUBSET Files /\ \A i \in im : Settled(i, c) BY <1>5, <1>6
<1> HIDE DEF c, cs, im
<1>8. Crashable(Disk(file, im), cs) BY <1>1, <1>7, SettledCrashable
<1>9. Fitted(file, possible) BY <1>2 DEF EmptyLog, Fitted
<1>10. \A p \in Process : phase[p] \notin WritePhases BY DEF Init, WritePhases
<1>11. \A p \in Process : Held(p) /\ phase[p] # "rolling" BY <1>10, HeldFree
<1>12. FileInv
  <2>1. LockInv BY InitLocks
  <2>2. ~corrupted /\ possible \subseteq Contents BY <1>1, <1>2
  <2>3. Crashable(Disk(file, images), possible) BY <1>2, <1>8 DEF cs, im
  <2> QED BY <2>1, <2>2, <2>3, <1>2, <1>9, <1>11 DEF FileInv
<1> QED BY <1>2, <1>12

-----------------------------------------------------------------------------
(* The readers.                                                             *)
(* While one process holds the lock alone no other reads.                   *)
LEMMA NoOtherReads ==
    ASSUME LockInv, NEW p \in Process, phase[p] \in WritePhases
    PROVE  \A q \in Process : phase[q] # "reading"
BY DEF LockInv, WritePhases

(* What a reader sees does not change under it.                             *)
LEMMA NextReaders ==
    ASSUME FileInv, Restrictions, ReadersSeeCommitted, [Next]_vars
    PROVE  ReadersSeeCommitted'
<1> SUFFICES ASSUME NEW r \in Process, phase'[r] = "reading", file'.state = CLEAN
             PROVE  possible' = {Found'}
  BY DEF ReadersSeeCommitted, SeesCommitted
<1>0. LockInv /\ LockInv' /\ LongerAllowed BY NextLocks DEF FileInv, Restrictions
<1>1. ASSUME file' = file, possible' = possible, phase'[r] = phase[r] PROVE possible' = {Found'}
  BY <1>1 DEF ReadersSeeCommitted, SeesCommitted, Found
<1>2. CASE UNCHANGED vars BY <1>1, <1>2 DEF vars
<1>3. CASE MachineCrash
  <2>1. Forget(Process) /\ Process \in SUBSET Process BY <1>3 DEF MachineCrash
  <2>2. phase'[r] = "closed" BY <1>0, <2>1, ForgetLocks
  <2> QED BY <2>2
<1>4. ASSUME NEW p \in Process, ProcessCrash(p) PROVE possible' = {Found'}
  <2>1. Forget({p}) /\ {p} \in SUBSET Process /\ file' = file BY <1>4 DEF ProcessCrash
  <2>2. phase'[r] = phase[r] BY <1>0, <2>1, ForgetLocks
  <2>3. ~EmptyLog(file) BY <2>1 DEF EmptyLog
  <2>4. possible' = possible BY <1>0, <1>4, <2>3, ProcessCrashInv
  <2> QED BY <2>1, <2>2, <2>4, <1>1
<1>5. ASSUME NEW p \in Process, phase'[p] \in WritePhases PROVE possible' = {Found'}
  BY <1>0, <1>5 DEF LockInv, WritePhases
<1>6. ASSUME NEW p \in Process, phase[p] \in WritePhases,
             NEW h, phase' = [phase EXCEPT ![p] = h], h # "reading"
      PROVE possible' = {Found'}
  <2>1. phase'[r] = IF r = p THEN h ELSE phase[r] BY <1>0, <1>6 DEF LockInv
  <2> QED BY <1>0, <2>1, <1>6, NoOtherReads
<1>7. ASSUME NEW p \in Process, phase[p] \in WritePhases, phase' = phase PROVE possible' = {Found'}
  BY <1>0, <1>7, NoOtherReads
<1>8. ASSUME NEW p \in Process, NEW h, phase' = [phase EXCEPT ![p] = h], h # "reading",
             file' = file, possible' = possible
      PROVE possible' = {Found'}
  <2>1. phase'[r] = IF r = p THEN h ELSE phase[r] BY <1>0, <1>8 DEF LockInv
  <2> QED BY <2>1, <1>8, <1>1
<1>9. ASSUME NEW p \in Process, Act(p), ~ProcessCrash(p) PROVE possible' = {Found'}
  <2>1. CASE FileOperation(p) BY <1>0, <2>1, <1>7 DEF FileOperation, LockInv
  <2>2. ASSUME NEW place \in {"opening", "beginning", "recovering"}, StartInit(p, place) PROVE possible' = {Found'}
    BY <2>2, <1>8 DEF StartInit, Goto
  <2>3. CASE Open(p) \/ BeginWrite(p) \/ Recover(p) BY <2>2, <2>3 DEF Open, BeginWrite, Recover
  <2>4. CASE Opened(p) \/ Recovered(p) \/ EndRead(p)
    <3>1. \E h \in {"failed", "idle", "relocking"} : phase' = [phase EXCEPT ![p] = h]
      BY <2>4 DEF Opened, Recovered, EndRead, Goto
    <3> QED BY <3>1, <2>4, <1>8 DEF Opened, Recovered, EndRead
  <2>5. CASE Began(p) \/ EndWrite(p)
    <3>1. phase[p] \in WritePhases BY <2>5 DEF Began, EndWrite, WritePhases
    <3>2. \E h \in {"failed", "idle", "writing"} : phase' = [phase EXCEPT ![p] = h]
      BY <2>5 DEF Began, EndWrite, Goto
    <3> QED BY <3>1, <3>2, <1>6
  <2>6. CASE BeginRead(p) \/ Relock(p)
    <3>1. file' = file BY <2>6 DEF BeginRead, Relock
    <3>2. possible' = {Found} BY <1>0, <2>6, <3>1, ReaderInv
    <3> QED BY <3>1, <3>2 DEF Found
  <2>8. CASE BeginTimedOut(p) BY <2>8, <1>8 DEF BeginTimedOut, Goto
  <2>9. CASE \E w \in Writes : Write(p, w[1], w[2], w[3])
    BY <2>9, <1>0, <1>7 DEF Write, Carry, Calling, Ready, WritePhases
  <2>10. CASE \E n \in Sizes : SetFileLength(p, n)
    BY <2>10, <1>0, <1>7 DEF SetFileLength, Carry, Calling, Ready, WritePhases
  <2>11. CASE BeginNested(p) \/ CommitNested(p) \/ RollbackNested(p)
    BY <2>11, <1>1 DEF BeginNested, CommitNested, RollbackNested
  <2>12. CASE Commit(p) \/ Rollback(p)
    <3>1. phase[p] \in WritePhases BY <2>12 DEF Commit, Rollback, Ready, WritePhases
    <3>2. \E h \in {"committing", "rolling"} : phase' = [phase EXCEPT ![p] = h]
      BY <2>12 DEF Commit, Rollback, Goto
    <3> QED BY <3>1, <3>2, <1>6
  <2> QED BY <1>9, <2>1, <2>3, <2>4, <2>5, <2>6, <2>8, <2>9, <2>10, <2>11, <2>12 DEF Act
<1> QED BY <1>2, <1>3, <1>4, <1>9 DEF Next

(* Nobody reads at first.                                                   *)
LEMMA InitReaders == ASSUME Init PROVE ReadersSeeCommitted
BY DEF Init, ReadersSeeCommitted, SeesCommitted

-----------------------------------------------------------------------------
(* What the invariant shows of the state.                                   *)
LEMMA InvReads ==
    ASSUME FileInv
    PROVE  ReadsItsOwnWrites
<1> SUFFICES ASSUME NEW p \in Process, Ready(p) PROVE Content(file, txn.size) = Last(working)
  BY DEF ReadsItsOwnWrites
<1>1. Underway(file, images, <<>>, txn, working, possible) BY ReadyFields
<1>2. PICK b : Serves(Disk(file, images), txn, working, possible, b) BY <1>1, UnderwayNow
<1> DEFINE c == Last(working)
           n == txn.size
<1>3. Writing(file, images, txn, b) /\ Fits(txn) /\ Holds(file, txn, c) BY <1>2, ServesFields
<1>4. c \in Seq(Values) /\ Len(c) = n /\ n \in Nat /\ \A m \in 1 .. n : file.data[m] = c[m]
  BY <1>3, ContentType DEF Holds
<1>5. \A m \in 1 .. n : PageAt(file, m) = file.data[m] BY <1>3, PageInPlace
<1> HIDE DEF c, n
<1>6. Content(file, n) = [m \in 1 .. n |-> c[m]] BY <1>4, <1>5 DEF Content
<1>7. [m \in 1 .. n |-> c[m]] = c BY <1>4
<1> QED BY <1>6, <1>7 DEF c, n

(* The steps of the abstract file.                                          *)
Changes(old, x) ==
    \/ \E n \in 1 .. Len(x), v \in Values :
          /\ Len(x) = IF n > Len(old) THEN n ELSE Len(old)
          /\ \A page \in 1 .. Len(x) : x[page] = IF page = n THEN v ELSE IF page <= Len(old) THEN old[page] ELSE x[page]
    \/ \A page \in 1 .. Len(x) : x[page] = IF page <= Len(old) THEN old[page] ELSE x[page]

(* A content replaced is a modification of the abstract file.               *)
LEMMA ReplacedModify ==
    ASSUME NEW x \in Contents, Replaced(working, x, working'), working \in Seq(Contents), Len(working) > 0,
           possible' = possible, NEW old, old = working[Len(working)], Len(old) \in Nat, Changes(old, x)
    PROVE  Abstract!Modify
<1>1. /\ Len(working') = Len(working) /\ working'[Len(working)] = x
      /\ \A level \in 1 .. Len(working) - 1 : working'[level] = working[level]
  BY DEF Replaced
<1>2. Len(x) \in Nat /\ \A page \in 1 .. Len(x) : x[page] \in Values /\ page \in Nat BY ContentType
<1>3. \/ \E first \in 1 .. Len(x), value \in Values :
            \E last \in first .. Len(x) :
               /\ Len(x) = IF last > Len(old) THEN last ELSE Len(old)
               /\ \A page \in 1 .. Len(x) :
                      \/ page \in first .. last /\ x[page] = value
                      \/ page \in 1 .. Len(old) /\ page \notin first .. last /\ x[page] = old[page]
                      \/ page > Len(old) /\ page \notin first .. last /\ x[page] \in Values
      \/ \A page \in 1 .. Len(x) : IF page <= Len(old) THEN x[page] = old[page] ELSE x[page] \in Values
  <2>1. CASE \E n \in 1 .. Len(x), v \in Values :
                /\ Len(x) = IF n > Len(old) THEN n ELSE Len(old)
                /\ \A page \in 1 .. Len(x) : x[page] = IF page = n THEN v ELSE IF page <= Len(old) THEN old[page] ELSE x[page]
    <3>1. PICK n \in 1 .. Len(x), v \in Values :
                /\ Len(x) = IF n > Len(old) THEN n ELSE Len(old)
                /\ \A page \in 1 .. Len(x) : x[page] = IF page = n THEN v ELSE IF page <= Len(old) THEN old[page] ELSE x[page]
      BY <2>1
    <3>2. n \in Nat /\ n \in n .. Len(x) BY <1>2
    <3>3. ASSUME NEW page \in 1 .. Len(x)
          PROVE  \/ page \in n .. n /\ x[page] = v
                 \/ page \in 1 .. Len(old) /\ page \notin n .. n /\ x[page] = old[page]
                 \/ page > Len(old) /\ page \notin n .. n /\ x[page] \in Values
      <4>1. page \in n .. n <=> page = n BY <1>2, <3>2
      <4>2. CASE page = n BY <4>1, <4>2, <3>1
      <4>3. CASE page # n /\ page <= Len(old)
        <5>1. page \in 1 .. Len(old) BY <4>3, <1>2
        <5> QED BY <5>1, <4>1, <4>3, <3>1
      <4>4. CASE page # n /\ ~(page <= Len(old))
        <5>1. page > Len(old) BY <4>4, <1>2
        <5> QED BY <5>1, <4>1, <4>4, <1>2
      <4> QED BY <4>2, <4>3, <4>4
    <3> QED BY <3>1, <3>2, <3>3
  <2>2. CASE \A page \in 1 .. Len(x) : x[page] = IF page <= Len(old) THEN old[page] ELSE x[page]
    BY <2>2, <1>2
  <2> QED BY <2>1, <2>2 DEF Changes
<1>4. x = working'[Abstract!Depth] /\ old = Abstract!Innermost /\ Abstract!Depth = Len(working)
  BY <1>1 DEF Abstract!Depth, Abstract!Innermost
<1>5. LET before == Abstract!Innermost
          new == working'[Abstract!Depth]
      IN  \/ \E first \in 1 .. Len(new), value \in Values :
                \E last \in first .. Len(new) :
                   /\ Len(new) = IF last > Len(before) THEN last ELSE Len(before)
                   /\ \A page \in 1 .. Len(new) :
                          \/ page \in first .. last /\ new[page] = value
                          \/ page \in 1 .. Len(before) /\ page \notin first .. last /\ new[page] = before[page]
                          \/ page > Len(before) /\ page \notin first .. last /\ new[page] \in Values
          \/ \A page \in 1 .. Len(new) :
                IF page <= Len(before) THEN new[page] = before[page] ELSE new[page] \in Values
  BY <1>3, <1>4
<1>6. /\ Abstract!Depth > 0 /\ Len(working') = Abstract!Depth
      /\ \A level \in 1 .. Abstract!Depth - 1 : working'[level] = working[level]
  BY <1>1, <1>4
<1> QED BY <1>5, <1>6 DEF Abstract!Modify

(* A write is one,                                                          *)
LEMMA WriteModifies ==
    ASSUME FileInv, LockInv', NEW p \in Process, NEW n \in 1 .. LastPage, NEW v \in Values, Write(p, n, n, v)
    PROVE  Abstract!Modify
<1> DEFINE step == WriteStep(txn, n, n, v, file)
           old == Last(working)
           x == ExpectedIn(file, old, n, n, v, step)
<1>1. WriteCarries(n, v) BY WriteInv
<1>2. working' = Append(Front(working), x) /\ possible' = possible BY DEF Write, Carry, Expected, ExpectedIn
<1>3. /\ Carried(file, images, step, txn, working, possible, x, Larger(txn.size, n))
      /\ working \in Seq(Contents) /\ Len(working) > 0 /\ Len(old) = txn.size
  BY <1>1 DEF WriteCarries
<1>4. \A page \in 1 .. Len(x) :
         x[page] = IF page \in n .. n THEN v ELSE IF page <= Len(old) THEN old[page] ELSE x[page]
  <2>1. Len(x) = step.txn.size
    <3>1. x \in Contents /\ DOMAIN x = 1 .. step.txn.size BY <1>3 DEF Carried, ExpectedIn
    <3>2. x \in Seq(Values) /\ Len(x) \in Nat BY <3>1, ContentType
    <3>3. Underway(file, images, step.ops, step.txn, Append(Front(working), x), possible) BY <1>3 DEF Carried
    <3>4. step.txn.size \in Nat
      <4> DEFINE t == step.txn
                 ops == step.ops
                 u == Append(Front(working), x)
      <4>1. Underway(file, images, ops, t, u, possible) BY <3>3
      <4> HIDE DEF t, ops, u
      <4>2. PICK e, b : Writing(e.file, e.images, t, b) BY <4>1 DEF Underway, Serves
      <4>3. t.size \in Nat BY <4>2, WritingFields, TxnFields
      <4> QED BY <4>3 DEF t
    <3> HIDE DEF x
    <3> QED BY <3>1, <3>2, <3>4
  <2>2. \A page \in 1 .. step.txn.size :
         x[page] = IF page \in n .. n THEN v
                   ELSE IF page <= Len(old) THEN old[page] ELSE PageAt(ApplyAll(file, step.ops), page)
    BY DEF ExpectedIn
  <2> HIDE DEF x, step, old
  <2> QED BY <2>1, <2>2
<1>5. old = working[Len(working)] BY LastOf
<1> HIDE DEF x, step, old
<1>6. /\ x \in Contents /\ Replaced(working, x, working') /\ Len(x) = Larger(txn.size, n)
      /\ Len(x) \in Nat /\ txn.size \in Nat /\ n \in Nat
  <2>1. x \in Contents /\ Replaced(working, x, working') /\ Len(x) = Larger(txn.size, n)
    BY <1>2, <1>3 DEF Carried
  <2>2. old \in Contents
    <3>1. Len(working) \in 1 .. Len(working) BY <1>3
    <3> QED BY <3>1, <1>3, <1>5
  <2> QED BY <2>1, <2>2, <1>3, ContentType, FileImageAssumption
<1>7. n \in 1 .. Len(x) /\ Len(x) = IF n > Len(old) THEN n ELSE Len(old) BY <1>3, <1>6 DEF Larger
<1>8. \A page \in 1 .. Len(x) : x[page] = IF page = n THEN v ELSE IF page <= Len(old) THEN old[page] ELSE x[page]
  BY <1>4, <1>6
<1>9. Changes(old, x) BY <1>7, <1>8 DEF Changes
<1>10. Len(old) \in Nat BY <1>3, <1>6
<1> QED BY <1>2, <1>3, <1>5, <1>6, <1>9, <1>10, ReplacedModify

(* and so is a change of the length.                                        *)
LEMMA LengthModifies ==
    ASSUME FileInv, LockInv', NEW p \in Process, NEW n \in 1 .. LastPage, SetFileLength(p, n)
    PROVE  Abstract!Modify
<1> DEFINE step == SetLengthStep(txn, n, file)
           old == Last(working)
           x == ExpectedIn(file, old, 1, 0, Zero, step)
<1>1. LengthCarries(n) BY SetFileLengthInv
<1>2. working' = Append(Front(working), x) /\ possible' = possible
  BY DEF SetFileLength, Carry, Expected, ExpectedIn
<1>3. /\ Carried(file, images, step, txn, working, possible, x, n)
      /\ working \in Seq(Contents) /\ Len(working) > 0 /\ Len(old) = txn.size
  BY <1>1 DEF LengthCarries
<1>4. DOMAIN x = 1 .. step.txn.size /\ x \in Contents /\ Len(x) = n BY <1>3 DEF Carried, ExpectedIn
<1>5. \A page \in DOMAIN x :
         x[page] = IF page \in 1 .. 0 THEN Zero
                   ELSE IF page <= Len(old) THEN old[page] ELSE PageAt(ApplyAll(file, step.ops), page)
    BY DEF ExpectedIn
<1>6. old = working[Len(working)] BY LastOf
<1> HIDE DEF x, step, old
<1>7. Replaced(working, x, working') BY <1>2, <1>3 DEF Carried
<1>8. Len(old) \in Nat
  <2>1. Len(working) \in 1 .. Len(working) BY <1>3
  <2>2. old \in Contents BY <2>1, <1>3, <1>6
  <2> QED BY <2>2, ContentType
<1>9. \A page \in 1 .. Len(x) : x[page] = IF page <= Len(old) THEN old[page] ELSE x[page]
  <2>1. DOMAIN x = 1 .. Len(x) BY <1>4, ContentType
  <2>2. \A page \in 1 .. Len(x) : page \notin 1 .. 0
    <3>1. \A page \in 1 .. Len(x) : page >= 1 /\ page \in Int OBVIOUS
    <3> QED BY <3>1
  <2> QED BY <2>1, <2>2, <1>5
<1>10. Changes(old, x) BY <1>9 DEF Changes
<1> QED BY <1>2, <1>3, <1>4, <1>6, <1>7, <1>8, <1>10, ReplacedModify

(* Nested transactions are the abstract ones.                               *)
LEMMA NestedSteps ==
    ASSUME FileInv, NEW p \in Process, BeginNested(p) \/ CommitNested(p) \/ RollbackNested(p)
    PROVE  Abstract!Nest \/ Abstract!NestedCommit \/ Abstract!NestedRollback
<1>1. Ready(p) BY DEF BeginNested, CommitNested, RollbackNested, Calling
<1>2. Underway(file, images, <<>>, txn, working, possible) BY <1>1, ReadyFields
<1>3. PICK b : Serves(Disk(file, images), txn, working, possible, b) BY <1>2, UnderwayNow
<1>4. working \in Seq(Contents) /\ Len(working) = Top(txn) /\ Len(working) > 0 /\ Last(working) = working[Len(working)]
  BY <1>3, ServesFields
<1>5. CASE BeginNested(p)
  <2>1. working' = Append(working, Last(working)) /\ possible' = possible BY <1>5 DEF BeginNested
  <2> QED BY <2>1, <1>4 DEF Abstract!Nest, Abstract!Depth, Abstract!Innermost
<1>6. CASE CommitNested(p)
  <2>1. /\ working' = Append(SubSeq(working, 1, Len(working) - 2), Last(working)) /\ possible' = possible
        /\ Top(txn) > 1
    BY <1>6 DEF CommitNested
  <2> QED BY <2>1, <1>4 DEF Abstract!NestedCommit, Abstract!Depth, Abstract!Innermost
<1>7. CASE RollbackNested(p)
  <2>1. working' = Front(working) /\ possible' = possible /\ Top(txn) > 1 BY <1>7 DEF RollbackNested
  <2>2. Front(working) = SubSeq(working, 1, Len(working) - 1) BY DEF Front
  <2> QED BY <2>1, <2>2, <1>4 DEF Abstract!NestedRollback, Abstract!Depth
<1> QED BY <1>5, <1>6, <1>7

(* A content that goes on where another ends.                               *)
LEMMA PrefixProlongs ==
    ASSUME NEW old \in Contents, NEW x \in Contents, IsPrefix(old, x)
    PROVE  Abstract!Prolonged(x, old)
<1>1. /\ old \in Seq(Values) /\ x \in Seq(Values) /\ Len(old) \in Nat /\ Len(x) \in Nat
      /\ \A n \in 1 .. Len(x) : x[n] \in Values
  BY ContentType
<1>2. Len(old) <= Len(x) /\ SubSeq(old, 1, Len(old)) = SubSeq(x, 1, Len(old)) BY DEF IsPrefix
<1>3. /\ SubSeq(old, 1, Len(old)) = [n \in 1 .. Len(old) |-> old[n]]
      /\ SubSeq(x, 1, Len(old)) = [n \in 1 .. Len(old) |-> x[n]]
  BY <1>1, <1>2
<1>4. ASSUME NEW n \in 1 .. Len(x) PROVE IF n <= Len(old) THEN x[n] = old[n] ELSE x[n] \in Values
  <2>1. n <= Len(old) => n \in 1 .. Len(old) BY <1>1
  <2> QED BY <1>1, <1>2, <1>3, <2>1
<1> QED BY <1>2, <1>4 DEF Abstract!Prolonged

(* Every step is a step of the abstract file, or a stutter.                 *)
LEMMA NextRefines ==
    ASSUME FileInv, Restrictions, [Next]_vars
    PROVE  [Abstract!Next]_(Abstract!fileVars)
<1>0. LockInv' BY NextLocks DEF FileInv
<1>1. ASSUME UNCHANGED <<possible, working>> PROVE [Abstract!Next]_(Abstract!fileVars) BY <1>1 DEF Abstract!fileVars
<1>2. ASSUME working' = <<>>, possible' = possible PROVE [Abstract!Next]_(Abstract!fileVars)
  BY <1>2 DEF Abstract!Abandon, Abstract!Next
<1>3. CASE UNCHANGED vars BY <1>1, <1>3 DEF vars
<1>4. ASSUME FileInv', working' = <<>>, possible \subseteq possible',
             \A x \in possible' \ possible : \E old \in possible : IsPrefix(old, x)
      PROVE  [Abstract!Next]_(Abstract!fileVars)
  <2>1. possible \subseteq Contents /\ possible' \subseteq Contents BY <1>4 DEF FileInv
  <2>2. ASSUME NEW x \in possible' \ possible PROVE \E old \in possible : Abstract!Prolonged(x, old)
    <3>1. PICK old \in possible : IsPrefix(old, x) BY <1>4
    <3>2. x \in Contents /\ old \in Contents BY <2>1
    <3>3. Abstract!Prolonged(x, old) BY <3>1, <3>2, PrefixProlongs
    <3> QED BY <3>3
  <2>3. Abstract!Abandon BY <1>4, <2>2 DEF Abstract!Abandon
  <2> QED BY <2>3 DEF Abstract!Next
<1>5. CASE MachineCrash BY <1>0, <1>4, <1>5, WritesType, MachineCrashInv
<1>6. ASSUME NEW p \in Process, Act(p) PROVE [Abstract!Next]_(Abstract!fileVars)
  <2>1. CASE FileOperation(p) BY <1>1, <2>1 DEF FileOperation
  <2>2. CASE Open(p) \/ BeginWrite(p) \/ Recover(p)
    <3>1. \E place \in {"opening", "beginning", "recovering"} : StartInit(p, place) BY <2>2, StartsInit
    <3> QED BY <3>1, <1>1 DEF StartInit
  <2>3. CASE Opened(p) \/ Recovered(p) BY <1>1, <2>3 DEF Opened, Recovered
  <2>4. CASE Began(p)
    <3>1. Found \in possible /\ working = <<>> /\ possible' = {Found} /\ working' = <<Found>>
      BY <1>0, <2>4, BeganInv
    <3>2. Abstract!Begin BY <3>1 DEF Abstract!Begin, Abstract!Look
    <3> QED BY <3>2 DEF Abstract!Next
  <2>5. CASE BeginRead(p) \/ Relock(p) \/ BeginTimedOut(p) \/ EndRead(p)
    <3>1. possible' = possible \/ (possible' = {Found} /\ Found \in possible) BY <1>0, <2>5, ReaderInv
    <3>2. working' = working BY <2>5 DEF BeginRead, Relock, BeginTimedOut, EndRead
    <3>3. CASE possible' = possible BY <3>2, <3>3, <1>1
    <3>4. CASE possible' = {Found} /\ Found \in possible
      <4>1. Abstract!Read BY <3>2, <3>4 DEF Abstract!Read, Abstract!Look
      <4> QED BY <4>1 DEF Abstract!Next
    <3> QED BY <3>1, <3>3, <3>4
  <2>6. CASE \E w \in Writes : Write(p, w[1], w[2], w[3])
    <3>1. PICK w \in Writes : Write(p, w[1], w[2], w[3]) BY <2>6
    <3> DEFINE n == w[1]
               v == w[3]
    <3>2. n \in 1 .. LastPage /\ v \in Values /\ Write(p, n, n, v) BY <3>1, WritesType
    <3> HIDE DEF n, v
    <3>3. Abstract!Modify BY <1>0, <3>2, WriteModifies
    <3> QED BY <3>3 DEF Abstract!Next
  <2>7. CASE \E n \in Sizes : SetFileLength(p, n)
    <3>1. PICK n \in Sizes : SetFileLength(p, n) BY <2>7
    <3>2. n \in 1 .. LastPage BY WritesType
    <3>3. Abstract!Modify BY <1>0, <3>1, <3>2, LengthModifies
    <3> QED BY <3>3 DEF Abstract!Next
  <2>8. CASE BeginNested(p) \/ CommitNested(p) \/ RollbackNested(p)
    <3>1. Abstract!Nest \/ Abstract!NestedCommit \/ Abstract!NestedRollback BY <2>8, NestedSteps
    <3> QED BY <3>1 DEF Abstract!Next
  <2>9. CASE Commit(p)
    <3>1. Len(working) = 1 BY <1>0, <2>9, CommitInv
    <3>2. possible' = possible \union {Last(working)} /\ working' = working BY <2>9 DEF Commit
    <3>3. Abstract!StartCommit BY <3>1, <3>2, LastOf DEF Abstract!StartCommit, Abstract!Depth, Abstract!Innermost
    <3> QED BY <3>3 DEF Abstract!Next
  <2>10. CASE Rollback(p) BY <1>2, <2>10 DEF Rollback
  <2>11. CASE EndWrite(p)
    <3>1. /\ phase[p] = "committing" => Len(working) = 1 /\ Last(working) \in possible
          /\ phase[p] = "rolling" => working = <<>>
      BY <1>0, <2>11, EndWriteInv
    <3>2. CASE phase[p] = "committing"
      <4>1. possible' = {Last(working)} /\ working' = <<>> BY <2>11, <3>2 DEF EndWrite
      <4>2. Abstract!FinishCommit
        BY <3>1, <3>2, <4>1, LastOf DEF Abstract!FinishCommit, Abstract!Depth, Abstract!Innermost
      <4> QED BY <4>2 DEF Abstract!Next
    <3>3. CASE phase[p] = "rolling" BY <1>1, <2>11, <3>3 DEF EndWrite, ghosts
    <3> QED BY <2>11, <3>2, <3>3 DEF EndWrite
  <2>12. CASE ProcessCrash(p)
    <3>1. /\ FileInv' /\ possible \subseteq possible' /\ (working' = <<>> \/ (working' = working /\ possible' = possible))
          /\ \A x \in possible' \ possible : \E old \in possible : IsPrefix(old, x)
      BY <1>0, <2>12, WritesType, ProcessCrashInv
    <3> QED BY <3>1, <1>1, <1>4
  <2> QED BY <1>6, <2>1, <2>2, <2>3, <2>4, <2>5, <2>6, <2>7, <2>8, <2>9, <2>10, <2>11, <2>12 DEF Act
<1> QED BY <1>3, <1>5, <1>6 DEF Next

(* NeverCorrupted.                                                          *)
(* "When there is a crash during the transaction the rollback is applied":  *)
(* when every write is of one page, init and rollback always find a log     *)
(* they can apply and a length they can restore, whatever the calls, their  *)
(* nesting, and the crashes of processes and of the machine between any     *)
(* two operations on the file.                                              *)
THEOREM NeverCorruptedHolds == Restrictions => (Spec => []NeverCorrupted)
<1> SUFFICES ASSUME Restrictions PROVE Spec => []NeverCorrupted OBVIOUS
<1>1. Init => FileInv BY InitInv
<1>2. FileInv /\ [Next]_vars => FileInv' BY NextInv
<1>3. FileInv => NeverCorrupted BY DEF FileInv, NeverCorrupted
<1> QED BY <1>1, <1>2, <1>3, PTL DEF Spec

(* ReadersSeeCommitted.                                                     *)
(* A read transaction on a clean file sees one content, whole, as long as it*)
(* lasts, and one that the commits and crashes before it allow: the last    *)
(* that was committed, or the one whose commit a crash cut short, or the old*)
(* one made longer (the locks of begin, commit and rollback, and init).     *)
THEOREM ReadersSeeCommittedHolds == Restrictions => (Spec => []ReadersSeeCommitted)
<1> SUFFICES ASSUME Restrictions PROVE Spec => []ReadersSeeCommitted OBVIOUS
<1>1. Init => FileInv /\ ReadersSeeCommitted BY InitInv, InitReaders
<1>2. FileInv /\ ReadersSeeCommitted /\ [Next]_vars => FileInv' /\ ReadersSeeCommitted'
  BY NextInv, NextReaders
<1> QED BY <1>1, <1>2, PTL DEF Spec

(* ReadsItsOwnWrites.                                                       *)
(* A transaction reads back what it wrote, also after nested transactions   *)
(* were rolled back, the file was made shorter and longer again, or the     *)
(* log was moved out of its way.                                            *)
THEOREM ReadsItsOwnWritesHolds == Restrictions => (Spec => []ReadsItsOwnWrites)
<1> SUFFICES ASSUME Restrictions PROVE Spec => []ReadsItsOwnWrites OBVIOUS
<1>1. Init => FileInv BY InitInv
<1>2. FileInv /\ [Next]_vars => FileInv' BY NextInv
<1>3. FileInv => ReadsItsOwnWrites BY InvReads
<1> QED BY <1>1, <1>2, <1>3, PTL DEF Spec

(* Transactional: the file implements AbstractFile, so a transaction that   *)
(* is cut short by a crash leaves no trace and one whose commit has returned*)
(* is never lost; Next of the model maps to Next of AbstractFile or to a    *)
(* stutter, action by action.                                               *)
THEOREM TransactionalHolds == Restrictions => (Spec => Transactional)
<1> SUFFICES ASSUME Restrictions PROVE Spec => Transactional OBVIOUS
<1>1. Init => FileInv /\ possible # {} /\ working = <<>> BY InitInv
<1>2. FileInv /\ [Next]_vars => FileInv' BY NextInv
<1>3. FileInv /\ [Next]_vars => [Abstract!Next]_(Abstract!fileVars) BY NextRefines
<1> QED BY <1>1, <1>2, <1>3, PTL DEF Spec, Transactional, Abstract!Spec

===============================================================================
