--------------------------- MODULE DispatcherProofs ---------------------------
(***************************************************************************)
(* Theorems about Dispatcher, for any number of timers, delays and nested  *)
(* calls and for any range of the clock: as long as the callbacks are      *)
(* Careful, a timer runs at most once, is not lost before it has run, and  *)
(* runs neither before its time nor before one that was due earlier.       *)
(*                                                                         *)
(* None of the three is inductive: each needs to know which entries of the *)
(* list the innermost dispatch has already called (Ran), that the list is  *)
(* in order although times are compared across the wrap of the clock       *)
(* (Ordered, Due), and how long ago that dispatch read the clock (Since).  *)
(***************************************************************************)
EXTENDS Dispatcher, WellFoundedInduction, TLAPS

Times == 0 .. Wrap - 1

Entry == [time : Times, timer : Timer, due : Int]

(* The entry is due in so many ticks, and its time says so too, when the   *)
(* clock shows now.                                                        *)
Due(entry, now) ==
    /\ entry.due >= -MaxLate
    /\ Immediate(entry) => entry.due <= 0
    /\ ~Immediate(entry) =>
        /\ \E d \in Delays : entry.due <= d + 1
        /\ entry.time - now - entry.due \in {-Wrap, 0, Wrap}

(* The n immediate timers are in front of the others. *)
Split(list, n) ==
    n \in 0 .. Len(list) /\ \A i \in 1 .. Len(list) : Immediate(list[i]) <=> i <= n

(* A timer is in the list once, and the others in the order of their times. *)
Ordered(list, now) ==
    /\ \A i \in 1 .. Len(list) : Due(list[i], now)
    /\ \A i, j \in 1 .. Len(list) : list[i].timer = list[j].timer => i = j
    /\ \A i, j \in 1 .. Len(list) : i < j /\ ~Immediate(list[i]) => list[i].due <= list[j].due

Sound(list, now, n) == list \in Seq(Entry) /\ Split(list, n) /\ Ordered(list, now)

FrameType == [pc : {"top", "start", "immediate", "delayed", "receive", "callback"},
              kind : {"none", "message", "immediate", "delayed"},
              off : Nat, len : Nat, imm : Nat, now : Int, timeout : Int, loop : BOOLEAN]

TypeOK ==
    /\ clock \in Times
    /\ frames \in Seq(FrameType)
    /\ leaveLoop \in BOOLEAN
    /\ inbox \in Nat
    /\ runs \in [Timer -> {-1, 0, 1}]

(* The loop over the timers of one kind, and the callbacks it calls.       *)
In(stage) == Running /\ (frame.pc = stage \/ (frame.pc = "callback" /\ frame.kind = stage))

(* The entries it has called so far. *)
Walked == IF InCallback THEN frame.off + 1 ELSE frame.off
Ran == IF In("immediate") THEN 1 .. Walked
       ELSE IF In("delayed") THEN frame.imm + 1 .. Walked ELSE {}

(* Careful callbacks start a dispatch of their own only for a message.     *)
Below == \A i \in 1 .. Frames - 1 : frames[i].pc = "callback" /\ frames[i].kind = "message"

(* The clock was read e ticks ago, and what was called since was due then. *)
Since(e) ==
    /\ frame.now \in Times
    /\ frame.now - clock + e \in {0, Wrap}
    /\ \A i \in Ran : timers[i].due <= -e
    /\ Ran = {} => e = 0

AtStage ==
    /\ InCallback => frame.kind # "none"
    /\ At("start") => frame.off = 0
    /\ In("immediate") => Walked <= frame.len /\ frame.len <= Immediates(timers)
    /\ In("delayed") =>
        /\ frame.imm = Immediates(timers) /\ frame.imm <= frame.off /\ Walked <= Len(timers)
        /\ \E e \in 0 .. MaxLate : Since(e)

Accounted ==
    /\ \A i \in 1 .. Len(timers) : runs[timers[i].timer] = IF i \in Ran THEN 1 ELSE 0
    /\ NoTimerLost

(* The inductive invariant. *)
TimerInv ==
    /\ Sound(timers, clock, Immediates(timers))
    /\ TypeOK
    /\ Below
    /\ AtStage
    /\ Accounted

-------------------------------------------------------------------------------
(* The arithmetic of the clock *)

(* A remainder next to the range of the clock.                             *)
LEMMA Remainder ==
    ASSUME NEW W \in Nat \ {0}, NEW x \in Int, -(2 * W) <= x, x < 2 * W
    PROVE  /\ x % W \in 0 .. W - 1
           /\ (x % W) - x \in {-W, 0, W, 2 * W}
<1>1. CASE x < -W
  BY <1>1
<1>2. CASE -W <= x /\ x < 0
  BY <1>2
<1>3. CASE 0 <= x /\ x < W
  BY <1>3
<1>4. CASE W <= x
  BY <1>4
<1> QED
  BY <1>1, <1>2, <1>3, <1>4

(* sub32 is the difference of two times, when that is less than half of    *)
(* the range of the clock.                                                 *)
LEMMA SubIs ==
    ASSUME NEW a \in Times, NEW b \in Times, NEW x \in Int,
           a - b - x \in {-(2 * Wrap), -Wrap, 0, Wrap, 2 * Wrap}, -Wrap < 2 * x, 2 * x < Wrap
    PROVE  Sub(a, b) = x
<1>1. Wrap \in Nat \ {0}
  BY DispatcherAssumption
<1>2. a - b \in Int /\ -(2 * Wrap) <= a - b /\ a - b < 2 * Wrap
  BY <1>1 DEF Times
<1> DEFINE d == (a - b) % Wrap
<1>3. d \in 0 .. Wrap - 1 /\ d - (a - b) \in {-Wrap, 0, Wrap, 2 * Wrap}
  BY <1>1, <1>2, Remainder
<1>4. Sub(a, b) = IF 2 * d >= Wrap THEN d - Wrap ELSE d
  BY DEF Sub
<1> HIDE DEF d
<1>5. d \in Int /\ a \in Int /\ b \in Int
  BY <1>3, <1>1 DEF Times
<1>6. d = x \/ d = x + Wrap
  BY <1>1, <1>3, <1>5
<1> QED
  BY <1>1, <1>3, <1>4, <1>5, <1>6

(* add32 stays in the range of the clock and goes as far as it says.       *)
LEMMA AddIs ==
    ASSUME NEW a \in Times, NEW b \in Nat, b <= Wrap
    PROVE  Add(a, b) \in Times /\ Add(a, b) - a - b \in {-Wrap, 0}
<1>1. Wrap \in Nat \ {0}
  BY DispatcherAssumption
<1>2. a + b \in Int /\ -(2 * Wrap) <= a + b /\ a + b < 2 * Wrap
  BY <1>1 DEF Times
<1>3. (a + b) % Wrap \in 0 .. Wrap - 1 /\ ((a + b) % Wrap) - (a + b) \in {-Wrap, 0, Wrap, 2 * Wrap}
  BY <1>1, <1>2, Remainder
<1> QED
  BY <1>1, <1>2, <1>3 DEF Add, Times

(* A tick. *)
LEMMA TickIs ==
    ASSUME NEW a \in Times
    PROVE  Add(a, 1) \in Times /\ Add(a, 1) - a - 1 \in {-Wrap, 0}
<1>1. PICK b \in Nat : b = 1 /\ b <= Wrap
  BY DispatcherAssumption
<1>2. Add(a, b) \in Times /\ Add(a, b) - a - b \in {-Wrap, 0}
  BY <1>1, AddIs
<1> QED
  BY <1>1, <1>2

-------------------------------------------------------------------------------
(* The list of timers *)

(* The immediate timers are counted by the place where they end.           *)
LEMMA SplitCounts ==
    ASSUME NEW S, NEW list \in Seq(S), NEW n, Split(list, n)
    PROVE  Immediates(list) = n
<1> DEFINE P(k) == /\ \A i \in 1 .. k : Immediate(list[i])
                   /\ k < Len(list) => ~Immediate(list[k + 1])
<1>1. Len(list) \in Nat /\ n \in 0 .. Len(list)
  BY DEF Split
<1>2. P(n)
  BY <1>1 DEF Split
<1>3. ASSUME NEW k \in 0 .. Len(list), P(k) PROVE k = n
  <2>1. ~(k < n)
    <3> SUFFICES ASSUME k < n PROVE FALSE
      OBVIOUS
    <3>1. k + 1 \in 1 .. Len(list) /\ k + 1 <= n /\ k < Len(list)
      BY <1>1
    <3> QED
      BY <1>3, <3>1 DEF Split
  <2>2. ~(n < k)
    <3> SUFFICES ASSUME n < k PROVE FALSE
      OBVIOUS
    <3>1. n + 1 \in 1 .. Len(list) /\ n + 1 \in 1 .. k /\ ~(n + 1 <= n)
      BY <1>1
    <3> QED
      BY <1>3, <3>1 DEF Split
  <2> QED
    BY <1>1, <2>1, <2>2
<1>4. Immediates(list) = CHOOSE k \in 0 .. Len(list) : P(k)
  BY DEF Immediates
<1> HIDE DEF P
<1>5. P(CHOOSE k \in 0 .. Len(list) : P(k)) /\ (CHOOSE k \in 0 .. Len(list) : P(k)) \in 0 .. Len(list)
  BY <1>1, <1>2, Zenon
<1> QED
  BY <1>3, <1>4, <1>5

(* What timers.remove leaves. *)
LEMMA CutAt ==
    ASSUME NEW S, NEW s \in Seq(S), NEW a \in Nat, NEW b \in Nat, a + b <= Len(s)
    PROVE  /\ Cut(s, a, b) \in Seq(S) /\ Len(Cut(s, a, b)) = Len(s) - b
           /\ \A j \in 1 .. Len(s) - b : Cut(s, a, b)[j] = IF j <= a THEN s[j] ELSE s[j + b]
<1>1. Len(s) \in Nat
  OBVIOUS
<1> DEFINE p == SubSeq(s, 1, a)
           q == SubSeq(s, a + b + 1, Len(s))
<1>2. p \in Seq(S) /\ Len(p) = a /\ \A j \in 1 .. a : p[j] = s[j]
  BY <1>1
<1>3. /\ q \in Seq(S) /\ Len(q) = Len(s) - a - b
      /\ \A j \in 1 .. Len(s) - a - b : q[j] = s[a + b + 1 + j - 1]
  BY <1>1
<1>4. Cut(s, a, b) = p \o q
  BY DEF Cut
<1> HIDE DEF p, q
<1>5. p \o q \in Seq(S) /\ Len(p \o q) = Len(p) + Len(q)
  <2>1. \A c \in Seq(S), d \in Seq(S) : c \o d \in Seq(S) /\ Len(c \o d) = Len(c) + Len(d)
    OBVIOUS
  <2> QED
    BY <1>2, <1>3, <2>1, Zenon
<1>6. Len(p) + Len(q) = Len(s) - b
  BY <1>1, <1>2, <1>3
<1>7. ASSUME NEW j \in 1 .. Len(s) - b PROVE (p \o q)[j] = IF j <= a THEN s[j] ELSE s[j + b]
  <2>1. (p \o q)[j] = IF j <= Len(p) THEN p[j] ELSE q[j - Len(p)]
    BY <1>1, <1>2, <1>3, <1>6
  <2>2. CASE j <= a
    BY <1>1, <1>2, <2>1, <2>2
  <2>3. CASE ~(j <= a)
    <3>1. j - a \in 1 .. Len(s) - a - b /\ a + b + 1 + (j - a) - 1 = j + b
      BY <1>1, <2>3
    <3> QED
      BY <1>2, <1>3, <2>1, <2>3, <3>1
  <2> QED
    BY <2>2, <2>3
<1> QED
  BY <1>4, <1>5, <1>6, <1>7

(* What is cut are immediate timers from the front, or what comes behind   *)
(* the immediate ones: m of n immediate timers stay.                       *)
Leaves(n, a, b, m) == (a = 0 /\ b <= n /\ m = n - b) \/ (a = n /\ m = n)

(* Removing immediate timers from the front, or what comes behind them,    *)
(* keeps the list in order.                                                *)
LEMMA CutSound ==
    ASSUME NEW list \in Seq(Entry), NEW now \in Times, NEW n \in Nat, Sound(list, now, n),
           NEW a \in Nat, NEW b \in Nat, a + b <= Len(list),
           NEW m \in Nat, Leaves(n, a, b, m)
    PROVE  Sound(Cut(list, a, b), now, m) /\ Immediates(Cut(list, a, b)) = m
<1>1. list \in Seq(Entry) /\ Len(list) \in Nat /\ n \in 0 .. Len(list)
  BY DEF Sound, Split
<1> DEFINE left == Cut(list, a, b)
           L == Len(list) - b
<1>2. /\ left \in Seq(Entry) /\ Len(left) = L
      /\ \A j \in 1 .. L : left[j] = IF j <= a THEN list[j] ELSE list[j + b]
  <2>1. left \in Seq(Entry) /\ Len(left) = L
    BY <1>1, CutAt
  <2>2. ASSUME NEW j \in 1 .. L PROVE left[j] = IF j <= a THEN list[j] ELSE list[j + b]
    BY <1>1, CutAt
  <2> QED
    BY <2>1, <2>2
<1> HIDE DEF left
<1> DEFINE at(j) == IF j <= a THEN j ELSE j + b
<1>3. ASSUME NEW j \in 1 .. Len(left) PROVE at(j) \in 1 .. Len(list) /\ left[j] = list[at(j)]
  <2>1. j \in 1 .. L /\ j \in Nat /\ j >= 1 /\ j <= Len(list) - b
    BY <1>1, <1>2
  <2>2. CASE j <= a
    BY <1>1, <1>2, <2>1, <2>2
  <2>3. CASE ~(j <= a)
    BY <1>1, <1>2, <2>1, <2>3
  <2> QED
    BY <2>2, <2>3
<1>4. Split(left, m)
  <2>1. m \in 0 .. Len(left)
    BY <1>1, <1>2 DEF Leaves
  <2>2. ASSUME NEW j \in 1 .. Len(left) PROVE Immediate(left[j]) <=> j <= m
    <3>1. at(j) <= n <=> j <= m
      BY <1>1, <1>2 DEF Leaves
    <3> HIDE DEF at
    <3> QED
      BY <1>3, <3>1 DEF Sound, Split
  <2> QED
    BY <2>1, <2>2 DEF Split
<1>5. Ordered(left, now)
  <2>1. ASSUME NEW i \in 1 .. Len(left), NEW j \in 1 .. Len(left) 
        PROVE  (at(i) = at(j) => i = j) /\ (i < j => at(i) < at(j))
    <3>1. i \in Nat /\ j \in Nat
      BY <1>1, <1>2
    <3> QED
      BY <3>1
  <2> HIDE DEF at
  <2>2. \A i \in 1 .. Len(left) : Due(left[i], now)
    BY <1>3 DEF Sound, Ordered
  <2>3. \A i, j \in 1 .. Len(left) : left[i].timer = left[j].timer => i = j
    BY SMTT(40), <1>3, <2>1 DEF Sound, Ordered
  <2>4. ASSUME NEW i \in 1 .. Len(left), NEW j \in 1 .. Len(left), i < j, ~Immediate(left[i])
        PROVE  left[i].due <= left[j].due
    <3>1. /\ at(i) \in 1 .. Len(list) /\ at(j) \in 1 .. Len(list) /\ at(i) < at(j)
          /\ left[i] = list[at(i)] /\ left[j] = list[at(j)]
      BY <1>3, <2>1, <2>4
    <3> QED
      BY <2>4, <3>1 DEF Sound, Ordered
  <2> QED
    BY <2>2, <2>3, <2>4 DEF Ordered
<1> QED
  BY <1>2, <1>4, <1>5, SplitCounts DEF Sound, left

(* A sequence with one more element. *)
LEMMA Inserted ==
    ASSUME NEW S, NEW s \in Seq(S), NEW e \in S, NEW k \in 1 .. Len(s) + 1
    PROVE  /\ InsertAt(s, k, e) \in Seq(S) /\ Len(InsertAt(s, k, e)) = Len(s) + 1
           /\ \A j \in 1 .. Len(s) + 1 :
                 InsertAt(s, k, e)[j] = IF j < k THEN s[j] ELSE IF j = k THEN e ELSE s[j - 1]
<1>1. Len(s) \in Nat /\ k \in Nat /\ k >= 1 /\ k <= Len(s) + 1
  OBVIOUS
<1>2. /\ SubSeq(s, 1, k - 1) \in Seq(S) /\ Len(SubSeq(s, 1, k - 1)) = k - 1
      /\ \A j \in 1 .. k - 1 : SubSeq(s, 1, k - 1)[j] = s[j]
  BY <1>1
<1>3. /\ SubSeq(s, k, Len(s)) \in Seq(S) /\ Len(SubSeq(s, k, Len(s))) = Len(s) - k + 1
      /\ \A j \in 1 .. Len(s) - k + 1 : SubSeq(s, k, Len(s))[j] = s[k + j - 1]
  BY <1>1
<1> DEFINE a == SubSeq(s, 1, k - 1)
           b == SubSeq(s, k, Len(s))
<1>4. InsertAt(s, k, e) = a \o <<e>> \o b
  BY DEF InsertAt
<1> HIDE DEF a, b
<1>5. /\ a \o <<e>> \in Seq(S) /\ Len(a \o <<e>>) = k
      /\ \A j \in 1 .. k : (a \o <<e>>)[j] = IF j < k THEN s[j] ELSE e
  <2>1. a \in Seq(S) /\ Len(a) = k - 1 /\ \A j \in 1 .. k - 1 : a[j] = s[j]
    BY <1>2 DEF a
  <2>2. /\ a \o <<e>> = Append(a, e) /\ Append(a, e) \in Seq(S) /\ Len(Append(a, e)) = Len(a) + 1
        /\ \A j \in 1 .. Len(a) + 1 : Append(a, e)[j] = IF j <= Len(a) THEN a[j] ELSE e
    BY <2>1
  <2>3. Len(a) + 1 = k /\ \A j \in 1 .. k : (j <= Len(a) <=> j < k) /\ (j < k => j \in 1 .. k - 1)
    BY <1>1, <2>1
  <2>4. \A j \in 1 .. k : Append(a, e)[j] = IF j < k THEN s[j] ELSE e
    BY <2>1, <2>2, <2>3
  <2> QED
    BY <2>2, <2>3, <2>4
<1>6. /\ InsertAt(s, k, e) \in Seq(S) /\ Len(InsertAt(s, k, e)) = Len(s) + 1
  <2>1. \A c \in Seq(S), d \in Seq(S) : c \o d \in Seq(S) /\ Len(c \o d) = Len(c) + Len(d)
    OBVIOUS
  <2>2. b \in Seq(S) /\ Len(b) = Len(s) - k + 1
    BY <1>3 DEF b
  <2>3. /\ InsertAt(s, k, e) \in Seq(S)
        /\ Len(InsertAt(s, k, e)) = Len(a \o <<e>>) + Len(b)
    BY ZenonT(60), <1>4, <1>5, <2>1, <2>2
  <2>4. k + (Len(s) - k + 1) = Len(s) + 1
    BY <1>1
  <2> QED
    BY <1>5, <2>2, <2>3, <2>4, Zenon
<1>7. ASSUME NEW j \in 1 .. Len(s) + 1
      PROVE  InsertAt(s, k, e)[j] = IF j < k THEN s[j] ELSE IF j = k THEN e ELSE s[j - 1]
  <2>1. CASE j <= k
    BY <1>1, <1>3, <1>4, <1>5, <2>1 DEF b
  <2>2. CASE j > k
    <3>1. j - k \in 1 .. Len(s) - k + 1 /\ k + (j - k) - 1 = j - 1
      BY <1>1, <2>2
    <3>2. InsertAt(s, k, e)[j] = b[j - k]
      BY SMTT(40), <1>1, <1>3, <1>4, <1>5, <2>2 DEF b
    <3> QED
      BY <1>1, <1>3, <2>2, <3>1, <3>2 DEF b
  <2> QED
    BY <1>1, <2>1, <2>2
<1> QED
  BY <1>6, <1>7

(* ... one at a time. *)
LEMMA InsertedAt ==
    ASSUME NEW S, NEW s \in Seq(S), NEW e \in S, NEW k \in 1 .. Len(s) + 1,
           NEW j \in 1 .. Len(s) + 1
    PROVE  InsertAt(s, k, e)[j] = IF j < k THEN s[j] ELSE IF j = k THEN e ELSE s[j - 1]
BY Inserted

(* A new entry at its place: behind the immediate ones, and an immediate   *)
(* one before all others; the others in the order of their times.          *)
Fits(list, n, entry, k, m) ==
    /\ IF Immediate(entry) THEN k = n + 1 /\ m = n + 1 ELSE k > n /\ m = n
    /\ \A i \in 1 .. Len(list) : i < k /\ ~Immediate(list[i]) => list[i].due <= entry.due
    /\ ~Immediate(entry) => \A i \in 1 .. Len(list) : i >= k => entry.due <= list[i].due

(* It keeps the list in order. *)
LEMMA InsertSound ==
    ASSUME NEW list \in Seq(Entry), NEW now \in Times, NEW n \in Nat, Sound(list, now, n),
           NEW entry \in Entry, Due(entry, now),
           \A i \in 1 .. Len(list) : list[i].timer # entry.timer,
           NEW k \in 1 .. Len(list) + 1, NEW m \in Nat, Fits(list, n, entry, k, m)
    PROVE  Sound(InsertAt(list, k, entry), now, m) /\ Immediates(InsertAt(list, k, entry)) = m
<1> DEFINE more == InsertAt(list, k, entry)
           L == Len(list)
<1>1. L \in Nat /\ n \in 0 .. L /\ k \in Nat /\ k >= 1 /\ k <= L + 1
  BY DEF Sound, Split
<1>2. more \in Seq(Entry) /\ Len(more) = L + 1
  BY Inserted
<1>3. ASSUME NEW j \in 1 .. L + 1
      PROVE  more[j] = IF j < k THEN list[j] ELSE IF j = k THEN entry ELSE list[j - 1]
  BY Inserted
<1> HIDE DEF more
<1> DEFINE at(j) == IF j < k THEN j ELSE j - 1
<1>4. ASSUME NEW j \in 1 .. L + 1, j # k PROVE at(j) \in 1 .. L /\ more[j] = list[at(j)]
  <2>1. CASE j < k
    BY <1>1, <1>3, <2>1
  <2>2. CASE ~(j < k)
    BY <1>1, <1>3, <1>4, <2>2
  <2> QED
    BY <2>1, <2>2
<1>5. more[k] = entry
  BY <1>1, <1>3
<1>6. ASSUME NEW i \in 1 .. L + 1, NEW j \in 1 .. L + 1, i # k, j # k
      PROVE  (at(i) = at(j) => i = j) /\ (i < j => at(i) < at(j))
  <2>1. i \in Nat /\ j \in Nat
    BY <1>1
  <2> QED
    BY <1>1, <1>6, <2>1
<1>7. Split(more, m)
  <2>1. m \in 0 .. L + 1
    BY <1>1 DEF Fits
  <2>2. ASSUME NEW j \in 1 .. L + 1 PROVE Immediate(more[j]) <=> j <= m
    <3>1. CASE j = k
      BY <1>1, <1>5, <3>1 DEF Fits
    <3>2. CASE j # k
      <4>1. at(j) <= n <=> j <= m
        <5>1. j \in Nat /\ (j < k \/ j > k)
          BY <1>1, <3>2
        <5> QED
          BY <1>1, <5>1 DEF Fits
      <4>2. at(j) \in 1 .. L /\ more[j] = list[at(j)]
        BY <1>4, <3>2
      <4> HIDE DEF at
      <4> QED
        BY <4>1, <4>2 DEF Sound, Split
    <3> QED
      BY <3>1, <3>2
  <2> QED
    BY <1>2, <2>1, <2>2 DEF Split
<1>8. Ordered(more, now)
  <2>1. \A j \in 1 .. L + 1 : j # k => at(j) \in 1 .. L /\ more[j] = list[at(j)]
    BY <1>4
  <2>2. \A i, j \in 1 .. L + 1 :
          i # k /\ j # k => (at(i) = at(j) => i = j) /\ (i < j => at(i) < at(j))
    BY <1>6
  <2>3. \A j \in 1 .. L + 1 : j # k => (j < k => at(j) < k) /\ (j > k => at(j) >= k)
    BY <1>1
  <2> HIDE DEF at
  <2>4. \A j \in 1 .. L + 1 : Due(more[j], now)
    BY <1>5, <2>1 DEF Sound, Ordered
  <2>5. ASSUME NEW i \in 1 .. L + 1, NEW j \in 1 .. L + 1, more[i].timer = more[j].timer PROVE i = j
    <3>1. CASE i = k /\ j # k
      BY <1>5, <2>1, <2>5, <3>1
    <3>2. CASE i # k /\ j = k
      BY <1>5, <2>1, <2>5, <3>2
    <3>3. CASE i # k /\ j # k
      <4>1. at(i) \in 1 .. L /\ at(j) \in 1 .. L /\ list[at(i)].timer = list[at(j)].timer
        BY <2>1, <2>5, <3>3
      <4> QED
        BY <2>2, <3>3, <4>1 DEF Sound, Ordered
    <3> QED
      BY <3>1, <3>2, <3>3
  <2>6. ASSUME NEW i \in 1 .. L + 1, NEW j \in 1 .. L + 1, i < j, ~Immediate(more[i])
        PROVE  more[i].due <= more[j].due
    <3>1. CASE i = k /\ j # k
      <4>1. at(j) \in 1 .. L /\ more[j] = list[at(j)] /\ at(j) >= k
        BY <1>1, <2>1, <2>3, <2>6, <3>1
      <4> QED
        BY <1>5, <2>6, <3>1, <4>1 DEF Fits
    <3>2. CASE i # k /\ j = k
      <4>1. at(i) \in 1 .. L /\ more[i] = list[at(i)] /\ at(i) < k
        BY <1>1, <2>1, <2>3, <2>6, <3>2
      <4> QED
        BY <1>5, <2>6, <3>2, <4>1 DEF Fits
    <3>3. CASE i # k /\ j # k
      <4>1. /\ at(i) \in 1 .. L /\ at(j) \in 1 .. L /\ at(i) < at(j)
            /\ more[i] = list[at(i)] /\ more[j] = list[at(j)]
        BY <2>1, <2>2, <2>6, <3>3
      <4> QED
        BY <2>6, <4>1 DEF Sound, Ordered
    <3>4. i # k \/ j # k
      BY <1>1, <2>6
    <3> QED
      BY <3>1, <3>2, <3>3, <3>4
  <2> QED
    BY <1>2, <2>4, <2>5, <2>6 DEF Ordered
<1> QED
  BY <1>2, <1>7, <1>8, SplitCounts DEF Sound, more

(* A set of numbers has a smallest. *)
LEMMA Smallest ==
    ASSUME NEW T \in SUBSET Nat, T # {}
    PROVE  \E x \in T : \A y \in T : x <= y
<1> DEFINE R == {p \in Nat \X Nat : p[1] < p[2]}
<1>1. IsWellFoundedOn(R, Nat)
  BY NatLessThanWellFounded DEF OpToRel
<1>2. PICK x \in T : \A y \in T : ~(<<y, x>> \in R)
  <2> HIDE DEF R
  <2> QED BY <1>1, WFMin
<1>3. \A y \in T : <<y, x>> \in Nat \X Nat /\ ~(y < x)
  BY <1>2
<1>4. ASSUME NEW y \in T PROVE x <= y
  <2>1. x \in Nat /\ y \in Nat
    OBVIOUS
  <2>2. ~(y < x)
    BY <1>3
  <2> QED
    BY <2>1, <2>2
<1> QED
  BY <1>4

(* What run_later computes: a time that is not 0, delay ticks away, or one *)
(* more where the clock wraps.                                             *)
LEMMA NewEntry ==
    ASSUME clock \in Times, NEW t \in Timer, NEW delay \in Delays, 
           NEW due, due = IF delay = 0 THEN 0 ELSE Sub(NextTime(delay), clock),
           NEW entry, entry = [time |-> NextTime(delay), timer |-> t, due |-> due]
    PROVE  /\ entry \in Entry /\ Due(entry, clock)
           /\ Immediate(entry) <=> delay = 0
           /\ ~Immediate(entry) => entry.due >= 1
<1>1. /\ Wrap \in Nat \ {0} /\ MaxLate \in Nat /\ delay \in Nat
      /\ 2 * (delay + 1 + MaxLate) < Wrap
  BY DispatcherAssumption
<1>2. CASE delay = 0
  <2>1. NextTime(delay) = 0 /\ due = 0
    BY <1>2 DEF NextTime
  <2> QED
    BY <1>1, <1>2, <2>1 DEF Entry, Due, Immediate, Times
<1>3. CASE delay # 0
  <2> DEFINE a == Add(clock, delay)
  <2>1. a \in Times /\ a - clock - delay \in {-Wrap, 0}
    BY <1>1, AddIs
  <2>2. NextTime(delay) = IF a = 0 THEN 1 ELSE a
    BY <1>3 DEF NextTime
  <2> HIDE DEF a
  <2>3. PICK x \in {delay, delay + 1} : NextTime(delay) - clock - x \in {-Wrap, 0}
    <3>1. CASE a = 0
      BY <1>1, <2>1, <2>2, <3>1 DEF Times
    <3>2. CASE a # 0
      BY <1>1, <2>1, <2>2, <3>2 DEF Times
    <3> QED
      BY <3>1, <3>2
  <2>4. NextTime(delay) \in Times /\ NextTime(delay) # 0
    BY <1>1, <2>1, <2>2 DEF Times
  <2>5. x \in Int /\ x >= 1 /\ x <= delay + 1 /\ -Wrap < 2 * x /\ 2 * x < Wrap
    BY <1>1, <1>3
  <2>6. due = x
    <3>1. Sub(NextTime(delay), clock) = x
      BY <2>3, <2>4, <2>5, SubIs
    <3> QED
      BY <1>3, <3>1
  <2>7. entry.time = NextTime(delay) /\ entry.due = x /\ ~Immediate(entry) /\ entry \in Entry
    BY <2>4, <2>5, <2>6 DEF Entry, Immediate
  <2>8. entry.time - clock - entry.due \in {-Wrap, 0, Wrap}
    BY <2>3, <2>7
  <2> QED
    BY <1>1, <1>3, <2>5, <2>7, <2>8 DEF Due
<1> QED
  BY <1>2, <1>3

(* How far apart two times are. *)
LEMMA Apart ==
    ASSUME NEW now \in Times, NEW x \in Entry, NEW y \in Entry, Due(x, now), Due(y, now),
           ~Immediate(x), ~Immediate(y)
    PROVE  Sub(x.time, y.time) = x.due - y.due
<1>1. PICK d \in Delays : x.due <= d + 1
  BY DEF Due
<1>2. PICK c \in Delays : y.due <= c + 1
  BY DEF Due
<1>3. /\ Wrap \in Nat \ {0} /\ MaxLate \in Nat /\ d \in Nat /\ c \in Nat
      /\ 2 * (d + 1 + MaxLate) < Wrap /\ 2 * (c + 1 + MaxLate) < Wrap
  BY DispatcherAssumption
<1>4. /\ x.due \in Int /\ y.due \in Int /\ x.time \in Times /\ y.time \in Times
      /\ x.due >= -MaxLate /\ y.due >= -MaxLate
  BY DEF Entry, Due
<1>5. -Wrap < 2 * (x.due - y.due) /\ 2 * (x.due - y.due) < Wrap
  BY <1>1, <1>2, <1>3, <1>4
<1>6. x.time - now - x.due \in {-Wrap, 0, Wrap} /\ y.time - now - y.due \in {-Wrap, 0, Wrap}
  BY DEF Due
<1>7. x.time \in Int /\ y.time \in Int /\ now \in Int
  BY <1>3, <1>4 DEF Times
<1>8. x.time - y.time - (x.due - y.due) \in {-(2 * Wrap), -Wrap, 0, Wrap, 2 * Wrap}
  BY <1>3, <1>4, <1>6, <1>7
<1>9. x.due - y.due \in Int
  BY <1>4
<1> QED
  BY <1>4, <1>5, <1>8, <1>9, SubIs

(* run_later finds the place where a new entry fits. *)
LEMMA PlaceFits ==
    ASSUME clock \in Times, timers \in Seq(Entry), NEW n \in Nat, Sound(timers, clock, n),
           NEW entry \in Entry, Due(entry, clock)
    PROVE  /\ Place(entry.time) \in 1 .. Len(timers) + 1
           /\ Fits(timers, n, entry, Place(entry.time), IF Immediate(entry) THEN n + 1 ELSE n)
<1> DEFINE before == {i \in 1 .. Len(timers) :
                        /\ ~Immediate(timers[i])
                        /\ entry.time = 0 \/ Sub(entry.time, timers[i].time) < 0}
           k == Place(entry.time)
<1>1. Len(timers) \in Nat /\ n \in 0 .. Len(timers) /\ before \in SUBSET Nat
  BY DEF Sound, Split
<1>2. DOMAIN timers = 1 .. Len(timers) /\ \A i \in 1 .. Len(timers) : timers[i] \in Entry
  OBVIOUS
<1>3. k = IF before = {} THEN Len(timers) + 1 ELSE CHOOSE i \in before : \A j \in before : i <= j
  BY <1>2 DEF Place
<1>4. ASSUME NEW i \in 1 .. Len(timers)
      PROVE  i \in before <=> i > n /\ (Immediate(entry) \/ entry.due < timers[i].due)
  <2>1. Immediate(timers[i]) <=> i <= n
    BY DEF Sound, Split
  <2>2. timers[i] \in Entry /\ Due(timers[i], clock)
    BY <1>2 DEF Sound, Ordered
  <2>3. CASE Immediate(timers[i])
    BY <1>1, <2>1, <2>3
  <2>4. CASE ~Immediate(timers[i]) /\ Immediate(entry)
    BY <1>1, <2>1, <2>4 DEF Immediate
  <2>5. CASE ~Immediate(timers[i]) /\ ~Immediate(entry)
    <3>1. Sub(entry.time, timers[i].time) = entry.due - timers[i].due
      BY <2>2, <2>5, Apart
    <3>2. entry.due \in Int /\ timers[i].due \in Int /\ entry.time # 0
      BY <2>2, <2>5 DEF Entry, Immediate
    <3>3. Sub(entry.time, timers[i].time) < 0 <=> entry.due < timers[i].due
      BY <3>1, <3>2
    <3> QED
      BY <1>1, <2>1, <2>5, <3>2, <3>3
  <2> QED
    BY <2>3, <2>4, <2>5
<1>5. /\ k \in 1 .. Len(timers) + 1
      /\ \A i \in before : k <= i
      /\ k \in before \/ (before = {} /\ k = Len(timers) + 1)
  <2> HIDE DEF k
  <2>1. CASE before = {}
    BY <1>1, <1>3, <2>1
  <2>2. CASE before # {}
    <3>1. \E i \in before : \A j \in before : i <= j
      BY <1>1, <2>2, Smallest
    <3>2. before \subseteq 1 .. Len(timers)
      OBVIOUS
    <3> HIDE DEF before
    <3>3. k \in before /\ \A j \in before : k <= j
      BY <1>3, <2>2, <3>1, Zenon
    <3> QED
      BY <1>1, <3>2, <3>3
  <2> QED
    BY <2>1, <2>2
<1> HIDE DEF k, before
<1>6. ~(\E i \in 1 .. Len(timers) : i < k /\ i \in before)
  BY <1>1, <1>5
<1>7. before = {} => \A i \in 1 .. Len(timers) : i \notin before
  OBVIOUS
<1>8. k > n
  BY <1>1, <1>4, <1>5
<1>9. Immediate(entry) => k = n + 1
  <2>1. SUFFICES ASSUME Immediate(entry), k # n + 1 PROVE FALSE
    OBVIOUS
  <2>2. n + 1 \in 1 .. Len(timers) /\ n + 1 < k
    BY <1>1, <1>5, <1>8, <2>1
  <2> QED
    BY <1>1, <1>4, <1>6, <2>1, <2>2
<1>10. ASSUME NEW i \in 1 .. Len(timers), i < k, ~Immediate(timers[i]) PROVE timers[i].due <= entry.due
  <2>1. i > n /\ i \notin before
    BY <1>1, <1>6, <1>10 DEF Sound, Split
  <2>2. ~(entry.due < timers[i].due)
    BY <1>4, <2>1
  <2>3. entry.due \in Int /\ timers[i].due \in Int
    BY <1>2 DEF Entry
  <2> QED
    BY <2>2, <2>3
<1>11. ASSUME ~Immediate(entry), NEW i \in 1 .. Len(timers), i >= k PROVE entry.due <= timers[i].due
  <2>1. k \in before /\ k \in 1 .. Len(timers)
    BY <1>1, <1>5, <1>11
  <2>2. k > n /\ entry.due < timers[k].due
    BY <1>4, <1>11, <2>1
  <2>3. ~Immediate(timers[k])
    BY <1>1, <2>1, <2>2 DEF Sound, Split
  <2>4. k = i \/ k < i
    BY <1>1, <1>11, <2>1
  <2>5. timers[k].due <= timers[i].due
    <3>1. timers[k].due \in Int
      BY <1>2, <2>1 DEF Entry
    <3> QED
      BY <2>1, <2>3, <2>4, <3>1 DEF Sound, Ordered
  <2>6. entry.due \in Int /\ timers[i].due \in Int /\ timers[k].due \in Int
    BY <1>2, <2>1 DEF Entry
  <2> QED
    BY <2>2, <2>5, <2>6
<1>12. Fits(timers, n, entry, k, IF Immediate(entry) THEN n + 1 ELSE n)
  BY <1>8, <1>9, <1>10, <1>11 DEF Fits
<1> QED
  BY <1>5, <1>12 DEF k

-------------------------------------------------------------------------------
(* The stack of frames *)

(* The innermost dispatch goes on. *)
LEMMA Moved ==
    ASSUME frames \in Seq(FrameType), Running, Below, NEW g \in FrameType, Move(g)
    PROVE  /\ frames' \in Seq(FrameType) /\ Frames' = Frames /\ Running'
           /\ frame' = g /\ Below'
<1>1. Len(frames) \in Nat /\ Len(frames) > 0
  BY DEF Running, Frames
<1>2. frames' = [frames EXCEPT ![Len(frames)] = g]
  BY DEF Move, Frames
<1>3. /\ frames' \in Seq(FrameType) /\ Len(frames') = Len(frames)
      /\ frames'[Len(frames)] = g
      /\ \A i \in 1 .. Len(frames) - 1 : frames'[i] = frames[i]
  BY <1>1, <1>2
<1> QED
  BY <1>1, <1>3 DEF Running, Frames, frame, Below

(* It ends, and the callback that called it is one of a message.           *)
LEMMA Popped ==
    ASSUME frames \in Seq(FrameType), Running, Below, frames' = Front(frames)
    PROVE  /\ frames' \in Seq(FrameType) /\ Below'
           /\ Running' => frame'.pc = "callback" /\ frame'.kind = "message"
<1>1. Len(frames) \in Nat /\ Len(frames) > 0
  BY DEF Running, Frames
<1>2. PICK f \in Seq(FrameType) : f = frames
  OBVIOUS
<1>3. /\ frames' \in Seq(FrameType) /\ Len(frames') = Len(frames) - 1
      /\ \A i \in 1 .. Len(frames) - 1 : frames'[i] = frames[i]
  <2>1. Len(f) \in Nat /\ Len(f) > 0
    BY <1>1, <1>2
  <2>2. /\ SubSeq(f, 1, Len(f) - 1) \in Seq(FrameType)
        /\ Len(SubSeq(f, 1, Len(f) - 1)) = Len(f) - 1
        /\ \A i \in 1 .. Len(f) - 1 : SubSeq(f, 1, Len(f) - 1)[i] = f[i]
    <3> DEFINE m == Len(f) - 1
    <3>1. m \in Nat /\ m <= Len(f)
      BY <2>1
    <3> HIDE DEF m
    <3>2. /\ SubSeq(f, 1, m) \in Seq(FrameType) /\ Len(SubSeq(f, 1, m)) = m
          /\ \A i \in 1 .. m : SubSeq(f, 1, m)[i] = f[i]
      BY <3>1
    <3> QED
      BY <3>2 DEF m
  <2>3. frames' = SubSeq(f, 1, Len(f) - 1)
    BY <1>2 DEF Front
  <2> QED
    BY <1>2, <2>2, <2>3, Zenon
<1>4. Below'
  BY <1>1, <1>3 DEF Frames, Below
<1>5. ASSUME Running' PROVE frame'.pc = "callback" /\ frame'.kind = "message"
  <2>1. Len(frames') \in 1 .. Len(frames) - 1
    BY <1>1, <1>3, <1>5 DEF Running, Frames
  <2> QED
    BY <1>3, <2>1 DEF frame, Frames, Below
<1> QED
  BY <1>3, <1>4, <1>5

(* A callback of a message, or the program itself, starts one.             *)
LEMMA Called ==
    ASSUME frames \in Seq(FrameType), Below, 
           Running => frame.pc = "callback" /\ frame.kind = "message",
           NEW g \in FrameType, frames' = Append(frames, g)
    PROVE  frames' \in Seq(FrameType) /\ Running' /\ frame' = g /\ Below'
<1>1. Len(frames) \in Nat
  OBVIOUS
<1>2. /\ frames' \in Seq(FrameType) /\ Len(frames') = Len(frames) + 1
      /\ frames'[Len(frames) + 1] = g
      /\ \A i \in 1 .. Len(frames) : frames'[i] = frames[i]
  BY <1>1
<1>3. ASSUME NEW i \in 1 .. Len(frames)
      PROVE  frames[i].pc = "callback" /\ frames[i].kind = "message"
  <2>1. CASE i = Len(frames)
    BY <1>1, <2>1 DEF Running, Frames, frame
  <2>2. CASE i # Len(frames)
    <3>1. i \in 1 .. Len(frames) - 1
      BY <1>1, <2>2
    <3> QED
      BY <3>1 DEF Below, Frames
  <2> QED
    BY <2>1, <2>2
<1> QED
  BY <1>1, <1>2, <1>3 DEF Running, Frames, frame, Below

(* The frame between two walks of the list, or none.                       *)
Resting ==
    /\ ~In("immediate") /\ ~In("delayed")
    /\ InCallback => frame.kind # "none"
    /\ At("start") => frame.off = 0

(* ... where no entry of the list has been called.                         *)
LEMMA RestingRan == 
    /\ Resting => Ran = {} /\ AtStage
    /\ Resting' => Ran' = {} /\ AtStage'
BY DEF Resting, Ran, AtStage

(* The innermost frame is one of the stack. *)
LEMMA FrameTyped ==
    ASSUME frames \in Seq(FrameType), Running
    PROVE  frame \in FrameType
BY DEF Running, Frames, frame

(* A new frame, and one that receives. *)
LEMMA FreshFrame == Frame \in FrameType /\ Frame.pc = "top" /\ Frame.off = 0
<1>1. -1 \in Int
  OBVIOUS
<1> QED
  BY <1>1 DEF Frame, FrameType

LEMMA ReceivingFrame ==
    ASSUME frames \in Seq(FrameType), Running, NEW timeout \in Int
    PROVE  Receive(timeout) \in FrameType /\ Receive(timeout).pc = "receive"
<1>1. frame.loop \in BOOLEAN
  BY FrameTyped DEF FrameType
<1>2. Frame \in FrameType
  BY FreshFrame
<1>3. Receive(timeout) = [Frame EXCEPT !.pc = "receive", !.timeout = timeout, !.loop = frame.loop]
  BY DEF Receive
<1>4. \A g \in FrameType, l \in BOOLEAN :
         /\ [g EXCEPT !.pc = "receive", !.timeout = timeout, !.loop = l] \in FrameType
         /\ [g EXCEPT !.pc = "receive", !.timeout = timeout, !.loop = l].pc = "receive"
  BY DEF FrameType
<1>5. \A l \in BOOLEAN :
         /\ [Frame EXCEPT !.pc = "receive", !.timeout = timeout, !.loop = l] \in FrameType
         /\ [Frame EXCEPT !.pc = "receive", !.timeout = timeout, !.loop = l].pc = "receive"
  BY <1>2, <1>4, Zenon
<1> QED
  BY <1>1, <1>3, <1>5, Zenon

(* dispatch ends. *)
LEMMA Left ==
    ASSUME frames \in Seq(FrameType), Running, Below, Leave
    PROVE  frames' \in Seq(FrameType) /\ Below' /\ Resting'
<1>1. CASE Move(Frame)
  <2>1. frames' \in Seq(FrameType) /\ Running' /\ frame' = Frame /\ Below'
    <3>1. Frame \in FrameType
      BY FreshFrame
    <3> QED
      BY <1>1, <3>1, Moved
  <2>2. frame'.pc = "top"
    BY <2>1, FreshFrame
  <2> QED
    BY <2>1, <2>2 DEF Resting, In, At, InCallback
<1>2. CASE frames' = Front(frames)
  BY <1>2, Popped DEF Resting, In, At, InCallback
<1> QED
  BY <1>1, <1>2 DEF Leave

-------------------------------------------------------------------------------
(* The steps *)

(* One that leaves the list and the runs alone, between two walks.         *)
LEMMA QuietStep ==
    ASSUME TimerInv, Resting, Resting', TypeOK', Below', UNCHANGED <<timers, clock, runs>>
    PROVE  TimerInv'
<1>1. Ran = {} /\ Ran' = {} /\ AtStage'
  BY RestingRan
<1>2. Immediates(timers)' = Immediates(timers) /\ Sound(timers, clock, Immediates(timers))'
  BY DEF TimerInv
<1>3. Accounted'
  BY <1>1 DEF TimerInv, Accounted, NoTimerLost, Pending, Listed
<1> QED
  BY <1>1, <1>2, <1>3 DEF TimerInv

(* The entries that were called are removed.                               *)
LEMMA Removed ==
    ASSUME TimerInv, NEW a \in Nat, NEW b \in Nat, a + b <= Len(timers),
           Ran = a + 1 .. a + b, Ran' = {}, timers' = Cut(timers, a, b), runs' = runs
    PROVE  Accounted'
<1>1. timers \in Seq(Entry) /\ Len(timers) \in Nat /\ DOMAIN timers = 1 .. Len(timers)
  BY DEF TimerInv, Sound
<1>2. PICK list \in Seq(Entry) : list = timers
  BY <1>1
<1>3. a + b <= Len(list) /\ timers' = Cut(list, a, b)
  BY <1>2
<1>4. ASSUME NEW j \in 1 .. Len(timers) - b
      PROVE  timers'[j] = IF j <= a THEN timers[j] ELSE timers[j + b]
  <2>1. j \in 1 .. Len(list) - b
    BY <1>2
  <2>2. Cut(list, a, b)[j] = IF j <= a THEN list[j] ELSE list[j + b]
    BY ZenonT(60), <1>3, <2>1, CutAt
  <2> QED
    BY <1>2, <1>3, <2>2
<1>5. timers' \in Seq(Entry) /\ Len(timers') = Len(timers) - b
  <2>1. Cut(list, a, b) \in Seq(Entry)
    BY <1>3, CutAt
  <2>2. Len(Cut(list, a, b)) = Len(list) - b
    BY <1>3, CutAt
  <2> QED
    BY <1>2, <1>3, <2>1, <2>2
<1>6. DOMAIN timers' = 1 .. Len(timers) - b
  BY <1>5
<1>7. ASSUME NEW j \in 1 .. Len(timers) - b PROVE runs'[timers'[j].timer] = 0
  <2>1. PICK i \in 1 .. Len(timers) : i \notin Ran /\ timers'[j] = timers[i]
    <3>1. CASE j <= a
      <4>1. j \in 1 .. Len(timers) /\ j \notin Ran
        BY <1>1, <3>1
      <4> QED
        BY <1>4, <3>1, <4>1
    <3>2. CASE ~(j <= a)
      <4>1. j + b \in 1 .. Len(timers) /\ j + b \notin Ran
        BY <1>1, <3>2
      <4> QED
        BY <1>4, <3>2, <4>1
    <3> QED
      BY <3>1, <3>2
  <2> QED
    BY <2>1 DEF TimerInv, Accounted
<1>8. ASSUME NEW t \in Timer, runs'[t] = 0 PROVE \E j \in 1 .. Len(timers) - b : timers'[j].timer = t
  <2>1. PICK i \in 1 .. Len(timers) : timers[i].timer = t
    BY <1>1, <1>8 DEF TimerInv, Accounted, NoTimerLost, Pending, Listed
  <2>2. i \notin Ran
    BY <1>8, <2>1 DEF TimerInv, Accounted
  <2>3. CASE i <= a
    <3>1. i \in 1 .. Len(timers) - b
      BY <1>1, <2>3
    <3>2. timers'[i] = timers[i]
      BY <1>4, <2>3, <3>1
    <3> QED
      BY <2>1, <3>1, <3>2
  <2>4. CASE ~(i <= a)
    <3>1. i > a + b
      BY <1>1, <2>2, <2>4
    <3>2. i - b \in 1 .. Len(timers) - b /\ ~(i - b <= a) /\ i - b + b = i
      BY <1>1, <3>1
    <3>3. timers'[i - b] = timers[i]
      BY <1>4, <3>2
    <3> QED
      BY <2>1, <3>2, <3>3
  <2> QED
    BY <2>3, <2>4
<1>9. Pending' \subseteq Listed'
  BY <1>6, <1>8 DEF Pending, Listed
<1> QED
  BY <1>5, <1>7, <1>9 DEF Accounted, NoTimerLost

(* What the steps start from. *)
LEMMA Shape ==
    ASSUME TimerInv
    PROVE  /\ timers \in Seq(Entry) /\ Len(timers) \in Nat /\ DOMAIN timers = 1 .. Len(timers)
           /\ \A i \in 1 .. Len(timers) : timers[i] \in Entry
           /\ Immediates(timers) \in 0 .. Len(timers)
           /\ frames \in Seq(FrameType) /\ (Running => frame \in FrameType)
           /\ Wrap \in Nat \ {0} /\ MaxLate \in Nat
BY FrameTyped, DispatcherAssumption DEF TimerInv, Sound, Split, TypeOK

(* One that leaves alone the list, the clock, the stack and the runs.      *)
LEMMA OtherStep ==
    ASSUME TimerInv, TypeOK', UNCHANGED <<timers, clock, frames, runs>>
    PROVE  TimerInv'
<1>1. Sound(timers, clock, Immediates(timers))' /\ Below'
  BY DEF TimerInv, Below, Frames
<1>2. AtStage'
  BY DEF TimerInv, AtStage, At, In, InCallback, Running, Frames, frame, Walked, Ran, Since
<1>3. Accounted'
  BY DEF TimerInv, Accounted, NoTimerLost, Pending, Listed, At, In, InCallback, Running, Frames, frame, Walked, Ran
<1> QED
  BY <1>1, <1>2, <1>3 DEF TimerInv

(* A message arrives, and a callback asks for the loop to be left.         *)
LEMMA ArriveStep ==
    ASSUME TimerInv, Arrive \/ LeaveLoop
    PROVE  TimerInv'
<1>1. UNCHANGED <<timers, clock, frames, runs>>
  BY DEF Arrive, LeaveLoop
<1>2. inbox' \in Nat /\ leaveLoop' \in BOOLEAN
  <2>1. CASE Arrive
    BY <2>1 DEF Arrive, TimerInv, TypeOK
  <2>2. CASE LeaveLoop
    BY <2>2 DEF LeaveLoop, TimerInv, TypeOK
  <2> QED
    BY <2>1, <2>2
<1>3. TypeOK'
  BY <1>1, <1>2 DEF TimerInv, TypeOK
<1> QED
  BY <1>1, <1>3, OtherStep

(* A dispatch is called, from the program or from the callback of a message. *)
LEMMA EnterStep ==
    ASSUME Careful, TimerInv, EnterLoop \/ \E timeout \in {-1, 0} : CallDispatch(timeout)
    PROVE  TimerInv'
<1>1. /\ frames \in Seq(FrameType) /\ Below
      /\ Running => frame.pc = "callback" /\ frame.kind = "message"
      /\ UNCHANGED <<timers, clock, leaveLoop, inbox, runs>>
  BY DEF TimerInv, TypeOK, EnterLoop, CallDispatch, MayCall, InCallback, At
<1>2. PICK g \in FrameType : /\ frames' = Append(frames, g) /\ g.off = 0
                            /\ g.pc \in {"top", "start"}
  <2>1. CASE EnterLoop
    BY <2>1, FreshFrame DEF EnterLoop
  <2>2. ASSUME NEW timeout \in {-1, 0}, CallDispatch(timeout)
        PROVE  \E g \in FrameType : /\ frames' = Append(frames, g) /\ g.off = 0
                                    /\ g.pc \in {"top", "start"}
    <3> DEFINE g == [Frame EXCEPT !.pc = "start", !.timeout = timeout, !.loop = FALSE]
    <3>1. timeout \in Int
      OBVIOUS
    <3>2. g \in FrameType /\ g.off = 0 /\ g.pc = "start"
      BY <3>1, FreshFrame DEF FrameType
    <3>3. frames' = Append(frames, g)
      BY <2>2 DEF CallDispatch
    <3> QED
      BY <3>2, <3>3
  <2> QED
    BY <2>1, <2>2
<1>3. frames' \in Seq(FrameType) /\ Running' /\ frame' = g /\ Below'
  BY <1>1, <1>2, Called
<1>4. Resting
  BY <1>1 DEF Resting, In, At, InCallback
<1>5. Resting'
  BY <1>2, <1>3 DEF Resting, In, At, InCallback
<1>6. TypeOK'
  BY <1>1, <1>3 DEF TimerInv, TypeOK
<1> QED
  BY <1>1, <1>3, <1>4, <1>5, <1>6, QuietStep

(* A dispatch between two walks goes on, or ends.                          *)
LEMMA RestStep ==
    ASSUME TimerInv, Again \/ TakeMessage \/ NoMessage \/ (Return /\ frame.kind = "message")
    PROVE  TimerInv'
<1>1. /\ frames \in Seq(FrameType) /\ Below /\ Running
      /\ UNCHANGED <<timers, clock, runs>>
      /\ frame \in FrameType /\ AtStage
  BY Shape DEF TimerInv, Again, TakeMessage, NoMessage, Return, InCallback, At
<1>2. Resting
  BY <1>1 DEF Resting, Again, TakeMessage, NoMessage, Return, In, At, InCallback
<1>3. frames' \in Seq(FrameType) /\ Below' /\ Resting'
  <2>1. CASE Leave
    BY <1>1, <2>1, Left
  <2>2. CASE \E g \in FrameType : /\ Move(g) /\ g.off = 0
                                  /\ \/ g.pc = "start"
                                     \/ g.pc = "callback" /\ g.kind = "message"
    <3>1. PICK g \in FrameType : /\ Move(g) /\ g.off = 0
                                /\ \/ g.pc = "start"
                                   \/ g.pc = "callback" /\ g.kind = "message"
      BY <2>2
    <3>2. frames' \in Seq(FrameType) /\ Running' /\ frame' = g /\ Below'
      BY <1>1, <3>1, Moved
    <3> QED
      BY <3>1, <3>2 DEF Resting, In, At, InCallback
  <2>3. CASE frames' = Front(frames)
    <3>1. /\ frames' \in Seq(FrameType) /\ Below'
          /\ Running' => frame'.pc = "callback" /\ frame'.kind = "message"
      BY <1>1, <2>3, Popped
    <3> QED
      BY <3>1 DEF Resting, In, At, InCallback
  <2>4. CASE Move([Frame EXCEPT !.pc = "start"])
    <3>1. [Frame EXCEPT !.pc = "start"] \in FrameType /\ [Frame EXCEPT !.pc = "start"].pc = "start"
          /\ [Frame EXCEPT !.pc = "start"].off = 0
      BY FreshFrame DEF FrameType
    <3> QED
      BY <2>2, <2>4, <3>1
  <2>5. CASE Move([Frame EXCEPT !.pc = "callback", !.kind = "message", !.loop = frame.loop])
    <3> DEFINE g == [Frame EXCEPT !.pc = "callback", !.kind = "message", !.loop = frame.loop]
    <3>1. g \in FrameType /\ g.pc = "callback" /\ g.kind = "message" /\ g.off = 0
      BY <1>1, FreshFrame DEF FrameType
    <3> QED
      BY <2>2, <2>5, <3>1
  <2> QED
    BY <2>1, <2>3, <2>4, <2>5 DEF Again, TakeMessage, NoMessage, Return
<1>4. TypeOK'
  <2>1. leaveLoop' \in BOOLEAN
    BY DEF TimerInv, TypeOK, Again, TakeMessage, NoMessage, Return
  <2>2. inbox' \in Nat
    <3>1. CASE TakeMessage
      BY <3>1 DEF TimerInv, TypeOK, TakeMessage
    <3>2. CASE Again \/ NoMessage \/ Return
      BY <3>2 DEF TimerInv, TypeOK, Again, NoMessage, Return
    <3> QED
      BY <3>1, <3>2
  <2> QED
    BY <1>1, <1>3, <2>1, <2>2 DEF TimerInv, TypeOK
<1> QED
  BY <1>1, <1>2, <1>3, <1>4, QuietStep

(* A dispatch begins to walk the list, or has nothing to walk.             *)
LEMMA StartStep ==
    ASSUME TimerInv, Start
    PROVE  TimerInv'
<1>1. /\ frames \in Seq(FrameType) /\ Below /\ Running
      /\ UNCHANGED <<timers, clock, leaveLoop, inbox, runs>>
      /\ frame \in FrameType /\ frame.pc = "start" /\ frame.off = 0
      /\ Immediates(timers) \in Nat
  BY Shape DEF TimerInv, AtStage, Start, At
<1>2. Resting /\ Ran = {}
  BY <1>1, RestingRan DEF Resting, In, At, InCallback
<1>3. CASE Move(Receive(frame.timeout))
  <2>1. frame.timeout \in Int
    BY <1>1 DEF FrameType
  <2>2. Receive(frame.timeout) \in FrameType /\ Receive(frame.timeout).pc = "receive"
    BY <1>1, <2>1, ReceivingFrame
  <2>3. frames' \in Seq(FrameType) /\ Running' /\ frame' = Receive(frame.timeout) /\ Below'
    BY <1>1, <1>3, <2>2, Moved
  <2>4. Resting'
    BY <2>2, <2>3 DEF Resting, In, At, InCallback
  <2>5. TypeOK'
    BY <1>1, <2>3 DEF TimerInv, TypeOK
  <2> QED
    BY <1>1, <1>2, <2>3, <2>4, <2>5, QuietStep
<1>4. CASE Move([frame EXCEPT !.pc = "immediate", !.len = Immediates(timers)])
  <2> DEFINE g == [frame EXCEPT !.pc = "immediate", !.len = Immediates(timers)]
  <2>1. g \in FrameType /\ g.pc = "immediate" /\ g.off = 0 /\ g.len = Immediates(timers)
    BY <1>1 DEF FrameType
  <2> HIDE DEF g
  <2>2. frames' \in Seq(FrameType) /\ Running' /\ frame' = g /\ Below'
    <3>1. Move(g)
      BY <1>4 DEF g
    <3> QED
      BY <1>1, <2>1, <3>1, Moved
  <2>3. ~InCallback' /\ ~At("start")' /\ In("immediate")' /\ ~In("delayed")' /\ Walked' = 0
    BY <2>1, <2>2 DEF In, At, InCallback, Walked
  <2>4. Ran' = {}
    BY <2>3 DEF Ran
  <2>5. AtStage'
    BY <1>1, <2>1, <2>2, <2>3 DEF AtStage
  <2>6. TypeOK'
    BY <1>1, <2>2 DEF TimerInv, TypeOK
  <2>7. Accounted'
    BY <1>1, <1>2, <2>4 DEF TimerInv, Accounted, NoTimerLost, Pending, Listed
  <2>8. Sound(timers, clock, Immediates(timers))'
    BY <1>1 DEF TimerInv
  <2> QED
    BY <2>2, <2>5, <2>6, <2>7, <2>8 DEF TimerInv
<1> QED
  BY <1>3, <1>4 DEF Start

(* A timer is called: it had not run, and is one of those that have.       *)
LEMMA CalledNow ==
    ASSUME TimerInv, NEW i \in 1 .. Len(timers), i \notin Ran, Ran' = Ran \cup {i},
           timers' = timers, runs' = [runs EXCEPT ![timers[i].timer] = @ + 1]
    PROVE  /\ runs' \in [Timer -> {-1, 0, 1}] /\ Accounted'
           /\ runs[timers[i].timer] = 0 /\ runs'[timers[i].timer] = 1
           /\ \A t \in Timer : t # timers[i].timer => runs'[t] = runs[t]
<1>1. /\ timers[i].timer \in Timer
      /\ \A j \in 1 .. Len(timers) : timers[j].timer \in Timer
  BY Shape DEF Entry
<1>2. runs \in [Timer -> {-1, 0, 1}] /\ runs[timers[i].timer] = 0
  BY DEF TimerInv, TypeOK, Accounted
<1>3. runs' \in [Timer -> {-1, 0, 1}] /\ runs'[timers[i].timer] = 1
  BY <1>1, <1>2
<1>4. ASSUME NEW t \in Timer, t # timers[i].timer PROVE runs'[t] = runs[t]
  BY <1>2, <1>4
<1>5. ASSUME NEW j \in 1 .. Len(timers)
      PROVE  runs'[timers'[j].timer] = IF j \in Ran' THEN 1 ELSE 0
  <2>1. CASE j = i
    BY <1>3, <2>1
  <2>2. CASE j # i
    <3>1. timers[j].timer # timers[i].timer
      BY <2>2 DEF TimerInv, Sound, Ordered
    <3>2. runs'[timers[j].timer] = runs[timers[j].timer]
      BY <1>1, <1>4, <3>1
    <3>3. j \in Ran' <=> j \in Ran
      BY <2>2
    <3> QED
      BY <3>2, <3>3 DEF TimerInv, Accounted
  <2> QED
    BY <2>1, <2>2
<1>6. NoTimerLost'
  <2>1. Pending' \subseteq Pending
    BY <1>3, <1>4 DEF Pending
  <2>2. Listed' = Listed
    BY DEF Listed
  <2> QED
    BY <2>1, <2>2 DEF TimerInv, Accounted, NoTimerLost
<1> QED
  BY <1>2, <1>3, <1>4, <1>5, <1>6 DEF Accounted

(* The next timer of those that were immediate when the dispatch began.    *)
LEMMA RunImmediateStep ==
    ASSUME TimerInv, RunImmediate
    PROVE  /\ TimerInv'
           /\ LET i == frame.off + 1
              IN  /\ i \in 1 .. Len(timers) /\ i <= Immediates(timers)
                  /\ \A t \in Timer : t # timers[i].timer => runs'[t] = runs[t]
<1>1. /\ frames \in Seq(FrameType) /\ Below /\ Running /\ frame.pc = "immediate"
      /\ UNCHANGED <<timers, clock, leaveLoop, inbox>>
      /\ frame \in FrameType /\ frame.off \in Nat /\ frame.len \in Nat
      /\ Immediates(timers) \in 0 .. Len(timers) /\ Len(timers) \in Nat
  BY Shape DEF TimerInv, RunImmediate, At, Call, FrameType
<1>2. /\ In("immediate") /\ ~InCallback /\ Walked = frame.off /\ Ran = 1 .. frame.off
      /\ frame.len <= Immediates(timers) /\ frame.off < frame.len
  BY <1>1 DEF TimerInv, AtStage, In, At, InCallback, Walked, Ran, RunImmediate
<1> DEFINE i == frame.off + 1
           g == [frame EXCEPT !.pc = "callback", !.kind = "immediate"]
<1>3. i \in 1 .. Len(timers) /\ i <= Immediates(timers) /\ i \notin Ran
  BY <1>1, <1>2
<1>4. /\ g \in FrameType /\ g.pc = "callback" /\ g.kind = "immediate"
      /\ g.off = frame.off /\ g.len = frame.len
  BY <1>1 DEF FrameType
<1>5. Move(g) /\ runs' = [runs EXCEPT ![timers[i].timer] = @ + 1]
  BY DEF RunImmediate, Call
<1> HIDE DEF g
<1>6. frames' \in Seq(FrameType) /\ Running' /\ frame' = g /\ Below'
  BY <1>1, <1>4, <1>5, Moved
<1>7. InCallback' /\ ~At("start")' /\ In("immediate")' /\ ~In("delayed")' /\ Walked' = i
  BY <1>4, <1>6 DEF In, At, InCallback, Walked
<1>8. Ran' = 1 .. i /\ 1 .. i = (1 .. frame.off) \cup {i}
  BY <1>1, <1>7 DEF Ran
<1>9. Ran' = Ran \cup {i}
  BY <1>2, <1>8
<1>10. /\ runs' \in [Timer -> {-1, 0, 1}] /\ Accounted'
       /\ \A t \in Timer : t # timers[i].timer => runs'[t] = runs[t]
  BY <1>1, <1>3, <1>5, <1>9, CalledNow
<1>11. AtStage'
  <2>1. i <= frame.len
    BY <1>1, <1>2
  <2>2. Immediates(timers)' = Immediates(timers)
    BY <1>1
  <2>3. frame'.kind # "none" /\ frame'.len = frame.len
    BY <1>4, <1>6
  <2> QED
    BY <1>2, <1>7, <2>1, <2>2, <2>3 DEF AtStage
<1>12. TypeOK' /\ Sound(timers, clock, Immediates(timers))'
  BY <1>1, <1>6, <1>10 DEF TimerInv, TypeOK
<1> QED
  BY <1>3, <1>6, <1>10, <1>11, <1>12 DEF TimerInv

(* The loop compares a time with the clock it has read: what it gets is    *)
(* when the timer was due at that moment.                                  *)
LEMMA WaitIs ==
    ASSUME TimerInv, At("delayed"), frame.off < Len(timers), NEW e \in 0 .. MaxLate, Since(e)
    PROVE  Wait = timers[frame.off + 1].due + e /\ ~Immediate(timers[frame.off + 1])
<1>1. /\ Running /\ frame.pc = "delayed" /\ frame \in FrameType /\ frame.off \in Nat
      /\ Immediates(timers) \in 0 .. Len(timers) /\ Len(timers) \in Nat
      /\ frame.imm = Immediates(timers) /\ frame.imm <= frame.off
  BY Shape DEF At, FrameType, TimerInv, AtStage, In
<1> DEFINE i == frame.off + 1
<1>2. i \in 1 .. Len(timers) /\ ~(i <= Immediates(timers))
  BY <1>1
<1>3. timers[i] \in Entry /\ ~Immediate(timers[i]) /\ Due(timers[i], clock)
  BY <1>2, Shape DEF TimerInv, Sound, Split, Ordered
<1> DEFINE x == timers[i].due
           a == timers[i].time
<1>4. x \in Int /\ a \in Times /\ x >= -MaxLate /\ a - clock - x \in {-Wrap, 0, Wrap}
  BY <1>3 DEF Entry, Due
<1>5. PICK d \in Delays : x <= d + 1
  BY <1>3 DEF Due
<1>6. Wrap \in Nat \ {0} /\ MaxLate \in Nat /\ d \in Nat /\ 2 * (d + 1 + MaxLate) < Wrap
  BY DispatcherAssumption
<1>7. frame.now \in Times /\ frame.now - clock + e \in {0, Wrap} /\ clock \in Times
  BY DEF Since, TimerInv, TypeOK
<1> HIDE DEF x, a, i
<1>8. e \in Int /\ 0 <= e /\ e <= MaxLate
  BY <1>6
<1>9. x + e \in Int /\ -Wrap < 2 * (x + e) /\ 2 * (x + e) < Wrap
  BY <1>4, <1>5, <1>6, <1>8
<1>10. a - frame.now - (x + e) \in {-(2 * Wrap), -Wrap, 0, Wrap, 2 * Wrap}
  <2>1. a \in Int /\ frame.now \in Int /\ clock \in Int
    BY <1>4, <1>6, <1>7 DEF Times
  <2>2. \A w \in Int : w - clock + e \in {0, Wrap} =>
          a - w - (x + e) \in {-(2 * Wrap), -Wrap, 0, Wrap, 2 * Wrap}
    BY <1>4, <1>6, <1>8, <2>1
  <2> QED
    BY <1>7, <2>1, <2>2
<1>11. Sub(a, frame.now) = x + e
  BY <1>4, <1>7, <1>9, <1>10, SubIs
<1> QED
  BY <1>3, <1>11 DEF Wait, a, x, i

(* The next timer whose time has come. *)
LEMMA RunDelayedStep ==
    ASSUME TimerInv, RunDelayed
    PROVE  /\ TimerInv'
           /\ LET i == frame.off + 1
              IN  /\ i \in 1 .. Len(timers) /\ timers[i].due <= 0
                  /\ \A j \in 1 .. Len(timers) :
                        ~Immediate(timers[j]) /\ j < i => runs[timers[j].timer] = 1
                  /\ \A t \in Timer : t # timers[i].timer => runs'[t] = runs[t]
<1>1. /\ frames \in Seq(FrameType) /\ Below /\ Running /\ frame.pc = "delayed" /\ At("delayed")
      /\ UNCHANGED <<timers, clock, leaveLoop, inbox>>
      /\ frame \in FrameType /\ frame.off \in Nat /\ frame.imm \in Nat
      /\ Immediates(timers) \in 0 .. Len(timers) /\ Len(timers) \in Nat
      /\ frame.off < Len(timers) /\ Wait <= 0
  BY Shape DEF TimerInv, RunDelayed, At, Call, FrameType
<1>2. /\ In("delayed") /\ ~In("immediate") /\ ~InCallback
      /\ Walked = frame.off /\ Ran = frame.imm + 1 .. frame.off
      /\ frame.imm = Immediates(timers) /\ frame.imm <= frame.off
  BY <1>1 DEF TimerInv, AtStage, In, At, InCallback, Walked, Ran
<1>3. PICK e \in 0 .. MaxLate : Since(e)
  BY <1>2 DEF TimerInv, AtStage
<1> DEFINE i == frame.off + 1
           g == [frame EXCEPT !.pc = "callback", !.kind = "delayed"]
<1>4. i \in 1 .. Len(timers) /\ i \notin Ran /\ timers[i].due \in Int
  <2>1. i \in 1 .. Len(timers) /\ i \notin Ran
    BY <1>1, <1>2
  <2>2. timers[i] \in Entry
    BY <2>1, Shape
  <2> QED
    BY <2>1, <2>2 DEF Entry
<1>5. timers[i].due + e <= 0
  BY <1>1, <1>3, WaitIs
<1>6. e \in Nat
  BY DispatcherAssumption
<1>7. timers[i].due <= -e /\ timers[i].due <= 0
  BY <1>4, <1>5, <1>6
<1>8. /\ g \in FrameType /\ g.pc = "callback" /\ g.kind = "delayed"
      /\ g.off = frame.off /\ g.imm = frame.imm /\ g.now = frame.now
  BY <1>1 DEF FrameType
<1>9. Move(g) /\ runs' = [runs EXCEPT ![timers[i].timer] = @ + 1]
  BY DEF RunDelayed, Call
<1> HIDE DEF g
<1>10. frames' \in Seq(FrameType) /\ Running' /\ frame' = g /\ Below'
  BY <1>1, <1>8, <1>9, Moved
<1>11. InCallback' /\ ~At("start")' /\ ~In("immediate")' /\ In("delayed")' /\ Walked' = i
  BY <1>8, <1>10 DEF In, At, InCallback, Walked
<1>12. Ran' = frame.imm + 1 .. i /\ (frame.imm + 1 .. i) = (frame.imm + 1 .. frame.off) \cup {i}
  BY <1>1, <1>2, <1>8, <1>10, <1>11 DEF Ran
<1>13. Ran' = Ran \cup {i}
  BY <1>2, <1>12
<1>14. /\ runs' \in [Timer -> {-1, 0, 1}] /\ Accounted'
       /\ \A t \in Timer : t # timers[i].timer => runs'[t] = runs[t]
  BY <1>1, <1>4, <1>9, <1>13, CalledNow
<1>15. Since(e)'
  <2>1. \A j \in Ran' : timers'[j].due <= -e
    BY <1>1, <1>3, <1>7, <1>13 DEF Since
  <2>2. Ran' # {}
    BY <1>13
  <2>3. frame'.now = frame.now
    BY <1>8, <1>10
  <2> QED
    BY <1>1, <1>3, <2>1, <2>2, <2>3 DEF Since
<1>16. AtStage'
  <2>1. frame'.kind # "none" /\ frame'.imm = frame.imm /\ frame'.off = frame.off
    BY <1>8, <1>10
  <2>2. i <= Len(timers)
    BY <1>4
  <2>3. \E d \in 0 .. MaxLate : Since(d)'
    BY <1>15
  <2> QED
    BY <1>1, <1>2, <1>11, <2>1, <2>2, <2>3 DEF AtStage
<1>17. TypeOK' /\ Sound(timers, clock, Immediates(timers))'
  BY <1>1, <1>10, <1>14 DEF TimerInv, TypeOK
<1>18. ASSUME NEW j \in 1 .. Len(timers), ~Immediate(timers[j]), j < i PROVE runs[timers[j].timer] = 1
  <2>1. ~(j <= Immediates(timers))
    BY <1>18 DEF TimerInv, Sound, Split
  <2>2. j \in Ran
    BY <1>1, <1>2, <1>18, <2>1
  <2> QED
    BY <2>2 DEF TimerInv, Accounted
<1> QED
  BY <1>4, <1>7, <1>10, <1>14, <1>16, <1>17, <1>18 DEF TimerInv

(* The callback of a timer returns: the loop steps over it.                *)
LEMMA ReturnStep ==
    ASSUME TimerInv, Return, frame.kind # "message"
    PROVE  TimerInv'
<1>1. /\ frames \in Seq(FrameType) /\ Below /\ Running /\ frame.pc = "callback"
      /\ UNCHANGED <<timers, clock, leaveLoop, inbox, runs>>
      /\ frame \in FrameType /\ frame.off \in Nat /\ frame.imm \in Nat
      /\ frame.kind \in {"immediate", "delayed"}
  BY Shape DEF TimerInv, AtStage, Return, InCallback, At, FrameType
<1>2. PICK r \in FrameType, k \in {"immediate", "delayed"} : r = frame /\ k = frame.kind
  BY <1>1
<1>3. PICK g : g = [r EXCEPT !.pc = k, !.kind = "none", !.off = @ + 1]
  OBVIOUS
<1>4. /\ g \in FrameType /\ g.pc = frame.kind /\ g.kind = "none" /\ g.off = frame.off + 1
      /\ g.imm = frame.imm /\ g.len = frame.len /\ g.now = frame.now
  <2>1. /\ g \in FrameType /\ g.pc = k /\ g.kind = "none" /\ g.off = r.off + 1
        /\ g.imm = r.imm /\ g.len = r.len /\ g.now = r.now
    <3>1. r.off + 1 \in Nat
      BY DEF FrameType
    <3>2. /\ g.pc = k /\ g.kind = "none" /\ g.off = r.off + 1
          /\ g.imm = r.imm /\ g.len = r.len /\ g.now = r.now
      BY <1>3 DEF FrameType
    <3>3. CASE k = "immediate"
      BY <1>3, <3>1, <3>3 DEF FrameType
    <3>4. CASE k = "delayed"
      BY <1>3, <3>1, <3>4 DEF FrameType
    <3> QED
      BY <3>2, <3>3, <3>4
  <2> QED
    BY <1>2, <2>1
<1>5. Move(g)
  BY <1>2, <1>3 DEF Return
<1>6. frames' \in Seq(FrameType) /\ Running' /\ frame' = g /\ Below'
  BY <1>1, <1>4, <1>5, Moved
<1>7. /\ ~InCallback' /\ ~At("start")'
      /\ In("immediate")' <=> In("immediate")
      /\ In("delayed")' <=> In("delayed")
      /\ Walked = frame.off + 1 /\ Walked' = frame.off + 1
  BY <1>1, <1>4, <1>6 DEF In, At, InCallback, Walked
<1>8. frame'.imm = frame.imm /\ frame'.len = frame.len /\ frame'.now = frame.now
  BY <1>4, <1>6
<1>9. Ran' = Ran
  BY <1>7, <1>8 DEF Ran
<1>10. \A e \in 0 .. MaxLate : Since(e) => Since(e)'
  BY <1>1, <1>8, <1>9 DEF Since
<1>11. AtStage'
  <2>1. frame.imm <= frame.off => frame.imm <= frame'.off
    BY <1>1, <1>4, <1>6
  <2> QED
    BY <1>1, <1>7, <1>8, <1>10, <2>1 DEF TimerInv, AtStage
<1>12. Accounted'
  BY <1>1, <1>9 DEF TimerInv, Accounted, NoTimerLost, Pending, Listed
<1>13. TypeOK' /\ Sound(timers, clock, Immediates(timers))'
  BY <1>1, <1>6 DEF TimerInv, TypeOK
<1> QED
  BY <1>6, <1>11, <1>12, <1>13 DEF TimerInv

(* The immediate timers that ran are removed, and the clock is read.       *)
LEMMA ImmediatesStep ==
    ASSUME TimerInv, ImmediatesDone
    PROVE  TimerInv'
<1>1. /\ frames \in Seq(FrameType) /\ Below /\ Running /\ frame.pc = "immediate"
      /\ UNCHANGED <<clock, leaveLoop, inbox, runs>> /\ clock \in Times
      /\ frame \in FrameType /\ frame.off \in Nat /\ frame.off = frame.len
      /\ timers \in Seq(Entry) /\ Len(timers) \in Nat
      /\ Immediates(timers) \in 0 .. Len(timers)
  BY Shape DEF TimerInv, TypeOK, ImmediatesDone, At, FrameType
<1>2. /\ In("immediate") /\ ~InCallback /\ Walked = frame.off /\ Ran = 1 .. frame.off
      /\ frame.off <= Immediates(timers)
  BY <1>1 DEF TimerInv, AtStage, In, At, InCallback, Walked, Ran
<1>3. PICK list \in Seq(Entry), n \in Nat, b \in Nat, m \in Nat :
         list = timers /\ n = Immediates(timers) /\ b = frame.off /\ m = n - b
  BY <1>1, <1>2
<1>4. Leaves(n, 0, b, m) /\ 0 + b <= Len(list) /\ b <= n /\ 0 \in Nat
  BY <1>1, <1>2, <1>3 DEF Leaves
<1>5. Sound(list, clock, n)
  BY <1>3 DEF TimerInv
<1>6. Sound(Cut(list, 0, b), clock, m) /\ Immediates(Cut(list, 0, b)) = m
  BY <1>1, <1>4, <1>5, CutSound
<1>7. timers' = Cut(list, 0, b) /\ timers' = Cut(timers, 0, frame.off)
  BY <1>3 DEF ImmediatesDone
<1>8. Sound(timers, clock, Immediates(timers))' /\ Immediates(timers') = m
  BY <1>1, <1>6, <1>7
<1>9. Len(timers') \in Nat /\ m <= Len(timers')
  BY <1>8 DEF Sound, Split
<1>10. PICK timeout \in Int :
          \/ Move(Receive(timeout))
          \/ Move([frame EXCEPT !.pc = "delayed", !.off = m, !.imm = m, !.now = clock, !.timeout = timeout])
  <2>1. PICK t \in Int : t = IF m # 0 THEN 0 ELSE frame.timeout
    BY <1>1 DEF FrameType
  <2>2. \/ Move(Receive(t))
        \/ Move([frame EXCEPT !.pc = "delayed", !.off = m, !.imm = m, !.now = clock, !.timeout = t])
    <3> DEFINE left == Cut(timers, 0, frame.off)
               timeout == IF Immediates(left) # 0 THEN 0 ELSE frame.timeout
    <3>1. Move(IF Immediates(left) = Len(left) THEN Receive(timeout)
               ELSE [frame EXCEPT !.pc = "delayed", !.off = Immediates(left), !.imm = Immediates(left),
                                  !.now = clock, !.timeout = timeout])
      BY DEF ImmediatesDone
    <3>2. Immediates(left) = m
      BY <1>7, <1>8
    <3> HIDE DEF left
    <3>3. CASE m = Len(left)
      BY <2>1, <3>1, <3>2, <3>3
    <3>4. CASE m # Len(left)
      BY <2>1, <3>1, <3>2, <3>4
    <3> QED
      BY <3>3, <3>4
  <2> QED
    BY <2>2, Zenon
<1>11. /\ frames' \in Seq(FrameType) /\ Below' /\ Running'
       /\ \/ frame'.pc = "receive"
          \/ frame'.pc = "delayed" /\ frame'.off = m /\ frame'.imm = m /\ frame'.now = clock
  <2>1. CASE Move(Receive(timeout))
    <3>1. Receive(timeout) \in FrameType /\ Receive(timeout).pc = "receive"
      BY <1>1, ReceivingFrame
    <3>2. frames' \in Seq(FrameType) /\ Running' /\ frame' = Receive(timeout) /\ Below'
      BY <1>1, <2>1, <3>1, Moved
    <3> QED
      BY <3>1, <3>2
  <2>2. CASE Move([frame EXCEPT !.pc = "delayed", !.off = m, !.imm = m, !.now = clock, !.timeout = timeout])
    <3>1. PICK r \in FrameType : r = frame
      BY <1>1
    <3>2. PICK g : g = [r EXCEPT !.pc = "delayed", !.off = m, !.imm = m, !.now = clock, !.timeout = timeout]
      OBVIOUS
    <3>3. clock \in Int
      BY <1>1, DispatcherAssumption DEF Times
    <3>4. /\ g \in FrameType /\ g.pc = "delayed" /\ g.off = m /\ g.imm = m /\ g.now = clock
      BY <3>2, <3>3 DEF FrameType
    <3>5. Move(g)
      BY <2>2, <3>1, <3>2
    <3>6. frames' \in Seq(FrameType) /\ Running' /\ frame' = g /\ Below'
      BY <1>1, <3>4, <3>5, Moved
    <3> QED
      BY <3>4, <3>6
  <2> QED
    BY <1>10, <2>1, <2>2
<1>12. ~InCallback' /\ ~At("start")' /\ ~In("immediate")' /\ Ran' = {}
  <2>1. ~InCallback' /\ ~At("start")' /\ ~In("immediate")'
    BY <1>11 DEF In, At, InCallback
  <2>2. CASE frame'.pc = "receive"
    BY <2>1, <2>2 DEF In, At, InCallback, Ran
  <2>3. CASE frame'.pc = "delayed" /\ frame'.off = m /\ frame'.imm = m
    <3>1. Walked' = m /\ m + 1 .. m = {}
      BY <2>1, <2>3 DEF Walked
    <3> QED
      BY <2>1, <2>3, <3>1 DEF Ran
  <2> QED
    BY <1>11, <2>1, <2>2, <2>3
<1>13. AtStage'
  <2>1. CASE frame'.pc = "receive"
    BY <1>12, <2>1 DEF AtStage, In, At, InCallback
  <2>2. CASE frame'.pc = "delayed" /\ frame'.off = m /\ frame'.imm = m /\ frame'.now = clock
    <3>1. Since(0)'
      BY <1>1, <1>12, <2>2, DispatcherAssumption DEF Since, Times
    <3>2. 0 \in 0 .. MaxLate
      BY DispatcherAssumption
    <3>3. Walked' = m
      BY <1>12, <2>2 DEF Walked
    <3> QED
      BY <1>8, <1>9, <1>12, <2>2, <3>1, <3>2, <3>3 DEF AtStage
  <2> QED
    BY <1>11, <2>1, <2>2
<1>14. Accounted'
  <2>1. Ran = 0 + 1 .. 0 + b
    BY <1>2, <1>3
  <2>2. timers' = Cut(timers, 0, b) /\ 0 + b <= Len(timers)
    BY <1>3, <1>4, <1>7
  <2> QED
    BY <1>1, <1>4, <1>12, <2>1, <2>2, Removed
<1>15. TypeOK'
  BY <1>1, <1>11 DEF TimerInv, TypeOK
<1> QED
  BY <1>8, <1>11, <1>13, <1>14, <1>15 DEF TimerInv

(* The loop has met a timer that is not due, or the end of the list.       *)
LEMMA DelayedStep ==
    ASSUME TimerInv, DelayedDone
    PROVE  TimerInv'
<1>1. /\ frames \in Seq(FrameType) /\ Below /\ Running /\ frame.pc = "delayed" /\ At("delayed")
      /\ UNCHANGED <<clock, leaveLoop, inbox, runs>> /\ clock \in Times
      /\ frame \in FrameType /\ frame.off \in Nat /\ frame.imm \in Nat /\ frame.timeout \in Int
      /\ timers \in Seq(Entry) /\ Len(timers) \in Nat
      /\ Immediates(timers) \in 0 .. Len(timers)
  BY Shape DEF TimerInv, TypeOK, DelayedDone, At, FrameType
<1>2. /\ In("delayed") /\ ~In("immediate") /\ ~InCallback
      /\ Walked = frame.off /\ Ran = frame.imm + 1 .. frame.off
      /\ frame.imm = Immediates(timers) /\ frame.imm <= frame.off /\ frame.off <= Len(timers)
  BY <1>1 DEF TimerInv, AtStage, In, At, InCallback, Walked, Ran
<1>3. PICK e \in 0 .. MaxLate : Since(e)
  BY <1>2 DEF TimerInv, AtStage
<1>4. PICK timeout \in Int : Move(Receive(timeout))
  <2>1. CASE frame.off >= Len(timers) /\ Move(Receive(frame.timeout))
    BY <1>1, <2>1
  <2>2. CASE frame.off < Len(timers) /\ Move(Receive(IF frame.timeout < 0 \/ Wait < frame.timeout THEN Wait ELSE frame.timeout))
    <3>1. Wait = timers[frame.off + 1].due + e
      BY <1>1, <1>3, <2>2, WaitIs
    <3>2. e \in Int /\ timers[frame.off + 1].due \in Int
      <4>1. frame.off + 1 \in 1 .. Len(timers)
        BY <1>1, <2>2
      <4> QED
        BY <4>1, Shape, DispatcherAssumption DEF Entry
    <3>3. Wait \in Int
      BY <3>1, <3>2
    <3>4. CASE frame.timeout < 0 \/ Wait < frame.timeout
      BY <2>2, <3>3, <3>4
    <3>5. CASE ~(frame.timeout < 0 \/ Wait < frame.timeout)
      BY <1>1, <2>2, <3>5
    <3> QED
      BY <3>4, <3>5
  <2> QED
    BY <2>1, <2>2 DEF DelayedDone
<1>5. Receive(timeout) \in FrameType /\ Receive(timeout).pc = "receive"
  BY <1>1, ReceivingFrame
<1>6. frames' \in Seq(FrameType) /\ Running' /\ frame' = Receive(timeout) /\ Below'
  BY <1>1, <1>4, <1>5, Moved
<1>7. Resting'
  BY <1>5, <1>6 DEF Resting, In, At, InCallback
<1>8. Ran' = {} /\ AtStage'
  BY <1>7, RestingRan
<1>9. PICK list \in Seq(Entry), n \in Nat, b \in Nat :
         list = timers /\ n = Immediates(timers) /\ b = frame.off - frame.imm
  BY <1>1, <1>2
<1>10. Leaves(n, n, b, n) /\ n + b <= Len(list) /\ n + b = frame.off /\ n = frame.imm
  BY <1>1, <1>2, <1>9 DEF Leaves
<1>11. Sound(list, clock, n)
  BY <1>9 DEF TimerInv
<1>12. Sound(Cut(list, n, b), clock, n) /\ Immediates(Cut(list, n, b)) = n
  BY <1>1, <1>10, <1>11, CutSound
<1>13. timers' = Cut(list, n, b)
  BY <1>9, <1>10 DEF DelayedDone
<1>14. Sound(timers, clock, Immediates(timers))'
  BY <1>1, <1>12, <1>13
<1>15. Accounted'
  <2>1. Ran = n + 1 .. n + b
    BY <1>2, <1>10
  <2>2. timers' = Cut(timers, n, b) /\ n + b <= Len(timers)
    BY <1>9, <1>10, <1>13
  <2> QED
    BY <1>1, <1>8, <2>1, <2>2, Removed
<1>16. TypeOK'
  BY <1>1, <1>6 DEF TimerInv, TypeOK
<1> QED
  BY <1>6, <1>8, <1>14, <1>15, <1>16 DEF TimerInv

(* A callback throws: the dispatch ends, and has removed what it called.   *)
LEMMA ThrowStep ==
    ASSUME Careful, TimerInv, Throw
    PROVE  TimerInv'
<1>1. /\ frames \in Seq(FrameType) /\ Below /\ Running /\ frame.pc = "callback" /\ InCallback
      /\ UNCHANGED <<clock, leaveLoop, inbox, runs>> /\ clock \in Times
      /\ frame \in FrameType /\ frame.off \in Nat /\ frame.imm \in Nat /\ frame.len \in Nat
      /\ timers \in Seq(Entry) /\ Len(timers) \in Nat
      /\ Immediates(timers) \in 0 .. Len(timers)
      /\ frame.kind \in {"message", "immediate", "delayed"} /\ Leave
      /\ frame.kind = "delayed" => frame.imm = 0
  BY SMTT(40), Shape DEF TimerInv, TypeOK, AtStage, Throw, InCallback, At, FrameType
<1>2. frames' \in Seq(FrameType) /\ Below' /\ Resting'
  BY <1>1, Left
<1>3. TypeOK'
  BY <1>1, <1>2 DEF TimerInv, TypeOK
<1>4. CASE frame.kind = "message"
  <2>1. Resting /\ UNCHANGED <<timers, clock, runs>>
    BY <1>1, <1>4 DEF Resting, In, At, InCallback, Throw
  <2> QED
    BY <1>2, <1>3, <2>1, QuietStep
<1>5. CASE frame.kind # "message"
  <2>1. PICK list \in Seq(Entry), n \in Nat, b \in Nat :
           list = timers /\ n = Immediates(timers) /\ b = frame.off + 1
    BY <1>1
  <2>2. timers' = Cut(list, 0, b) /\ timers' = Cut(timers, 0, b)
    BY <1>5, <2>1 DEF Throw
  <2>3. 0 \in Nat /\ 0 + b <= Len(list) /\ Ran = 0 + 1 .. 0 + b
        /\ \E m \in Nat : Leaves(n, 0, b, m)
    <3>1. Walked = b
      BY <1>1, <2>1 DEF Walked
    <3>2. CASE frame.kind = "immediate"
      <4>1. In("immediate") /\ b <= n /\ n <= Len(list)
        BY <1>1, <2>1, <3>1, <3>2 DEF TimerInv, AtStage, In
      <4>2. Leaves(n, 0, b, n - b) /\ n - b \in Nat
        BY <4>1 DEF Leaves
      <4>3. Ran = 1 .. b
        BY <3>1, <4>1 DEF Ran
      <4> QED
        BY <2>1, <4>1, <4>2, <4>3
    <3>3. CASE frame.kind = "delayed"
      <4>1. In("delayed") /\ ~In("immediate") /\ n = 0 /\ b <= Len(list) /\ frame.imm = 0
        BY <1>1, <2>1, <3>1, <3>3 DEF TimerInv, AtStage, In
      <4>2. Leaves(n, 0, b, 0)
        BY <4>1 DEF Leaves
      <4>3. Ran = 1 .. b
        BY <3>1, <4>1 DEF Ran
      <4> QED
        BY <2>1, <4>1, <4>2, <4>3
    <3> QED
      BY <1>1, <1>5, <3>2, <3>3
  <2>4. PICK m \in Nat : Leaves(n, 0, b, m)
    BY <2>3
  <2>5. Sound(list, clock, n)
    BY <2>1 DEF TimerInv
  <2>6. Sound(Cut(list, 0, b), clock, m) /\ Immediates(Cut(list, 0, b)) = m
    BY <1>1, <2>3, <2>4, <2>5, CutSound
  <2>7. Sound(timers, clock, Immediates(timers))'
    BY <1>1, <2>2, <2>6
  <2>8. Ran' = {} /\ AtStage'
    BY <1>2, RestingRan
  <2>9. Accounted'
    <3>1. 0 + b <= Len(timers)
      BY <2>1, <2>3
    <3> QED
      BY <1>1, <2>2, <2>3, <2>8, <3>1, Removed
  <2> QED
    BY <1>2, <1>3, <2>7, <2>8, <2>9 DEF TimerInv
<1> QED
  BY <1>4, <1>5

(* run_later, by the program or by a callback: the new entry stands behind *)
(* those that were called.                                                 *)
LEMMA LaterStep ==
    ASSUME Careful, TimerInv, NEW t \in Timer, NEW delay \in Delays, RunLater(t, delay)
    PROVE  /\ TimerInv'
           /\ \A u \in Timer : runs[u] = 0 => runs'[u] = 0
<1> DEFINE due == IF delay = 0 THEN 0 ELSE Sub(NextTime(delay), clock)
           record == [time |-> NextTime(delay), timer |-> t, due |-> due]
<1>1. /\ timers \in Seq(Entry) /\ Len(timers) \in Nat /\ DOMAIN timers = 1 .. Len(timers)
      /\ \A i \in 1 .. Len(timers) : timers[i] \in Entry
      /\ Immediates(timers) \in 0 .. Len(timers)
      /\ UNCHANGED <<clock, frames, leaveLoop, inbox>> /\ clock \in Times
      /\ runs \in [Timer -> {-1, 0, 1}] /\ runs[t] = -1
      /\ ~Running \/ InCallback
  BY Shape DEF TimerInv, TypeOK, RunLater
<1>2. PICK entry : entry = record
  OBVIOUS
<1>3. /\ entry \in Entry /\ Due(entry, clock)
      /\ Immediate(entry) <=> delay = 0
      /\ ~Immediate(entry) => entry.due >= 1
  BY <1>1, <1>2, NewEntry
<1>4. entry.time = NextTime(delay) /\ entry.timer = t
  BY <1>2
<1>5. PICK list \in Seq(Entry), n \in Nat, k \in 1 .. Len(timers) + 1, m \in Nat :
         /\ list = timers /\ n = Immediates(timers)
         /\ k = Place(entry.time) /\ m = IF Immediate(entry) THEN n + 1 ELSE n
         /\ Fits(list, n, entry, k, m) /\ Sound(list, clock, n)
  <2>1. PICK n \in Nat : n = Immediates(timers)
    BY <1>1
  <2>2. Sound(timers, clock, n)
    BY <2>1 DEF TimerInv
  <2>3. /\ Place(entry.time) \in 1 .. Len(timers) + 1
        /\ Fits(timers, n, entry, Place(entry.time), IF Immediate(entry) THEN n + 1 ELSE n)
    BY <1>1, <1>3, <2>2, PlaceFits
  <2>4. (IF Immediate(entry) THEN n + 1 ELSE n) \in Nat
    OBVIOUS
  <2> QED
    BY <1>1, <2>1, <2>2, <2>3, <2>4, Zenon
<1>6. timers' = InsertAt(list, k, entry) /\ runs' = [runs EXCEPT ![t] = 0]
  BY <1>2, <1>4, <1>5 DEF RunLater
<1> HIDE DEF record, due
<1>7. \A i \in 1 .. Len(list) : list[i].timer # entry.timer
  <2>1. ASSUME NEW i \in 1 .. Len(timers) PROVE timers[i].timer # t
    <3>1. runs[timers[i].timer] # -1
      BY DEF TimerInv, Accounted
    <3> QED
      BY <1>1, <3>1
  <2> QED
    BY <1>4, <1>5, <2>1
<1>8. k \in 1 .. Len(list) + 1
  BY <1>5
<1>9. Sound(InsertAt(list, k, entry), clock, m) /\ Immediates(InsertAt(list, k, entry)) = m
  BY SMTT(40), <1>1, <1>3, <1>5, <1>7, <1>8, InsertSound
<1>10. Sound(timers, clock, Immediates(timers))' /\ Immediates(timers') = m
  BY <1>1, <1>6, <1>9
<1>11. /\ Len(timers') = Len(timers) + 1 /\ DOMAIN timers' = 1 .. Len(timers) + 1
       /\ \A j \in 1 .. Len(timers) + 1 :
             timers'[j] = IF j < k THEN timers[j] ELSE IF j = k THEN entry ELSE timers[j - 1]
  <2>1. InsertAt(list, k, entry) \in Seq(Entry) /\ Len(InsertAt(list, k, entry)) = Len(list) + 1
    BY <1>3, <1>8, Inserted
  <2>2. ASSUME NEW j \in 1 .. Len(list) + 1
        PROVE  InsertAt(list, k, entry)[j] = IF j < k THEN list[j] ELSE IF j = k THEN entry ELSE list[j - 1]
    <3>1. entry \in Entry
      BY <1>3
    <3> QED
      BY <1>8, <3>1, InsertedAt
  <2>3. timers' \in Seq(Entry) /\ Len(timers') = Len(timers) + 1
    BY <1>5, <1>6, <2>1
  <2>4. DOMAIN timers' = 1 .. Len(timers) + 1
    BY <2>3
  <2>5. ASSUME NEW j \in 1 .. Len(timers) + 1
        PROVE  timers'[j] = IF j < k THEN timers[j] ELSE IF j = k THEN entry ELSE timers[j - 1]
    BY <1>5, <1>6, <2>2
  <2> QED
    BY <2>3, <2>4, <2>5
<1>12. runs' \in [Timer -> {-1, 0, 1}] /\ runs'[t] = 0 /\ \A u \in Timer : u # t => runs'[u] = runs[u]
  BY <1>1, <1>6
<1>13. Below' /\ Ran' = Ran /\ frame' = frame
       /\ (In("immediate")' <=> In("immediate")) /\ (In("delayed")' <=> In("delayed"))
       /\ (InCallback' <=> InCallback) /\ (At("start")' <=> At("start")) /\ Walked' = Walked
  BY <1>1 DEF TimerInv, Below, Frames, Ran, Walked, In, At, InCallback, Running, frame
<1>14. ASSUME In("delayed") PROVE ~Immediate(entry) /\ Immediates(timers') = Immediates(timers)
  <2>1. /\ Running /\ frame.pc = "callback" /\ frame.kind = "delayed" 
        /\ Frames \in 1 .. Frames
    BY <1>1, <1>14, Shape DEF In, InCallback, At, Running, Frames
  <2>2. \E i \in 1 .. Frames : frames[i].pc = "callback" /\ frames[i].kind = "delayed"
    BY <2>1 DEF frame
  <2>3. delay # 0
    BY <2>2 DEF RunLater
  <2> QED
    BY <1>3, <1>5, <1>10, <2>3
<1>15. Immediates(timers') >= Immediates(timers)
  BY <1>5, <1>10
<1>16. ASSUME NEW i \in Ran PROVE i \in 1 .. Len(timers) /\ i < k
  <2>1. CASE In("immediate")
    <3>1. i \in 1 .. Walked /\ Walked <= frame.len /\ frame.len <= n
      BY <1>5, <1>16, <2>1 DEF Ran, TimerInv, AtStage
    <3>2. frame.len \in Nat /\ n <= Len(timers)
      BY <1>1, <1>5, <2>1, Shape DEF In, FrameType
    <3>3. k > n
      BY <1>5 DEF Fits
    <3>4. Walked \in Nat
      BY <2>1, Shape DEF In, FrameType, Walked
    <3> QED
      <4>1. i \in Nat /\ i >= 1 /\ i <= Walked
        BY <3>1, <3>4
      <4>2. i <= n
        BY <3>1, <3>2, <3>4, <4>1
      <4>3. k \in Nat
        BY <1>1
      <4> QED
        BY <1>1, <3>2, <3>3, <4>1, <4>2, <4>3
  <2>2. CASE ~In("immediate")
    <3>1. In("delayed")
      BY <1>16, <2>2 DEF Ran
    <3>2. PICK e \in 0 .. MaxLate : Since(e)
      BY <3>1 DEF TimerInv, AtStage
    <3>3. /\ i \in frame.imm + 1 .. Walked /\ Walked <= Len(timers) /\ frame.imm = n
          /\ Walked \in Nat
      BY SMTT(40), <1>5, <1>16, <2>2, <3>1, Shape DEF Ran, TimerInv, AtStage, Walked, In, FrameType
    <3>4. i \in 1 .. Len(timers) /\ ~(i <= n)
      <4>1. Len(timers) \in Nat /\ Walked \in Nat /\ Walked <= Len(timers) /\ i \in n + 1 .. Walked
        BY <1>1, <3>3
      <4> QED
        BY <4>1
    <3>5. timers[i].due <= -e /\ timers[i].due \in Int
      BY <1>1, <1>16, <3>2, <3>4 DEF Since, Entry
    <3>6. e \in Nat /\ entry.due \in Int
      BY <1>3, DispatcherAssumption DEF Entry
    <3>7. ~(entry.due <= timers[i].due)
      BY <1>3, <1>14, <3>1, <3>5, <3>6
    <3>8. ~(i >= k)
      BY <1>5, <1>14, <3>1, <3>4, <3>7 DEF Fits
    <3> QED
      BY <1>5, <3>4, <3>8
  <2> QED
    BY <2>1, <2>2
<1>17. \A i \in Ran : timers'[i] = timers[i]
  BY <1>1, <1>5, <1>11, <1>16
<1>18. AtStage'
  <2>1. In("immediate") => Walked <= frame.len /\ frame.len <= Immediates(timers')
    <3>1. ASSUME In("immediate") PROVE frame.len \in Nat /\ frame.len <= Immediates(timers)
      BY <3>1, Shape DEF In, FrameType, TimerInv, AtStage
    <3>2. Immediates(timers') \in Nat /\ Immediates(timers) \in Nat
      BY <1>1, <1>5, <1>10
    <3> QED
      BY <1>15, <3>1, <3>2 DEF TimerInv, AtStage
  <2>2. In("delayed") => /\ frame.imm = Immediates(timers') /\ frame.imm <= frame.off 
                         /\ Walked <= Len(timers')
    <3>1. ASSUME In("delayed") PROVE Walked \in Nat /\ Walked <= Len(timers)
      BY <3>1, Shape DEF In, FrameType, TimerInv, AtStage, Walked
    <3> QED
      BY <1>1, <1>11, <1>14, <3>1 DEF TimerInv, AtStage
  <2>3. \A e \in 0 .. MaxLate : Since(e) => Since(e)'
    BY <1>1, <1>13, <1>17 DEF Since
  <2> QED
    BY <1>13, <2>1, <2>2, <2>3 DEF TimerInv, AtStage
<1>19. ASSUME NEW j \in 1 .. Len(timers') PROVE runs'[timers'[j].timer] = IF j \in Ran' THEN 1 ELSE 0
  <2>1. j \in 1 .. Len(timers) + 1 /\ k \in Nat /\ k >= 1
    BY <1>1, <1>5, <1>11
  <2>2. ASSUME NEW i \in 1 .. Len(timers) 
        PROVE  runs'[timers[i].timer] = IF i \in Ran THEN 1 ELSE 0
    <3>1. timers[i].timer # t /\ timers[i].timer \in Timer
      BY <1>1, <1>4, <1>5, <1>7 DEF Entry
    <3> QED
      BY <1>12, <3>1 DEF TimerInv, Accounted
  <2>3. CASE j < k
    <3>1. j \in 1 .. Len(timers)
      BY <1>1, <1>5, <2>1, <2>3
    <3> QED
      BY <1>11, <1>13, <2>1, <2>2, <2>3, <3>1
  <2>4. CASE j = k
    <3>1. timers'[j].timer = t /\ j \notin Ran
      BY <1>4, <1>11, <1>16, <2>1, <2>4
    <3> QED
      BY <1>12, <1>13, <3>1
  <2>5. CASE j > k
    <3>1. j - 1 \in 1 .. Len(timers) /\ ~(j < k) /\ j # k /\ ~(j - 1 < k)
      BY <1>1, <2>1, <2>5
    <3>2. timers'[j] = timers[j - 1] /\ j \notin Ran /\ j - 1 \notin Ran
      BY <1>11, <1>16, <2>1, <3>1
    <3> QED
      BY <1>13, <2>2, <3>1, <3>2
  <2> QED
    BY <2>1, <2>3, <2>4, <2>5
<1>20. NoTimerLost'
  <2>1. ASSUME NEW u \in Timer, runs'[u] = 0 PROVE \E j \in 1 .. Len(timers) + 1 : timers'[j].timer = u
    <3>1. CASE u = t
      <4>1. k \in 1 .. Len(timers) + 1 /\ timers'[k] = entry
        BY <1>5, <1>11
      <4> QED
        BY <1>4, <3>1, <4>1
    <3>2. CASE u # t
      <4>1. PICK i \in 1 .. Len(timers) : timers[i].timer = u
        BY <1>1, <1>12, <2>1, <3>2 DEF TimerInv, Accounted, NoTimerLost, Pending, Listed
      <4>2. CASE i < k
        <5>1. i \in 1 .. Len(timers) + 1 /\ timers'[i] = timers[i]
          BY <1>1, <1>11, <4>2
        <5> QED
          BY <4>1, <5>1
      <4>3. CASE ~(i < k)
        <5>1. i + 1 \in 1 .. Len(timers) + 1 /\ ~(i + 1 < k) /\ i + 1 # k /\ i + 1 - 1 = i
          BY <1>1, <1>5, <4>3
        <5>2. timers'[i + 1] = timers[i]
          BY <1>11, <5>1
        <5> QED
          BY <4>1, <5>1, <5>2
      <4> QED
        BY <4>2, <4>3
    <3> QED
      BY <3>1, <3>2
  <2> QED
    BY <1>11, <2>1 DEF NoTimerLost, Pending, Listed
<1>21. TypeOK'
  BY <1>1, <1>12 DEF TimerInv, TypeOK
<1>22. \A u \in Timer : runs[u] = 0 => runs'[u] = 0
  BY <1>1, <1>12
<1> QED
  BY <1>10, <1>13, <1>18, <1>19, <1>20, <1>21, <1>22 DEF TimerInv, Accounted

(* A tick of the clock brings each time one tick nearer, across the wrap.  *)
LEMMA Nearer ==
    ASSUME NEW now \in Times, NEW next, next = Add(now, 1), NEW x \in Entry, Due(x, now), x.due > -MaxLate,
           NEW y, y = [x EXCEPT !.due = @ - 1]
    PROVE  /\ y \in Entry /\ Due(y, next) /\ y.due = x.due - 1 /\ y.timer = x.timer
           /\ Immediate(y) <=> Immediate(x)
<1>1. Wrap \in Nat \ {0} /\ MaxLate \in Nat
  BY DispatcherAssumption
<1>2. x.due \in Int /\ x.time \in Times /\ x.timer \in Timer
  BY DEF Entry
<1>3. y \in Entry /\ y.due = x.due - 1 /\ y.timer = x.timer /\ y.time = x.time
  BY <1>2 DEF Entry
<1>4. Immediate(y) <=> Immediate(x)
  BY <1>3 DEF Immediate
<1>5. next \in Times /\ next - now - 1 \in {-Wrap, 0}
  BY TickIs
<1>6. y.due >= -MaxLate /\ (Immediate(y) => y.due <= 0)
  BY <1>1, <1>2, <1>3, <1>4 DEF Due
<1>7. ASSUME ~Immediate(y)
      PROVE  /\ \E d \in Delays : y.due <= d + 1
             /\ y.time - next - y.due \in {-Wrap, 0, Wrap}
  <2>1. PICK d \in Delays : x.due <= d + 1
    BY <1>4, <1>7 DEF Due
  <2>2. d \in Nat /\ 2 * (d + 1 + MaxLate) < Wrap
    BY DispatcherAssumption
  <2>3. y.due <= d + 1
    BY <1>2, <1>3, <2>1, <2>2
  <2>4. x.time - now - x.due \in {-Wrap, 0, Wrap}
    BY <1>4, <1>7 DEF Due
  <2>5. x.time \in Int /\ now \in Int /\ next \in Int /\ x.time < Wrap /\ next >= 0
    BY <1>1, <1>2, <1>5 DEF Times
  <2>6. x.time - next - (x.due - 1) \in {-Wrap, 0, Wrap, 2 * Wrap}
    BY <1>1, <1>2, <1>5, <2>4, <2>5
  <2>7. x.time - next - (x.due - 1) < 2 * Wrap
    BY <1>1, <1>2, <2>2, <2>5
  <2>8. y.time - next - y.due \in {-Wrap, 0, Wrap}
    BY <1>1, <1>2, <1>3, <2>5, <2>6, <2>7
  <2> QED
    BY <2>3, <2>8
<1> QED
  BY <1>3, <1>4, <1>6, <1>7 DEF Due

(* A millisecond passes. *)
LEMMA TickStep ==
    ASSUME TimerInv, Tick
    PROVE  TimerInv' /\ runs' = runs
<1>1. /\ timers \in Seq(Entry) /\ Len(timers) \in Nat /\ DOMAIN timers = 1 .. Len(timers)
      /\ \A i \in 1 .. Len(timers) : timers[i] \in Entry
      /\ Immediates(timers) \in 0 .. Len(timers)
      /\ frames \in Seq(FrameType) /\ (Running => frame \in FrameType)
      /\ Wrap \in Nat \ {0} /\ MaxLate \in Nat /\ clock \in Times
      /\ UNCHANGED <<leaveLoop, inbox, runs>> /\ Below
      /\ clock' = Add(clock, 1)
      /\ ~Running \/ InCallback \/ At("receive")
  BY Shape DEF TimerInv, TypeOK, Tick
<1>2. \A i \in 1 .. Len(timers) : timers[i].due > -MaxLate
  BY <1>1 DEF Tick
<1>3. clock' \in Times /\ clock' - clock - 1 \in {-Wrap, 0}
  BY <1>1, TickIs
<1>4. /\ timers' = [i \in 1 .. Len(timers) |-> [timers[i] EXCEPT !.due = @ - 1]]
      /\ \A i \in 1 .. Len(timers) : timers'[i] = [timers[i] EXCEPT !.due = @ - 1]
  BY <1>1 DEF Tick
<1>5. ASSUME NEW i \in 1 .. Len(timers)
      PROVE  /\ timers'[i] \in Entry /\ Due(timers'[i], clock')
             /\ timers'[i].due = timers[i].due - 1 /\ timers'[i].timer = timers[i].timer
             /\ Immediate(timers'[i]) <=> Immediate(timers[i])
             /\ timers[i].due \in Int
  <2>1. timers[i] \in Entry /\ Due(timers[i], clock) /\ timers[i].due > -MaxLate
    BY <1>1, <1>2 DEF TimerInv, Sound, Ordered
  <2>2. PICK x \in Entry : x = timers[i]
    BY <2>1
  <2>3. PICK y : y = [x EXCEPT !.due = @ - 1]
    OBVIOUS
  <2>4. y = timers'[i]
    BY <1>4, <2>2, <2>3
  <2>5. /\ y \in Entry /\ Due(y, clock') /\ y.due = x.due - 1 /\ y.timer = x.timer
        /\ Immediate(y) <=> Immediate(x)
    BY <1>1, <2>1, <2>2, <2>3, Nearer
  <2> QED
    BY <2>2, <2>4, <2>5 DEF Entry
<1>6. timers' \in Seq(Entry) /\ Len(timers') = Len(timers) /\ DOMAIN timers' = 1 .. Len(timers)
  <2>1. PICK L \in Nat, list \in {timers'} : list = timers' /\ L = Len(timers)
    BY <1>1, Zenon
  <2>2. list = [i \in 1 .. L |-> [timers[i] EXCEPT !.due = @ - 1]]
    BY <1>4, <2>1
  <2>3. list = [i \in 1 .. L |-> list[i]]
    BY <2>2, Zenon
  <2>4. \A i \in 1 .. L : list[i] \in Entry
    BY <1>5, <2>1
  <2>5. list \in Seq(Entry) /\ Len(list) = L /\ DOMAIN list = 1 .. L
    BY <2>3, <2>4
  <2> QED
    BY <2>1, <2>5
<1>7. Split(timers', Immediates(timers))
  BY <1>5, <1>6 DEF TimerInv, Sound, Split
<1>8. Immediates(timers') = Immediates(timers)
  BY <1>6, <1>7, SplitCounts
<1>9. Ordered(timers', clock')
  <2>1. \A i, j \in 1 .. Len(timers) : timers'[i].timer = timers'[j].timer => i = j
    BY <1>5 DEF TimerInv, Sound, Ordered
  <2>2. ASSUME NEW i \in 1 .. Len(timers), NEW j \in 1 .. Len(timers), i < j, ~Immediate(timers'[i])
        PROVE  timers'[i].due <= timers'[j].due
    <3>1. timers[i].due <= timers[j].due
      BY <1>5, <2>2 DEF TimerInv, Sound, Ordered
    <3> QED
      BY <1>5, <3>1
  <2> QED
    BY <1>5, <1>6, <2>1, <2>2 DEF Ordered
<1>10. Sound(timers, clock, Immediates(timers))'
  BY <1>6, <1>7, <1>8, <1>9 DEF Sound
<1>11. Listed' = Listed
  BY <1>1, <1>5, <1>6 DEF Listed
<1>12. NoTimerLost'
  BY <1>1, <1>11 DEF TimerInv, Accounted, NoTimerLost, Pending
<1>13. ASSUME Ran' = Ran PROVE Accounted'
  BY <1>1, <1>5, <1>6, <1>12, <1>13 DEF TimerInv, Accounted
<1>14. CASE frames' # frames
  <2>1. At("receive") /\ frames' = [frames EXCEPT ![Frames].timeout = @ - 1]
    BY <1>14 DEF Tick
  <2>2. PICK r \in FrameType : r = frame /\ r.pc = "receive" /\ Running
    BY <1>1, <2>1 DEF At
  <2>3. PICK g : g = [r EXCEPT !.timeout = @ - 1]
    OBVIOUS
  <2>4. g \in FrameType /\ g.pc = "receive"
    BY <2>2, <2>3 DEF FrameType
  <2>5. Move(g)
    BY <2>1, <2>2, <2>3 DEF Move, frame
  <2>6. frames' \in Seq(FrameType) /\ Running' /\ frame' = g /\ Below'
    BY <1>1, <2>2, <2>4, <2>5, Moved
  <2>7. Resting /\ Resting'
    BY <2>2, <2>4, <2>6 DEF Resting, In, At, InCallback
  <2>8. Ran' = Ran /\ AtStage'
    BY <2>7, RestingRan
  <2>9. TypeOK'
    BY <1>1, <1>3, <2>6 DEF TimerInv, TypeOK
  <2> QED
    BY <1>1, <1>10, <1>13, <2>6, <2>8, <2>9 DEF TimerInv
<1>15. CASE frames' = frames
  <2>1. /\ Below' /\ Ran' = Ran /\ frame' = frame
        /\ (In("immediate")' <=> In("immediate")) /\ (In("delayed")' <=> In("delayed"))
        /\ (InCallback' <=> InCallback) /\ (At("start")' <=> At("start")) /\ Walked' = Walked
    BY <1>1, <1>15 DEF Below, Frames, Ran, Walked, In, At, InCallback, Running, frame
  <2>2. ASSUME In("delayed") PROVE \E e \in 0 .. MaxLate : Since(e)'
    <3>1. PICK e \in 0 .. MaxLate : Since(e)
      BY <2>2 DEF TimerInv, AtStage
    <3>2. /\ frame \in FrameType /\ frame.pc = "callback" /\ ~In("immediate") /\ InCallback
          /\ frame.off \in Nat /\ frame.imm \in Nat /\ Walked = frame.off + 1
          /\ frame.imm <= frame.off /\ Walked <= Len(timers)
          /\ Ran = frame.imm + 1 .. Walked
      BY <1>1, <2>2 DEF In, At, InCallback, Walked, Ran, FrameType, TimerInv, AtStage
    <3>3. Walked \in Ran /\ \A i \in Ran : i \in 1 .. Len(timers)
      BY <1>1, <3>2
    <3>4. e \in Nat /\ e <= MaxLate
      BY <1>1
    <3>5. e + 1 \in 0 .. MaxLate
      <4>1. timers[Walked].due <= -e /\ timers[Walked].due > -MaxLate /\ timers[Walked].due \in Int
        BY <1>2, <1>5, <3>1, <3>3 DEF Since
      <4> QED
        BY <1>1, <3>4, <4>1
    <3>6. frame.now - clock' + (e + 1) \in {0, Wrap}
      <4>1. /\ frame.now \in Times /\ frame.now - clock + e \in {0, Wrap}
        BY <3>1 DEF Since
      <4>2. PICK w \in Int, c \in Int, d \in Int : w = frame.now /\ c = clock /\ d = clock'
        BY <1>1, <1>3, <4>1 DEF Times
      <4>3. w - d + (e + 1) \in {0, Wrap, 2 * Wrap}
        <5>1. w - c + e \in {0, Wrap} /\ d - c - 1 \in {-Wrap, 0} /\ Wrap \in Int /\ e \in Int
          BY <1>1, <1>3, <3>4, <4>1, <4>2
        <5>2. w = c - e \/ w = c - e + Wrap
          BY <5>1
        <5>3. d = c + 1 \/ d = c + 1 - Wrap
          BY <5>1
        <5> QED
          BY <5>1, <5>2, <5>3
      <4>4. w < Wrap /\ d >= 0
        BY <1>1, <1>3, <4>1, <4>2 DEF Times
      <4>5. 2 * MaxLate < Wrap
        <5>1. timers[Walked] \in Entry /\ Due(timers[Walked], clock) /\ ~Immediate(timers[Walked])
          <6>1. Walked \in 1 .. Len(timers) /\ ~(Walked <= Immediates(timers))
            BY <1>1, <2>2, <3>2, <3>3 DEF TimerInv, AtStage
          <6> QED
            BY <1>1, <6>1 DEF TimerInv, Sound, Split, Ordered
        <5>2. PICK delay \in Delays : TRUE
          BY <5>1 DEF Due
        <5>3. delay \in Nat /\ 2 * (delay + 1 + MaxLate) < Wrap
          BY DispatcherAssumption
        <5> QED
          BY <1>1, <5>3
      <4> QED
        BY SMTT(40), <1>1, <3>4, <3>5, <4>2, <4>3, <4>4, <4>5
    <3>7. \A i \in Ran : timers'[i].due <= -(e + 1)
      <4>1. ASSUME NEW i \in Ran PROVE timers'[i].due <= -(e + 1)
        <5>1. /\ timers[i].due <= -e /\ timers[i].due \in Int
              /\ timers'[i].due = timers[i].due - 1
          BY <1>5, <3>1, <3>3, <4>1 DEF Since
        <5> QED
          BY <3>4, <5>1
      <4> QED
        BY <4>1
    <3>8. Since(e + 1)'
      BY <2>1, <3>1, <3>3, <3>6, <3>7 DEF Since
    <3> QED
      BY <3>5, <3>8
  <2>3. AtStage'
    BY <1>6, <1>8, <2>1, <2>2 DEF TimerInv, AtStage
  <2>4. TypeOK'
    BY <1>1, <1>3, <1>15 DEF TimerInv, TypeOK
  <2> QED
    BY <1>1, <1>10, <1>13, <2>1, <2>3, <2>4 DEF TimerInv
<1> QED
  BY <1>1, <1>14, <1>15

-------------------------------------------------------------------------------
(* The theorems *)

(* At the start no timer has been added. *)
LEMMA TimersInit == Init => TimerInv
<1> SUFFICES ASSUME Init PROVE TimerInv
  OBVIOUS
<1>1. /\ timers = <<>> /\ clock = Wrap - 1 /\ frames = <<>> /\ leaveLoop = FALSE
      /\ inbox = 0 /\ runs = [t \in Timer |-> -1] /\ Wrap \in Nat \ {0}
  BY DispatcherAssumption DEF Init
<1>2. Frames = 0 /\ ~Running
  BY <1>1 DEF Frames, Running
<1>3. TypeOK
  <2>1. inbox \in Nat /\ leaveLoop \in BOOLEAN
    BY <1>1
  <2>2. clock \in Times
    BY <1>1 DEF Times
  <2>3. frames \in Seq(FrameType)
    BY <1>1
  <2>4. runs \in [Timer -> {-1, 0, 1}]
    <3>1. -1 \in {-1, 0, 1}
      OBVIOUS
    <3> QED
      BY <1>1, <3>1
  <2> QED
    BY <2>1, <2>3, <2>4, <2>2 DEF TypeOK
<1>4. timers \in Seq(Entry) /\ Len(timers) = 0
  BY <1>1
<1>5. Split(timers, 0) /\ Ordered(timers, clock)
  BY <1>4 DEF Split, Ordered
<1>6. Sound(timers, clock, Immediates(timers))
  <2>1. Immediates(timers) = 0
    BY <1>4, <1>5, SplitCounts
  <2> QED
    BY <1>4, <1>5, <2>1 DEF Sound
<1>7. Below
  BY <1>2 DEF Below
<1>8. AtStage
  BY <1>2 DEF AtStage, In, At, InCallback
<1>9. Accounted
  BY <1>1, <1>4 DEF Accounted, NoTimerLost, Pending
<1> QED
  BY <1>3, <1>6, <1>7, <1>8, <1>9 DEF TimerInv

(* Every step of careful callbacks and of the class keeps the invariant.   *)
LEMMA TimersStep == Careful /\ TimerInv /\ [Next]_vars => TimerInv'
<1> SUFFICES ASSUME Careful, TimerInv, [Next]_vars PROVE TimerInv'
  OBVIOUS
<1>1. CASE Loop
  BY <1>1, RestStep, StartStep, RunImmediateStep, ImmediatesStep, RunDelayedStep, DelayedStep DEF Loop
<1>2. CASE \E t \in Timer, d \in Delays : RunLater(t, d)
  BY <1>2, LaterStep
<1>3. CASE LeaveLoop \/ EnterLoop \/ \E timeout \in {-1, 0} : CallDispatch(timeout)
  BY <1>3, ArriveStep, EnterStep
<1>4. CASE Return
  BY <1>4, RestStep, ReturnStep
<1>5. CASE Throw
  BY <1>5, ThrowStep
<1>6. CASE Arrive \/ Tick
  BY <1>6, ArriveStep, TickStep
<1>7. CASE UNCHANGED vars
  <2>1. UNCHANGED <<timers, clock, frames, runs>> /\ TypeOK'
    BY <1>7 DEF vars, TimerInv, TypeOK
  <2> QED
    BY <2>1, OtherStep
<1> QED
  BY <1>1, <1>2, <1>3, <1>4, <1>5, <1>6, <1>7 DEF Next, Program

(* The inductive invariant: where every timer is, and what the innermost   *)
(* dispatch has called (dispatch and run_later of the class Dispatcher).   *)
THEOREM TimersInvariant == ASSUME Careful PROVE Spec => []TimerInv
<1>1. Init => TimerInv
  BY TimersInit
<1>2. TimerInv /\ [Next]_vars => TimerInv'
  BY TimersStep
<1> QED
  BY <1>1, <1>2, PTL DEF Spec

(* dispatch calls a timer at most once, although callbacks add timers and  *)
(* throw while it walks the list, and dispatches are nested.               *)
THEOREM TimersRunOnce == ASSUME Careful PROVE Spec => []RunsAtMostOnce
<1>1. TimerInv => RunsAtMostOnce
  BY DEF TimerInv, TypeOK, RunsAtMostOnce
<1> QED
  BY <1>1, TimersInvariant, PTL

(* What dispatch removes from the list has run, also after an error.       *)
THEOREM TimersStay == ASSUME Careful PROVE Spec => []NoTimerLost
<1>1. TimerInv => NoTimerLost
  BY DEF TimerInv, Accounted
<1> QED
  BY <1>1, TimersInvariant, PTL

(* The step that calls a timer finds it due, and no other due earlier.     *)
LEMMA OrderStep ==
    ASSUME Careful, TimerInv, [Next]_vars, NEW i \in 1 .. Len(timers),
           runs[timers[i].timer] = 0, runs'[timers[i].timer] > 0
    PROVE  /\ timers[i].due <= 0
           /\ \A j \in 1 .. Len(timers) :
                 ~Immediate(timers[i]) /\ ~Immediate(timers[j]) /\ timers[j].timer \in Pending
                 => timers[i].due <= timers[j].due
<1>1. timers[i] \in Entry /\ timers[i].timer \in Timer /\ Due(timers[i], clock)
  BY Shape DEF Entry, TimerInv, Sound, Ordered
<1>2. CASE RunImmediate
  <2> DEFINE k == frame.off + 1
  <2>1. /\ k \in 1 .. Len(timers) /\ k <= Immediates(timers)
        /\ \A t \in Timer : t # timers[k].timer => runs'[t] = runs[t]
    BY <1>2, RunImmediateStep
  <2> HIDE DEF k
  <2>2. timers[i].timer = timers[k].timer
    BY <1>1, <2>1
  <2>3. i = k
    BY <2>1, <2>2 DEF TimerInv, Sound, Ordered
  <2>4. Immediate(timers[i])
    BY <2>1, <2>3 DEF TimerInv, Sound, Split
  <2> QED
    BY <1>1, <2>4 DEF Due
<1>3. CASE RunDelayed
  <2> DEFINE k == frame.off + 1
  <2>1. /\ k \in 1 .. Len(timers) /\ timers[k].due <= 0
        /\ \A j \in 1 .. Len(timers) : ~Immediate(timers[j]) /\ j < k => runs[timers[j].timer] = 1
        /\ \A t \in Timer : t # timers[k].timer => runs'[t] = runs[t]
    BY <1>3, RunDelayedStep
  <2> HIDE DEF k
  <2>2. timers[i].timer = timers[k].timer
    BY <1>1, <2>1
  <2>3. i = k
    BY <2>1, <2>2 DEF TimerInv, Sound, Ordered
  <2>4. ASSUME NEW j \in 1 .. Len(timers), ~Immediate(timers[i]), ~Immediate(timers[j]),
               timers[j].timer \in Pending
        PROVE  timers[i].due <= timers[j].due
    <3>1. ~(j < i)
      BY <2>1, <2>3, <2>4 DEF Pending
    <3>2. i = j \/ i < j
      BY <3>1, Shape
    <3>3. timers[i].due \in Int
      BY <1>1 DEF Entry
    <3> QED
      BY <2>4, <3>2, <3>3 DEF TimerInv, Sound, Ordered
  <2> QED
    BY <2>1, <2>3, <2>4
<1>4. CASE \E t \in Timer, d \in Delays : RunLater(t, d)
  <2>1. runs'[timers[i].timer] = 0
    BY <1>1, <1>4, LaterStep
  <2> QED
    BY <2>1
<1>5. CASE runs' = runs
  BY <1>5
<1>6. runs' = runs \/ RunImmediate \/ RunDelayed \/ \E t \in Timer, d \in Delays : RunLater(t, d)
  BY DEF Next, Loop, Program, vars, Again, Start, ImmediatesDone, DelayedDone, TakeMessage, NoMessage,
         LeaveLoop, EnterLoop, CallDispatch, Return, Throw, Arrive, Tick
<1> QED
  BY <1>2, <1>3, <1>4, <1>5, <1>6

(* dispatch calls a timer neither before its time nor before one that was  *)
(* due earlier, across the wrap of the clock.                              *)
THEOREM TimersInOrder == ASSUME Careful PROVE Spec => InTimeOrder
<1> DEFINE Order ==
       \A i \in DOMAIN timers :
          runs[timers[i].timer] = 0 /\ runs'[timers[i].timer] > 0 =>
             /\ timers[i].due <= 0
             /\ \A j \in DOMAIN timers :
                   ~Immediate(timers[i]) /\ ~Immediate(timers[j]) /\ timers[j].timer \in Pending
                   => timers[i].due <= timers[j].due
<1>1. TimerInv /\ [Next]_vars => [Order]_vars
  <2> SUFFICES ASSUME TimerInv, [Next]_vars PROVE Order
    OBVIOUS
  <2>1. DOMAIN timers = 1 .. Len(timers)
    BY Shape
  <2> QED
    BY <2>1, OrderStep
<1> HIDE DEF Order
<1>2. Spec => [][Order]_vars
  BY <1>1, TimersInvariant, PTL DEF Spec
<1> QED
  BY <1>2 DEF Order, InTimeOrder

===============================================================================
