------------------------------ MODULE TaskProofs ------------------------------
(***************************************************************************)
(* Theorems about the tasks of fixtask.                                    *)
(*                                                                         *)
(* TaskBarrier, for every number of tasks, every set of markers and every  *)
(* range of the counter that is at least two: the tasks meet.              *)
(*                                                                         *)
(* TaskMailbox, for any number of parents and messages and any capacity:   *)
(* the task is freed exactly when it is unused, and with one parent no     *)
(* thread sleeps next to what it waits for.                                *)
(***************************************************************************)
EXTENDS TaskBarrier, TaskMailbox, FiniteSetTheorems, TLAPS

-----------------------------------------------------------------------------
(* Barriers                                                                *)

(* The barrier was created for at least one task (barrier_create insists). *)
LEMMA NumTasksType == NumTasks \in Nat \ {0}
BY BarrierAssumption, FS_CardinalityType

(* Every step of barrier_wait keeps the type invariant.                    *)
LEMMA TypeStep == TypeOK /\ [Next]_vars => TypeOK'
<1> SUFFICES ASSUME TypeOK, [Next]_vars PROVE TypeOK'
  OBVIOUS
<1> USE NumTasksType, BarrierAssumption DEF TypeOK, max_waiting
<1>1. ASSUME NEW t \in Task, Arrive(t) PROVE TypeOK'
  <2>1. num_waiting' \in 0 .. max_waiting
    BY <1>1 DEF Arrive
  <2>2. first_heap' \in Task \cup {NoTask} /\ first_marker' \in Marker \cup {NoMarker}
    BY <1>1 DEF Arrive
  <2> QED
    BY <1>1, <2>1, <2>2 DEF Arrive
<1>2. ASSUME NEW t \in Task, ArriveLast(t) PROVE TypeOK'
  <2>1. counter_value' \in 0 .. (CounterRange - 1)
    BY <1>2 DEF ArriveLast
  <2>2. first_marker' \in Marker \cup {NoMarker}
    BY <1>2 DEF ArriveLast
  <2>3. event' \in SUBSET Slots
    BY <1>2 DEF ArriveLast
  <2>4. num_waiting' \in 0 .. max_waiting
    BY <1>2 DEF ArriveLast
  <2> QED
    BY <1>2, <2>1, <2>2, <2>3, <2>4 DEF ArriveLast
<1>3. ASSUME NEW t \in Task, EnterWait(t) PROVE TypeOK'
  BY <1>3 DEF EnterWait
<1>4. ASSUME NEW t \in Task, WakeSpuriously(t) PROVE TypeOK'
  BY <1>4 DEF WakeSpuriously
<1>5. ASSUME NEW t \in Task, Leave(t) PROVE TypeOK'
  BY <1>5 DEF Leave
<1>6. ASSUME NEW t \in Task, WaitAgain(t) PROVE TypeOK'
  BY <1>6 DEF WaitAgain
<1>7. CASE UNCHANGED vars
  BY <1>7 DEF vars
<1> QED
  BY <1>1, <1>2, <1>3, <1>4, <1>5, <1>6, <1>7 DEF Next

(* The state always has its type; num_waiting in particular never passes   *)
(* max_waiting, which the code tests as "memory corruption".               *)
THEOREM TypeCorrect == Spec => []TypeOK
<1>1. Init => TypeOK
  BY NumTasksType, BarrierAssumption DEF Init, TypeOK, max_waiting
<1> QED
  BY <1>1, TypeStep, PTL DEF Spec

-----------------------------------------------------------------------------
(* The rounds.  A task that is out has ended as many waits as there were   *)
(* rounds; a task of the current round is one wait ahead in what it began, *)
(* a released task that has yet to leave one behind in what it ended.      *)

InRound(d) == \A t \in Task :
    /\ pc[t] = "out" => arrived[t] = d /\ passed[t] = d
    /\ t \in Current => arrived[t] = d + 1 /\ passed[t] = d
    /\ t \in Waiting \ Current => arrived[t] = d /\ passed[t] + 1 = d

RoundInv ==
    /\ num_waiting = Cardinality(Current)
    /\ \E d \in Nat : InRound(d)

(* The tasks that wait in the round under way are finitely many.           *)
LEMMA CurrentFinite == IsFiniteSet(Current)
<1>1. Current \subseteq Task
  BY DEF Current, Waiting
<1> QED
  BY <1>1, BarrierAssumption, FS_Subset

(* When the last task arrives all the others wait in this round.           *)
LEMMA LastArrival ==
    ASSUME TypeOK, RoundInv, NEW t \in Task, pc[t] = "out", num_waiting = max_waiting
    PROVE  Current = Task \ {t}
<1>1. Current \in SUBSET (Task \ {t})
  BY DEF Current, Waiting
<1>2. IsFiniteSet(Task \ {t}) /\ Cardinality(Task \ {t}) = Cardinality(Task) - 1
  BY BarrierAssumption, FS_RemoveElement
<1>3. Cardinality(Current) = Cardinality(Task \ {t})
  BY <1>2, BarrierAssumption DEF RoundInv, max_waiting
<1> QED
  BY <1>1, <1>2, <1>3, FS_Subset

(* What each step does to the set of tasks waiting in the current round.   *)
LEMMA CurrentStep ==
    ASSUME TypeOK, RoundInv, NEW t \in Task
    PROVE  /\ Arrive(t) => Current' = Current \cup {t} /\ t \notin Current
           /\ ArriveLast(t) => Current' = {} /\ Waiting' = Waiting
           /\ EnterWait(t) \/ WakeSpuriously(t) \/ WaitAgain(t)
                => Current' = Current /\ Waiting' = Waiting
           /\ Leave(t) => Current' = Current /\ t \notin Current
<1>1. ASSUME Arrive(t) PROVE Current' = Current \cup {t} /\ t \notin Current
  BY <1>1 DEF Arrive, Current, Waiting, TypeOK
<1>2. ASSUME ArriveLast(t) PROVE Current' = {} /\ Waiting' = Waiting
  <2>1. Waiting' = Waiting
    BY <1>2 DEF ArriveLast, Waiting, Blocked, TypeOK
  <2>2. \A u \in Waiting : wait_value[u] = counter_value
    BY <1>2, LastArrival DEF ArriveLast, Current, Waiting
  <2>3. counter_value' # counter_value
    BY <1>2, BarrierAssumption DEF ArriveLast, TypeOK
  <2> QED
    BY <1>2, <2>1, <2>2, <2>3 DEF ArriveLast, Current
<1>3. ASSUME EnterWait(t) \/ WakeSpuriously(t) \/ WaitAgain(t)
      PROVE  Current' = Current /\ Waiting' = Waiting
  BY <1>3 DEF EnterWait, WakeSpuriously, WaitAgain, Current, Waiting, TypeOK
<1>4. ASSUME Leave(t) PROVE Current' = Current /\ t \notin Current
  BY <1>4 DEF Leave, Current, Waiting, TypeOK
<1> QED
  BY <1>1, <1>2, <1>3, <1>4

(* The round invariant is inductive: the tasks of the round under way are  *)
(* counted by num_waiting, and each task has begun as many waits as there  *)
(* were rounds before, or one more when it waits.                          *)
LEMMA RoundStep == TypeOK /\ RoundInv /\ [Next]_vars => RoundInv'
<1> SUFFICES ASSUME TypeOK, RoundInv, [Next]_vars PROVE RoundInv'
  OBVIOUS
<1>d. PICK d \in Nat : InRound(d)
  BY DEF RoundInv
<1> USE DEF TypeOK
<1>1. ASSUME NEW t \in Task, Arrive(t) PROVE RoundInv'
  <2>1. Current' = Current \cup {t} /\ t \notin Current
    BY <1>1, CurrentStep
  <2>2. num_waiting' = Cardinality(Current')
    BY <1>1, <2>1, CurrentFinite, FS_AddElement DEF Arrive, RoundInv
  <2>3. InRound(d)'
    BY <1>1, <1>d, <2>1 DEF Arrive, InRound, Waiting
  <2> QED
    BY <2>2, <2>3 DEF RoundInv
<1>2. ASSUME NEW t \in Task, ArriveLast(t) PROVE RoundInv'
  <2>1. Current' = {} /\ Waiting' = Waiting
    BY <1>2, CurrentStep
  <2>2. num_waiting' = Cardinality(Current')
    BY <1>2, <2>1, FS_EmptySet DEF ArriveLast
  <2>3. Current = Task \ {t}
    BY <1>2, LastArrival DEF ArriveLast
  <2>4. InRound(d + 1)'
    <3> SUFFICES ASSUME NEW u \in Task
                 PROVE  /\ pc'[u] = "out" => arrived'[u] = d + 1 /\ passed'[u] = d + 1
                        /\ u \in Waiting' => arrived'[u] = d + 1 /\ passed'[u] + 1 = d + 1
      BY <2>1 DEF InRound
    <3>1. CASE u = t
      BY <1>2, <1>d, <2>1, <3>1 DEF ArriveLast, InRound, Waiting
    <3>2. CASE u # t
      <4>1. u \in Current /\ arrived[u] = d + 1 /\ passed[u] = d
        BY <1>d, <2>3, <3>2 DEF InRound
      <4>2. arrived'[u] = d + 1 /\ passed'[u] = d /\ pc'[u] # "out"
        BY <1>2, <2>1, <3>2, <4>1 DEF ArriveLast, Current, Waiting
      <4> QED
        BY <4>2
    <3> QED
      BY <3>1, <3>2
  <2> QED
    BY <2>2, <2>4 DEF RoundInv
<1>3. ASSUME NEW t \in Task, EnterWait(t) \/ WakeSpuriously(t) \/ WaitAgain(t)
      PROVE  RoundInv'
  <2>1. Current' = Current /\ Waiting' = Waiting
    BY <1>3, CurrentStep
  <2>2. InRound(d)'
    BY <1>3, <1>d, <2>1 DEF EnterWait, WakeSpuriously, WaitAgain, InRound, Waiting
  <2> QED
    BY <1>3, <2>1, <2>2 DEF EnterWait, WakeSpuriously, WaitAgain, RoundInv
<1>4. ASSUME NEW t \in Task, Leave(t) PROVE RoundInv'
  <2>1. Current' = Current /\ t \notin Current
    BY <1>4, CurrentStep
  <2>2. InRound(d)'
    BY <1>4, <1>d, <2>1 DEF Leave, InRound, Waiting
  <2> QED
    BY <1>4, <2>1, <2>2 DEF Leave, RoundInv
<1>5. CASE UNCHANGED vars
  BY <1>5 DEF vars, RoundInv, InRound, Current, Waiting
<1> QED
  BY <1>1, <1>2, <1>3, <1>4, <1>5 DEF Next

(* Nobody waits at first.                                                  *)
LEMMA RoundInit == Init => RoundInv
<1> SUFFICES ASSUME Init PROVE RoundInv
  OBVIOUS
<1>1. Waiting = {} /\ Current = {}
  BY DEF Init, Waiting, Current
<1>2. InRound(0)
  BY <1>1 DEF InRound, Init
<1> QED
  BY <1>1, <1>2, FS_EmptySet DEF RoundInv, Init

(* No task ends its n-th wait before every task has begun its n-th.        *)
THEOREM TasksMeet == Spec => []Rendezvous
<1>1. TypeOK /\ RoundInv => Rendezvous
  <2> SUFFICES ASSUME TypeOK, RoundInv, NEW t \in Task, NEW u \in Task
               PROVE  passed[t] <= arrived[u]
    BY DEF Rendezvous
  <2>1. PICK d \in Nat : InRound(d)
    BY DEF RoundInv
  <2>2. passed[t] <= d
    BY <2>1 DEF InRound, Waiting, TypeOK
  <2>3. d <= arrived[u]
    BY <2>1 DEF InRound, Waiting, TypeOK
  <2> QED
    BY <2>2, <2>3 DEF TypeOK
<1> QED
  BY <1>1, RoundInit, RoundStep, TypeCorrect, PTL DEF Spec

-----------------------------------------------------------------------------
(* The heap of the first marker belongs to a task stopped in this round.   *)
THEOREM MarkerHeapIsStopped == Spec => []FirstHeapIsStopped
<1>1. Init => FirstHeapIsStopped
  BY DEF Init, FirstHeapIsStopped
<1>2. TypeOK /\ RoundInv /\ FirstHeapIsStopped /\ [Next]_vars => FirstHeapIsStopped'
  <2> SUFFICES ASSUME TypeOK, RoundInv, FirstHeapIsStopped, [Next]_vars
               PROVE  FirstHeapIsStopped'
    OBVIOUS
  <2>1. ASSUME NEW t \in Task, Arrive(t) PROVE FirstHeapIsStopped'
    <3>1. Current' = Current \cup {t}
      BY <2>1, CurrentStep
    <3>2. first_heap' \in {first_heap, NoTask, t}
      BY <2>1 DEF Arrive
    <3> QED
      BY <3>1, <3>2 DEF FirstHeapIsStopped
  <2>2. ASSUME NEW t \in Task, ArriveLast(t) PROVE FirstHeapIsStopped'
    BY <2>2 DEF ArriveLast, FirstHeapIsStopped
  <2>3. ASSUME NEW t \in Task,
               EnterWait(t) \/ WakeSpuriously(t) \/ WaitAgain(t) \/ Leave(t)
        PROVE  FirstHeapIsStopped'
    <3>1. Current' = Current
      BY <2>3, CurrentStep
    <3> QED
      BY <2>3, <3>1 DEF EnterWait, WakeSpuriously, WaitAgain, Leave, FirstHeapIsStopped
  <2>4. CASE UNCHANGED vars
    BY <2>4 DEF vars, FirstHeapIsStopped, Current, Waiting
  <2> QED
    BY <2>1, <2>2, <2>3, <2>4 DEF Next
<1> QED
  BY <1>1, <1>2, RoundInit, RoundStep, TypeCorrect, PTL DEF Spec

-----------------------------------------------------------------------------
(* With POSIX condition variables every task of the current round has a    *)
(* condition variable of its own, which only tasks of this round sleep in. *)
OwnSlots == ~windows =>
    /\ \A t \in Task : pc[t] # "gap"
    /\ \A t \in Current : idx[t] < num_waiting
    /\ \A t, u \in Current : idx[t] = idx[u] => t = u

(* Every task that waits in the round under way has a condition variable   *)
(* of its own, so the one signal of each reaches it.                       *)
LEMMA OwnSlotsStep == TypeOK /\ RoundInv /\ OwnSlots /\ [Next]_vars => OwnSlots'
<1>0. [Next]_vars => windows' = windows
  BY DEF Next, vars, Arrive, ArriveLast, EnterWait, WakeSpuriously, Leave, WaitAgain
<1> SUFFICES ASSUME ~windows, ~windows', TypeOK, RoundInv, OwnSlots, [Next]_vars
             PROVE  OwnSlots'
  BY <1>0 DEF OwnSlots
<1>c. Current \subseteq Task
  BY DEF Current, Waiting
<1> USE DEF TypeOK
<1>1. ASSUME NEW t \in Task, Arrive(t) PROVE OwnSlots'
  <2>1. Current' = Current \cup {t} /\ t \notin Current
    BY <1>1, CurrentStep
  <2>2. idx'[t] = num_waiting /\ num_waiting' = num_waiting + 1
    BY <1>1 DEF Arrive
  <2>3. \A u \in Current : idx'[u] = idx[u] /\ idx[u] < num_waiting
    BY <1>1, <1>c, <2>1 DEF Arrive, OwnSlots
  <2>4. \A u \in Task : pc'[u] # "gap"
    BY <1>1 DEF Arrive, OwnSlots
  <2>5. \A u \in Current' : idx'[u] < num_waiting'
    BY <1>c, <2>1, <2>2, <2>3
  <2>6. \A u, v \in Current' : idx'[u] = idx'[v] => u = v
    BY <1>c, <2>1, <2>2, <2>3 DEF OwnSlots
  <2> QED
    BY <2>4, <2>5, <2>6 DEF OwnSlots
<1>2. ASSUME NEW t \in Task, ArriveLast(t) PROVE OwnSlots'
  <2>1. Current' = {}
    BY <1>2, CurrentStep
  <2> QED
    BY <1>2, <2>1 DEF ArriveLast, OwnSlots
<1>3. ASSUME NEW t \in Task,
             EnterWait(t) \/ WakeSpuriously(t) \/ WaitAgain(t) \/ Leave(t)
      PROVE  OwnSlots'
  <2>1. Current' = Current
    BY <1>3, CurrentStep
  <2> QED
    BY <1>3, <2>1 DEF EnterWait, WakeSpuriously, WaitAgain, Leave, OwnSlots
<1>4. CASE UNCHANGED vars
  BY <1>4 DEF vars, OwnSlots, Current, Waiting
<1> QED
  BY <1>1, <1>2, <1>3, <1>4 DEF Next

(* No task sleeps in a round that is over, where the condition variables   *)
(* are those of POSIX.  (The Windows ones do not give this: a signal that  *)
(* is remembered may wake a task of the next round instead.)               *)
THEOREM NobodySleepsOn == Spec => []NobodyLeftBehind
<1>1. Init => OwnSlots /\ NobodyLeftBehind
  BY DEF Init, OwnSlots, NobodyLeftBehind, Blocked, Current, Waiting
<1>2. TypeOK /\ RoundInv /\ OwnSlots /\ NobodyLeftBehind /\ [Next]_vars
        => NobodyLeftBehind'
  <2>0. [Next]_vars => windows' = windows
    BY DEF Next, vars, Arrive, ArriveLast, EnterWait, WakeSpuriously, Leave, WaitAgain
  <2> SUFFICES ASSUME TypeOK, RoundInv, OwnSlots, NobodyLeftBehind, [Next]_vars,
                      ~windows, NEW u \in Blocked'
               PROVE  u \in Current'
    BY <2>0 DEF NobodyLeftBehind
  <2>u. u \in Task /\ pc'[u] = "blocked"
    BY DEF Blocked
  <2> USE DEF TypeOK
  <2>1. ASSUME NEW t \in Task, Arrive(t) PROVE u \in Current'
    <3>1. Current' = Current \cup {t}
      BY <2>1, CurrentStep
    <3>2. u # t => u \in Blocked
      BY <2>1, <2>u DEF Arrive, Blocked
    <3> QED
      BY <3>1, <3>2 DEF NobodyLeftBehind
  <2>2. ASSUME NEW t \in Task, ArriveLast(t) PROVE FALSE
    <3>1. PICK released \in SUBSET Blocked :
            /\ \A w \in Blocked : \E v \in released : idx[v] = idx[w]
            /\ pc' = [w \in Task |-> IF w \in released THEN "awake" ELSE pc[w]]
      BY <2>2 DEF ArriveLast
    <3>2. u \in Blocked /\ u \notin released
      BY <2>u, <3>1 DEF Blocked
    <3>3. PICK v \in released : idx[v] = idx[u]
      BY <3>1, <3>2
    <3>4. v = u
      BY <3>2, <3>3 DEF OwnSlots, NobodyLeftBehind
    <3> QED
      BY <3>2, <3>4
  <2>3. ASSUME NEW t \in Task, EnterWait(t) PROVE FALSE
    BY <2>3 DEF EnterWait, OwnSlots
  <2>4. ASSUME NEW t \in Task, WakeSpuriously(t) \/ Leave(t) PROVE u \in Current'
    <3>1. u \in Blocked
      BY <2>4, <2>u DEF WakeSpuriously, Leave, Blocked
    <3> QED
      BY <2>4, <3>1, CurrentStep DEF NobodyLeftBehind
  <2>5. ASSUME NEW t \in Task, WaitAgain(t) PROVE u \in Current'
    <3>1. t \in Current /\ (u # t => u \in Blocked)
      BY <2>5, <2>u DEF WaitAgain, Blocked, Current, Waiting
    <3> QED
      BY <2>5, <3>1, CurrentStep DEF NobodyLeftBehind
  <2>6. CASE UNCHANGED vars
    BY <2>6 DEF vars, NobodyLeftBehind, Blocked, Current, Waiting
  <2> QED
    BY <2>1, <2>2, <2>3, <2>4, <2>5, <2>6 DEF Next
<1> QED
  BY <1>1, <1>2, OwnSlotsStep, RoundInit, RoundStep, TypeCorrect, PTL DEF Spec

-----------------------------------------------------------------------------
(* Mailboxes                                                               *)

(* The references that the thread of the task still has: task_val and its  *)
(* own, then its own.                                                      *)
OfThread == IF life = "running" THEN 2 ELSE IF life = "ending" THEN 1 ELSE 0

(* refcnt is the number of the holders and of these references.            *)
CountInv ==
    /\ holders \subseteq Parent
    /\ life \in {"running", "ending", "ended"}
    /\ refcnt = Cardinality(holders) + OfThread
    /\ freed <=> refcnt = 0

(* Only finitely many parents hold a task.                                 *)
LEMMA HoldersFinite ==
    ASSUME holders \subseteq Parent
    PROVE  /\ IsFiniteSet(holders) /\ Cardinality(holders) \in Nat
           /\ Cardinality(holders) = 0 <=> holders = {}
BY MailboxAssumption, FS_Subset, FS_CardinalityType, FS_EmptySet

(* At the start the count of references is what the holders make it.       *)
LEMMA CountInit == MailboxInit => CountInv
<1> SUFFICES ASSUME MailboxInit PROVE CountInv OBVIOUS
<1>1. holders = {Creator} /\ life = "running" /\ refcnt = 3 /\ freed = FALSE BY DEF MailboxInit
<1>2. Cardinality({Creator}) = 1 BY FS_Singleton
<1> QED BY <1>1, <1>2, MailboxAssumption DEF CountInv, OfThread

(* Every step counts the references it takes and drops.                    *)
LEMMA CountStep == CountInv /\ [MailboxNext]_mailboxVars => CountInv'
<1> SUFFICES ASSUME CountInv, [MailboxNext]_mailboxVars PROVE CountInv' OBVIOUS
<1> USE DEF CountInv, OfThread
<1>1. IsFiniteSet(holders) /\ Cardinality(holders) \in Nat BY HoldersFinite
<1>2. ASSUME NEW p \in Parent, NEW q \in Parent, Share(p, q) PROVE CountInv'
  <2>1. /\ holders' = holders \cup {q} /\ q \notin holders /\ life' = life
        /\ refcnt' = refcnt + 1 /\ freed' = freed /\ holders # {}
    BY <1>2 DEF Share
  <2>2. Cardinality(holders') = Cardinality(holders) + 1 BY <1>1, <2>1, FS_AddElement
  <2>3. ~freed BY <1>1, <2>1, HoldersFinite
  <2> QED BY <1>1, <2>1, <2>2, <2>3
<1>3. ASSUME NEW p \in Parent, Drop(p) PROVE CountInv'
  <2>1. /\ holders' = holders \ {p} /\ p \in holders /\ life' = life
        /\ refcnt' = refcnt - 1 /\ freed' = (freed \/ refcnt = 1)
    BY <1>3 DEF Drop, Unref
  <2>2. Cardinality(holders') = Cardinality(holders) - 1 BY <1>1, <2>1, FS_RemoveElement
  <2>3. Cardinality(holders) # 0 BY <2>1, HoldersFinite
  <2>4. refcnt # 0 /\ refcnt \in Nat BY <1>1, <2>3
  <2>5. freed' <=> refcnt' = 0
    <3>1. freed' <=> refcnt = 1 BY <2>1, <2>4
    <3> QED BY <2>1, <2>4, <3>1
  <2>6. refcnt' = Cardinality(holders') + OfThread BY <1>1, <2>1, <2>2
  <2> QED BY <2>1, <2>5, <2>6
<1>4. ASSUME EndTask \/ EndThread PROVE CountInv'
  <2>1. /\ holders' = holders /\ refcnt' = refcnt - 1 /\ freed' = (freed \/ refcnt = 1)
        /\ \/ life = "running" /\ life' = "ending"
           \/ life = "ending" /\ life' = "ended"
    BY <1>4 DEF EndTask, EndThread, Unref
  <2>2. refcnt # 0 /\ refcnt \in Nat BY <1>1, <2>1
  <2>3. freed' <=> refcnt' = 0
    <3>1. freed' <=> refcnt = 1 BY <2>1, <2>2
    <3> QED BY <2>1, <2>2, <3>1
  <2>4. refcnt' = Cardinality(holders') + OfThread' BY <1>1, <2>1
  <2> QED BY <2>1, <2>3, <2>4
<1>5. ASSUME UNCHANGED lifeVars PROVE CountInv' BY <1>5 DEF lifeVars
<1>6. ASSUME NEW t \in Thread,
             CallSend(t) \/ CallReceive(t) \/ Step(t) \/ Expire(t) \/ WakeForNothing(t)
      PROVE  UNCHANGED lifeVars
  BY <1>6 DEF CallSend, CallReceive, Step, Send, FailSend, WaitToSend, Receive, WaitToReceive,
              GiveUpReceive, Expire, WakeForNothing
<1>7. CASE UNCHANGED mailboxVars BY <1>5, <1>7 DEF mailboxVars, lifeVars
<1> QED BY <1>2, <1>3, <1>4, <1>5, <1>6, <1>7 DEF MailboxNext

(* The task is freed when no heap holds a handle of it any more and its    *)
(* thread has ended, in whatever order they go: task_handle_func, which    *)
(* every copy and every collected handle calls, counts all of them.        *)
THEOREM FreedByTheLast == MailboxSpec => []FreedWhenUnused
<1>1. CountInv => FreedWhenUnused
  <2> SUFFICES ASSUME CountInv PROVE FreedWhenUnused OBVIOUS
  <2>1. Cardinality(holders) \in Nat /\ (Cardinality(holders) = 0 <=> holders = {})
    BY HoldersFinite DEF CountInv
  <2> QED BY <2>1 DEF CountInv, OfThread, FreedWhenUnused
<1> QED BY <1>1, CountInit, CountStep, PTL DEF MailboxSpec

-----------------------------------------------------------------------------
(* With one parent there are two users of the condition variable, and the  *)
(* one that signals is awake: its signal reaches the other.                *)
OnlyParent == {Creator, TaskThread}

(* Who uses the task while it has one parent.                              *)
Alone ==
    /\ holders \subseteq {Creator}
    /\ asleep \subseteq OnlyParent
    /\ \A t \in Thread : call[t] # "idle" => t \in OnlyParent
    /\ \A t \in asleep : call[t] # "idle"

(* The inductive invariant.                                                *)
AloneInv == Creator \in owners /\ (owners = {Creator} => Alone) /\ NobodySleepsInVain

CallType == call \in [Thread -> {"idle", "send", "receive"}]

(* The program counters at the start,                                      *)
LEMMA CallInit == MailboxInit => CallType
BY DEF MailboxInit, CallType

(* and after every step.                                                   *)
LEMMA CallStep == CallType /\ [MailboxNext]_mailboxVars => CallType'
<1> SUFFICES ASSUME CallType, [MailboxNext]_mailboxVars PROVE CallType' OBVIOUS
<1> USE DEF CallType
<1>1. ASSUME NEW t \in Thread,
             CallSend(t) \/ CallReceive(t) \/ Step(t) \/ Expire(t) \/ WakeForNothing(t)
      PROVE  CallType'
  BY <1>1 DEF CallSend, CallReceive, Step, Send, FailSend, WaitToSend, Receive, WaitToReceive,
              GiveUpReceive, Expire, WakeForNothing, Return
<1>2. ASSUME UNCHANGED call PROVE CallType' BY <1>2
<1>3. ASSUME \/ \E p, q \in Parent : Share(p, q)
             \/ \E p \in Parent : Drop(p)
             \/ EndTask \/ EndThread \/ UNCHANGED mailboxVars
      PROVE  UNCHANGED call
  BY <1>3 DEF Share, Drop, EndTask, EndThread, mailboxVars, callVars
<1> QED BY <1>1, <1>2, <1>3 DEF MailboxNext

(* Nobody is in the mailbox at the start.                                  *)
LEMMA AloneInit == MailboxInit => AloneInv
BY DEF MailboxInit, AloneInv, Alone, NobodySleepsInVain, OnlyParent

(* A step that signals leaves nobody asleep.                               *)
LEMMA SignalReachesTheOther ==
    ASSUME NEW t \in OnlyParent, asleep \subseteq OnlyParent, t \notin asleep,
           NEW woken \in Woken, asleep' = asleep \ woken
    PROVE  asleep' = {}
BY DEF OnlyParent, Woken

(* A thread gets in only when nobody is.                                   *)
LEMMA AloneStep == CallType /\ AloneInv /\ [MailboxNext]_mailboxVars => AloneInv'
<1> SUFFICES ASSUME CallType, AloneInv, [MailboxNext]_mailboxVars PROVE AloneInv' OBVIOUS
<1> USE DEF CallType, AloneInv
<1>1. ASSUME UNCHANGED <<call, asleep, box>>, Creator \in owners',
             owners' = {Creator} => owners = {Creator} /\ holders' \subseteq {Creator}
      PROVE  AloneInv'
  BY <1>1 DEF Alone, NobodySleepsInVain, HasRoom, HasMail
<1>2. ASSUME NEW p \in Parent, NEW q \in Parent, Share(p, q) PROVE AloneInv'
  <2>1. /\ p \in holders /\ q \notin holders /\ owners' = owners \cup {q}
        /\ UNCHANGED <<call, asleep, box>>
    BY <1>2 DEF Share, callVars
  <2>2. owners' # {Creator} BY <2>1 DEF Alone
  <2> QED BY <1>1, <2>1, <2>2
<1>3. ASSUME (\E p \in Parent : Drop(p)) \/ EndTask \/ EndThread \/ UNCHANGED mailboxVars
      PROVE  AloneInv'
  <2>1. UNCHANGED <<call, asleep, box, owners>> /\ holders' \subseteq holders
    BY <1>3 DEF Drop, EndTask, EndThread, mailboxVars, callVars
  <2> QED BY <1>1, <2>1 DEF Alone
<1>4. ASSUME NEW t \in Thread,
             CallSend(t) \/ CallReceive(t) \/ Step(t) \/ Expire(t) \/ WakeForNothing(t)
      PROVE  AloneInv'
  <2>1. UNCHANGED <<holders, owners>>
    BY <1>4 DEF CallSend, CallReceive, Step, Send, FailSend, WaitToSend, Receive, WaitToReceive,
                GiveUpReceive, Expire, WakeForNothing, lifeVars
  <2> SUFFICES ASSUME owners = {Creator} PROVE Alone' /\ NobodySleepsInVain'
    BY <2>1 DEF NobodySleepsInVain
  <2>2. Alone BY DEF Alone
  <2>3. CASE CallSend(t) \/ CallReceive(t)
    <3>1. /\ MayCall(t) /\ UNCHANGED <<asleep, box>>
          /\ \E p \in {"send", "receive"} : call' = [call EXCEPT ![t] = p]
      BY <2>3 DEF CallSend, CallReceive
    <3>2. t \in OnlyParent /\ t \notin asleep
      BY <2>2, <3>1 DEF MayCall, Alone, OnlyParent
    <3> QED BY <2>1, <2>2, <3>1, <3>2 DEF Alone, NobodySleepsInVain, HasRoom, HasMail
  <2>4. CASE Send(t) \/ Receive(t)
    <3>1. /\ call[t] # "idle" /\ t \notin asleep /\ call' = [call EXCEPT ![t] = "idle"]
          /\ \E woken \in Woken : asleep' = asleep \ woken
      BY <2>4 DEF Send, Receive, Running, Return
    <3>2. asleep' = {} BY <2>2, <3>1, SignalReachesTheOther DEF Alone
    <3> QED BY <2>1, <2>2, <3>1, <3>2 DEF Alone, NobodySleepsInVain
  <2>5. CASE FailSend(t) \/ GiveUpReceive(t)
    <3>1. /\ t \notin asleep /\ call' = [call EXCEPT ![t] = "idle"]
          /\ UNCHANGED <<asleep, box>>
      BY <2>5 DEF FailSend, GiveUpReceive, Running, Return
    <3> QED BY <2>1, <2>2, <3>1 DEF Alone, NobodySleepsInVain, HasRoom, HasMail
  <2>6. CASE WaitToSend(t) \/ WaitToReceive(t)
    <3>1. /\ call[t] # "idle" /\ asleep' = asleep \cup {t} /\ UNCHANGED <<call, box>>
          /\ ~(IF call[t] = "send" THEN HasRoom(t) ELSE HasMail(t))
      BY <2>6 DEF WaitToSend, WaitToReceive, Running
    <3> QED BY <2>1, <2>2, <3>1 DEF Alone, NobodySleepsInVain, HasRoom, HasMail
  <2>7. CASE Expire(t) \/ WakeForNothing(t)
    <3>1. asleep' = asleep \ {t} /\ UNCHANGED <<call, box>>
      BY <2>7 DEF Expire, WakeForNothing
    <3> QED BY <2>1, <2>2, <3>1 DEF Alone, NobodySleepsInVain, HasRoom, HasMail
  <2> QED BY <1>4, <2>3, <2>4, <2>5, <2>6, <2>7 DEF Step
<1> QED BY <1>2, <1>3, <1>4 DEF MailboxNext

(* While the task has one parent, no thread sleeps in task->cond although  *)
(* what it waits for is there: task_send and task_receive signal it once   *)
(* for both directions, and that is enough for two.                        *)
THEOREM OneSignalIsEnough == MailboxSpec => []NobodySleepsInVain
<1>1. AloneInv => NobodySleepsInVain BY DEF AloneInv
<1> QED BY <1>1, CallInit, CallStep, AloneInit, AloneStep, PTL DEF MailboxSpec
===============================================================================
