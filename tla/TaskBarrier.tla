---------------------------- MODULE TaskBarrier ----------------------------
(***************************************************************************)
(* barrier_wait (src/fixtask/fixtask.c): tasks stop at a common point and  *)
(* go on together.  Every waiting task sleeps in a condition variable of   *)
(* its own, conds[idx], and goes on when counter_value has moved.          *)
(*                                                                         *)
(* The whole of barrier_wait but its wait runs under the mutex of the      *)
(* barrier, so arriving is one step and looking at the counter again after *)
(* a wakeup is one step.  On POSIX systems pthread_cond_wait releases the  *)
(* mutex and sleeps in one step.  The Windows build brings its own (lines  *)
(* 359-393): it leaves the critical section, then waits for an auto-reset  *)
(* event, which remembers one signal that found nobody waiting.            *)
(***************************************************************************)
EXTENDS Integers, FiniteSets

CONSTANTS
    Task,           \* the tasks that use the barrier
    NumTasks,       \* the number of tasks it was created for: all of these
    NoTask,         \* a NULL first_heap
    Marker,         \* the markers the tasks pass
    NoMarker,       \* a call without a marker
    CounterRange,   \* 2^32 in the code: counter_value is an uint32_t
    MaxCalls,       \* how often each task calls wait (a bound)
    Systems         \* the builds: TRUE for Windows, FALSE for POSIX

ASSUME BarrierAssumption ==
    /\ IsFiniteSet(Task)
    /\ NumTasks = Cardinality(Task)
    /\ NumTasks # 0
    /\ NoTask \notin Task
    /\ NoMarker \notin Marker
    /\ CounterRange \in Nat \ {0, 1}
    /\ MaxCalls \in Nat
    /\ Systems \subseteq BOOLEAN

max_waiting == NumTasks - 1
Slots == 0 .. (max_waiting - 1)           \* the indices of conds

VARIABLES
    pc,             \* "out"; or waiting: "gap", "blocked" or "awake"
    idx,            \* the condition variable a waiting task sleeps in
    wait_value,     \* the counter_value it saw
    num_waiting,
    counter_value,
    first_heap,     \* the first waiting task, when it passed a marker
    first_marker,   \* its marker
    event,          \* Windows: the events that remember a signal
    windows,        \* the build that runs; it never changes
    arrived,        \* history: how many waits each task has begun
    passed          \* history: how many of them have ended

vars == <<pc, idx, wait_value, num_waiting, counter_value, first_heap, first_marker,
          event, windows, arrived, passed>>

(* The type invariant: num_waiting stays between 0 and max_waiting, which  *)
(* barrier_wait itself tests for ("memory corruption").                    *)
TypeOK ==
    /\ pc \in [Task -> {"out", "gap", "blocked", "awake"}]
    /\ idx \in [Task -> Nat]
    /\ wait_value \in [Task -> 0 .. (CounterRange - 1)]
    /\ num_waiting \in 0 .. max_waiting
    /\ counter_value \in 0 .. (CounterRange - 1)
    /\ first_heap \in Task \cup {NoTask}
    /\ first_marker \in Marker \cup {NoMarker}
    /\ event \in SUBSET Slots
    /\ windows \in BOOLEAN
    /\ arrived \in [Task -> Nat]
    /\ passed \in [Task -> Nat]

Init ==
    /\ pc = [t \in Task |-> "out"]
    /\ idx = [t \in Task |-> 0]
    /\ wait_value = [t \in Task |-> 0]
    /\ num_waiting = 0
    /\ counter_value = 0
    /\ first_heap = NoTask
    /\ first_marker = NoMarker
    /\ event = {}
    /\ windows \in Systems
    /\ arrived = [t \in Task |-> 0]
    /\ passed = [t \in Task |-> 0]

(* The check of the markers: the first task of a round sets the marker of  *)
(* the round, the others must agree with it.  A call that does not agree   *)
(* returns an error and changes nothing: it is no step of this module.     *)
MarkersAgree(marker) ==
    \/ num_waiting = 0
    \/ marker = NoMarker /\ first_heap = NoTask
    \/ marker # NoMarker /\ first_heap # NoTask /\ marker = first_marker

Blocked == {t \in Task : pc[t] = "blocked"}

(* A task that is not the last of its round waits.                         *)
Arrive(t) ==
    /\ pc[t] = "out" /\ arrived[t] < MaxCalls
    /\ num_waiting # max_waiting
    /\ \E marker \in Marker \cup {NoMarker} :
        /\ MarkersAgree(marker)
        /\ IF num_waiting # 0 THEN UNCHANGED <<first_heap, first_marker>>
           ELSE IF marker = NoMarker
           THEN first_heap' = NoTask /\ UNCHANGED first_marker
           ELSE first_heap' = t /\ first_marker' = marker
    /\ idx' = [idx EXCEPT ![t] = num_waiting]
    /\ wait_value' = [wait_value EXCEPT ![t] = counter_value]
    /\ num_waiting' = num_waiting + 1
    /\ pc' = [pc EXCEPT ![t] = IF windows THEN "gap" ELSE "blocked"]
    /\ arrived' = [arrived EXCEPT ![t] = @ + 1]
    /\ UNCHANGED <<counter_value, event, windows, passed>>

(* The last task of a round moves the counter, signals every cond and goes *)
(* on.  Each signal releases one of the tasks blocked in that cond; on     *)
(* Windows a signal that releases nobody is remembered.                    *)
ArriveLast(t) ==
    /\ pc[t] = "out" /\ arrived[t] < MaxCalls
    /\ num_waiting = max_waiting
    /\ \E marker \in Marker \cup {NoMarker} :
        /\ MarkersAgree(marker)
        /\ first_marker' = IF num_waiting = 0 /\ marker # NoMarker THEN marker
                                                                 ELSE first_marker
    /\ num_waiting' = 0
    /\ first_heap' = NoTask
    /\ counter_value' = IF counter_value = CounterRange - 1 THEN 0 ELSE counter_value + 1
    /\ \E released \in SUBSET Blocked :
        /\ \A u \in Blocked : \E v \in released :
            idx[v] = idx[u] /\ \A w \in released : idx[w] = idx[v] => w = v
        /\ pc' = [u \in Task |-> IF u \in released THEN "awake" ELSE pc[u]]
    /\ event' = IF windows THEN event \cup {i \in Slots : \A u \in Blocked : idx[u] # i}
                           ELSE event
    /\ arrived' = [arrived EXCEPT ![t] = @ + 1]
    /\ passed' = [passed EXCEPT ![t] = @ + 1]
    /\ UNCHANGED <<idx, wait_value, windows>>

(* Windows: from leaving the critical section to waiting for the event.    *)
EnterWait(t) ==
    /\ pc[t] = "gap"
    /\ IF idx[t] \in event
       THEN event' = event \ {idx[t]} /\ pc' = [pc EXCEPT ![t] = "awake"]
       ELSE pc' = [pc EXCEPT ![t] = "blocked"] /\ UNCHANGED event
    /\ UNCHANGED <<idx, wait_value, num_waiting, counter_value, first_heap, first_marker,
                   windows, arrived, passed>>

(* POSIX: a wait may end without a signal.                                 *)
WakeSpuriously(t) ==
    /\ pc[t] = "blocked" /\ ~windows
    /\ pc' = [pc EXCEPT ![t] = "awake"]
    /\ UNCHANGED <<idx, wait_value, num_waiting, counter_value, first_heap, first_marker,
                   event, windows, arrived, passed>>

(* Mutant: any return of the wait ends barrier_wait.                       *)
LeaveAnyway(t) ==
    /\ pc[t] = "awake"
    /\ pc' = [pc EXCEPT ![t] = "out"]
    /\ passed' = [passed EXCEPT ![t] = @ + 1]
    /\ UNCHANGED <<idx, wait_value, num_waiting, counter_value, first_heap, first_marker,
                   event, windows, arrived>>

(* Back from the wait: leave when the counter has moved, or wait again.    *)
Leave(t) ==
    /\ pc[t] = "awake" /\ wait_value[t] # counter_value
    /\ pc' = [pc EXCEPT ![t] = "out"]
    /\ passed' = [passed EXCEPT ![t] = @ + 1]
    /\ UNCHANGED <<idx, wait_value, num_waiting, counter_value, first_heap, first_marker,
                   event, windows, arrived>>

(* Mutant: the counter is not looked at between two waits.                 *)
WaitAgainAnyway(t) ==
    /\ pc[t] = "awake"
    /\ pc' = [pc EXCEPT ![t] = IF windows THEN "gap" ELSE "blocked"]
    /\ UNCHANGED <<idx, wait_value, num_waiting, counter_value, first_heap, first_marker,
                   event, windows, arrived, passed>>

WaitAgain(t) ==
    /\ pc[t] = "awake" /\ wait_value[t] = counter_value
    /\ pc' = [pc EXCEPT ![t] = IF windows THEN "gap" ELSE "blocked"]
    /\ UNCHANGED <<idx, wait_value, num_waiting, counter_value, first_heap, first_marker,
                   event, windows, arrived, passed>>

Next == \E t \in Task :
    \/ Arrive(t) \/ ArriveLast(t)
    \/ EnterWait(t) \/ WakeSpuriously(t) \/ Leave(t) \/ WaitAgain(t)

Spec == Init /\ [][Next]_vars

-----------------------------------------------------------------------------
(* Properties                                                              *)

(* No task ends its n-th wait before every task has begun its n-th.        *)
Rendezvous == \A t, u \in Task : passed[t] <= arrived[u]

Waiting == {t \in Task : pc[t] # "out"}
Current == {t \in Waiting : wait_value[t] = counter_value}

(* The heap that the markers are compared with belongs to a task that is   *)
(* stopped in this round, so nothing changes it during the comparison.     *)
FirstHeapIsStopped == first_heap # NoTask => first_heap \in Current

(* With POSIX condition variables no task sleeps in a round that is over:  *)
(* the one signal per condition variable reaches the task of this round    *)
(* that sleeps there.                                                      *)
NobodyLeftBehind == windows \/ \A t \in Blocked : t \in Current
=============================================================================
