---------------------------- MODULE ComputeTasks ----------------------------
(***************************************************************************)
(* The compute threads of a script (src/fixtask/fixtask.c: ComputeTasks,   *)
(* compute_thread_main, finish_tasks, compute_task_run and its callers).   *)
(*                                                                         *)
(* A job is cloned to one of a few worker heaps.  Each heap waits on one   *)
(* of three stacks, inactive, active and finished, or is in the hands of a *)
(* core or of a call of the main thread.  The main thread clones jobs in   *)
(* and runs their finish functions, which may call back into this module:  *)
(* its calls in progress form a stack of frames.                           *)
(*                                                                         *)
(* An action is a segment of a call from one acquisition of tasks->mutex   *)
(* to the next release of it.  Abstracted: the values that are computed,   *)
(* and the intervals of run_parallel (module ParallelSplit has them).      *)
(***************************************************************************)
EXTENDS Naturals, Sequences, FiniteSets

CONSTANTS
    Core,       \* the compute threads
    Heap,       \* the worker heaps
    NoHeap, Main, Native,
    Job,        \* the jobs, each run at most once (a bound)
    WithFinish, \* those that have a finish function
    Failing,    \* those that end with an error, or whose result cannot be copied
    Uncopied,   \* those that cannot be copied to a worker heap
    Calls,      \* the functions the script calls
    Nested,     \* the functions a finish function calls, once at most (a bound)
    Raising     \* the jobs whose finish function gives an error

num_cores == Cardinality(Core)
num_heaps == Cardinality(Heap)
Functions == {"run", "check_finished", "finish_all", "run_parallel", "native"}

ASSUME ComputeAssumption ==
    /\ IsFiniteSet(Core) /\ Core # {} /\ IsFiniteSet(Heap)
    /\ num_heaps = IF num_cores > 1 THEN num_cores + 1 ELSE 1
    /\ NoHeap \notin Heap /\ Main \notin Core /\ Native \notin Job
    /\ WithFinish \cup Failing \cup Uncopied \cup Raising \subseteq Job
    /\ Calls \cup Nested \subseteq Functions

VARIABLES
    inactive, active, finished,     \* stacks of heaps, top first
    running,    \* the heap each core runs
    work,       \* the job on each heap: none, a job, or Native
    reading,    \* the heaps whose job reads the heap of the script, parent_heap
    asleep,     \* the threads in pthread_cond_wait
    stack,      \* the calls of the main thread, innermost first
    error,      \* whether the call that returned last gave an error
    parallel_mode,
    fresh,      \* the jobs not given to run yet
    reported,   \* how often each job was finished: its finish function called, or its error returned
    quit,       \* whether the script has ended
    gone        \* the cores that left after that

lists == <<inactive, active, finished>>
coreVars == <<running, quit, gone>>
vars == <<lists, coreVars, work, reading, asleep, stack, error, parallel_mode, fresh, reported>>

(* A call in progress: phase is where it is, job what it has to run, heap  *)
(* the worker heap it holds, left the calls a finish function may make.    *)
NewFrame(op, phase) == [op |-> op, phase |-> phase, job |-> {}, heap |-> NoHeap, left |-> 0]

Init ==
    /\ inactive \in {s \in [1..num_heaps -> Heap] : \A h \in Heap : \E i \in DOMAIN s : s[i] = h}
    /\ active = <<>> /\ finished = <<>>
    /\ running = [c \in Core |-> NoHeap]
    /\ work = [h \in Heap |-> {}]
    /\ reading = {}
    /\ asleep = {}
    /\ stack = <<>>
    /\ error = FALSE /\ parallel_mode = FALSE
    /\ fresh = Job
    /\ reported = [j \in Job |-> 0]
    /\ quit = FALSE /\ gone = {}

-----------------------------------------------------------------------------
(* The stack of calls of the main thread.                                  *)

Top == Head(stack)
In(op, phases) == stack # <<>> /\ Top.op = op /\ Top.phase \in phases /\ Main \notin asleep

Become(frame) == stack' = <<frame>> \o Tail(stack)
CallFrom(frame, callee) == stack' = <<callee, frame>> \o Tail(stack)
Return(e) == stack' = Tail(stack) /\ error' = e

(* The script, or a finish function, calls f: the new frames go on top.    *)
ScriptCalls(f, frames) ==
    /\ ~quit
    /\ \/ stack = <<>> /\ f \in Calls /\ stack' = frames
       \/ /\ In("callback", {"script"}) /\ Top.left = 1 /\ f \in Nested
          /\ stack' = frames \o <<[Top EXCEPT !.left = 0]>> \o Tail(stack)
    /\ error' = FALSE

Sleep(frame) ==
    /\ Become(frame)
    /\ asleep' = asleep \cup {Main}
    /\ UNCHANGED <<lists, coreVars, work, reading, error, parallel_mode, fresh, reported>>

Report(jobs) == reported' = [j \in Job |-> reported[j] + (IF j \in jobs THEN 1 ELSE 0)]

AllInactive == Len(inactive) = num_heaps

-----------------------------------------------------------------------------
(* finish_tasks, under the callers that loop around it: compute_task_run   *)
(* when no heap is inactive, compute_task_finish_all until all are.        *)
Finishing ==
    /\ finished # <<>>
    /\ \/ In("run", {"loop"}) /\ inactive = <<>>
       \/ In("finish_all", {"loop"}) /\ ~AllInactive
       \/ In("finish_all", {"wait"})
       \/ \E op \in Functions : In(op, {"finish"})

Finished == Head(finished)

(* Its job failed, or its result cannot be copied: finish_tasks and its    *)
(* caller return that error at once.                                       *)
FinishFailed ==
    /\ Finishing /\ work[Finished] \subseteq Failing
    /\ finished' = Tail(finished)
    /\ inactive' = <<Finished>> \o inactive
    /\ work' = [work EXCEPT ![Finished] = {}]
    /\ Report(work[Finished])
    /\ Return(TRUE)
    /\ UNCHANGED <<active, coreVars, reading, asleep, parallel_mode, fresh>>

(* Its result is copied into the heap of the script (CopiesIn), whoever    *)
(* reads that heap, and is dropped there: it has no finish function.       *)
FinishPlain ==
    /\ Finishing /\ work[Finished] \cap (Failing \cup WithFinish) = {}
    /\ finished' = Tail(finished)
    /\ inactive' = <<Finished>> \o inactive
    /\ work' = [work EXCEPT ![Finished] = {}]
    /\ Report(work[Finished])
    /\ Become([Top EXCEPT !.phase = "finish"])
    /\ UNCHANGED <<active, coreVars, reading, asleep, error, parallel_mode, fresh>>

(* The mutex is free while the finish function runs; its heap is on none   *)
(* of the lists.                                                           *)
FinishCallback ==
    /\ Finishing /\ work[Finished] \subseteq WithFinish \ Failing
    /\ finished' = Tail(finished)
    /\ Report(work[Finished])
    /\ CallFrom([Top EXCEPT !.phase = "finish"],
                [NewFrame("callback", "script") EXCEPT !.heap = Finished, !.left = 1])
    /\ UNCHANGED <<inactive, active, coreVars, work, reading, asleep, error, parallel_mode, fresh>>

(* Mutant: the heap is not given back when the finish function fails.      *)
CallbackFails ==
    /\ In("callback", {"script"})
    /\ work' = [work EXCEPT ![Top.heap] = {}]
    /\ error' = (work[Top.heap] \subseteq Raising)
    /\ inactive' = IF error' THEN inactive ELSE <<Top.heap>> \o inactive
    /\ stack' = IF error' THEN Tail(Tail(stack)) ELSE Tail(stack)
    /\ UNCHANGED <<active, finished, coreVars, reading, asleep, parallel_mode, fresh, reported>>

(* It returns; with an error, so do finish_tasks and its caller.           *)
CallbackReturns ==
    /\ In("callback", {"script"})
    /\ inactive' = <<Top.heap>> \o inactive
    /\ work' = [work EXCEPT ![Top.heap] = {}]
    /\ error' = (work[Top.heap] \subseteq Raising)
    /\ stack' = IF error' THEN Tail(Tail(stack)) ELSE Tail(stack)
    /\ UNCHANGED <<active, finished, coreVars, reading, asleep, parallel_mode, fresh, reported>>

-----------------------------------------------------------------------------
(* compute_task_run                                                        *)
CallRun ==
    /\ \E j \in fresh :
          /\ ScriptCalls("run", <<[NewFrame("run", "loop") EXCEPT !.job = {j}]>>)
          /\ fresh' = fresh \ {j}
    /\ UNCHANGED <<lists, coreVars, work, reading, asleep, parallel_mode, reported>>

PickHeap ==
    /\ In("run", {"loop"}) \/ (In("run", {"finish"}) /\ finished = <<>>)
    /\ inactive # <<>>
    /\ inactive' = Tail(inactive)
    /\ Become([Top EXCEPT !.phase = "clone", !.heap = Head(inactive)])
    /\ UNCHANGED <<active, finished, coreVars, work, reading, asleep, error, parallel_mode, fresh, reported>>

WaitToRun ==
    /\ In("run", {"loop", "finish"}) /\ inactive = <<>> /\ finished = <<>>
    /\ Sleep([Top EXCEPT !.phase = "loop"])

CloneFails ==
    /\ In("run", {"clone"}) /\ Top.job \subseteq Uncopied
    /\ inactive' = <<Top.heap>> \o inactive
    /\ Report(Top.job)
    /\ Return(TRUE)
    /\ UNCHANGED <<active, finished, coreVars, work, reading, asleep, parallel_mode, fresh>>

StartJob ==
    /\ In("run", {"clone"}) /\ Top.job \cap Uncopied = {}
    /\ active' = <<Top.heap>> \o active
    /\ work' = [work EXCEPT ![Top.heap] = Top.job]
    /\ reading' = IF parallel_mode THEN reading \cup {Top.heap} ELSE reading
    /\ asleep' = asleep \ Core
    /\ Return(FALSE)
    /\ UNCHANGED <<inactive, finished, coreVars, parallel_mode, fresh, reported>>

-----------------------------------------------------------------------------
(* compute_task_check_finished and compute_task_finish_all                 *)
CallCheckFinished ==
    /\ ScriptCalls("check_finished", <<NewFrame("check_finished", "finish")>>)
    /\ UNCHANGED <<lists, coreVars, work, reading, asleep, parallel_mode, fresh, reported>>

CheckFinishedReturns ==
    /\ In("check_finished", {"finish"}) /\ finished = <<>>
    /\ Return(FALSE)
    /\ UNCHANGED <<lists, coreVars, work, reading, asleep, parallel_mode, fresh, reported>>

FinishAll == NewFrame("finish_all", "loop")

CallFinishAll ==
    /\ ScriptCalls("finish_all", <<FinishAll>>)
    /\ UNCHANGED <<lists, coreVars, work, reading, asleep, parallel_mode, fresh, reported>>

WaitToFinish ==
    /\ finished = <<>>
    /\ In("finish_all", {"wait"}) \/ (In("finish_all", {"loop", "finish"}) /\ ~AllInactive)
    /\ Sleep([Top EXCEPT !.phase = "wait"])

FinishAllReturns ==
    /\ In("finish_all", {"loop"}) \/ (In("finish_all", {"finish"}) /\ finished = <<>>)
    /\ AllInactive
    /\ Return(FALSE)
    /\ UNCHANGED <<lists, coreVars, work, reading, asleep, parallel_mode, fresh, reported>>

-----------------------------------------------------------------------------
(* compute_task_run_parallel, for an interval worth more than one core:    *)
(* a part of it, a job, for each core or for fewer.                        *)
CallParallel ==
    /\ \E parts \in SUBSET (fresh \ WithFinish) :
          /\ Cardinality(parts) \in 2..num_cores
          /\ ScriptCalls("run_parallel",
                <<FinishAll, [NewFrame("run_parallel", "before") EXCEPT !.job = parts]>>)
          /\ fresh' = fresh \ parts
    /\ UNCHANGED <<lists, coreVars, work, reading, asleep, parallel_mode, reported>>

ParallelStarts ==
    /\ In("run_parallel", {"before"}) /\ ~error
    /\ Become([Top EXCEPT !.phase = "parts"])
    /\ parallel_mode' = TRUE
    /\ UNCHANGED <<lists, coreVars, work, reading, asleep, error, fresh, reported>>

RunPart ==
    /\ In("run_parallel", {"parts"}) /\ ~error
    /\ \E j \in Top.job :
          CallFrom([Top EXCEPT !.job = @ \ {j}], [NewFrame("run", "loop") EXCEPT !.job = {j}])
    /\ UNCHANGED <<lists, coreVars, work, reading, asleep, error, parallel_mode, fresh, reported>>

(* Mutant: run_parallel does not wait for its parts.                       *)
PartsLeft ==
    /\ In("run_parallel", {"parts"}) /\ (Top.job = {} \/ error)
    /\ Become([Top EXCEPT !.phase = IF error THEN "failed" ELSE "after", !.job = {}])
    /\ parallel_mode' = FALSE
    /\ fresh' = fresh \cup Top.job
    /\ UNCHANGED <<lists, coreVars, work, reading, asleep, error, reported>>

(* All parts were given to run, or one could not be.                       *)
PartsGiven ==
    /\ In("run_parallel", {"parts"}) /\ (Top.job = {} \/ error)
    /\ CallFrom([Top EXCEPT !.phase = IF error THEN "failed" ELSE "after", !.job = {}], FinishAll)
    /\ parallel_mode' = FALSE
    /\ fresh' = fresh \cup Top.job
    /\ UNCHANGED <<lists, coreVars, work, reading, asleep, error, reported>>

ParallelReturns ==
    /\ In("run_parallel", {"after", "failed"}) \/ (In("run_parallel", {"before"}) /\ error)
    /\ Return(error \/ Top.phase = "failed")
    /\ fresh' = fresh \cup Top.job
    /\ UNCHANGED <<lists, coreVars, work, reading, asleep, parallel_mode, reported>>

-----------------------------------------------------------------------------
(* fixtask_run_on_compute_threads: a native function, once for every core  *)
CallNative ==
    /\ ScriptCalls("native", <<FinishAll, NewFrame("native", "before")>>)
    /\ UNCHANGED <<lists, coreVars, work, reading, asleep, parallel_mode, fresh, reported>>

NativeStarts ==
    /\ In("native", {"before"}) /\ ~error
    /\ active' = [i \in 1..num_cores |-> inactive[num_cores + 1 - i]] \o active
    /\ inactive' = SubSeq(inactive, num_cores + 1, Len(inactive))
    /\ work' = [h \in Heap |-> IF \E i \in 1..num_cores : inactive[i] = h THEN {Native} ELSE work[h]]
    /\ asleep' = asleep \ Core
    /\ Become([Top EXCEPT !.phase = "wait"])
    /\ UNCHANGED <<finished, coreVars, reading, error, parallel_mode, fresh, reported>>

WaitForNative ==
    /\ In("native", {"wait"}) /\ ~AllInactive
    /\ Sleep(Top)

NativeReturns ==
    /\ (In("native", {"before"}) /\ error) \/ (In("native", {"wait"}) /\ AllInactive)
    /\ Return(error)
    /\ UNCHANGED <<lists, coreVars, work, reading, asleep, parallel_mode, fresh, reported>>

-----------------------------------------------------------------------------
(* compute_thread_main: the core gives the heap it has run back, and in    *)
(* the same critical section takes the next one, waits, or leaves.         *)

Ran(c) == running[c] # NoHeap
RanNative(c) == Ran(c) /\ work[running[c]] = {Native}

(* Mutant: the heap of a job goes the way of the native functions.         *)
GiveBackAsNative(c) ==
    /\ inactive' = IF Ran(c) THEN <<running[c]>> \o inactive ELSE inactive
    /\ work' = IF Ran(c) THEN [work EXCEPT ![running[c]] = {}] ELSE work
    /\ reading' = reading \ {running[c]}
    /\ UNCHANGED finished

GiveBack(c) ==
    /\ inactive' = IF RanNative(c) THEN <<running[c]>> \o inactive ELSE inactive
    /\ finished' = IF Ran(c) /\ ~RanNative(c) THEN <<running[c]>> \o finished ELSE finished
    /\ work' = IF RanNative(c) THEN [work EXCEPT ![running[c]] = {}] ELSE work
    /\ reading' = reading \ {running[c]}

(* Mutant: the main thread is not signalled.                               *)
SignalledNobody(c) == asleep

Signalled(c) == IF Ran(c) THEN asleep \ {Main} ELSE asleep

TakeHeap(c) ==
    /\ c \notin asleep /\ ~quit /\ active # <<>>
    /\ GiveBack(c)
    /\ active' = Tail(active)
    /\ running' = [running EXCEPT ![c] = Head(active)]
    /\ asleep' = Signalled(c)
    /\ UNCHANGED <<quit, gone, stack, error, parallel_mode, fresh, reported>>

WaitForWork(c) ==
    /\ c \notin asleep /\ ~quit /\ active = <<>>
    /\ GiveBack(c)
    /\ running' = [running EXCEPT ![c] = NoHeap]
    /\ asleep' = Signalled(c) \cup {c}
    /\ UNCHANGED <<active, quit, gone, stack, error, parallel_mode, fresh, reported>>

Leave(c) ==
    /\ c \notin asleep \cup gone /\ quit
    /\ GiveBack(c)
    /\ running' = [running EXCEPT ![c] = NoHeap]
    /\ asleep' = Signalled(c)
    /\ gone' = gone \cup {c}
    /\ UNCHANGED <<active, quit, stack, error, parallel_mode, fresh, reported>>

(* free_compute_tasks, when the heap of the script is freed.               *)
EndScript ==
    /\ stack = <<>> /\ ~quit
    /\ quit' = TRUE
    /\ active' = <<>>
    /\ asleep' = asleep \ Core
    /\ UNCHANGED <<inactive, finished, running, gone, work, reading, stack, error,
                   parallel_mode, fresh, reported>>

WakeSpuriously ==
    /\ \E t \in asleep : asleep' = asleep \ {t}
    /\ UNCHANGED <<lists, coreVars, work, reading, stack, error, parallel_mode, fresh, reported>>

-----------------------------------------------------------------------------
ScriptStep == CallRun \/ CallCheckFinished \/ CallFinishAll \/ CallParallel \/ CallNative

MainStep ==
    \/ FinishFailed \/ FinishPlain \/ FinishCallback \/ CallbackReturns
    \/ PickHeap \/ WaitToRun \/ CloneFails \/ StartJob
    \/ CheckFinishedReturns \/ WaitToFinish \/ FinishAllReturns
    \/ ParallelStarts \/ RunPart \/ PartsGiven \/ ParallelReturns
    \/ NativeStarts \/ WaitForNative \/ NativeReturns

CoreStep(c) == TakeHeap(c) \/ WaitForWork(c) \/ Leave(c)

Next == ScriptStep \/ MainStep \/ (\E c \in Core : CoreStep(c)) \/ EndScript \/ WakeSpuriously

Spec == Init /\ [][Next]_vars

(* The threads run, every job and every finish function comes to an end.   *)
Fairness == WF_vars(MainStep) /\ \A c \in Core : WF_vars(CoreStep(c))

-----------------------------------------------------------------------------
(* Properties                                                              *)

Places(h) ==
    {<<"inactive", i>> : i \in {k \in DOMAIN inactive : inactive[k] = h}}
    \cup {<<"active", i>> : i \in {k \in DOMAIN active : active[k] = h}}
    \cup {<<"finished", i>> : i \in {k \in DOMAIN finished : finished[k] = h}}
    \cup {<<"running", c>> : c \in {d \in Core : running[d] = h}}
    \cup {<<"stack", i>> : i \in {k \in DOMAIN stack : stack[k].heap = h}}

(* A heap is in one place at a time: on one of the three lists, run by one *)
(* core, or held by one call.  Two places would let two threads use an     *)
(* interpreter heap at once; none would make finish_all wait forever.      *)
HeapsInOnePlace == ~quit => \A h \in Heap : Cardinality(Places(h)) = 1

Pending(j) ==
    {i \in DOMAIN stack : j \in stack[i].job}
    \cup {h \in Heap : j \in work[h] /\ ~\E i \in DOMAIN stack : stack[i].heap = h}

(* No job, and no finish function, has given an error yet.  The first one  *)
(* ends run, finish_all and run_parallel at once, so what they promise     *)
(* holds up to there only.                                                 *)
NoErrorYet == \A j \in Failing \cup Raising : reported[j] = 0

(* Up to the first error, every job that was given to run is under way or  *)
(* was finished once.                                                      *)
EveryJobAccountedFor ==
    ~quit /\ NoErrorYet => \A j \in Job \ fresh : reported[j] + Cardinality(Pending(j)) = 1

Reads == \E c \in Core : running[c] \in reading

(* The heap of the script changes while script code runs, and whenever     *)
(* something is copied into it, since fixscript_clone_between begins with  *)
(* a new hash in the heap it copies to: the result or the error of a job   *)
(* in finish_tasks, the error of a job that cannot be copied in run.       *)
ScriptRuns == stack = <<>> \/ Top.op = "callback"
CopiesIn == FinishFailed \/ FinishPlain \/ FinishCallback \/ CloneFails

Called(op) == Len(stack) > 1 /\ stack[2].op = op

(* Up to the first error, while a core reads the heap of the script        *)
(* through parent_heap, no script code runs, and what is copied into that  *)
(* heap is the result (or the error) of another part of the run_parallel   *)
(* the core works for.  That one the code does not keep away from it.      *)
OnlyPartsDisturb ==
    [][NoErrorYet /\ Reads => /\ ~ScriptRuns
                              /\ CopiesIn => Called("run_parallel")]_vars

(* Finish functions hold all the heaps that are not idle, and the          *)
(* innermost of them waits for one of them, or for all heaps to be idle.   *)
Wedged ==
    /\ \E i \in DOMAIN stack : stack[i].op = "callback"
    /\ active = <<>> /\ finished = <<>> /\ \A c \in Core : ~Ran(c)
    /\ \/ Top.op = "run" /\ Top.phase # "clone" /\ inactive = <<>>
       \/ Top.op = "finish_all"

(* Every call the script makes returns, but one whose finish functions     *)
(* wait for the heaps they hold themselves, each in a call of its own.     *)
EveryCallReturns == stack # <<>> ~> stack = <<>> \/ Wedged
=============================================================================
