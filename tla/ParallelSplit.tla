--------------------------- MODULE ParallelSplit ---------------------------
(***************************************************************************)
(* How ComputeTask::run_parallel divides an interval between the cores     *)
(* (src/fixtask/fixtask.c, compute_task_run_parallel): the arithmetic of   *)
(* the calls, of which module ComputeTasks has the rest.  A call is a      *)
(* record of the arguments and of num_cores.  Integers are bounded and     *)
(* wrap around, which is what the compiled code does where C leaves the    *)
(* overflow undefined.                                                     *)
(***************************************************************************)
EXTENDS Integers, Sequences, FiniteSets

CONSTANTS
    Bound,          \* ints are from -Bound to Bound - 1; 2^31 in the code
    Cores,          \* the numbers of cores that are considered
    Points,         \* the ends of intervals that are considered
    MinIters        \* the values of min_iters that are considered

MaxInt == Bound - 1
Ints == (-Bound)..MaxInt

ASSUME SplitAssumption ==
    /\ Bound \in Nat \ {0}
    /\ Cores \subseteq 1..MaxInt
    /\ Points \cup MinIters \subseteq Ints

(* The result of an operation on ints, and the division of C.              *)
Wrap(x) == ((x + Bound) % (2 * Bound)) - Bound
Quotient(x, y) == IF x >= 0 THEN x \div y ELSE -((-x) \div y)

SplitCalls ==
    [from : Points, to : Points, num_cores : Cores,
     min_iters : {IF m < 1 THEN 1 ELSE m : m \in MinIters}]

Length(call) == Wrap(call.to - call.from)

(* (to - from) >> 1, an arithmetic shift: the caller runs it all.          *)
Light(call) == Length(call) \div 2 < call.min_iters \/ call.num_cores = 1

(* Fewer cores when they would not all get min_iters iterations.           *)
FitCores(call) ==
    LET fewer == Quotient(Length(call), call.min_iters)
    IN  IF Length(call) < Wrap(call.min_iters * call.num_cores)
        THEN [call EXCEPT !.num_cores = fewer,
                          !.min_iters = Quotient(Wrap(Length(call) + fewer - 1), fewer)]
        ELSE call

ItersPerCore(call) ==
    LET share == Quotient(Length(call), call.num_cores)
    IN  IF share < call.min_iters THEN call.min_iters ELSE share

(* Mutant: the last core gets no more than the others.                     *)
PartOfCoreOnly(call, i) ==
    LET first == Wrap(call.from + Wrap(ItersPerCore(call) * i))
        last  == Wrap(first + ItersPerCore(call))
    IN  <<first, IF last > call.to THEN call.to ELSE last>>

(* One round of the loop: the last core takes the rest.                    *)
PartOfCore(call, i) ==
    LET first == Wrap(call.from + Wrap(ItersPerCore(call) * i))
        last  == Wrap(first + ItersPerCore(call))
    IN  <<first, IF last > call.to \/ i = call.num_cores - 1 THEN call.to ELSE last>>

(* The intervals func is called with.                                      *)
Parts(call) ==
    IF call.from >= call.to THEN <<>>
    ELSE IF Light(call) THEN <<<<call.from, call.to>>>>
    ELSE LET fit == FitCores(call)
         IN  [i \in 1..fit.num_cores |-> PartOfCore(fit, i - 1)]

-----------------------------------------------------------------------------
Takers(parts, k) == {i \in DOMAIN parts : parts[i][1] <= k /\ k < parts[i][2]}

(* Every iteration of the interval is run by one part, and nothing else is *)
(* run by any.                                                             *)
Exact(call) ==
    \A k \in Ints :
        IF call.from <= k /\ k < call.to
        THEN \E i \in DOMAIN Parts(call) : Takers(Parts(call), k) = {i}
        ELSE Takers(Parts(call), k) = {}

(* No int overflows on the way.                                            *)
NoOverflow(call) ==
    call.from < call.to =>
        /\ call.to - call.from + call.num_cores <= MaxInt
        /\ call.min_iters * call.num_cores <= MaxInt
        /\ ~Light(call) =>
              LET fit == FitCores(call)
              IN  /\ ItersPerCore(fit) * fit.num_cores <= MaxInt
                  /\ call.from + ItersPerCore(fit) * fit.num_cores <= MaxInt

Inexact == {call \in SplitCalls : NoOverflow(call) /\ ~Exact(call)}
=============================================================================
