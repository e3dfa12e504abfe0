--------------------------- MODULE MCComputeTasks ---------------------------
(* Small instances of ComputeTasks, and of the division of intervals, for  *)
(* TLC.                                                                    *)
EXTENDS ComputeTasks, ParallelSplit

CONSTANTS Below, ToPoint, MaxMinIters

MCPoints == (-Below)..ToPoint
MCMinIters == 0..MaxMinIters

(* Whatever the interval, min_iters and the number of cores that the       *)
(* run_parallel under way was called with: as long as no int overflows,    *)
(* the jobs it gives to run make up the interval.  It neither loses the    *)
(* remainder of the division nor runs an iteration twice when min_iters is *)
(* rounded up.                                                             *)
EveryIterationOnce == parallel_mode => Inexact = {}

(* Nothing tells two heaps apart, nor two jobs of a kind: one order of the *)
(* heaps at the start, and jobs of a kind run in the order of their        *)
(* numbers, stand for all the others.                                      *)
OrderedInit ==
    /\ Init
    /\ inactive = CHOOSE order \in [1..num_heaps -> Heap] :
                    \A h \in Heap : \E i \in DOMAIN order : order[i] = h

Alike(i, j) == \A kind \in {WithFinish, Failing, Uncopied, Raising} : i \in kind <=> j \in kind

JobsInOrder == \A i \in fresh', j \in fresh \ fresh' : Alike(i, j) => i >= j

(* Bounds: the script ends, calls a native function or looks for finished  *)
(* jobs when all jobs were given to run; a finish function waits for all   *)
(* only then; and nothing is called after the second error.                *)
Errors == {j \in Failing \cup Uncopied \cup Raising : reported[j] > 0}
Bounds ==
    /\ EndScript \/ CallNative \/ CallCheckFinished => fresh = {}
    /\ CallFinishAll => stack = <<>> \/ fresh = {}
    /\ ScriptStep => Cardinality(Errors) <= 1

OrderedSpec ==
    /\ OrderedInit
    /\ [][Next /\ JobsInOrder /\ Bounds]_vars
    /\ Fairness
=============================================================================
