---------------------------- MODULE MCQueueMetrics ----------------------------
(* An instance of QueueMetrics for TLC. *)
EXTENDS QueueMetrics

\* An invalid target, and targets that do and do not divide the depths.
MCTargets == {-1, 1, 2, 3, 7}

\* Bounds below, among and above the numbers of workers that are asked for.
MCSizes == {-4, 0, 1, 2, 3}
===============================================================================
