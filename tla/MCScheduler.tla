----------------------------- MODULE MCScheduler -----------------------------
(* Small instances of Scheduler for TLC.                                     *)
EXTENDS Scheduler

\* Jobs and fiber objects are interchangeable; threads are not, where the
\* instance pins jobs to them.
Symmetry == Permutations(Jobs) \cup Permutations(Fibers)
=============================================================================
