------------------------------- MODULE MCJobs -------------------------------
(* Small instances of Jobs for TLC. *)
EXTENDS Jobs, TLC

\* Without the worker's schedule: manual jobs only.
ManualOnly == {{}}

\* A one-time job that can still be scheduled at instant 0, and a recurrence.
OneTimeOrRecurrence == {{1}, {1, 2}}

\* A recurrence only.
OneRecurrence == {{1, 2}}

\* A manual job, a one-time job and a recurrence.
SomeSchedules == {{}, {2}, {1, 3}}

Symmetry == Permutations(Procs) \cup Permutations(Requests)
===============================================================================
