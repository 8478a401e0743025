-------------------------------- MODULE MCJobs --------------------------------
(* Module Jobs with two jobs. *)
EXTENDS JobsProperties

CONSTANTS j1, j2, p1

\* One job writes a file, the other keeps its result in memory.
OwnOutput == [j \in {j1, j2} |-> IF j = j1 THEN p1 ELSE InMemory]

\* Both jobs write the same file.
SharedOutput == [j \in {j1, j2} |-> p1]

OneJob == [j \in {j1} |-> p1]
===============================================================================
