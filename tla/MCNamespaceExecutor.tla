------------------------ MODULE MCNamespaceExecutor -------------------------
(* Small instances of NamespaceExecutor.                                   *)
EXTENDS NamespaceExecutor, TLC

CONSTANTS j1, j2, j3, t1, t2

\* Three jobs on their own, or a job that waits for another, which has a worker
\* left to run on.
MCWorkloads == {[j \in {j1, j2, j3} |-> None], j1 :> j2 @@ j2 :> None}
=============================================================================
