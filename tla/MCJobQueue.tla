------------------------------ MODULE MCJobQueue ------------------------------
(***************************************************************************)
(* Small instances of JobQueue: the constants of the .cfg files.           *)
(***************************************************************************)
EXTENDS JobQueueRefinement, TLC

\* Every incremental job is for the one view of the instance.
OneView == [j \in Incrementals |-> CHOOSE v \in Views : TRUE]

\* Workers are interchangeable in every safety run.
WorkerSymmetry == Permutations(Workers)
=============================================================================
