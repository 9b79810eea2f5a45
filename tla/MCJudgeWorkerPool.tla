-------------------------- MODULE MCJudgeWorkerPool --------------------------
(***************************************************************************)
(* The judging back end with two workers.                                  *)
(***************************************************************************)
EXTENDS JudgeWorkerPool, TLC

\* The back end never passes the snapshots through the store's own Next.
MCSnapshots == {}

\* The workers are interchangeable (sound for the invariants only).
WorkerSymmetry == Permutations(Workers)
=============================================================================
