----------------------------- MODULE MCBatchJob -----------------------------
(* Instances of the batch queue for TLC. *)
EXTENDS JobView, TLC

\* Every input has data of its own.
DistinctInputs == [i \in Items |-> i]
\* All inputs carry the same data: one render id for the whole batch.
EqualInputs == [i \in Items |-> 0]

WorkerSymmetry == Permutations(Workers)

=============================================================================
