------------------------------- MODULE MCWal -------------------------------
(* Model-checking instance of Wal. *)
EXTENDS Wal, TLC

\* The two writers of the pair runs are interchangeable.
WriterSymmetry == Permutations(Writers)

\* The part of the state the steps and the properties of the pair run read:
\* progress, acked and the other events are only ever added to.
PairView ==
  <<files, cmd, snap, crashes, {e \in events : e.type = "round_finalized"}>>
=============================================================================
