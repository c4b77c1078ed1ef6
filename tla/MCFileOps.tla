----------------------------- MODULE MCFileOps -----------------------------
(* Instances of FileOps for TLC, and the statement of the repository that    *)
(* the pipelines break.                                                     *)
EXTENDS FileOps, TLC

CONSTANTS o1, o2, o3, p1, c1, blank

TwoOps == {o1, o2}
ThreeOps == {o1, o2, o3}
OnePath == {p1}
OneText == {c1}
TextAndBlank == {c1, blank}
OnlyBlank == {blank}

NoFaults == {}

OpSymmetry == Permutations(Ops)

\* "so search can never point at a file that was never written" (file_op.rs, at
\* the undo of a failed write): an index entry has its file once nothing runs.
NeverPointsAtMissingFile ==
    \A p \in Paths : Quiet(p) /\ index[p] # NoMemory => file[p] # NoMemory
=============================================================================
