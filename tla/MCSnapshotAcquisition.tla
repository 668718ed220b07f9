----------------------- MODULE MCSnapshotAcquisition -----------------------
(* Model-checking instances of SnapshotAcquisition: see the .cfg files.    *)
EXTENDS SnapshotAcquisition, TLC

Symmetry == Permutations(Runs) \cup Permutations(Procs)
=============================================================================
