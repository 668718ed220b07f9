----------------------------- MODULE MCRunStore -----------------------------
(* Model-checking instance of RunStore: see MCRunStore.cfg.                *)
EXTENDS RunStore, TLC

Symmetry == Permutations(Runs) \cup Permutations(Procs)
=============================================================================
