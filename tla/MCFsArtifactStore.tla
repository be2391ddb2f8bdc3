-------------------------- MODULE MCFsArtifactStore --------------------------
(* Bounds for FsArtifactStore: two keys, one of which names a derivation   *)
(* that may come out in two ways, as a model's words do.                   *)
EXTENDS FsArtifactStore, TLC

CONSTANTS k1, k2, v1, v2, v3

OneOfTwoValues == (k1 :> {v1, v2}) @@ (k2 :> {v3})

Symmetry == Permutations(Workers) \cup Permutations(Files)

=============================================================================
