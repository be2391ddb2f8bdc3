---------------------------- MODULE MCTarArchive ----------------------------
(* Bounds for TarArchive: a plain archive, three solid ones of which the   *)
(* largest evicts both others, and one that is over the bound alone.       *)
EXTENDS TarArchive, TLC

CONSTANTS plain, small, middle, large, bomb

AllSizes == (plain :> 1) @@ (small :> 1) @@ (middle :> 2) @@ (large :> 3) @@ (bomb :> 4)

Sizes == [a \in Archives |-> AllSizes[a]]

(* Sound for the safety runs: nothing names a reader or a copy.            *)
Symmetry == Permutations(Readers) \cup Permutations(Copies)

=============================================================================
