--------------------------- MODULE MCNestedSource ---------------------------
(* Bounds for NestedSource: one archive with a tar in it, which holds a    *)
(* note and a leaf, a container whose seed is too deep to be read.         *)
(* Unescaped, the uri of the note is that of the seed.                     *)
EXTENDS NestedSource, TLC

CONSTANTS zip, tar, page, note, leaf, seed

ASSUME UrisAreJoined == UrisJoined /\ UrisName

Within == (tar :> zip) @@ (note :> tar) @@ (leaf :> tar) @@ (seed :> leaf)
TreeParent == [u \in Members |-> Within[u]]

Named == (tar :> <<"t">>) @@ (note :> <<"l", "\\", "!", "s">>)
           @@ (leaf :> <<"l", "\\">>) @@ (seed :> <<"s">>)
TreeName == [u \in Members |-> Named[u]]

(* As they are written, by hand.                                           *)
Written ==
  (zip :> <<"z">>) @@ (tar :> <<"z", "!", "t">>)
    @@ (note :> <<"z", "!", "t", "!", "l", "\\", "\\", "\\", "!", "s">>)
    @@ (leaf :> <<"z", "!", "t", "!", "l", "\\", "\\">>)
    @@ (seed :> <<"z", "!", "t", "!", "l", "\\", "\\", "!", "s">>)
TreeAddress == [x \in Items |-> Written[x]]

(* Two members of one archive, in folders of their own and of one name.    *)
FlatParent == [u \in Members |-> zip]
FlatName == (note :> <<"a", "/", "x">>) @@ (page :> <<"b", "/", "x">>)
FlatAddress ==
  (zip :> <<"z">>) @@ (note :> <<"z", "!", "a", "/", "x">>)
    @@ (page :> <<"z", "!", "b", "/", "x">>)

=============================================================================
