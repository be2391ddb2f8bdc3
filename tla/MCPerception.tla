---------------------------- MODULE MCPerception ----------------------------
(* Bounds for Perception: files that hold one of two contents, each of a   *)
(* mimetype of its own, so that a ref put together from two moments shows. *)
EXTENDS Perception, TLC

CONSTANTS A, B, text, slides

TwoKinds == [u \in Uris |-> (A :> text) @@ (B :> slides)]

Symmetry == Permutations(Tasks)

(* Where the handlers of both mimetypes do the same, the contents may be   *)
(* exchanged, with their mimetypes.                                        *)
Exchanged == (A :> B) @@ (B :> A) @@ (text :> slides) @@ (slides :> text)

AlikeSymmetry == Symmetry \cup {Exchanged @@ tasks : tasks \in Symmetry}

=============================================================================
