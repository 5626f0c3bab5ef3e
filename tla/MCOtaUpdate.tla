----------------------------- MODULE MCOtaUpdate -----------------------------
(***************************************************************************)
(* Small instances of OtaUpdate: images of five bytes, in chunks of two.   *)
(***************************************************************************)
EXTENDS OtaRefinement

CONSTANTS a, b, factory

Sizes == [i \in Image \union {Factory} |-> 5]
ChunksOf(i) == {[image |-> i, pos |-> 0, len |-> 2], [image |-> i, pos |-> 2, len |-> 2],
                [image |-> i, pos |-> 4, len |-> 1]}
ServerChunks == UNION {ChunksOf(i) : i \in Image}
OneImage == ChunksOf(a)
==============================================================================
