---------------------------- MODULE MCOtaTransfer ----------------------------
(***************************************************************************)
(* Small instances of OtaTransfer: an image of four bytes in three chunks. *)
(***************************************************************************)
EXTENDS OtaTransfer

CONSTANTS a, factory

Sizes == [i \in Image \union {Factory} |-> 4]
ChunksOf(i) == {[image |-> i, pos |-> 0, len |-> 2], [image |-> i, pos |-> 2, len |-> 1],
                [image |-> i, pos |-> 3, len |-> 1]}
UploadChunks == ChunksOf(Upload)
==============================================================================
