---------------------------- MODULE OtaRefinement ----------------------------
(***************************************************************************)
(* OtaUpdate as an implementation of AtomicUpdate: the spare slot is the   *)
(* sequence of bytes written since its last erase, and holds an image when *)
(* all bytes of that image stand at its beginning.                         *)
(***************************************************************************)
EXTENDS OtaUpdate

CONSTANT NoImage

ASSUME NoImageIsNone == NoImage \notin Image \union {Factory}

HeldBy(slot) ==
    IF Whole(slot) THEN CHOOSE i \in Image \union {Factory} : Holds(slot, i) ELSE NoImage

Atomic == INSTANCE AtomicUpdate
    WITH Firmware <- Image \union {Factory},
         spare <- HeldBy(flash), selected <- (boot = "update")

\* With one source of updates (WebImages or Chunks empty), chunks in any order,
\* failures at any step and a restart at any moment are together an update that
\* happens at once or not at all.  With both sources it is not: esp_ota_begin of
\* one erases the slot the other has selected.
UpdateIsAtomic == Atomic!AtomicSpec
==============================================================================
