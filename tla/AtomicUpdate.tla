----------------------------- MODULE AtomicUpdate -----------------------------
(***************************************************************************)
(* What a firmware update promises, whoever sends the image, however it is *)
(* cut, and whatever fails on the way: the device always has a whole image *)
(* to run.  There are two slots, one that runs and a spare one; only a     *)
(* spare slot that holds a whole image is ever selected, nothing touches a *)
(* selected slot, and the restart that runs it keeps the old image as the  *)
(* spare.  OtaUpdate implements this with one source of updates.           *)
(***************************************************************************)
CONSTANTS
    Firmware,  \* whole images
    NoImage    \* the spare slot is empty, or holds a part of an image

VARIABLES
    running,   \* the image the device runs
    spare,     \* the image in the other slot
    selected   \* the next restart runs the other slot

atomicVars == <<running, spare, selected>>

AtomicInit == running \in Firmware /\ spare = NoImage /\ selected = FALSE

\* The spare slot is erased, written, or completed.
Receive ==
    /\ ~selected
    /\ spare' \in Firmware \union {NoImage}
    /\ UNCHANGED <<running, selected>>

Select ==
    /\ spare # NoImage
    /\ selected' = TRUE
    /\ UNCHANGED <<running, spare>>

Swap ==
    /\ selected
    /\ running' = spare /\ spare' = running
    /\ selected' = FALSE

AtomicNext == Receive \/ Select \/ Swap

AtomicSpec == AtomicInit /\ [][AtomicNext]_atomicVars
==============================================================================
