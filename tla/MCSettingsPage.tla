--------------------------- MODULE MCSettingsPage ---------------------------
(***************************************************************************)
(* Two browsers, two start hours and a duration; minutes below zero in the *)
(* table, texts beyond the day and beyond the range of an int16_t.  The    *)
(* browsers are interchangeable, and so are the start hours.               *)
(***************************************************************************)
EXTENDS SettingsPage, TLC

Factory == {[f \in Field |-> IF f \in StartHour THEN -90 ELSE 30]}
Texts == {Clock(24, 30), Clock(600, 0), Number(70000), Blank}
Interchangeable == Permutations(Browser) \union Permutations(StartHour)
=============================================================================
