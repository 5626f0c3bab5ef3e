--------------------------- MODULE ValveRefinement ---------------------------
(***************************************************************************)
(* ValveControl as an implementation of Irrigation: an open valve serves   *)
(* the window that is selected, the one whose closing pulse is about to    *)
(* begin, or, when minute 0 has just cleared the selection, a due one that *)
(* the same call of CheckIfTime is going to select.                        *)
(***************************************************************************)
EXTENDS ValveControl

DueWindows(v) == {k \in Slot : InWindow(v, day, minute, k)}

ServedBy(v) ==
    CASE v \notin open -> 0
      [] v \in open /\ timeselect[v] # 0 -> timeselect[v]
      [] v \in open /\ timeselect[v] = 0 /\ main.at = "raise" -> main.slot
      [] v \in open /\ timeselect[v] = 0 /\ main.at # "raise" ->
            CHOOSE k \in Slot : DueWindows(v) # {} => k \in DueWindows(v)

Schedule == INSTANCE Irrigation
    WITH Window <- Slot, None <- 0,
         due <- [v \in Valve |-> DueWindows(v)], serving <- [v \in Valve |-> ServedBy(v)]

\* CheckIfTime with its clock, its three windows tested in turn, its flag of the new
\* day and its pulses waters as Irrigation says: minute by minute, each valve for its
\* due windows only, and without opening or closing twice.  It is stated of windows
\* that keep clear of midnight and of a server that leaves the outputs alone.
ScheduleKept == Schedule!IrrigationSpec
==============================================================================
