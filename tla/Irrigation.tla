------------------------------ MODULE Irrigation ------------------------------
(***************************************************************************)
(* What the watering schedule promises, without clock, calls and pulses.   *)
(* At any time some windows of each valve are due.  A valve opens only for *)
(* a window that is due and closes only when the window it is open for is  *)
(* no longer so.  Before the next minute makes other windows due, every    *)
(* valve with a due window has been opened for one, and every other valve  *)
(* has been closed.  So in one minute no valve closes or opens twice.      *)
(* ValveControl implements this as long as its windows keep clear of       *)
(* midnight and nobody interferes.                                         *)
(***************************************************************************)
CONSTANTS
    Valve, Window,
    None     \* no window

VARIABLES
    due,     \* per valve: the windows due now
    serving  \* per valve: the window it is open for, or None

irrigationVars == <<due, serving>>

IrrigationInit == due = [v \in Valve |-> {}] /\ serving = [v \in Valve |-> None]

Open(v) ==
    /\ serving[v] = None
    /\ \E k \in due[v] : serving' = [serving EXCEPT ![v] = k]
    /\ UNCHANGED due

Close(v) ==
    /\ serving[v] \notin due[v] \union {None}
    /\ serving' = [serving EXCEPT ![v] = None]
    /\ UNCHANGED due

\* An open valve goes over from one due window to another.
HandOver(v) ==
    /\ serving[v] \in due[v]
    /\ \E k \in due[v] : serving' = [serving EXCEPT ![v] = k]
    /\ UNCHANGED due

Served(v) == serving[v] \in (IF due[v] = {} THEN {None} ELSE due[v])

\* The next minute, or a new table before anything was due.
Change ==
    /\ \A v \in Valve : Served(v)
    /\ due' \in [Valve -> SUBSET Window]
    /\ UNCHANGED serving

IrrigationNext == Change \/ \E v \in Valve : Open(v) \/ Close(v) \/ HandOver(v)

IrrigationSpec == IrrigationInit /\ [][IrrigationNext]_irrigationVars
==============================================================================
