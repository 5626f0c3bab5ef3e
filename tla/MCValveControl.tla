--------------------------- MODULE MCValveControl ---------------------------
(***************************************************************************)
(* Small instances of ValveControl: two valves as in the code, one or two  *)
(* days of three to five minutes, the windows of a day chosen from the     *)
(* plans below.                                                            *)
(***************************************************************************)
EXTENDS ValveRefinement

W(start, length) ==
    [p \in Part |-> IF p = "StartHour" THEN start ELSE length]
Off == W(0, 0)

\* Tables whose valve v follows the plan p[v][d] on day d.
Tables(plans0, plans1) ==
    {[v \in Valve |-> [d \in Day |-> IF v = 0 THEN p[d] ELSE q[d]]] :
        p \in [Day -> plans0], q \in [Day -> plans1]}
Unselected(tables) == {[hours |-> t, select |-> [v \in Valve |-> 0]] : t \in tables}

(* Windows that keep clear of midnight: overlapping, nested, adjacent in both
   orders, starting at minute 0, negative and beyond the day. *)
TamePlans == {<<Off, Off, Off>>, <<W(1, 2), W(6, 2), W(-3, 2)>>,
              <<W(2, 2), W(1, 2), Off>>, <<W(2, 1), W(1, 1), W(0, 1)>>,
              <<W(0, 1), W(1, 1), W(3, 1)>>, <<W(1, 1), W(0, 3), W(2, 2)>>,
              <<W(3, 1), W(2, 2), W(0, 3)>>}
TameMemory == Unselected(Tables(TamePlans,
    {<<Off, Off, Off>>, <<W(0, 2), Off, W(1, 3)>>, <<W(3, 1), W(1, 2), Off>>}))

(* Windows up to and across midnight, and what the browser replaces them by;
   SNTP moves the clock, over midnight too. *)
MidnightMemory == Unselected(Tables({<<W(3, 2), W(0, 1)>>}, {<<W(0, 4), W(1, 1)>>}))
Saves == [hours : Tables({<<W(0, 1), Off>>}, {<<W(3, 4), W(1, 1)>>}), day : {0}, minute : {2}]
SntpTimes == {<<0, 0>>, <<0, 2>>}

(* What an earlier life of the controller may have stored, or nothing: then the
   heap block holds anything, here a selection that no window can clear. *)
DailyPlans == Tables({<<W(1, 1), Off>>}, {<<W(0, 1), W(1, 1)>>})
StoredMemory ==
    {NoBlob} \union [hours : DailyPlans, select : {[v \in Valve |-> 2]}]
Garbage == [hours : DailyPlans, select : {[v \in Valve |-> NSlot + 1]}]

(* E_SET_IO messages: take the outputs and power a coil or not, give them back. *)
ServerCommands ==
    [mode : {1}, coils : {{<<0, "Open">>}}, value : {0, 1}]
    \union [mode : {0}, coils : {{}}, value : {0}]
=============================================================================
