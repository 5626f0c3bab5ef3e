---------------------------- MODULE ValveControl ----------------------------
(***************************************************************************)
(* The irrigation valves: src/main/dev_logic.c (CheckIfTime, logic_loop),  *)
(* the digital outputs of src/main/dev_io.c, and everything that changes   *)
(* their state from another task: the RS485 task (SET_IO_VAL, E_SetTimes,  *)
(* E_REBOOT of src/main/protocol.c), the web server's task (save_parmdata  *)
(* of src/main/dev_web_server.c), the clock, and the memory that survives  *)
(* a restart (src/main/dev_memory.c).                                      *)
(*                                                                         *)
(* Each valve is a latching solenoid: a short pulse on one coil opens it,  *)
(* a short pulse on the other closes it, and it keeps its position without *)
(* power, across restarts of the controller too.                           *)
(***************************************************************************)
EXTENDS Integers

CONSTANTS
    NValve,          \* number of valves, 2 in the code
    NSlot,           \* watering windows per day and valve, 3 in the code
    NDay,            \* days of the table, 7 in the code
    MinutesPerDay,   \* 1440 in the code
    MinPasses,       \* passes of logic_loop that fit in a minute, at least
    MaxBoots,        \* bound: restarts explored after the first boot
    SaveRequests,    \* what a browser may post to the settings page
    ClockSteps,      \* times the clock may be set to by SNTP
    SetIoCommands,   \* E_SET_IO messages the RS485 server may send
    ServerSetsTimes, \* whether the RS485 server sends E_SetTimes
    FactoryMemory,   \* contents the settings memory may have at the first boot
    HeapGarbage,     \* contents an uninitialised heap block may have
    NoBlob,          \* the settings blob was never written
    NoRequest,       \* no request is being handled
    NoCommand        \* no E_SET_IO message is being handled

Valve == 0 .. NValve - 1
Slot == 1 .. NSlot
Day == 0 .. NDay - 1
Minute == 0 .. MinutesPerDay - 1
Coil == {"Open", "Close"}
Part == {"StartHour", "Duration"}
Byte == 0 .. 255

\* HOUR_TIMES_STD: per valve, day and slot a start minute and a length, both
\* int16_t and never range-checked; their sum is computed in an int.
HourTable == [Valve -> [Day -> [Slot -> [Part -> Int]]]]

\* The blob "hour_parm": both VALVE_STD structures, timeselect included.
Blob == [hours : HourTable, select : [Valve -> Byte]]

Request == [hours : HourTable, day : Day, minute : Minute]
Command == [mode : Byte, coils : SUBSET (Valve \X Coil), value : {0, 1}]

ASSUME SizesAssumption ==
    /\ NValve \in Nat \ {0} /\ NSlot \in 1 .. 255 /\ NDay \in Nat \ {0}
    /\ MinutesPerDay \in Nat \ {0} /\ MinPasses \in Nat \ {0} /\ MaxBoots \in Nat

ASSUME InputsAssumption ==
    /\ SaveRequests \subseteq Request /\ NoRequest \notin Request
    /\ SetIoCommands \subseteq Command /\ NoCommand \notin Command
    /\ ClockSteps \subseteq Day \X Minute
    /\ ServerSetsTimes \in BOOLEAN
    /\ HeapGarbage \subseteq Blob /\ NoBlob \notin Blob
    /\ FactoryMemory \subseteq Blob \union {NoBlob}

VARIABLES
    \* ---- valve_parm and the outputs
    hour_parm,    \* the watering table in RAM
    timeselect,   \* per valve: 0, or the slot the valve was opened for
    minindayos,   \* the static "new day seen" flag, one for all valves
    io_dig_mode,  \* 0: outputs belong to the logic, else to the server
    energised,    \* coils whose output is high
    open,         \* valves that let water through (the plant, external)
    \* ---- the tasks
    main,         \* the main task inside logic_loop
    web,          \* the web server's task inside save_parmdata
    uart,         \* the RS485 task: the E_SET_IO message it is handling
    \* ---- clock and memory
    day, minute,  \* local time
    nvs,          \* the settings blob in flash
    \* ---- bookkeeping of the environment and of the properties
    passes,       \* per valve: complete calls of CheckIfTime in this minute
    dirty,        \* clock or table changed by someone during this minute
    taken,        \* the server took the outputs since the last boot
    trusted,      \* valves whose timeselect was 0 at some time since memory_init
    boots         \* restarts so far

plantVars == <<energised, open>>
memVars == <<hour_parm, nvs>>
clockVars == <<day, minute>>
vars == <<hour_parm, timeselect, minindayos, io_dig_mode, energised, open,
          main, web, uart, day, minute, nvs, passes, dirty, taken, trusted, boots>>
-----------------------------------------------------------------------------
(***************************************************************************)
(* Outputs and valves.                                                     *)
(***************************************************************************)

\* Positions the valves may take when exactly the coils e are powered: one
\* coil alone decides, none keeps the position, both leave it undetermined.
Settle(e) ==
    {o \in SUBSET Valve : \A v \in Valve :
        LET up == <<v, "Open">> \in e
            down == <<v, "Close">> \in e
        IN  /\ up /\ ~down => v \in o
            /\ down /\ ~up => v \notin o
            /\ ~up /\ ~down => (v \in o <=> v \in open)}

\* ESPWriteToDigital: gpio_set_level on the outputs of a set of coils.
ESPWriteToDigital(coils, value) ==
    /\ energised' = IF value = 1 THEN energised \union coils
                                 ELSE energised \ coils
    /\ open' \in Settle(energised')
-----------------------------------------------------------------------------
(***************************************************************************)
(* The main task.  main.at is                                              *)
(*   "boot"   in app_main before memory_init,                              *)
(*   "call"   before CheckIfTime(main.valve) reads the clock,              *)
(*   "block"  before the test of window main.slot,                         *)
(*   "raise"  WriteToDigital(.., 1) found io_dig_mode = 0, not yet written,*)
(*   "pulse"  inside vTaskDelay(10) between the two writes,                *)
(*   "lower"  WriteToDigital(.., 0) found io_dig_mode = 0, not yet written.*)
(* main.fresh: the clock has not changed since this call read it.          *)
(***************************************************************************)
MainAt == {"boot", "call", "block", "raise", "pulse", "lower"}
MainState == [at : MainAt, valve : Valve, slot : Slot, day : Day,
              minute : Minute, coil : Coil, fresh : BOOLEAN]

Booting == [at |-> "boot", valve |-> 0, slot |-> 1, day |-> 0,
            minute |-> 0, coil |-> "Open", fresh |-> FALSE]

AtCall(v) == [at |-> "call", valve |-> v, slot |-> 1, day |-> 0,
              minute |-> 0, coil |-> "Open", fresh |-> FALSE]

EmptyBlob ==
    [hours |-> [v \in Valve |-> [d \in Day |-> [k \in Slot |-> [p \in Part |-> 0]]]],
     select |-> [v \in Valve |-> 0]]

\* What valve_parm holds after nvs_get_blob: the stored blob, still zeros when
\* reading fails, and the content of a fresh heap block when there is no blob.
LoadedBlobs(m) ==
    IF m = NoBlob THEN HeapGarbage ELSE {m, EmptyBlob}

\* Until this step the RS485 task runs already, with the zeros of the RAM.
memory_init ==
    /\ main.at = "boot"
    /\ \E b \in LoadedBlobs(nvs) : hour_parm' = b.hours /\ timeselect' = b.select
    /\ trusted' = {v \in Valve : timeselect'[v] = 0}
    /\ main' = AtCall(0)
    /\ UNCHANGED <<plantVars, clockVars, minindayos, io_dig_mode, web, uart, nvs,
                   passes, dirty, taken, boots>>

InWindow_EndIncluded(v, d, m, k) ==
    LET h == hour_parm[v][d][k]
    IN  h["StartHour"] <= m /\ m <= h["StartHour"] + h["Duration"]

InWindow_StartExcluded(v, d, m, k) ==
    LET h == hour_parm[v][d][k]
    IN  h["StartHour"] < m /\ m < h["StartHour"] + h["Duration"]

InWindow(v, d, m, k) ==
    LET h == hour_parm[v][d][k]
    IN  h["StartHour"] <= m /\ m < h["StartHour"] + h["Duration"]

Advance_OneTooFar ==
    IF main.slot <= NSlot
    THEN main' = [main EXCEPT !.at = "block", !.slot = main.slot + 1] /\ UNCHANGED passes
    ELSE main' = AtCall(0) /\ UNCHANGED passes

\* Next window of this call, or return to logic_loop and its next call.
Advance ==
    IF main.slot < NSlot
    THEN /\ main' = [main EXCEPT !.at = "block", !.slot = main.slot + 1]
         /\ UNCHANGED passes
    ELSE /\ main' = AtCall(IF main.valve = NValve - 1 THEN 0 ELSE main.valve + 1)
         /\ passes' = [passes EXCEPT ![main.valve] =
                IF main.fresh /\ @ < MinPasses THEN @ + 1 ELSE @]

ReadClock_FlagStays ==
    LET v == main.valve
        newDay == minute = 0 /\ timeselect[v] > 0 /\ minindayos = 0
    IN  /\ main.at = "call"
        /\ minindayos' = IF newDay THEN 1 ELSE minindayos
        /\ timeselect' = IF newDay THEN [timeselect EXCEPT ![v] = 0] ELSE timeselect
        /\ trusted' = IF newDay THEN trusted \union {v} ELSE trusted
        /\ main' = [main EXCEPT !.at = "block", !.slot = 1, !.day = day,
                                !.minute = minute, !.fresh = TRUE]
        /\ UNCHANGED <<plantVars, memVars, clockVars, io_dig_mode, web, uart,
                       passes, dirty, taken, boots>>

ReadClock_NoNewDay ==
    /\ main.at = "call"
    /\ main' = [main EXCEPT !.at = "block", !.slot = 1, !.day = day,
                            !.minute = minute, !.fresh = TRUE]
    /\ UNCHANGED <<plantVars, memVars, clockVars, timeselect, minindayos,
                   io_dig_mode, web, uart, passes, dirty, taken, trusted, boots>>

\* CheckIfTime reads the clock once; in minute 0 it forgets a selection,
\* unless the flag (shared by the valves) says that was done already.
ReadClock ==
    LET v == main.valve
        newDay == minute = 0 /\ timeselect[v] > 0 /\ minindayos = 0
    IN  /\ main.at = "call"
        /\ minindayos' = IF minute # 0 THEN 0 ELSE IF newDay THEN 1 ELSE minindayos
        /\ timeselect' = IF newDay THEN [timeselect EXCEPT ![v] = 0] ELSE timeselect
        /\ trusted' = IF newDay THEN trusted \union {v} ELSE trusted
        /\ main' = [main EXCEPT !.at = "block", !.slot = 1, !.day = day,
                                !.minute = minute, !.fresh = TRUE]
        /\ UNCHANGED <<plantVars, memVars, clockVars, io_dig_mode, web, uart,
                       passes, dirty, taken, boots>>

StartPulse_NoModeTest(coil) ==
    main' = [main EXCEPT !.at = "raise", !.coil = coil]

\* The first WriteToDigital of a pulse: it tests io_dig_mode, and either goes
\* on to the write or drops it; the delay comes in both cases.
StartPulse(coil) ==
    main' = [main EXCEPT !.at = IF io_dig_mode = 0 THEN "raise" ELSE "pulse",
                         !.coil = coil]

InThisWindow == InWindow(main.valve, main.day, main.minute, main.slot)

OpenForWindow ==
    /\ main.at = "block"
    /\ InThisWindow /\ timeselect[main.valve] = 0
    /\ timeselect' = [timeselect EXCEPT ![main.valve] = main.slot]
    /\ StartPulse("Open")
    /\ UNCHANGED <<plantVars, memVars, clockVars, minindayos, io_dig_mode,
                   web, uart, passes, dirty, taken, trusted, boots>>

CloseAfterWindow_WrongRelay ==
    /\ main.at = "block"
    /\ ~InThisWindow /\ timeselect[main.valve] = main.slot
    /\ timeselect' = [timeselect EXCEPT ![main.valve] = 0]
    /\ trusted' = trusted \union {main.valve}
    /\ StartPulse("Open")
    /\ UNCHANGED <<plantVars, memVars, clockVars, minindayos, io_dig_mode,
                   web, uart, passes, dirty, taken, boots>>

CloseAfterWindow_StaysSelected ==
    /\ main.at = "block"
    /\ ~InThisWindow /\ timeselect[main.valve] = main.slot
    /\ StartPulse("Close")
    /\ UNCHANGED <<plantVars, memVars, clockVars, timeselect, minindayos,
                   io_dig_mode, web, uart, passes, dirty, taken, trusted, boots>>

CloseAfterWindow_AnySelection ==
    /\ main.at = "block"
    /\ ~InThisWindow /\ timeselect[main.valve] # 0
    /\ timeselect' = [timeselect EXCEPT ![main.valve] = 0]
    /\ trusted' = trusted \union {main.valve}
    /\ StartPulse("Close")
    /\ UNCHANGED <<plantVars, memVars, clockVars, minindayos, io_dig_mode,
                   web, uart, passes, dirty, taken, boots>>

CloseAfterWindow ==
    /\ main.at = "block"
    /\ ~InThisWindow /\ timeselect[main.valve] = main.slot
    /\ timeselect' = [timeselect EXCEPT ![main.valve] = 0]
    /\ trusted' = trusted \union {main.valve}
    /\ StartPulse("Close")
    /\ UNCHANGED <<plantVars, memVars, clockVars, minindayos, io_dig_mode,
                   web, uart, passes, dirty, taken, boots>>

SkipWindow ==
    /\ main.at = "block"
    /\ timeselect[main.valve] # (IF InThisWindow THEN 0 ELSE main.slot)
    /\ Advance
    /\ UNCHANGED <<plantVars, memVars, clockVars, timeselect, minindayos,
                   io_dig_mode, web, uart, dirty, taken, trusted, boots>>

Raise ==
    /\ main.at = "raise"
    /\ ESPWriteToDigital({<<main.valve, main.coil>>}, 1)
    /\ main' = [main EXCEPT !.at = "pulse"]
    /\ UNCHANGED <<memVars, clockVars, timeselect, minindayos, io_dig_mode,
                   web, uart, passes, dirty, taken, trusted, boots>>

\* vTaskDelay(10) is over: the second WriteToDigital tests io_dig_mode.
EndDelay ==
    /\ main.at = "pulse"
    /\ \/ /\ io_dig_mode = 0
          /\ main' = [main EXCEPT !.at = "lower"]
          /\ UNCHANGED passes
       \/ /\ io_dig_mode # 0
          /\ Advance
    /\ UNCHANGED <<plantVars, memVars, clockVars, timeselect, minindayos,
                   io_dig_mode, web, uart, dirty, taken, trusted, boots>>

Lower_WrongPin ==
    /\ main.at = "lower"
    /\ ESPWriteToDigital({<<main.valve, "Open">>}, 0)
    /\ Advance
    /\ UNCHANGED <<memVars, clockVars, timeselect, minindayos, io_dig_mode,
                   web, uart, dirty, taken, trusted, boots>>

Lower ==
    /\ main.at = "lower"
    /\ ESPWriteToDigital({<<main.valve, main.coil>>}, 0)
    /\ Advance
    /\ UNCHANGED <<memVars, clockVars, timeselect, minindayos, io_dig_mode,
                   web, uart, dirty, taken, trusted, boots>>

Main == memory_init \/ ReadClock \/ OpenForWindow \/ CloseAfterWindow \/ SkipWindow
        \/ Raise \/ EndDelay \/ Lower
-----------------------------------------------------------------------------
(***************************************************************************)
(* The clock.  A pass of logic_loop takes well under a second (six pulses  *)
(* of 100 ms at most, then vTaskDelay(1)), so at least MinPasses complete  *)
(* calls per valve fit between two changes of the minute.                  *)
(***************************************************************************)
Stale == main' = [main EXCEPT !.fresh = FALSE]

Tick ==
    /\ \A v \in Valve : passes[v] = MinPasses
    /\ minute' = IF minute = MinutesPerDay - 1 THEN 0 ELSE minute + 1
    /\ day' = IF minute # MinutesPerDay - 1 THEN day
              ELSE IF day = NDay - 1 THEN 0 ELSE day + 1
    /\ passes' = [v \in Valve |-> 0]
    /\ dirty' = FALSE
    /\ Stale
    /\ UNCHANGED <<plantVars, memVars, timeselect, minindayos, io_dig_mode,
                   web, uart, taken, trusted, boots>>

\* settimeofday: the minute begins anew, whatever the time was.
SetClock(d, m) ==
    /\ day' = d /\ minute' = m
    /\ passes' = [v \in Valve |-> 0]
    /\ dirty' = TRUE
    /\ Stale

SntpSetsClock ==
    /\ main.at # "boot"
    /\ \E t \in ClockSteps : SetClock(t[1], t[2])
    /\ UNCHANGED <<plantVars, memVars, timeselect, minindayos, io_dig_mode,
                   web, uart, taken, trusted, boots>>
-----------------------------------------------------------------------------
(***************************************************************************)
(* The web server's task: save_parmdata sets the clock to the browser's    *)
(* time, then writes valve_parm field by field while the main task reads   *)
(* it, then stores a snapshot of both valves.                              *)
(***************************************************************************)
Field == [day : Day, valve : Valve, part : Part, slot : Slot]
FirstField == [day |-> 0, valve |-> 0, part |-> "StartHour", slot |-> 1]
LastField_FirstSlotOnly ==
    [day |-> NDay - 1, valve |-> NValve - 1, part |-> "Duration", slot |-> 1]

LastField == [day |-> NDay - 1, valve |-> NValve - 1, part |-> "Duration",
              slot |-> NSlot]

NextField(f) ==
    IF f.slot < NSlot THEN [f EXCEPT !.slot = f.slot + 1]
    ELSE IF f.part = "StartHour" THEN [f EXCEPT !.part = "Duration", !.slot = 1]
    ELSE IF f.valve < NValve - 1
         THEN [f EXCEPT !.valve = f.valve + 1, !.part = "StartHour", !.slot = 1]
    ELSE [FirstField EXCEPT !.day = f.day + 1]

WebIdle == [at |-> "idle", request |-> NoRequest, field |-> FirstField]

BeginSave ==
    /\ web.at = "idle" /\ main.at # "boot"
    /\ \E r \in SaveRequests :
        /\ web' = [at |-> "fields", request |-> r, field |-> FirstField]
        /\ SetClock(r.day, r.minute)
    /\ UNCHANGED <<plantVars, memVars, timeselect, minindayos, io_dig_mode,
                   uart, taken, trusted, boots>>

WriteField ==
    LET f == web.field
        x == web.request.hours[f.valve][f.day][f.slot][f.part]
    IN  /\ web.at = "fields"
        /\ hour_parm' = [hour_parm EXCEPT ![f.valve][f.day][f.slot][f.part] = x]
        /\ web' = IF f = LastField
                  THEN [web EXCEPT !.at = "store", !.field = FirstField]
                  ELSE [web EXCEPT !.field = NextField(f)]
        /\ dirty' = TRUE
        /\ UNCHANGED <<plantVars, clockVars, timeselect, minindayos,
                       io_dig_mode, main, uart, nvs, passes, taken, trusted, boots>>

\* Opening, writing or committing may fail, and the caller is not told.
SaveHoursToMemory ==
    nvs' \in {nvs, [hours |-> hour_parm, select |-> timeselect]}

EndSave ==
    /\ web.at = "store"
    /\ SaveHoursToMemory
    /\ web' = WebIdle
    /\ UNCHANGED <<plantVars, clockVars, hour_parm, timeselect, minindayos,
                   io_dig_mode, main, uart, passes, dirty, taken, trusted, boots>>

Web == BeginSave \/ WriteField \/ EndSave
-----------------------------------------------------------------------------
(***************************************************************************)
(* The RS485 task.                                                         *)
(***************************************************************************)

\* SET_IO_VAL stores the mode and answers the server ...
SET_IO_VAL ==
    /\ uart = NoCommand
    /\ \E c \in SetIoCommands :
        /\ uart' = c
        /\ io_dig_mode' = c.mode
        /\ taken' = (taken \/ c.mode # 0)
    /\ UNCHANGED <<plantVars, memVars, clockVars, timeselect, minindayos,
                   main, web, passes, dirty, trusted, boots>>

\* ... and then sets the output the message names, unless the mode is 0.
SET_IO_VAL_write ==
    /\ uart # NoCommand
    /\ IF io_dig_mode = 0 THEN UNCHANGED plantVars
                          ELSE ESPWriteToDigital(uart.coils, uart.value)
    /\ uart' = NoCommand
    /\ UNCHANGED <<memVars, clockVars, timeselect, minindayos, io_dig_mode,
                   main, web, passes, dirty, taken, trusted, boots>>

\* E_SetTimes: the payload is ignored, what is in RAM is stored.
ReadHours ==
    /\ ServerSetsTimes
    /\ uart = NoCommand
    /\ SaveHoursToMemory
    /\ UNCHANGED <<plantVars, clockVars, hour_parm, timeselect, minindayos,
                   io_dig_mode, main, web, uart, passes, dirty, taken, trusted, boots>>

Uart == SET_IO_VAL \/ SET_IO_VAL_write \/ ReadHours
-----------------------------------------------------------------------------
(***************************************************************************)
(* Restart: E_REBOOT, a panic, a new image or a power cut, at any moment.  *)
(* Outputs drop, the RAM is zero until memory_init loads the blob, and the *)
(* valves keep their position.  The clock keeps running through a software *)
(* restart and starts at 1970-01-01 00:00 after a power cut.               *)
(***************************************************************************)
ThursdayOfEpoch == IF NDay > 4 THEN 4 ELSE NDay - 1

Reboot ==
    /\ boots < MaxBoots
    /\ boots' = boots + 1
    /\ hour_parm' = EmptyBlob.hours /\ timeselect' = EmptyBlob.select
    /\ minindayos' = 0
    /\ io_dig_mode' = 0
    /\ energised' = {}
    /\ open' = open
    /\ main' = Booting
    /\ web' = WebIdle
    /\ uart' = NoCommand
    /\ \/ UNCHANGED clockVars
       \/ day' = ThursdayOfEpoch /\ minute' = 0
    /\ passes' = [v \in Valve |-> 0]
    /\ dirty' = TRUE
    /\ taken' = FALSE
    /\ trusted' = {}
    /\ UNCHANGED nvs

Init ==
    /\ nvs \in FactoryMemory
    /\ hour_parm = EmptyBlob.hours /\ timeselect = EmptyBlob.select
    /\ minindayos = 0
    /\ io_dig_mode = 0
    /\ energised = {} /\ open = {}
    /\ main = Booting
    /\ web = WebIdle
    /\ uart = NoCommand
    /\ day = ThursdayOfEpoch /\ minute = 0
    /\ passes = [v \in Valve |-> 0]
    /\ dirty = FALSE
    /\ taken = FALSE
    /\ trusted = {}
    /\ boots = 0

Next == Main \/ Tick \/ SntpSetsClock \/ Web \/ Uart \/ Reboot

Spec == Init /\ [][Next]_vars

\* The scheduler runs every ready task and time passes.
Fairness == WF_vars(Main) /\ WF_vars(Tick) /\ WF_vars(WriteField \/ EndSave)
            /\ WF_vars(SET_IO_VAL_write)

FairSpec == Spec /\ Fairness
-----------------------------------------------------------------------------
(***************************************************************************)
(* Properties.                                                             *)
(***************************************************************************)

\* Types of all variables; main stays inside the call it is in.
TypeOK ==
    /\ hour_parm \in HourTable
    /\ timeselect \in [Valve -> Byte]
    /\ minindayos \in {0, 1}
    /\ io_dig_mode \in Byte
    /\ energised \subseteq Valve \X Coil
    /\ open \subseteq Valve
    /\ main \in MainState
    /\ web \in [at : {"idle", "fields", "store"},
                request : SaveRequests \union {NoRequest},
                field : Field]
    /\ web.at # "idle" => web.request # NoRequest
    /\ uart \in SetIoCommands \union {NoCommand}
    /\ day \in Day /\ minute \in Minute
    /\ nvs \in Blob \union {NoBlob}
    /\ passes \in [Valve -> 0 .. MinPasses]
    /\ dirty \in BOOLEAN /\ taken \in BOOLEAN
    /\ trusted \subseteq Valve
    /\ boots \in 0 .. MaxBoots

\* The coil the main task is pulsing now.
PulsedCoil ==
    IF main.at \in {"pulse", "lower"} THEN {<<main.valve, main.coil>>} ELSE {}

\* Until the server takes the outputs, a coil is powered only while the main
\* task is inside that coil's own 100 ms pulse: no coil is left powered by a
\* path through CheckIfTime, and never two coils at once.
CoilsOnlyInPulse == ~taken => energised \subseteq PulsedCoil

\* Until the server takes the outputs, a selection this boot has made itself
\* means that the valve has really been opened (or the pulse that opens it is
\* about to start), whatever the clock, the web page and the memory did.
SelectedIsOpen ==
    ~taken => \A v \in trusted :
        timeselect[v] # 0 =>
            \/ v \in open
            \/ main.at = "raise" /\ main.valve = v /\ main.coil = "Open"

\* Some window of valve v contains minute m of day d.
Waters(v, d, m) == \E k \in Slot :
    LET h == hour_parm[v][d][k]
    IN  m \in h["StartHour"] .. h["StartHour"] + h["Duration"] - 1

Due(v) == Waters(v, day, minute)

\* Two complete calls of CheckIfTime in a minute in which nobody changed the
\* clock or the table have settled valve v.
Settled(v) == ~dirty /\ passes[v] = MinPasses

\* With windows that keep clear of midnight, overlapping or adjacent in any
\* order, a settled valve is open exactly when some window is due.
FollowsTable == ~taken => \A v \in Valve : Settled(v) => (v \in open <=> Due(v))

\* Whatever the table, the restarts and the saves: a settled valve whose
\* selection is this boot's own is open when a window is due, and is not held
\* selected when none is.  (It may still be open then: see WaterStops.)
DueIsOpen ==
    ~taken => \A v \in trusted : Settled(v) =>
        IF Due(v) THEN v \in open ELSE timeselect[v] = 0

\* The tables somebody meant: one a browser sent, one of the factory's, what the
\* heap held when there was none, and the zeros of a start-up or a failed read.
WholeTables ==
    {b.hours : b \in (FactoryMemory \ {NoBlob}) \union HeapGarbage \union {EmptyBlob}}
    \union {r.hours : r \in SaveRequests}
StoredHours == IF nvs = NoBlob THEN {} ELSE {nvs.hours}

\* A save of the page stores exactly the table of its request, whatever E_SetTimes
\* and restarts come in between.  An E_SetTimes loses the table only before
\* memory_init, and mixes two only while a save is writing its fields: at any
\* other time it stores a table somebody meant, or again what flash holds.
StoredTableWhole ==
    [][nvs' # nvs =>
        \/ web.at = "store" /\ nvs'.hours = web.request.hours
        \/ /\ ServerSetsTimes
           /\ \/ main.at = "boot" /\ nvs' = EmptyBlob
              \/ web.at = "fields"
              \/ /\ main.at # "boot" /\ web.at = "idle"
                 /\ nvs'.hours \in WholeTables \union StoredHours]_vars

\* Every valve that lets water through is closed again.
WaterStops == \A v \in Valve : v \in open ~> v \notin open

\* Every due window finds its valve open, now or after the next closing.
WindowServed == \A v \in Valve : Due(v) ~> v \in open

\* Each day waters valve v at some minute, and never in its last one.
Daily(v) == \A d \in Day :
    /\ \E m \in Minute : Waters(v, d, m)
    /\ ~Waters(v, d, MinutesPerDay - 1)

\* A selection that no window of the code can clear (first boot: heap garbage)
\* is cleared in the end.
GarbageClears == \A v \in Valve : timeselect[v] > NSlot ~> timeselect[v] \in 0 .. NSlot

\* Once the server keeps the outputs for good, the logic stops moving them: it
\* has at most the write to finish whose test came before the takeover.
ServerKeepsOutputs ==
    <>[](io_dig_mode # 0) => <>[][Main => UNCHANGED energised]_vars

\* As long as the server leaves the outputs alone, or once it has given them
\* back for good: every valve with such a table opens and closes for ever,
\* whatever selection was stored, however often the controller was restarted,
\* whichever coil the server left powered and whichever pulse it suppressed.
WateringResumes ==
    <>[](io_dig_mode = 0 /\ uart = NoCommand) =>
        \A v \in Valve : <>[]Daily(v) => []<>(v \in open) /\ []<>(v \notin open)

\* protocol.h:106 "mode = 0 io from logic": in mode 0, with no message being
\* handled, the outputs are where the logic put them.
LogicOwnsOutputs ==
    io_dig_mode = 0 /\ uart = NoCommand => energised \subseteq PulsedCoil
=============================================================================
