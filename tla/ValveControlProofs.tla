------------------------- MODULE ValveControlProofs -------------------------
(***************************************************************************)
(* Theorems about ValveControl, for every number of valves, windows, days  *)
(* and minutes, every table, every RS485 message and every restart.        *)
(***************************************************************************)
EXTENDS ValveRefinement, TLAPS

\* A blob of zeros is a blob.
LEMMA EmptyBlobType == EmptyBlob \in Blob
  <1>1. \A v \in Valve : \A d \in Day : \A k \in Slot :
            EmptyBlob.hours[v][d][k] \in [Part -> Int]
    BY DEF EmptyBlob
  <1>2. EmptyBlob.hours \in HourTable
    BY DEF EmptyBlob, HourTable
  <1>3. EmptyBlob.select \in [Valve -> Byte]
    BY DEF EmptyBlob, Byte
  <1> QED
    BY <1>2, <1>3 DEF EmptyBlob, Blob

\* memory_init leaves a blob in valve_parm, whatever flash holds.
LEMMA LoadedBlobsType ==
  ASSUME nvs \in Blob \union {NoBlob}
  PROVE  LoadedBlobs(nvs) \subseteq Blob
  BY EmptyBlobType, InputsAssumption DEF LoadedBlobs

\* The main task is well typed before memory_init.
LEMMA BootingType == Booting \in MainState
  BY SizesAssumption DEF Booting, MainState, MainAt, Valve, Slot, Day, Minute, Coil

\* A fresh call of CheckIfTime is well typed.
LEMMA AtCallType == ASSUME NEW v \in Valve PROVE AtCall(v) \in MainState
  BY SizesAssumption DEF AtCall, MainState, MainAt, Slot, Day, Minute, Coil

\* Advance stays inside the windows and the valves there are.
LEMMA AdvanceType ==
  ASSUME TypeOK, Advance
  PROVE  main' \in MainState /\ passes' \in [Valve -> 0 .. MinPasses]
  <1>0. main \in MainState /\ passes \in [Valve -> 0 .. MinPasses]
    BY DEF TypeOK
  <1>1. CASE main.slot < NSlot
    <2>1. main.slot + 1 \in Slot
      BY <1>0, <1>1, SizesAssumption DEF MainState, Slot
    <2>2. main' = [main EXCEPT !.at = "block", !.slot = main.slot + 1]
          /\ passes' = passes
      BY <1>1 DEF Advance
    <2> QED
      BY <1>0, <2>1, <2>2 DEF MainState, MainAt
  <1>2. CASE ~(main.slot < NSlot)
    <2> DEFINE w == IF main.valve = NValve - 1 THEN 0 ELSE main.valve + 1
    <2>1. w \in Valve
      BY <1>0, SizesAssumption DEF MainState, Valve
    <2>2. main' = AtCall(w)
      BY <1>2 DEF Advance
    <2>3. passes' \in [Valve -> 0 .. MinPasses]
      BY <1>0, <1>2, SizesAssumption DEF Advance
    <2> QED
      BY <2>1, <2>2, <2>3, AtCallType
  <1> QED
    BY <1>1, <1>2

\* An output write leaves sets of coils and of valves.
LEMMA WriteType ==
  ASSUME TypeOK, NEW coils \in SUBSET (Valve \X Coil), NEW x \in {0, 1},
         ESPWriteToDigital(coils, x)
  PROVE  energised' \subseteq Valve \X Coil /\ open' \subseteq Valve
  BY DEF TypeOK, ESPWriteToDigital, Settle

\* The cursor of save_parmdata stays inside the table.
LEMMA NextFieldType ==
  ASSUME NEW f \in Field, f # LastField
  PROVE  NextField(f) \in Field
  <1>1. /\ f.slot \in 1 .. NSlot /\ f.part \in {"StartHour", "Duration"}
        /\ f.valve \in 0 .. NValve - 1 /\ f.day \in 0 .. NDay - 1
    BY DEF Field, Slot, Part, Valve, Day
  <1>2. 1 \in 1 .. NSlot /\ 0 \in 0 .. NValve - 1
    BY SizesAssumption
  <1>3. CASE f.slot < NSlot
    <2>1. f.slot + 1 \in 1 .. NSlot
      BY <1>1, <1>3, SizesAssumption
    <2> QED
      BY <1>3, <2>1 DEF NextField, Field, Slot
  <1>4. CASE ~(f.slot < NSlot) /\ f.part = "StartHour"
    BY <1>4, <1>2 DEF NextField, Field, Slot, Part
  <1>5. CASE ~(f.slot < NSlot) /\ f.part # "StartHour" /\ f.valve < NValve - 1
    <2>1. f.valve + 1 \in 0 .. NValve - 1
      BY <1>1, <1>5, SizesAssumption
    <2> QED
      BY <1>5, <1>2, <2>1 DEF NextField, Field, Slot, Part, Valve
  <1>6. CASE ~(f.slot < NSlot) /\ f.part # "StartHour" /\ ~(f.valve < NValve - 1)
    <2>1. f.slot = NSlot /\ f.part = "Duration" /\ f.valve = NValve - 1
      BY <1>1, <1>6, SizesAssumption
    <2>2. f.day # NDay - 1
      <3>1. f = [day |-> f.day, valve |-> f.valve, part |-> f.part, slot |-> f.slot]
        BY DEF Field
      <3> QED
        BY <2>1, <3>1 DEF LastField
    <2>3. f.day + 1 \in 0 .. NDay - 1
      BY <1>1, <2>2, SizesAssumption
    <2> QED
      BY <1>6, <1>2, <2>3 DEF NextField, FirstField, Field, Slot, Part, Valve, Day
  <1> QED
    BY <1>3, <1>4, <1>5, <1>6

LEMMA InitType == Init => TypeOK
  <1> SUFFICES ASSUME Init PROVE TypeOK
    OBVIOUS
  <1>1. nvs \in Blob \union {NoBlob}
    BY InputsAssumption DEF Init
  <1>2. hour_parm \in HourTable /\ timeselect \in [Valve -> Byte]
    BY EmptyBlobType DEF Init, Blob
  <1>3. 0 \in Valve /\ 0 \in 0 .. MinPasses /\ 0 \in 0 .. MaxBoots
    BY SizesAssumption DEF Valve
  <1>4. main \in MainState
    BY BootingType DEF Init
  <1>5. day \in Day /\ minute \in Minute
    BY SizesAssumption DEF Init, ThursdayOfEpoch, Day, Minute
  <1>6. FirstField \in Field
    BY SizesAssumption DEF FirstField, Field, Day, Valve, Part, Slot
  <1>7. web \in [at : {"idle", "fields", "store"},
                request : SaveRequests \union {NoRequest}, field : Field]
        /\ web.at = "idle"
    BY <1>6 DEF Init, WebIdle
  <1>8. passes \in [Valve -> 0 .. MinPasses] /\ trusted \subseteq Valve
    BY <1>3 DEF Init
  <1>9. /\ minindayos \in {0, 1} /\ io_dig_mode \in Byte
        /\ energised \subseteq Valve \X Coil /\ open \subseteq Valve
        /\ uart \in SetIoCommands \union {NoCommand} /\ boots \in 0 .. MaxBoots
    BY <1>3 DEF Init, Byte
  <1>10. dirty \in BOOLEAN /\ taken \in BOOLEAN
    BY Zenon DEF Init
  <1> QED
    BY <1>1, <1>2, <1>4, <1>5, <1>7, <1>8, <1>9, <1>10 DEF TypeOK

\* Setting the clock and the tick of the clock leave main and passes typed.
LEMMA StaleType ==
  ASSUME main \in MainState, Stale
  PROVE  main' \in MainState
  BY DEF Stale, MainState

LEMMA ZeroPasses == [v \in Valve |-> 0] \in [Valve -> 0 .. MinPasses]
  BY SizesAssumption

LEMMA SetClockType ==
  ASSUME TypeOK, NEW d \in Day, NEW m \in Minute, SetClock(d, m)
  PROVE  /\ day' \in Day /\ minute' \in Minute
         /\ passes' \in [Valve -> 0 .. MinPasses]
         /\ dirty' \in BOOLEAN /\ main' \in MainState
  <1>1. main' \in MainState
    BY StaleType DEF TypeOK, SetClock
  <1> QED
    BY <1>1, ZeroPasses DEF SetClock

\* The blob SaveHoursToMemory may leave in flash.
LEMMA SaveType ==
  ASSUME TypeOK, SaveHoursToMemory
  PROVE  nvs' \in Blob \union {NoBlob}
  BY DEF TypeOK, SaveHoursToMemory, Blob

\* Each step of the main task keeps the types.
LEMMA MainType == TypeOK /\ Main => TypeOK'
  <1> SUFFICES ASSUME TypeOK, Main PROVE TypeOK'
    OBVIOUS
  <1>a. main \in MainState /\ main.valve \in Valve /\ main.slot \in Byte
        /\ main.coil \in Coil /\ <<main.valve, main.coil>> \in Valve \X Coil
    BY SizesAssumption DEF TypeOK, MainState, Slot, Byte
  <1>0. CASE memory_init
    <2>1. PICK b \in LoadedBlobs(nvs) : hour_parm' = b.hours /\ timeselect' = b.select
      BY <1>0 DEF memory_init
    <2>2. b \in Blob
      BY LoadedBlobsType DEF TypeOK
    <2>3. hour_parm' \in HourTable /\ timeselect' \in [Valve -> Byte]
      BY <2>1, <2>2 DEF Blob
    <2>4. main' \in MainState /\ trusted' \subseteq Valve
      BY <1>0, AtCallType, SizesAssumption DEF memory_init, Valve
    <2> QED
      BY <1>0, <2>3, <2>4 DEF memory_init, TypeOK, plantVars, clockVars
  <1>1. CASE ReadClock
    <2>1. main' \in MainState
      <3>1. 1 \in Slot /\ day \in Day /\ minute \in Minute
        BY SizesAssumption DEF Slot, TypeOK
      <3>2. main' = [main EXCEPT !.at = "block", !.slot = 1, !.day = day,
                                 !.minute = minute, !.fresh = TRUE]
        BY <1>1 DEF ReadClock
      <3> QED
        BY <1>a, <3>1, <3>2 DEF MainState, MainAt
    <2>2. timeselect' \in [Valve -> Byte] /\ trusted' \subseteq Valve
          /\ minindayos' \in {0, 1}
      BY <1>1, <1>a DEF ReadClock, TypeOK, Byte
    <2> QED
      BY <1>1, <2>1, <2>2 DEF ReadClock, TypeOK, plantVars, memVars, clockVars
  <1>2. CASE OpenForWindow
    <2>1. main' \in MainState
      BY <1>2, <1>a DEF OpenForWindow, StartPulse, MainState, MainAt, Coil
    <2>2. timeselect' \in [Valve -> Byte]
      BY <1>2, <1>a DEF OpenForWindow, TypeOK
    <2> QED
      BY <1>2, <2>1, <2>2 DEF OpenForWindow, TypeOK, plantVars, memVars, clockVars
  <1>3. CASE CloseAfterWindow
    <2>1. main' \in MainState
      BY <1>3, <1>a DEF CloseAfterWindow, StartPulse, MainState, MainAt, Coil
    <2>2. timeselect' \in [Valve -> Byte] /\ trusted' \subseteq Valve
      BY <1>3, <1>a DEF CloseAfterWindow, TypeOK, Byte
    <2> QED
      BY <1>3, <2>1, <2>2 DEF CloseAfterWindow, TypeOK, plantVars, memVars, clockVars
  <1>4. CASE SkipWindow
    <2>1. main' \in MainState /\ passes' \in [Valve -> 0 .. MinPasses]
      BY <1>4, AdvanceType DEF SkipWindow
    <2> QED
      BY <1>4, <2>1 DEF SkipWindow, TypeOK, plantVars, memVars, clockVars
  <1>5. CASE Raise
    <2>1. main' \in MainState
      BY <1>5, <1>a DEF Raise, MainState, MainAt
    <2>2. energised' \subseteq Valve \X Coil /\ open' \subseteq Valve
      BY <1>5, <1>a, WriteType DEF Raise
    <2> QED
      BY <1>5, <2>1, <2>2 DEF Raise, TypeOK, memVars, clockVars
  <1>6. CASE EndDelay
    <2>1. main' \in MainState /\ passes' \in [Valve -> 0 .. MinPasses]
      <3>1. CASE Advance
        BY <3>1, AdvanceType
      <3>2. CASE main' = [main EXCEPT !.at = "lower"] /\ UNCHANGED passes
        BY <3>2, <1>a DEF MainState, MainAt, TypeOK
      <3> QED
        BY <1>6, <3>1, <3>2 DEF EndDelay
    <2> QED
      BY <1>6, <2>1 DEF EndDelay, TypeOK, plantVars, memVars, clockVars
  <1>7. CASE Lower
    <2>1. main' \in MainState /\ passes' \in [Valve -> 0 .. MinPasses]
      BY <1>7, AdvanceType DEF Lower
    <2>2. energised' \subseteq Valve \X Coil /\ open' \subseteq Valve
      BY <1>7, <1>a, WriteType DEF Lower
    <2> QED
      BY <1>7, <2>1, <2>2 DEF Lower, TypeOK, memVars, clockVars
  <1> QED
    BY <1>0, <1>1, <1>2, <1>3, <1>4, <1>5, <1>6, <1>7 DEF Main

\* So does the passing of time, and SNTP.
LEMMA ClockType == TypeOK /\ (Tick \/ SntpSetsClock) => TypeOK'
  <1> SUFFICES ASSUME TypeOK, Tick \/ SntpSetsClock PROVE TypeOK'
    OBVIOUS
  <1>1. CASE Tick
    <2>1. main' \in MainState
      BY <1>1, StaleType DEF Tick, TypeOK
    <2>2. day' \in Day /\ minute' \in Minute
      BY <1>1, SizesAssumption DEF Tick, TypeOK, Day, Minute
    <2>3. passes' \in [Valve -> 0 .. MinPasses] /\ dirty' \in BOOLEAN
      BY <1>1, ZeroPasses DEF Tick
    <2> QED
      BY <1>1, <2>1, <2>2, <2>3 DEF Tick, TypeOK, plantVars, memVars
  <1>2. CASE SntpSetsClock
    <2>1. PICK t \in ClockSteps : SetClock(t[1], t[2])
      BY <1>2 DEF SntpSetsClock
    <2>2. t[1] \in Day /\ t[2] \in Minute
      BY InputsAssumption
    <2>3. /\ day' \in Day /\ minute' \in Minute
          /\ passes' \in [Valve -> 0 .. MinPasses]
          /\ dirty' \in BOOLEAN /\ main' \in MainState
      BY <2>1, <2>2, SetClockType
    <2> QED
      BY <1>2, <2>3 DEF SntpSetsClock, TypeOK, plantVars, memVars
  <1> QED
    BY <1>1, <1>2

\* A settings request sets the clock, the table field by field, and flash.
LEMMA WebType == TypeOK /\ Web => TypeOK'
  <1> SUFFICES ASSUME TypeOK, Web PROVE TypeOK'
    OBVIOUS
  <1> DEFINE WebState == [at : {"idle", "fields", "store"},
                          request : SaveRequests \union {NoRequest}, field : Field]
  <1>a. FirstField \in Field
    BY SizesAssumption DEF FirstField, Field, Day, Valve, Part, Slot
  <1>1. CASE BeginSave
    <2>1. PICK r \in SaveRequests :
              /\ web' = [at |-> "fields", request |-> r, field |-> FirstField]
              /\ SetClock(r.day, r.minute)
      BY <1>1 DEF BeginSave
    <2>2. r \in Request
      BY InputsAssumption
    <2>3. r.day \in Day /\ r.minute \in Minute
      BY <2>2 DEF Request
    <2>4. /\ day' \in Day /\ minute' \in Minute
          /\ passes' \in [Valve -> 0 .. MinPasses]
          /\ dirty' \in BOOLEAN /\ main' \in MainState
      BY <2>1, <2>3, SetClockType
    <2>5. web' \in WebState /\ web'.request # NoRequest
      BY <2>1, <1>a, InputsAssumption
    <2> QED
      BY <1>1, <2>4, <2>5 DEF BeginSave, TypeOK, plantVars, memVars
  <1>2. CASE WriteField
    <2>1. web.field \in Field /\ web.request \in Request
      BY <1>2, InputsAssumption DEF WriteField, TypeOK
    <2>2. web' \in WebState /\ web'.request # NoRequest
      <3>1. CASE web.field = LastField
        BY <1>2, <3>1, <1>a DEF WriteField, TypeOK
      <3>2. CASE web.field # LastField
        <4>1. NextField(web.field) \in Field
          BY <2>1, <3>2, NextFieldType
        <4>2. web' = [web EXCEPT !.field = NextField(web.field)]
          BY <1>2, <3>2 DEF WriteField
        <4>3. web \in WebState /\ web.request # NoRequest
          BY <1>2 DEF WriteField, TypeOK
        <4> HIDE DEF WebState
        <4>4. web'.request = web.request /\ web'.request # NoRequest
          BY <4>2, <4>3 DEF WebState
        <4> QED
          BY <4>1, <4>2, <4>3, <4>4 DEF WebState
      <3> QED
        BY <3>1, <3>2
    <2>3. hour_parm' \in HourTable
      <3> DEFINE f == web.field
                 x == web.request.hours[f.valve][f.day][f.slot][f.part]
      <3>1. f.valve \in Valve /\ f.day \in Day /\ f.slot \in Slot /\ f.part \in Part
        BY <2>1 DEF Field
      <3>2. x \in Int
        <4> DEFINE h == web.request.hours
        <4>1. h \in HourTable
          BY <2>1 DEF Request
        <4> HIDE DEF h
        <4>2. h[f.valve] \in [Day -> [Slot -> [Part -> Int]]]
          BY <3>1, <4>1 DEF HourTable
        <4>3. h[f.valve][f.day][f.slot][f.part] \in Int
          BY <3>1, <4>2
        <4> QED
          BY <4>3 DEF h
      <3>3. hour_parm' = [hour_parm EXCEPT ![f.valve][f.day][f.slot][f.part] = x]
        BY <1>2 DEF WriteField
      <3>4. hour_parm \in HourTable
        BY DEF TypeOK
      <3> HIDE DEF f, x
      <3> QED
        BY <3>1, <3>2, <3>3, <3>4 DEF HourTable
    <2>4. dirty' \in BOOLEAN
      BY <1>2 DEF WriteField
    <2> QED
      BY <1>2, <2>2, <2>3, <2>4 DEF WriteField, TypeOK, plantVars, clockVars
  <1>3. CASE EndSave
    <2>1. nvs' \in Blob \union {NoBlob}
      BY <1>3, SaveType DEF EndSave
    <2>2. web' \in WebState /\ web'.at = "idle"
      BY <1>3, <1>a DEF EndSave, WebIdle
    <2> QED
      BY <1>3, <2>1, <2>2 DEF EndSave, TypeOK, plantVars, clockVars
  <1> QED
    BY <1>1, <1>2, <1>3 DEF Web

\* So do the RS485 messages.
LEMMA UartType == TypeOK /\ Uart => TypeOK'
  <1> SUFFICES ASSUME TypeOK, Uart PROVE TypeOK'
    OBVIOUS
  <1>1. CASE SET_IO_VAL
    <2>1. PICK c \in SetIoCommands :
              /\ uart' = c /\ io_dig_mode' = c.mode
              /\ taken' = (taken \/ c.mode # 0)
      BY <1>1 DEF SET_IO_VAL
    <2>2. c \in Command
      BY InputsAssumption
    <2>3. io_dig_mode' \in Byte
      BY <2>1, <2>2 DEF Command
    <2>4. taken' \in BOOLEAN
      BY <2>1, Zenon
    <2> QED
      BY <1>1, <2>1, <2>3, <2>4 DEF SET_IO_VAL, TypeOK, plantVars, memVars, clockVars
  <1>2. CASE SET_IO_VAL_write
    <2>1. uart \in Command
      BY <1>2, InputsAssumption DEF SET_IO_VAL_write, TypeOK
    <2>2. uart.coils \in SUBSET (Valve \X Coil) /\ uart.value \in {0, 1}
      BY <2>1 DEF Command
    <2>3. energised' \subseteq Valve \X Coil /\ open' \subseteq Valve
      <3>1. CASE io_dig_mode = 0
        BY <1>2, <3>1 DEF SET_IO_VAL_write, plantVars, TypeOK
      <3>2. CASE io_dig_mode # 0
        BY <1>2, <2>2, <3>2, WriteType DEF SET_IO_VAL_write
      <3> QED
        BY <3>1, <3>2
    <2> QED
      BY <1>2, <2>3 DEF SET_IO_VAL_write, TypeOK, memVars, clockVars
  <1>3. CASE ReadHours
    <2>1. nvs' \in Blob \union {NoBlob}
      BY <1>3, SaveType DEF ReadHours
    <2> QED
      BY <1>3, <2>1 DEF ReadHours, TypeOK, plantVars, clockVars
  <1> QED
    BY <1>1, <1>2, <1>3 DEF Uart

\* A restart begins again with the blob memory_init found.
LEMMA RebootType == TypeOK /\ Reboot => TypeOK'
  <1> SUFFICES ASSUME TypeOK, Reboot PROVE TypeOK'
    OBVIOUS
  <1>1. hour_parm' \in HourTable /\ timeselect' \in [Valve -> Byte]
    BY EmptyBlobType DEF Reboot, Blob
  <1>2. main' \in MainState
    BY BootingType DEF Reboot
  <1>3. day' \in Day /\ minute' \in Minute
    BY SizesAssumption DEF Reboot, TypeOK, clockVars, ThursdayOfEpoch, Day, Minute
  <1>4. /\ web' \in [at : {"idle", "fields", "store"},
                     request : SaveRequests \union {NoRequest}, field : Field]
        /\ web'.at = "idle"
    BY SizesAssumption DEF Reboot, WebIdle, FirstField, Field, Day, Valve, Part, Slot
  <1>5. boots' \in 0 .. MaxBoots
    BY SizesAssumption DEF Reboot, TypeOK
  <1>6. passes' \in [Valve -> 0 .. MinPasses]
    BY ZeroPasses DEF Reboot
  <1>7. dirty' \in BOOLEAN /\ taken' \in BOOLEAN
    BY Zenon DEF Reboot
  <1>8. minindayos' \in {0, 1} /\ io_dig_mode' \in Byte /\ trusted' \subseteq Valve
    BY DEF Reboot, Byte
  <1> QED
    BY <1>1, <1>2, <1>3, <1>4, <1>5, <1>6, <1>7, <1>8 DEF Reboot, TypeOK

LEMMA NextType == TypeOK /\ [Next]_vars => TypeOK'
  <1>1. CASE UNCHANGED vars
    BY <1>1 DEF vars, TypeOK
  <1> QED
    BY <1>1, MainType, ClockType, WebType, UartType, RebootType DEF Next

\* Every variable keeps its type: a call of CheckIfTime stays inside the
\* table's windows and valves, the cursor of save_parmdata inside its fields.
THEOREM TypeCorrect == Spec => []TypeOK
  BY InitType, NextType, PTL DEF Spec
-----------------------------------------------------------------------------
(***************************************************************************)
(* The pulses.  Neither property is inductive alone: that a coil is only   *)
(* powered in its pulse needs the outputs to belong to the logic, and that *)
(* a selected valve is open needs that no closing pulse is about to start  *)
(* for it, and that no other coil is powered when a pulse starts.          *)
(***************************************************************************)
OpeningNow(v) == main.at = "raise" /\ main.valve = v /\ main.coil = "Open"

PulseInv ==
    ~taken =>
        /\ io_dig_mode = 0
        /\ energised \subseteq PulsedCoil
        /\ main.at = "raise" /\ main.coil = "Close" => timeselect[main.valve] = 0
        /\ \A v \in trusted : timeselect[v] # 0 => v \in open \/ OpeningNow(v)

\* The power-up state satisfies it, after the first boot and after a restart.
LEMMA InitPulse == Init => PulseInv
  <1> SUFFICES ASSUME Init PROVE PulseInv
    OBVIOUS
  <1>1. main.at = "boot" /\ energised = {} /\ io_dig_mode = 0
    BY DEF Init, Booting
  <1>2. trusted = {}
    BY DEF Init
  <1> QED
    BY <1>1, <1>2 DEF PulseInv

\* A step that leaves the outputs, the selections and the mode alone, and the
\* main task where it is, keeps the invariant.
LEMMA QuietStep ==
  ASSUME PulseInv, TypeOK,
         UNCHANGED <<energised, open, timeselect, io_dig_mode, taken, trusted>>,
         main' = main \/ Stale
  PROVE  PulseInv'
  <1>1. /\ main'.at = main.at /\ main'.valve = main.valve /\ main'.coil = main.coil
    BY DEF Stale, TypeOK, MainState
  <1> QED
    BY <1>1 DEF PulseInv, PulsedCoil, OpeningNow

\* Advance leaves the main task outside a pulse.
LEMMA AdvanceAt ==
  ASSUME TypeOK, Advance
  PROVE  main'.at \in {"call", "block"}
  <1>1. main \in MainState
    BY DEF TypeOK
  <1>2. CASE main.slot < NSlot
    BY <1>1, <1>2 DEF Advance, MainState
  <1>3. CASE ~(main.slot < NSlot)
    BY <1>3 DEF Advance, AtCall
  <1> QED
    BY <1>2, <1>3

\* Powering one coil while no other is powered moves that valve only.
LEMMA RaiseMoves ==
  ASSUME TypeOK, NEW v \in Valve, NEW c \in Coil, energised = {},
         ESPWriteToDigital({<<v, c>>}, 1)
  PROVE  /\ energised' = {<<v, c>>}
         /\ c = "Open" => v \in open'
         /\ \A w \in Valve \ {v} : w \in open' <=> w \in open
  <1>1. energised' = {<<v, c>>}
    BY DEF ESPWriteToDigital
  <1>2. \A w \in Valve \ {v} : \A d \in Coil : <<w, d>> \notin energised'
    BY <1>1
  <1>3. c = "Open" => <<v, "Open">> \in energised' /\ <<v, "Close">> \notin energised'
    BY <1>1
  <1>4. open' \in Settle(energised')
    BY DEF ESPWriteToDigital
  <1> QED
    BY <1>1, <1>2, <1>3, <1>4 DEF Settle, Coil

\* When the last coil loses power, every valve keeps its position.
LEMMA LowerKeeps ==
  ASSUME TypeOK, NEW x \in Valve \X Coil, energised \subseteq {x},
         ESPWriteToDigital({x}, 0)
  PROVE  energised' = {} /\ open' = open
  <1>1. energised' = {}
    BY DEF ESPWriteToDigital
  <1>2. open' \in SUBSET Valve /\ \A w \in Valve : w \in open' <=> w \in open
    BY <1>1 DEF ESPWriteToDigital, Settle
  <1> QED
    BY <1>1, <1>2 DEF TypeOK

LEMMA MainPulse == TypeOK /\ PulseInv /\ Main => PulseInv'
  <1> SUFFICES ASSUME TypeOK, PulseInv, Main, ~taken' PROVE PulseInv'
    BY DEF PulseInv
  <1>a. taken' = taken /\ io_dig_mode' = io_dig_mode
    BY DEF Main, memory_init, ReadClock, OpenForWindow, CloseAfterWindow, SkipWindow,
           Raise, EndDelay, Lower
  <1>b. /\ io_dig_mode = 0
        /\ energised \subseteq PulsedCoil
        /\ main.at = "raise" /\ main.coil = "Close" => timeselect[main.valve] = 0
        /\ \A v \in trusted : timeselect[v] # 0 => v \in open \/ OpeningNow(v)
    BY <1>a DEF PulseInv
  <1>c. main \in MainState /\ main.valve \in Valve /\ main.coil \in Coil
        /\ timeselect \in [Valve -> Byte] /\ trusted \subseteq Valve
    BY DEF TypeOK, MainState
  <1>0. CASE memory_init
    <2>1. main'.at = "call" /\ main.at = "boot"
      BY <1>0 DEF memory_init, AtCall
    <2>2. energised' = {} /\ open' = open
      BY <1>0, <1>b, <2>1 DEF memory_init, plantVars, PulsedCoil
    <2>3. \A v \in trusted' : timeselect'[v] = 0
      BY <1>0 DEF memory_init
    <2> QED
      BY <1>a, <1>b, <2>1, <2>2, <2>3 DEF PulseInv
  <1>1. CASE ReadClock
    <2>1. main'.at = "block" /\ main.at = "call"
      BY <1>1, <1>c DEF ReadClock, MainState
    <2>2. energised' = {} /\ open' = open
      BY <1>1, <1>b, <2>1 DEF ReadClock, plantVars, PulsedCoil
    <2>3. \A v \in trusted' : timeselect'[v] # 0 => v \in open'
      BY <1>1, <1>b, <1>c, <2>1, <2>2 DEF ReadClock, OpeningNow
    <2> QED
      BY <1>a, <1>b, <2>1, <2>2, <2>3 DEF PulseInv
  <1>2. CASE OpenForWindow
    <2>1. /\ main.at = "block" /\ main'.at = "raise" /\ main'.coil = "Open"
          /\ main'.valve = main.valve
      BY <1>2, <1>b, <1>c DEF OpenForWindow, StartPulse, MainState
    <2>2. energised' = {} /\ open' = open
      BY <1>2, <1>b, <2>1 DEF OpenForWindow, plantVars, PulsedCoil
    <2>3. \A v \in trusted' : timeselect'[v] # 0 => v \in open' \/ OpeningNow(v)'
      BY <1>2, <1>b, <1>c, <2>1, <2>2 DEF OpenForWindow, OpeningNow
    <2> QED
      BY <1>a, <1>b, <2>1, <2>2, <2>3 DEF PulseInv
  <1>3. CASE CloseAfterWindow
    <2>1. /\ main.at = "block" /\ main'.at = "raise" /\ main'.coil = "Close"
          /\ main'.valve = main.valve
      BY <1>3, <1>b, <1>c DEF CloseAfterWindow, StartPulse, MainState
    <2>2. energised' = {} /\ open' = open
      BY <1>3, <1>b, <2>1 DEF CloseAfterWindow, plantVars, PulsedCoil
    <2>3. timeselect'[main.valve] = 0
      BY <1>3, <1>c DEF CloseAfterWindow
    <2>4. \A v \in trusted' : timeselect'[v] # 0 => v \in open'
      BY <1>3, <1>b, <1>c, <2>1, <2>2 DEF CloseAfterWindow, OpeningNow
    <2> QED
      BY <1>a, <1>b, <2>1, <2>2, <2>3, <2>4 DEF PulseInv
  <1>4. CASE SkipWindow
    <2>1. main.at = "block" /\ main'.at \in {"call", "block"}
      BY <1>4, AdvanceAt DEF SkipWindow
    <2>2. energised' = {} /\ open' = open /\ timeselect' = timeselect
          /\ trusted' = trusted
      BY <1>4, <1>b, <2>1 DEF SkipWindow, plantVars, PulsedCoil
    <2> QED
      BY <1>a, <1>b, <2>1, <2>2 DEF PulseInv, OpeningNow
  <1>5. CASE Raise
    <2>1. /\ main.at = "raise" /\ main'.at = "pulse"
          /\ main'.coil = main.coil /\ main'.valve = main.valve
      BY <1>5, <1>c DEF Raise, MainState
    <2>2. energised = {}
      BY <1>b, <2>1 DEF PulsedCoil
    <2>3. /\ energised' = {<<main.valve, main.coil>>}
          /\ main.coil = "Open" => main.valve \in open'
          /\ \A w \in Valve \ {main.valve} : w \in open' <=> w \in open
      BY <1>5, <1>c, <2>2, RaiseMoves DEF Raise
    <2>4. \A v \in trusted' : timeselect'[v] # 0 => v \in open'
      BY <1>5, <1>b, <1>c, <2>1, <2>3 DEF Raise, OpeningNow, Coil
    <2> QED
      BY <1>a, <1>b, <2>1, <2>3, <2>4 DEF PulseInv, PulsedCoil
  <1>6. CASE EndDelay
    <2>1. main.at = "pulse" /\ main' = [main EXCEPT !.at = "lower"]
      BY <1>6, <1>b DEF EndDelay
    <2>2. main'.at = "lower" /\ main'.coil = main.coil /\ main'.valve = main.valve
      BY <1>c, <2>1 DEF MainState
    <2>3. energised' = energised /\ open' = open /\ timeselect' = timeselect
          /\ trusted' = trusted
      BY <1>6 DEF EndDelay, plantVars
    <2> QED
      BY <1>a, <1>b, <2>1, <2>2, <2>3 DEF PulseInv, PulsedCoil, OpeningNow
  <1>7. CASE Lower
    <2>1. main.at = "lower" /\ main'.at \in {"call", "block"}
      BY <1>7, AdvanceAt DEF Lower
    <2>2. energised' = {} /\ open' = open
      BY <1>7, <1>b, <1>c, <2>1, LowerKeeps DEF Lower, PulsedCoil
    <2>3. timeselect' = timeselect /\ trusted' = trusted
      BY <1>7 DEF Lower
    <2> QED
      BY <1>a, <1>b, <2>1, <2>2, <2>3 DEF PulseInv, OpeningNow
  <1> QED
    BY <1>0, <1>1, <1>2, <1>3, <1>4, <1>5, <1>6, <1>7 DEF Main

LEMMA UartPulse == TypeOK /\ PulseInv /\ Uart => PulseInv'
  <1> SUFFICES ASSUME TypeOK, PulseInv, Uart PROVE PulseInv'
    OBVIOUS
  <1>1. CASE SET_IO_VAL
    <2>1. /\ ~taken' => ~taken /\ io_dig_mode' = 0
      BY <1>1 DEF SET_IO_VAL
    <2>2. UNCHANGED <<energised, open, timeselect, trusted, main>>
      BY <1>1 DEF SET_IO_VAL, plantVars
    <2> QED
      BY <2>1, <2>2 DEF PulseInv, PulsedCoil, OpeningNow
  <1>2. CASE SET_IO_VAL_write
    <2>1. UNCHANGED <<timeselect, io_dig_mode, taken, trusted, main>>
      BY <1>2 DEF SET_IO_VAL_write
    <2>2. CASE io_dig_mode = 0
      BY <1>2, <2>1, <2>2, QuietStep DEF SET_IO_VAL_write, plantVars
    <2>3. CASE io_dig_mode # 0
      BY <2>1, <2>3 DEF PulseInv
    <2> QED
      BY <2>2, <2>3
  <1>3. CASE ReadHours
    BY <1>3, QuietStep DEF ReadHours, plantVars
  <1> QED
    BY <1>1, <1>2, <1>3 DEF Uart

LEMMA RebootPulse == TypeOK /\ Reboot => PulseInv'
  <1> SUFFICES ASSUME TypeOK, Reboot PROVE PulseInv'
    OBVIOUS
  <1>1. main'.at = "boot" /\ energised' = {} /\ io_dig_mode' = 0
    BY DEF Reboot, Booting
  <1>2. trusted' = {}
    BY DEF Reboot
  <1> QED
    BY <1>1, <1>2 DEF PulseInv

LEMMA NextPulse == TypeOK /\ PulseInv /\ [Next]_vars => PulseInv'
  <1> SUFFICES ASSUME TypeOK, PulseInv, [Next]_vars PROVE PulseInv'
    OBVIOUS
  <1>1. CASE UNCHANGED vars
    BY <1>1, QuietStep DEF vars
  <1>2. CASE Tick
    BY <1>2, QuietStep DEF Tick, plantVars
  <1>3. CASE SntpSetsClock
    BY <1>3, QuietStep DEF SntpSetsClock, SetClock, plantVars
  <1>4. CASE Web
    <2>1. CASE BeginSave
      BY <2>1, QuietStep DEF BeginSave, SetClock, plantVars
    <2>2. CASE WriteField
      BY <2>2, QuietStep DEF WriteField, plantVars
    <2>3. CASE EndSave
      BY <2>3, QuietStep DEF EndSave, plantVars
    <2> QED
      BY <1>4, <2>1, <2>2, <2>3 DEF Web
  <1> QED
    BY <1>1, <1>2, <1>3, <1>4, MainPulse, UartPulse, RebootPulse DEF Next

LEMMA PulseInvariant == Spec => []PulseInv
  BY InitPulse, NextPulse, TypeCorrect, PTL DEF Spec

\* As long as the server has not taken the outputs since the last restart, a
\* coil is powered only during its own pulse, for any table, any clock and any
\* web request: CheckIfTime leaves no coil on and never powers two.
THEOREM CoilsSafe == Spec => []CoilsOnlyInPulse
  <1>1. PulseInv => CoilsOnlyInPulse
    BY DEF PulseInv, CoilsOnlyInPulse
  <1> QED
    BY <1>1, PulseInvariant, PTL

\* ... and a selection CheckIfTime made in this boot means an open valve.
THEOREM SelectionHonest == Spec => []SelectedIsOpen
  <1>1. PulseInv => SelectedIsOpen
    BY DEF PulseInv, SelectedIsOpen, OpeningNow
  <1> QED
    BY <1>1, PulseInvariant, PTL
-----------------------------------------------------------------------------
(***************************************************************************)
(* The settings in flash.  Inductive with what save_parmdata has written:  *)
(* the fields before its cursor are the request's, and before memory_init  *)
(* no save is running and the RAM is zero.                                 *)
(***************************************************************************)

\* The order of save_parmdata's loops.
PartNo(p) == IF p = "StartHour" THEN 0 ELSE 1
Before(f, g) ==
    \/ f.day < g.day
    \/ /\ f.day = g.day
       /\ \/ f.valve < g.valve
          \/ /\ f.valve = g.valve
             /\ \/ PartNo(f.part) < PartNo(g.part)
                \/ f.part = g.part /\ f.slot < g.slot

Copied(f) ==
    hour_parm[f.valve][f.day][f.slot][f.part]
        = web.request.hours[f.valve][f.day][f.slot][f.part]

SaveInv ==
    /\ main.at = "boot" => /\ web.at = "idle"
                           /\ hour_parm = EmptyBlob.hours
                           /\ timeselect = EmptyBlob.select
    /\ web.at = "idle" => hour_parm \in WholeTables \union StoredHours
    /\ web.at = "fields" => \A f \in Field : Before(f, web.field) => Copied(f)
    /\ web.at = "store" => hour_parm = web.request.hours

LEMMA FieldParts ==
  ASSUME NEW f \in Field
  PROVE  /\ f.slot \in 1 .. NSlot /\ f.part \in {"StartHour", "Duration"}
         /\ f.valve \in 0 .. NValve - 1 /\ f.day \in 0 .. NDay - 1
         /\ f = [day |-> f.day, valve |-> f.valve, part |-> f.part, slot |-> f.slot]
  BY DEF Field, Slot, Part, Valve, Day

\* Nothing precedes the first field.
LEMMA NoneBeforeFirst ==
  ASSUME NEW f \in Field
  PROVE  ~Before(f, FirstField)
  BY FieldParts DEF Before, FirstField, PartNo

\* Every field is the last one or precedes it.
LEMMA AllUpToLast ==
  ASSUME NEW f \in Field
  PROVE  f = LastField \/ Before(f, LastField)
  <1>1. /\ LastField.day = NDay - 1 /\ LastField.valve = NValve - 1
        /\ LastField.part = "Duration" /\ LastField.slot = NSlot
    BY DEF LastField
  <1>2. CASE f.day = NDay - 1 /\ f.valve = NValve - 1 /\ f.part = "Duration"
             /\ f.slot = NSlot
    BY <1>2, FieldParts DEF LastField
  <1>3. CASE f.day < NDay - 1
    BY <1>1, <1>3 DEF Before
  <1>4. CASE f.day = NDay - 1 /\ f.valve < NValve - 1
    BY <1>1, <1>4 DEF Before
  <1>5. CASE f.day = NDay - 1 /\ f.valve = NValve - 1 /\ f.part = "StartHour"
    BY <1>1, <1>5 DEF Before, PartNo
  <1>6. CASE f.day = NDay - 1 /\ f.valve = NValve - 1 /\ f.part = "Duration"
             /\ f.slot < NSlot
    BY <1>1, <1>6 DEF Before
  <1> QED
    BY <1>2, <1>3, <1>4, <1>5, <1>6, FieldParts, SizesAssumption

\* The cursor moves over the field just written and over no other.
LEMMA NextCovers ==
  ASSUME NEW f \in Field, NEW g \in Field, g # LastField, Before(f, NextField(g))
  PROVE  f = g \/ Before(f, g)
  <1>1. /\ f.slot \in 1 .. NSlot /\ f.part \in {"StartHour", "Duration"}
        /\ f.valve \in 0 .. NValve - 1 /\ f.day \in 0 .. NDay - 1
        /\ g.slot \in 1 .. NSlot /\ g.part \in {"StartHour", "Duration"}
        /\ g.valve \in 0 .. NValve - 1 /\ g.day \in 0 .. NDay - 1
    BY FieldParts
  <1>2. f.day = g.day /\ f.valve = g.valve /\ f.part = g.part /\ f.slot = g.slot => f = g
    BY FieldParts
  <1>3. CASE g.slot < NSlot
    <2>1. /\ NextField(g).day = g.day /\ NextField(g).valve = g.valve
          /\ NextField(g).part = g.part /\ NextField(g).slot = g.slot + 1
      BY <1>3 DEF NextField, Field
    <2> QED
      BY <1>1, <1>2, <2>1, SizesAssumption DEF Before, PartNo
  <1>4. CASE ~(g.slot < NSlot) /\ g.part = "StartHour"
    <2>1. /\ NextField(g).day = g.day /\ NextField(g).valve = g.valve
          /\ NextField(g).part = "Duration" /\ NextField(g).slot = 1
      BY <1>4 DEF NextField, Field
    <2> QED
      BY <1>1, <1>2, <1>4, <2>1, SizesAssumption DEF Before, PartNo
  <1>5. CASE ~(g.slot < NSlot) /\ g.part # "StartHour" /\ g.valve < NValve - 1
    <2>1. /\ NextField(g).day = g.day /\ NextField(g).valve = g.valve + 1
          /\ NextField(g).part = "StartHour" /\ NextField(g).slot = 1
      BY <1>5 DEF NextField, Field
    <2> QED
      BY <1>1, <1>2, <1>5, <2>1, SizesAssumption DEF Before, PartNo
  <1>6. CASE ~(g.slot < NSlot) /\ g.part # "StartHour" /\ ~(g.valve < NValve - 1)
    <2>1. /\ NextField(g).day = g.day + 1 /\ NextField(g).valve = 0
          /\ NextField(g).part = "StartHour" /\ NextField(g).slot = 1
      BY <1>6 DEF NextField, FirstField
    <2> QED
      BY <1>1, <1>2, <1>6, <2>1, SizesAssumption DEF Before, PartNo
  <1> QED
    BY <1>3, <1>4, <1>5, <1>6

\* Two tables that agree in every field are equal.
LEMMA CopiedAll ==
  ASSUME NEW g \in HourTable, NEW h \in HourTable,
         \A f \in Field : g[f.valve][f.day][f.slot][f.part]
                            = h[f.valve][f.day][f.slot][f.part]
  PROVE  g = h
  <1>1. ASSUME NEW v \in Valve, NEW d \in Day, NEW k \in Slot, NEW p \in Part
        PROVE  g[v][d][k][p] = h[v][d][k][p]
    <2> DEFINE f == [day |-> d, valve |-> v, part |-> p, slot |-> k]
    <2>1. f \in Field
      BY DEF Field
    <2> QED
      BY <2>1
  <1>2. ASSUME NEW v \in Valve, NEW d \in Day, NEW k \in Slot
        PROVE  g[v][d][k] = h[v][d][k]
    <2>1. g[v][d][k] \in [Part -> Int] /\ h[v][d][k] \in [Part -> Int]
      BY DEF HourTable
    <2> QED
      BY <1>1, <2>1
  <1>3. ASSUME NEW v \in Valve, NEW d \in Day
        PROVE  g[v][d] = h[v][d]
    <2>1. g[v][d] \in [Slot -> [Part -> Int]] /\ h[v][d] \in [Slot -> [Part -> Int]]
      BY DEF HourTable
    <2> QED
      BY <1>2, <2>1
  <1>4. ASSUME NEW v \in Valve
        PROVE  g[v] = h[v]
    <2>1. /\ g[v] \in [Day -> [Slot -> [Part -> Int]]]
          /\ h[v] \in [Day -> [Slot -> [Part -> Int]]]
      BY DEF HourTable
    <2> QED
      BY <1>3, <2>1
  <1> QED
    BY <1>4 DEF HourTable

\* One assignment of save_parmdata changes one field of the table.
LEMMA FieldWritten ==
  ASSUME TypeOK, WriteField, NEW f \in Field
  PROVE  hour_parm'[f.valve][f.day][f.slot][f.part] =
            IF f = web.field
            THEN web.request.hours[f.valve][f.day][f.slot][f.part]
            ELSE hour_parm[f.valve][f.day][f.slot][f.part]
  <1> DEFINE g == web.field
             x == web.request.hours[g.valve][g.day][g.slot][g.part]
  <1>1. hour_parm' = [hour_parm EXCEPT ![g.valve][g.day][g.slot][g.part] = x]
    BY DEF WriteField
  <1>2. g \in Field /\ hour_parm \in HourTable
    BY DEF TypeOK
  <1>3. /\ f.valve \in Valve /\ f.day \in Day /\ f.slot \in Slot /\ f.part \in Part
        /\ g.valve \in Valve /\ g.day \in Day /\ g.slot \in Slot /\ g.part \in Part
    BY <1>2 DEF Field
  <1>4. f.valve = g.valve /\ f.day = g.day /\ f.slot = g.slot /\ f.part = g.part => f = g
    BY <1>2, FieldParts
  <1>5. CASE f = g
    <2>1. x = web.request.hours[f.valve][f.day][f.slot][f.part]
      BY <1>5
    <2> HIDE DEF g, x
    <2>2. hour_parm'[g.valve][g.day][g.slot][g.part] = x
      BY <1>1, <1>2, <1>3 DEF HourTable
    <2> QED
      BY <1>5, <2>1, <2>2 DEF g
  <1>6. CASE f # g
    <2>1. ~(f.valve = g.valve /\ f.day = g.day /\ f.slot = g.slot /\ f.part = g.part)
      BY <1>4, <1>6
    <2> HIDE DEF g, x
    <2>2. hour_parm'[f.valve][f.day][f.slot][f.part]
            = hour_parm[f.valve][f.day][f.slot][f.part]
      <3>1. CASE f.valve # g.valve
        BY <1>1, <1>2, <1>3, <3>1 DEF HourTable
      <3>2. CASE f.valve = g.valve /\ f.day # g.day
        BY <1>1, <1>2, <1>3, <3>2 DEF HourTable
      <3>3. CASE f.valve = g.valve /\ f.day = g.day /\ f.slot # g.slot
        BY <1>1, <1>2, <1>3, <3>3 DEF HourTable
      <3>4. CASE f.valve = g.valve /\ f.day = g.day /\ f.slot = g.slot /\ f.part # g.part
        BY <1>1, <1>2, <1>3, <3>4 DEF HourTable
      <3> QED
        BY <2>1, <3>1, <3>2, <3>3, <3>4
    <2> QED
      BY <1>6, <2>2 DEF g
  <1> QED
    BY <1>5, <1>6

\* Once the cursor has passed the last field, the table is the request's.
LEMMA WrittenThrough ==
  ASSUME TypeOK, SaveInv, WriteField
  PROVE  /\ web.field # LastField =>
               \A f \in Field : Before(f, NextField(web.field)) => Copied(f)'
         /\ web.field = LastField => hour_parm' = web'.request.hours
  <1>1. web.field \in Field /\ web'.request = web.request /\ web.at = "fields"
    BY DEF TypeOK, WriteField
  <1>2. ASSUME NEW f \in Field, f = web.field \/ Before(f, web.field)
        PROVE  Copied(f)'
    <2>1. f # web.field => Copied(f)
      BY <1>1, <1>2 DEF SaveInv
    <2>2. hour_parm'[f.valve][f.day][f.slot][f.part]
            = web.request.hours[f.valve][f.day][f.slot][f.part]
      BY <2>1, FieldWritten DEF Copied
    <2> QED
      BY <1>1, <2>2 DEF Copied
  <1>3. CASE web.field # LastField
    BY <1>1, <1>2, <1>3, NextCovers
  <1>4. CASE web.field = LastField
    <2>1. \A f \in Field : Copied(f)'
      BY <1>2, <1>4, AllUpToLast
    <2>2. hour_parm' \in HourTable
      BY WebType DEF Web, TypeOK
    <2>3. web.request.hours \in HourTable
      BY <1>1, InputsAssumption DEF TypeOK, Request
    <2>4. \A f \in Field : hour_parm'[f.valve][f.day][f.slot][f.part]
                          = web.request.hours[f.valve][f.day][f.slot][f.part]
      BY <1>1, <2>1 DEF Copied
    <2> DEFINE G == hour_parm'
               H == web.request.hours
    <2>5. G \in HourTable /\ H \in HourTable
      BY <2>2, <2>3
    <2>6. \A f \in Field : G[f.valve][f.day][f.slot][f.part] = H[f.valve][f.day][f.slot][f.part]
      BY <2>4
    <2> HIDE DEF G, H
    <2>7. G = H
      BY <2>5, <2>6, CopiedAll
    <2> QED
      BY <1>1, <1>4, <2>7 DEF G, H
  <1> QED
    BY <1>3, <1>4

LEMMA InitSave == Init => SaveInv
  <1> SUFFICES ASSUME Init PROVE SaveInv
    OBVIOUS
  <1>1. /\ web.at = "idle" /\ hour_parm = EmptyBlob.hours
        /\ timeselect = EmptyBlob.select
    BY DEF Init, WebIdle
  <1>2. hour_parm \in WholeTables
    BY <1>1 DEF WholeTables
  <1> QED
    BY <1>1, <1>2 DEF SaveInv

\* Steps that leave the RAM table, flash and the web server's task alone, after
\* memory_init.
LEMMA QuietSave ==
  ASSUME SaveInv, UNCHANGED <<hour_parm, nvs, web>>, main'.at # "boot"
  PROVE  SaveInv'
  BY DEF SaveInv, StoredHours, WholeTables, Copied

LEMMA MainSave == TypeOK /\ SaveInv /\ Main => SaveInv'
  <1> SUFFICES ASSUME TypeOK, SaveInv, Main PROVE SaveInv'
    OBVIOUS
  <1>a. main \in MainState
    BY DEF TypeOK
  <1>1. CASE memory_init
    <2>1. main'.at # "boot" /\ web'.at = "idle" /\ nvs' = nvs
      BY <1>1 DEF memory_init, AtCall, SaveInv
    <2>2. PICK b \in LoadedBlobs(nvs) : hour_parm' = b.hours
      BY <1>1 DEF memory_init
    <2>3. CASE nvs = NoBlob
      <3>1. b.hours \in WholeTables
        BY <2>2, <2>3 DEF LoadedBlobs, WholeTables
      <3> QED
        BY <2>1, <2>2, <3>1 DEF SaveInv, WholeTables
    <2>4. CASE nvs # NoBlob
      <3>1. b = nvs \/ b = EmptyBlob
        BY <2>2, <2>4 DEF LoadedBlobs
      <3>2. b.hours \in WholeTables \union StoredHours
        BY <2>4, <3>1 DEF WholeTables, StoredHours
      <3> QED
        BY <2>1, <2>2, <3>2 DEF SaveInv, WholeTables, StoredHours
    <2> QED
      BY <2>3, <2>4
  <1>2. CASE ReadClock
    BY <1>2, <1>a, QuietSave DEF ReadClock, MainState, memVars
  <1>3. CASE OpenForWindow
    BY <1>3, <1>a, QuietSave DEF OpenForWindow, StartPulse, MainState, memVars
  <1>4. CASE CloseAfterWindow
    BY <1>4, <1>a, QuietSave DEF CloseAfterWindow, StartPulse, MainState, memVars
  <1>5. CASE SkipWindow
    <2>1. main'.at # "boot"
      BY <1>5, AdvanceAt DEF SkipWindow
    <2> QED
      BY <1>5, <2>1, QuietSave DEF SkipWindow, memVars
  <1>6. CASE Raise
    BY <1>6, <1>a, QuietSave DEF Raise, MainState, memVars
  <1>7. CASE EndDelay
    <2>1. main'.at # "boot"
      BY <1>7, <1>a, AdvanceAt DEF EndDelay, MainState
    <2> QED
      BY <1>7, <2>1, QuietSave DEF EndDelay, memVars
  <1>8. CASE Lower
    <2>1. main'.at # "boot"
      BY <1>8, AdvanceAt DEF Lower
    <2> QED
      BY <1>8, <2>1, QuietSave DEF Lower, memVars
  <1> QED
    BY <1>1, <1>2, <1>3, <1>4, <1>5, <1>6, <1>7, <1>8 DEF Main

\* Time passes: the main task stays where it is.
LEMMA StaleSave ==
  ASSUME TypeOK, SaveInv, main' = main \/ Stale,
         UNCHANGED <<hour_parm, timeselect, nvs, web>>
  PROVE  SaveInv'
  <1>1. main'.at = main.at
    BY DEF Stale, TypeOK, MainState
  <1> QED
    BY <1>1 DEF SaveInv, StoredHours, WholeTables, Copied

LEMMA WebSave == TypeOK /\ SaveInv /\ Web => SaveInv'
  <1> SUFFICES ASSUME TypeOK, SaveInv, Web PROVE SaveInv'
    OBVIOUS
  <1>1. CASE BeginSave
    <2>1. main'.at = main.at /\ main.at # "boot"
      BY <1>1 DEF BeginSave, SetClock, Stale, TypeOK, MainState
    <2>2. web'.at = "fields" /\ web'.field = FirstField
      BY <1>1 DEF BeginSave
    <2> QED
      BY <2>1, <2>2, NoneBeforeFirst DEF SaveInv
  <1>2. CASE WriteField
    <2>1. web.at = "fields" /\ main'.at # "boot"
      BY <1>2 DEF WriteField, SaveInv
    <2>2. CASE web.field = LastField
      <3>1. web'.at = "store"
        BY <1>2, <2>2 DEF WriteField, TypeOK
      <3>2. hour_parm' = web'.request.hours
        BY <1>2, <2>2, WrittenThrough
      <3> QED
        BY <2>1, <3>1, <3>2 DEF SaveInv
    <2>3. CASE web.field # LastField
      <3>1. web'.at = "fields" /\ web'.field = NextField(web.field)
        BY <1>2, <2>1, <2>3 DEF WriteField, TypeOK
      <3>2. \A f \in Field : Before(f, NextField(web.field)) => Copied(f)'
        BY <1>2, <2>3, WrittenThrough
      <3> QED
        BY <2>1, <3>1, <3>2 DEF SaveInv
    <2> QED
      BY <2>2, <2>3
  <1>3. CASE EndSave
    <2>1. /\ web.at = "store" /\ web'.at = "idle" /\ hour_parm' = hour_parm
          /\ main'.at # "boot"
      BY <1>3 DEF EndSave, WebIdle, SaveInv
    <2>2. web.request \in SaveRequests
      BY <2>1 DEF TypeOK
    <2>3. hour_parm \in WholeTables
      BY <2>1, <2>2 DEF SaveInv, WholeTables
    <2> QED
      BY <2>1, <2>3 DEF SaveInv, WholeTables
  <1> QED
    BY <1>1, <1>2, <1>3 DEF Web

\* What SaveHoursToMemory leaves in flash is what was there or what RAM holds.
LEMMA SavedHours ==
  ASSUME TypeOK, SaveHoursToMemory, nvs' # nvs
  PROVE  nvs' # NoBlob /\ nvs'.hours = hour_parm /\ nvs'.select = timeselect
  <1>1. nvs' = [hours |-> hour_parm, select |-> timeselect]
    BY DEF SaveHoursToMemory
  <1>2. nvs' \in Blob
    BY <1>1 DEF TypeOK, Blob
  <1> QED
    BY <1>1, <1>2, InputsAssumption

LEMMA UartSave == TypeOK /\ SaveInv /\ Uart => SaveInv'
  <1> SUFFICES ASSUME TypeOK, SaveInv, Uart PROVE SaveInv'
    OBVIOUS
  <1>1. CASE SET_IO_VAL
    BY <1>1, StaleSave DEF SET_IO_VAL, memVars
  <1>2. CASE SET_IO_VAL_write
    BY <1>2, StaleSave DEF SET_IO_VAL_write, memVars
  <1>3. CASE ReadHours
    <2>1. UNCHANGED <<hour_parm, timeselect, main, web>>
      BY <1>3 DEF ReadHours
    <2>2. CASE nvs' = nvs
      BY <2>1, <2>2, StaleSave
    <2>3. CASE nvs' # nvs
      <3>1. hour_parm' \in StoredHours'
        BY <1>3, <2>1, <2>3, SavedHours DEF ReadHours, StoredHours
      <3> QED
        BY <2>1, <3>1 DEF SaveInv, WholeTables, Copied
    <2> QED
      BY <2>2, <2>3
  <1> QED
    BY <1>1, <1>2, <1>3 DEF Uart

LEMMA NextSave == TypeOK /\ SaveInv /\ [Next]_vars => SaveInv'
  <1> SUFFICES ASSUME TypeOK, SaveInv, [Next]_vars PROVE SaveInv'
    OBVIOUS
  <1>1. CASE UNCHANGED vars
    BY <1>1, StaleSave DEF vars
  <1>2. CASE Tick
    BY <1>2, StaleSave DEF Tick, memVars
  <1>3. CASE SntpSetsClock
    BY <1>3, StaleSave DEF SntpSetsClock, SetClock, memVars
  <1>4. CASE Reboot
    <2>1. /\ web'.at = "idle" /\ hour_parm' = EmptyBlob.hours
          /\ timeselect' = EmptyBlob.select
      BY <1>4 DEF Reboot, WebIdle
    <2>2. hour_parm' \in WholeTables
      BY <2>1 DEF WholeTables
    <2> QED
      BY <2>1, <2>2 DEF SaveInv, WholeTables
  <1> QED
    BY <1>1, <1>2, <1>3, <1>4, MainSave, WebSave, UartSave DEF Next

\* Only the page's last step and E_SetTimes store anything, and SaveInv says
\* what the RAM holds then.
LEMMA StepStores ==
  ASSUME TypeOK, SaveInv, [Next]_vars, nvs' # nvs
  PROVE  \/ web.at = "store" /\ nvs'.hours = web.request.hours
         \/ /\ ServerSetsTimes
            /\ \/ main.at = "boot" /\ nvs' = EmptyBlob
               \/ web.at = "fields"
               \/ /\ main.at # "boot" /\ web.at = "idle"
                  /\ nvs'.hours \in WholeTables \union StoredHours
  <1>1. EndSave \/ ReadHours
    BY DEF vars, Next, Main, memory_init, ReadClock, OpenForWindow, CloseAfterWindow,
           SkipWindow, Raise, EndDelay, Lower, Tick, SntpSetsClock, Web, BeginSave,
           WriteField, Uart, SET_IO_VAL, SET_IO_VAL_write, Reboot, memVars
  <1>2. nvs'.hours = hour_parm
    BY <1>1, SavedHours DEF EndSave, ReadHours
  <1>3. CASE EndSave
    BY <1>2, <1>3 DEF EndSave, SaveInv
  <1>4. CASE ReadHours
    <2>1. ServerSetsTimes
      BY <1>4 DEF ReadHours
    <2>2. web.at \in {"idle", "fields", "store"}
      BY DEF TypeOK
    <2>3. CASE main.at # "boot" /\ web.at = "idle"
      BY <1>2, <2>1, <2>3 DEF SaveInv
    <2>5. CASE main.at = "boot"
      <3>1. nvs' = [hours |-> EmptyBlob.hours, select |-> EmptyBlob.select]
        BY <1>4, <2>5 DEF ReadHours, SaveHoursToMemory, SaveInv
      <3> QED
        BY <2>1, <2>5, <3>1 DEF EmptyBlob
    <2>4. CASE web.at = "store"
      BY <1>2, <2>4 DEF SaveInv
    <2> QED
      BY <2>1, <2>2, <2>3, <2>4, <2>5
  <1> QED
    BY <1>1, <1>3, <1>4

LEMMA SaveInvariant == Spec => []SaveInv
  BY InitSave, NextSave, TypeCorrect, PTL DEF Spec

\* What flash holds is a table somebody meant, except for what an E_SetTimes
\* stores before memory_init (zeros) or while a page save writes its fields.
THEOREM SavesWhole == Spec => StoredTableWhole
  <1>1. TypeOK /\ SaveInv /\ [Next]_vars =>
          [nvs' # nvs =>
            \/ web.at = "store" /\ nvs'.hours = web.request.hours
            \/ /\ ServerSetsTimes
               /\ \/ main.at = "boot" /\ nvs' = EmptyBlob
                  \/ web.at = "fields"
                  \/ /\ main.at # "boot" /\ web.at = "idle"
                     /\ nvs'.hours \in WholeTables \union StoredHours]_vars
    BY StepStores
  <1> QED
    BY <1>1, SaveInvariant, TypeCorrect, PTL DEF Spec, StoredTableWhole
-----------------------------------------------------------------------------
(***************************************************************************)
(* Due windows.  In a minute in which nobody changes clock or table, the   *)
(* first complete call of CheckIfTime for a valve leaves it no selection   *)
(* whose window is not due, and the second one no due window without an    *)
(* open valve.  ScanInv says how far a call has come with that.            *)
(***************************************************************************)
Now(v, k) == InWindow(v, day, minute, k)
InCall(v) == main.valve = v /\ main.at \notin {"boot", "call"}

\* The test of window k lies behind in this call.
Past(k) == k < main.slot \/ (k = main.slot /\ main.at # "block")

\* This minute's calls for valve v have begun.
Seen(v) == passes[v] >= 1 \/ (InCall(v) /\ main.fresh)

Scan(v) ==
    /\ passes[v] >= 1 /\ InCall(v) => main.fresh
    /\ minute = 0 /\ v \notin trusted /\ Seen(v) => minindayos = 1
    /\ \A k \in Slot : timeselect[v] = k /\ Seen(v) /\ (passes[v] >= 1 \/ Past(k)) => Now(v, k)
    /\ passes[v] >= 1 /\ InCall(v) =>
          /\ main.at # "block" => main.coil = "Open"
          /\ timeselect[v] = 0 => \A k \in Slot : Past(k) => ~Now(v, k)
    /\ passes[v] >= 2 /\ v \in trusted /\ ~taken /\ Due(v) => v \in open

CallInv ==
    /\ main.at = "boot" => trusted = {} /\ \A v \in Valve : passes[v] = 0
    /\ main.at # "boot" => \A v \in Valve \ trusted : timeselect[v] # 0
    /\ \A v \in trusted : timeselect[v] \in 0 .. NSlot
    /\ main.at \in {"boot", "call"} => ~main.fresh
    /\ main.fresh => main.day = day /\ main.minute = minute

ScanInv == CallInv /\ (~dirty => \A v \in Valve : Scan(v))

LEMMA ScanTypes ==
  ASSUME TypeOK
  PROVE  /\ main \in MainState /\ main.at \in MainAt /\ main.valve \in Valve
         /\ main.slot \in Slot /\ main.slot \in Nat /\ main.coil \in Coil
         /\ main.fresh \in BOOLEAN
         /\ NSlot \in Nat /\ Slot \subseteq Nat /\ \A k \in Slot : k # 0 /\ k <= NSlot
         /\ timeselect \in [Valve -> Byte] /\ trusted \subseteq Valve
         /\ passes \in [Valve -> 0 .. MinPasses] /\ \A v \in Valve : passes[v] \in Nat
         /\ minindayos \in {0, 1}
  <1>1. /\ main \in MainState /\ timeselect \in [Valve -> Byte] /\ trusted \subseteq Valve
        /\ passes \in [Valve -> 0 .. MinPasses] /\ minindayos \in {0, 1}
    BY DEF TypeOK
  <1>2. /\ NSlot \in Nat /\ Slot \subseteq Nat /\ \A k \in Slot : k # 0 /\ k <= NSlot
    BY SizesAssumption DEF Slot
  <1>3. \A v \in Valve : passes[v] \in Nat
    BY <1>1, SizesAssumption
  <1>4. /\ main.at \in MainAt /\ main.valve \in Valve /\ main.slot \in Slot
        /\ main.coil \in Coil /\ main.fresh \in BOOLEAN
    BY <1>1 DEF MainState
  <1> QED
    BY <1>1, <1>2, <1>3, <1>4

LEMMA DueIsNow ==
  ASSUME TypeOK, NEW v \in Valve
  PROVE  Due(v) <=> \E k \in Slot : Now(v, k)
  <1>1. minute \in Int /\ day \in Day /\ hour_parm \in HourTable
    BY SizesAssumption DEF TypeOK, Minute
  <1>2. \A k \in Slot : /\ hour_parm[v][day][k]["StartHour"] \in Int
                       /\ hour_parm[v][day][k]["Duration"] \in Int
    BY <1>1 DEF HourTable, Part
  <1> QED
    BY <1>1, <1>2 DEF Due, Waters, Now, InWindow

\* A step that changes none of this, or opens nothing but what the server took.
LEMMA ScanQuiet ==
  ASSUME TypeOK, ScanInv,
         UNCHANGED <<hour_parm, day, minute, main, timeselect, minindayos, passes, dirty,
                     trusted>>,
         ~taken' => ~taken /\ open' = open
  PROVE  ScanInv'
  <1>1. CallInv'
    BY DEF ScanInv, CallInv
  <1>2. ASSUME ~dirty', NEW v \in Valve PROVE Scan(v)'
    <2>1. (\A k \in Slot : Now(v, k)' <=> Now(v, k)) /\ (Due(v)' <=> Due(v))
      BY DEF Now, InWindow, Due, Waters
    <2>2. (InCall(v)' <=> InCall(v)) /\ (Seen(v)' <=> Seen(v)) /\ \A k \in Slot : Past(k)' <=> Past(k)
      BY DEF InCall, Seen, Past
    <2>3. Scan(v)
      BY <1>2 DEF ScanInv
    <2> QED
      BY <2>1, <2>2, <2>3 DEF Scan
  <1> QED
    BY <1>1, <1>2 DEF ScanInv

\* After the clock was set, or a minute has passed, nothing has been seen yet.
LEMMA ScanAnew ==
  ASSUME TypeOK, ScanInv, UNCHANGED <<timeselect, trusted>>,
         passes' = [v \in Valve |-> 0], Stale
  PROVE  ScanInv'
  <1>1. /\ ~main'.fresh /\ main'.at = main.at /\ \A v \in Valve : passes'[v] = 0
    BY ScanTypes DEF Stale, MainState
  <1>2. CallInv'
    BY <1>1 DEF ScanInv, CallInv
  <1>3. ASSUME NEW v \in Valve PROVE Scan(v)'
    BY <1>1 DEF Scan, Seen, InCall
  <1> QED
    BY <1>2, <1>3 DEF ScanInv

LEMMA ScanReboot ==
  ASSUME Reboot
  PROVE  ScanInv'
  <1>1. main'.at = "boot" /\ ~main'.fresh /\ trusted' = {} /\ dirty'
        /\ \A v \in Valve : passes'[v] = 0
    BY DEF Reboot, Booting
  <1> QED
    BY <1>1 DEF ScanInv, CallInv

LEMMA ScanMemory ==
  ASSUME TypeOK, ScanInv, memory_init
  PROVE  ScanInv'
  <1>1. /\ main.at = "boot" /\ main'.at = "call" /\ ~main'.fresh
        /\ passes' = passes
        /\ trusted' = {v \in Valve : timeselect'[v] = 0}
    BY DEF memory_init, AtCall
  <1>2. \A v \in Valve : passes'[v] = 0
    BY <1>1 DEF ScanInv, CallInv
  <1>3. CallInv'
    BY <1>1, ScanTypes DEF CallInv
  <1>4. ASSUME NEW v \in Valve PROVE Scan(v)'
    BY <1>1, <1>2 DEF Scan, Seen, InCall
  <1> QED
    BY <1>3, <1>4 DEF ScanInv

\* Minute 0 takes a selection away at the first call at the latest.
LEMMA ScanRead ==
  ASSUME TypeOK, ScanInv, ReadClock
  PROVE  ScanInv'
  <1> DEFINE u == main.valve
             newDay == minute = 0 /\ timeselect[u] > 0 /\ minindayos = 0
  <1>1. /\ main.at = "call" /\ main'.at = "block" /\ main'.valve = u /\ main'.slot = 1
        /\ main'.day = day /\ main'.minute = minute /\ main'.fresh
    BY ScanTypes DEF ReadClock, MainState
  <1>2. UNCHANGED <<hour_parm, day, minute, passes, dirty, taken, open>>
    BY DEF ReadClock, memVars, clockVars, plantVars
  <1>3. /\ newDay => /\ minindayos' = 1 /\ trusted' = trusted \union {u}
                     /\ timeselect' = [timeselect EXCEPT ![u] = 0]
        /\ ~newDay => /\ minute = 0 => minindayos' = minindayos
                      /\ trusted' = trusted /\ timeselect' = timeselect
    BY DEF ReadClock
  <1>4. CallInv
    BY DEF ScanInv
  <1>5. \A v \in Valve : timeselect'[v] = IF newDay /\ v = u THEN 0 ELSE timeselect[v]
    BY <1>3, ScanTypes
  <1>6. \A v \in Valve : v \in trusted' <=> v \in trusted \/ (newDay /\ v = u)
    BY <1>3, ScanTypes
  <1>7. CallInv'
    <2>1. \A v \in trusted' : timeselect'[v] \in 0 .. NSlot
      BY <1>3, <1>4, <1>5, <1>6, ScanTypes DEF CallInv
    <2>2. \A v \in Valve \ trusted' : timeselect'[v] # 0
      BY <1>1, <1>4, <1>5, <1>6 DEF CallInv
    <2> QED
      BY <1>1, <1>2, <2>1, <2>2 DEF CallInv
  <1>8. ASSUME ~dirty', NEW v \in Valve PROVE Scan(v)'
    <2>1. Scan(v) /\ passes'[v] = passes[v] /\ passes[v] \in Nat
      BY <1>2, <1>8, ScanTypes DEF ScanInv
    <2>2. ~InCall(v) /\ (InCall(v)' <=> v = u)
      BY <1>1 DEF InCall
    <2>3. \A k \in Slot : ~Past(k)'
      BY <1>1, ScanTypes DEF Past, Slot
    <2>4. minute' = 0 /\ v \notin trusted' /\ Seen(v)' => minindayos' = 1
      <3>1. timeselect[v] \in Nat /\ (v \notin trusted => timeselect[v] # 0)
        BY <1>1, <1>4, ScanTypes DEF CallInv, Byte
      <3>2. CASE v = u
        BY <1>2, <1>3, <1>6, <3>1, <3>2, ScanTypes
      <3>3. CASE v # u
        BY <1>2, <1>3, <1>6, <2>1, <2>2, <3>3 DEF Scan, Seen
      <3> QED
        BY <3>2, <3>3
    <2>a. (\A k \in Slot : Now(v, k)' <=> Now(v, k)) /\ (Due(v)' <=> Due(v))
      BY <1>2 DEF Now, InWindow, Due, Waters
    <2>5. \A k \in Slot : timeselect'[v] = k /\ Seen(v)' /\ (passes'[v] >= 1 \/ Past(k)')
                            => Now(v, k)'
      <3>1. \A k \in Slot : timeselect'[v] = k => timeselect[v] = k
        BY <1>5, ScanTypes
      <3> QED
        BY <2>1, <2>3, <2>a, <3>1 DEF Scan, Seen
    <2>6. passes[v] >= 1 /\ v \in trusted' => v \in trusted
      <3>1. minute = 0 /\ v \notin trusted /\ passes[v] >= 1 => minindayos = 1
        BY <2>1 DEF Scan, Seen
      <3> QED
        BY <1>6, <3>1
    <2>7. passes'[v] >= 2 /\ v \in trusted' /\ ~taken' /\ Due(v)' => v \in open'
      BY <1>2, <2>1, <2>6, <2>a DEF Scan
    <2> QED
      BY <1>1, <2>2, <2>3, <2>4, <2>5, <2>7 DEF Scan
  <1> QED
    BY <1>7, <1>8 DEF ScanInv

\* Windows stay, and the call stays at its window: Scan(v) can only change for
\* the valve of the call.
LEMMA ScanOther ==
  ASSUME NEW v \in Valve, v # main.valve, Scan(v), main'.valve = main.valve,
         UNCHANGED <<hour_parm, day, minute, passes, minindayos>>,
         timeselect'[v] = timeselect[v], v \in trusted' <=> v \in trusted,
         ~taken' => ~taken /\ (v \in open' <=> v \in open)
  PROVE  Scan(v)'
  <1>1. (\A k \in Slot : Now(v, k)' <=> Now(v, k)) /\ (Due(v)' <=> Due(v))
    BY DEF Now, InWindow, Due, Waters
  <1>2. /\ ~InCall(v) /\ ~InCall(v)' /\ passes'[v] = passes[v]
        /\ Seen(v) <=> passes[v] >= 1
        /\ Seen(v)' <=> passes'[v] >= 1
    BY DEF InCall, Seen
  <1> QED
    BY <1>1, <1>2 DEF Scan

\* A window that is due is selected if nothing is, and stays selected once this
\* minute's first call is over; so no closing pulse begins after that.
LEMMA ScanPulse ==
  ASSUME TypeOK, ScanInv, OpenForWindow \/ CloseAfterWindow
  PROVE  ScanInv'
  <1> DEFINE u == main.valve
             k0 == main.slot
  <1>1. /\ main.at = "block" /\ main'.at \in {"raise", "pulse"} /\ main'.valve = u
        /\ main'.slot = k0 /\ main'.fresh = main.fresh
        /\ main'.day = main.day /\ main'.minute = main.minute
        /\ main'.coil = IF OpenForWindow THEN "Open" ELSE "Close"
    BY ScanTypes DEF OpenForWindow, CloseAfterWindow, StartPulse, MainState
  <1>2. UNCHANGED <<hour_parm, day, minute, passes, dirty, taken, open, minindayos>>
    BY DEF OpenForWindow, CloseAfterWindow, memVars, clockVars, plantVars
  <1>3. /\ OpenForWindow => /\ InThisWindow /\ timeselect[u] = 0 /\ timeselect'[u] = k0
                            /\ trusted' = trusted
        /\ ~OpenForWindow => /\ ~InThisWindow /\ timeselect[u] = k0 /\ timeselect'[u] = 0
                             /\ trusted' = trusted \union {u}
        /\ \A v \in Valve \ {u} : timeselect'[v] = timeselect[v]
    BY ScanTypes DEF OpenForWindow, CloseAfterWindow
  <1>4. CallInv /\ u \in Valve /\ k0 \in Slot /\ k0 \in Nat /\ k0 # 0 /\ k0 <= NSlot /\ NSlot \in Nat
    BY ScanTypes DEF ScanInv
  <1>5. CallInv'
    <2>1. \A v \in trusted' : timeselect'[v] \in 0 .. NSlot
      BY <1>3, <1>4, ScanTypes DEF CallInv
    <2>2. \A v \in Valve \ trusted' : timeselect'[v] # 0
      BY <1>1, <1>3, <1>4 DEF CallInv
    <2> QED
      BY <1>1, <1>2, <1>4, <2>1, <2>2 DEF CallInv
  <1>6. ASSUME ~dirty', NEW v \in Valve PROVE Scan(v)'
    <2>1. Scan(v)
      BY <1>2, <1>6 DEF ScanInv
    <2>2. CASE v # u
      BY <1>1, <1>2, <1>3, <2>1, <2>2, ScanOther
    <2>3. CASE v = u
      <3>1. /\ InCall(v) /\ InCall(v)' /\ (Seen(v)' <=> Seen(v))
            /\ passes[v] >= 1 => main.fresh
        BY <1>1, <1>2, <2>1, <2>3 DEF InCall, Seen, Scan
      <3>2. (\A k \in Slot : Now(v, k)' <=> Now(v, k)) /\ (Due(v)' <=> Due(v))
        BY <1>2 DEF Now, InWindow, Due, Waters
      <3>3. main.fresh => (InThisWindow <=> Now(v, k0))
        BY <1>4, <2>3 DEF CallInv, InThisWindow, Now
      <3>4. \A k \in Slot : /\ Past(k) <=> k < k0
                           /\ Past(k)' <=> k < k0 \/ k = k0
        BY <1>1 DEF Past
      <3>5. passes[v] >= 1 => OpenForWindow
        <4>1. passes[v] >= 1 /\ timeselect[v] = k0 => Now(v, k0)
          BY <1>4, <2>1 DEF Scan, Seen
        <4> QED
          BY <1>3, <2>3, <3>1, <3>3, <4>1
      <3>6. minute' = 0 /\ v \notin trusted' /\ Seen(v)' => minindayos' = 1
        BY <1>2, <1>3, <2>1, <3>1 DEF Scan
      <3>7. Seen(v) => main.fresh
        BY <3>1 DEF Seen
      <3>8. \A k \in Slot : timeselect'[v] = k /\ Seen(v)' => Now(v, k)'
        BY <1>3, <1>4, <2>3, <3>1, <3>2, <3>3, <3>7, ScanTypes
      <3>9. passes'[v] >= 1 => main'.coil = "Open" /\ timeselect'[v] # 0
        BY <1>1, <1>2, <1>3, <1>4, <2>3, <3>5
      <3>10. passes'[v] >= 2 /\ v \in trusted' /\ ~taken' /\ Due(v)' => v \in open'
        <4>1. passes[v] \in Nat
          BY ScanTypes
        <4> QED
          BY <1>2, <1>3, <2>1, <3>2, <3>5, <4>1 DEF Scan
      <3> QED
        BY <1>1, <1>2, <3>1, <3>6, <3>8, <3>9, <3>10 DEF Scan
    <2> QED
      BY <2>2, <2>3
  <1> QED
    BY <1>5, <1>6 DEF ScanInv

\* The window's test and pulse are over: on to the next window, or the next
\* call.  After a second call whatever is due has been found selected.
LEMMA ScanAdvance ==
  ASSUME TypeOK, PulseInv, ScanInv, Advance, main.at \in {"block", "pulse", "lower"},
         UNCHANGED <<hour_parm, day, minute, timeselect, minindayos, dirty, trusted, taken>>,
         ~taken => open' = open,
         ~dirty /\ main.fresh =>
            /\ timeselect[main.valve] = main.slot => Now(main.valve, main.slot)
            /\ passes[main.valve] >= 1 /\ timeselect[main.valve] = 0
                  => ~Now(main.valve, main.slot)
  PROVE  ScanInv'
  <1> DEFINE u == main.valve
             k0 == main.slot
  <1>1. /\ CallInv /\ u \in Valve /\ k0 \in Slot /\ k0 \in Nat /\ NSlot \in Nat /\ k0 <= NSlot
        /\ main.fresh \in BOOLEAN /\ passes \in [Valve -> 0 .. MinPasses]
        /\ main \in MainState /\ Slot \subseteq Nat /\ \A k \in Slot : k # 0 /\ k <= NSlot
    BY ScanTypes DEF ScanInv
  <1>2. CASE k0 < NSlot
    <2>1. /\ main'.at = "block" /\ main'.valve = u /\ main'.slot = k0 + 1
          /\ main'.fresh = main.fresh /\ main'.day = main.day /\ main'.minute = main.minute
          /\ passes' = passes
      BY <1>1, <1>2 DEF Advance, MainState
    <2>2. CallInv'
      BY <1>1, <2>1 DEF CallInv
    <2>3. ASSUME ~dirty', NEW v \in Valve PROVE Scan(v)'
      <3>1. Scan(v)
        BY <2>3 DEF ScanInv
      <3>2. CASE v # u
        BY <2>1, <3>1, <3>2, ScanOther
      <3>3. CASE v = u
        <4>1. /\ InCall(v) /\ InCall(v)' /\ (Seen(v)' <=> Seen(v)) /\ (Seen(v) => main.fresh)
              /\ passes[v] >= 1 => main.fresh
          BY <2>1, <3>1, <3>3 DEF InCall, Seen, Scan
        <4>2. (\A k \in Slot : Now(v, k)' <=> Now(v, k)) /\ (Due(v)' <=> Due(v))
          BY DEF Now, InWindow, Due, Waters
        <4>3. \A k \in Slot : Past(k)' => Past(k) \/ k = k0
          BY <1>1, <2>1 DEF Past
        <4>4. \A k \in Slot : timeselect'[v] = k /\ Seen(v)' /\ (passes'[v] >= 1 \/ Past(k)')
                               => Now(v, k)'
          BY <2>1, <2>3, <3>1, <3>3, <4>1, <4>2, <4>3 DEF Scan
        <4>5. passes'[v] >= 1 /\ timeselect'[v] = 0 => \A k \in Slot : Past(k)' => ~Now(v, k)'
          BY <2>1, <2>3, <3>1, <3>3, <4>1, <4>2, <4>3 DEF Scan
        <4> QED
          BY <2>1, <3>1, <4>1, <4>2, <4>4, <4>5 DEF Scan
      <3> QED
        BY <3>2, <3>3
    <2> QED
      BY <2>2, <2>3 DEF ScanInv
  <1>3. CASE ~(k0 < NSlot)
    <2>1. main'.at = "call" /\ ~main'.fresh
      BY <1>3 DEF Advance, AtCall
    <2>2. passes' = [passes EXCEPT ![u] = IF main.fresh /\ @ < MinPasses THEN @ + 1 ELSE @]
      BY <1>3 DEF Advance
    <2>3. CallInv'
      BY <1>1, <2>1 DEF CallInv
    <2>4. ASSUME ~dirty', NEW v \in Valve PROVE Scan(v)'
      <3>1. Scan(v) /\ ~InCall(v)'
        BY <2>1, <2>4 DEF ScanInv, InCall
      <3>2. (\A k \in Slot : Now(v, k)' <=> Now(v, k)) /\ (Due(v)' <=> Due(v))
        BY DEF Now, InWindow, Due, Waters
      <3>a. /\ passes'[v] \in Nat /\ passes[v] \in Nat
            /\ v # u \/ ~main.fresh => passes'[v] = passes[v]
            /\ v = u => passes'[v] \in {passes[v], passes[v] + 1}
        BY <1>1, <2>2, ScanTypes
      <3>3. CASE v # u \/ ~main.fresh
        <4>1. /\ passes'[v] = passes[v] /\ (Seen(v)' <=> passes'[v] >= 1)
              /\ passes[v] >= 1 => Seen(v)
          BY <3>a, <3>1, <3>3 DEF Seen
        <4> QED
          BY <3>1, <3>2, <4>1 DEF Scan
      <3>4. CASE v = u /\ main.fresh
        <4>1. InCall(v) /\ Seen(v)
          BY <3>4 DEF InCall, Seen
        <4>2. \A k \in Slot : Past(k) \/ k = k0
          BY <1>1, <1>3 DEF Past
        <4>3. minute' = 0 /\ v \notin trusted' => minindayos' = 1
          BY <3>1, <4>1 DEF Scan
        <4>4. \A k \in Slot : timeselect'[v] = k => Now(v, k)'
          <5>1. timeselect[v] = k0 => Now(v, k0)
            BY <2>4, <3>4
          <5>2. \A k \in Slot : timeselect[v] = k => Now(v, k)
            BY <1>1, <3>1, <4>1, <4>2, <5>1 DEF Scan
          <5> QED
            BY <3>2, <5>2
        <4>5. passes'[v] >= 2 => passes[v] >= 1
          BY <3>a, <3>4
        <4>6. passes'[v] >= 2 /\ timeselect[v] = 0 => ~Due(v)
          BY <2>4, <3>1, <3>4, <4>1, <4>2, <4>5, DueIsNow DEF Scan
        <4>7. v \in trusted /\ ~taken /\ timeselect[v] # 0 => v \in open'
          BY DEF PulseInv, OpeningNow
        <4> QED
          BY <3>1, <3>2, <4>3, <4>4, <4>6, <4>7 DEF Scan
      <3> QED
        BY <3>3, <3>4
    <2> QED
      BY <2>3, <2>4 DEF ScanInv
  <1> QED
    BY <1>2, <1>3

LEMMA ScanSkip ==
  ASSUME TypeOK, PulseInv, ScanInv, SkipWindow
  PROVE  ScanInv'
  <1>1. /\ main.at = "block" /\ Advance
        /\ UNCHANGED <<hour_parm, day, minute, timeselect, minindayos, dirty, trusted, taken,
                       open>>
    BY DEF SkipWindow, memVars, clockVars, plantVars
  <1>2. main.fresh => (InThisWindow <=> Now(main.valve, main.slot))
    BY DEF ScanInv, CallInv, InThisWindow, Now
  <1>3. /\ timeselect[main.valve] = main.slot => InThisWindow
        /\ timeselect[main.valve] = 0 => ~InThisWindow
    BY DEF SkipWindow
  <1> QED
    BY <1>1, <1>2, <1>3, ScanAdvance

\* After a pulse the window's test lies behind.
LEMMA ScanTested ==
  ASSUME TypeOK, ScanInv, main.at \in {"pulse", "lower"}, ~dirty, main.fresh
  PROVE  /\ timeselect[main.valve] = main.slot => Now(main.valve, main.slot)
         /\ passes[main.valve] >= 1 /\ timeselect[main.valve] = 0
               => ~Now(main.valve, main.slot)
  <1>1. Scan(main.valve) /\ InCall(main.valve) /\ main.slot \in Slot
    BY ScanTypes DEF ScanInv, InCall
  <1>2. Past(main.slot) /\ Seen(main.valve)
    BY <1>1 DEF Past, Seen
  <1> QED
    BY <1>1, <1>2 DEF Scan

LEMMA ScanLower ==
  ASSUME TypeOK, PulseInv, ScanInv, Lower
  PROVE  ScanInv'
  <1>1. /\ main.at = "lower" /\ Advance
        /\ UNCHANGED <<hour_parm, day, minute, timeselect, minindayos, dirty, trusted, taken>>
    BY DEF Lower, memVars, clockVars
  <1>2. ~taken => open' = open
    <2>1. ~taken => energised \subseteq {<<main.valve, main.coil>>}
      BY <1>1 DEF PulseInv, PulsedCoil
    <2>2. <<main.valve, main.coil>> \in Valve \X Coil
      BY ScanTypes
    <2> QED
      BY <2>1, <2>2, LowerKeeps DEF Lower
  <1> QED
    BY <1>1, <1>2, ScanTested, ScanAdvance

\* A pulse that begins, or goes on: nothing of the call's course changes.
LEMMA ScanWithin ==
  ASSUME TypeOK, PulseInv, ScanInv, main.at \in {"raise", "pulse"},
         main' = [main EXCEPT !.at = IF main.at = "raise" THEN "pulse" ELSE "lower"],
         UNCHANGED <<hour_parm, day, minute, timeselect, minindayos, passes, dirty, trusted,
                     taken>>,
         ~taken => \A v \in Valve : \/ v \in open' <=> v \in open
                                    \/ v = main.valve /\ main.coil = "Close"
                                    \/ v \in open'
  PROVE  ScanInv'
  <1>1. /\ main'.at \in {"pulse", "lower"} /\ main'.valve = main.valve
        /\ main'.slot = main.slot /\ main'.fresh = main.fresh /\ main'.coil = main.coil
        /\ main'.day = main.day /\ main'.minute = main.minute
    BY ScanTypes DEF MainState
  <1>2. CallInv'
    BY <1>1 DEF ScanInv, CallInv
  <1>3. ASSUME ~dirty', NEW v \in Valve PROVE Scan(v)'
    <2>1. Scan(v)
      BY <1>3 DEF ScanInv
    <2>2. (\A k \in Slot : Now(v, k)' <=> Now(v, k)) /\ (Due(v)' <=> Due(v))
      BY DEF Now, InWindow, Due, Waters
    <2>3. /\ InCall(v)' <=> InCall(v)
          /\ Seen(v)' <=> Seen(v)
          /\ \A k \in Slot : Past(k)' <=> Past(k)
      BY <1>1 DEF InCall, Seen, Past
    <2>4. passes[v] >= 1 /\ v = main.valve => main.coil = "Open"
      BY <2>1 DEF Scan, InCall
    <2>5. passes[v] >= 2 => passes[v] >= 1
      BY ScanTypes
    <2>6. passes[v] >= 2 /\ ~taken /\ v \in open => v \in open'
      BY <2>4, <2>5
    <2> QED
      BY <1>1, <2>1, <2>2, <2>3, <2>6 DEF Scan
  <1> QED
    BY <1>2, <1>3 DEF ScanInv

LEMMA ScanRaise ==
  ASSUME TypeOK, PulseInv, ScanInv, Raise
  PROVE  ScanInv'
  <1>1. /\ main.at = "raise" /\ main' = [main EXCEPT !.at = "pulse"]
        /\ UNCHANGED <<hour_parm, day, minute, timeselect, minindayos, passes, dirty, trusted,
                       taken>>
    BY DEF Raise, memVars, clockVars
  <1>2. ~taken => energised = {}
    BY <1>1 DEF PulseInv, PulsedCoil
  <1>3. ~taken => /\ main.coil = "Open" => main.valve \in open'
                  /\ \A w \in Valve \ {main.valve} : w \in open' <=> w \in open
    BY <1>2, RaiseMoves, ScanTypes DEF Raise
  <1>4. main.coil \in {"Open", "Close"}
    BY ScanTypes DEF Coil
  <1> QED
    BY <1>1, <1>3, <1>4, ScanWithin

LEMMA ScanDelay ==
  ASSUME TypeOK, PulseInv, ScanInv, EndDelay
  PROVE  ScanInv'
  <1>1. /\ main.at = "pulse"
        /\ UNCHANGED <<hour_parm, day, minute, timeselect, minindayos, dirty, trusted, taken,
                       open>>
    BY DEF EndDelay, memVars, clockVars, plantVars
  <1>2. CASE main' = [main EXCEPT !.at = "lower"] /\ UNCHANGED passes
    BY <1>1, <1>2, ScanWithin
  <1>3. CASE Advance
    BY <1>1, <1>3, ScanTested, ScanAdvance
  <1> QED
    BY <1>2, <1>3 DEF EndDelay

LEMMA InitScan == Init => ScanInv
  <1> SUFFICES ASSUME Init PROVE ScanInv
    OBVIOUS
  <1>1. /\ main.at = "boot" /\ ~main.fresh /\ trusted = {}
        /\ \A v \in Valve : passes[v] = 0
    BY DEF Init, Booting
  <1> QED
    BY <1>1 DEF ScanInv, CallInv, Scan, Seen, InCall

LEMMA NextScan == TypeOK /\ PulseInv /\ ScanInv /\ [Next]_vars => ScanInv'
  <1> SUFFICES ASSUME TypeOK, PulseInv, ScanInv, [Next]_vars PROVE ScanInv'
    OBVIOUS
  <1>1. CASE Main
    BY <1>1, ScanMemory, ScanRead, ScanPulse, ScanSkip, ScanRaise, ScanDelay, ScanLower DEF Main
  <1>2. CASE Tick
    BY <1>2, ScanAnew DEF Tick
  <1>3. CASE SntpSetsClock
    BY <1>3, ScanAnew DEF SntpSetsClock, SetClock
  <1>4. CASE BeginSave
    BY <1>4, ScanAnew DEF BeginSave, SetClock
  <1>5. CASE WriteField
    <2>1. /\ dirty' /\ UNCHANGED <<main, timeselect, trusted, passes, day, minute>>
      BY <1>5 DEF WriteField, clockVars
    <2> QED
      BY <2>1 DEF ScanInv, CallInv
  <1>6. CASE EndSave
    BY <1>6, ScanQuiet DEF EndSave, clockVars, plantVars
  <1>7. CASE Uart
    <2>1. CASE SET_IO_VAL
      BY <2>1, ScanQuiet DEF SET_IO_VAL, memVars, clockVars, plantVars
    <2>2. CASE SET_IO_VAL_write
      <3>1. ~taken => open' = open
        BY <2>2 DEF SET_IO_VAL_write, PulseInv, plantVars
      <3> QED
        BY <2>2, <3>1, ScanQuiet DEF SET_IO_VAL_write, memVars, clockVars
    <2>3. CASE ReadHours
      BY <2>3, ScanQuiet DEF ReadHours, clockVars, plantVars
    <2> QED
      BY <1>7, <2>1, <2>2, <2>3 DEF Uart
  <1>8. CASE UNCHANGED vars
    BY <1>8, ScanQuiet DEF vars
  <1> QED
    BY <1>1, <1>2, <1>3, <1>4, <1>5, <1>6, <1>7, <1>8, ScanReboot DEF Next, Web

LEMMA ScanInvariant == Spec => []ScanInv
  BY InitScan, NextScan, PulseInvariant, TypeCorrect, PTL DEF Spec

\* If a minute leaves time for two calls: for any tables, midnight included, any
\* saves, clocks and restarts, two undisturbed calls leave every valve whose
\* selection is this boot's own open when a window is due, and otherwise not
\* selected.
THEOREM DueServed == MinPasses >= 2 => (Spec => []DueIsOpen)
  <1> SUFFICES ASSUME MinPasses >= 2 PROVE Spec => []DueIsOpen
    OBVIOUS
  <1>1. TypeOK /\ ScanInv => DueIsOpen
    <2> SUFFICES ASSUME TypeOK, ScanInv, ~taken, NEW v \in trusted, Settled(v)
                 PROVE  IF Due(v) THEN v \in open ELSE timeselect[v] = 0
      BY DEF DueIsOpen
    <2>1. /\ v \in Valve /\ Scan(v) /\ passes[v] >= 2 /\ passes[v] >= 1
          /\ timeselect[v] \in 0 .. NSlot
      BY ScanTypes DEF Settled, ScanInv, CallInv
    <2>2. timeselect[v] # 0 => Due(v)
      <3>1. timeselect[v] # 0 => timeselect[v] \in Slot
        BY <2>1, SizesAssumption DEF Slot
      <3> QED
        BY <2>1, <3>1, DueIsNow DEF Scan, Seen
    <2> QED
      BY <2>1, <2>2 DEF Scan
  <1> QED
    BY <1>1, ScanInvariant, TypeCorrect, PTL
-----------------------------------------------------------------------------
(***************************************************************************)
(* Windows that end before the last minute of the day.  Nothing is then    *)
(* selected when minute 0 comes, so that what a second call in minute 0    *)
(* forgets it selects again before it returns, and no valve is forgotten   *)
(* while it is open.                                                       *)
(***************************************************************************)
LastMinute == MinutesPerDay - 1

EndsBefore(hours) == \A v \in Valve, d \in Day, k \in Slot :
    ~(/\ hours[v][d][k]["StartHour"] <= LastMinute
      /\ LastMinute < hours[v][d][k]["StartHour"] + hours[v][d][k]["Duration"])

\* Two calls fit in a minute; no restart, no save, no clock set; the device comes
\* with such a table and nothing selected.  The server may do what it likes.
Undisturbed ==
    /\ MinPasses >= 2 /\ MaxBoots = 0 /\ SaveRequests = {} /\ ClockSteps = {}
    /\ \A b \in (FactoryMemory \ {NoBlob}) \union HeapGarbage :
          b.select = EmptyBlob.select /\ EndsBefore(b.hours)

ClosingNow(v) == main.at = "raise" /\ main.valve = v /\ main.coil = "Close"

\* This call forgot valve v, and will find its window again.
Pending(v) == /\ main.valve = v /\ main.at = "block"
              /\ \E k \in Slot : k >= main.slot /\ InWindow(v, main.day, main.minute, k)

FollowInv ==
    /\ ~dirty /\ web.at = "idle" /\ EndsBefore(hour_parm)
    /\ main.at = "boot" => /\ hour_parm = EmptyBlob.hours /\ timeselect = EmptyBlob.select
                           /\ nvs \in FactoryMemory \union {EmptyBlob}
    /\ main.at # "boot" => trusted = Valve
    /\ minute = 0 => \A v \in Valve : \A k \in Slot : timeselect[v] = k => Now(v, k)
    /\ minute = 0 /\ main.at \notin {"boot", "call"} /\ ~main.fresh => main.minute = LastMinute
    /\ main.at = "raise" /\ main.coil = "Open" => timeselect[main.valve] # 0
    /\ ~taken => \A v \in open : timeselect[v] # 0 \/ ClosingNow(v) \/ Pending(v)

LEMMA EmptyEnds == EndsBefore(EmptyBlob.hours) /\ \A v \in Valve : EmptyBlob.select[v] = 0
  <1>1. LastMinute \in Int
    BY SizesAssumption DEF LastMinute
  <1>2. \A v \in Valve, d \in Day, k \in Slot :
            /\ EmptyBlob.hours[v][d][k]["StartHour"] = 0
            /\ EmptyBlob.hours[v][d][k]["Duration"] = 0
    BY DEF EmptyBlob, Part
  <1>3. EndsBefore(EmptyBlob.hours)
    BY <1>1, <1>2 DEF EndsBefore
  <1> QED
    BY <1>3 DEF EmptyBlob

\* No window holds the last minute.
LEMMA NotLast ==
  ASSUME EndsBefore(hour_parm), NEW v \in Valve, NEW d \in Day, NEW k \in Slot
  PROVE  ~InWindow(v, d, LastMinute, k)
  BY DEF EndsBefore, InWindow

LEMMA InitFollow == Undisturbed /\ Init => FollowInv
  <1> SUFFICES ASSUME Undisturbed, Init PROVE FollowInv
    OBVIOUS
  <1>1. /\ main.at = "boot" /\ open = {} /\ hour_parm = EmptyBlob.hours /\ ~dirty
        /\ timeselect = EmptyBlob.select /\ nvs \in FactoryMemory /\ web.at = "idle"
    BY DEF Init, Booting, WebIdle
  <1>2. \A v \in Valve : \A k \in Slot : timeselect[v] # k
    BY <1>1, EmptyEnds, SizesAssumption DEF Slot
  <1> QED
    BY <1>1, <1>2, EmptyEnds DEF FollowInv

\* A step that leaves the schedule alone.
LEMMA FollowQuiet ==
  ASSUME FollowInv,
         UNCHANGED <<hour_parm, day, minute, main, timeselect, dirty, trusted, web>>,
         main.at = "boot" => nvs' \in {nvs, EmptyBlob},
         ~taken' => ~taken /\ open' = open
  PROVE  FollowInv'
  <1>1. \A v \in Valve : \A k \in Slot : Now(v, k)' <=> Now(v, k)
    BY DEF Now, InWindow
  <1>2. ~taken' => \A v \in open' : timeselect'[v] # 0 \/ ClosingNow(v)' \/ Pending(v)'
    BY DEF FollowInv, ClosingNow, Pending, InWindow
  <1>3. minute' = 0 => \A v \in Valve : \A k \in Slot : timeselect'[v] = k => Now(v, k)'
    BY DEF FollowInv, Now, InWindow
  <1> QED
    BY <1>2, <1>3 DEF FollowInv

LEMMA FollowMemory ==
  ASSUME TypeOK, Undisturbed, FollowInv, memory_init
  PROVE  FollowInv'
  <1>1. /\ main.at = "boot" /\ main'.at = "call" /\ UNCHANGED <<dirty, web, open, taken>>
        /\ trusted' = {v \in Valve : timeselect'[v] = 0}
    BY DEF memory_init, AtCall, plantVars
  <1>2. /\ nvs \in FactoryMemory \union {EmptyBlob}
        /\ hour_parm = EmptyBlob.hours /\ timeselect = EmptyBlob.select
    BY <1>1 DEF FollowInv
  <1>3. PICK b \in LoadedBlobs(nvs) : hour_parm' = b.hours /\ timeselect' = b.select
    BY DEF memory_init
  <1>4. EndsBefore(b.hours) /\ b.select = EmptyBlob.select
    BY <1>2, EmptyEnds DEF LoadedBlobs, Undisturbed
  <1>5. \A v \in Valve : timeselect'[v] = 0 /\ \A k \in Slot : timeselect'[v] # k
    BY <1>3, <1>4, EmptyEnds, SizesAssumption DEF Slot
  <1>6. trusted' = Valve
    BY <1>1, <1>5
  <1>7. ~taken => open = {}
    <2>1. open \subseteq Valve
      BY DEF TypeOK
    <2> QED
      BY <1>1, <1>2, <2>1, EmptyEnds DEF FollowInv, ClosingNow, Pending
  <1>8. EndsBefore(hour_parm')
    BY <1>3, <1>4
  <1> QED
    BY <1>1, <1>5, <1>6, <1>7, <1>8 DEF FollowInv

LEMMA FollowRead ==
  ASSUME TypeOK, ScanInv, FollowInv, ReadClock
  PROVE  FollowInv'
  <1> DEFINE u == main.valve
             newDay == minute = 0 /\ timeselect[u] > 0 /\ minindayos = 0
  <1>1. /\ main.at = "call" /\ main'.at = "block" /\ main'.valve = u /\ main'.slot = 1
        /\ main'.day = day /\ main'.minute = minute /\ main'.fresh
        /\ u \in Valve /\ trusted = Valve
    BY ScanTypes DEF ReadClock, MainState, FollowInv
  <1>2. UNCHANGED <<hour_parm, day, minute, dirty, web, open, taken>>
    BY DEF ReadClock, memVars, clockVars, plantVars
  <1>3. trusted' = Valve
    BY <1>1 DEF ReadClock
  <1>4. /\ newDay => timeselect' = [timeselect EXCEPT ![u] = 0]
        /\ ~newDay => timeselect' = timeselect
    BY DEF ReadClock
  <1>5. \A v \in Valve : timeselect'[v] = IF newDay /\ v = u THEN 0 ELSE timeselect[v]
    BY <1>4, ScanTypes
  <1>6. minute' = 0 => \A v \in Valve : \A k \in Slot : timeselect'[v] = k => Now(v, k)'
    <2> SUFFICES ASSUME minute' = 0, NEW v \in Valve, NEW k \in Slot, timeselect'[v] = k
                 PROVE  Now(v, k)'
      OBVIOUS
    <2>1. timeselect[v] = k
      BY <1>5, ScanTypes
    <2>2. Now(v, k)
      BY <1>2, <2>1 DEF FollowInv
    <2> QED
      BY <1>2, <2>2 DEF Now, InWindow
  <1>7. ASSUME ~taken', NEW v \in open'
        PROVE  timeselect'[v] # 0 \/ Pending(v)'
    <2>1. v \in Valve /\ timeselect[v] # 0
      BY <1>1, <1>2, <1>7 DEF FollowInv, ClosingNow, Pending, TypeOK
    <2>2. CASE newDay /\ v = u
      <3>1. PICK k \in Slot : timeselect[v] = k
        BY <1>1, <2>1, SizesAssumption DEF ScanInv, CallInv, Slot
      <3>2. InWindow(v, day, minute, k)
        BY <2>1, <2>2, <3>1 DEF FollowInv, Now
      <3>3. InWindow(v, main.day, main.minute, k)'
        BY <1>1, <1>2, <3>2 DEF InWindow
      <3>4. k >= 1
        BY <3>1, SizesAssumption DEF Slot
      <3> QED
        BY <1>1, <2>2, <3>3, <3>4 DEF Pending
    <2>3. CASE ~(newDay /\ v = u)
      BY <1>5, <2>1, <2>3
    <2> QED
      BY <2>2, <2>3
  <1> QED
    BY <1>1, <1>2, <1>3, <1>6, <1>7 DEF FollowInv

\* The main task's clock shows the minute it is, or one without a window.
LEMMA MainNow ==
  ASSUME ScanInv, FollowInv, InThisWindow, minute = 0, main.at = "block",
         main.valve \in Valve, main.slot \in Slot, main.day \in Day
  PROVE  Now(main.valve, main.slot)
  <1>1. CASE main.fresh
    BY <1>1 DEF ScanInv, CallInv, InThisWindow, Now
  <1>2. CASE ~main.fresh
    <2>1. main.minute = LastMinute /\ EndsBefore(hour_parm)
      BY <1>2 DEF FollowInv
    <2>2. ~InWindow(main.valve, main.day, LastMinute, main.slot)
      BY <2>1, NotLast
    <2> QED
      BY <2>1, <2>2 DEF InThisWindow
  <1> QED
    BY <1>1, <1>2

LEMMA FollowPulse ==
  ASSUME TypeOK, PulseInv, ScanInv, FollowInv, OpenForWindow \/ CloseAfterWindow
  PROVE  FollowInv'
  <1> DEFINE u == main.valve
             k0 == main.slot
  <1>1. /\ main.at = "block" /\ main'.at = (IF io_dig_mode = 0 THEN "raise" ELSE "pulse")
        /\ main'.valve = u /\ main'.slot = k0 /\ main'.fresh = main.fresh
        /\ main'.day = main.day /\ main'.minute = main.minute
        /\ main'.coil = IF OpenForWindow THEN "Open" ELSE "Close"
    BY ScanTypes DEF OpenForWindow, CloseAfterWindow, StartPulse, MainState
  <1>2. UNCHANGED <<hour_parm, day, minute, dirty, web, open, taken>>
    BY DEF OpenForWindow, CloseAfterWindow, memVars, clockVars, plantVars
  <1>3. /\ OpenForWindow => InThisWindow /\ timeselect'[u] = k0
        /\ ~OpenForWindow => timeselect'[u] = 0
        /\ \A v \in Valve \ {u} : timeselect'[v] = timeselect[v]
        /\ trusted' = Valve
    BY <1>1, ScanTypes DEF OpenForWindow, CloseAfterWindow, FollowInv
  <1>4. u \in Valve /\ k0 \in Slot /\ k0 # 0 /\ main.day \in Day /\ \A k \in Slot : k # 0
    BY ScanTypes DEF MainState
  <1>5. minute' = 0 => \A v \in Valve : \A k \in Slot : timeselect'[v] = k => Now(v, k)'
    <2> SUFFICES ASSUME minute' = 0, NEW v \in Valve, NEW k \in Slot, timeselect'[v] = k
                 PROVE  Now(v, k)'
      OBVIOUS
    <2>1. CASE v = u
      <3>1. OpenForWindow /\ k = k0
        BY <1>3, <1>4, <2>1
      <3>2. Now(u, k0)
        BY <1>1, <1>2, <1>3, <1>4, <3>1, MainNow
      <3> QED
        BY <1>2, <2>1, <3>1, <3>2 DEF Now, InWindow
    <2>2. CASE v # u
      <3>1. Now(v, k)
        BY <1>2, <1>3, <2>2 DEF FollowInv
      <3> QED
        BY <1>2, <3>1 DEF Now, InWindow
    <2> QED
      BY <2>1, <2>2
  <1>6. ASSUME ~taken', NEW v \in open'
        PROVE  timeselect'[v] # 0 \/ ClosingNow(v)'
    <2>1. io_dig_mode = 0 /\ v \in Valve
      BY <1>2, <1>6 DEF PulseInv, TypeOK
    <2>2. CASE v = u
      BY <1>1, <1>3, <1>4, <2>1, <2>2 DEF ClosingNow
    <2>3. CASE v # u
      BY <1>1, <1>2, <1>3, <1>6, <2>1, <2>3 DEF FollowInv, ClosingNow, Pending
    <2> QED
      BY <2>2, <2>3
  <1> QED
    BY <1>1, <1>2, <1>3, <1>4, <1>5, <1>6 DEF FollowInv
\* A step of a call that selects nothing, and leaves no valve open that is
\* neither selected nor about to be.
LEMMA FollowStay ==
  ASSUME FollowInv, main.at \notin {"boot", "call"}, main'.at \notin {"boot", "raise"},
         UNCHANGED <<hour_parm, day, minute, timeselect, trusted, dirty, web, taken>>,
         main'.at # "call" => main'.fresh = main.fresh /\ main'.minute = main.minute,
         ~taken => \A v \in open' : timeselect[v] # 0 \/ Pending(v)'
  PROVE  FollowInv'
  <1>1. minute' = 0 => \A v \in Valve : \A k \in Slot : timeselect'[v] = k => Now(v, k)'
    BY DEF FollowInv, Now, InWindow
  <1> QED
    BY <1>1 DEF FollowInv

\* Advance keeps the time the call has read.
LEMMA AdvanceStays ==
  ASSUME TypeOK, Advance
  PROVE  /\ main'.at \in {"block", "call"}
         /\ main'.at # "call" => main'.fresh = main.fresh /\ main'.minute = main.minute
         /\ main.slot < NSlot => /\ main'.at = "block" /\ main'.slot = main.slot + 1
                                 /\ main'.valve = main.valve /\ main'.day = main.day
                                 /\ main'.minute = main.minute
  <1>1. main \in MainState
    BY DEF TypeOK
  <1>2. CASE main.slot < NSlot
    <2>1. main' = [main EXCEPT !.at = "block", !.slot = main.slot + 1]
      BY <1>2 DEF Advance
    <2> QED
      BY <1>1, <2>1 DEF MainState
  <1>3. CASE ~(main.slot < NSlot)
    <2>1. main'.at = "call"
      BY <1>3 DEF Advance, AtCall
    <2> QED
      BY <1>3, <2>1
  <1> QED
    BY <1>2, <1>3

LEMMA FollowSkip ==
  ASSUME TypeOK, FollowInv, SkipWindow
  PROVE  FollowInv'
  <1>1. /\ main.at = "block" /\ Advance
        /\ UNCHANGED <<hour_parm, day, minute, timeselect, trusted, dirty, web, taken, open>>
    BY DEF SkipWindow, memVars, clockVars, plantVars
  <1>2. ASSUME ~taken, NEW v \in open', timeselect[v] = 0
        PROVE  Pending(v)'
    <2>1. Pending(v)
      BY <1>1, <1>2 DEF FollowInv, ClosingNow
    <2>2. PICK k \in Slot : k >= main.slot /\ InWindow(v, main.day, main.minute, k)
      BY <2>1 DEF Pending
    <2>3. v = main.valve /\ ~InThisWindow
      BY <1>2, <2>1 DEF Pending, SkipWindow
    <2>4. k # main.slot
      BY <2>2, <2>3 DEF InThisWindow
    <2>5. k >= main.slot + 1 /\ main.slot < NSlot
      <3>1. k \in Nat /\ k <= NSlot /\ main.slot \in Nat /\ NSlot \in Nat
        BY <2>2, ScanTypes
      <3> QED
        BY <2>2, <2>4, <3>1
    <2>6. InWindow(v, main.day, main.minute, k)'
      BY <1>1, <2>2, <2>5, AdvanceStays DEF InWindow
    <2> QED
      BY <1>1, <2>3, <2>5, <2>6, AdvanceStays DEF Pending
  <1> QED
    BY <1>1, <1>2, AdvanceStays, FollowStay

\* While a pulse lasts, every open valve is selected.
LEMMA OpenInPulse ==
  ASSUME FollowInv, main.at \in {"pulse", "lower"}, ~taken, NEW v \in open
  PROVE  timeselect[v] # 0
  BY DEF FollowInv, ClosingNow, Pending

LEMMA FollowDelay ==
  ASSUME TypeOK, FollowInv, EndDelay
  PROVE  FollowInv'
  <1>1. /\ main.at = "pulse"
        /\ UNCHANGED <<hour_parm, day, minute, timeselect, trusted, dirty, web, taken, open>>
    BY DEF EndDelay, memVars, clockVars, plantVars
  <1>2. ~taken => \A v \in open' : timeselect[v] # 0
    BY <1>1, OpenInPulse
  <1>3. CASE main' = [main EXCEPT !.at = "lower"]
    <2>1. main'.at = "lower" /\ main'.fresh = main.fresh /\ main'.minute = main.minute
      BY <1>3, ScanTypes DEF MainState
    <2> QED
      BY <1>1, <1>2, <2>1, FollowStay
  <1>4. CASE Advance
    BY <1>1, <1>2, <1>4, AdvanceStays, FollowStay
  <1> QED
    BY <1>3, <1>4 DEF EndDelay

LEMMA FollowLower ==
  ASSUME TypeOK, PulseInv, FollowInv, Lower
  PROVE  FollowInv'
  <1>1. /\ main.at = "lower" /\ Advance
        /\ UNCHANGED <<hour_parm, day, minute, timeselect, trusted, dirty, web, taken>>
    BY DEF Lower, memVars, clockVars
  <1>2. ~taken => open' = open
    <2>1. ~taken => energised \subseteq {<<main.valve, main.coil>>}
      BY <1>1 DEF PulseInv, PulsedCoil
    <2>2. <<main.valve, main.coil>> \in Valve \X Coil
      BY ScanTypes
    <2> QED
      BY <2>1, <2>2, LowerKeeps DEF Lower
  <1>3. ~taken => \A v \in open' : timeselect[v] # 0
    BY <1>1, <1>2, OpenInPulse
  <1> QED
    BY <1>1, <1>3, AdvanceStays, FollowStay

\* A closing coil alone closes its valve.
LEMMA RaiseCloses ==
  ASSUME NEW v \in Valve, energised' = {<<v, "Close">>}, open' \in Settle(energised')
  PROVE  v \notin open'
  <1>1. <<v, "Close">> \in energised' /\ <<v, "Open">> \notin energised'
    OBVIOUS
  <1> QED
    BY <1>1 DEF Settle

LEMMA FollowRaise ==
  ASSUME TypeOK, PulseInv, FollowInv, Raise
  PROVE  FollowInv'
  <1> DEFINE u == main.valve
  <1>1. /\ main.at = "raise" /\ main' = [main EXCEPT !.at = "pulse"]
        /\ ESPWriteToDigital({<<u, main.coil>>}, 1)
        /\ UNCHANGED <<hour_parm, day, minute, timeselect, trusted, dirty, web, taken>>
    BY DEF Raise, memVars, clockVars
  <1>2. main'.at = "pulse" /\ main'.fresh = main.fresh /\ main'.minute = main.minute
    BY <1>1, ScanTypes DEF MainState
  <1>3. u \in Valve /\ main.coil \in Coil /\ main.coil \in {"Open", "Close"}
    BY ScanTypes DEF Coil
  <1>4. ASSUME ~taken, NEW v \in open'
        PROVE  timeselect[v] # 0
    <2>1. /\ energised' = {<<u, main.coil>>}
          /\ \A w \in Valve \ {u} : w \in open' <=> w \in open
      <3>1. energised = {}
        BY <1>1, <1>4 DEF PulseInv, PulsedCoil
      <3> QED
        BY <1>1, <1>3, <3>1, RaiseMoves
    <2>2. v \in Valve
      BY <1>1, <1>4 DEF ESPWriteToDigital, Settle
    <2>3. CASE v # u
      BY <1>1, <1>4, <2>1, <2>2, <2>3 DEF FollowInv, ClosingNow, Pending
    <2>4. CASE v = u
      <3>1. main.coil # "Close"
        BY <1>1, <1>3, <1>4, <2>1, <2>4, RaiseCloses DEF ESPWriteToDigital
      <3> QED
        BY <1>1, <1>3, <2>4, <3>1 DEF FollowInv
    <2> QED
      BY <2>3, <2>4
  <1> QED
    BY <1>1, <1>2, <1>4, FollowStay
\* A new day begins after two calls in its last minute, which no window holds:
\* nothing is selected, and a call under way has read that minute.
LEMMA FollowTick ==
  ASSUME TypeOK, ScanInv, FollowInv, MinPasses >= 2, Tick
  PROVE  FollowInv'
  <1>1. /\ main'.at = main.at /\ main'.valve = main.valve /\ main'.slot = main.slot
        /\ main'.coil = main.coil /\ main'.day = main.day /\ main'.minute = main.minute
        /\ ~main'.fresh
    BY ScanTypes DEF Tick, Stale, MainState
  <1>2. /\ UNCHANGED <<hour_parm, nvs, timeselect, web, open, taken, trusted>>
        /\ ~dirty' /\ ~dirty
    BY DEF Tick, memVars, plantVars, FollowInv
  <1>3. \A v \in Valve : passes[v] >= 1 /\ Scan(v)
    <2>1. \A v \in Valve : passes[v] = MinPasses
      BY DEF Tick
    <2>2. MinPasses >= 1
      BY SizesAssumption
    <2> QED
      BY <1>2, <2>1, <2>2 DEF ScanInv
  <1>4. minute' = 0 => minute = LastMinute
    <2>1. minute \in Int /\ minute >= 0 /\ MinutesPerDay \in Int
      BY SizesAssumption DEF TypeOK, Minute
    <2>2. minute' = IF minute = MinutesPerDay - 1 THEN 0 ELSE minute + 1
      BY DEF Tick
    <2> QED
      BY <2>1, <2>2 DEF LastMinute
  <1>5. ASSUME minute' = 0, NEW v \in Valve, NEW k \in Slot
        PROVE  timeselect'[v] # k
    <2>1. timeselect[v] = k => Now(v, k)
      BY <1>3 DEF Scan, Seen
    <2>2. day \in Day /\ EndsBefore(hour_parm)
      BY DEF TypeOK, FollowInv
    <2>3. ~InWindow(v, day, LastMinute, k)
      BY <2>2, NotLast
    <2> QED
      BY <1>2, <1>4, <1>5, <2>1, <2>3 DEF Now
  <1>6. minute' = 0 /\ main'.at \notin {"boot", "call"} => main'.minute = LastMinute
    <2>1. main.at \notin {"boot", "call"} => main.fresh
      BY <1>3, ScanTypes DEF Scan, InCall
    <2> QED
      BY <1>1, <1>4, <2>1 DEF ScanInv, CallInv
  <1>7. ~taken' => \A v \in open' : timeselect'[v] # 0 \/ ClosingNow(v)' \/ Pending(v)'
    BY <1>1, <1>2 DEF FollowInv, ClosingNow, Pending, InWindow
  <1> QED
    BY <1>1, <1>2, <1>5, <1>6, <1>7 DEF FollowInv

LEMMA FollowUart ==
  ASSUME TypeOK, PulseInv, FollowInv, Uart
  PROVE  FollowInv'
  <1>1. CASE SET_IO_VAL
    <2>1. ~taken' => ~taken /\ open' = open
      BY <1>1 DEF SET_IO_VAL, plantVars
    <2> QED
      BY <1>1, <2>1, FollowQuiet DEF SET_IO_VAL, memVars, clockVars
  <1>2. CASE SET_IO_VAL_write
    <2>1. ~taken' => ~taken /\ open' = open
      BY <1>2 DEF SET_IO_VAL_write, PulseInv, plantVars
    <2> QED
      BY <1>2, <2>1, FollowQuiet DEF SET_IO_VAL_write, memVars, clockVars
  <1>3. CASE ReadHours
    <2>1. main.at = "boot" => nvs' \in {nvs, EmptyBlob}
      <3>1. nvs' \in {nvs, [hours |-> hour_parm, select |-> timeselect]}
        BY <1>3 DEF ReadHours, SaveHoursToMemory
      <3>2. EmptyBlob = [hours |-> EmptyBlob.hours, select |-> EmptyBlob.select]
        BY DEF EmptyBlob
      <3>3. main.at = "boot" => /\ hour_parm = EmptyBlob.hours
                                /\ timeselect = EmptyBlob.select
        BY DEF FollowInv
      <3> QED
        BY <3>1, <3>2, <3>3
    <2>2. UNCHANGED <<hour_parm, day, minute, main, timeselect, dirty, trusted, web, open, taken>>
      BY <1>3 DEF ReadHours, clockVars, plantVars
    <2> QED
      BY <2>1, <2>2, FollowQuiet
  <1> QED
    BY <1>1, <1>2, <1>3 DEF Uart

LEMMA NextFollow ==
  ASSUME Undisturbed, TypeOK, PulseInv, ScanInv, FollowInv, [Next]_vars
  PROVE  FollowInv'
  <1>1. CASE Main
    BY <1>1, FollowMemory, FollowRead, FollowPulse, FollowSkip, FollowRaise, FollowDelay,
       FollowLower DEF Main
  <1>2. CASE Tick
    BY <1>2, FollowTick DEF Undisturbed
  <1>3. ~SntpSetsClock
    BY DEF SntpSetsClock, Undisturbed
  <1>4. ~Web
    BY DEF Web, BeginSave, WriteField, EndSave, Undisturbed, FollowInv
  <1>5. ~Reboot
    <2>1. boots \in 0 .. MaxBoots
      BY DEF TypeOK
    <2> QED
      BY <2>1 DEF Reboot, Undisturbed
  <1>6. CASE UNCHANGED vars
    BY <1>6, FollowQuiet DEF vars
  <1> QED
    BY <1>1, <1>2, <1>3, <1>4, <1>5, <1>6, FollowUart DEF Next

\* On a device that keeps such a table and whose clock nobody sets, a settled
\* valve is open exactly while some window is due, whatever the windows overlap.
THEOREM TableFollowed == Undisturbed => (Spec => []FollowsTable)
  <1> SUFFICES ASSUME Undisturbed PROVE Spec => []FollowsTable
    OBVIOUS
  <1>1. TypeOK /\ ScanInv /\ FollowInv => FollowsTable
    <2> SUFFICES ASSUME TypeOK, ScanInv, FollowInv, ~taken, NEW v \in Valve, Settled(v)
                 PROVE  v \in open <=> Due(v)
      BY DEF FollowsTable
    <2>1. Scan(v) /\ passes[v] >= 2 /\ passes[v] >= 1
      BY ScanTypes DEF Settled, ScanInv, Undisturbed
    <2>2. trusted = Valve
      BY <2>1, ScanTypes DEF FollowInv, ScanInv, CallInv
    <2>3. Due(v) => v \in open
      BY <2>1, <2>2 DEF Scan
    <2>4. ASSUME v \in open PROVE Due(v)
      <3>1. CASE timeselect[v] # 0
        <4>1. timeselect[v] \in Slot
          BY <2>2, <3>1, SizesAssumption DEF ScanInv, CallInv, Slot
        <4> QED
          BY <2>1, <4>1, DueIsNow DEF Scan, Seen
      <3>2. CASE ClosingNow(v)
        BY <2>1, <3>2 DEF ClosingNow, Scan, InCall
      <3>3. CASE Pending(v)
        <4>1. main.fresh
          BY <2>1, <3>3 DEF Scan, InCall, Pending
        <4>2. PICK k \in Slot : InWindow(v, main.day, main.minute, k)
          BY <3>3 DEF Pending
        <4>3. Now(v, k)
          BY <4>1, <4>2 DEF Now, ScanInv, CallInv
        <4> QED
          BY <4>3, DueIsNow
      <3> QED
        BY <2>4, <3>1, <3>2, <3>3 DEF FollowInv
    <2> QED
      BY <2>3, <2>4
  <1>2. TypeOK /\ PulseInv /\ ScanInv /\ FollowInv /\ [Next]_vars => FollowInv'
    BY NextFollow
  <1> QED
    BY <1>1, <1>2, InitFollow, ScanInvariant, PulseInvariant, TypeCorrect, PTL DEF Spec
-----------------------------------------------------------------------------
(***************************************************************************)
(* The server takes the outputs for good.  A write whose test came before  *)
(* the takeover is still made; no test passes after it.                    *)
(***************************************************************************)
Writing == main.at \in {"raise", "lower"}

LEMMA AdvanceWritesNothing ==
  ASSUME Advance
  PROVE  ~Writing'
  <1>1. CASE main.slot < NSlot
    <2>1. main' = [main EXCEPT !.at = "block", !.slot = main.slot + 1]
      BY <1>1 DEF Advance
    <2> QED
      BY <2>1 DEF Writing
  <1>2. CASE ~(main.slot < NSlot)
    <2>1. main'.at = "call"
      BY <1>2 DEF Advance, AtCall
    <2> QED
      BY <2>1 DEF Writing
  <1> QED
    BY <1>1, <1>2

\* With the outputs taken, no step of the main task leads to a write.
LEMMA NoNewWrite ==
  ASSUME TypeOK, io_dig_mode # 0, io_dig_mode' # 0, ~Writing, [Next]_vars
  PROVE  ~Writing' /\ (Main => UNCHANGED energised)
  <1>1. main \in MainState
    BY DEF TypeOK
  <1>2. ASSUME Main PROVE ~Writing' /\ UNCHANGED energised
    <2>1. CASE memory_init
      BY <2>1 DEF memory_init, plantVars, AtCall, Writing
    <2>2. CASE ReadClock
      BY <1>1, <2>2 DEF ReadClock, plantVars, MainState, Writing
    <2>3. CASE OpenForWindow \/ CloseAfterWindow
      <3>1. PICK c \in Coil : StartPulse(c)
        BY <2>3 DEF OpenForWindow, CloseAfterWindow, Coil
      <3>2. main' = [main EXCEPT !.at = "pulse", !.coil = c]
        BY <3>1 DEF StartPulse
      <3>3. UNCHANGED energised
        BY <2>3 DEF OpenForWindow, CloseAfterWindow, plantVars
      <3> QED
        BY <1>1, <3>2, <3>3 DEF MainState, Writing
    <2>4. CASE SkipWindow \/ EndDelay
      BY <2>4, AdvanceWritesNothing DEF SkipWindow, EndDelay, plantVars
    <2>5. ~(Raise \/ Lower)
      BY DEF Raise, Lower, Writing
    <2> QED
      BY <1>2, <2>1, <2>2, <2>3, <2>4, <2>5 DEF Main
  <1>3. ASSUME ~Main PROVE ~Writing'
    <2>1. CASE Tick \/ SntpSetsClock
      <3>1. Stale
        BY <2>1 DEF Tick, SntpSetsClock, SetClock
      <3> QED
        BY <1>1, <3>1 DEF Stale, MainState, Writing
    <2>2. CASE Web
      <3>1. CASE BeginSave
        <4>1. Stale
          BY <3>1 DEF BeginSave, SetClock
        <4> QED
          BY <1>1, <4>1 DEF Stale, MainState, Writing
      <3>2. CASE WriteField
        <4>1. UNCHANGED main
          BY <3>2 DEF WriteField
        <4> QED
          BY <4>1 DEF Writing
      <3>3. CASE EndSave
        BY <3>3 DEF EndSave, Writing
      <3> QED
        BY <2>2, <3>1, <3>2, <3>3 DEF Web
    <2>3. CASE Uart
      BY <2>3 DEF Uart, SET_IO_VAL, SET_IO_VAL_write, ReadHours, Writing
    <2>4. CASE Reboot
      BY <2>4 DEF Reboot
    <2>5. CASE UNCHANGED vars
      BY <2>5 DEF vars, Writing
    <2> QED
      BY <1>3, <2>1, <2>2, <2>3, <2>4, <2>5 DEF Next
  <1> QED
    BY <1>2, <1>3

\* A main task about to write does nothing but that.
LEMMA WriteIsLast ==
  ASSUME Writing, Writing'
  PROVE  Main => UNCHANGED energised
  <1> SUFFICES ASSUME Main PROVE FALSE
    OBVIOUS
  <1>1. CASE Raise
    <2>1. main' = [main EXCEPT !.at = "pulse"]
      BY <1>1 DEF Raise
    <2> QED
      BY <2>1 DEF Writing
  <1>2. CASE Lower
    BY <1>2, AdvanceWritesNothing DEF Lower
  <1> QED
    BY <1>1, <1>2 DEF Main, memory_init, ReadClock, OpenForWindow, CloseAfterWindow, SkipWindow,
                      EndDelay, Writing

\* Once the server keeps the outputs for good, the logic stops moving them, after at
\* most the one write it had tested for.  It needs no fairness: a write that is
\* never made moves nothing either.
THEOREM ServerKeeps == Spec => ServerKeepsOutputs
  <1>1. TypeOK /\ io_dig_mode # 0 /\ (io_dig_mode # 0)' /\ ~Writing /\ [Next]_vars =>
            ~Writing' /\ [Main => UNCHANGED energised]_vars
    BY NoNewWrite
  <1>2. Writing /\ Writing' => [Main => UNCHANGED energised]_vars
    BY WriteIsLast
  <1> QED
    BY <1>1, <1>2, TypeCorrect, PTL DEF Spec, ServerKeepsOutputs
-----------------------------------------------------------------------------
(***************************************************************************)
(* The schedule.  With the outputs left to the logic, the watering is that *)
(* of Irrigation.  What it needs beyond FollowInv: the third call for a    *)
(* valve in one minute, and a call that the minute overtakes, pulse        *)
(* nothing (RestInv); minute 0 cannot clear a selection that this minute   *)
(* has made (FlagInv); and a pulse does what the table says (RaiseInv).    *)
(***************************************************************************)
Alone == Undisturbed /\ SetIoCommands = {}

\* The test of window k succeeds in this call.
Read(k) == InWindow(main.valve, main.day, main.minute, k)

RestInv ==
    main.at \notin {"boot", "call"} /\ (passes[main.valve] >= 2 \/ ~main.fresh) =>
        /\ main.at = "block"
        /\ \A k \in Slot : /\ timeselect[main.valve] = k => Read(k)
                           /\ timeselect[main.valve] = 0 => ~Read(k)

\* Minute 0 with the flag down: whatever is selected was so before this minute.
Flag(v) ==
    /\ passes[v] >= 2 \/ (passes[v] >= 1 /\ InCall(v)) => timeselect[v] = 0
    /\ timeselect[v] = 0 =>
          /\ passes[v] >= 1 => \A k \in Slot : ~Now(v, k)
          /\ InCall(v) /\ main.fresh => \A k \in Slot : Past(k) => ~Now(v, k)

FlagInv == minute = 0 /\ minindayos = 0 => \A v \in Valve : Flag(v)

RaiseInv ==
    main.at = "raise" =>
        IF main.coil = "Open" THEN timeselect[main.valve] = main.slot /\ Read(main.slot)
                              ELSE timeselect[main.valve] = 0 /\ ~Read(main.slot)

ServeInv == ~taken /\ uart = NoCommand /\ RestInv /\ FlagInv /\ RaiseInv

LEMMA InitServe == Init => ServeInv
  <1> SUFFICES ASSUME Init PROVE ServeInv
    OBVIOUS
  <1>1. /\ main.at = "boot" /\ ~taken /\ uart = NoCommand
        /\ \A v \in Valve : passes[v] = 0
    BY DEF Init, Booting
  <1>2. FlagInv
    BY <1>1 DEF FlagInv, Flag, InCall
  <1> QED
    BY <1>1, <1>2 DEF ServeInv, RestInv, RaiseInv

\* What the invariants say together while nobody interferes.
LEMMA AloneFacts ==
  ASSUME Alone, TypeOK, PulseInv, ScanInv, FollowInv, ServeInv
  PROVE  /\ ~taken /\ uart = NoCommand /\ io_dig_mode = 0 /\ ~dirty /\ MinPasses >= 2
         /\ \A v \in Valve : Scan(v)
         /\ main.at # "boot" => /\ trusted = Valve
                                /\ \A v \in Valve : timeselect[v] \in 0 .. NSlot
         /\ main.at \in {"boot", "call"} => ~main.fresh
         /\ main.fresh => /\ main.day = day /\ main.minute = minute
                          /\ \A k \in Slot : Read(k) <=> Now(main.valve, k)
         /\ InThisWindow <=> Read(main.slot)
         /\ \A v \in open : timeselect[v] # 0 \/ ClosingNow(v) \/ Pending(v)
         /\ \A v \in Valve : timeselect[v] # 0 /\ main.at # "boot" => v \in open \/ OpeningNow(v)
  BY DEF Alone, Undisturbed, PulseInv, ScanInv, CallInv, FollowInv, ServeInv, Read, Now,
         InThisWindow

\* A pulse begins only in the first two calls of the minute, and in time.
LEMMA PulseEarly ==
  ASSUME Alone, TypeOK, PulseInv, ScanInv, FollowInv, ServeInv,
         \/ OpenForWindow \/ CloseAfterWindow
         \/ main.at \in {"raise", "pulse", "lower"}
  PROVE  main.fresh /\ ~(passes[main.valve] >= 2)
  <1>1. main.at \notin {"boot", "call"}
    BY DEF OpenForWindow, CloseAfterWindow
  <1>2. main.slot \in Slot
    BY ScanTypes
  <1>3. CASE OpenForWindow
    <2>1. timeselect[main.valve] = 0 /\ Read(main.slot)
      BY <1>3, AloneFacts DEF OpenForWindow
    <2> QED
      BY <1>1, <1>2, <2>1 DEF ServeInv, RestInv
  <1>4. CASE CloseAfterWindow
    <2>1. timeselect[main.valve] = main.slot /\ ~Read(main.slot)
      BY <1>4, AloneFacts DEF CloseAfterWindow
    <2> QED
      BY <1>1, <1>2, <2>1 DEF ServeInv, RestInv
  <1>5. CASE main.at \in {"raise", "pulse", "lower"}
    BY <1>1, <1>5 DEF ServeInv, RestInv
  <1> QED
    BY <1>3, <1>4, <1>5

LEMMA ServeMemory ==
  ASSUME ScanInv, ServeInv, memory_init
  PROVE  ServeInv'
  <1>1. /\ main.at = "boot" /\ main'.at = "call" /\ UNCHANGED <<taken, uart, passes>>
    BY DEF memory_init, AtCall
  <1>2. \A v \in Valve : passes'[v] = 0
    BY <1>1 DEF ScanInv, CallInv
  <1>3. FlagInv'
    BY <1>1, <1>2 DEF FlagInv, Flag, InCall
  <1> QED
    BY <1>1, <1>3 DEF ServeInv, RestInv, RaiseInv

\* At a call, a valve that nothing is selected for has no window due once its
\* second call of the minute is over.
LEMMA RestAtCall ==
  ASSUME Alone, TypeOK, PulseInv, ScanInv, FollowInv, ServeInv, main.at = "call",
         NEW v \in Valve, passes[v] >= 2, NEW k \in Slot
  PROVE  /\ timeselect[v] = k => Now(v, k)
         /\ timeselect[v] = 0 => ~Now(v, k)
  <1>1. Scan(v) /\ v \in trusted /\ ~taken /\ passes[v] >= 1
    BY AloneFacts, ScanTypes
  <1>2. timeselect[v] = k => Now(v, k)
    BY <1>1 DEF Scan, Seen
  <1>3. v \in open => timeselect[v] # 0
    BY AloneFacts DEF ClosingNow, Pending
  <1>4. Now(v, k) => v \in open
    BY <1>1, DueIsNow DEF Scan
  <1> QED
    BY <1>2, <1>3, <1>4

LEMMA ServeRead ==
  ASSUME Alone, TypeOK, PulseInv, ScanInv, FollowInv, ServeInv, ReadClock
  PROVE  ServeInv'
  <1> DEFINE u == main.valve
             newDay == minute = 0 /\ timeselect[u] > 0 /\ minindayos = 0
  <1>1. /\ main.at = "call" /\ main'.at = "block" /\ main'.valve = u /\ main'.slot = 1
        /\ main'.day = day /\ main'.minute = minute /\ main'.fresh
    BY ScanTypes DEF ReadClock, MainState
  <1>2. UNCHANGED <<hour_parm, day, minute, passes, taken, uart>>
    BY DEF ReadClock, memVars, clockVars
  <1>3. /\ newDay => minindayos' = 1
        /\ ~newDay => /\ minute = 0 => minindayos' = minindayos
                      /\ timeselect' = timeselect
    BY DEF ReadClock
  <1>4. u \in Valve /\ timeselect[u] \in Nat
    BY ScanTypes DEF Byte
  <1>5. RestInv'
    <2> SUFFICES ASSUME passes[u] >= 2, NEW k \in Slot
                 PROVE  /\ timeselect'[u] = k => Read(k)'
                        /\ timeselect'[u] = 0 => ~Read(k)'
      BY <1>1, <1>2 DEF RestInv
    <2>1. ~newDay
      BY <1>4 DEF ServeInv, FlagInv, Flag
    <2>2. Read(k)' <=> Now(u, k)
      BY <1>1, <1>2 DEF Read, Now, InWindow
    <2> QED
      BY <1>1, <1>3, <1>4, <2>1, <2>2, RestAtCall
  <1>6. ASSUME minute' = 0, minindayos' = 0, NEW v \in Valve
        PROVE  Flag(v)'
    <2>1. ~newDay /\ timeselect' = timeselect /\ minindayos = 0 /\ minute = 0
      BY <1>2, <1>3, <1>6
    <2>2. Flag(v) /\ timeselect[u] = 0
      BY <1>4, <2>1 DEF ServeInv, FlagInv
    <2>3. ~InCall(v) /\ (InCall(v)' <=> v = u)
      BY <1>1 DEF InCall
    <2>4. \A k \in Slot : ~Past(k)' /\ (Now(v, k)' <=> Now(v, k))
      <3>1. \A k \in Slot : ~(k < 1)
        BY SizesAssumption DEF Slot
      <3> QED
        BY <1>1, <1>2, <3>1 DEF Past, Now, InWindow
    <2> QED
      BY <1>2, <2>1, <2>2, <2>3, <2>4 DEF Flag
  <1> QED
    BY <1>1, <1>2, <1>5, <1>6 DEF ServeInv, FlagInv, RaiseInv

\* In minute 0 with the flag down, a step of a call can disturb only its own valve.
LEMMA FlagOther ==
  ASSUME NEW v \in Valve, v # main.valve, Flag(v), main'.valve = main.valve,
         UNCHANGED <<hour_parm, day, minute, passes>>, timeselect'[v] = timeselect[v]
  PROVE  Flag(v)'
  <1>1. (\A k \in Slot : Now(v, k)' <=> Now(v, k)) /\ ~InCall(v) /\ ~InCall(v)'
    BY DEF Now, InWindow, InCall
  <1> QED
    BY <1>1 DEF Flag

LEMMA ServePulse ==
  ASSUME Alone, TypeOK, PulseInv, ScanInv, FollowInv, ServeInv,
         OpenForWindow \/ CloseAfterWindow
  PROVE  ServeInv'
  <1> DEFINE u == main.valve
             k0 == main.slot
  <1>1. /\ main.at = "block" /\ main'.at = "raise"
        /\ main'.valve = u /\ main'.slot = k0 /\ main'.fresh = main.fresh
        /\ main'.day = main.day /\ main'.minute = main.minute
        /\ main'.coil = IF OpenForWindow THEN "Open" ELSE "Close"
    BY ScanTypes, AloneFacts DEF OpenForWindow, CloseAfterWindow, StartPulse, MainState
  <1>2. UNCHANGED <<hour_parm, day, minute, passes, minindayos, taken, uart>>
    BY DEF OpenForWindow, CloseAfterWindow, memVars, clockVars
  <1>3. main.fresh /\ ~(passes[u] >= 2) /\ u \in Valve /\ k0 \in Slot /\ k0 # 0
    BY PulseEarly, ScanTypes
  <1>4. /\ OpenForWindow => timeselect[u] = 0 /\ timeselect'[u] = k0 /\ Read(k0)
        /\ ~OpenForWindow => timeselect[u] = k0 /\ timeselect'[u] = 0 /\ ~Read(k0)
        /\ \A v \in Valve \ {u} : timeselect'[v] = timeselect[v]
    BY ScanTypes, AloneFacts DEF OpenForWindow, CloseAfterWindow
  <1>5. Read(k0)' <=> Read(k0)
    BY <1>1, <1>2 DEF Read, InWindow
  <1>6. Read(k0) <=> Now(u, k0)
    BY <1>3, AloneFacts
  <1>7. ASSUME minute = 0, minindayos = 0, NEW v \in Valve
        PROVE  Flag(v)'
    <2>1. Flag(v) /\ Flag(u)
      BY <1>3, <1>7 DEF ServeInv, FlagInv
    <2>2. CASE v # u
      BY <1>1, <1>2, <1>4, <2>1, <2>2, FlagOther
    <2>3. CASE v = u
      <3>1. OpenForWindow
        BY <1>3, <1>4, <1>6, <1>7 DEF FollowInv
      <3>2. ~(passes[u] >= 1)
        BY <1>3, <1>4, <1>6, <2>1, <3>1 DEF Flag
      <3> QED
        BY <1>2, <1>3, <1>4, <2>3, <3>1, <3>2 DEF Flag
    <2> QED
      BY <2>2, <2>3
  <1> QED
    BY <1>1, <1>2, <1>3, <1>4, <1>5, <1>7 DEF ServeInv, RestInv, FlagInv, RaiseInv

\* On to the next window or call, after a test or a pulse that leaves the valve
\* without a selection only if the window is not due.
LEMMA ServeAdvance ==
  ASSUME Alone, TypeOK, PulseInv, ScanInv, FollowInv, ServeInv, Advance,
         main.at \in {"block", "lower"},
         UNCHANGED <<hour_parm, day, minute, timeselect, minindayos, taken, uart>>,
         main.at = "block" /\ main.fresh /\ timeselect[main.valve] = 0
             => ~Now(main.valve, main.slot)
  PROVE  ServeInv'
  <1> DEFINE u == main.valve
             k0 == main.slot
  <1>1. /\ u \in Valve /\ k0 \in Slot /\ k0 \in Nat /\ NSlot \in Nat /\ main \in MainState
        /\ Slot \subseteq Nat /\ \A k \in Slot : k <= NSlot
    BY ScanTypes
  <1>2. InCall(u)
    BY DEF InCall
  <1>3. ASSUME minute = 0, minindayos = 0, timeselect[u] = 0, main.fresh, NEW k \in Slot, k <= k0
        PROVE  ~Now(u, k)
    <2>1. Flag(u)
      BY <1>1, <1>3 DEF ServeInv, FlagInv
    <2>2. CASE k = k0 /\ main.at = "block"
      BY <1>3, <2>2
    <2>3. CASE ~(k = k0 /\ main.at = "block")
      <3>1. Past(k)
        BY <1>1, <1>3, <2>3 DEF Past
      <3> QED
        BY <1>2, <1>3, <2>1, <3>1 DEF Flag
    <2> QED
      BY <2>2, <2>3
  <1>4. CASE k0 < NSlot
    <2>1. /\ main'.at = "block" /\ main'.valve = u /\ main'.slot = k0 + 1
          /\ main'.fresh = main.fresh /\ main'.day = main.day /\ main'.minute = main.minute
          /\ passes' = passes
      BY <1>1, <1>4 DEF Advance, MainState
    <2>2. RestInv'
      <3>1. \A k \in Slot : Read(k)' <=> Read(k)
        BY <2>1 DEF Read, InWindow
      <3> QED
        BY <2>1, <3>1 DEF ServeInv, RestInv
    <2>3. ASSUME minute = 0, minindayos = 0, NEW v \in Valve
          PROVE  Flag(v)'
      <3>1. Flag(v)
        BY <2>3 DEF ServeInv, FlagInv
      <3>2. CASE v # u
        BY <2>1, <3>1, <3>2, FlagOther
      <3>3. CASE v = u
        <4>1. \A k \in Slot : /\ Now(v, k)' <=> Now(v, k)
                              /\ Past(k)' => k <= k0
          BY <1>1, <2>1 DEF Now, InWindow, Past
        <4>2. InCall(v) /\ InCall(v)' /\ main'.fresh = main.fresh
          BY <1>2, <2>1, <3>3 DEF InCall
        <4>3. timeselect[v] = 0 /\ main.fresh => \A k \in Slot : Past(k)' => ~Now(v, k)
          BY <1>3, <2>3, <3>3, <4>1
        <4> QED
          BY <2>1, <3>1, <4>1, <4>2, <4>3 DEF Flag
      <3> QED
        BY <3>2, <3>3
    <2> QED
      BY <2>1, <2>2, <2>3 DEF ServeInv, FlagInv, RaiseInv
  <1>5. CASE ~(k0 < NSlot)
    <2>1. main'.at = "call"
      BY <1>5 DEF Advance, AtCall
    <2>2. passes' = [passes EXCEPT ![u] = IF main.fresh /\ @ < MinPasses THEN @ + 1 ELSE @]
      BY <1>5 DEF Advance
    <2>3. ASSUME minute = 0, minindayos = 0, NEW v \in Valve
          PROVE  Flag(v)'
      <3>1. Flag(v) /\ ~InCall(v)'
        BY <2>1, <2>3 DEF ServeInv, FlagInv, InCall
      <3>2. \A k \in Slot : Now(v, k)' <=> Now(v, k)
        BY DEF Now, InWindow
      <3>3. /\ passes'[v] \in Nat /\ passes[v] \in Nat
            /\ v # u \/ ~main.fresh => passes'[v] = passes[v]
            /\ passes'[v] \in {passes[v], passes[v] + 1}
        BY <2>2, ScanTypes
      <3>4. CASE v # u \/ ~main.fresh
        BY <3>1, <3>2, <3>3, <3>4 DEF Flag
      <3>5. CASE v = u /\ main.fresh
        <4>1. \A k \in Slot : k <= k0
          BY <1>1, <1>5
        <4>2. timeselect[v] = 0 => \A k \in Slot : ~Now(v, k)
          BY <1>3, <2>3, <3>5, <4>1
        <4>3. passes'[v] >= 2 => passes[v] >= 1
          BY <3>3
        <4> QED
          BY <1>2, <3>1, <3>2, <3>5, <4>2, <4>3 DEF Flag
      <3> QED
        BY <3>4, <3>5
    <2> QED
      BY <2>1, <2>3 DEF ServeInv, RestInv, FlagInv, RaiseInv
  <1> QED
    BY <1>4, <1>5

LEMMA ServeSkip ==
  ASSUME Alone, TypeOK, PulseInv, ScanInv, FollowInv, ServeInv, SkipWindow
  PROVE  ServeInv'
  <1>1. /\ main.at = "block" /\ Advance
        /\ UNCHANGED <<hour_parm, day, minute, timeselect, minindayos, taken, uart>>
    BY DEF SkipWindow, memVars, clockVars
  <1>2. main.fresh /\ timeselect[main.valve] = 0 => ~Now(main.valve, main.slot)
    <2>1. timeselect[main.valve] = 0 => ~InThisWindow
      BY DEF SkipWindow
    <2>2. main.fresh => (InThisWindow <=> Now(main.valve, main.slot))
      BY AloneFacts, ScanTypes
    <2> QED
      BY <2>1, <2>2
  <1> QED
    BY <1>1, <1>2, ServeAdvance

LEMMA ServeLower ==
  ASSUME Alone, TypeOK, PulseInv, ScanInv, FollowInv, ServeInv, Lower
  PROVE  ServeInv'
  <1>1. /\ main.at = "lower" /\ Advance
        /\ UNCHANGED <<hour_parm, day, minute, timeselect, minindayos, taken, uart>>
    BY DEF Lower, memVars, clockVars
  <1> QED
    BY <1>1, ServeAdvance

\* Within a pulse the call stays where it is.
LEMMA ServeWithin ==
  ASSUME Alone, TypeOK, PulseInv, ScanInv, FollowInv, ServeInv,
         main.at \in {"raise", "pulse"}, main'.at \in {"pulse", "lower"},
         main'.valve = main.valve, main'.slot = main.slot, main'.fresh = main.fresh,
         UNCHANGED <<hour_parm, day, minute, timeselect, minindayos, passes, taken, uart>>
  PROVE  ServeInv'
  <1>1. RestInv'
    BY PulseEarly DEF RestInv
  <1>2. ASSUME minute = 0, minindayos = 0, NEW v \in Valve
        PROVE  Flag(v)'
    <2>1. Flag(v)
      BY <1>2 DEF ServeInv, FlagInv
    <2>2. InCall(v)' <=> InCall(v)
      BY DEF InCall
    <2>3. \A k \in Slot : (Now(v, k)' <=> Now(v, k)) /\ (Past(k)' <=> Past(k))
      BY DEF Now, InWindow, Past
    <2> QED
      BY <2>1, <2>2, <2>3 DEF Flag
  <1> QED
    BY <1>1, <1>2 DEF ServeInv, FlagInv, RaiseInv

LEMMA ServeRaiseDelay ==
  ASSUME Alone, TypeOK, PulseInv, ScanInv, FollowInv, ServeInv, Raise \/ EndDelay
  PROVE  ServeInv'
  <1>1. CASE Raise
    <2>1. /\ main.at = "raise" /\ main' = [main EXCEPT !.at = "pulse"]
          /\ UNCHANGED <<hour_parm, day, minute, timeselect, minindayos, passes, taken, uart>>
      BY <1>1 DEF Raise, memVars, clockVars
    <2>2. /\ main'.at = "pulse" /\ main'.valve = main.valve /\ main'.slot = main.slot
          /\ main'.fresh = main.fresh
      BY <2>1, ScanTypes DEF MainState
    <2> QED
      BY <2>1, <2>2, ServeWithin
  <1>2. CASE EndDelay
    <2>1. /\ main.at = "pulse" /\ main' = [main EXCEPT !.at = "lower"]
          /\ UNCHANGED <<hour_parm, day, minute, timeselect, minindayos, passes, taken, uart>>
      BY <1>2, AloneFacts DEF EndDelay, memVars, clockVars
    <2>2. /\ main'.at = "lower" /\ main'.valve = main.valve /\ main'.slot = main.slot
          /\ main'.fresh = main.fresh
      BY <2>1, ScanTypes DEF MainState
    <2> QED
      BY <2>1, <2>2, ServeWithin
  <1> QED
    BY <1>1, <1>2

\* The minute changes in a call that has nothing left to pulse, or between calls.
LEMMA ServeTick ==
  ASSUME Alone, TypeOK, PulseInv, ScanInv, FollowInv, ServeInv, Tick
  PROVE  ServeInv'
  <1>1. /\ main'.at = main.at /\ main'.valve = main.valve /\ main'.slot = main.slot
        /\ main'.day = main.day /\ main'.minute = main.minute /\ ~main'.fresh
    BY ScanTypes DEF Tick, Stale, MainState
  <1>2. /\ UNCHANGED <<hour_parm, timeselect, taken, uart>>
        /\ \A v \in Valve : passes[v] >= 2 /\ passes'[v] = 0
    BY AloneFacts DEF Tick, memVars
  <1>3. \A k \in Slot : Read(k)' <=> Read(k)
    BY <1>1, <1>2 DEF Read, InWindow
  <1>4. RestInv' /\ main.at # "raise"
    <2>1. main.valve \in Valve
      BY ScanTypes
    <2> QED
      BY <1>1, <1>2, <1>3, <2>1 DEF ServeInv, RestInv
  <1>5. FlagInv'
    BY <1>1, <1>2 DEF FlagInv, Flag
  <1> QED
    BY <1>1, <1>2, <1>4, <1>5 DEF ServeInv, RaiseInv

LEMMA ServeQuiet ==
  ASSUME ServeInv,
         UNCHANGED <<hour_parm, day, minute, main, timeselect, minindayos, passes, taken, uart>>
  PROVE  ServeInv'
  <1>1. \A k \in Slot : Read(k)' <=> Read(k)
    BY DEF Read, InWindow
  <1>2. RestInv'
    BY <1>1 DEF ServeInv, RestInv
  <1>3. ASSUME minute = 0, minindayos = 0, NEW v \in Valve
        PROVE  Flag(v)'
    <2>1. \A k \in Slot : (Now(v, k)' <=> Now(v, k)) /\ (Past(k)' <=> Past(k))
      BY DEF Now, InWindow, Past
    <2> QED
      BY <1>3, <2>1 DEF ServeInv, FlagInv, Flag, InCall
  <1>4. RaiseInv'
    BY DEF ServeInv, RaiseInv, Read, InWindow
  <1> QED
    BY <1>2, <1>3, <1>4 DEF ServeInv, FlagInv

\* Alone, only the main task, the clock and E_SetTimes take steps.
LEMMA AloneSteps ==
  ASSUME Alone, TypeOK, FollowInv, ServeInv, [Next]_vars
  PROVE  Main \/ Tick \/ ReadHours \/ UNCHANGED vars
  <1>1. ~SntpSetsClock
    BY DEF SntpSetsClock, Alone, Undisturbed
  <1>2. ~Web
    BY DEF Web, BeginSave, WriteField, EndSave, Alone, Undisturbed, FollowInv
  <1>3. ~Reboot
    <2>1. boots \in 0 .. MaxBoots
      BY DEF TypeOK
    <2> QED
      BY <2>1 DEF Reboot, Alone, Undisturbed
  <1>4. Uart => ReadHours
    BY DEF Uart, SET_IO_VAL, SET_IO_VAL_write, Alone, ServeInv
  <1> QED
    BY <1>1, <1>2, <1>3, <1>4 DEF Next

LEMMA NextServe ==
  ASSUME Alone, TypeOK, PulseInv, ScanInv, FollowInv, ServeInv, [Next]_vars
  PROVE  ServeInv'
  <1>1. CASE Main
    BY <1>1, ServeMemory, ServeRead, ServePulse, ServeSkip, ServeRaiseDelay, ServeLower DEF Main
  <1>2. CASE Tick
    BY <1>2, ServeTick
  <1>3. CASE ReadHours \/ UNCHANGED vars
    <2>1. UNCHANGED <<hour_parm, day, minute, main, timeselect, minindayos, passes, taken, uart>>
      BY <1>3 DEF ReadHours, clockVars, vars
    <2> QED
      BY <2>1, ServeQuiet
  <1> QED
    BY <1>1, <1>2, <1>3, AloneSteps

LEMMA DueWindowsNow ==
  ASSUME NEW v \in Valve, NEW k \in Slot
  PROVE  k \in DueWindows(v) <=> Now(v, k)
  BY DEF DueWindows, Now

\* While neither table nor minute change, neither do the windows that are due.
LEMMA DueStays ==
  ASSUME UNCHANGED <<hour_parm, day, minute>>
  PROVE  [v \in Valve |-> DueWindows(v)]' = [v \in Valve |-> DueWindows(v)]
  <1>1. ASSUME NEW v \in Valve PROVE DueWindows(v)' = DueWindows(v)
    BY DEF DueWindows, InWindow
  <1> QED
    BY <1>1

\* A valve serves the same window as long as its position and its selection stay,
\* and no closing pulse for it begins or has just been given.
LEMMA ServedStays ==
  ASSUME UNCHANGED <<hour_parm, day, minute>>, NEW v \in Valve,
         v \in open' <=> v \in open, timeselect'[v] = timeselect[v],
         v \in open /\ timeselect[v] = 0 => main.at # "raise" /\ main'.at # "raise"
  PROVE  ServedBy(v)' = ServedBy(v)
  <1>1. DueWindows(v)' = DueWindows(v)
    BY DEF DueWindows, InWindow
  <1>2. CASE v \notin open
    BY <1>2 DEF ServedBy
  <1>3. CASE v \in open /\ timeselect[v] # 0
    BY <1>3 DEF ServedBy
  <1>4. CASE v \in open /\ timeselect[v] = 0
    <2> DEFINE due == DueWindows(v)
    <2>1. ServedBy(v) = CHOOSE k \in Slot : due # {} => k \in due
      BY <1>4 DEF ServedBy
    <2>2. ServedBy(v)' = CHOOSE k \in Slot : due' # {} => k \in due'
      BY <1>4 DEF ServedBy
    <2> HIDE DEF due
    <2>3. due' = due
      BY <1>1 DEF due
    <2> QED
      BY <2>1, <2>2, <2>3
  <1> QED
    BY <1>2, <1>3, <1>4

\* With every valve serving what it did, the schedule stands still.
LEMMA ScheduleStands ==
  ASSUME UNCHANGED <<hour_parm, day, minute>>,
         \A v \in Valve : ServedBy(v)' = ServedBy(v)
  PROVE  UNCHANGED Schedule!irrigationVars
  <1>1. [v \in Valve |-> ServedBy(v)]' = [v \in Valve |-> ServedBy(v)]
    OBVIOUS
  <1> QED
    BY <1>1, DueStays DEF Schedule!irrigationVars

\* What one valve does that no other takes part in.
LEMMA OneValve ==
  ASSUME UNCHANGED <<hour_parm, day, minute>>, NEW u \in Valve,
         \A v \in Valve \ {u} : ServedBy(v)' = ServedBy(v),
         \/ ServedBy(u)' = ServedBy(u)
         \/ ServedBy(u) = 0 /\ ServedBy(u)' \in DueWindows(u)
         \/ ServedBy(u) \notin DueWindows(u) \union {0} /\ ServedBy(u)' = 0
         \/ ServedBy(u) \in DueWindows(u) /\ ServedBy(u)' \in DueWindows(u)
  PROVE  [Schedule!IrrigationNext]_Schedule!irrigationVars
  <1> DEFINE s == [v \in Valve |-> ServedBy(v)]
             d == [v \in Valve |-> DueWindows(v)]
  <1>1. CASE ServedBy(u)' = ServedBy(u)
    <2>1. \A v \in Valve : ServedBy(v)' = ServedBy(v)
      BY <1>1
    <2> QED
      BY <2>1, ScheduleStands
  <1>2. s' = [s EXCEPT ![u] = ServedBy(u)'] /\ d' = d
    BY DueStays
  <1>3. s[u] = ServedBy(u) /\ d[u] = DueWindows(u)
    OBVIOUS
  <1>4. CASE ServedBy(u) = 0 /\ ServedBy(u)' \in DueWindows(u)
    BY <1>2, <1>3, <1>4 DEF Schedule!IrrigationNext, Schedule!Open
  <1>5. CASE ServedBy(u) \notin DueWindows(u) \union {0} /\ ServedBy(u)' = 0
    BY <1>2, <1>3, <1>5 DEF Schedule!IrrigationNext, Schedule!Close
  <1>6. CASE ServedBy(u) \in DueWindows(u) /\ ServedBy(u)' \in DueWindows(u)
    BY <1>2, <1>3, <1>6 DEF Schedule!IrrigationNext, Schedule!HandOver
  <1> QED
    BY <1>1, <1>4, <1>5, <1>6

\* Before the table is loaded no window is due and no valve is open.
LEMMA BootServes ==
  ASSUME TypeOK, main.at = "boot", ~taken, FollowInv
  PROVE  open = {} /\ \A v \in Valve : DueWindows(v) = {} /\ ServedBy(v) = 0
  <1>1. hour_parm = EmptyBlob.hours /\ timeselect = EmptyBlob.select
    BY DEF FollowInv
  <1>2. open = {}
    <2>1. open \subseteq Valve
      BY DEF TypeOK
    <2> QED
      BY <1>1, <2>1, EmptyEnds DEF FollowInv, ClosingNow, Pending
  <1>3. ASSUME NEW v \in Valve, NEW k \in Slot PROVE ~InWindow(v, day, minute, k)
    <2>1. day \in Day /\ minute \in Int
      BY SizesAssumption DEF TypeOK, Minute
    <2>2. /\ hour_parm[v][day][k]["StartHour"] = 0
          /\ hour_parm[v][day][k]["Duration"] = 0
      BY <1>1, <2>1 DEF EmptyBlob, Part
    <2> QED
      BY <2>1, <2>2 DEF InWindow
  <1> QED
    BY <1>2, <1>3 DEF DueWindows, ServedBy

\* Irrigation's Change, for a step that moves no valve and serves on.
LEMMA ChangeMaps ==
  ASSUME \A v \in Valve : ServedBy(v)' = ServedBy(v),
         \A v \in Valve : IF DueWindows(v) = {} THEN ServedBy(v) = 0
                                                ELSE ServedBy(v) \in DueWindows(v)
  PROVE  [Schedule!IrrigationNext]_Schedule!irrigationVars
  <1> DEFINE s == [v \in Valve |-> ServedBy(v)]
             d == [v \in Valve |-> DueWindows(v)]
  <1>1. s' = s
    OBVIOUS
  <1>2. d' \in [Valve -> SUBSET Slot]
    BY DEF DueWindows
  <1>3. \A v \in Valve : Schedule!Served(v)
    BY DEF Schedule!Served
  <1>4. Schedule!Change
    BY <1>1, <1>2, <1>3 DEF Schedule!Change
  <1> QED
    BY <1>4 DEF Schedule!IrrigationNext

LEMMA MapMemory ==
  ASSUME TypeOK, FollowInv, ServeInv, memory_init
  PROVE  [Schedule!IrrigationNext]_Schedule!irrigationVars
  <1>1. main.at = "boot" /\ ~taken /\ open' = open
    BY DEF memory_init, plantVars, ServeInv
  <1>2. open = {} /\ \A v \in Valve : DueWindows(v) = {} /\ ServedBy(v) = 0
    BY <1>1, BootServes
  <1>3. \A v \in Valve : ServedBy(v)' = 0
    BY <1>1, <1>2 DEF ServedBy
  <1> QED
    BY <1>2, <1>3, ChangeMaps

\* A valve that is open without a selection is one the call is about to close, or
\* one that it will find again.
LEMMA OnlyCalled ==
  ASSUME Alone, TypeOK, PulseInv, ScanInv, FollowInv, ServeInv,
         NEW v \in open, timeselect[v] = 0
  PROVE  main.valve = v /\ (ClosingNow(v) \/ Pending(v))
  BY AloneFacts DEF ClosingNow, Pending

\* Minute 0 forgets a selection whose window is due: the call will find one.
LEMMA MapRead ==
  ASSUME Alone, TypeOK, PulseInv, ScanInv, FollowInv, ServeInv, ReadClock
  PROVE  [Schedule!IrrigationNext]_Schedule!irrigationVars
  <1>0. PICK u \in Valve : u = main.valve
    BY ScanTypes
  <1> DEFINE newDay == minute = 0 /\ timeselect[u] > 0 /\ minindayos = 0
  <1>1. main.at = "call" /\ main'.at = "block" /\ u \in Valve
    BY <1>0, ScanTypes DEF ReadClock, MainState
  <1>2. UNCHANGED <<hour_parm, day, minute, open>>
    BY DEF ReadClock, memVars, clockVars, plantVars
  <1>3. /\ newDay => timeselect' = [timeselect EXCEPT ![u] = 0]
        /\ ~newDay => timeselect' = timeselect
    BY <1>0 DEF ReadClock
  <1>4. \A v \in Valve \ {u} : ServedBy(v)' = ServedBy(v)
    <2> SUFFICES ASSUME NEW v \in Valve \ {u} PROVE ServedBy(v)' = ServedBy(v)
      OBVIOUS
    <2>1. timeselect'[v] = timeselect[v]
      BY <1>0, <1>3, ScanTypes
    <2> QED
      BY <1>0, <1>1, <1>2, <2>1, ServedStays
  <1>5. CASE ~newDay
    <2>1. ServedBy(u)' = ServedBy(u)
      BY <1>0, <1>1, <1>2, <1>3, <1>5, ServedStays
    <2> QED
      BY <1>0, <1>1, <1>2, <1>4, <2>1, OneValve
  <1>6. CASE newDay
    <2>1. timeselect[u] \in Slot /\ u \in open /\ timeselect'[u] = 0
      <3>1. timeselect[u] \in 0 .. NSlot /\ timeselect[u] # 0
        BY <1>0, <1>1, <1>6, AloneFacts
      <3> QED
        BY <1>0, <1>1, <1>3, <1>6, <3>1, AloneFacts, ScanTypes DEF OpeningNow, Slot
    <2>2. Now(u, timeselect[u])
      BY <1>0, <1>1, <1>6, <2>1 DEF FollowInv
    <2>3. timeselect[u] \in DueWindows(u)
      BY <1>0, <1>1, <2>1, <2>2, DueWindowsNow
    <2>4. ServedBy(u) = timeselect[u]
      BY <1>0, <2>1, SizesAssumption DEF ServedBy, Slot
    <2>5. ServedBy(u)' \in DueWindows(u)
      <3>1. DueWindows(u)' = DueWindows(u) /\ DueWindows(u) \subseteq Slot
        BY <1>0, <1>2 DEF DueWindows, InWindow
      <3>2. ServedBy(u)' = CHOOSE k \in Slot : DueWindows(u)' # {} => k \in DueWindows(u)'
        BY <1>0, <1>1, <1>2, <2>1 DEF ServedBy
      <3>3. \E k \in Slot : DueWindows(u)' # {} => k \in DueWindows(u)'
        BY <1>0, <2>3, <3>1
      <3> QED
        BY <1>0, <2>3, <3>1, <3>2, <3>3
    <2> QED
      BY <1>0, <1>1, <1>2, <1>4, <2>3, <2>4, <2>5, OneValve
  <1> QED
    BY <1>0, <1>5, <1>6

LEMMA MapOpen ==
  ASSUME Alone, TypeOK, PulseInv, ScanInv, FollowInv, ServeInv, OpenForWindow
  PROVE  [Schedule!IrrigationNext]_Schedule!irrigationVars
  <1>0. PICK u \in Valve, k0 \in Slot : u = main.valve /\ k0 = main.slot
    BY ScanTypes
  <1>1. /\ main.at = "block" /\ u \in Valve /\ k0 \in Slot /\ k0 # 0
        /\ timeselect[u] = 0 /\ Read(k0)
        /\ timeselect' = [timeselect EXCEPT ![u] = k0]
    BY <1>0, ScanTypes, AloneFacts DEF OpenForWindow
  <1>2. UNCHANGED <<hour_parm, day, minute, open>>
    BY DEF OpenForWindow, memVars, clockVars, plantVars
  <1>3. \A v \in Valve \ {u} : ServedBy(v)' = ServedBy(v)
    <2> SUFFICES ASSUME NEW v \in Valve \ {u} PROVE ServedBy(v)' = ServedBy(v)
      OBVIOUS
    <2>1. timeselect'[v] = timeselect[v]
      BY <1>0, <1>1, ScanTypes
    <2>2. ~(v \in open /\ timeselect[v] = 0)
      BY <1>0, OnlyCalled
    <2> QED
      BY <1>0, <1>2, <2>1, <2>2, ServedStays
  <1>4. k0 \in DueWindows(u)
    BY <1>0, <1>1, PulseEarly, AloneFacts, DueWindowsNow
  <1>5. timeselect'[u] = k0
    BY <1>0, <1>1, ScanTypes
  <1>6. CASE u \notin open
    <2>1. ServedBy(u)' = ServedBy(u)
      BY <1>0, <1>2, <1>6 DEF ServedBy
    <2> QED
      BY <1>0, <1>1, <1>2, <1>3, <2>1, OneValve
  <1>7. CASE u \in open
    <2>1. ServedBy(u)' = k0
      BY <1>0, <1>1, <1>2, <1>5, <1>7 DEF ServedBy
    <2>2. ServedBy(u) \in DueWindows(u)
      <3>1. ServedBy(u) = CHOOSE k \in Slot : DueWindows(u) # {} => k \in DueWindows(u)
        BY <1>0, <1>1, <1>7 DEF ServedBy
      <3>2. \E k \in Slot : DueWindows(u) # {} => k \in DueWindows(u)
        BY <1>0, <1>1, <1>4
      <3> QED
        BY <1>0, <1>4, <3>1, <3>2
    <2> QED
      BY <1>0, <1>1, <1>2, <1>3, <1>4, <2>1, <2>2, OneValve
  <1> QED
    BY <1>0, <1>6, <1>7

\* The valve is still open for the window whose closing pulse begins.
LEMMA MapClose ==
  ASSUME Alone, TypeOK, PulseInv, ScanInv, FollowInv, ServeInv, CloseAfterWindow
  PROVE  [Schedule!IrrigationNext]_Schedule!irrigationVars
  <1>0. PICK u \in Valve, k0 \in Slot : u = main.valve /\ k0 = main.slot
    BY ScanTypes
  <1>1. /\ main.at = "block" /\ u \in Valve /\ k0 \in Slot /\ k0 # 0
        /\ timeselect[u] = k0
        /\ timeselect' = [timeselect EXCEPT ![u] = 0]
    BY <1>0, ScanTypes DEF CloseAfterWindow
  <1>2. UNCHANGED <<hour_parm, day, minute, open>>
    BY DEF CloseAfterWindow, memVars, clockVars, plantVars
  <1>3. main'.at = "raise" /\ main'.slot = k0
    BY <1>0, ScanTypes, AloneFacts DEF CloseAfterWindow, StartPulse, MainState
  <1>4. ASSUME NEW v \in Valve PROVE ServedBy(v)' = ServedBy(v)
    <2>1. CASE v # u
      <3>1. timeselect'[v] = timeselect[v]
        BY <1>0, <1>1, <2>1, ScanTypes
      <3>2. ~(v \in open /\ timeselect[v] = 0)
        BY <1>0, <2>1, OnlyCalled
      <3> QED
        BY <1>0, <1>2, <3>1, <3>2, ServedStays
    <2>2. CASE v = u
      <3>1. timeselect'[u] = 0
        BY <1>0, <1>1, ScanTypes
      <3> QED
        BY <1>0, <1>1, <1>2, <1>3, <2>2, <3>1 DEF ServedBy
    <2> QED
      BY <1>0, <2>1, <2>2
  <1> QED
    BY <1>0, <1>2, <1>4, ScheduleStands

\* No pulse begins, none ends for an open valve.
LEMMA MapStays ==
  ASSUME UNCHANGED <<hour_parm, day, minute, timeselect, open>>,
         main.at # "raise", main'.at # "raise"
  PROVE  [Schedule!IrrigationNext]_Schedule!irrigationVars
  <1>1. ASSUME NEW v \in Valve PROVE ServedBy(v)' = ServedBy(v)
    BY ServedStays
  <1> QED
    BY <1>1, ScheduleStands

LEMMA MapQuiet ==
  ASSUME UNCHANGED <<hour_parm, day, minute, timeselect, open, main>>
  PROVE  [Schedule!IrrigationNext]_Schedule!irrigationVars
  <1>1. ASSUME NEW v \in Valve PROVE ServedBy(v)' = ServedBy(v)
    <2>1. CASE main.at # "raise"
      BY <2>1, ServedStays
    <2>2. CASE main.at = "raise"
      BY <2>2 DEF ServedBy
    <2> QED
      BY <2>1, <2>2
  <1> QED
    BY <1>1, ScheduleStands

LEMMA MapOthers ==
  ASSUME Alone, TypeOK, PulseInv, ScanInv, FollowInv, ServeInv,
         SkipWindow \/ EndDelay \/ Lower
  PROVE  [Schedule!IrrigationNext]_Schedule!irrigationVars
  <1>1. CASE SkipWindow
    <2>1. UNCHANGED <<hour_parm, day, minute, timeselect, open>> /\ main.at = "block" /\ Advance
      BY <1>1 DEF SkipWindow, memVars, clockVars, plantVars
    <2> QED
      BY <2>1, AdvanceAt, MapStays
  <1>2. CASE EndDelay
    <2>1. /\ UNCHANGED <<hour_parm, day, minute, timeselect, open>> /\ main.at = "pulse"
          /\ main' = [main EXCEPT !.at = "lower"]
      BY <1>2, AloneFacts DEF EndDelay, memVars, clockVars, plantVars
    <2>2. main'.at = "lower"
      BY <2>1, ScanTypes DEF MainState
    <2> QED
      BY <2>1, <2>2, MapStays
  <1>3. CASE Lower
    <2>1. UNCHANGED <<hour_parm, day, minute, timeselect>> /\ main.at = "lower" /\ Advance
      BY <1>3 DEF Lower, memVars, clockVars
    <2>2. open' = open
      <3>1. energised \subseteq {<<main.valve, main.coil>>}
        BY <2>1, AloneFacts DEF PulseInv, PulsedCoil
      <3>2. <<main.valve, main.coil>> \in Valve \X Coil
        BY ScanTypes
      <3> QED
        BY <1>3, <3>1, <3>2, LowerKeeps DEF Lower
    <2> QED
      BY <2>1, <2>2, AdvanceAt, MapStays
  <1> QED
    BY <1>1, <1>2, <1>3

\* The pulse opens the valve for a window that is due, or closes it after one
\* that is no longer due.
LEMMA MapRaise ==
  ASSUME Alone, TypeOK, PulseInv, ScanInv, FollowInv, ServeInv, Raise
  PROVE  [Schedule!IrrigationNext]_Schedule!irrigationVars
  <1>0. PICK u \in Valve, k0 \in Slot : u = main.valve /\ k0 = main.slot
    BY ScanTypes
  <1>1. /\ main.at = "raise" /\ k0 # 0
        /\ ESPWriteToDigital({<<u, main.coil>>}, 1)
        /\ UNCHANGED <<hour_parm, day, minute, timeselect>>
    BY <1>0, ScanTypes DEF Raise, memVars, clockVars
  <1>2. main'.at = "pulse"
    BY <1>0, ScanTypes DEF Raise, MainState
  <1>3. /\ main.coil = "Open" => u \in open'
        /\ main.coil = "Close" => u \notin open'
        /\ \A v \in Valve \ {u} : v \in open' <=> v \in open
    <2>1. energised = {} /\ main.coil \in Coil
      BY <1>1, AloneFacts, ScanTypes DEF PulseInv, PulsedCoil
    <2>2. /\ energised' = {<<u, main.coil>>}
          /\ main.coil = "Open" => u \in open'
          /\ \A v \in Valve \ {u} : v \in open' <=> v \in open
      BY <1>1, <2>1, RaiseMoves
    <2> QED
      BY <1>1, <2>2, RaiseCloses DEF ESPWriteToDigital
  <1>4. \A v \in Valve \ {u} : ServedBy(v)' = ServedBy(v)
    <2> SUFFICES ASSUME NEW v \in Valve \ {u} PROVE ServedBy(v)' = ServedBy(v)
      OBVIOUS
    <2>1. ~(v \in open /\ timeselect[v] = 0)
      BY <1>0, OnlyCalled
    <2>2. v \in open' <=> v \in open
      BY <1>3
    <2> QED
      BY <1>1, <2>1, <2>2, ServedStays
  <1>5. k0 \in DueWindows(u) <=> Read(k0)
    <2>1. main.fresh
      BY <1>1, PulseEarly
    <2> QED
      BY <1>0, <2>1, AloneFacts, DueWindowsNow
  <1>6. CASE main.coil = "Open"
    <2>1. timeselect[u] = k0 /\ Read(k0) /\ u \in open'
      BY <1>0, <1>1, <1>3, <1>6 DEF ServeInv, RaiseInv
    <2>2. ServedBy(u)' = k0
      BY <1>1, <2>1 DEF ServedBy
    <2>3. ServedBy(u) \in {0, k0}
      BY <1>1, <2>1 DEF ServedBy
    <2>4. ServedBy(u)' = ServedBy(u) \/ (ServedBy(u) = 0 /\ ServedBy(u)' \in DueWindows(u))
      BY <1>5, <2>1, <2>2, <2>3
    <2> QED
      BY <1>1, <1>4, <2>4, OneValve
  <1>7. CASE main.coil = "Close"
    <2>1. timeselect[u] = 0 /\ ~Read(k0) /\ u \notin open'
      BY <1>0, <1>1, <1>3, <1>7 DEF ServeInv, RaiseInv
    <2>2. ServedBy(u)' = 0
      BY <2>1 DEF ServedBy
    <2>3. ServedBy(u) \in {0, k0}
      BY <1>0, <1>1, <2>1 DEF ServedBy
    <2>4. \/ ServedBy(u)' = ServedBy(u)
          \/ ServedBy(u) \notin DueWindows(u) \union {0} /\ ServedBy(u)' = 0
      BY <1>1, <1>5, <2>1, <2>2, <2>3
    <2> QED
      BY <1>1, <1>4, <2>4, OneValve
  <1> QED
    BY <1>6, <1>7, ScanTypes DEF Coil

\* When the minute changes every valve serves a due window, if it has one.
LEMMA MapTick ==
  ASSUME Alone, TypeOK, PulseInv, ScanInv, FollowInv, ServeInv, Tick
  PROVE  [Schedule!IrrigationNext]_Schedule!irrigationVars
  <1>1. UNCHANGED <<timeselect, open>> /\ \A v \in Valve : passes[v] >= 2 /\ passes[v] >= 1
    <2>1. MinPasses >= 2 /\ MinPasses \in Nat
      BY SizesAssumption DEF Alone, Undisturbed
    <2>2. \A v \in Valve : passes[v] = MinPasses
      BY DEF Tick
    <2> QED
      BY <2>1, <2>2 DEF Tick, plantVars
  <1>2. main.at \notin {"boot", "call"} =>
            /\ main.at = "block"
            /\ \A k \in Slot : timeselect[main.valve] = 0 => ~Read(k)
    BY <1>1, ScanTypes DEF ServeInv, RestInv
  <1>3. main.at # "boot"
    <2>1. main.valve \in Valve
      BY ScanTypes
    <2>2. passes[main.valve] # 0
      BY <1>1, <2>1, ScanTypes
    <2> QED
      BY <2>1, <2>2 DEF ScanInv, CallInv
  <1>4. ASSUME NEW v \in open
        PROVE  timeselect[v] \in Slot /\ Now(v, timeselect[v])
    <2>1. v \in Valve
      BY DEF TypeOK
    <2>2. timeselect[v] # 0
      <3>1. ~ClosingNow(v)
        BY <1>2 DEF ClosingNow
      <3>2. Pending(v) => timeselect[v] # 0
        BY <1>2 DEF Pending, Read
      <3> QED
        BY <3>1, <3>2, AloneFacts
    <2>3. timeselect[v] \in Slot
      BY <1>3, <2>1, <2>2, AloneFacts, SizesAssumption DEF Slot
    <2>4. Scan(v) /\ passes[v] >= 1
      BY <1>1, <2>1, AloneFacts
    <2> QED
      BY <2>3, <2>4 DEF Scan, Seen
  <1>5. ASSUME NEW v \in Valve
        PROVE  /\ ServedBy(v)' = ServedBy(v)
               /\ IF DueWindows(v) = {} THEN ServedBy(v) = 0
                                        ELSE ServedBy(v) \in DueWindows(v)
    <2>1. CASE v \in open
      <3>1. timeselect[v] \in Slot /\ timeselect[v] # 0 /\ timeselect[v] \in DueWindows(v)
        BY <1>4, <2>1, DueWindowsNow, ScanTypes
      <3>2. ServedBy(v) = timeselect[v] /\ ServedBy(v)' = timeselect[v]
        BY <1>1, <2>1, <3>1 DEF ServedBy
      <3> QED
        BY <3>1, <3>2
    <2>2. CASE v \notin open
      <3>1. Scan(v) /\ v \in trusted /\ ~taken
        BY <1>3, AloneFacts
      <3>2. ~Due(v)
        BY <1>1, <2>2, <3>1 DEF Scan
      <3>3. DueWindows(v) = {}
        BY <3>2, DueIsNow DEF DueWindows, Now
      <3>4. ServedBy(v) = 0 /\ ServedBy(v)' = 0
        BY <1>1, <2>2 DEF ServedBy
      <3> QED
        BY <3>3, <3>4
    <2> QED
      BY <2>1, <2>2
  <1> QED
    BY <1>5, ChangeMaps

LEMMA InitMaps == Alone /\ Init => Schedule!IrrigationInit
  <1> SUFFICES ASSUME Alone, Init PROVE Schedule!IrrigationInit
    OBVIOUS
  <1>1. TypeOK /\ FollowInv /\ ServeInv /\ main.at = "boot"
    BY InitType, InitFollow, InitServe DEF Alone, Init, Booting
  <1>2. \A v \in Valve : DueWindows(v) = {} /\ ServedBy(v) = 0
    BY <1>1, BootServes DEF ServeInv
  <1> QED
    BY <1>2 DEF Schedule!IrrigationInit

LEMMA NextMaps ==
  ASSUME Alone, TypeOK, PulseInv, ScanInv, FollowInv, ServeInv, [Next]_vars
  PROVE  [Schedule!IrrigationNext]_Schedule!irrigationVars
  <1>1. CASE Main
    BY <1>1, MapMemory, MapRead, MapOpen, MapClose, MapOthers, MapRaise DEF Main
  <1>2. CASE Tick
    BY <1>2, MapTick
  <1>3. CASE ReadHours \/ UNCHANGED vars
    <2>1. UNCHANGED <<hour_parm, day, minute, timeselect, open, main>>
      BY <1>3 DEF ReadHours, clockVars, plantVars, vars
    <2> QED
      BY <2>1, MapQuiet
  <1> QED
    BY <1>1, <1>2, <1>3, AloneSteps

\* On such a device, with the outputs left to the logic, the watering is the one
\* Irrigation promises: every valve is opened and closed for its due windows only,
\* once a minute at most, and is never caught with the wrong position when the
\* minute ends, however the windows overlap and whenever the minute changes.
THEOREM ScheduleImplemented == Alone => (Spec => ScheduleKept)
  <1> SUFFICES ASSUME Alone PROVE Spec => ScheduleKept
    OBVIOUS
  <1>0. Undisturbed
    BY DEF Alone
  <1>1. TypeOK /\ PulseInv /\ ScanInv /\ FollowInv /\ [Next]_vars => FollowInv'
    BY <1>0, NextFollow
  <1>2. TypeOK /\ PulseInv /\ ScanInv /\ FollowInv /\ ServeInv /\ [Next]_vars => ServeInv'
    BY NextServe
  <1>3. TypeOK /\ PulseInv /\ ScanInv /\ FollowInv /\ ServeInv /\ [Next]_vars
            => [Schedule!IrrigationNext]_Schedule!irrigationVars
    BY NextMaps
  <1>4. Init => FollowInv /\ ServeInv /\ Schedule!IrrigationInit
    BY <1>0, InitFollow, InitServe, InitMaps
  <1> QED
    BY <1>1, <1>2, <1>3, <1>4, ScanInvariant, PulseInvariant, TypeCorrect, PTL
       DEF Spec, ScheduleKept, Schedule!IrrigationSpec
=============================================================================
