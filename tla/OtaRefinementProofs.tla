------------------------- MODULE OtaRefinementProofs -------------------------
(***************************************************************************)
(* OtaUpdate implements AtomicUpdate, for any images, chunks, failures and *)
(* restarts, as long as one of the two sources is not used.                *)
(***************************************************************************)
EXTENDS OtaRefinement, OtaUpdateProofs

\* A slot begins with at most one whole image: their first bytes differ.
LEMMA HeldOnce ==
  ASSUME NEW slot, NEW i \in Image \union {Factory}, NEW k \in Image \union {Factory},
         Holds(slot, i), Holds(slot, k)
  PROVE  i = k
  <1>1. 1 \in 1 .. Size[i] /\ 1 \in 1 .. Size[k]
    BY OtaConstants
  <1>2. slot[1] = <<i, 1>> /\ slot[1] = <<k, 1>>
    BY <1>1 DEF Holds
  <1> QED
    BY <1>2

\* What the refinement takes for the spare slot's image.
LEMMA HeldIs ==
  ASSUME NEW slot
  PROVE  /\ HeldBy(slot) \in Image \union {Factory} \union {NoImage}
         /\ Whole(slot) => HeldBy(slot) # NoImage
         /\ \A i \in Image \union {Factory} : Holds(slot, i) => HeldBy(slot) = i
  <1>1. CASE Whole(slot)
    <2>1. HeldBy(slot) \in Image \union {Factory} /\ Holds(slot, HeldBy(slot))
      BY <1>1 DEF HeldBy, Whole
    <2> QED
      BY <2>1, HeldOnce, NoImageIsNone
  <1>2. CASE ~Whole(slot)
    BY <1>2 DEF HeldBy, Whole
  <1> QED
    BY <1>1, <1>2

\* The image the device leaves is whole in the slot it leaves.
LEMMA LeftWhole ==
  ASSUME NEW i \in Image \union {Factory}
  PROVE  HeldBy(Piece(i, 0, Size[i])) = i
  <1>1. Size[i] \in Nat
    BY OtaConstants
  <1> DEFINE slot == Piece(i, 0, Size[i])
  <1>2. /\ Len(slot) = Size[i]
        /\ \A n \in 1 .. Size[i] : slot[n] = <<i, 0 + n>>
    BY <1>1, PieceIs
  <1>3. \A n \in 1 .. Size[i] : 0 + n = n
    BY <1>1
  <1>4. \A n \in 1 .. Size[i] : slot[n] = <<i, n>>
    BY <1>2, <1>3
  <1>5. Len(slot) >= Size[i]
    BY <1>1, <1>2
  <1>6. Holds(slot, i)
    BY <1>4, <1>5 DEF Holds
  <1> HIDE DEF slot
  <1>7. HeldBy(slot) = i
    BY <1>6, HeldIs
  <1> QED
    BY <1>7 DEF slot

\* Once the slot is selected nothing but the restart is left to do.
LEMMA OnlyRestart ==
  ASSUME OtaTypeOK, NEW t \in Task, ~OtherStarts(t), Alone(t), SelectedThenRestart(t),
         boot = "update", OtaNext
  PROVE  Restart
  <1>1. job[t].at = "restart" /\ \A u \in Task \ {t} : job[u].at = "idle"
    BY DEF Alone, SelectedThenRestart
  <1>2. \A u \in Task : ~Step(u)
    BY <1>1 DEF Step, CheckHeader, BeginSlot, WriteSlot, EndSlot, SetBoot
  <1>3. ~(\E m \in Chunks : ReciveOTA(m)) /\ ~ReciveOTA_written /\ ~ReciveOTA_failed
    BY <1>1 DEF ReciveOTA, ReciveOTA_written, ReciveOTA_failed, OtherStarts, Task
  <1>4. ~WebStart /\ ~WebPiece /\ ~WebReturn
    BY <1>1 DEF WebStart, WebPiece, WebReturn, OtherStarts, Task
  <1> QED
    BY <1>2, <1>3, <1>4 DEF OtaNext, Uart, Web, Task

\* Only OTA_End selects a slot, and only a restart changes what runs.
LEMMA BootMoves ==
  ASSUME OtaNext, ~Restart, \A t \in Task : ~SetBoot(t)
  PROVE  UNCHANGED <<boot, running>>
  <1>1. CASE \E t \in Task : Step(t)
    BY <1>1 DEF Step, CheckHeader, BeginSlot, WriteSlot, EndSlot, bootVars
  <1>2. CASE (\E m \in Chunks : ReciveOTA(m)) \/ ReciveOTA_written \/ ReciveOTA_failed
    BY <1>2 DEF ReciveOTA, ReciveOTA_written, ReciveOTA_failed, bootVars
  <1>3. CASE WebStart \/ WebPiece \/ WebReturn
    BY <1>3 DEF WebStart, WebPiece, WebReturn, bootVars
  <1> QED
    BY <1>1, <1>2, <1>3 DEF OtaNext, Uart, Web, Task

\* Every step of the detailed update is a step of the abstract one, or none.
LEMMA StepMaps ==
  ASSUME OtaTypeOK, NEW t \in Task, ~OtherStarts(t), Alone(t), SelectedThenRestart(t),
         [OtaNext]_otaVars
  PROVE  [Atomic!AtomicNext]_(Atomic!atomicVars)
  <1>1. CASE UNCHANGED otaVars
    BY <1>1 DEF otaVars, Atomic!atomicVars, HeldBy, Whole, Holds
  <1>2. CASE Restart
    <2>1. CASE boot = "update" /\ Whole(flash)
      <3>1. /\ \E i \in Image \union {Factory} : Holds(flash, i) /\ running' = i
            /\ boot' = "running" /\ flash' = Piece(running, 0, Size[running])
        BY <1>2, <2>1 DEF Restart, Boot
      <3>2. running' = HeldBy(flash)
        BY <3>1, HeldIs
      <3>3. HeldBy(flash)' = running
        BY <3>1, LeftWhole DEF OtaTypeOK
      <3> QED
        BY <2>1, <3>1, <3>2, <3>3 DEF Atomic!AtomicNext, Atomic!Swap
    <2>2. CASE ~(boot = "update" /\ Whole(flash))
      <3>1. UNCHANGED <<boot, running, flash>>
        BY <1>2, <2>2 DEF Restart, Boot
      <3> QED
        BY <3>1 DEF Atomic!atomicVars, HeldBy, Whole, Holds
    <2> QED
      BY <2>1, <2>2
  <1>3. CASE OtaNext /\ ~Restart
    <2>1. boot # "update"
      BY <1>3, OnlyRestart
    <2>2. HeldBy(flash') \in Image \union {Factory} \union {NoImage}
      BY HeldIs
    <2>3. CASE \E u \in Task : SetBoot(u)
      <3>1. UNCHANGED <<running, flash>>
        BY <2>3 DEF SetBoot, slotVars
      <3>2. HeldBy(flash)' = HeldBy(flash)
        BY <3>1 DEF HeldBy, Whole, Holds
      <3>3. UNCHANGED boot \/ (boot' = "update" /\ Whole(flash))
        BY <2>3 DEF SetBoot
      <3>4. CASE UNCHANGED boot
        BY <3>1, <3>2, <3>4 DEF Atomic!atomicVars
      <3>5. CASE boot' = "update" /\ Whole(flash)
        <4>1. HeldBy(flash) # NoImage
          BY <3>5, HeldIs
        <4>2. (boot' = "update") = TRUE
          BY <3>5
        <4> QED
          BY <3>1, <3>2, <4>1, <4>2 DEF Atomic!AtomicNext, Atomic!Select
      <3> QED
        BY <3>3, <3>4, <3>5
    <2>4. CASE \A u \in Task : ~SetBoot(u)
      <3>1. UNCHANGED <<boot, running>>
        BY <1>3, <2>4, BootMoves
      <3> QED
        BY <2>1, <2>2, <3>1 DEF Atomic!AtomicNext, Atomic!Receive, HeldBy, Whole, Holds
    <2> QED
      BY <2>3, <2>4
  <1> QED
    BY <1>1, <1>2, <1>3

LEMMA InitMaps == OtaInit => Atomic!AtomicInit
  <1> SUFFICES ASSUME OtaInit PROVE Atomic!AtomicInit
    OBVIOUS
  <1>1. \A i \in Image \union {Factory} : ~Holds(flash, i)
    BY OtaConstants DEF OtaInit, Holds
  <1>2. HeldBy(flash) = NoImage
    BY <1>1 DEF HeldBy, Whole
  <1> QED
    BY <1>2 DEF OtaInit, Atomic!AtomicInit

\* With one source of updates, the whole of ReciveOTA or download_os_file with
\* ota_task, OTA_End, failures and restarts is an update that happens at once or
\* not at all.
THEOREM OtaImplementsAtomic ==
  ASSUME WebImages = {} \/ Chunks = {}
  PROVE  OtaSpec => UpdateIsAtomic
  <1> DEFINE Busy(t) == OnlySource(t) /\ Alone(t) /\ SelectedThenRestart(t)
             Inv == \E t \in Task : Busy(t)
  <1>1. OtaInit => Inv
    BY DEF OtaInit, Alone, SelectedThenRestart, Idle, Task, OnlySource
  <1>2. OtaTypeOK /\ Inv /\ [OtaNext]_otaVars => Inv'
    <2> SUFFICES ASSUME OtaTypeOK, [OtaNext]_otaVars, NEW t \in Task, Busy(t)
                 PROVE  Busy(t)'
      OBVIOUS
    <2> QED
      BY OneSource DEF OnlySource
  <1>3. OtaTypeOK /\ Inv /\ [OtaNext]_otaVars => [Atomic!AtomicNext]_(Atomic!atomicVars)
    <2> SUFFICES ASSUME OtaTypeOK, [OtaNext]_otaVars, NEW t \in Task, Busy(t)
                 PROVE  [Atomic!AtomicNext]_(Atomic!atomicVars)
      OBVIOUS
    <2>1. ~OtherStarts(t)
      BY DEF OtherStarts, OnlySource, WebStart, Task
    <2> QED
      BY <2>1, StepMaps
  <1> HIDE DEF Inv
  <1> QED
    BY <1>1, <1>2, <1>3, InitMaps, OtaTypeCorrect, PTL
    DEF OtaSpec, UpdateIsAtomic, Atomic!AtomicSpec
==============================================================================
