--------------------------- MODULE OtaUpdateProofs ---------------------------
(***************************************************************************)
(* Theorems about OtaUpdate, for any images, any cut into chunks, any      *)
(* order of chunks, repeated or missing ones, and any number of failures   *)
(* and restarts.                                                           *)
(***************************************************************************)
EXTENDS OtaUpdate, TLAPS

\* A handler keeps its piece while it moves on.
LEMMA GotoType ==
  ASSUME job \in [Task -> Job], NEW t \in Task,
         NEW at \in {"idle", "read", "header", "begin", "write", "written", "failed",
                     "end", "setboot", "restart"},
         Goto(t, at)
  PROVE  /\ job' \in [Task -> Job]
         /\ job'[t].at = at /\ job'[t].pos = job[t].pos /\ job'[t].len = job[t].len
         /\ job'[t].image = job[t].image
         /\ \A u \in Task \ {t} : job'[u] = job[u]
  BY DEF Goto, Job

LEMMA IdleType == Idle \in Job
  BY DEF Idle, Job

\* A piece holds its bytes, each with its own index.
LEMMA PieceIs ==
  ASSUME NEW i \in Image \union {Factory}, NEW pos \in Nat, NEW len \in Nat
  PROVE  /\ Piece(i, pos, len) \in Seq(Byte)
         /\ Len(Piece(i, pos, len)) = len
         /\ \A n \in 1 .. len : Piece(i, pos, len)[n] = <<i, pos + n>>
  BY DEF Piece, Byte

\* A whole image is a piece.
LEMMA PieceType ==
  ASSUME NEW i \in Image \union {Factory}, NEW pos \in Nat, NEW len \in Nat
  PROVE  Piece(i, pos, len) \in Seq(Byte)
  BY DEF Piece, Byte

\* What appending does to a slot, whatever the bytes are.
LEMMA AppendIs ==
  ASSUME NEW p \in Seq(Byte), NEW q \in Seq(Byte), NEW k \in Nat, NEW l \in Nat,
         Len(p) = k, Len(q) = l
  PROVE  /\ Len(p \o q) = k + l
         /\ \A n \in 1 .. k : (p \o q)[n] = p[n]
         /\ \A n \in 1 .. l : (p \o q)[k + n] = q[n]
  <1>1. Len(p \o q) = k + l
    OBVIOUS
  <1>2. \A n \in 1 .. k : (p \o q)[n] = p[n]
    OBVIOUS
  <1>3. \A n \in 1 .. l : (p \o q)[k + n] = q[n]
    OBVIOUS
  <1> QED
    BY <1>1, <1>2, <1>3

LEMMA AppendType ==
  ASSUME NEW p \in Seq(Byte), NEW q \in Seq(Byte)
  PROVE  p \o q \in Seq(Byte)
  OBVIOUS

LEMMA InitOta == OtaInit => OtaTypeOK
  <1> SUFFICES ASSUME OtaInit PROVE OtaTypeOK
    OBVIOUS
  <1>1. image_header_was_checked \in BOOLEAN /\ handleOpen \in BOOLEAN
    BY DEF OtaInit
  <1>2. job \in [Task -> Job]
    BY IdleType DEF OtaInit
  <1>3. faults \in 0 .. MaxFaults /\ restarts \in 0 .. MaxRestarts
    BY OtaConstants DEF OtaInit
  <1>4. LastPositionIndex \in Nat /\ LastOTA_length \in Nat /\ flash \in Seq(Byte)
    BY DEF OtaInit
  <1> QED
    BY <1>1, <1>2, <1>3, <1>4 DEF OtaInit, OtaTypeOK

\* Each step of ota_task and OTA_End keeps the types, in either task.
LEMMA StepType == OtaTypeOK /\ (\E t \in Task : Step(t)) => OtaTypeOK'
  <1> SUFFICES ASSUME OtaTypeOK, NEW t \in Task, Step(t) PROVE OtaTypeOK'
    OBVIOUS
  <1>a. /\ job \in [Task -> Job] /\ faults \in 0 .. MaxFaults /\ MaxFaults \in Nat
        /\ flash \in Seq(Byte) /\ job[t] \in Job /\ LastPositionIndex \in Nat
        /\ reply \in [code : Code, pos : Nat, len : Nat] \union {NoReply}
    BY OtaConstants DEF OtaTypeOK
  <1>b. Fault \/ NoFault => faults' \in 0 .. MaxFaults
    BY <1>a DEF Fault, NoFault
  <1>c. ASSUME EndFails(t)
        PROVE  /\ job' \in [Task -> Job]
               /\ reply' \in [code : Code, pos : Nat, len : Nat] \union {NoReply}
    BY <1>a, <1>c, IdleType DEF EndFails, Answer, Job, Code
  <1>1. CASE CheckHeader(t)
    <2>1. job' \in [Task -> Job]
      BY <1>1, <1>a, GotoType DEF CheckHeader
    <2>2. image_header_was_checked' \in BOOLEAN
      BY <1>1 DEF CheckHeader, OtaTypeOK
    <2>3. UNCHANGED <<cursorVars, slotVars, bootVars, reply, faults, restarts>>
      BY <1>1 DEF CheckHeader
    <2>4. handleOpen' \in BOOLEAN
      BY <2>3 DEF OtaTypeOK, slotVars
    <2> QED
      BY <2>1, <2>2, <2>3, <2>4 DEF OtaTypeOK, cursorVars, slotVars, bootVars
  <1>2. CASE BeginSlot(t)
    <2>1. job' \in [Task -> Job]
      BY <1>2, <1>a, GotoType DEF BeginSlot
    <2>2. flash' \in Seq(Byte)
      <3>1. flash' = <<>> \/ flash' = flash
        BY <1>2 DEF BeginSlot, slotVars
      <3>2. flash \in Seq(Byte) /\ <<>> \in Seq(Byte)
        BY DEF OtaTypeOK
      <3> QED
        BY <3>1, <3>2
    <2>4. handleOpen' \in BOOLEAN
      BY <1>2 DEF BeginSlot, OtaTypeOK, slotVars
    <2>3. faults' \in 0 .. MaxFaults
      BY <1>2, <1>b DEF BeginSlot
    <2> QED
      BY <1>2, <2>1, <2>2, <2>3, <2>4 DEF BeginSlot, OtaTypeOK, cursorVars, bootVars
  <1>3. CASE WriteSlot(t)
    <2>1. job' \in [Task -> Job]
      BY <1>3, <1>a, GotoType DEF WriteSlot
    <2>2. flash' \in Seq(Byte)
      <3>1. Piece(job[t].image, job[t].pos, job[t].len) \in Seq(Byte)
        BY <1>a, PieceType DEF Job
      <3>2. \/ flash' = flash
            \/ flash' = flash \o Piece(job[t].image, job[t].pos, job[t].len)
        BY <1>3 DEF WriteSlot
      <3>3. flash \in Seq(Byte)
        BY DEF OtaTypeOK
      <3>4. flash \o Piece(job[t].image, job[t].pos, job[t].len) \in Seq(Byte)
        BY <3>1, <3>3, AppendType, Zenon
      <3> QED
        BY <3>2, <3>3, <3>4, Zenon
    <2>3. faults' \in 0 .. MaxFaults
      BY <1>3, <1>b DEF WriteSlot
    <2> QED
      BY <1>3, <2>1, <2>2, <2>3 DEF WriteSlot, OtaTypeOK, cursorVars, bootVars
  <1>4. CASE EndSlot(t)
    <2>1. /\ job' \in [Task -> Job]
          /\ reply' \in [code : Code, pos : Nat, len : Nat] \union {NoReply}
      BY <1>4, <1>a, <1>c, GotoType DEF EndSlot
    <2>2. handleOpen' \in BOOLEAN /\ faults' \in 0 .. MaxFaults
      BY <1>4, <1>b DEF EndSlot
    <2> QED
      BY <1>4, <2>1, <2>2 DEF EndSlot, OtaTypeOK, cursorVars, bootVars
  <1>5. CASE SetBoot(t)
    <2>1. /\ job' \in [Task -> Job]
          /\ reply' \in [code : Code, pos : Nat, len : Nat] \union {NoReply}
      BY <1>5, <1>a, <1>c, GotoType DEF SetBoot
    <2>2. boot' \in {"running", "update"} /\ faults' \in 0 .. MaxFaults
      BY <1>5, <1>b DEF SetBoot, OtaTypeOK
    <2> QED
      BY <1>5, <2>1, <2>2 DEF SetBoot, OtaTypeOK, cursorVars, slotVars
  <1> QED
    BY <1>1, <1>2, <1>3, <1>4, <1>5 DEF Step

\* A message, and the end of its handling.
LEMMA SerialType ==
  OtaTypeOK /\ ((\E m \in Chunks : ReciveOTA(m)) \/ ReciveOTA_written \/ ReciveOTA_failed)
    => OtaTypeOK'
  <1> SUFFICES ASSUME OtaTypeOK,
                      (\E m \in Chunks : ReciveOTA(m)) \/ ReciveOTA_written \/ ReciveOTA_failed
               PROVE  OtaTypeOK'
    OBVIOUS
  <1>a. /\ job \in [Task -> Job] /\ job["uart"] \in Job
        /\ LastPositionIndex \in Nat /\ LastOTA_length \in Nat
    BY DEF OtaTypeOK, Task
  <1>1. CASE \E m \in Chunks : ReciveOTA(m)
    <2>1. PICK m \in Chunks : ReciveOTA(m)
      BY <1>1
    <2>2. m.image \in Image /\ m.pos \in Nat /\ m.len \in Nat
      BY OtaConstants
    <2>3. Begin(m) => job' \in [Task -> Job]
      <3>1. [at |-> "header", image |-> m.image, pos |-> m.pos, len |-> m.len] \in Job
        BY <2>2 DEF Job
      <3> QED
        BY <1>a, <3>1 DEF Begin
    <2>4. job' \in [Task -> Job]
      BY <1>a, <2>1, <2>3 DEF ReciveOTA, ReciveOTA_again, ReciveOTA_hole, ReciveOTA_first,
                      ReciveOTA_next
    <2>5. reply' \in [code : Code, pos : Nat, len : Nat] \union {NoReply}
      BY <1>a, <2>1, <2>2 DEF ReciveOTA, ReciveOTA_again, ReciveOTA_hole, ReciveOTA_first,
                      ReciveOTA_next, Answer, Code
    <2>6. LastPositionIndex' \in Nat /\ LastOTA_length' \in Nat
      BY <1>a, <2>1 DEF ReciveOTA, ReciveOTA_again, ReciveOTA_hole, ReciveOTA_first,
                      ReciveOTA_next, cursorVars
    <2>7. image_header_was_checked' \in BOOLEAN
      BY <2>1 DEF ReciveOTA, ReciveOTA_again, ReciveOTA_hole, ReciveOTA_first,
                      ReciveOTA_next, OtaTypeOK
    <2> QED
      BY <2>1, <2>4, <2>5, <2>6, <2>7 DEF ReciveOTA, OtaTypeOK, slotVars, bootVars
  <1>2. CASE ReciveOTA_written
    <2>1. job' \in [Task -> Job]
      BY <1>2, <1>a, GotoType, IdleType DEF ReciveOTA_written, Task
    <2>2. LastPositionIndex' \in Nat /\ LastOTA_length' \in Nat
      BY <1>2, <1>a DEF ReciveOTA_written, Job
    <2>3. reply' \in [code : Code, pos : Nat, len : Nat]
      BY <1>2, <1>a DEF ReciveOTA_written, Job, Answer, Code
    <2> QED
      BY <1>2, <2>1, <2>2, <2>3 DEF ReciveOTA_written, OtaTypeOK, slotVars, bootVars
  <1>3. CASE ReciveOTA_failed
    <2>1. job' \in [Task -> Job]
      BY <1>3, <1>a, IdleType DEF ReciveOTA_failed
    <2>2. reply' \in [code : Code, pos : Nat, len : Nat]
      BY <1>3, <1>a DEF ReciveOTA_failed, Job, Answer, Code
    <2> QED
      BY <1>3, <2>1, <2>2 DEF ReciveOTA_failed, OtaTypeOK, slotVars, bootVars, cursorVars
  <1> QED
    BY <1>1, <1>2, <1>3

\* The download from the web page.
LEMMA WebType == OtaTypeOK /\ (WebStart \/ WebPiece \/ WebReturn) => OtaTypeOK'
  <1> SUFFICES ASSUME OtaTypeOK, WebStart \/ WebPiece \/ WebReturn PROVE OtaTypeOK'
    OBVIOUS
  <1>a. /\ job \in [Task -> Job] /\ job["web"] \in Job /\ "web" \in Task
        /\ faults \in 0 .. MaxFaults /\ MaxFaults \in Nat
    BY OtaConstants DEF OtaTypeOK, Task
  <1>b. Fault \/ NoFault => faults' \in 0 .. MaxFaults
    BY <1>a DEF Fault, NoFault
  <1>1. CASE WebStart
    <2>1. job' \in [Task -> Job]
      <3>1. PICK i \in WebImages :
               job' = [job EXCEPT !["web"] = [Idle EXCEPT !.at = "read", !.image = i]]
        BY <1>1 DEF WebStart
      <3>2. [Idle EXCEPT !.at = "read", !.image = i] \in Job
        BY OtaConstants DEF Idle, Job
      <3> QED
        BY <1>a, <3>1, <3>2
    <2>2. faults' \in 0 .. MaxFaults
      BY <1>1, <1>b DEF WebStart
    <2>3. image_header_was_checked' \in BOOLEAN
      BY <1>1 DEF WebStart, OtaTypeOK
    <2> QED
      BY <1>1, <2>1, <2>2, <2>3 DEF WebStart, OtaTypeOK, cursorVars, slotVars, bootVars
  <1>2. CASE WebPiece
    <2> DEFINE j == job["web"]
               next == j.pos + j.len
               left == Size[j.image] - next
    <2>0. j.pos \in Nat /\ j.len \in Nat /\ next \in Nat /\ Size[j.image] \in Nat
      BY <1>a, OtaConstants DEF Job
    <2>1. job' \in [Task -> Job]
      <3>1. ASSUME NEW n \in 1 .. WebRead,
                   job' = [job EXCEPT !["web"].at = "header", !["web"].pos = next,
                                      !["web"].len = n]
            PROVE  job' \in [Task -> Job]
        <4>1. n \in Nat
          BY OtaConstants
        <4> HIDE DEF j, next, left
        <4> QED
          BY <1>a, <2>0, <3>1, <4>1 DEF Job
      <3>2. CASE Goto("web", "end")
        BY <1>a, <3>2, GotoType
      <3> QED
        BY <1>2, <3>1, <3>2 DEF WebPiece
    <2>2. faults' \in 0 .. MaxFaults
      BY <1>2, <1>b DEF WebPiece
    <2> QED
      BY <1>2, <2>1, <2>2 DEF WebPiece, OtaTypeOK, cursorVars, slotVars, bootVars
  <1>3. CASE WebReturn
    <2>1. job' \in [Task -> Job]
      BY <1>3, <1>a, GotoType DEF WebReturn
    <2> QED
      BY <1>3, <2>1 DEF WebReturn, OtaTypeOK, cursorVars, slotVars, bootVars
  <1> QED
    BY <1>1, <1>2, <1>3

LEMMA RestartType == OtaTypeOK /\ Restart => OtaTypeOK'
  <1> SUFFICES ASSUME OtaTypeOK, Restart PROVE OtaTypeOK'
    OBVIOUS
  <1>1. Boot /\ restarts' \in 0 .. MaxRestarts
    BY OtaConstants DEF Restart, OtaTypeOK
  <1>2. job' \in [Task -> Job]
    BY <1>1, IdleType DEF Boot
  <1>3. /\ flash' \in Seq(Byte) /\ boot' \in {"running", "update"}
        /\ running' \in Image \union {Factory}
    <2>1. running \in Image \union {Factory} /\ Size[running] \in Nat
      BY OtaConstants DEF OtaTypeOK
    <2>2. Piece(running, 0, Size[running]) \in Seq(Byte)
      BY <2>1, PieceType
    <2> QED
      BY <1>1, <2>2 DEF Boot, OtaTypeOK
  <1> QED
    BY <1>1, <1>2, <1>3 DEF Boot, OtaTypeOK

\* Every variable of the update keeps its type, with both sources of updates.
THEOREM OtaTypeCorrect == OtaSpec => []OtaTypeOK
  <1>1. OtaTypeOK /\ UNCHANGED otaVars => OtaTypeOK'
    BY DEF otaVars, OtaTypeOK
  <1>2. OtaTypeOK /\ [OtaNext]_otaVars => OtaTypeOK'
    BY <1>1, StepType, SerialType, WebType, RestartType DEF OtaNext, Uart, Web, Task
  <1> QED
    BY <1>2, InitOta, PTL DEF OtaSpec
-----------------------------------------------------------------------------
(***************************************************************************)
(* The selected slot.  Only task t is ever busy, so between SetBoot and    *)
(* the restart nothing else runs.                                          *)
(***************************************************************************)
OnlySource(t) == IF t = "uart" THEN WebImages = {} ELSE Chunks = {}

Alone(t) == \A u \in Task \ {t} : job[u].at = "idle"
SelectedThenRestart(t) == boot = "update" => Whole(flash) /\ job[t].at = "restart"

\* The other task begins an update.
OtherStarts(t) == IF t = "uart" THEN WebStart ELSE \E m \in Chunks : ReciveOTA(m)

LEMMA OneTask ==
  ASSUME OtaTypeOK, NEW t \in Task, ~OtherStarts(t), Alone(t), SelectedThenRestart(t),
         [OtaNext]_otaVars
  PROVE  Alone(t)' /\ SelectedThenRestart(t)'
  <1>a. job \in [Task -> Job]
    BY DEF OtaTypeOK
  <1>1. CASE \E u \in Task : Step(u)
    <2>1. PICK u \in Task : Step(u)
      BY <1>1
    <2>2. job[u].at \in {"header", "begin", "write", "end", "setboot"}
      BY <2>1 DEF Step, CheckHeader, BeginSlot, WriteSlot, EndSlot, SetBoot
    <2>3. u = t
      BY <2>2 DEF Alone
    <2>4. boot # "update"
      BY <2>2, <2>3 DEF SelectedThenRestart
    <2>5. \A v \in Task \ {t} : job'[v] = job[v]
      BY <1>a, <2>1, <2>3 DEF Step, CheckHeader, BeginSlot, WriteSlot, EndSlot, SetBoot,
                          EndFails, Goto
    <2>6. CASE SetBoot(t)
      <3>1. boot' = "update" => Whole(flash) /\ Goto(t, "restart")
        BY <2>4, <2>6 DEF SetBoot
      <3>2. boot' = "update" => job'[t].at = "restart"
        BY <1>a, <3>1, GotoType
      <3>3. flash' = flash
        BY <2>6 DEF SetBoot, slotVars
      <3> QED
        BY <2>5, <3>1, <3>2, <3>3 DEF Alone, SelectedThenRestart, Whole, Holds
    <2>7. CASE ~SetBoot(t)
      <3>1. boot' = boot
        BY <2>1, <2>3, <2>7 DEF Step, CheckHeader, BeginSlot, WriteSlot, EndSlot, bootVars
      <3> QED
        BY <2>4, <2>5, <3>1 DEF Alone, SelectedThenRestart
    <2> QED
      BY <2>6, <2>7
  <1>2. CASE (\E m \in Chunks : ReciveOTA(m)) \/ ReciveOTA_written \/ ReciveOTA_failed
    <2>1. t = "uart" /\ job["uart"].at \in {"idle", "written", "failed"}
      BY <1>2 DEF ReciveOTA, ReciveOTA_written, ReciveOTA_failed, OtherStarts, Alone, Task
    <2>2. boot # "update" /\ boot' = boot
      BY <1>2, <2>1 DEF SelectedThenRestart, ReciveOTA, ReciveOTA_written, ReciveOTA_failed,
                    bootVars
    <2>3. \A v \in Task \ {t} : job'[v] = job[v]
      BY <1>a, <1>2, <2>1 DEF ReciveOTA, ReciveOTA_again, ReciveOTA_hole, ReciveOTA_first,
           ReciveOTA_next, Begin, ReciveOTA_written, ReciveOTA_failed, Goto
    <2> QED
      BY <2>2, <2>3 DEF Alone, SelectedThenRestart
  <1>3. CASE WebStart \/ WebPiece \/ WebReturn
    <2>1. t = "web" /\ job["web"].at \in {"idle", "read", "written", "failed"}
      BY <1>3 DEF WebStart, WebPiece, WebReturn, OtherStarts, Alone, Task
    <2>2. boot # "update" /\ boot' = boot
      BY <1>3, <2>1 DEF SelectedThenRestart, WebStart, WebPiece, WebReturn, bootVars
    <2>3. \A v \in Task \ {t} : job'[v] = job[v]
      BY <1>a, <1>3, <2>1 DEF WebStart, WebPiece, WebReturn, Goto
    <2> QED
      BY <2>2, <2>3 DEF Alone, SelectedThenRestart
  <1>4. CASE Restart
    <2>1. job' = [u \in Task |-> Idle]
      BY <1>4 DEF Restart, Boot
    <2>2. boot' # "update"
      BY <1>4 DEF Restart, Boot, SelectedThenRestart, OtaTypeOK
    <2> QED
      BY <2>1, <2>2 DEF Alone, SelectedThenRestart, Idle
  <1>5. CASE UNCHANGED otaVars
    BY <1>5 DEF otaVars, Alone, SelectedThenRestart, Whole, Holds
  <1> QED
    BY <1>1, <1>2, <1>3, <1>4, <1>5 DEF OtaNext, Uart, Web, Task

LEMMA OneSource ==
  ASSUME OtaTypeOK, NEW t \in Task, OnlySource(t), Alone(t), SelectedThenRestart(t),
         [OtaNext]_otaVars
  PROVE  Alone(t)' /\ SelectedThenRestart(t)'
  <1>1. ~OtherStarts(t)
    BY DEF OtherStarts, OnlySource, WebStart, Task
  <1> QED
    BY <1>1, OneTask

\* With one source of updates, whichever it is, and any failures and restarts,
\* the slot otadata selects always holds a whole image: a power cut never finds
\* the boot loader directed to a half-written one.
THEOREM SelectedSlotSafe == OtaSpec => []SelectedSlotWhole
  <1> DEFINE Inv(t) == OnlySource(t) => Alone(t) /\ SelectedThenRestart(t)
             AllInv == Inv("uart") /\ Inv("web")
  <1>1. OtaInit => AllInv
    BY DEF OtaInit, Alone, SelectedThenRestart, Idle, Task
  <1>2. OtaTypeOK /\ AllInv /\ [OtaNext]_otaVars => AllInv'
    <2> SUFFICES ASSUME OtaTypeOK, AllInv, [OtaNext]_otaVars,
                        NEW t \in Task, OnlySource(t)
                 PROVE  Alone(t)' /\ SelectedThenRestart(t)'
      BY DEF OnlySource, Task
    <2>1. Alone(t) /\ SelectedThenRestart(t)
      BY DEF Task
    <2> QED
      BY <2>1, OneSource
  <1>3. AllInv => SelectedSlotWhole
    BY DEF SelectedSlotWhole, OnlySource, SelectedThenRestart
  <1> HIDE DEF AllInv
  <1> QED
    BY <1>1, <1>2, <1>3, OtaTypeCorrect, PTL DEF OtaSpec
-----------------------------------------------------------------------------
(***************************************************************************)
(* The cursor and the answers, without the web update.  CursorMatchesFlash *)
(* says nothing of the middle of ota_task, and AckMeansWritten nothing of  *)
(* what the next repeated chunk will be told; the invariant ties the       *)
(* cursor, the piece being written and the last answer to the slot.        *)
(***************************************************************************)
End == LastPositionIndex + LastOTA_length
Cut(p, l) == \E c \in Chunks : c.pos = p /\ c.len = l

\* The cursor names a chunk of the server's, and all up to its end is stored.
CursorInv ==
    /\ LastPositionIndex > 0 => LastOTA_length > 0
    /\ LastOTA_length > 0 => /\ image_header_was_checked
                             /\ Stored(0, End)
                             /\ Cut(LastPositionIndex, LastOTA_length)
    /\ LastOTA_length > 0 /\ handleOpen /\ job["uart"].at # "written" => Len(flash) = End

\* The piece in ota_task is chunk 0 of an update that begins, or follows End.
PieceInv ==
    LET j == job["uart"]
    IN  /\ j.at # "idle" => Cut(j.pos, j.len)
        /\ j.at \in {"header", "begin", "write"} =>
              \/ j.pos = 0 /\ LastOTA_length = 0
              \/ j.pos = End /\ LastOTA_length > 0
        /\ j.at = "header" /\ j.pos = 0 => ~image_header_was_checked
        /\ j.at = "begin" => j.pos = 0 /\ image_header_was_checked
        /\ j.at = "write" => image_header_was_checked /\ (j.pos = 0 => flash = <<>>)
        /\ j.at = "written" => /\ image_header_was_checked
                               /\ Len(flash) = j.pos + j.len
                               /\ Stored(0, j.pos + j.len)

\* The answer to a message is given when ota_task is through with it.
ReplyInv ==
    /\ job["uart"].at \in {"header", "begin", "write", "written", "failed"} => reply = NoReply
    /\ job["uart"].at \in {"end", "setboot", "restart"} => reply = NoReply \/ reply.code = 6
    /\ reply # NoReply /\ reply.code = 1 => Stored(reply.pos, reply.pos + reply.len)

SerialInv == CursorInv /\ PieceInv /\ ReplyInv

LEMMA CutNat ==
  ASSUME NEW p, NEW l, Cut(p, l)
  PROVE  p \in Nat /\ l \in Nat /\ l > 0
  BY OtaConstants DEF Cut

\* A chunk that begins no later than another ends no later.
LEMMA CutOrder ==
  ASSUME NEW p, NEW l, Cut(p, l), NEW c \in Chunks, c.pos <= p
  PROVE  c.pos + c.len <= p + l
  <1>1. PICK d \in Chunks : d.pos = p /\ d.len = l
    BY DEF Cut
  <1>2. c.pos \in Nat /\ c.len \in Nat /\ d.pos \in Nat /\ d.len \in Nat
    BY OtaConstants
  <1>3. (c.pos = d.pos => c.len = d.len) /\ (c.pos < d.pos => c.pos + c.len <= d.pos)
    BY ChunkLayout
  <1> QED
    BY <1>1, <1>2, <1>3

\* The cursor's part holds as long as neither cursor nor slot changes.
LEMMA CursorKept ==
  ASSUME CursorInv, UNCHANGED <<LastPositionIndex, LastOTA_length, flash>>,
         image_header_was_checked => image_header_was_checked',
         handleOpen' => handleOpen,
         job["uart"].at # "written" \/ job'["uart"].at = "written" \/ ~handleOpen'
  PROVE  CursorInv'
  BY DEF CursorInv, Cut, Stored, End

LEMMA UartTypes ==
  ASSUME OtaTypeOK
  PROVE  /\ LastPositionIndex \in Nat /\ LastOTA_length \in Nat /\ End \in Nat
         /\ job \in [Task -> Job] /\ "uart" \in Task /\ "web" \in Task
         /\ job["uart"] \in Job /\ job["uart"].pos \in Nat /\ job["uart"].len \in Nat
         /\ job["uart"].image \in Image \union {Factory}
         /\ Len(flash) \in Nat
  <1>1. LastPositionIndex \in Nat /\ LastOTA_length \in Nat /\ job \in [Task -> Job]
    BY DEF OtaTypeOK
  <1>2. Len(flash) \in Nat
    BY DEF OtaTypeOK
  <1>3. job["uart"] \in Job
    BY <1>1 DEF Task
  <1> QED
    BY <1>1, <1>2, <1>3 DEF Job, Task, End

LEMMA SerialHeader ==
  ASSUME OtaTypeOK, SerialInv, CheckHeader("uart")
  PROVE  SerialInv'
  <1>1. /\ job["uart"].at = "header"
        /\ UNCHANGED <<LastPositionIndex, LastOTA_length, flash, handleOpen, reply>>
    BY DEF CheckHeader, cursorVars, slotVars
  <1>2. /\ \/ /\ image_header_was_checked /\ image_header_was_checked'
              /\ job'["uart"].at = "write"
           \/ /\ ~image_header_was_checked /\ image_header_was_checked'
              /\ job'["uart"].at = "begin"
           \/ job'["uart"].at = "failed" /\ image_header_was_checked' = image_header_was_checked
        /\ job'["uart"].pos = job["uart"].pos /\ job'["uart"].len = job["uart"].len
    BY UartTypes, GotoType DEF CheckHeader
  <1>3. CursorInv'
    BY <1>1, <1>2, CursorKept DEF SerialInv
  <1>4. PieceInv'
    BY <1>1, <1>2, UartTypes DEF SerialInv, PieceInv, CursorInv, Cut, End
  <1>5. ReplyInv'
    BY <1>1, <1>2 DEF SerialInv, ReplyInv
  <1> QED
    BY <1>3, <1>4, <1>5 DEF SerialInv

LEMMA SerialBegin ==
  ASSUME OtaTypeOK, SerialInv, BeginSlot("uart")
  PROVE  SerialInv'
  <1>1. /\ job["uart"].at = "begin" /\ job["uart"].pos = 0
        /\ LastOTA_length = 0 /\ LastPositionIndex = 0 /\ reply = NoReply
        /\ image_header_was_checked
    BY UartTypes DEF BeginSlot, SerialInv, PieceInv, ReplyInv, CursorInv, End
  <1>2. UNCHANGED <<LastPositionIndex, LastOTA_length, image_header_was_checked, reply>>
    BY DEF BeginSlot, cursorVars
  <1>3. /\ \/ job'["uart"].at = "write" /\ flash' = <<>>
           \/ job'["uart"].at = "failed"
        /\ job'["uart"].pos = job["uart"].pos /\ job'["uart"].len = job["uart"].len
    BY UartTypes, GotoType DEF BeginSlot
  <1>4. CursorInv'
    BY <1>1, <1>2 DEF CursorInv
  <1>5. PieceInv'
    BY <1>1, <1>2, <1>3 DEF SerialInv, PieceInv, Cut, End
  <1>6. ReplyInv'
    BY <1>1, <1>2, <1>3 DEF ReplyInv
  <1> QED
    BY <1>4, <1>5, <1>6 DEF SerialInv

\* The piece that is written begins where the slot's content ends.
LEMMA SerialWrite ==
  ASSUME OtaTypeOK, SerialInv, WriteSlot("uart")
  PROVE  SerialInv'
  <1> DEFINE j == job["uart"]
  <1>1. /\ j.at = "write" /\ reply = NoReply /\ image_header_was_checked
        /\ Cut(j.pos, j.len)
        /\ \/ j.pos = 0 /\ LastOTA_length = 0 /\ flash = <<>>
           \/ j.pos = End /\ LastOTA_length > 0 /\ Stored(0, End)
        /\ handleOpen /\ LastOTA_length > 0 => Len(flash) = End
    BY UartTypes DEF WriteSlot, SerialInv, PieceInv, ReplyInv, CursorInv
  <1>2. UNCHANGED <<LastPositionIndex, LastOTA_length, image_header_was_checked, reply,
                    handleOpen>>
    BY DEF WriteSlot, cursorVars
  <1>3. ReplyInv'
    <2>1. job'["uart"].at \in {"written", "failed"}
      BY UartTypes, GotoType DEF WriteSlot
    <2> QED
      BY <1>1, <1>2, <2>1 DEF ReplyInv
  <1>4. CASE /\ Writable("uart")
             /\ flash' = flash \o Piece(j.image, j.pos, j.len)
             /\ Goto("uart", "written")
    <2>1. /\ job'["uart"].at = "written" /\ job'["uart"].pos = j.pos /\ job'["uart"].len = j.len
      BY <1>4, UartTypes, GotoType
    <2>2. Len(flash) = j.pos /\ Stored(0, j.pos)
      BY <1>1, <1>4 DEF Writable, Stored
    <2>3. flash \in Seq(Byte) /\ j.image \in Image \union {Factory} /\ j.pos \in Nat /\ j.len \in Nat
      BY UartTypes DEF OtaTypeOK
    <2>4. /\ Len(flash') = j.pos + j.len
          /\ \A n \in 1 .. j.pos : flash'[n] = flash[n]
          /\ \A n \in j.pos + 1 .. j.pos + j.len : flash'[n] = <<j.image, n>>
      <3> HIDE DEF j
      <3> DEFINE p == Piece(j.image, j.pos, j.len)
      <3>1. p \in Seq(Byte) /\ Len(p) = j.len
        BY <2>3, PieceIs
      <3>2. \A n \in 1 .. j.len : p[n] = <<j.image, j.pos + n>>
        BY <2>3, PieceIs
      <3>3. flash' = flash \o p
        BY <1>4
      <3> HIDE DEF p
      <3>4. Len(flash) = j.pos
        BY <2>2
      <3>5. /\ Len(flash \o p) = j.pos + j.len
            /\ \A n \in 1 .. j.pos : (flash \o p)[n] = flash[n]
            /\ \A n \in 1 .. j.len : (flash \o p)[j.pos + n] = p[n]
        BY <2>3, <3>1, <3>4, AppendIs
      <3>6. \A n \in j.pos + 1 .. j.pos + j.len : flash'[n] = <<j.image, n>>
        <4> TAKE n \in j.pos + 1 .. j.pos + j.len
        <4>1. n - j.pos \in 1 .. j.len /\ j.pos + (n - j.pos) = n
          BY <2>3
        <4>2. p[n - j.pos] = <<j.image, n>>
          BY <3>2, <4>1
        <4> QED
          BY <3>3, <3>5, <4>1, <4>2
      <3> QED
        BY <3>3, <3>5, <3>6
    <2>5. \A n \in 1 .. j.pos + j.len : flash'[n][2] = n
      <3> HIDE DEF j
      <3> TAKE n \in 1 .. j.pos + j.len
      <3>1. CASE n \in 1 .. j.pos
        BY <2>2, <2>4, <3>1 DEF Stored
      <3>2. CASE n \in j.pos + 1 .. j.pos + j.len
        BY <2>4, <3>2
      <3>3. n \in 1 .. j.pos \/ n \in j.pos + 1 .. j.pos + j.len
        BY <2>3
      <3> QED
        BY <3>1, <3>2, <3>3
    <2>6. PieceInv'
      BY <1>1, <1>2, <2>1, <2>3, <2>4, <2>5 DEF PieceInv, Cut, Stored
    <2>7. CursorInv'
      BY <1>1, <1>2, <2>1, <2>3, <2>4, <2>5, UartTypes DEF SerialInv, CursorInv, Cut, Stored, End
    <2> QED
      BY <1>3, <2>6, <2>7 DEF SerialInv
  <1>5. CASE Goto("uart", "failed") /\ UNCHANGED flash
    <2>1. /\ job'["uart"].at = "failed" /\ job'["uart"].pos = j.pos /\ job'["uart"].len = j.len
      BY <1>5, UartTypes, GotoType
    <2>2. CursorInv'
      BY <1>1, <1>2, <1>5, CursorKept DEF SerialInv
    <2>3. PieceInv'
      BY <1>1, <1>2, <2>1 DEF PieceInv, Cut
    <2> QED
      BY <1>3, <2>2, <2>3 DEF SerialInv
  <1> QED
    BY <1>4, <1>5 DEF WriteSlot

\* OTA_End.
LEMMA SerialEnd ==
  ASSUME OtaTypeOK, SerialInv, EndSlot("uart") \/ SetBoot("uart")
  PROVE  SerialInv'
  <1>1. /\ job["uart"].at \in {"end", "setboot"}
        /\ UNCHANGED <<LastPositionIndex, LastOTA_length, flash, image_header_was_checked>>
        /\ handleOpen' => handleOpen
    BY DEF EndSlot, SetBoot, cursorVars, slotVars
  <1>2. \/ /\ job'["uart"].at \in {"setboot", "restart"} /\ reply' = reply
           /\ job'["uart"].pos = job["uart"].pos /\ job'["uart"].len = job["uart"].len
        \/ job'["uart"].at = "idle" /\ reply'.code = 4
    BY UartTypes, GotoType DEF EndSlot, SetBoot, EndFails, Answer, Idle
  <1>3. CursorInv'
    BY <1>1, CursorKept DEF SerialInv
  <1>4. PieceInv'
    BY <1>1, <1>2 DEF SerialInv, PieceInv, Cut
  <1>5. ReplyInv'
    BY <1>1, <1>2 DEF SerialInv, ReplyInv, Stored
  <1> QED
    BY <1>3, <1>4, <1>5 DEF SerialInv

\* A message: a repeated chunk that is acknowledged lies before End.
LEMMA SerialMessage ==
  ASSUME OtaTypeOK, SerialInv, NEW m \in Chunks, ReciveOTA(m)
  PROVE  SerialInv'
  <1>1. /\ job["uart"].at = "idle" /\ UNCHANGED <<flash, handleOpen>>
        /\ m.pos \in Nat /\ m.len \in Nat /\ m.image \in Image
    BY OtaConstants DEF ReciveOTA, slotVars
  <1>2. Begin(m) => /\ job'["uart"].at = "header" /\ job'["uart"].pos = m.pos
                    /\ job'["uart"].len = m.len
    BY UartTypes DEF Begin
  <1>3. CASE ReciveOTA_again(m)
    <2>1. UNCHANGED <<LastPositionIndex, LastOTA_length, image_header_was_checked, job>>
      BY <1>3 DEF ReciveOTA_again, cursorVars
    <2>2. LastOTA_length > 0 /\ Stored(0, End) /\ Cut(LastPositionIndex, LastOTA_length)
      BY <1>1, <1>3, UartTypes DEF ReciveOTA_again, AlreadyWritten, SerialInv, CursorInv
    <2>3. m.pos + m.len <= End
      BY <1>3, <2>2, CutOrder DEF ReciveOTA_again, AlreadyWritten, End
    <2>4. Stored(m.pos, m.pos + m.len)
      BY <1>1, <2>2, <2>3, UartTypes DEF Stored
    <2>5. ReplyInv'
      BY <1>1, <1>3, <2>1, <2>4 DEF ReciveOTA_again, Answer, ReplyInv, Stored
    <2>6. CursorInv' /\ PieceInv'
      BY <1>1, <2>1, CursorKept DEF SerialInv, PieceInv
    <2> QED
      BY <2>5, <2>6 DEF SerialInv
  <1>4. CASE ReciveOTA_hole(m)
    <2>1. /\ UNCHANGED <<LastPositionIndex, LastOTA_length, image_header_was_checked, job>>
          /\ reply'.code = 5
      BY <1>4 DEF ReciveOTA_hole, cursorVars, Answer
    <2> QED
      BY <1>1, <2>1, CursorKept DEF SerialInv, PieceInv, ReplyInv
  <1>5. CASE ReciveOTA_first(m)
    <2>1. /\ LastPositionIndex' = 0 /\ LastOTA_length' = 0 /\ image_header_was_checked' = FALSE
          /\ Begin(m) /\ m.pos = 0 /\ reply' = NoReply
      BY <1>5 DEF ReciveOTA_first
    <2> QED
      BY <1>1, <1>2, <2>1 DEF SerialInv, CursorInv, PieceInv, ReplyInv, Cut
  <1>6. CASE ReciveOTA_next(m)
    <2>1. /\ UNCHANGED <<LastPositionIndex, LastOTA_length, image_header_was_checked>>
          /\ Begin(m) /\ m.pos # 0 /\ m.pos = End /\ reply' = NoReply
      BY <1>6 DEF ReciveOTA_next, Hole, cursorVars, End
    <2>2. LastOTA_length > 0
      BY <2>1, UartTypes DEF SerialInv, CursorInv, End
    <2>3. CursorInv'
      BY <1>1, <1>2, <2>1, CursorKept DEF SerialInv
    <2> QED
      BY <1>1, <1>2, <2>1, <2>2, <2>3 DEF SerialInv, PieceInv, ReplyInv, Cut, End
  <1> QED
    BY <1>3, <1>4, <1>5, <1>6 DEF ReciveOTA

\* The end of a message: the cursor moves over the piece just written.
LEMMA SerialAnswer ==
  ASSUME OtaTypeOK, SerialInv, ReciveOTA_written \/ ReciveOTA_failed
  PROVE  SerialInv'
  <1> DEFINE j == job["uart"]
  <1>1. /\ UNCHANGED <<flash, handleOpen, image_header_was_checked>>
        /\ j.pos \in Nat /\ j.len \in Nat
    BY UartTypes DEF ReciveOTA_written, ReciveOTA_failed, slotVars
  <1>2. CASE ReciveOTA_written
    <2>1. /\ j.at = "written" /\ LastPositionIndex' = j.pos /\ LastOTA_length' = j.len
          /\ Cut(j.pos, j.len) /\ image_header_was_checked
          /\ Len(flash) = j.pos + j.len /\ Stored(0, j.pos + j.len)
      BY <1>2 DEF ReciveOTA_written, SerialInv, PieceInv
    <2>2. /\ \/ job'["uart"].at = "end" /\ reply' = [code |-> 6, pos |-> j.pos, len |-> j.len]
             \/ job'["uart"].at = "idle" /\ reply' = [code |-> 1, pos |-> j.pos, len |-> j.len]
          /\ job'["uart"].at = "end" => job'["uart"].pos = j.pos /\ job'["uart"].len = j.len
      <3>1. CASE IsLast(j)
        BY <1>2, <3>1, UartTypes, GotoType DEF ReciveOTA_written, Answer
      <3>2. CASE ~IsLast(j)
        BY <1>2, <3>2, UartTypes DEF ReciveOTA_written, Answer, Idle
      <3> QED
        BY <3>1, <3>2
    <2>3. j.len > 0
      BY <2>1, CutNat
    <2>4. CursorInv'
      BY <1>1, <2>1, <2>3 DEF CursorInv, Cut, Stored, End
    <2>5. PieceInv'
      BY <2>1, <2>2 DEF PieceInv, Cut
    <2>6. ReplyInv'
      BY <1>1, <2>1, <2>2 DEF ReplyInv, Stored
    <2> QED
      BY <2>4, <2>5, <2>6 DEF SerialInv
  <1>3. CASE ReciveOTA_failed
    <2>1. /\ j.at = "failed" /\ job'["uart"].at = "idle" /\ reply'.code = 4
          /\ UNCHANGED <<LastPositionIndex, LastOTA_length>>
      BY <1>3, UartTypes DEF ReciveOTA_failed, cursorVars, Answer, Idle
    <2>2. CursorInv'
      BY <1>1, <2>1, CursorKept DEF SerialInv
    <2> QED
      BY <2>1, <2>2 DEF SerialInv, PieceInv, ReplyInv
  <1> QED
    BY <1>2, <1>3

\* A restart takes the cursor back to the start.  It changes the slot only
\* after OTA_End, when the last answer acknowledged the end of an update.
LEMMA SerialRestart ==
  ASSUME OtaTypeOK, SerialInv, SelectedThenRestart("uart"), Restart
  PROVE  SerialInv'
  <1>1. /\ LastPositionIndex' = 0 /\ LastOTA_length' = 0 /\ job' = [t \in Task |-> Idle]
        /\ reply' = reply
        /\ flash' = flash \/ boot = "update"
    BY DEF Restart, Boot
  <1>2. job'["uart"].at = "idle"
    BY <1>1 DEF Idle, Task
  <1>3. CursorInv' /\ PieceInv'
    BY <1>1, <1>2 DEF CursorInv, PieceInv
  <1>4. ReplyInv'
    BY <1>1, <1>2 DEF SerialInv, ReplyInv, Stored, SelectedThenRestart
  <1> QED
    BY <1>3, <1>4 DEF SerialInv

LEMMA SerialStep ==
  ASSUME OtaTypeOK, ~WebStart, Alone("uart"), SelectedThenRestart("uart"), SerialInv,
         [OtaNext]_otaVars
  PROVE  SerialInv'
  <1>1. CASE OtaNext
    <2>1. job["web"].at = "idle"
      BY DEF Alone, Task
    <2>2. ~Step("web") /\ ~WebPiece /\ ~WebReturn
      BY <2>1 DEF Step, CheckHeader, BeginSlot, WriteSlot, EndSlot, SetBoot, WebPiece,
                  WebReturn
    <2> QED
      BY <1>1, <2>2, SerialHeader, SerialBegin, SerialWrite, SerialEnd, SerialMessage,
         SerialAnswer, SerialRestart DEF OtaNext, Uart, Web, Step
  <1>2. CASE UNCHANGED otaVars
    BY <1>2 DEF otaVars, SerialInv, CursorInv, PieceInv, ReplyInv, Cut, Stored, End
  <1> QED
    BY <1>1, <1>2

LEMMA SerialAlways == OtaSpec => [](WebImages = {} => SerialInv)
  <1> DEFINE Inv == WebImages = {} =>
                       Alone("uart") /\ SelectedThenRestart("uart") /\ SerialInv
  <1>1. OtaInit => Inv
    <2> SUFFICES ASSUME OtaInit PROVE Inv
      OBVIOUS
    <2>1. Alone("uart") /\ SelectedThenRestart("uart")
      BY DEF OtaInit, Alone, SelectedThenRestart, Idle, Task
    <2>2. CursorInv
      BY DEF OtaInit, CursorInv
    <2>3. PieceInv /\ ReplyInv
      BY DEF OtaInit, PieceInv, ReplyInv, Idle, Task
    <2> QED
      BY <2>1, <2>2, <2>3 DEF SerialInv
  <1>2. OtaTypeOK /\ Inv /\ [OtaNext]_otaVars => Inv'
    <2> SUFFICES ASSUME OtaTypeOK, Inv, [OtaNext]_otaVars, WebImages = {} PROVE Inv'
      OBVIOUS
    <2>1. Alone("uart")' /\ SelectedThenRestart("uart")'
      BY OneSource DEF OnlySource, Task
    <2>2. ~WebStart
      BY DEF WebStart
    <2> QED
      BY <2>1, <2>2, SerialStep
  <1>3. Inv => (WebImages = {} => SerialInv)
    OBVIOUS
  <1> HIDE DEF Inv
  <1> QED
    BY <1>1, <1>2, <1>3, OtaTypeCorrect, PTL DEF OtaSpec

\* Without the web update, for any order of chunks: all the cursor counts as
\* received is in the slot, in order, and the slot holds no more than that.
THEOREM CursorSafe == OtaSpec => []CursorMatchesFlash
  <1>1. OtaTypeOK /\ (WebImages = {} => SerialInv) => CursorMatchesFlash
    BY DEF CursorMatchesFlash, SerialInv, CursorInv, End
  <1> QED
    BY <1>1, OtaTypeCorrect, SerialAlways, PTL

\* Without the web update, for any order of chunks: the server is never told
\* that a chunk was received that is not in the slot.
THEOREM AckSafe == OtaSpec => []AckMeansWritten
  <1>1. (WebImages = {} => SerialInv) => AckMeansWritten
    BY DEF AckMeansWritten, SerialInv, ReplyInv
  <1> QED
    BY <1>1, SerialAlways, PTL
-----------------------------------------------------------------------------
(***************************************************************************)
(* A program that fits one chunk (protocol.c:541 and 543): the first chunk *)
(* is never taken for the last, so nothing ends the update.                *)
(***************************************************************************)
OneChunkEach == \A c \in Chunks : c.pos = 0

\* Chunks at position 0 and no update from the page: whatever fails and restarts,
\* nothing is selected and the device runs the program it was made with for ever,
\* though every chunk of the new one was acknowledged.
THEOREM OneChunkNeverRuns ==
    OneChunkEach /\ WebImages = {} => (OtaSpec => [](running = Factory /\ boot = "running"))
  <1> DEFINE Inv == /\ running = Factory /\ boot = "running"
                    /\ job["web"].at = "idle"
                    /\ job["uart"].pos = 0
                    /\ job["uart"].at \notin {"end", "setboot", "restart"}
  <1> SUFFICES ASSUME OneChunkEach, WebImages = {}
               PROVE  OtaSpec => [](running = Factory /\ boot = "running")
    OBVIOUS
  <1>1. OtaInit => Inv
    BY DEF OtaInit, Idle, Task
  <1>2. OtaTypeOK /\ Inv /\ [OtaNext]_otaVars => Inv'
    <2> SUFFICES ASSUME OtaTypeOK, Inv, [OtaNext]_otaVars PROVE Inv'
      OBVIOUS
    <2>1. job \in [Task -> Job] /\ "uart" \in Task /\ "web" \in Task
      BY DEF OtaTypeOK, Task
    <2>2. ~WebStart /\ ~Web /\ ~EndSlot("uart") /\ ~SetBoot("uart")
      BY DEF WebStart, Web, Step, CheckHeader, BeginSlot, WriteSlot, EndSlot, SetBoot,
             WebPiece, WebReturn
    <2>3. CASE CheckHeader("uart") \/ BeginSlot("uart") \/ WriteSlot("uart")
      <3>1. UNCHANGED bootVars
        BY <2>3 DEF CheckHeader, BeginSlot, WriteSlot
      <3>2. PICK at \in {"begin", "write", "failed", "written"} : Goto("uart", at)
        BY <2>3 DEF CheckHeader, BeginSlot, WriteSlot
      <3>3. /\ job'["uart"].at = at /\ job'["uart"].pos = job["uart"].pos
            /\ job'["web"] = job["web"]
        BY <2>1, <3>2 DEF Goto, Job
      <3> QED
        BY <3>1, <3>3 DEF bootVars
    <2>4. CASE ReciveOTA_written \/ ReciveOTA_failed
      <3>1. UNCHANGED bootVars /\ job' = [job EXCEPT !["uart"] = Idle]
        BY <2>4 DEF ReciveOTA_written, ReciveOTA_failed, IsLast
      <3> QED
        BY <2>1, <3>1 DEF bootVars, Idle
    <2>5. ASSUME NEW m \in Chunks, ReciveOTA(m) PROVE Inv'
      <3>1. UNCHANGED bootVars /\ (Begin(m) \/ UNCHANGED job)
        BY <2>5 DEF ReciveOTA, ReciveOTA_again, ReciveOTA_hole, ReciveOTA_first, ReciveOTA_next
      <3>2. m.pos = 0
        BY DEF OneChunkEach
      <3> QED
        BY <2>1, <3>1, <3>2 DEF bootVars, Begin
    <2>6. CASE Restart
      BY <2>6 DEF Restart, Boot, Idle, Task
    <2>7. CASE UNCHANGED otaVars
      BY <2>7 DEF otaVars
    <2> QED
      BY <2>2, <2>3, <2>4, <2>5, <2>6, <2>7 DEF OtaNext, Uart, Step
  <1>3. Inv => running = Factory /\ boot = "running"
    OBVIOUS
  <1> HIDE DEF Inv
  <1> QED
    BY <1>1, <1>2, <1>3, OtaTypeCorrect, PTL DEF OtaSpec
==============================================================================
