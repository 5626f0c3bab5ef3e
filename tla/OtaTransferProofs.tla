-------------------------- MODULE OtaTransferProofs --------------------------
(***************************************************************************)
(* Theorems about OtaTransfer, for any image, any cut into chunks, and any *)
(* number of lost messages, early repeats, failures and restarts.          *)
(***************************************************************************)
EXTENDS OtaTransfer, OtaRefinementProofs

\* Without an update from the page, the device is as OtaUpdateProofs knows it.
DeviceInv == Alone("uart") /\ SelectedThenRestart("uart") /\ SerialInv

LineTypeOK ==
    /\ server \in [at : {"send", "wait", "done"}, pos : Nat]
    /\ chunk \in Chunks \union {NoChunk}

\* A chunk of the upload begins where the server is.
Begins(p) == \E c \in Chunks : c.image = Upload /\ c.pos = p

InOtaTask == {"header", "begin", "write", "written", "failed"}

\* What is on its way, or in ota_task, ends no earlier than where the server is:
\* the server passes a chunk only when an older copy of it is acknowledged.
LineInv ==
    /\ reply # NoReply /\ reply.code = 1 => Cut(reply.pos, reply.len)
    /\ server.at # "done" =>
        /\ Begins(server.pos)
        /\ chunk # NoChunk =>
              \/ server.at = "wait" /\ server.pos = chunk.pos
              \/ server.at = "send" /\ server.pos <= chunk.pos + chunk.len
        /\ job["uart"].at \in InOtaTask => server.pos <= job["uart"].pos + job["uart"].len
        /\ handleOpen /\ LastOTA_length > 0 => server.pos <= Len(flash)

QuietInv == OtaTypeOK /\ DeviceInv /\ LineTypeOK /\ LineInv

TransferInv == webStarts \in Nat /\ (webStarts = 0 => QuietInv)
-----------------------------------------------------------------------------
\* A chunk of the upload begins at 0, and where any chunk ends before its end.
LEMMA FirstBegins == Begins(0)
  <1>1. 0 \in 0 .. Size[Upload] - 1
    BY TransferConstants, OtaConstants
  <1>2. PICK c \in Chunks : c.image = Upload /\ 0 \in c.pos .. c.pos + c.len - 1
    BY <1>1, TransferConstants
  <1>3. c.pos \in Nat /\ c.len \in Nat
    BY OtaConstants
  <1>4. c.pos = 0
    BY <1>2, <1>3
  <1> QED
    BY <1>2, <1>4 DEF Begins

LEMMA NextBegins ==
  ASSUME NEW p, NEW l, Cut(p, l), p + l < Size[Upload]
  PROVE  Begins(p + l)
  <1>1. PICK d \in Chunks : d.pos = p /\ d.len = l
    BY DEF Cut
  <1>2. p \in Nat /\ l \in Nat /\ l > 0
    BY CutNat
  <1>3. p + l \in 0 .. Size[Upload] - 1
    <2>1. Size[Upload] \in Nat
      BY TransferConstants, OtaConstants
    <2> QED
      BY <1>2, <2>1
  <1>4. PICK c \in Chunks : c.image = Upload /\ p + l \in c.pos .. c.pos + c.len - 1
    BY <1>3, TransferConstants
  <1>5. c.pos \in Nat /\ c.len \in Nat
    BY OtaConstants
  <1>6. /\ c.pos = d.pos => c.len = d.len
        /\ c.pos < d.pos => c.pos + c.len <= d.pos
        /\ d.pos < c.pos => d.pos + d.len <= c.pos
    BY ChunkLayout
  <1>7. c.pos = p + l
    BY <1>1, <1>2, <1>4, <1>5, <1>6
  <1> QED
    BY <1>4, <1>7 DEF Begins

\* A chunk that begins where another one does ends where it does.
LEMMA SameEnd ==
  ASSUME NEW p, NEW l, Cut(p, l), NEW c \in Chunks, c.pos = p
  PROVE  c.len = l
  BY ChunkLayout DEF Cut

LEMMA ChunkThere ==
  ASSUME NEW p, Begins(p)
  PROVE  ChunkAt(p) \in Chunks /\ ChunkAt(p).pos = p
  BY DEF Begins, ChunkAt

\* The reply is taken or lost: all else of the device stays.
LEMMA ReplyGone ==
  ASSUME OtaTypeOK, reply' = NoReply \/ reply' = reply,
         UNCHANGED <<cursorVars, image_header_was_checked, slotVars, bootVars, job,
                     faults, restarts>>
  PROVE  OtaTypeOK' /\ (DeviceInv => DeviceInv')
  <1>1. OtaTypeOK'
    BY DEF OtaTypeOK, cursorVars, slotVars, bootVars
  <1>2. Alone("uart") => Alone("uart")'
    BY DEF Alone
  <1>3. SelectedThenRestart("uart") => SelectedThenRestart("uart")'
    BY DEF SelectedThenRestart, Whole, Holds, slotVars, bootVars
  <1>4. CursorInv /\ PieceInv => CursorInv' /\ PieceInv'
    BY DEF CursorInv, PieceInv, Cut, Stored, End, cursorVars, slotVars
  <1>5. ReplyInv => ReplyInv'
    BY DEF ReplyInv, Stored, slotVars
  <1> QED
    BY <1>1, <1>2, <1>3, <1>4, <1>5 DEF DeviceInv, SerialInv
-----------------------------------------------------------------------------
\* The server's and the line's steps.
LEMMA SendsStep ==
  ASSUME QuietInv, ServerSends
  PROVE  QuietInv'
  <1>1. /\ server.at = "send" /\ chunk = NoChunk /\ chunk' = ChunkAt(server.pos)
        /\ server' = [server EXCEPT !.at = "wait"] /\ UNCHANGED otaVars
    BY DEF ServerSends
  <1>2. server \in [at : {"send", "wait", "done"}, pos : Nat]
    BY DEF QuietInv, LineTypeOK
  <1>3. /\ server'.at = "wait" /\ server'.pos = server.pos
        /\ server' \in [at : {"send", "wait", "done"}, pos : Nat]
    BY <1>1, <1>2
  <1>4. OtaTypeOK' /\ DeviceInv'
    BY <1>1, ReplyGone DEF QuietInv, otaVars, cursorVars, slotVars, bootVars
  <1>5. Begins(server.pos) /\ LineInv
    BY <1>1 DEF QuietInv, LineInv
  <1>6. chunk' \in Chunks /\ chunk'.pos = server.pos
    BY <1>1, <1>5, ChunkThere
  <1>7. LineInv'
    BY <1>1, <1>3, <1>5, <1>6 DEF LineInv, Begins, Cut, otaVars
  <1> QED
    BY <1>3, <1>4, <1>6, <1>7 DEF QuietInv, LineTypeOK

-----------------------------------------------------------------------------
\* The device's steps.
Device == (\E m \in Chunks : ReciveOTA(m)) \/ Uart \/ Web \/ Restart

\* Only WebStart wakes the web server's task.
LEMMA WebStill ==
  ASSUME OtaTypeOK, Alone("uart"), Device
  PROVE  ~WebStart /\ ~Web
  <1>1. job \in [Task -> Job] /\ job["web"].at = "idle"
    BY DEF OtaTypeOK, Alone, Task
  <1>2. ~Web
    BY <1>1 DEF Web, Step, CheckHeader, BeginSlot, WriteSlot, EndSlot, SetBoot, WebPiece,
                WebReturn
  <1>3. job'["web"].at = "idle"
    <2>1. CASE \E m \in Chunks : ReciveOTA(m)
      BY <1>1, <2>1 DEF ReciveOTA, ReciveOTA_again, ReciveOTA_hole, ReciveOTA_first,
                        ReciveOTA_next, Begin, Task
    <2>2. CASE Uart
      BY <1>1, <2>2 DEF Uart, Step, CheckHeader, BeginSlot, WriteSlot, EndSlot, SetBoot,
                        EndFails, Goto, ReciveOTA_written, ReciveOTA_failed, Task
    <2>3. CASE Restart
      BY <2>3 DEF Restart, Boot, Idle, Task
    <2> QED
      BY <1>2, <2>1, <2>2, <2>3 DEF Device
  <1>4. ~WebStart
    <2> SUFFICES ASSUME NEW i \in WebImages,
                        job' = [job EXCEPT !["web"] = [Idle EXCEPT !.at = "read", !.image = i]]
                 PROVE  FALSE
      BY DEF WebStart
    <2>1. job'["web"].at = "read"
      BY <1>1 DEF Idle, Task
    <2> QED
      BY <1>3, <2>1
  <1> QED
    BY <1>2, <1>4

LEMMA DeviceStep ==
  ASSUME OtaTypeOK, DeviceInv, Device
  PROVE  DeviceInv'
  <1>1. ~WebStart /\ OtaNext
    BY WebStill DEF DeviceInv, Device, OtaNext
  <1>2. Alone("uart")' /\ SelectedThenRestart("uart")'
    BY <1>1, OneTask DEF DeviceInv, OtherStarts, Task
  <1>3. SerialInv'
    BY <1>1, SerialStep DEF DeviceInv
  <1> QED
    BY <1>2, <1>3 DEF DeviceInv

\* What the device's step leaves alone, or may change, as LineInv sees it.
LEMMA LineKept ==
  ASSUME OtaTypeOK, LineTypeOK, LineInv, server' = server,
         chunk' \in {chunk, NoChunk},
         \/ reply' \in {reply, NoReply} \/ reply'.code # 1 \/ Cut(reply'.pos, reply'.len),
         job'["uart"].at \in InOtaTask =>
            \/ server.at = "done"
            \/ server.pos <= job'["uart"].pos + job'["uart"].len,
         handleOpen' /\ LastOTA_length' > 0 =>
            \/ handleOpen /\ LastOTA_length > 0 /\ Len(flash) <= Len(flash')
            \/ server.at = "done"
            \/ server.pos <= Len(flash')
  PROVE  LineInv'
  <1>1. chunk # NoChunk => chunk \in Chunks /\ chunk.pos \in Nat /\ chunk.len \in Nat
    BY OtaConstants DEF LineTypeOK
  <1>2. server.pos \in Nat /\ Len(flash) \in Nat
    BY DEF LineTypeOK, OtaTypeOK
  <1>3. reply' # NoReply /\ reply'.code = 1 => Cut(reply'.pos, reply'.len)
    BY DEF LineInv
  <1>4. Len(flash) <= Len(flash') /\ server.pos <= Len(flash) => server.pos <= Len(flash')
    BY <1>2
  <1> QED
    BY <1>3, <1>4 DEF LineInv, Cut, Begins

LEMMA ReceivesStep ==
  ASSUME QuietInv, DeviceReceives
  PROVE  QuietInv'
  <1> DEFINE m == chunk
  <1>1. /\ m \in Chunks /\ ReciveOTA(m) /\ chunk' = NoChunk /\ server' = server
    BY DEF DeviceReceives, QuietInv, LineTypeOK
  <1>2. OtaTypeOK' /\ LineTypeOK' /\ DeviceInv'
    BY <1>1, SerialType, DeviceStep DEF QuietInv, LineTypeOK, Device
  <1>3. /\ m.pos \in Nat /\ m.len \in Nat /\ server.pos \in Nat /\ Len(flash) \in Nat
        /\ job \in [Task -> Job] /\ job["uart"].at = "idle"
    BY <1>1, OtaConstants DEF QuietInv, LineTypeOK, OtaTypeOK, ReciveOTA
  <1>4. server.at = "done" \/ server.pos <= m.pos + m.len
    BY <1>1, <1>3 DEF DeviceReceives, QuietInv, LineInv
  <1>5. /\ \/ reply' = NoReply
           \/ reply'.code # 1
           \/ reply'.pos = m.pos /\ reply'.len = m.len
        /\ LastOTA_length' \in {LastOTA_length, 0}
    BY <1>1 DEF ReciveOTA, ReciveOTA_again, ReciveOTA_hole, ReciveOTA_first, ReciveOTA_next,
                Answer, cursorVars
  <1>6. job'["uart"].at \in InOtaTask =>
           job'["uart"].pos = m.pos /\ job'["uart"].len = m.len
    <2>1. Begin(m) => job'["uart"].pos = m.pos /\ job'["uart"].len = m.len
      BY <1>3 DEF Begin, Task
    <2>2. Begin(m) \/ job' = job
      BY <1>1 DEF ReciveOTA, ReciveOTA_again, ReciveOTA_hole, ReciveOTA_first, ReciveOTA_next
    <2> QED
      BY <1>3, <2>1, <2>2 DEF InOtaTask
  <1>7. Cut(m.pos, m.len)
    BY <1>1 DEF Cut
  <1>8. handleOpen' /\ LastOTA_length' > 0 =>
           handleOpen /\ LastOTA_length > 0 /\ Len(flash) <= Len(flash')
    BY <1>1, <1>3, <1>5 DEF ReciveOTA, slotVars
  <1>9. LineInv'
    BY <1>1, <1>4, <1>5, <1>6, <1>7, <1>8, LineKept DEF QuietInv
  <1> QED
    BY <1>2, <1>9 DEF QuietInv

\* The rest of the device's work on the message.
LEMMA UartStep ==
  ASSUME QuietInv, Uart, UNCHANGED lineVars
  PROVE  QuietInv'
  <1> DEFINE j == job["uart"]
  <1>1. server' = server /\ chunk' = chunk
    BY DEF lineVars
  <1>2. OtaTypeOK' /\ LineTypeOK' /\ DeviceInv'
    BY <1>1, StepType, SerialType, DeviceStep DEF QuietInv, LineTypeOK, Device, Uart, Task
  <1>3. /\ j.pos \in Nat /\ j.len \in Nat /\ server.pos \in Nat /\ Len(flash) \in Nat
        /\ LastOTA_length \in Nat /\ OtaTypeOK /\ CursorInv /\ PieceInv
    BY UartTypes DEF QuietInv, LineTypeOK, DeviceInv, SerialInv
  <1>4. j.at \in InOtaTask => server.at = "done" \/ server.pos <= j.pos + j.len
    BY DEF QuietInv, LineInv
  <1>5. /\ \/ reply' = reply
           \/ reply'.code # 1
           \/ reply'.pos = j.pos /\ reply'.len = j.len /\ j.at = "written"
        /\ job'["uart"].at \in InOtaTask =>
              j.at \in InOtaTask /\ job'["uart"].pos = j.pos /\ job'["uart"].len = j.len
        /\ handleOpen' /\ LastOTA_length' > 0 =>
              \/ handleOpen /\ LastOTA_length > 0 /\ Len(flash) <= Len(flash')
              \/ j.at = "written" /\ Len(flash') = j.pos + j.len
    <2>1. CASE CheckHeader("uart")
      BY <1>3, <2>1, UartTypes, GotoType
         DEF CheckHeader, InOtaTask, cursorVars, slotVars
    <2>2. CASE BeginSlot("uart")
      <3>1. LastOTA_length = 0
        BY <1>3, <2>2, UartTypes DEF BeginSlot, PieceInv, End
      <3>4. LastOTA_length' = 0
        BY <2>2, <3>1 DEF BeginSlot, cursorVars
      <3>2. reply' = reply /\ j.at = "begin"
        BY <2>2 DEF BeginSlot
      <3>3. job'["uart"].pos = j.pos /\ job'["uart"].len = j.len
        BY <1>3, <2>2, UartTypes, GotoType DEF BeginSlot
      <3> QED
        BY <3>2, <3>3, <3>4 DEF InOtaTask
    <2>3. CASE WriteSlot("uart")
      <3>1. /\ reply' = reply /\ j.at = "write"
            /\ UNCHANGED <<handleOpen, LastOTA_length>>
        BY <2>3 DEF WriteSlot, cursorVars
      <3>2. job'["uart"].pos = j.pos /\ job'["uart"].len = j.len
        BY <1>3, <2>3, UartTypes, GotoType DEF WriteSlot
      <3>3. Len(flash) <= Len(flash')
        <4>1. flash' = flash \/ flash' = flash \o Piece(j.image, j.pos, j.len)
          BY <2>3 DEF WriteSlot
        <4>2. flash \in Seq(Byte) /\ j.image \in Image \union {Factory}
          BY <1>3, UartTypes DEF OtaTypeOK
        <4>3. /\ Piece(j.image, j.pos, j.len) \in Seq(Byte)
              /\ Len(Piece(j.image, j.pos, j.len)) = j.len
          BY <1>3, <4>2, PieceIs
        <4>4. Len(flash \o Piece(j.image, j.pos, j.len)) = Len(flash) + j.len
          BY <1>3, <4>2, <4>3, AppendIs
        <4> QED
          BY <1>3, <4>1, <4>4
      <3> QED
        BY <3>1, <3>2, <3>3 DEF InOtaTask
    <2>4. CASE EndSlot("uart") \/ SetBoot("uart")
      <3>1. /\ job'["uart"].at \in {"setboot", "restart", "idle"}
            /\ reply' = reply \/ reply'.code # 1
        BY <1>3, <2>4, UartTypes, GotoType DEF EndSlot, SetBoot, EndFails, Answer, Idle
      <3>2. UNCHANGED <<LastOTA_length, flash>> /\ (handleOpen' => handleOpen)
        BY <2>4 DEF EndSlot, SetBoot, cursorVars, slotVars
      <3> QED
        BY <1>3, <3>1, <3>2 DEF InOtaTask
    <2>5. CASE ReciveOTA_written
      <3>1. j.at = "written" /\ reply'.pos = j.pos /\ reply'.len = j.len /\ UNCHANGED flash
        BY <2>5 DEF ReciveOTA_written, Answer, slotVars
      <3>2. job'["uart"].at \in {"end", "idle"}
        BY <1>3, <2>5, UartTypes, GotoType DEF ReciveOTA_written, Idle
      <3>3. Len(flash) = j.pos + j.len
        BY <1>3, <3>1 DEF PieceInv
      <3> QED
        BY <3>1, <3>2, <3>3 DEF InOtaTask
    <2>6. CASE ReciveOTA_failed
      <3>1. /\ reply'.code = 4 /\ job'["uart"].at = "idle"
            /\ UNCHANGED <<handleOpen, LastOTA_length, flash>>
        BY <1>3, <2>6, UartTypes DEF ReciveOTA_failed, Answer, Idle, cursorVars, slotVars
      <3> QED
        BY <1>3, <3>1 DEF InOtaTask
    <2> QED
      BY <2>1, <2>2, <2>3, <2>4, <2>5, <2>6 DEF Uart, Step
  <1>6. j.at = "written" => Cut(j.pos, j.len)
    BY <1>3 DEF PieceInv
  <1>7. \/ reply' \in {reply, NoReply}
        \/ reply'.code # 1
        \/ Cut(reply'.pos, reply'.len)
    BY <1>5, <1>6
  <1>8. handleOpen' /\ LastOTA_length' > 0 =>
           \/ handleOpen /\ LastOTA_length > 0 /\ Len(flash) <= Len(flash')
           \/ server.at = "done"
           \/ server.pos <= Len(flash')
    BY <1>4, <1>5 DEF InOtaTask
  <1>9. LineInv'
    BY <1>1, <1>4, <1>5, <1>7, <1>8, LineKept DEF QuietInv
  <1> QED
    BY <1>2, <1>9 DEF QuietInv

LEMMA RestartStep ==
  ASSUME QuietInv, Restart, UNCHANGED lineVars
  PROVE  QuietInv'
  <1>1. server' = server /\ chunk' = chunk
    BY DEF lineVars
  <1>2. OtaTypeOK' /\ LineTypeOK' /\ DeviceInv'
    BY <1>1, RestartType, DeviceStep DEF QuietInv, LineTypeOK, Device
  <1>3. LastOTA_length' = 0 /\ reply' = reply /\ job'["uart"].at = "idle"
    BY DEF Restart, Boot, Idle, Task
  <1>4. LineInv'
    BY <1>1, <1>3, LineKept DEF QuietInv, InOtaTask
  <1> QED
    BY <1>2, <1>4 DEF QuietInv
-----------------------------------------------------------------------------
\* The server goes on, or starts again: a chunk of the upload begins where it
\* is then, and all it has passed is in the slot.
LEMMA AnswerStep ==
  ASSUME QuietInv, ServerReceives
  PROVE  QuietInv'
  <1> DEFINE p == reply.pos + reply.len
  <1>1. /\ reply # NoReply /\ reply' = NoReply /\ chunk' = chunk
        /\ UNCHANGED <<cursorVars, image_header_was_checked, slotVars, bootVars, job,
                       faults, restarts>>
    BY DEF ServerReceives
  <1>2. OtaTypeOK' /\ DeviceInv'
    BY <1>1, ReplyGone DEF QuietInv
  <1>3. /\ reply.code \in {1, 4, 5, 6} /\ reply.pos \in Nat /\ reply.len \in Nat
        /\ server \in [at : {"send", "wait", "done"}, pos : Nat] /\ Len(flash) \in Nat
        /\ Size[Upload] \in Nat
    BY <1>1, TransferConstants, OtaConstants DEF QuietInv, OtaTypeOK, LineTypeOK, Code
  <1>4. \/ server' = server
        \/ server' = [at |-> "done", pos |-> 0]
        \/ server' = [at |-> "send", pos |-> 0] /\ server.at = "wait"
        \/ /\ server' = [at |-> "send", pos |-> p] /\ p < Size[Upload]
           /\ reply.code = 1 /\ server.at = "wait" /\ reply.pos = server.pos
    BY <1>3 DEF ServerReceives, Next
  <1>5. server' \in [at : {"send", "wait", "done"}, pos : Nat]
    BY <1>3, <1>4
  <1>6. LineTypeOK'
    BY <1>1, <1>5 DEF QuietInv, LineTypeOK
  <1>7. LineInv'
    <2>1. CASE server' = server
      BY <1>1, <2>1, LineKept DEF QuietInv, LineInv, InOtaTask, cursorVars, slotVars
    <2>2. CASE server' = [at |-> "done", pos |-> 0]
      BY <1>1, <2>2 DEF LineInv
    <2>3. job["uart"].at \notin InOtaTask
      BY <1>1 DEF QuietInv, DeviceInv, SerialInv, ReplyInv, InOtaTask
    <2>4. chunk # NoChunk => chunk \in Chunks /\ chunk.pos \in Nat /\ chunk.len \in Nat
      BY OtaConstants DEF QuietInv, LineTypeOK
    <2>5. CASE server' = [at |-> "send", pos |-> 0] /\ server.at = "wait"
      <3>1. Begins(0)
        BY FirstBegins
      <3>2. server'.at = "send" /\ server'.pos = 0
        BY <2>5
      <3> QED
        BY <1>1, <1>3, <2>3, <2>4, <3>1, <3>2 DEF LineInv, Begins, slotVars
    <2>6. CASE /\ server' = [at |-> "send", pos |-> p] /\ p < Size[Upload]
               /\ reply.code = 1 /\ server.at = "wait" /\ reply.pos = server.pos
      <3>1. server'.at = "send" /\ server'.pos = p
        BY <2>6
      <3>2. Cut(reply.pos, reply.len) /\ Begins(p)
        BY <1>1, <2>6, NextBegins DEF QuietInv, LineInv
      <3>3. chunk # NoChunk => p <= chunk.pos + chunk.len
        <4>1. chunk # NoChunk => chunk.pos = reply.pos
          BY <2>6 DEF QuietInv, LineInv
        <4>2. chunk # NoChunk => chunk.len = reply.len
          BY <2>4, <3>2, <4>1, SameEnd
        <4> QED
          BY <1>3, <4>1, <4>2
      <3>4. p <= Len(flash)
        BY <1>1, <2>6 DEF QuietInv, DeviceInv, SerialInv, ReplyInv, Stored
      <3> HIDE DEF p
      <3> QED
        BY <1>1, <2>3, <3>1, <3>2, <3>3, <3>4 DEF LineInv, Begins, slotVars
    <2> QED
      BY <1>4, <2>1, <2>2, <2>5, <2>6
  <1> QED
    BY <1>2, <1>6, <1>7 DEF QuietInv

LEMMA RepeatsStep ==
  ASSUME QuietInv, ServerRepeats
  PROVE  QuietInv'
  <1>1. /\ server.at = "wait" /\ server' = [server EXCEPT !.at = "send"] /\ chunk' = chunk
        /\ UNCHANGED otaVars
    BY DEF ServerRepeats
  <1>2. OtaTypeOK' /\ DeviceInv'
    BY <1>1, ReplyGone DEF QuietInv, otaVars, cursorVars, slotVars, bootVars
  <1>3. /\ server'.at = "send" /\ server'.pos = server.pos /\ LineTypeOK'
    BY <1>1 DEF QuietInv, LineTypeOK
  <1>4. chunk # NoChunk => chunk.pos \in Nat /\ chunk.len \in Nat
    BY OtaConstants DEF QuietInv, LineTypeOK
  <1>5. LineInv
    BY DEF QuietInv
  <1>6. chunk # NoChunk => server.pos <= chunk.pos + chunk.len
    BY <1>1, <1>4, <1>5 DEF LineInv
  <1>7. LineInv'
    BY <1>1, <1>3, <1>5, <1>6 DEF LineInv, Cut, Begins, otaVars
  <1> QED
    BY <1>2, <1>3, <1>7 DEF QuietInv

LEMMA LosesStep ==
  ASSUME QuietInv, LineLoses
  PROVE  QuietInv'
  <1>1. /\ chunk' \in {chunk, NoChunk} /\ reply' \in {reply, NoReply} /\ server' = server
        /\ UNCHANGED <<cursorVars, image_header_was_checked, slotVars, bootVars, job,
                       faults, restarts>>
    BY DEF LineLoses
  <1>2. OtaTypeOK' /\ DeviceInv' /\ LineTypeOK'
    BY <1>1, ReplyGone DEF QuietInv, LineTypeOK
  <1>3. Len(flash) \in Nat
    BY DEF QuietInv, OtaTypeOK
  <1>4. LineInv'
    BY <1>1, <1>3, LineKept DEF QuietInv, LineInv, InOtaTask, cursorVars, slotVars
  <1> QED
    BY <1>2, <1>4 DEF QuietInv

LEMMA InitTransfer == TransferInit => TransferInv
  <1> SUFFICES ASSUME TransferInit PROVE TransferInv
    OBVIOUS
  <1>1. OtaInit /\ server = [at |-> "send", pos |-> 0] /\ chunk = NoChunk /\ webStarts = 0
    BY DEF TransferInit
  <1>2. OtaTypeOK
    BY <1>1, InitOta
  <1>3. Alone("uart") /\ SelectedThenRestart("uart")
    BY <1>1 DEF OtaInit, Alone, SelectedThenRestart, Idle, Task
  <1>4. SerialInv
    BY <1>1 DEF OtaInit, SerialInv, CursorInv, PieceInv, ReplyInv, Idle, Task
  <1>5. LineTypeOK
    BY <1>1 DEF LineTypeOK
  <1>6. LineInv
    BY <1>1, FirstBegins DEF LineInv, OtaInit, Idle, Task, InOtaTask
  <1> QED
    BY <1>1, <1>2, <1>3, <1>4, <1>5, <1>6 DEF TransferInv, QuietInv, DeviceInv

LEMMA TransferStep ==
  ASSUME TransferInv, [TransferNext]_vars
  PROVE  TransferInv'
  <1>1. CASE DeviceWorks /\ webStarts' = webStarts + 1
    BY <1>1 DEF TransferInv
  <1>2. CASE webStarts' = webStarts /\ webStarts # 0
    BY <1>2 DEF TransferInv
  <1>3. CASE webStarts' = webStarts /\ webStarts = 0
    <2>1. QuietInv
      BY <1>3 DEF TransferInv
    <2> SUFFICES QuietInv'
      BY <1>3 DEF TransferInv
    <2>2. CASE (Uart \/ Web \/ Restart) /\ UNCHANGED lineVars
      <3>1. ~Web
        BY <2>1, <2>2, WebStill DEF QuietInv, DeviceInv, Device
      <3> QED
        BY <2>1, <2>2, <3>1, UartStep, RestartStep
    <2>3. CASE UNCHANGED vars
      <3>1. OtaTypeOK' /\ DeviceInv' /\ LineTypeOK'
        BY <2>1, <2>3, ReplyGone
           DEF QuietInv, LineTypeOK, vars, lineVars, otaVars, cursorVars, slotVars, bootVars
      <3>2. LineInv'
        BY <2>1, <2>3 DEF QuietInv, LineInv, Cut, Begins, vars, lineVars, otaVars
      <3> QED
        BY <3>1, <3>2 DEF QuietInv
    <2>4. webStarts' # webStarts + 1
      BY <1>3
    <2> QED
      BY <2>1, <2>2, <2>3, <2>4, SendsStep, ReceivesStep, AnswerStep, RepeatsStep, LosesStep
         DEF TransferNext, DeviceWorks, Finished
  <1>4. webStarts' = webStarts \/ (DeviceWorks /\ webStarts' = webStarts + 1)
    BY DEF TransferNext, ServerSends, DeviceReceives, ServerReceives, ServerRepeats,
           LineLoses, DeviceWorks, Finished, vars, lineVars
  <1> QED
    BY <1>1, <1>2, <1>3, <1>4

\* Whatever the line loses and the server repeats, and through failures and
\* restarts of the device, without an update from the page: the server never
\* passes over bytes of its image that the open slot does not hold.
THEOREM ServerBehind == TransferSpec => []ServerNeverAhead
  <1>1. TransferInv => ServerNeverAhead
    BY DEF TransferInv, QuietInv, LineInv, ServerNeverAhead
  <1> QED
    BY <1>1, InitTransfer, TransferStep, PTL DEF TransferSpec
-----------------------------------------------------------------------------
(***************************************************************************)
(* A finished transfer.  While nothing fails, restarts or is downloaded    *)
(* from the page, only the upload's bytes enter the open slot, the device  *)
(* waits for messages only as long as the image is incomplete, and once it *)
(* is complete every step leads to the restart.                            *)
(***************************************************************************)
OfUpload(slot) == \A n \in 1 .. Len(slot) : slot[n] = <<Upload, n>>

Ending == {"end", "setboot", "restart"}
Arrived == running = Upload \/ (Holds(flash, Upload) /\ job["uart"].at \in Ending)

SlotInv ==
    LET j == job["uart"]
    IN  /\ chunk # NoChunk => chunk.image = Upload
        /\ j.at # "idle" => j.image = Upload
        /\ handleOpen => OfUpload(flash)
        /\ j.at \in {"written", "end"} => handleOpen
        /\ j.at \in Ending => Holds(flash, Upload)
        /\ j.at = "restart" => boot = "update"
        /\ j.at \notin Ending => End < Size[Upload]

DoneInv ==
    /\ reply # NoReply /\ reply.code = 1 => reply.pos + reply.len < Size[Upload]
    /\ reply # NoReply /\ reply.code = 6 => Arrived
    /\ server.at = "done" => Arrived

\* Nothing makes up for a fault, a restart or a download that has begun.
LEMMA Disturbed ==
  ASSUME OtaTypeOK, webStarts \in Nat, [TransferNext]_vars, Undisturbed'
  PROVE  Undisturbed /\ ~Fault /\ (Restart => restarts' = restarts)
  <1>1. faults \in Nat /\ restarts \in Nat
    BY OtaConstants DEF OtaTypeOK
  <1>2. /\ faults' = faults \/ faults' = faults + 1
        /\ restarts' = restarts \/ restarts' = restarts + 1
        /\ webStarts' = webStarts \/ webStarts' = webStarts + 1
    <2>1. CASE ServerSends \/ ServerReceives \/ ServerRepeats \/ LineLoses \/ UNCHANGED vars
      BY <2>1 DEF ServerSends, ServerReceives, ServerRepeats, LineLoses, vars, otaVars, lineVars
    <2>2. CASE DeviceReceives
      BY <2>2 DEF DeviceReceives, ReciveOTA
    <2>3. CASE DeviceWorks
      <3>1. webStarts' = webStarts \/ webStarts' = webStarts + 1
        BY <2>3 DEF DeviceWorks, lineVars
      <3>2. CASE Uart \/ Web
        BY <3>1, <3>2 DEF Uart, Web, Step, CheckHeader, BeginSlot, WriteSlot, EndSlot, SetBoot,
                          ReciveOTA_written, ReciveOTA_failed, WebPiece, WebReturn, Fault, NoFault
      <3>3. CASE Restart \/ WebStart
        BY <3>1, <3>3 DEF Restart, Boot, WebStart, Fault, NoFault
      <3> QED
        BY <2>3, <3>2, <3>3 DEF DeviceWorks
    <2> QED
      BY <2>1, <2>2, <2>3 DEF TransferNext, Finished
  <1> QED
    BY <1>1, <1>2 DEF Undisturbed, Fault

\* A slot of the upload's bytes that is long enough holds it, and nothing else.
LEMMA LongEnough ==
  ASSUME OfUpload(flash), Size[Upload] <= Len(flash), OtaTypeOK
  PROVE  Holds(flash, Upload) /\ Whole(flash)
  <1>1. Upload \in Image \union {Factory} /\ Size[Upload] \in Nat \ {0} /\ Len(flash) \in Nat
    BY TransferConstants, OtaConstants DEF OtaTypeOK
  <1>2. Holds(flash, Upload)
    BY <1>1 DEF Holds, OfUpload
  <1> QED
    BY <1>1, <1>2 DEF Whole

\* The next piece of the upload follows its bytes.
LEMMA UploadAppend ==
  ASSUME NEW s \in Seq(Byte), OfUpload(s), NEW l \in Nat
  PROVE  OfUpload(s \o Piece(Upload, Len(s), l))
  <1> DEFINE k == Len(s)
             p == Piece(Upload, k, l)
  <1>1. k \in Nat /\ Upload \in Image \union {Factory}
    BY TransferConstants
  <1> HIDE DEF k
  <1>2. p \in Seq(Byte) /\ Len(p) = l /\ \A n \in 1 .. l : p[n] = <<Upload, k + n>>
    BY <1>1, PieceIs
  <1> HIDE DEF p
  <1>3. Len(s) = k
    BY DEF k
  <1>4. /\ Len(s \o p) = k + l
        /\ \A n \in 1 .. k : (s \o p)[n] = s[n]
        /\ \A n \in 1 .. l : (s \o p)[k + n] = p[n]
    <2>1. p \in Seq(Byte) /\ Len(p) = l /\ s \in Seq(Byte)
      BY <1>2
    <2>2. Len(s \o p) = k + l
      BY <1>3, <2>1
    <2>3. \A n \in 1 .. k : (s \o p)[n] = s[n]
      BY <1>1, <1>3, <2>1
    <2>4. \A n \in 1 .. l : (s \o p)[k + n] = p[n]
      BY <1>1, <1>3, <2>1
    <2> QED
      BY <2>2, <2>3, <2>4
  <1>5. ASSUME NEW n \in 1 .. k + l PROVE (s \o p)[n] = <<Upload, n>>
    <2>1. CASE n \in 1 .. k
      BY <1>3, <1>4, <2>1 DEF OfUpload
    <2>2. CASE n \notin 1 .. k
      <3>1. n - k \in 1 .. l /\ k + (n - k) = n
        BY <1>1, <2>2
      <3> QED
        BY <1>2, <1>4, <3>1
    <2> QED
      BY <2>1, <2>2
  <1>6. OfUpload(s \o p)
    BY <1>4, <1>5 DEF OfUpload
  <1> QED
    BY <1>6 DEF p, k

LEMMA HeldIsUpload ==
  ASSUME Holds(flash, Upload), NEW i \in Image \union {Factory}, Holds(flash, i)
  PROVE  i = Upload
  <1>1. Size[Upload] \in Nat \ {0} /\ Size[i] \in Nat \ {0}
    BY TransferConstants, OtaConstants
  <1>2. flash[1] = <<Upload, 1>> /\ flash[1] = <<i, 1>>
    BY <1>1 DEF Holds
  <1> QED
    BY <1>2

\* What the slot and the end of OTA_End depend on stays.
LEMMA ArrivedKept ==
  ASSUME Arrived, UNCHANGED <<running, flash>>,
         job["uart"].at \in Ending => job'["uart"].at \in Ending
  PROVE  Arrived'
  BY DEF Arrived, Holds

LEMMA SlotKept ==
  ASSUME SlotInv, UNCHANGED <<handleOpen, flash, boot, job, LastPositionIndex, LastOTA_length>>,
         chunk' # NoChunk => chunk'.image = Upload
  PROVE  SlotInv'
  BY DEF SlotInv, OfUpload, Holds, End

\* The server's and the line's steps leave the device's slot alone.
LEMMA WholeLineStep ==
  ASSUME QuietInv, SlotInv, DoneInv,
         ServerSends \/ ServerReceives \/ ServerRepeats \/ LineLoses \/ UNCHANGED vars
  PROVE  SlotInv' /\ DoneInv'
  <1>1. /\ UNCHANGED <<handleOpen, flash, boot, running, job, LastPositionIndex, LastOTA_length>>
        /\ reply' \in {reply, NoReply}
        /\ chunk' \in {chunk, NoChunk} \/ (ServerSends /\ chunk' = ChunkAt(server.pos))
    BY DEF ServerSends, ServerReceives, ServerRepeats, LineLoses, vars, lineVars, otaVars,
           cursorVars, slotVars, bootVars
  <1>2. chunk' # NoChunk => chunk'.image = Upload
    <2>1. CASE chunk' \in {chunk, NoChunk}
      BY <2>1 DEF SlotInv
    <2>2. CASE ServerSends /\ chunk' = ChunkAt(server.pos)
      <3>1. Begins(server.pos)
        BY <2>2 DEF ServerSends, QuietInv, LineInv
      <3> QED
        BY <2>2, <3>1 DEF Begins, ChunkAt
    <2> QED
      BY <1>1, <2>1, <2>2
  <1>3. SlotInv'
    BY <1>1, <1>2, SlotKept
  <1>4. Arrived => Arrived'
    BY <1>1, ArrivedKept
  <1>5. server'.at = "done" => server.at = "done" \/ (reply # NoReply /\ reply.code = 6)
    <2>1. server \in [at : {"send", "wait", "done"}, pos : Nat]
      BY DEF QuietInv, LineTypeOK
    <2>2. CASE ServerReceives
      <3>1. /\ reply # NoReply /\ reply.code \in {1, 4, 5, 6}
            /\ server' = server \/ server' = Next(reply)
        BY <2>2 DEF ServerReceives, QuietInv, OtaTypeOK, Code
      <3>2. reply.code = 1 => Next(reply).at = "send"
        <4> SUFFICES ASSUME reply.code = 1 PROVE Next(reply).at = "send"
          OBVIOUS
        <4> DEFINE q == reply.pos + reply.len
                   on == [at |-> "send", pos |-> q]
                   off == [at |-> "done", pos |-> 0]
                   again == [at |-> "send", pos |-> 0]
        <4>1. q < Size[Upload]
          BY <3>1 DEF DoneInv
        <4>2. on.at = "send"
          OBVIOUS
        <4>3. Next(reply) = CASE reply.code = 1 /\ q < Size[Upload] -> on
                              [] reply.code = 6 \/ (reply.code = 1 /\ q >= Size[Upload]) -> off
                              [] OTHER -> again
          BY DEF Next
        <4> HIDE DEF q, on, off, again
        <4>4. Next(reply) = on
          <5>1. ~(q >= Size[Upload])
            <6>1. q \in Nat /\ Size[Upload] \in Nat
              BY <3>1, TransferConstants, OtaConstants DEF q, QuietInv, OtaTypeOK
            <6> QED
              BY <4>1, <6>1
          <5> QED
            BY <4>1, <4>3, <5>1
        <4> QED
          BY <4>2, <4>4
      <3>3. reply.code \in {4, 5} => Next(reply).at = "send"
        <4>1. reply.code \in {4, 5} => Next(reply) = [at |-> "send", pos |-> 0]
          BY DEF Next
        <4> QED
          BY <4>1
      <3> QED
        BY <3>1, <3>2, <3>3
    <2>3. CASE ~ServerReceives
      <3>1. server' \in {server, [server EXCEPT !.at = "wait"], [server EXCEPT !.at = "send"]}
        BY <2>3 DEF ServerSends, ServerRepeats, LineLoses, vars, lineVars
      <3> QED
        BY <2>1, <3>1
    <2> QED
      BY <2>2, <2>3
  <1>6. DoneInv'
    BY <1>1, <1>4, <1>5 DEF DoneInv
  <1> QED
    BY <1>3, <1>6

\* A chunk that arrives: one that is acknowledged again ends before the cursor,
\* which has not reached the image's end.
LEMMA WholeReceives ==
  ASSUME QuietInv, SlotInv, DoneInv, DeviceReceives
  PROVE  SlotInv' /\ DoneInv'
  <1> DEFINE m == chunk
  <1>1. /\ m \in Chunks /\ m # NoChunk /\ ReciveOTA(m) /\ chunk' = NoChunk /\ server' = server
        /\ m.image = Upload /\ m.pos \in Nat /\ m.len \in Nat
    BY OtaConstants DEF DeviceReceives, QuietInv, LineTypeOK, SlotInv
  <1>2. /\ OtaTypeOK /\ CursorInv /\ job["uart"].at = "idle" /\ Size[Upload] \in Nat \ {0}
        /\ UNCHANGED <<handleOpen, flash, boot, running>>
    BY <1>1, TransferConstants, OtaConstants
       DEF QuietInv, DeviceInv, SerialInv, ReciveOTA, slotVars, bootVars
  <1>3. End < Size[Upload] /\ "idle" \notin Ending
    BY <1>2 DEF SlotInv, Ending
  <1>4. /\ job'["uart"].at \in {"idle", "header"}
        /\ job'["uart"].at # "idle" => job'["uart"].image = Upload
    <2>1. Begin(m) => job'["uart"].at = "header" /\ job'["uart"].image = Upload
      BY <1>1, <1>2, UartTypes DEF Begin
    <2> QED
      BY <1>1, <1>2, <2>1
         DEF ReciveOTA, ReciveOTA_again, ReciveOTA_hole, ReciveOTA_first, ReciveOTA_next
  <1>5. End' < Size[Upload]
    <2>1. \/ UNCHANGED cursorVars
          \/ LastPositionIndex' = 0 /\ LastOTA_length' = 0
      BY <1>1 DEF ReciveOTA, ReciveOTA_again, ReciveOTA_hole, ReciveOTA_first, ReciveOTA_next
    <2> QED
      BY <1>2, <1>3, <2>1 DEF End, cursorVars
  <1>6. SlotInv'
    BY <1>1, <1>2, <1>4, <1>5 DEF SlotInv, OfUpload, Ending
  <1>7. Arrived => Arrived'
    BY <1>2, <1>3, ArrivedKept
  <1>8. \/ reply' = NoReply
        \/ reply'.code = 5
        \/ reply'.code = 1 /\ reply'.pos = m.pos /\ reply'.len = m.len /\ AlreadyWritten(m)
    <2>1. CASE ReciveOTA_again(m)
      <3>1. LastPositionIndex # 0
        BY <1>1, <1>2, <2>1, UartTypes DEF ReciveOTA_again, AlreadyWritten
      <3> QED
        BY <2>1, <3>1 DEF ReciveOTA_again, Answer
    <2> QED
      BY <1>1, <2>1 DEF ReciveOTA, ReciveOTA_hole, ReciveOTA_first, ReciveOTA_next, Answer
  <1>9. AlreadyWritten(m) => m.pos + m.len < Size[Upload]
    <2> SUFFICES ASSUME AlreadyWritten(m) PROVE m.pos + m.len < Size[Upload]
      OBVIOUS
    <2>1. Cut(LastPositionIndex, LastOTA_length)
      BY <1>1, <1>2, UartTypes DEF AlreadyWritten, CursorInv
    <2>2. m.pos + m.len <= End
      BY <1>1, <2>1, CutOrder DEF AlreadyWritten, End
    <2> QED
      BY <1>1, <1>2, <1>3, <2>2, UartTypes
  <1>10. DoneInv'
    BY <1>1, <1>7, <1>8, <1>9 DEF DoneInv
  <1> QED
    BY <1>6, <1>10

\* No chunk of the upload is all of it.
ManyChunks == \A c \in Chunks : c.image = Upload => c.len < Size[Upload]

LEMMA FirstIsShort ==
  ASSUME ManyChunks, NEW l, Cut(0, l)
  PROVE  l < Size[Upload]
  <1>1. PICK c \in Chunks : c.image = Upload /\ c.pos = 0
    BY FirstBegins DEF Begins
  <1>2. c.len = l
    BY <1>1, SameEnd
  <1> QED
    BY <1>1, <1>2 DEF ManyChunks

\* The device's work.
LEMMA WholeUart ==
  ASSUME QuietInv, SlotInv, DoneInv, ManyChunks, Uart, UNCHANGED lineVars, ~Fault
  PROVE  SlotInv' /\ DoneInv'
  <1> DEFINE j == job["uart"]
  <1>1. server' = server /\ chunk' = chunk
    BY DEF lineVars
  <1>2. /\ j.pos \in Nat /\ j.len \in Nat /\ Len(flash) \in Nat /\ End \in Nat
        /\ Size[Upload] \in Nat \ {0} /\ OtaTypeOK /\ CursorInv /\ PieceInv /\ ReplyInv
    BY TransferConstants, OtaConstants, UartTypes DEF QuietInv, DeviceInv, SerialInv
  <1>3. SlotInv /\ (chunk' # NoChunk => chunk'.image = Upload)
    BY <1>1 DEF SlotInv
  <1>4. CASE CheckHeader("uart")
    <2>1. /\ j.at = "header" /\ job'["uart"].at \in {"write", "begin", "failed"}
          /\ job'["uart"].image = j.image
      BY <1>2, <1>4, UartTypes, GotoType DEF CheckHeader
    <2>2. UNCHANGED <<LastPositionIndex, LastOTA_length, handleOpen, flash, boot, running, reply>>
      BY <1>4 DEF CheckHeader, cursorVars, slotVars, bootVars
    <2>3. SlotInv'
      BY <1>3, <2>1, <2>2 DEF SlotInv, OfUpload, Ending, End
    <2>4. Arrived => Arrived'
      BY <2>1, <2>2, ArrivedKept DEF Ending
    <2> QED
      BY <1>1, <2>2, <2>3, <2>4 DEF DoneInv
  <1>5. CASE BeginSlot("uart")
    <2>1. /\ j.at = "begin" /\ job'["uart"].at = "write" /\ flash' = <<>>
          /\ job'["uart"].image = j.image
      BY <1>2, <1>5, UartTypes, GotoType DEF BeginSlot
    <2>2. UNCHANGED <<LastPositionIndex, LastOTA_length, boot, running, reply>>
      BY <1>5 DEF BeginSlot, cursorVars, bootVars
    <2>3. SlotInv'
      BY <1>3, <2>1, <2>2 DEF SlotInv, OfUpload, Ending, End
    <2>4. Arrived => Arrived'
      BY <2>1, <2>2 DEF Arrived, Ending
    <2> QED
      BY <1>1, <2>2, <2>3, <2>4 DEF DoneInv
  <1>6. CASE WriteSlot("uart")
    <2>1. /\ j.at = "write" /\ job'["uart"].image = j.image
          /\ UNCHANGED <<LastPositionIndex, LastOTA_length, handleOpen, boot, running, reply>>
      BY <1>2, <1>6, UartTypes, GotoType DEF WriteSlot, cursorVars, bootVars
    <2>2. Arrived => running = Upload
      BY <2>1 DEF Arrived, Ending
    <2>3. Arrived => Arrived'
      BY <2>1, <2>2 DEF Arrived
    <2>4. CASE /\ Writable("uart") /\ flash' = flash \o Piece(j.image, j.pos, j.len)
               /\ Goto("uart", "written")
      <3>1. j.image = Upload /\ handleOpen /\ OfUpload(flash)
        BY <2>1, <2>4 DEF SlotInv, Writable
      <3>2. Len(flash) = j.pos
        BY <1>2, <2>1, <3>1, UartTypes DEF PieceInv, CursorInv
      <3>3. OfUpload(flash')
        <4>1. flash' = flash \o Piece(Upload, Len(flash), j.len)
          BY <2>4, <3>1, <3>2
        <4>2. flash \in Seq(Byte)
          BY <1>2 DEF OtaTypeOK
        <4> QED
          BY <1>2, <3>1, <4>1, <4>2, UploadAppend
      <3>4. job'["uart"].at = "written"
        BY <1>2, <2>4, UartTypes, GotoType
      <3>5. SlotInv'
        BY <1>3, <2>1, <3>1, <3>3, <3>4 DEF SlotInv, Ending, End
      <3> QED
        BY <1>1, <2>1, <2>3, <3>5 DEF DoneInv
    <2>5. CASE Goto("uart", "failed") /\ UNCHANGED flash
      <3>1. job'["uart"].at = "failed"
        BY <1>2, <2>5, UartTypes, GotoType
      <3>2. SlotInv'
        BY <1>3, <2>1, <2>5, <3>1 DEF SlotInv, OfUpload, Ending, End
      <3> QED
        BY <1>1, <2>1, <2>3, <3>2 DEF DoneInv
    <2> QED
      BY <1>6, <2>4, <2>5 DEF WriteSlot
  <1>7. CASE EndSlot("uart") \/ SetBoot("uart")
    <2>1. j.at \in {"end", "setboot"} /\ Holds(flash, Upload) /\ Whole(flash)
      <3>1. j.at \in {"end", "setboot"}
        BY <1>7 DEF EndSlot, SetBoot
      <3>2. Holds(flash, Upload)
        BY <3>1 DEF SlotInv, Ending
      <3> QED
        BY <3>1, <3>2, TransferConstants DEF Whole
    <2>2. /\ \/ EndSlot("uart") /\ Goto("uart", "setboot") /\ handleOpen' = FALSE /\ boot' = boot
             \/ SetBoot("uart") /\ Goto("uart", "restart") /\ UNCHANGED handleOpen /\ boot' = "update"
          /\ UNCHANGED <<LastPositionIndex, LastOTA_length, flash, running, reply>>
      <3>1. CASE EndSlot("uart")
        <4>1. handleOpen /\ Whole(flash)
          BY <2>1, <3>1 DEF EndSlot, SlotInv
        <4> QED
          BY <3>1, <4>1 DEF EndSlot, cursorVars, bootVars
      <3>2. CASE SetBoot("uart")
        BY <2>1, <3>2 DEF SetBoot, cursorVars, slotVars
      <3> QED
        BY <1>7, <3>1, <3>2
    <2>3. /\ job'["uart"].image = j.image
          /\ \/ job'["uart"].at = "setboot" /\ handleOpen' = FALSE
             \/ job'["uart"].at = "restart" /\ boot' = "update" /\ handleOpen' = handleOpen
      BY <1>2, <2>2, UartTypes, GotoType
    <2>4. SlotInv'
      BY <1>3, <2>1, <2>2, <2>3 DEF SlotInv, OfUpload, Holds, Ending
    <2>5. Arrived => Arrived'
      BY <2>2, <2>3, ArrivedKept DEF Ending
    <2> QED
      BY <1>1, <2>2, <2>4, <2>5 DEF DoneInv
  <1>8. CASE ReciveOTA_written
    <2>1. /\ j.at = "written" /\ LastPositionIndex' = j.pos /\ LastOTA_length' = j.len
          /\ UNCHANGED <<handleOpen, flash, boot, running>>
          /\ j.image = Upload /\ handleOpen /\ OfUpload(flash)
          /\ Cut(j.pos, j.len) /\ Len(flash) = j.pos + j.len
      BY <1>2, <1>8 DEF ReciveOTA_written, SlotInv, PieceInv, slotVars, bootVars
    <2>2. Arrived => Arrived'
      BY <2>1, ArrivedKept DEF Ending
    <2>3. CASE IsLast(j)
      <3>1. /\ job'["uart"].at = "end" /\ job'["uart"].image = Upload
            /\ reply' = [code |-> 6, pos |-> j.pos, len |-> j.len]
        BY <1>2, <1>8, <2>1, <2>3, UartTypes, GotoType DEF ReciveOTA_written, Answer
      <3>2. Holds(flash, Upload)
        BY <1>2, <2>1, <2>3, LongEnough DEF IsLast
      <3>3. SlotInv'
        BY <1>3, <2>1, <3>1, <3>2 DEF SlotInv, OfUpload, Holds, Ending
      <3>4. Arrived'
        BY <2>1, <3>1, <3>2 DEF Arrived, Holds, Ending
      <3> QED
        BY <1>1, <3>1, <3>3, <3>4 DEF DoneInv
    <2>4. CASE ~IsLast(j)
      <3>1. /\ job'["uart"].at = "idle"
            /\ reply' = [code |-> 1, pos |-> j.pos, len |-> j.len]
        BY <1>2, <1>8, <2>1, <2>4, UartTypes DEF ReciveOTA_written, Answer, Idle
      <3>2. j.pos + j.len < Size[Upload]
        <4>1. CASE j.pos = 0
          BY <1>2, <2>1, <4>1, FirstIsShort
        <4>2. CASE j.pos # 0
          BY <1>2, <2>1, <2>4, <4>2 DEF IsLast
        <4> QED
          BY <4>1, <4>2
      <3>3. SlotInv'
        BY <1>3, <2>1, <3>1, <3>2 DEF SlotInv, OfUpload, Ending, End
      <3> QED
        BY <1>1, <2>2, <3>1, <3>2, <3>3 DEF DoneInv
    <2> QED
      BY <2>3, <2>4
  <1>9. CASE ReciveOTA_failed
    <2>1. /\ j.at = "failed" /\ job'["uart"].at = "idle" /\ reply'.code = 4
          /\ UNCHANGED <<LastPositionIndex, LastOTA_length, handleOpen, flash, boot, running>>
      BY <1>2, <1>9, UartTypes DEF ReciveOTA_failed, Answer, Idle, cursorVars, slotVars, bootVars
    <2>2. SlotInv'
      BY <1>3, <2>1 DEF SlotInv, OfUpload, Ending, End
    <2>3. Arrived => Arrived'
      BY <2>1, ArrivedKept DEF Ending
    <2> QED
      BY <1>1, <2>1, <2>2, <2>3 DEF DoneInv
  <1> QED
    BY <1>4, <1>5, <1>6, <1>7, <1>8, <1>9 DEF Uart, Step

\* The update's own restart: the device runs the upload afterwards.
LEMMA WholeRestart ==
  ASSUME QuietInv, SlotInv, DoneInv, Restart, restarts' = restarts, UNCHANGED lineVars
  PROVE  SlotInv' /\ DoneInv'
  <1>1. Boot /\ \E t \in Task : job[t].at = "restart"
    BY OtaConstants DEF Restart, QuietInv, OtaTypeOK
  <1>2. job["uart"].at = "restart"
    BY <1>1 DEF QuietInv, DeviceInv, Alone, Task
  <1>3. boot = "update" /\ Holds(flash, Upload) /\ Whole(flash)
    <2>1. boot = "update" /\ Holds(flash, Upload)
      BY <1>2 DEF SlotInv, Ending
    <2> QED
      BY <2>1, TransferConstants DEF Whole
  <1>4. running' = Upload
    BY <1>1, <1>3, HeldIsUpload DEF Boot
  <1>5. /\ LastPositionIndex' = 0 /\ LastOTA_length' = 0 /\ handleOpen' = FALSE
        /\ job'["uart"].at = "idle" /\ reply' = reply /\ server' = server /\ chunk' = chunk
    BY <1>1 DEF Boot, Idle, Task, lineVars
  <1>6. SlotInv'
    <2>1. 0 + 0 < Size[Upload]
      BY TransferConstants, OtaConstants
    <2> QED
      BY <1>5, <2>1 DEF SlotInv, Ending, End
  <1>7. DoneInv'
    BY <1>4, <1>5 DEF DoneInv, Arrived
  <1> QED
    BY <1>6, <1>7

LEMMA WholeStep ==
  ASSUME TransferInv, ManyChunks, Undisturbed => SlotInv /\ DoneInv, [TransferNext]_vars,
         Undisturbed'
  PROVE  SlotInv' /\ DoneInv'
  <1>1. QuietInv \/ webStarts # 0
    BY DEF TransferInv
  <1>2. CASE webStarts # 0
    <2>1. webStarts \in Nat /\ (webStarts' = webStarts \/ webStarts' = webStarts + 1)
      BY DEF TransferInv, TransferNext, ServerSends, DeviceReceives, ServerReceives,
             ServerRepeats, LineLoses, DeviceWorks, Finished, vars, lineVars
    <2> QED
      BY <1>2, <2>1 DEF Undisturbed
  <1>3. CASE QuietInv
    <2>1. Undisturbed /\ ~Fault /\ (Restart => restarts' = restarts)
      BY <1>3, Disturbed DEF TransferInv, QuietInv
    <2>2. SlotInv /\ DoneInv
      BY <2>1
    <2>3. CASE ServerSends \/ ServerReceives \/ ServerRepeats \/ LineLoses \/ UNCHANGED vars
      BY <1>3, <2>2, <2>3, WholeLineStep
    <2>4. CASE DeviceReceives
      BY <1>3, <2>2, <2>4, WholeReceives
    <2>5. CASE (Uart \/ Web \/ Restart) /\ UNCHANGED lineVars
      <3>1. ~Web
        BY <1>3, <2>5, WebStill DEF QuietInv, DeviceInv, Device
      <3> QED
        BY <1>3, <2>1, <2>2, <2>5, <3>1, WholeUart, WholeRestart
    <2>6. webStarts' # webStarts + 1
      BY <2>1 DEF Undisturbed
    <2> QED
      BY <2>3, <2>4, <2>5, <2>6 DEF TransferNext, DeviceWorks, Finished
  <1> QED
    BY <1>1, <1>2, <1>3

LEMMA WholeInit ==
  ASSUME TransferInit
  PROVE  SlotInv /\ DoneInv
  <1>1. /\ LastPositionIndex = 0 /\ LastOTA_length = 0 /\ handleOpen = FALSE
        /\ job["uart"].at = "idle" /\ reply = NoReply
        /\ server.at = "send" /\ chunk = NoChunk
    BY DEF TransferInit, OtaInit, Idle, Task
  <1>2. 0 + 0 < Size[Upload]
    BY TransferConstants, OtaConstants
  <1> QED
    BY <1>1, <1>2 DEF SlotInv, DoneInv, Ending, End

\* For any image cut into more than one chunk, and whatever the line loses and
\* the server repeats: unless something failed, restarted or was downloaded
\* from the page, the server does not stop before the device runs the whole
\* image or is on its way to select it and restart.
THEOREM DoneIsWhole == ManyChunks => (TransferSpec => []DoneMeansWhole)
  <1> DEFINE Inv == Undisturbed => SlotInv /\ DoneInv
  <1> SUFFICES ASSUME ManyChunks PROVE TransferSpec => []DoneMeansWhole
    OBVIOUS
  <1>1. TransferInit => Inv
    BY WholeInit
  <1>2. TransferInv /\ Inv /\ [TransferNext]_vars => Inv'
    BY WholeStep
  <1>3. Inv => DoneMeansWhole
    BY DEF DoneInv, Arrived, Ending, DoneMeansWhole
  <1> HIDE DEF Inv
  <1> QED
    BY <1>1, <1>2, <1>3, InitTransfer, TransferStep, PTL DEF TransferSpec
-----------------------------------------------------------------------------
(***************************************************************************)
(* protocol.h:91, "6= done".                                               *)
(***************************************************************************)
\* While a chunk is worked on, the answer before it has been forgotten.
SilentInv == job["uart"].at \in InOtaTask => reply = NoReply

LEMMA SilentStep ==
  ASSUME OtaTypeOK, SilentInv, [TransferNext]_vars
  PROVE  SilentInv'
  <1>1. job \in [Task -> Job] /\ "uart" \in Task /\ "web" \in Task /\ "uart" # "web"
    BY DEF OtaTypeOK, Task
  <1>2. CASE /\ ServerSends \/ ServerReceives \/ ServerRepeats \/ LineLoses \/ UNCHANGED vars
             /\ UNCHANGED job
    BY <1>2 DEF ServerSends, ServerReceives, ServerRepeats, LineLoses, vars, otaVars, SilentInv
  <1>3. CASE DeviceReceives
    BY <1>1, <1>3 DEF DeviceReceives, ReciveOTA, ReciveOTA_again, ReciveOTA_hole,
                      ReciveOTA_first, ReciveOTA_next, Begin, InOtaTask, SilentInv
  <1>4. CASE Step("uart")
    <2>1. CASE CheckHeader("uart") \/ BeginSlot("uart") \/ WriteSlot("uart")
      BY <2>1 DEF CheckHeader, BeginSlot, WriteSlot, SilentInv, InOtaTask
    <2>2. CASE EndSlot("uart") \/ SetBoot("uart")
      <3>1. Goto("uart", "setboot") \/ Goto("uart", "restart") \/ EndFails("uart")
        BY <2>2 DEF EndSlot, SetBoot
      <3>2. job'["uart"].at \in {"setboot", "restart", "idle"}
        BY <1>1, <3>1 DEF EndFails, Goto, Idle, Job
      <3> QED
        BY <3>2 DEF SilentInv, InOtaTask
    <2> QED
      BY <1>4, <2>1, <2>2 DEF Step
  <1>5. CASE ReciveOTA_written \/ ReciveOTA_failed
    <2>1. Goto("uart", "end") \/ job' = [job EXCEPT !["uart"] = Idle]
      BY <1>5 DEF ReciveOTA_written, ReciveOTA_failed
    <2>2. job'["uart"].at \in {"end", "idle"}
      BY <1>1, <2>1 DEF Goto, Idle, Job
    <2> QED
      BY <2>2 DEF SilentInv, InOtaTask
  <1>6. CASE Web \/ WebStart
    <2>1. job'["uart"] = job["uart"] /\ reply' = reply
      BY <1>1, <1>6 DEF Web, Step, CheckHeader, BeginSlot, WriteSlot, EndSlot, SetBoot,
                        EndFails, Goto, WebPiece, WebReturn, WebStart
    <2> QED
      BY <2>1 DEF SilentInv
  <1>7. CASE Restart
    BY <1>7 DEF Restart, Boot, Idle, InOtaTask, SilentInv, Task
  <1>8. \/ ServerSends \/ ServerReceives \/ ServerRepeats \/ LineLoses \/ UNCHANGED vars
        \/ DeviceReceives \/ Uart \/ Web \/ Restart \/ WebStart
    BY DEF TransferNext, DeviceWorks, Finished
  <1>9. ServerSends \/ ServerReceives \/ ServerRepeats \/ LineLoses \/ UNCHANGED vars
          => UNCHANGED job
    BY DEF ServerSends, ServerReceives, ServerRepeats, LineLoses, vars, otaVars
  <1> QED
    BY <1>2, <1>3, <1>4, <1>5, <1>6, <1>7, <1>8, <1>9 DEF Uart

\* After "done" the upload is whole, and the driver refuses nothing.
LEMMA DoneFinal ==
  ASSUME TransferInv, SlotInv, SilentInv, [TransferNext]_vars, Undisturbed, Undisturbed',
         ~Fault, reply # NoReply, reply.code = 6
  PROVE  ~(reply' # NoReply /\ reply'.code = 4)
  <1>1. QuietInv
    BY DEF TransferInv, Undisturbed
  <1>2. CASE UNCHANGED reply
    BY <1>2
  <1>3. CASE ~(UNCHANGED reply) /\ Device
    <2>1. ~Web /\ job["uart"].at \notin InOtaTask
      BY <1>1, <1>3, WebStill DEF QuietInv, DeviceInv, SilentInv
    <2>2. ~CheckHeader("uart") /\ ~BeginSlot("uart") /\ ~WriteSlot("uart")
          /\ ~ReciveOTA_written /\ ~ReciveOTA_failed
      BY <2>1 DEF InOtaTask, CheckHeader, BeginSlot, WriteSlot, ReciveOTA_written,
                  ReciveOTA_failed
    <2>3. ~Restart
      BY <1>3 DEF Restart, Boot
    <2>4. Upload \in Image \union {Factory}
      BY TransferConstants
    <2>5. ~EndSlot("uart")
      <3> SUFFICES ASSUME EndSlot("uart") PROVE FALSE
        OBVIOUS
      <3>1. handleOpen /\ Whole(flash)
        BY <2>4 DEF EndSlot, SlotInv, Ending, Whole
      <3> QED
        BY <1>3, <3>1 DEF EndSlot
    <2>6. ~SetBoot("uart")
      <3> SUFFICES ASSUME SetBoot("uart") PROVE FALSE
        OBVIOUS
      <3>1. Whole(flash)
        BY <2>4 DEF SetBoot, SlotInv, Ending, Whole
      <3> QED
        BY <1>3, <3>1 DEF SetBoot
    <2>7. \E m \in Chunks : ReciveOTA(m)
      BY <1>3, <2>1, <2>2, <2>3, <2>5, <2>6 DEF Device, Uart, Step
    <2> QED
      BY <2>7 DEF ReciveOTA, ReciveOTA_again, ReciveOTA_hole, ReciveOTA_first, ReciveOTA_next,
                  Answer
  <1>4. CASE ~(UNCHANGED reply) /\ ~Device
    <2>1. ~DeviceReceives /\ ~DeviceWorks
      BY <1>1, <1>4 DEF Device, DeviceReceives, DeviceWorks, WebStart, QuietInv, LineTypeOK
    <2>2. reply' = NoReply
      BY <1>4, <2>1 DEF TransferNext, ServerSends, ServerReceives, ServerRepeats, LineLoses,
                        Finished, vars, otaVars
    <2> QED
      BY <2>2
  <1> QED
    BY <1>2, <1>3, <1>4

\* For any image cut into more than one chunk: as long as nothing failed, restarted
\* or was downloaded from the page, a chunk answered with "done" is not answered with
\* an error after that.  The run OtaDone shows that one failure is enough to break it.
THEOREM DoneIsFinal ==
    ManyChunks => (TransferSpec =>
        [][Undisturbed' /\ reply # NoReply /\ reply.code = 6
             => ~(reply' # NoReply /\ reply'.code = 4)]_vars)
  <1> DEFINE Inv == Undisturbed => SlotInv /\ DoneInv /\ SilentInv
             Final == Undisturbed' /\ reply # NoReply /\ reply.code = 6
                        => ~(reply' # NoReply /\ reply'.code = 4)
  <1> SUFFICES ASSUME ManyChunks PROVE TransferSpec => [][Final]_vars
    OBVIOUS
  <1>1. TransferInit => Inv
    BY WholeInit DEF TransferInit, OtaInit, SilentInv, Idle, InOtaTask, Task
  <1>2. TransferInv /\ Inv /\ [TransferNext]_vars => Inv' /\ [Final]_vars
    <2> SUFFICES ASSUME TransferInv, Inv, [TransferNext]_vars, Undisturbed'
                 PROVE  SlotInv' /\ DoneInv' /\ SilentInv' /\ Final
      OBVIOUS
    <2>1. SlotInv' /\ DoneInv'
      BY WholeStep
    <2>2. webStarts = 0
      BY DEF TransferInv, Undisturbed, TransferNext, ServerSends, DeviceReceives, ServerReceives,
             ServerRepeats, LineLoses, DeviceWorks, Finished, vars, lineVars
    <2>3. OtaTypeOK /\ webStarts \in Nat
      BY <2>2 DEF TransferInv, QuietInv
    <2>4. Undisturbed /\ ~Fault
      BY <2>3, Disturbed
    <2>5. SlotInv /\ SilentInv
      BY <2>4
    <2> QED
      BY <2>1, <2>3, <2>4, <2>5, SilentStep, DoneFinal
  <1> HIDE DEF Inv, Final
  <1> QED
    BY <1>1, <1>2, InitTransfer, TransferStep, PTL DEF TransferSpec
-----------------------------------------------------------------------------
\* The server and the line do nothing to the device but take its answer away.
LEMMA TransferMaps ==
  ASSUME QuietInv, MaxWebStarts = 0, webStarts \in Nat, [TransferNext]_vars
  PROVE  [Atomic!AtomicNext]_(Atomic!atomicVars)
  <1>1. CASE DeviceReceives \/ DeviceWorks
    <2>1. ~DeviceWorks \/ Uart \/ Web \/ Restart
      BY DEF DeviceWorks
    <2>2. Device
      BY <1>1, <2>1 DEF DeviceReceives, Device, QuietInv, LineTypeOK
    <2>3. ~OtherStarts("uart") /\ OtaNext
      BY <2>2, WebStill DEF QuietInv, DeviceInv, Device, OtherStarts, OtaNext
    <2> QED
      BY <2>3, StepMaps DEF QuietInv, DeviceInv, Task
  <1>2. CASE ~(DeviceReceives \/ DeviceWorks)
    <2>1. UNCHANGED <<flash, boot, running>>
      BY <1>2 DEF TransferNext, ServerSends, ServerReceives, ServerRepeats, LineLoses,
                  Finished, vars, otaVars, slotVars, bootVars
    <2> QED
      BY <2>1 DEF Atomic!atomicVars, HeldBy, Whole, Holds
  <1> QED
    BY <1>1, <1>2

\* The device, the server and a line that loses what it likes are together still
\* an update that happens at once or not at all, if the page starts none.
THEOREM TransferIsAtomic == MaxWebStarts = 0 => (TransferSpec => UpdateIsAtomic)
  <1> SUFFICES ASSUME MaxWebStarts = 0 PROVE TransferSpec => UpdateIsAtomic
    OBVIOUS
  <1> DEFINE Inv == webStarts = 0
  <1>1. TransferInit => Inv
    BY DEF TransferInit
  <1>2. Inv /\ [TransferNext]_vars => Inv'
    BY DEF TransferNext, ServerSends, DeviceReceives, ServerReceives, ServerRepeats,
           LineLoses, DeviceWorks, Finished, vars, lineVars
  <1>3. TransferInv /\ Inv /\ [TransferNext]_vars => [Atomic!AtomicNext]_(Atomic!atomicVars)
    BY TransferMaps DEF TransferInv
  <1>4. TransferInit => Atomic!AtomicInit
    BY InitMaps DEF TransferInit
  <1> HIDE DEF Inv
  <1> QED
    BY <1>1, <1>2, <1>3, <1>4, InitTransfer, TransferStep, PTL
    DEF TransferSpec, UpdateIsAtomic, Atomic!AtomicSpec
==============================================================================
