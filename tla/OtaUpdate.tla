------------------------------ MODULE OtaUpdate ------------------------------
(***************************************************************************)
(* Firmware update: ReciveOTA of src/main/protocol.c (chunks over RS485),  *)
(* download_os_file of src/main/dev_web_server.c (the same image pulled    *)
(* over HTTP) and the functions of src/main/OTA.c they share.  The two run *)
(* in different tasks and share update_handle, image_header_was_checked    *)
(* and the update slot.                                                    *)
(*                                                                         *)
(* External, modelled from how OTA.c uses it: esp_ota_begin / write / end  *)
(* / set_boot_partition, and the boot loader.  A byte of an image is the   *)
(* pair <<image, index>>, with indices from 1.                             *)
(***************************************************************************)
EXTENDS Integers, Sequences

CONSTANTS
    Image,        \* images a server may offer
    Factory,      \* the image the device was made with
    Size,         \* bytes of each image (ProgramLength)
    Chunks,       \* E_OTA messages: [image, pos, len]
    WebImages,    \* images the web page's update may download
    WebRead,      \* bytes esp_http_client_read returns at most
    HeaderSize,   \* bytes of image header and esp_app_desc_t
    MaxFaults,    \* bound: failures of flash, heap and HTTP
    MaxRestarts,  \* bound: restarts that are not the update's own
    NoReply       \* nothing was answered since the last message began

Task == {"uart", "web"}
Code == {1, 4, 5, 6}  \* Staus_response: ok, error in esp, hole in data, done

ASSUME OtaConstants ==
    /\ Factory \notin Image /\ WebImages \subseteq Image
    /\ Size \in [Image \union {Factory} -> Nat \ {0}]
    /\ Chunks \subseteq [image : Image, pos : Nat, len : Nat \ {0}]
    /\ WebRead \in Nat \ {0} /\ HeaderSize \in Nat
    /\ MaxFaults \in Nat /\ MaxRestarts \in Nat

\* The server cuts every image at the same places.
ASSUME ChunkLayout ==
    \A c, d \in Chunks : /\ c.pos = d.pos => c.len = d.len
                         /\ c.pos < d.pos => c.pos + c.len <= d.pos

ASSUME NoReplyIsNone == NoReply \notin [code : Code, pos : Nat, len : Nat]

VARIABLES
    LastPositionIndex, LastOTA_length,  \* last chunk ReciveOTA has written
    image_header_was_checked,
    handleOpen,   \* update_handle names a live entry of the OTA driver
    flash,        \* bytes written to the update slot since its last erase
    boot,         \* slot otadata selects: "running" or "update"
    running,      \* the image the device runs
    job,          \* per task: where it is in its handler, and its piece
    reply,        \* the last E_OTA_ACK for the message being handled
    faults, restarts

cursorVars == <<LastPositionIndex, LastOTA_length>>
slotVars == <<handleOpen, flash>>
bootVars == <<boot, running>>
otaVars == <<LastPositionIndex, LastOTA_length, image_header_was_checked,
             handleOpen, flash, boot, running, job, reply, faults, restarts>>

Byte == (Image \union {Factory}) \X Nat
Piece(image, pos, len) == [i \in 1 .. len |-> <<image, pos + i>>]

\* What esp_ota_end, esp_ota_set_boot_partition and the boot loader check by
\* the image's own length and hash: the slot begins with image i, complete.
Holds(slot, i) ==
    Len(slot) >= Size[i] /\ \A n \in 1 .. Size[i] : slot[n] = <<i, n>>
Whole(slot) == \E i \in Image \union {Factory} : Holds(slot, i)

Job == [at : {"idle", "read", "header", "begin", "write", "written", "failed",
              "end", "setboot", "restart"},
        image : Image \union {Factory}, pos : Nat, len : Nat]
Idle == [at |-> "idle", image |-> Factory, pos |-> 0, len |-> 0]
Fault == faults < MaxFaults /\ faults' = faults + 1
NoFault == UNCHANGED faults
-----------------------------------------------------------------------------
(***************************************************************************)
(* ota_task, in either task: job[t].at is "header", "begin" or "write",    *)
(* then "written" or "failed".                                             *)
(***************************************************************************)
Goto(t, at) == job' = [job EXCEPT ![t].at = at]

\* The first piece must hold the whole header.  The flag is set before
\* esp_ota_begin runs.
CheckHeader(t) ==
    /\ job[t].at = "header"
    /\ IF image_header_was_checked
       THEN Goto(t, "write") /\ UNCHANGED image_header_was_checked
       ELSE IF job[t].len > HeaderSize
       THEN Goto(t, "begin") /\ image_header_was_checked' = TRUE
       ELSE Goto(t, "failed") /\ UNCHANGED image_header_was_checked
    /\ UNCHANGED <<cursorVars, slotVars, bootVars, reply, faults, restarts>>

\* esp_ota_begin erases the slot and makes a handle; when it fails the old
\* value of update_handle stays, whatever that names.
BeginSlot(t) ==
    /\ job[t].at = "begin"
    /\ \/ /\ flash' = <<>> /\ handleOpen' = TRUE
          /\ Goto(t, "write")
          /\ NoFault
       \/ /\ Fault
          /\ Goto(t, "failed")
          /\ UNCHANGED slotVars
    /\ UNCHANGED <<cursorVars, image_header_was_checked, bootVars, reply, restarts>>

\* esp_ota_write appends at the handle's offset; the first byte of the slot
\* must be the magic byte an image begins with.
Writable(t) == handleOpen /\ (flash = <<>> => job[t].pos = 0)

\* Mutant: the result of esp_ota_write is not looked at.
WriteSlot_ErrorIgnored(t) ==
    LET j == job[t]
    IN  /\ j.at = "write"
        /\ \/ /\ Writable(t)
              /\ flash' = flash \o Piece(j.image, j.pos, j.len)
              /\ NoFault
           \/ /\ IF Writable(t) THEN Fault ELSE NoFault
              /\ UNCHANGED flash
        /\ Goto(t, "written")
        /\ UNCHANGED <<cursorVars, image_header_was_checked, handleOpen,
                       bootVars, reply, restarts>>

WriteSlot(t) ==
    LET j == job[t]
    IN  /\ j.at = "write"
        /\ \/ /\ Writable(t)
              /\ flash' = flash \o Piece(j.image, j.pos, j.len)
              /\ Goto(t, "written")
              /\ NoFault
           \/ /\ IF Writable(t) THEN Fault ELSE NoFault
              /\ Goto(t, "failed")
              /\ UNCHANGED flash
        /\ UNCHANGED <<cursorVars, image_header_was_checked, handleOpen,
                       bootVars, reply, restarts>>
-----------------------------------------------------------------------------
(***************************************************************************)
(* OTA_End, in either task: esp_ota_end, esp_ota_set_boot_partition, then  *)
(* esp_restart.                                                            *)
(***************************************************************************)
Answer(code, pos, len) == reply' = [code |-> code, pos |-> pos, len |-> len]

\* A failed OTA_End: ReciveOTA answers 4, download_os_file ignores it.
EndFails(t) ==
    /\ job' = [job EXCEPT ![t] = Idle]
    /\ IF t = "uart" THEN Answer(4, job[t].pos, job[t].len) ELSE UNCHANGED reply

\* esp_ota_end releases the handle whether or not the image is good.
EndSlot(t) ==
    /\ job[t].at = "end"
    /\ handleOpen' = FALSE
    /\ \/ /\ handleOpen /\ Whole(flash)
          /\ Goto(t, "setboot")
          /\ NoFault /\ UNCHANGED reply
       \/ /\ IF handleOpen /\ Whole(flash) THEN Fault ELSE NoFault
          /\ EndFails(t)
    /\ UNCHANGED <<cursorVars, image_header_was_checked, flash, bootVars, restarts>>

\* Mutant: OTA_End returns without esp_restart.
SetBoot_NoRestart(t) ==
    /\ job[t].at = "setboot"
    /\ boot' = IF Whole(flash) THEN "update" ELSE boot
    /\ Goto(t, "idle")
    /\ UNCHANGED <<cursorVars, image_header_was_checked, slotVars, running, reply,
                   faults, restarts>>

SetBoot(t) ==
    /\ job[t].at = "setboot"
    /\ \/ /\ Whole(flash)
          /\ boot' = "update"
          /\ Goto(t, "restart")
          /\ NoFault /\ UNCHANGED reply
       \/ /\ IF Whole(flash) THEN Fault ELSE NoFault
          /\ EndFails(t)
          /\ UNCHANGED boot
    /\ UNCHANGED <<cursorVars, image_header_was_checked, slotVars, running, restarts>>
-----------------------------------------------------------------------------
(***************************************************************************)
(* ReciveOTA.                                                              *)
(***************************************************************************)
Begin(m) == job' = [job EXCEPT !["uart"] =
    [at |-> "header", image |-> m.image, pos |-> m.pos, len |-> m.len]]

AlreadyWritten(m) == m.pos # 0 /\ m.pos <= LastPositionIndex
Hole(m) == m.pos # 0 /\ m.pos # LastPositionIndex + LastOTA_length

\* A chunk at or before the last one is acknowledged and not written again.
ReciveOTA_again(m) ==
    /\ AlreadyWritten(m)
    /\ Answer(IF LastPositionIndex = 0 THEN 6 ELSE 1, m.pos, m.len)
    /\ UNCHANGED <<cursorVars, image_header_was_checked, job>>

\* Mutant: answers the index before the last chunk.
ReciveOTA_hole_OneBefore(m) ==
    /\ ~AlreadyWritten(m) /\ Hole(m)
    /\ Answer(5, LastPositionIndex - 1, LastOTA_length)
    /\ UNCHANGED <<cursorVars, image_header_was_checked, job>>

\* A chunk that does not follow the last one is refused with the last position.
ReciveOTA_hole(m) ==
    /\ ~AlreadyWritten(m) /\ Hole(m)
    /\ Answer(5, LastPositionIndex, LastOTA_length)
    /\ UNCHANGED <<cursorVars, image_header_was_checked, job>>

\* Mutant: starting_ota leaves the header marked as checked.
ReciveOTA_first_FlagStays(m) ==
    /\ m.pos = 0
    /\ LastPositionIndex' = 0 /\ LastOTA_length' = 0
    /\ Begin(m)
    /\ reply' = NoReply
    /\ UNCHANGED image_header_was_checked

\* Chunk 0 starts the update again (starting_ota), from whatever state.
ReciveOTA_first(m) ==
    /\ m.pos = 0
    /\ image_header_was_checked' = FALSE
    /\ LastPositionIndex' = 0 /\ LastOTA_length' = 0
    /\ Begin(m)
    /\ reply' = NoReply

ReciveOTA_next(m) ==
    /\ m.pos # 0 /\ ~AlreadyWritten(m) /\ ~Hole(m)
    /\ Begin(m)
    /\ reply' = NoReply
    /\ UNCHANGED <<cursorVars, image_header_was_checked>>

ReciveOTA(m) ==
    /\ job["uart"].at = "idle"
    /\ \/ ReciveOTA_again(m) \/ ReciveOTA_hole(m)
       \/ ReciveOTA_first(m) \/ ReciveOTA_next(m)
    /\ UNCHANGED <<slotVars, bootVars, faults, restarts>>

\* Mutant: compares with > instead of >=.
IsLast_OneLate(j) == j.pos # 0 /\ j.pos + j.len > Size[j.image]
\* A chunk at position 0 is never the last one.
IsLast(j) == j.pos # 0 /\ j.pos + j.len >= Size[j.image]

\* After ota_task: move the cursor and answer; the last chunk is answered
\* "done" before OTA_End has run.
ReciveOTA_written ==
    LET j == job["uart"]
    IN  /\ j.at = "written"
        /\ LastPositionIndex' = j.pos /\ LastOTA_length' = j.len
        /\ Answer(IF IsLast(j) THEN 6 ELSE 1, j.pos, j.len)
        /\ IF IsLast(j) THEN Goto("uart", "end")
                        ELSE job' = [job EXCEPT !["uart"] = Idle]
        /\ UNCHANGED <<image_header_was_checked, slotVars, bootVars, faults, restarts>>

ReciveOTA_failed ==
    LET j == job["uart"]
    IN  /\ j.at = "failed"
        /\ Answer(4, j.pos, j.len)
        /\ job' = [job EXCEPT !["uart"] = Idle]
        /\ UNCHANGED <<cursorVars, image_header_was_checked, slotVars, bootVars,
                       faults, restarts>>
-----------------------------------------------------------------------------
(***************************************************************************)
(* download_os_file, in the web server's task: starting_ota if the headers *)
(* announce a body, ota_task on every piece whatever it returned before,   *)
(* and OTA_End in every case, after a read error too.                      *)
(***************************************************************************)
WebStart ==
    /\ job["web"].at = "idle"
    /\ \E i \in WebImages :
        job' = [job EXCEPT !["web"] = [Idle EXCEPT !.at = "read", !.image = i]]
    /\ \/ image_header_was_checked' = FALSE /\ NoFault
       \/ UNCHANGED image_header_was_checked /\ Fault
    /\ UNCHANGED <<cursorVars, slotVars, bootVars, reply, restarts>>

WebPiece ==
    LET j == job["web"]
        next == j.pos + j.len
        left == Size[j.image] - next
    IN  /\ j.at = "read"
        /\ \/ /\ \E n \in 1 .. WebRead :
                    /\ n <= left
                    /\ job' = [job EXCEPT !["web"].at = "header", !["web"].pos = next,
                                          !["web"].len = n]
              /\ NoFault
           \/ /\ IF left > 0 THEN Fault ELSE NoFault
              /\ Goto("web", "end")
        /\ UNCHANGED <<cursorVars, image_header_was_checked, slotVars, bootVars,
                       reply, restarts>>

WebReturn ==
    /\ job["web"].at \in {"written", "failed"}
    /\ Goto("web", "read")
    /\ UNCHANGED <<cursorVars, image_header_was_checked, slotVars, bootVars,
                   reply, faults, restarts>>
-----------------------------------------------------------------------------
(***************************************************************************)
(* Restart, by esp_restart at the end of OTA_End or at any other moment.   *)
(* The boot loader runs the selected slot if it holds a whole image; the   *)
(* slot the device leaves becomes the next update slot.  An answer already *)
(* sent stays on the line.                                                 *)
(***************************************************************************)
Boot ==
    /\ LastPositionIndex' = 0 /\ LastOTA_length' = 0
    /\ image_header_was_checked' = FALSE
    /\ handleOpen' = FALSE
    /\ job' = [t \in Task |-> Idle]
    /\ IF boot = "update" /\ Whole(flash)
       THEN /\ \E i \in Image \union {Factory} : Holds(flash, i) /\ running' = i
            /\ boot' = "running"
            /\ flash' = Piece(running, 0, Size[running])
       ELSE UNCHANGED <<boot, running, flash>>
    /\ UNCHANGED <<reply, faults>>

Restart ==
    \/ (\E t \in Task : job[t].at = "restart") /\ Boot /\ UNCHANGED restarts
    \/ restarts < MaxRestarts /\ Boot /\ restarts' = restarts + 1

OtaInit ==
    /\ LastPositionIndex = 0 /\ LastOTA_length = 0
    /\ image_header_was_checked = FALSE
    /\ handleOpen = FALSE
    /\ flash = <<>>
    /\ boot = "running" /\ running = Factory
    /\ job = [t \in Task |-> Idle]
    /\ reply = NoReply
    /\ faults = 0 /\ restarts = 0

\* Steps of a task inside ota_task or OTA_End.
Step(t) == CheckHeader(t) \/ BeginSlot(t) \/ WriteSlot(t) \/ EndSlot(t) \/ SetBoot(t)
Uart == Step("uart") \/ ReciveOTA_written \/ ReciveOTA_failed
Web == Step("web") \/ WebPiece \/ WebReturn

OtaNext == (\E m \in Chunks : ReciveOTA(m)) \/ Uart \/ WebStart \/ Web \/ Restart

OtaSpec == OtaInit /\ [][OtaNext]_otaVars
-----------------------------------------------------------------------------
(***************************************************************************)
(* Properties.                                                             *)
(***************************************************************************)
OtaTypeOK ==
    /\ LastPositionIndex \in Nat /\ LastOTA_length \in Nat
    /\ image_header_was_checked \in BOOLEAN /\ handleOpen \in BOOLEAN
    /\ flash \in Seq(Byte)
    /\ boot \in {"running", "update"} /\ running \in Image \union {Factory}
    /\ job \in [Task -> Job]
    /\ reply \in [code : Code, pos : Nat, len : Nat] \union {NoReply}
    /\ faults \in 0 .. MaxFaults /\ restarts \in 0 .. MaxRestarts

\* The bytes from index first + 1 to last are in the slot, each at its place.
Stored(first, last) ==
    last <= Len(flash) /\ \A n \in first + 1 .. last : flash[n][2] = n

\* Without the web update: the cursor ReciveOTA goes by agrees with what the
\* driver has written, through failures, repeated and missing chunks, new
\* starts and restarts.  No chunk is skipped or written twice.
CursorMatchesFlash ==
    WebImages = {} /\ LastOTA_length > 0 =>
        /\ Stored(0, LastPositionIndex + LastOTA_length)
        /\ handleOpen /\ job["uart"].at = "idle" =>
              Len(flash) = LastPositionIndex + LastOTA_length

\* Without the web update: whatever chunk is acknowledged is in the slot.
AckMeansWritten ==
    WebImages = {} /\ reply # NoReply /\ reply.code = 1 =>
        Stored(reply.pos, reply.pos + reply.len)

\* With one source of updates, the slot otadata selects holds a whole image
\* until the device has restarted from it: no power cut finds it half written.
SelectedSlotWhole ==
    (WebImages = {} \/ Chunks = {}) /\ boot = "update" => Whole(flash)

\* protocol.h:91 "6= done": a chunk answered with "done" is not answered with
\* an error after that.
SixMeansDone ==
    [][reply # NoReply /\ reply.code = 6 => ~(reply' # NoReply /\ reply'.code = 4)]_otaVars
==============================================================================
