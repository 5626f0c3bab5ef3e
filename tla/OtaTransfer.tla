----------------------------- MODULE OtaTransfer -----------------------------
(***************************************************************************)
(* A firmware update over RS485 end to end: OtaUpdate's device, the line,  *)
(* and the server.  The server is not part of the repository; it is        *)
(* modelled from the answers ReciveOTA gives it: it sends one chunk at a   *)
(* time, goes on when the chunk is acknowledged, stops at "done", starts   *)
(* again at chunk 0 on an error or a hole, and repeats a chunk that is not *)
(* answered in time.  The line may lose a chunk or an answer.              *)
(***************************************************************************)
EXTENDS OtaUpdate

CONSTANTS
    Upload,       \* the image the server sends
    MaxLosses,    \* bound: chunks and answers the line loses
    MaxTimeouts,  \* bound: times the server repeats too early
    MaxWebStarts, \* bound: updates started from the web page meanwhile
    NoChunk       \* nothing is on the way to the device

ASSUME TransferConstants ==
    /\ Upload \in Image /\ NoChunk \notin Chunks
    /\ MaxLosses \in Nat /\ MaxTimeouts \in Nat /\ MaxWebStarts \in Nat
    /\ \A n \in 0 .. Size[Upload] - 1 :
          \E c \in Chunks : c.image = Upload /\ n \in c.pos .. c.pos + c.len - 1

VARIABLES
    server,   \* [at : "send", "wait" or "done", pos : position of its chunk]
    chunk,    \* the chunk on the way to the device
    losses, timeouts, webStarts

lineVars == <<server, chunk, losses, timeouts, webStarts>>
vars == <<otaVars, lineVars>>

ChunkAt(p) == CHOOSE c \in Chunks : c.image = Upload /\ c.pos = p

ServerSends ==
    /\ server.at = "send" /\ chunk = NoChunk
    /\ chunk' = ChunkAt(server.pos)
    /\ server' = [server EXCEPT !.at = "wait"]
    /\ UNCHANGED <<otaVars, losses, timeouts, webStarts>>

\* serialEvent hands the chunk to ReciveOTA in the same task.
DeviceReceives ==
    /\ chunk # NoChunk
    /\ ReciveOTA(chunk)
    /\ chunk' = NoChunk
    /\ UNCHANGED <<server, losses, timeouts, webStarts>>

Next(answer) ==
    LET p == answer.pos + answer.len
    IN  CASE answer.code = 1 /\ p < Size[Upload] -> [at |-> "send", pos |-> p]
          [] answer.code = 6 \/ (answer.code = 1 /\ p >= Size[Upload]) ->
                [at |-> "done", pos |-> 0]
          [] OTHER -> [at |-> "send", pos |-> 0]

\* An answer about another chunk than the one the server waits for is late,
\* and ignored; answer 5 names the device's position and is about any chunk.
ServerReceives ==
    /\ reply # NoReply /\ reply' = NoReply
    /\ server' = IF server.at = "wait" /\ (reply.code = 5 \/ reply.pos = server.pos)
                 THEN Next(reply) ELSE server
    /\ UNCHANGED <<cursorVars, image_header_was_checked, slotVars, bootVars, job,
                   faults, restarts, chunk, losses, timeouts, webStarts>>

\* The chunk, or its answer, got lost, or a restart swallowed it.
Silent == chunk = NoChunk /\ reply = NoReply /\ job["uart"].at = "idle"

ServerRepeats ==
    /\ server.at = "wait"
    /\ \/ Silent /\ UNCHANGED timeouts
       \/ timeouts < MaxTimeouts /\ timeouts' = timeouts + 1
    /\ server' = [server EXCEPT !.at = "send"]
    /\ UNCHANGED <<otaVars, chunk, losses, webStarts>>

LineLoses ==
    /\ losses < MaxLosses /\ losses' = losses + 1
    /\ \/ chunk # NoChunk /\ chunk' = NoChunk /\ UNCHANGED reply
       \/ reply # NoReply /\ reply' = NoReply /\ UNCHANGED chunk
    /\ UNCHANGED <<cursorVars, image_header_was_checked, slotVars, bootVars, job,
                   faults, restarts, server, timeouts, webStarts>>

DeviceWorks ==
    \/ (Uart \/ Web \/ Restart) /\ UNCHANGED lineVars
    \/ /\ webStarts < MaxWebStarts /\ webStarts' = webStarts + 1
       /\ WebStart
       /\ UNCHANGED <<server, chunk, losses, timeouts>>

\* The server has stopped and the device waits for messages.
Finished ==
    /\ server.at = "done" /\ chunk = NoChunk /\ reply = NoReply
    /\ \A t \in Task : job[t].at = "idle"
    /\ UNCHANGED vars

TransferInit ==
    /\ OtaInit
    /\ server = [at |-> "send", pos |-> 0]
    /\ chunk = NoChunk
    /\ losses = 0 /\ timeouts = 0 /\ webStarts = 0

TransferNext ==
    ServerSends \/ DeviceReceives \/ ServerReceives \/ ServerRepeats \/ LineLoses
    \/ DeviceWorks \/ Finished

\* Ready tasks run, what is on the line arrives, the server's timer expires.
TransferSpec ==
    /\ TransferInit /\ [][TransferNext]_vars
    /\ WF_vars(ServerSends) /\ WF_vars(DeviceReceives) /\ WF_vars(ServerReceives)
    /\ WF_vars(ServerRepeats)
    /\ WF_vars(Uart /\ UNCHANGED lineVars) /\ WF_vars(Web /\ UNCHANGED lineVars)
    /\ WF_vars((\E t \in Task : job[t].at = "restart") /\ Restart /\ UNCHANGED lineVars)
-----------------------------------------------------------------------------
\* Chunks are not reordered, so the device never reports a chunk as written
\* that it has not written, and the server never leaves one out: whatever it
\* has been acknowledged in this session is in the slot, in order.
ServerNeverAhead ==
    webStarts = 0 /\ server.at # "done" /\ handleOpen /\ LastOTA_length > 0
        => server.pos <= Len(flash)

Undisturbed == faults = 0 /\ restarts = 0 /\ webStarts = 0

\* Without faults, restarts and updates from the web page, the server stops only
\* when the device runs the whole image, or has it in its slot and is about to
\* select it and restart: no lost or repeated answer makes it stop too early.
DoneMeansWhole ==
    server.at = "done" /\ Undisturbed =>
        \/ running = Upload
        \/ Holds(flash, Upload) /\ job["uart"].at \in {"end", "setboot", "restart"}

\* The transfer ends, in spite of losses, repeats, faults, restarts of the
\* device and updates started from the web page in between.
TransferEnds == <>(server.at = "done")

\* Without faults, restarts and updates from the web page, a finished transfer
\* means that the device comes to run the image, whatever the line has lost and
\* the server has repeated.
DoneMeansRunning ==
    server.at = "done" ~> running = Upload \/ faults + restarts + webStarts > 0
==============================================================================
