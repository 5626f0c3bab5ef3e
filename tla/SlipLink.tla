------------------------------- MODULE SlipLink -------------------------------
(***************************************************************************)
(* The framing of the RS485 line: protocol_send_packet at the sending end, *)
(* serialEvent of src/main/drv_rs485.c and protocol_test_packet at the     *)
(* receiving end.  The line between them may lose, change and add bytes.   *)
(* The server's ends are taken to be like the device's.                    *)
(***************************************************************************)
EXTENDS Integers, Sequences

CONSTANTS
    Packet,             \* what is sent: header and data, without CRC
    CRC16,              \* the checksum, a function of the bytes it covers
    RS485_BUFFER_SIZE,
    SLIP_START, SLIP_END, SLIP_ESC,
    Noise,              \* bytes the line makes up
    MaxFrames,          \* bound: packets sent
    MaxDamage           \* bound: bytes lost, changed or added per packet

Byte == 0 .. 255
Word == {n \in Nat : n < 65536}
Special == {SLIP_START, SLIP_END, SLIP_ESC}

ASSUME SlipConstants ==
    /\ Packet \subseteq Seq(Byte)
    /\ \A p \in Packet : Len(p) >= 2
    /\ Special \union Noise \subseteq Byte
    /\ SLIP_ESC < SLIP_START /\ SLIP_START < SLIP_END
    /\ SLIP_END - SLIP_ESC < SLIP_ESC
    /\ RS485_BUFFER_SIZE \in Nat \ {0} /\ MaxFrames \in Nat /\ MaxDamage \in Nat

ASSUME CrcIsWord == \A p \in Packet : CRC16[p] \in Word

VARIABLES
    log,      \* packets sent, the last one perhaps still on the line
    packet,   \* the packet on the line with its CRC
    at,       \* next on the line: "start", "data", the rest of an "escaped"
              \* byte, "end", or nothing ("idle")
    next,     \* bytes of packet that have left
    clean,    \* nothing was damaged since this packet's START
    damage,   \* bytes damaged since this packet was begun
    rs485Buffer,  \* the first rs485BufferPosition bytes of it
    startReceived, rx_esc,
    accepted  \* packets that passed protocol_test_packet

sendVars == <<log, packet, at, next>>
recvVars == <<rs485Buffer, startReceived, rx_esc, accepted>>
vars == <<sendVars, clean, damage, recvVars>>

Body == log[Len(log)]
-----------------------------------------------------------------------------
(***************************************************************************)
(* Sending.                                                                *)
(***************************************************************************)
WithCRC(p) == p \o <<CRC16[p] % 256, CRC16[p] \div 256>>

protocol_send_packet(p) ==
    /\ at = "idle" /\ Len(log) < MaxFrames
    /\ log' = Append(log, p)
    /\ packet' = WithCRC(p)
    /\ at' = "start" /\ next' = 0
    /\ clean' = FALSE /\ damage' = 0
    /\ UNCHANGED recvVars

\* The byte that leaves next, protocol_send_slip_char's escapes included.
Char ==
    CASE at = "start" -> SLIP_START
      [] at = "data" -> IF packet[next + 1] \in Special THEN SLIP_ESC ELSE packet[next + 1]
      [] at = "escaped" -> packet[next + 1] - SLIP_ESC
      [] OTHER -> SLIP_END

After(n) == /\ next' = n
            /\ at' = IF n = Len(packet) THEN "end" ELSE "data"

CharLeaves ==
    /\ \/ at = "start" /\ After(0)
       \/ at = "data" /\ packet[next + 1] \in Special /\ at' = "escaped" /\ UNCHANGED next
       \/ at = "data" /\ packet[next + 1] \notin Special /\ After(next + 1)
       \/ at = "escaped" /\ After(next + 1)
       \/ at = "end" /\ at' = "idle" /\ UNCHANGED next
    /\ UNCHANGED <<log, packet>>
-----------------------------------------------------------------------------
(***************************************************************************)
(* Receiving.                                                              *)
(***************************************************************************)
\* protocol_test_packet: the last two bytes are the CRC of the others.
Valid(buff) ==
    LET n == Len(buff) - 2
    IN  /\ Len(buff) >= 4
        /\ buff[n + 1] + 256 * buff[n + 2] = CRC16[SubSeq(buff, 1, n)]

\* reciveValidMsg, as far as the packet's being taken or dropped.
reciveValidMsg(buff) ==
    accepted' = IF Valid(buff)
                THEN Append(accepted, SubSeq(buff, 1, Len(buff) - 2))
                ELSE accepted

\* A full buffer is emptied and the byte that found it full is dropped.
Overflow ==
    /\ rs485Buffer' = <<>>
    /\ UNCHANGED <<startReceived, rx_esc, accepted>>

StartByte ==
    /\ startReceived' = TRUE /\ rs485Buffer' = <<>> /\ rx_esc' = FALSE
    /\ UNCHANGED accepted

\* Mutant: the message stays in the buffer after its END.
EndByte_KeepsMessage ==
    /\ IF startReceived THEN reciveValidMsg(rs485Buffer) ELSE UNCHANGED accepted
    /\ UNCHANGED <<rs485Buffer, startReceived, rx_esc>>

EndByte ==
    /\ IF startReceived
       THEN reciveValidMsg(rs485Buffer) /\ startReceived' = FALSE /\ rs485Buffer' = <<>>
       ELSE UNCHANGED <<rs485Buffer, startReceived, accepted>>
    /\ UNCHANGED rx_esc

EscByte == rx_esc' = TRUE /\ UNCHANGED <<rs485Buffer, startReceived, accepted>>

\* Mutant: the escape stays in the buffer.
DataByte_KeepsEscape(c) ==
    /\ IF startReceived
       THEN /\ rs485Buffer' = IF rx_esc THEN rs485Buffer \o <<SLIP_ESC, c>> ELSE Append(rs485Buffer, c)
            /\ rx_esc' = FALSE
       ELSE UNCHANGED <<rs485Buffer, rx_esc>>
    /\ UNCHANGED <<startReceived, accepted>>

DataByte(c) ==
    /\ IF startReceived
       THEN /\ rs485Buffer' = Append(rs485Buffer, IF rx_esc THEN (SLIP_ESC + c) % 256 ELSE c)
            /\ rx_esc' = FALSE
       ELSE UNCHANGED <<rs485Buffer, rx_esc>>
    /\ UNCHANGED <<startReceived, accepted>>

\* Mutant: the last byte of the buffer is never used.
serialEvent_OneShort(c) ==
    IF Len(rs485Buffer) >= RS485_BUFFER_SIZE - 1 THEN Overflow
    ELSE CASE c = SLIP_START -> StartByte
           [] c = SLIP_END -> EndByte
           [] c = SLIP_ESC -> EscByte
           [] OTHER -> DataByte(c)

serialEvent(c) ==
    IF Len(rs485Buffer) >= RS485_BUFFER_SIZE THEN Overflow
    ELSE CASE c = SLIP_START -> StartByte
           [] c = SLIP_END -> EndByte
           [] c = SLIP_ESC -> EscByte
           [] OTHER -> DataByte(c)
-----------------------------------------------------------------------------
(***************************************************************************)
(* The line (external).                                                    *)
(***************************************************************************)
Damage == /\ damage < MaxDamage /\ damage' = damage + 1
          /\ clean' = FALSE

Arrives ==
    /\ CharLeaves
    /\ serialEvent(Char)
    /\ clean' = (clean \/ at = "start")
    /\ UNCHANGED damage

GetsLost == CharLeaves /\ Damage /\ UNCHANGED recvVars

GetsChanged ==
    /\ CharLeaves /\ Damage
    /\ \E c \in Noise \ {Char} : serialEvent(c)

\* A byte nobody sent, also between two packets.
GetsAdded ==
    /\ Damage
    /\ \E c \in Noise : serialEvent(c)
    /\ UNCHANGED sendVars

Init ==
    /\ log = <<>> /\ packet = <<>> /\ at = "idle" /\ next = 0
    /\ clean = FALSE /\ damage = 0
    /\ rs485Buffer = <<>> /\ startReceived = FALSE /\ rx_esc = FALSE
    /\ accepted = <<>>

Next == \/ \E p \in Packet : protocol_send_packet(p)
        \/ Arrives \/ GetsLost \/ GetsChanged \/ GetsAdded

Spec == Init /\ [][Next]_vars
-----------------------------------------------------------------------------
(***************************************************************************)
(* Properties.                                                             *)
(***************************************************************************)
TypeOK ==
    /\ log \in Seq(Packet) /\ packet \in Seq(Byte)
    /\ at \in {"idle", "start", "data", "escaped", "end"} /\ next \in 0 .. Len(packet)
    /\ clean \in BOOLEAN /\ damage \in 0 .. MaxDamage
    /\ rs485Buffer \in Seq(Byte) /\ Len(rs485Buffer) <= RS485_BUFFER_SIZE
    /\ startReceived \in BOOLEAN /\ rx_esc \in BOOLEAN
    /\ accepted \in Seq(Seq(Byte))

\* A packet none of whose bytes is damaged, from its START on, and that fits
\* the buffer with a byte to spare is taken, whatever came before it: noise
\* cannot leave the receiver in a state in which it misses a good packet.  The part of
\* LineKeepsPromise below that a sender relies on first.
CleanFrameAccepted ==
    [][at = "end" /\ clean /\ clean' /\ at' = "idle" /\ Len(packet) < RS485_BUFFER_SIZE
        => accepted' = Append(accepted, Body)]_vars

LineState ==
    CASE at = "idle" -> "idle"
      [] at = "start" -> "begun"
      [] OTHER -> IF clean THEN "sound" ELSE "damaged"

Line == INSTANCE PacketLine
    WITH sent <- log, line <- LineState,
         Short <- {p \in Packet : Len(WithCRC(p)) < RS485_BUFFER_SIZE}

\* The two ends of the line with their bytes, escapes and buffer keep the promise of
\* PacketLine: an undamaged packet that fits the buffer with a byte to spare is taken
\* once, as it was sent and when it ends, and nothing is taken while it arrives.
LineKeepsPromise == Line!LineSpec

\* With at most one damaged byte per packet: what is taken begins with packets
\* that were sent, in order and none twice.  A lost END does not join two packets
\* without the first being there, a lost START does not revive an old one.  More
\* bytes may follow the packet: a zero added before END always passes the checksum,
\* and leaves a byte of the CRC as data.  The handlers read structures of a fixed
\* size and never see it.
Begins(buff, p) == Len(p) <= Len(buff) /\ SubSeq(buff, 1, Len(p)) = p

\* Everything taken is one of the first m packets sent, each of them at most once.
Matches(taken, sent, m) ==
    \E which \in [1 .. Len(taken) -> 1 .. m] :
        \A i \in 1 .. Len(taken) :
            /\ Begins(taken[i], sent[which[i]])
            /\ i > 1 => which[i - 1] < which[i]

OnlySentAccepted == MaxDamage <= 1 => Matches(accepted, log, Len(log))
-----------------------------------------------------------------------------
(***************************************************************************)
(* What OnlySentAccepted asks of the checksum, without the line's states.  *)
(***************************************************************************)
\* What the receiver makes of the bytes of w from the one after n on: begun if the
\* escape of the first of them has left already, esc if the receiver has seen one.
Read(b, begun, esc) ==
    IF begun /\ ~esc THEN b - SLIP_ESC
    ELSE IF esc /\ b \notin Special THEN (SLIP_ESC + b) % 256
    ELSE b

Rest(w, n, begun, esc) ==
    IF n >= Len(w) THEN <<>>
    ELSE <<Read(w[n + 1], begun, esc)>> \o SubSeq(w, n + 2, Len(w))

Rests(w, n) ==
    {Rest(w, n, begun, esc) : begun \in {g \in BOOLEAN : g => n < Len(w) /\ w[n + 1] \in Special},
                              esc \in BOOLEAN}

Patches == {<<>>} \union {<<c>> : c \in Noise} \union {<<(SLIP_ESC + c) % 256>> : c \in Noise}

\* What one byte lost, changed or added can leave of w: a beginning, an end, or all
\* of it but for a byte or two in one place.
Beginnings(w) == {SubSeq(w, 1, n) : n \in 0 .. Len(w)}
Ends(w) == UNION {Rests(w, n) : n \in 0 .. Len(w)}
Patched(w, n) ==
    {SubSeq(w, 1, n) \o x \o r : x \in Patches, r \in Rests(w, n) \union Rests(w, n + 1)}

Fragments(w) == Beginnings(w) \union Ends(w) \union (UNION {Patched(w, n) : n \in 0 .. Len(w)})

TellsApart ==
    \A p \in Packet : \A b \in Fragments(WithCRC(p)) :
        Valid(b) => Begins(SubSeq(b, 1, Len(b) - 2), p)
==============================================================================
