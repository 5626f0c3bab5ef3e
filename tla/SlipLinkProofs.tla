--------------------------- MODULE SlipLinkProofs ----------------------------
(***************************************************************************)
(* Theorems about SlipLink, for any checksum, any packets, any size of the *)
(* buffer and any noise.                                                   *)
(***************************************************************************)
EXTENDS SlipLink, SequenceTheorems, TLAPS

LEMMA BytesAre == SLIP_START \in Byte /\ SLIP_END \in Byte /\ SLIP_ESC \in Byte
  BY SlipConstants DEF Special

LEMMA TwoMore ==
  ASSUME NEW S, NEW p \in Seq(S), NEW a \in S, NEW b \in S
  PROVE  /\ p \o <<a, b>> \in Seq(S) /\ Len(p \o <<a, b>>) = Len(p) + 2
         /\ \A i \in 1 .. Len(p) : (p \o <<a, b>>)[i] = p[i]
         /\ (p \o <<a, b>>)[Len(p) + 1] = a /\ (p \o <<a, b>>)[Len(p) + 2] = b
  <1> DEFINE q == <<a, b>>
  <1>1. q \in Seq(S) /\ Len(q) = 2 /\ q[1] = a /\ q[2] = b
    OBVIOUS
  <1> HIDE DEF q
  <1>2. /\ p \o q \in Seq(S) /\ Len(p \o q) = Len(p) + Len(q)
        /\ \A i \in 1 .. Len(p) + Len(q) :
              (p \o q)[i] = IF i <= Len(p) THEN p[i] ELSE q[i - Len(p)]
    BY <1>1, ConcatProperties
  <1>3. Len(p) \in Nat
    OBVIOUS
  <1>4. (p \o q)[Len(p) + 1] = q[1] /\ (p \o q)[Len(p) + 2] = q[2]
    <2>1. Len(p) + 1 \in 1 .. Len(p) + Len(q) /\ Len(p) + 2 \in 1 .. Len(p) + Len(q)
      BY <1>1, <1>3
    <2>2. /\ ~(Len(p) + 1 <= Len(p)) /\ (Len(p) + 1) - Len(p) = 1
          /\ ~(Len(p) + 2 <= Len(p)) /\ (Len(p) + 2) - Len(p) = 2
      BY <1>3
    <2> QED
      BY <1>2, <2>1, <2>2
  <1>5. \A i \in 1 .. Len(p) : (p \o q)[i] = p[i]
    BY <1>1, <1>2, <1>3
  <1> QED
    BY <1>1, <1>2, <1>4, <1>5 DEF q

LEMMA FirstBytes ==
  ASSUME NEW S, NEW p \in Seq(S), NEW n \in Nat, n <= Len(p)
  PROVE  /\ SubSeq(p, 1, n) \in Seq(S) /\ Len(SubSeq(p, 1, n)) = n
         /\ \A i \in 1 .. n : SubSeq(p, 1, n)[i] = p[i]
  <1>1. \A i \in 1 .. n : p[i] \in S
    OBVIOUS
  <1> QED
    BY <1>1, SubSeqProperties

\* A number is 256 times its high part and its low byte.
LEMMA DivMod ==
  ASSUME NEW x \in Int
  PROVE  /\ x % 256 \in Int /\ 0 <= x % 256 /\ x % 256 < 256
         /\ x \div 256 \in Int
         /\ x = 256 * (x \div 256) + (x % 256)
  <1>1. x % 256 \in Int
    OBVIOUS
  <1>2. 0 <= x % 256
    OBVIOUS
  <1>3. x % 256 < 256
    OBVIOUS
  <1>4. x \div 256 \in Int
    OBVIOUS
  <1>5. x = 256 * (x \div 256) + (x % 256)
    OBVIOUS
  <1> QED
    BY <1>1, <1>2, <1>3, <1>4, <1>5

\* The high part of a 16-bit word is a byte.
LEMMA HighByte ==
  ASSUME NEW x \in Int, NEW q \in Int, NEW r \in Int, 0 <= r, r < 256, x = 256 * q + r,
         0 <= x, x <= 65535
  PROVE  0 <= q /\ q <= 255
  OBVIOUS

\* The two bytes of a checksum make up the checksum.
LEMMA SplitWord ==
  ASSUME NEW x \in Word
  PROVE  x % 256 \in Byte /\ x \div 256 \in Byte /\ (x % 256) + 256 * (x \div 256) = x
  <1> DEFINE r == x % 256
             q == x \div 256
  <1>1. x \in Int /\ 0 <= x /\ x <= 65535
    BY DEF Word
  <1>2. r \in Int /\ 0 <= r /\ r < 256 /\ q \in Int /\ x = 256 * q + r
    BY <1>1, DivMod
  <1> HIDE DEF r, q
  <1>3. 0 <= q /\ q <= 255
    BY <1>1, <1>2, HighByte
  <1>4. r \in Byte /\ q \in Byte /\ r + 256 * q = x
    BY <1>1, <1>2, <1>3 DEF Byte
  <1> QED
    BY <1>4 DEF r, q

LEMMA Unescaped ==
  ASSUME NEW e \in Byte, NEW c \in Byte
  PROVE  (e + c) % 256 \in Byte
  BY SMT DEF Byte

LEMMA PacketType ==
  ASSUME NEW p \in Packet
  PROVE  /\ p \in Seq(Byte) /\ WithCRC(p) \in Seq(Byte)
         /\ Len(WithCRC(p)) = Len(p) + 2 /\ Len(p) >= 2
         /\ \A i \in 1 .. Len(p) : WithCRC(p)[i] = p[i]
         /\ WithCRC(p)[Len(p) + 1] + 256 * WithCRC(p)[Len(p) + 2] = CRC16[p]
  <1>1. p \in Seq(Byte) /\ Len(p) >= 2
    BY SlipConstants
  <1>2. CRC16[p] \in Word
    BY CrcIsWord
  <1> DEFINE lo == CRC16[p] % 256
             hi == CRC16[p] \div 256
  <1>3. lo \in Byte /\ hi \in Byte /\ lo + 256 * hi = CRC16[p]
    BY <1>2, SplitWord
  <1>5. WithCRC(p) = p \o <<lo, hi>>
    BY DEF WithCRC
  <1> HIDE DEF lo, hi
  <1> QED
    BY <1>1, <1>3, <1>5, TwoMore

\* A whole packet with its CRC passes the test, and is what was sent.
LEMMA WholePacketValid ==
  ASSUME NEW p \in Packet
  PROVE  Valid(WithCRC(p)) /\ SubSeq(WithCRC(p), 1, Len(WithCRC(p)) - 2) = p
  <1> DEFINE w == WithCRC(p)
  <1>1. /\ p \in Seq(Byte) /\ w \in Seq(Byte) /\ Len(w) = Len(p) + 2 /\ Len(p) >= 2
        /\ \A i \in 1 .. Len(p) : w[i] = p[i]
        /\ w[Len(p) + 1] + 256 * w[Len(p) + 2] = CRC16[p]
    BY PacketType
  <1> HIDE DEF w
  <1>2. SubSeq(w, 1, Len(p)) = p
    BY <1>1
  <1>3. Len(w) - 2 = Len(p) /\ Len(w) >= 4
    BY <1>1
  <1> QED
    BY <1>1, <1>2, <1>3 DEF Valid, w

-----------------------------------------------------------------------------
(***************************************************************************)
(* The receiver, whatever arrives.  A buffer that is not empty is being    *)
(* filled, and one that is full does not wait for an escaped byte: so the  *)
(* byte a full buffer swallows, even a START, leaves the receiver as that  *)
(* START would have.                                                       *)
(***************************************************************************)
RecvType ==
    /\ rs485Buffer \in Seq(Byte) /\ startReceived \in BOOLEAN /\ rx_esc \in BOOLEAN
    /\ accepted \in Seq(Seq(Byte))

RecvInv ==
    /\ Len(rs485Buffer) <= RS485_BUFFER_SIZE
    /\ rs485Buffer # <<>> => startReceived
    /\ Len(rs485Buffer) = RS485_BUFFER_SIZE => ~rx_esc

LEMMA RecvStep ==
  ASSUME RecvType, RecvInv, NEW c \in Byte, serialEvent(c)
  PROVE  RecvType' /\ RecvInv'
  <1>a. RS485_BUFFER_SIZE \in Nat /\ RS485_BUFFER_SIZE > 0
    BY SlipConstants
  <1>1. CASE Len(rs485Buffer) >= RS485_BUFFER_SIZE
    <2>1. /\ rs485Buffer' = <<>> /\ UNCHANGED <<startReceived, rx_esc, accepted>>
      BY <1>1 DEF serialEvent, Overflow
    <2> QED
      BY <1>a, <2>1 DEF RecvType, RecvInv
  <1>2. CASE ~(Len(rs485Buffer) >= RS485_BUFFER_SIZE)
    <2>0. StartByte \/ EndByte \/ EscByte \/ DataByte(c)
      BY <1>2, Zenon DEF serialEvent
    <2>1. CASE StartByte
      <3>1. /\ rs485Buffer' = <<>> /\ startReceived' = TRUE /\ rx_esc' = FALSE
            /\ accepted' = accepted
        BY <2>1 DEF StartByte
      <3>2. rs485Buffer' \in Seq(Byte) /\ Len(rs485Buffer') = 0
        BY <3>1, EmptySeq
      <3>3. RecvType'
        BY <3>1, <3>2 DEF RecvType
      <3> QED
        BY <1>a, <3>1, <3>2, <3>3 DEF RecvInv
    <2>2. CASE EndByte
      <3>1. CASE startReceived
        <4>1. rs485Buffer' = <<>> /\ startReceived' = FALSE /\ rx_esc' = rx_esc
          BY <2>2, <3>1 DEF EndByte
        <4>2. accepted' \in Seq(Seq(Byte))
          <5>1. \/ accepted' = accepted
                \/ /\ Len(rs485Buffer) >= 4
                   /\ accepted' = Append(accepted, SubSeq(rs485Buffer, 1, Len(rs485Buffer) - 2))
            BY <2>2, <3>1 DEF EndByte, reciveValidMsg, Valid
          <5>2. rs485Buffer \in Seq(Byte) /\ accepted \in Seq(Seq(Byte)) /\ Len(rs485Buffer) \in Nat
            BY DEF RecvType
          <5>3. Len(rs485Buffer) >= 4 => SubSeq(rs485Buffer, 1, Len(rs485Buffer) - 2) \in Seq(Byte)
            BY <5>2, FirstBytes
          <5>4. Len(rs485Buffer) >= 4 =>
                   Append(accepted, SubSeq(rs485Buffer, 1, Len(rs485Buffer) - 2)) \in Seq(Seq(Byte))
            BY <5>2, <5>3, AppendProperties
          <5> QED
            BY <5>1, <5>2, <5>4
        <4>3. rs485Buffer' \in Seq(Byte) /\ Len(rs485Buffer') = 0
          BY <4>1, EmptySeq
        <4>4. RecvType'
          BY <4>1, <4>2, <4>3 DEF RecvType
        <4> QED
          BY <1>a, <4>1, <4>3, <4>4 DEF RecvInv
      <3>2. CASE ~startReceived
        BY <2>2, <3>2 DEF EndByte, RecvType, RecvInv
      <3> QED
        BY <3>1, <3>2
    <2>3. CASE EscByte
      BY <1>2, <1>a, <2>3 DEF EscByte, RecvType, RecvInv
    <2>4. CASE DataByte(c)
      <3>1. CASE startReceived
        <4>1. PICK b \in Byte : rs485Buffer' = Append(rs485Buffer, b)
          BY <2>4, <3>1, BytesAre, Unescaped DEF DataByte
        <4>2. rx_esc' = FALSE /\ startReceived' = startReceived /\ accepted' = accepted
          BY <2>4, <3>1 DEF DataByte
        <4>3. rs485Buffer \in Seq(Byte)
          BY DEF RecvType
        <4>4. rs485Buffer' \in Seq(Byte) /\ Len(rs485Buffer') = Len(rs485Buffer) + 1
          BY <4>1, <4>3, AppendProperties
        <4>5. Len(rs485Buffer') <= RS485_BUFFER_SIZE
          BY <1>2, <1>a, <4>3, <4>4 DEF RecvInv
        <4> QED
          BY <3>1, <4>2, <4>4, <4>5 DEF RecvType, RecvInv
      <3>2. CASE ~startReceived
        BY <2>4, <3>2 DEF DataByte, RecvType, RecvInv
      <3> QED
        BY <3>1, <3>2
    <2> QED
      BY <2>0, <2>1, <2>2, <2>3, <2>4
  <1> QED
    BY <1>1, <1>2
-----------------------------------------------------------------------------
(***************************************************************************)
(* The sender, and what the receiver holds of an undamaged packet.         *)
(***************************************************************************)
SendType ==
    /\ log \in Seq(Packet) /\ packet \in Seq(Byte)
    /\ at \in {"idle", "start", "data", "escaped", "end"} /\ next \in 0 .. Len(packet)

SendInv ==
    /\ at # "idle" => Len(log) > 0 /\ packet = WithCRC(Body)
    /\ at \in {"data", "escaped"} => next < Len(packet)
    /\ at = "escaped" => packet[next + 1] \in Special
    /\ at = "end" => next = Len(packet)

CleanInv ==
    clean /\ at \in {"data", "escaped", "end"} /\ Len(packet) < RS485_BUFFER_SIZE =>
        /\ startReceived
        /\ rs485Buffer = SubSeq(packet, 1, next)
        /\ rx_esc <=> at = "escaped"

LEMMA BytesDiffer ==
  /\ SLIP_START # SLIP_END /\ SLIP_START # SLIP_ESC /\ SLIP_END # SLIP_ESC
  /\ \A c \in Special : /\ c - SLIP_ESC \in Byte /\ c - SLIP_ESC \notin Special
                        /\ c \in Byte /\ (SLIP_ESC + (c - SLIP_ESC)) % 256 = c
  <1>1. /\ SLIP_START \in Byte /\ SLIP_END \in Byte /\ SLIP_ESC \in Byte
        /\ SLIP_ESC < SLIP_START /\ SLIP_START < SLIP_END
        /\ SLIP_END - SLIP_ESC < SLIP_ESC
    BY BytesAre, SlipConstants
  <1>2. ASSUME NEW c \in Special
        PROVE  /\ c - SLIP_ESC \in Byte /\ c - SLIP_ESC \notin Special
               /\ c \in Byte /\ (SLIP_ESC + (c - SLIP_ESC)) % 256 = c
    BY <1>1, SMT DEF Special, Byte
  <1> QED
    BY <1>1, <1>2, SMT DEF Byte

LEMMA BodyIsPacket ==
  ASSUME SendType, SendInv, at # "idle"
  PROVE  Body \in Packet /\ packet = WithCRC(Body) /\ Len(packet) > 0 /\ Len(packet) \in Nat
  <1>1. Len(log) \in 1 .. Len(log) /\ packet = WithCRC(Body)
    BY DEF SendType, SendInv
  <1>2. Body \in Packet
    BY <1>1, ElementOfSeq DEF SendType, Body
  <1> QED
    BY <1>1, <1>2, PacketType

\* What leaves is a byte, and is START or END only when it is meant to be.
LEMMA CharIs ==
  ASSUME SendType, SendInv, CharLeaves
  PROVE  /\ Char \in Byte
         /\ at = "start" => Char = SLIP_START
         /\ at = "end" => Char = SLIP_END
         /\ at = "escaped" => /\ Char \notin Special
                              /\ (SLIP_ESC + Char) % 256 = packet[next + 1]
         /\ at = "data" => IF packet[next + 1] \in Special THEN Char = SLIP_ESC
                           ELSE Char = packet[next + 1] /\ Char \notin Special
  <1>1. at \in {"start", "data", "escaped", "end"}
    BY DEF CharLeaves
  <1>2. ASSUME at \in {"data", "escaped"} PROVE packet[next + 1] \in Byte
    BY <1>2, ElementOfSeq DEF SendType, SendInv
  <1>3. CASE at = "start"
    BY <1>3, BytesAre DEF Char
  <1>4. CASE at = "end"
    BY <1>4, BytesAre DEF Char
  <1>5. CASE at = "data"
    BY <1>5, <1>2, BytesAre DEF Char
  <1>6. CASE at = "escaped"
    BY <1>6, BytesDiffer DEF Char, SendInv
  <1> QED
    BY <1>1, <1>3, <1>4, <1>5, <1>6

LEMMA SendStep ==
  ASSUME SendType, SendInv, CharLeaves
  PROVE  SendType' /\ SendInv'
  <1>1. Len(packet) > 0 /\ Len(packet) \in Nat /\ packet = WithCRC(Body) /\ Len(log) > 0
    <2>1. at # "idle"
      BY DEF CharLeaves
    <2> QED
      BY <2>1, BodyIsPacket DEF SendInv
  <1>2. log' = log /\ packet' = packet /\ Body' = Body
    BY DEF CharLeaves, Body
  <1>3. WithCRC(Body)' = WithCRC(Body)
    BY <1>2 DEF WithCRC
  <1>4. next \in Nat /\ (at \in {"data", "escaped"} => next < Len(packet))
    BY <1>1 DEF SendType, SendInv
  <1>5. /\ at' \in {"idle", "data", "escaped", "end"} /\ next' \in 0 .. Len(packet)
        /\ at' \in {"data", "escaped"} => next' < Len(packet)
        /\ at' = "escaped" => packet[next' + 1] \in Special
        /\ at' = "end" => next' = Len(packet)
    <2>1. CASE at = "start" /\ After(0)
      BY <1>1, <2>1 DEF After
    <2>2. CASE at \in {"data", "escaped"} /\ After(next + 1)
      BY <1>1, <1>4, <2>2 DEF After
    <2>3. CASE /\ at = "data" /\ packet[next + 1] \in Special
               /\ at' = "escaped" /\ UNCHANGED next
      BY <1>1, <1>4, <2>3
    <2>4. CASE at = "end" /\ at' = "idle" /\ UNCHANGED next
      BY <1>1, <1>4, <2>4 DEF SendType
    <2> QED
      BY <2>1, <2>2, <2>3, <2>4 DEF CharLeaves
  <1>6. SendType'
    BY <1>2, <1>5 DEF SendType
  <1>7. SendInv'
    BY <1>1, <1>2, <1>3, <1>5 DEF SendInv
  <1> QED
    BY <1>6, <1>7

\* The byte that arrives adds to the buffer what the sender counts as gone.
LEMMA CleanStep ==
  ASSUME SendType, SendInv, RecvType, RecvInv, CleanInv, Arrives
  PROVE  CleanInv'
  <1> SUFFICES ASSUME clean', at' \in {"data", "escaped", "end"},
                      Len(packet') < RS485_BUFFER_SIZE
               PROVE  /\ startReceived' /\ rs485Buffer' = SubSeq(packet', 1, next')
                      /\ rx_esc' <=> at' = "escaped"
    BY DEF CleanInv
  <1>1. CharLeaves /\ serialEvent(Char) /\ packet' = packet /\ (clean \/ at = "start")
    BY DEF Arrives, CharLeaves
  <1>a. /\ RS485_BUFFER_SIZE \in Nat /\ Len(packet) \in Nat /\ next \in Nat
        /\ next <= Len(packet) /\ packet \in Seq(Byte) /\ rs485Buffer \in Seq(Byte)
    BY SlipConstants DEF SendType, RecvType
  <1>2. CASE at = "start"
    <2>1. next' = 0 /\ at' # "escaped" /\ Char = SLIP_START
      BY <1>1, <1>2, CharIs DEF CharLeaves, After
    <2>2. startReceived' /\ rs485Buffer' = <<>> /\ ~rx_esc'
      <3>1. CASE Len(rs485Buffer) >= RS485_BUFFER_SIZE
        <4>1. /\ Len(rs485Buffer) = RS485_BUFFER_SIZE /\ rs485Buffer # <<>>
          BY <1>a, <3>1, SlipConstants DEF RecvInv
        <4>2. startReceived /\ ~rx_esc
          BY <4>1 DEF RecvInv
        <4> QED
          BY <1>1, <3>1, <4>2 DEF serialEvent, Overflow
      <3>2. CASE ~(Len(rs485Buffer) >= RS485_BUFFER_SIZE)
        BY <1>1, <2>1, <3>2, BytesDiffer DEF serialEvent, StartByte
      <3> QED
        BY <3>1, <3>2
    <2>3. SubSeq(packet, 1, 0) = <<>>
      BY SubSeqEmpty
    <2> QED
      BY <1>1, <2>1, <2>2, <2>3
  <1>3. CASE at # "start"
    <2>1. at \in {"data", "escaped"} /\ clean /\ next < Len(packet)
      BY <1>1, <1>3 DEF CharLeaves, SendInv
    <2>2. /\ startReceived /\ rs485Buffer = SubSeq(packet, 1, next)
          /\ rx_esc <=> at = "escaped"
      BY <1>1, <2>1 DEF CleanInv
    <2>3. Len(rs485Buffer) = next
      BY <1>a, <2>2, FirstBytes
    <2>4. ~(Len(rs485Buffer) >= RS485_BUFFER_SIZE)
      BY <1>1, <1>a, <2>1, <2>3
    <2>5. CASE at = "data" /\ packet[next + 1] \in Special
      <3>1. Char = SLIP_ESC /\ at' = "escaped" /\ next' = next
        BY <1>1, <2>5, CharIs DEF CharLeaves
      <3>2. EscByte
        BY <1>1, <2>4, <3>1, BytesDiffer DEF serialEvent
      <3> QED
        BY <1>1, <2>2, <3>1, <3>2 DEF EscByte
    <2>6. CASE at = "escaped" \/ packet[next + 1] \notin Special
      <3>1. After(next + 1) /\ at' # "escaped" /\ next' = next + 1
        BY <1>1, <2>1, <2>6 DEF CharLeaves, After
      <3>2. /\ Char \notin Special
            /\ (IF rx_esc THEN (SLIP_ESC + Char) % 256 ELSE Char) = packet[next + 1]
        BY <1>1, <2>1, <2>2, <2>6, CharIs
      <3>3. DataByte(Char)
        BY <1>1, <2>4, <3>2 DEF serialEvent, Special
      <3>4. /\ rs485Buffer' = Append(rs485Buffer, packet[next + 1])
            /\ startReceived' = startReceived /\ rx_esc' = FALSE
        BY <2>2, <3>2, <3>3 DEF DataByte
      <3>5. Append(SubSeq(packet, 1, next), packet[next + 1]) = SubSeq(packet, 1, next + 1)
        <4> DEFINE l == Append(SubSeq(packet, 1, next), packet[next + 1])
                   r == SubSeq(packet, 1, next + 1)
                   b == packet[next + 1]
                   h == SubSeq(packet, 1, next)
        <4>1. b \in Byte
          BY <1>a, <2>1, ElementOfSeq
        <4>2. h \in Seq(Byte) /\ Len(h) = next /\ \A i \in 1 .. next : h[i] = packet[i]
          BY <1>a, <2>1, FirstBytes
        <4>3. /\ r \in Seq(Byte) /\ Len(r) = next + 1
              /\ \A i \in 1 .. next + 1 : r[i] = packet[i]
          BY <1>a, <2>1, FirstBytes
        <4> HIDE DEF r, b, h
        <4>4. /\ Append(h, b) \in Seq(Byte) /\ Len(Append(h, b)) = next + 1
              /\ \A i \in 1 .. next : Append(h, b)[i] = h[i]
              /\ Append(h, b)[next + 1] = b
          BY <4>1, <4>2, AppendProperties
        <4>5. \A i \in 1 .. next + 1 : Append(h, b)[i] = r[i]
          BY <1>a, <4>2, <4>3, <4>4 DEF b
        <4>6. Append(h, b) = r
          BY <4>3, <4>4, <4>5, SeqEqual
        <4> QED
          BY <4>6 DEF r, b, h
      <3> QED
        BY <1>1, <2>2, <3>1, <3>4, <3>5
    <2> QED
      BY <2>1, <2>5, <2>6
  <1> QED
    BY <1>2, <1>3

-----------------------------------------------------------------------------
IInv == /\ SendType /\ SendInv /\ RecvType /\ RecvInv /\ CleanInv
        /\ clean \in BOOLEAN /\ damage \in 0 .. MaxDamage

LEMMA InitIInv == Init => IInv
  <1> SUFFICES ASSUME Init PROVE IInv
    OBVIOUS
  <1>1. SendType /\ SendInv
    BY EmptySeq DEF Init, SendType, SendInv
  <1>2. RecvType
    <2>1. <<>> \in Seq(Byte) /\ <<>> \in Seq(Seq(Byte))
      BY EmptySeq
    <2>2. startReceived \in BOOLEAN /\ rx_esc \in BOOLEAN
      BY DEF Init
    <2> QED
      BY <2>1, <2>2 DEF Init, RecvType
  <1>3. RecvInv
    BY SlipConstants DEF Init, RecvInv
  <1>4. CleanInv /\ clean \in BOOLEAN
    BY DEF Init, CleanInv
  <1>5. damage \in 0 .. MaxDamage
    BY SlipConstants DEF Init
  <1> QED
    BY <1>1, <1>2, <1>3, <1>4, <1>5 DEF IInv

LEMMA DamageStep ==
  ASSUME IInv, Damage
  PROVE  damage' \in 0 .. MaxDamage /\ clean' = FALSE
  BY SlipConstants DEF IInv, Damage

\* A packet is begun on an idle line: the receiver may be in any state.
LEMMA BeginStep ==
  ASSUME IInv, NEW p \in Packet, protocol_send_packet(p)
  PROVE  IInv'
  <1>1. /\ log' = Append(log, p) /\ packet' = WithCRC(p) /\ at' = "start" /\ next' = 0
        /\ clean' = FALSE /\ damage' = 0 /\ UNCHANGED recvVars
    BY DEF protocol_send_packet
  <1>2. /\ log' \in Seq(Packet) /\ Len(log') = Len(log) + 1 /\ Len(log) \in Nat
        /\ log'[Len(log) + 1] = p
    BY <1>1, AppendProperties DEF IInv, SendType
  <1>3. packet' \in Seq(Byte) /\ Len(packet') \in Nat
    BY <1>1, PacketType
  <1>4. SendType'
    BY <1>1, <1>2, <1>3 DEF SendType
  <1>5. Body' = p /\ WithCRC(Body)' = WithCRC(p)
    BY <1>2 DEF Body, WithCRC
  <1>6. SendInv'
    BY <1>1, <1>2, <1>5 DEF SendInv
  <1>7. RecvType' /\ RecvInv' /\ CleanInv'
    BY <1>1 DEF IInv, recvVars, RecvType, RecvInv, CleanInv
  <1>8. clean' \in BOOLEAN
    BY <1>1
  <1>9. damage' \in 0 .. MaxDamage
    BY <1>1, SlipConstants
  <1> QED
    BY <1>4, <1>6, <1>7, <1>8, <1>9 DEF IInv

LEMMA StepIInv == IInv /\ [Next]_vars => IInv'
  <1> SUFFICES ASSUME IInv, [Next]_vars PROVE IInv'
    OBVIOUS
  <1>a. SendType /\ SendInv /\ RecvType /\ RecvInv /\ CleanInv /\ damage \in 0 .. MaxDamage
    BY DEF IInv
  <1>n. \A c \in Noise : c \in Byte
    BY SlipConstants
  <1>1. CASE \E p \in Packet : protocol_send_packet(p)
    BY <1>1, BeginStep
  <1>2. CASE Arrives
    <2>1. CharLeaves /\ serialEvent(Char) /\ clean' \in BOOLEAN /\ damage' = damage
      BY <1>2 DEF Arrives
    <2>2. SendType' /\ SendInv'
      BY <1>a, <2>1, SendStep
    <2>3. RecvType' /\ RecvInv'
      BY <1>a, <2>1, CharIs, RecvStep
    <2>4. CleanInv'
      BY <1>a, <1>2, CleanStep
    <2> QED
      BY <1>a, <2>1, <2>2, <2>3, <2>4 DEF IInv
  <1>3. CASE GetsLost
    <2>1. SendType' /\ SendInv'
      BY <1>a, <1>3, SendStep DEF GetsLost
    <2>2. RecvType' /\ RecvInv'
      BY <1>a, <1>3 DEF GetsLost, recvVars, RecvType, RecvInv
    <2>3. damage' \in 0 .. MaxDamage /\ clean' = FALSE
      BY <1>3, DamageStep DEF GetsLost
    <2> QED
      BY <2>1, <2>2, <2>3 DEF IInv, CleanInv
  <1>4. CASE GetsChanged
    <2>1. SendType' /\ SendInv'
      BY <1>a, <1>4, SendStep DEF GetsChanged
    <2>2. RecvType' /\ RecvInv'
      BY <1>a, <1>n, <1>4, RecvStep DEF GetsChanged
    <2>3. damage' \in 0 .. MaxDamage /\ clean' = FALSE
      BY <1>4, DamageStep DEF GetsChanged
    <2> QED
      BY <2>1, <2>2, <2>3 DEF IInv, CleanInv
  <1>5. CASE GetsAdded
    <2>1. SendType' /\ SendInv'
      BY <1>a, <1>5 DEF GetsAdded, sendVars, SendType, SendInv, Body, WithCRC
    <2>2. RecvType' /\ RecvInv'
      BY <1>a, <1>n, <1>5, RecvStep DEF GetsAdded
    <2>3. damage' \in 0 .. MaxDamage /\ clean' = FALSE
      BY <1>5, DamageStep DEF GetsAdded
    <2> QED
      BY <2>1, <2>2, <2>3 DEF IInv, CleanInv
  <1>6. CASE UNCHANGED vars
    <2>1. SendType' /\ SendInv'
      BY <1>a, <1>6 DEF vars, sendVars, SendType, SendInv, Body, WithCRC
    <2>2. RecvType' /\ RecvInv' /\ CleanInv'
      BY <1>a, <1>6 DEF vars, sendVars, recvVars, RecvType, RecvInv, CleanInv
    <2> QED
      BY <1>6, <2>1, <2>2 DEF vars, IInv
  <1> QED
    BY <1>1, <1>2, <1>3, <1>4, <1>5, <1>6 DEF Next

\* The buffer never holds more than RS485_BUFFER_SIZE bytes, and every variable
\* keeps its type, whatever the line does.
THEOREM TypeCorrect == Spec => []TypeOK
  <1>1. IInv => TypeOK
    BY DEF IInv, SendType, RecvType, RecvInv, TypeOK
  <1> QED
    BY <1>1, InitIInv, StepIInv, PTL DEF Spec

\* The END of an undamaged packet finds all of it in the buffer.
LEMMA CleanEnds ==
  ASSUME IInv, CharLeaves, serialEvent(Char), at = "end", clean,
         Len(packet) < RS485_BUFFER_SIZE
  PROVE  accepted' = Append(accepted, Body) /\ ~startReceived'
  <1>1. Char = SLIP_END
    BY CharIs DEF IInv
  <1>2. /\ startReceived /\ rs485Buffer = SubSeq(packet, 1, Len(packet))
    BY DEF IInv, CleanInv, SendInv
  <1>3. rs485Buffer = packet
    BY <1>2, SubSeqFull DEF IInv, SendType
  <1>4. EndByte
    <2>1. Len(packet) \in Nat /\ RS485_BUFFER_SIZE \in Nat
      BY SlipConstants DEF IInv, SendType
    <2> QED
      BY <1>1, <1>3, <2>1, BytesDiffer DEF serialEvent
  <1>5. Valid(packet) /\ SubSeq(packet, 1, Len(packet) - 2) = Body
    BY BodyIsPacket, WholePacketValid DEF IInv
  <1> QED
    BY <1>2, <1>3, <1>4, <1>5 DEF EndByte, reciveValidMsg

\* For any noise before it: a packet that arrives undamaged and is shorter than
\* the buffer is taken.  No sequence of bytes makes serialEvent miss it.
THEOREM CleanFrameSafe == Spec => CleanFrameAccepted
  <1>1. IInv /\ [Next]_vars =>
          [at = "end" /\ clean /\ clean' /\ at' = "idle" /\ Len(packet) < RS485_BUFFER_SIZE
             => accepted' = Append(accepted, Body)]_vars
    <2> SUFFICES ASSUME IInv, Next, at = "end", clean, clean', at' = "idle",
                        Len(packet) < RS485_BUFFER_SIZE
                 PROVE  accepted' = Append(accepted, Body)
      OBVIOUS
    <2>1. CharLeaves /\ serialEvent(Char)
      BY DEF Next, protocol_send_packet, Arrives, GetsLost, GetsChanged, GetsAdded, Damage
    <2> QED
      BY <2>1, CleanEnds
  <1> QED
    BY <1>1, InitIInv, StepIInv, PTL DEF Spec, CleanFrameAccepted
-----------------------------------------------------------------------------
(***************************************************************************)
(* The promise of PacketLine.                                              *)
(***************************************************************************)
\* A sequence without its last element, and with it again.
LEMMA ButLast ==
  ASSUME NEW S, NEW s \in Seq(S), NEW e \in S
  PROVE  SubSeq(Append(s, e), 1, Len(Append(s, e)) - 1) = s
  <1>1. /\ Append(s, e) \in Seq(S) /\ Len(Append(s, e)) = Len(s) + 1 /\ Len(s) \in Nat
        /\ \A i \in 1 .. Len(s) : Append(s, e)[i] = s[i]
    BY AppendProperties
  <1> DEFINE a == Append(s, e)
             h == SubSeq(a, 1, Len(s))
  <1> HIDE DEF a
  <1>2. h \in Seq(S) /\ Len(h) = Len(s) /\ \A i \in 1 .. Len(s) : h[i] = a[i]
    BY <1>1, FirstBytes DEF a
  <1> HIDE DEF h
  <1>3. h = s
    BY <1>1, <1>2, SeqEqual DEF a
  <1>4. Len(a) - 1 = Len(s)
    BY <1>1 DEF a
  <1> QED
    BY <1>3, <1>4 DEF a, h

LEMMA AndLast ==
  ASSUME NEW S, NEW s \in Seq(S), Len(s) > 0
  PROVE  Append(SubSeq(s, 1, Len(s) - 1), s[Len(s)]) = s
  <1> DEFINE n == Len(s)
             h == SubSeq(s, 1, n - 1)
  <1>1. n \in Nat /\ n - 1 \in Nat /\ n - 1 <= Len(s) /\ s[n] \in S
    OBVIOUS
  <1>2. h \in Seq(S) /\ Len(h) = n - 1 /\ \A i \in 1 .. n - 1 : h[i] = s[i]
    BY <1>1, FirstBytes
  <1> HIDE DEF h
  <1>3. /\ Append(h, s[n]) \in Seq(S) /\ Len(Append(h, s[n])) = n
        /\ \A i \in 1 .. n - 1 : Append(h, s[n])[i] = h[i]
        /\ Append(h, s[n])[n] = s[n]
    BY <1>1, <1>2, AppendProperties
  <1>4. \A i \in 1 .. n : Append(h, s[n])[i] = s[i]
    BY <1>1, <1>2, <1>3
  <1>5. Append(h, s[n]) = s
    BY <1>1, <1>3, <1>4, SeqEqual
  <1> QED
    BY <1>5 DEF h

\* A byte makes the receiver take at most one message, and only END makes it.
LEMMA TakenByEnd ==
  ASSUME RecvType, RecvType', NEW c, serialEvent(c)
  PROVE  /\ c # SLIP_END => accepted' = accepted
         /\ Line!MaybeOne
  <1>1. \/ accepted' = accepted
        \/ c = SLIP_END /\ \E m : accepted' = Append(accepted, m)
    BY DEF serialEvent, Overflow, StartByte, EndByte, EscByte, DataByte, reciveValidMsg
  <1>2. ASSUME NEW m, accepted' = Append(accepted, m)
        PROVE  /\ Len(accepted') = Len(accepted) + 1
               /\ SubSeq(accepted', 1, Len(accepted)) = accepted
    <2> DEFINE S == Seq(Byte) \union {m}
    <2>1. accepted \in Seq(S) /\ m \in S
      BY SeqMonotonic DEF RecvType
    <2> HIDE DEF S
    <2>2. Len(accepted') = Len(accepted) + 1 /\ Len(accepted) \in Nat
      BY <1>2, <2>1, AppendProperties
    <2>3. SubSeq(accepted', 1, Len(accepted') - 1) = accepted
      BY <1>2, <2>1, ButLast
    <2>4. Len(accepted') - 1 = Len(accepted)
      BY <2>2
    <2> QED
      BY <2>2, <2>3, <2>4
  <1> QED
    BY <1>1, <1>2 DEF Line!MaybeOne

\* Where a byte that leaves takes the sender.
LEMMA LeavesTo ==
  ASSUME SendType, SendInv, CharLeaves
  PROVE  /\ at = "start" => at' = "data"
         /\ at \in {"data", "escaped"} => at' \in {"data", "escaped", "end"}
         /\ at = "end" => at' = "idle"
         /\ at \in {"start", "data", "escaped", "end"}
         /\ UNCHANGED log
  <1>1. at # "idle"
    BY DEF CharLeaves
  <1>2. Len(packet) > 0 /\ Len(packet) \in Nat
    BY <1>1, BodyIsPacket
  <1> QED
    BY <1>2 DEF CharLeaves, After

\* What a disturbance does to the state of the line.
LEMMA DisturbStep ==
  ASSUME IInv, IInv', Damage, Line!MaybeOne, CharLeaves \/ UNCHANGED sendVars
  PROVE  Line!Disturb
  <1>1. damage < MaxDamage /\ damage' = damage + 1 /\ clean' = FALSE
    BY DEF Damage
  <1>2. \/ LineState \in {"idle", "begun"} /\ UNCHANGED LineState
        \/ LineState \in {"begun", "sound", "damaged"} /\ LineState' = "damaged"
        \/ LineState \in {"sound", "damaged"} /\ LineState' = "idle"
    <2>1. CASE CharLeaves
      <3>1. /\ at = "start" => at' = "data"
            /\ at \in {"data", "escaped"} => at' \in {"data", "escaped", "end"}
            /\ at = "end" => at' = "idle"
            /\ at \in {"start", "data", "escaped", "end"}
        BY <2>1, LeavesTo DEF IInv
      <3>2. CASE at = "end"
        BY <3>1, <3>2 DEF LineState
      <3>3. CASE at # "end"
        BY <1>1, <3>1, <3>3 DEF LineState
      <3> QED
        BY <3>2, <3>3
    <2>2. CASE UNCHANGED sendVars
      BY <1>1, <2>2 DEF sendVars, LineState
    <2> QED
      BY <2>1, <2>2
  <1>3. UNCHANGED log
    BY LeavesTo DEF IInv, sendVars
  <1> QED
    BY <1>1, <1>2, <1>3 DEF Line!Disturb

\* Before END nothing is taken.
LEMMA TakenBefore ==
  ASSUME IInv, IInv', Arrives, at # "end"
  PROVE  accepted' = accepted
  <1>1. CharLeaves /\ serialEvent(Char)
    BY DEF Arrives
  <1>2. /\ at = "start" => Char = SLIP_START
        /\ at = "escaped" => Char \notin Special
        /\ at = "data" => Char = SLIP_ESC \/ Char \notin Special
    BY <1>1, CharIs DEF IInv
  <1>3. SLIP_END \in Special /\ SLIP_START # SLIP_END /\ SLIP_ESC # SLIP_END
    BY BytesDiffer DEF Special
  <1>4. at \in {"start", "data", "escaped", "end"}
    BY <1>1, LeavesTo DEF IInv
  <1>5. Char # SLIP_END
    BY <1>2, <1>3, <1>4
  <1> QED
    BY <1>1, <1>5, TakenByEnd DEF IInv

\* A byte that arrives as it left begins the packet, ends it, or changes nothing
\* that PacketLine sees.
LEMMA ArriveStep ==
  ASSUME IInv, IInv', Arrives
  PROVE  Line!LineNext \/ UNCHANGED Line!lineVars
  <1>1. /\ CharLeaves /\ serialEvent(Char) /\ damage' = damage
        /\ clean' = (clean \/ at = "start") /\ UNCHANGED log
    BY LeavesTo DEF Arrives, IInv
  <1>2. clean \in BOOLEAN
    BY DEF IInv
  <1>3. /\ Char # SLIP_END => accepted' = accepted
        /\ Line!MaybeOne
    BY <1>1, TakenByEnd DEF IInv
  <1>4. at # "end" => accepted' = accepted
    BY TakenBefore
  <1>5. CASE at = "start"
    <2>1. LineState = "begun" /\ LineState' = "sound"
      BY <1>1, <1>5, LeavesTo DEF LineState, IInv
    <2> QED
      BY <1>1, <1>4, <1>5, <2>1 DEF Line!Begin, Line!LineNext
  <1>6. CASE at \in {"data", "escaped"}
    <2>1. LineState' = LineState
      BY <1>1, <1>2, <1>6, LeavesTo DEF LineState, IInv
    <2> QED
      BY <1>1, <1>4, <1>6, <2>1 DEF Line!lineVars
  <1>7. CASE at = "end"
    <2>1. LineState' = "idle"
      BY <1>1, <1>7, LeavesTo DEF LineState, IInv
    <2>2. CASE clean
      <3>1. LineState = "sound"
        BY <1>7, <2>2 DEF LineState
      <3>2. packet = WithCRC(Body)
        BY <1>7, BodyIsPacket DEF IInv
      <3>3. Len(WithCRC(Body)) < RS485_BUFFER_SIZE => accepted' = Append(accepted, Body)
        BY <1>1, <1>7, <2>2, <3>2, CleanEnds
      <3> QED
        BY <1>1, <1>3, <2>1, <3>1, <3>3 DEF Line!Deliver, Line!LineNext, Body
    <2>3. CASE ~clean
      <3>1. LineState = "damaged"
        BY <1>7, <2>3 DEF LineState
      <3> QED
        BY <1>1, <1>3, <2>1, <3>1 DEF Line!Rest, Line!LineNext
    <2> QED
      BY <2>2, <2>3
  <1> QED
    BY <1>1, <1>5, <1>6, <1>7, LeavesTo DEF IInv

\* For any checksum, packets, buffer and noise: the ends of the line, byte by
\* byte, keep the promise PacketLine makes about packets.
THEOREM LineImplementsPromise == Spec => LineKeepsPromise
  <1>1. Init => Line!LineInit
    BY DEF Init, Line!LineInit, LineState
  <1>2. IInv /\ IInv' /\ [Next]_vars => [Line!LineNext]_(Line!lineVars)
    <2> SUFFICES ASSUME IInv, IInv', [Next]_vars
                 PROVE  Line!LineNext \/ UNCHANGED Line!lineVars
      OBVIOUS
    <2>n. \A c \in Noise : c \in Byte
      BY SlipConstants
    <2>1. ASSUME NEW p \in Packet, protocol_send_packet(p) PROVE Line!Send
      <3>1. LineState = "idle" /\ LineState' = "begun"
        BY <2>1 DEF protocol_send_packet, LineState
      <3> QED
        BY <2>1, <3>1 DEF protocol_send_packet, recvVars, Line!Send
    <2>2. CASE Arrives
      BY <2>2, ArriveStep
    <2>3. CASE GetsLost
      BY <2>3, DisturbStep DEF GetsLost, recvVars, Line!MaybeOne, Line!LineNext
    <2>4. CASE GetsChanged
      <3>1. Line!MaybeOne
        BY <2>4, TakenByEnd DEF GetsChanged, IInv
      <3> QED
        BY <2>4, <3>1, DisturbStep DEF GetsChanged, Line!LineNext
    <2>5. CASE GetsAdded
      <3>1. Line!MaybeOne
        BY <2>5, TakenByEnd DEF GetsAdded, IInv
      <3> QED
        BY <2>5, <3>1, DisturbStep DEF GetsAdded, Line!LineNext
    <2>6. CASE UNCHANGED vars
      BY <2>6 DEF vars, sendVars, recvVars, LineState, Line!lineVars
    <2> QED
      BY <2>1, <2>2, <2>3, <2>4, <2>5, <2>6 DEF Next, Line!LineNext
  <1> QED
    BY <1>1, <1>2, InitIInv, StepIInv, PTL DEF Spec, LineKeepsPromise, Line!LineSpec

\* What has been taken when nothing is ever damaged.
AllTaken == accepted = IF at = "idle" THEN log ELSE SubSeq(log, 1, Len(log) - 1)

AllShort == \A p \in Packet : Len(WithCRC(p)) < RS485_BUFFER_SIZE

\* On a line without damage, and with packets that fit the buffer, everything that
\* is sent is taken, once and in order, and there is nothing left over between two
\* packets.
THEOREM EachOnceInOrder == MaxDamage = 0 /\ AllShort => (Spec => []AllTaken)
  <1> DEFINE Inv == AllTaken /\ (at \in {"data", "escaped", "end"} => clean)
  <1> SUFFICES ASSUME MaxDamage = 0, AllShort PROVE Spec => []AllTaken
    OBVIOUS
  <1>1. Init => Inv
    BY DEF Init, AllTaken
  <1>2. IInv /\ IInv' /\ Inv /\ [Next]_vars => Inv'
    <2> SUFFICES ASSUME IInv, IInv', Inv, [Next]_vars PROVE Inv'
      OBVIOUS
    <2>1. ~Damage
      BY DEF Damage, IInv
    <2>2. ASSUME NEW p \in Packet, protocol_send_packet(p) PROVE Inv'
      <3>1. /\ at = "idle" /\ at' = "start" /\ accepted' = accepted
            /\ log' = Append(log, p) /\ log \in Seq(Packet)
        BY <2>2 DEF protocol_send_packet, recvVars, IInv, SendType
      <3>2. SubSeq(Append(log, p), 1, Len(Append(log, p)) - 1) = log
        BY <3>1, ButLast
      <3> QED
        BY <3>1, <3>2 DEF AllTaken
    <2>3. CASE Arrives
      <3>1. /\ CharLeaves /\ serialEvent(Char) /\ log' = log
            /\ clean' = (clean \/ at = "start")
            /\ at = "start" => at' = "data"
            /\ at \in {"data", "escaped"} => at' \in {"data", "escaped", "end"}
            /\ at = "end" => at' = "idle"
            /\ at \in {"start", "data", "escaped", "end"}
        BY <2>3, LeavesTo DEF Arrives, IInv
      <3>2. CASE at # "end"
        BY <2>3, <3>1, <3>2, TakenBefore DEF AllTaken
      <3>3. CASE at = "end"
        <4>1. Body \in Packet /\ packet = WithCRC(Body) /\ log \in Seq(Packet) /\ Len(log) > 0
          BY <3>3, BodyIsPacket DEF IInv, SendType, SendInv
        <4>2. Len(packet) < RS485_BUFFER_SIZE
          BY <4>1 DEF AllShort
        <4>3. accepted' = Append(accepted, Body)
          BY <3>1, <3>3, <4>2, CleanEnds
        <4>4. Append(SubSeq(log, 1, Len(log) - 1), log[Len(log)]) = log
          BY <4>1, AndLast
        <4> QED
          BY <3>1, <3>3, <4>3, <4>4 DEF AllTaken, Body
      <3> QED
        BY <3>2, <3>3
    <2>4. CASE UNCHANGED vars
      BY <2>4 DEF vars, sendVars, recvVars, AllTaken
    <2> QED
      BY <2>1, <2>2, <2>3, <2>4 DEF Next, GetsLost, GetsChanged, GetsAdded
  <1>3. Inv => AllTaken
    OBVIOUS
  <1> HIDE DEF Inv
  <1> QED
    BY <1>1, <1>2, <1>3, InitIInv, StepIInv, PTL DEF Spec
-----------------------------------------------------------------------------
(***************************************************************************)
(* What is taken, with at most one damaged byte per packet.  First about   *)
(* the matching of what is taken with what was sent.                       *)
(***************************************************************************)
\* What was matched with the first packets is matched with more of them.
LEMMA MatchesMore ==
  ASSUME NEW taken, NEW sent, NEW m \in Int, NEW n \in Int, m <= n, Matches(taken, sent, m)
  PROVE  Matches(taken, sent, n)
  <1>1. PICK which \in [1 .. Len(taken) -> 1 .. m] :
           \A i \in 1 .. Len(taken) : /\ Begins(taken[i], sent[which[i]])
                                      /\ i > 1 => which[i - 1] < which[i]
    BY DEF Matches
  <1>2. \A i \in 1 .. m : i \in 1 .. n
    OBVIOUS
  <1>3. which \in [1 .. Len(taken) -> 1 .. n]
    BY <1>2
  <1> QED
    BY <1>1, <1>3 DEF Matches

\* One more packet is taken, and is the next one.
LEMMA MatchesTaken ==
  ASSUME NEW taken \in Seq(Seq(Byte)), NEW sent, NEW m \in Nat \ {0},
         NEW a \in Seq(Byte), Begins(a, sent[m]), Matches(taken, sent, m - 1)
  PROVE  Matches(Append(taken, a), sent, m)
  <1> DEFINE n == Len(taken)
             t == Append(taken, a)
  <1>1. n \in Nat /\ Len(t) = n + 1 /\ t[n + 1] = a /\ \A i \in 1 .. n : t[i] = taken[i]
    BY AppendProperties
  <1> HIDE DEF t
  <1>2. PICK which \in [1 .. n -> 1 .. m - 1] :
           \A i \in 1 .. n : /\ Begins(taken[i], sent[which[i]])
                             /\ i > 1 => which[i - 1] < which[i]
    BY DEF Matches
  <1> DEFINE w == [i \in 1 .. n + 1 |-> IF i = n + 1 THEN m ELSE which[i]]
  <1>3. /\ w[n + 1] = m /\ \A i \in 1 .. n : w[i] = which[i] /\ which[i] \in 1 .. m - 1
    <2>1. n + 1 \in 1 .. n + 1 /\ \A i \in 1 .. n : i \in 1 .. n + 1 /\ i # n + 1
      BY <1>1
    <2> QED
      BY <1>2, <2>1
  <1>4. w \in [1 .. n + 1 -> 1 .. m]
    BY <1>1, <1>2
  <1> HIDE DEF w
  <1>5. ASSUME NEW i \in 1 .. n + 1
        PROVE  Begins(t[i], sent[w[i]]) /\ (i > 1 => w[i - 1] < w[i])
    <2>1. CASE i = n + 1
      <3>1. Begins(t[i], sent[w[i]])
        BY <1>1, <1>3, <2>1
      <3>2. i > 1 => i - 1 \in 1 .. n
        BY <1>1, <2>1
      <3> QED
        BY <1>3, <2>1, <3>1, <3>2
    <2>2. CASE i # n + 1
      <3>1. i \in 1 .. n /\ (i > 1 => i - 1 \in 1 .. n)
        BY <1>1, <2>2
      <3> QED
        BY <1>1, <1>2, <1>3, <3>1
    <2> QED
      BY <2>1, <2>2
  <1>6. w \in [1 .. Len(t) -> 1 .. m]
    BY <1>1, <1>4
  <1>7. \A i \in 1 .. Len(t) : Begins(t[i], sent[w[i]]) /\ (i > 1 => w[i - 1] < w[i])
    BY <1>1, <1>5
  <1>8. Matches(t, sent, m)
    BY <1>6, <1>7 DEF Matches
  <1> QED
    BY <1>8 DEF t

\* What was sent since does not matter.
LEMMA MatchesSent ==
  ASSUME NEW taken, NEW sent \in Seq(Packet), NEW p \in Packet, NEW m \in Int, m <= Len(sent),
         Matches(taken, sent, m)
  PROVE  Matches(taken, Append(sent, p), m)
  <1>1. Len(sent) \in Nat /\ \A i \in 1 .. Len(sent) : Append(sent, p)[i] = sent[i]
    BY AppendProperties
  <1>2. PICK which \in [1 .. Len(taken) -> 1 .. m] :
           \A i \in 1 .. Len(taken) : /\ Begins(taken[i], sent[which[i]])
                                      /\ i > 1 => which[i - 1] < which[i]
    BY DEF Matches
  <1>3. \A i \in 1 .. Len(taken) : Append(sent, p)[which[i]] = sent[which[i]]
    BY <1>1, <1>2
  <1> QED
    BY <1>2, <1>3 DEF Matches

\* A whole packet with anything after it.
Began(b, p) == Len(b) >= Len(p) + 2 /\ SubSeq(b, 1, Len(p)) = p

\* The packet a tested buffer begins with is the next one taken, or none is.
LEMMA TestedMatches ==
  ASSUME NEW taken \in Seq(Seq(Byte)), NEW sent, NEW m \in Nat \ {0}, NEW b \in Seq(Byte),
         Valid(b) => Begins(SubSeq(b, 1, Len(b) - 2), sent[m]), Matches(taken, sent, m - 1)
  PROVE  Matches(IF Valid(b) THEN Append(taken, SubSeq(b, 1, Len(b) - 2)) ELSE taken, sent, m)
  <1>1. CASE Valid(b)
    <2>1. Len(b) - 2 \in Nat /\ Len(b) - 2 <= Len(b)
      BY <1>1 DEF Valid
    <2>2. SubSeq(b, 1, Len(b) - 2) \in Seq(Byte)
      BY <2>1, FirstBytes
    <2> QED
      BY <1>1, <2>2, MatchesTaken
  <1>2. CASE ~Valid(b)
    <2>1. Matches(taken, sent, m)
      BY MatchesMore
    <2> QED
      BY <1>2, <2>1
  <1> QED
    BY <1>1, <1>2

LEMMA TestedBegan ==
  ASSUME NEW p \in Seq(Byte), NEW b \in Seq(Byte), Began(b, p)
  PROVE  Begins(SubSeq(b, 1, Len(b) - 2), p)
  <1> DEFINE n == Len(b) - 2
             h == SubSeq(b, 1, n)
  <1>1. Len(p) \in Nat /\ n \in Nat /\ n <= Len(b) /\ Len(p) <= n /\ SubSeq(b, 1, Len(p)) = p
    BY DEF Began
  <1>2. h \in Seq(Byte) /\ Len(h) = n /\ \A i \in 1 .. n : h[i] = b[i]
    BY <1>1, FirstBytes
  <1>3. /\ SubSeq(b, 1, Len(p)) \in Seq(Byte) /\ Len(SubSeq(b, 1, Len(p))) = Len(p)
        /\ \A i \in 1 .. Len(p) : SubSeq(b, 1, Len(p))[i] = b[i]
    BY <1>1, FirstBytes
  <1> HIDE DEF h, n
  <1>4. /\ SubSeq(h, 1, Len(p)) \in Seq(Byte) /\ Len(SubSeq(h, 1, Len(p))) = Len(p)
        /\ \A i \in 1 .. Len(p) : SubSeq(h, 1, Len(p))[i] = h[i]
    BY <1>1, <1>2, FirstBytes
  <1>5. \A i \in 1 .. Len(p) : SubSeq(h, 1, Len(p))[i] = p[i]
    BY <1>1, <1>2, <1>3, <1>4
  <1>6. SubSeq(h, 1, Len(p)) = p
    BY <1>4, <1>5, SeqEqual
  <1>7. Begins(h, p)
    BY <1>1, <1>2, <1>6 DEF Begins
  <1> QED
    BY <1>7 DEF h, n
-----------------------------------------------------------------------------
(***************************************************************************)
(* What a damaged byte leaves of a packet.                                 *)
(***************************************************************************)
LEMMA ReadIsByte ==
  ASSUME NEW b \in Byte, NEW begun \in BOOLEAN, NEW esc \in BOOLEAN, begun => b \in Special
  PROVE  Read(b, begun, esc) \in Byte
  <1>1. CASE begun /\ ~esc
    BY <1>1, BytesDiffer DEF Read
  <1>2. CASE ~(begun /\ ~esc)
    BY <1>2, BytesAre, Unescaped DEF Read
  <1> QED
    BY <1>1, <1>2

LEMMA RestEmpty ==
  ASSUME NEW w, NEW begun, NEW esc
  PROVE  Rest(w, Len(w), begun, esc) = <<>>
  <1>1. Len(w) >= Len(w)
    OBVIOUS
  <1> QED
    BY <1>1 DEF Rest

\* The byte that leaves next, and those after it.
LEMMA RestFirst ==
  ASSUME NEW w \in Seq(Byte), NEW n \in Nat, n < Len(w),
         NEW begun \in BOOLEAN, NEW esc \in BOOLEAN, begun => w[n + 1] \in Special
  PROVE  /\ Rest(w, n + 1, FALSE, FALSE) \in Seq(Byte)
         /\ Read(w[n + 1], begun, esc) \in Byte
         /\ Rest(w, n, begun, esc) = <<Read(w[n + 1], begun, esc)>> \o Rest(w, n + 1, FALSE, FALSE)
  <1>1. w[n + 1] \in Byte /\ Len(w) \in Nat
    BY ElementOfSeq
  <1>2. Read(w[n + 1], begun, esc) \in Byte
    BY <1>1, ReadIsByte
  <1>3. ~(n >= Len(w))
    BY <1>1
  <1>4. Rest(w, n, begun, esc) = <<Read(w[n + 1], begun, esc)>> \o SubSeq(w, n + 2, Len(w))
    BY <1>3 DEF Rest
  <1>5. \A i \in n + 2 .. Len(w) : w[i] \in Byte
    BY <1>1, ElementOfSeq
  <1>6. SubSeq(w, n + 2, Len(w)) \in Seq(Byte)
    BY <1>1, <1>5, SubSeqProperties
  <1>7. Rest(w, n + 1, FALSE, FALSE) = SubSeq(w, n + 2, Len(w))
    <2>1. CASE n + 1 = Len(w)
      <3>1. SubSeq(w, n + 2, Len(w)) = <<>>
        BY <1>1, <2>1, SubSeqEmpty
      <3> QED
        BY <2>1, <3>1, RestEmpty
    <2>2. CASE n + 1 # Len(w)
      <3>1. n + 2 \in 1 .. Len(w) /\ Len(w) \in n + 2 .. Len(w)
        BY <1>1, <2>2
      <3>2. SubSeq(w, n + 2, Len(w)) = <<w[n + 2]>> \o SubSeq(w, n + 2 + 1, Len(w))
        BY <3>1, SubSeqRecursiveFirst
      <3>3. n + 1 + 1 = n + 2 /\ n + 1 + 2 = n + 2 + 1 /\ ~(n + 1 >= Len(w))
        BY <1>1, <2>2
      <3>4. Rest(w, n + 1, FALSE, FALSE) = <<w[n + 2]>> \o SubSeq(w, n + 2 + 1, Len(w))
        BY <3>3 DEF Rest, Read
      <3> QED
        BY <3>2, <3>4
    <2> QED
      BY <2>1, <2>2
  <1> QED
    BY <1>2, <1>4, <1>6, <1>7

\* Where the next byte begins, its escape having left or not.
Point(w, n, begun) ==
    n \in 0 .. Len(w) /\ begun \in BOOLEAN /\ (begun => n < Len(w) /\ w[n + 1] \in Special)

LEMMA RestType ==
  ASSUME NEW w \in Seq(Byte), NEW n, NEW begun, NEW esc \in BOOLEAN, Point(w, n, begun)
  PROVE  Rest(w, n, begun, esc) \in Seq(Byte)
  <1>1. n \in 0 .. Len(w) /\ Len(w) \in Nat /\ begun \in BOOLEAN
        /\ (begun => w[n + 1] \in Special)
    BY DEF Point
  <1>2. CASE n = Len(w)
    BY <1>2, RestEmpty, EmptySeq
  <1>3. CASE n # Len(w)
    <2>1. n \in Nat /\ n < Len(w)
      BY <1>1, <1>3
    <2> DEFINE v == Read(w[n + 1], begun, esc)
               r == Rest(w, n + 1, FALSE, FALSE)
    <2>2. v \in Byte /\ r \in Seq(Byte) /\ Rest(w, n, begun, esc) = <<v>> \o r
      BY <1>1, <2>1, RestFirst
    <2> HIDE DEF v, r
    <2>3. <<v>> \in Seq(Byte)
      BY <2>2
    <2> QED
      BY <2>2, <2>3, ConcatProperties
  <1> QED
    BY <1>2, <1>3

LEMMA RestIn ==
  ASSUME NEW w, NEW n, NEW begun, NEW esc \in BOOLEAN, Point(w, n, begun)
  PROVE  Rest(w, n, begun, esc) \in Rests(w, n)
  BY DEF Point, Rests

LEMMA FragBegin ==
  ASSUME NEW w, NEW n \in 0 .. Len(w)
  PROVE  SubSeq(w, 1, n) \in Fragments(w)
  BY DEF Fragments, Beginnings

LEMMA FragEnd ==
  ASSUME NEW w, NEW n, NEW begun, NEW esc \in BOOLEAN, Point(w, n, begun)
  PROVE  Rest(w, n, begun, esc) \in Fragments(w)
  <1>1. n \in 0 .. Len(w) /\ Rest(w, n, begun, esc) \in Rests(w, n)
    BY RestIn DEF Point
  <1>2. Rest(w, n, begun, esc) \in Ends(w)
    BY <1>1 DEF Ends
  <1> QED
    BY <1>2 DEF Fragments

LEMMA FragPatch ==
  ASSUME NEW w, NEW n \in 0 .. Len(w), NEW x \in Patches, NEW m \in {n, n + 1},
         NEW begun, NEW esc \in BOOLEAN, Point(w, m, begun)
  PROVE  SubSeq(w, 1, n) \o x \o Rest(w, m, begun, esc) \in Fragments(w)
  <1> DEFINE r == Rest(w, m, begun, esc)
  <1>1. r \in Rests(w, n) \union Rests(w, n + 1)
    BY RestIn
  <1> HIDE DEF r
  <1>2. SubSeq(w, 1, n) \o x \o r \in Patched(w, n)
    BY <1>1 DEF Patched
  <1>3. SubSeq(w, 1, n) \o x \o r \in UNION {Patched(w, i) : i \in 0 .. Len(w)}
    BY <1>2
  <1>4. SubSeq(w, 1, n) \o x \o r \in Fragments(w)
    BY <1>3 DEF Fragments
  <1> QED
    BY <1>4 DEF r
-----------------------------------------------------------------------------
(***************************************************************************)
(* What the receiver makes of a byte, before and after a START.            *)
(***************************************************************************)
LEMMA HeardClosed ==
  ASSUME RecvType, RecvInv, NEW c \in Byte, serialEvent(c), ~startReceived
  PROVE  /\ rs485Buffer' = <<>> /\ accepted' = accepted
         /\ startReceived' = (c = SLIP_START)
  <1>1. rs485Buffer = <<>> /\ startReceived = FALSE
    BY DEF RecvType, RecvInv
  <1>2. ~(Len(rs485Buffer) >= RS485_BUFFER_SIZE)
    BY <1>1, SlipConstants, EmptySeq
  <1>3. CASE c = SLIP_START
    <2>1. StartByte
      BY <1>2, <1>3, BytesDiffer DEF serialEvent
    <2> QED
      BY <1>3, <2>1 DEF StartByte
  <1>4. CASE c # SLIP_START
    <2>1. EndByte \/ EscByte \/ DataByte(c)
      BY <1>2, <1>4 DEF serialEvent
    <2> QED
      BY <1>1, <1>4, <2>1 DEF EndByte, EscByte, DataByte
  <1> QED
    BY <1>3, <1>4

\* The buffer is emptied, tested, or left as it was, perhaps with a byte more.
Emptied == startReceived' /\ rs485Buffer' = <<>> /\ ~rx_esc' /\ accepted' = accepted

Tested == /\ ~startReceived' /\ rs485Buffer' = <<>>
          /\ accepted' = IF Valid(rs485Buffer)
                         THEN Append(accepted, SubSeq(rs485Buffer, 1, Len(rs485Buffer) - 2))
                         ELSE accepted

Escaped == startReceived' /\ rs485Buffer' = rs485Buffer /\ rx_esc' /\ accepted' = accepted

Added(b) == startReceived' /\ rs485Buffer' = Append(rs485Buffer, b) /\ ~rx_esc' /\ accepted' = accepted

LEMMA HeardOpen ==
  ASSUME RecvType, RecvInv, NEW c \in Byte, serialEvent(c), startReceived
  PROVE  \/ Emptied /\ (c = SLIP_START \/ Len(rs485Buffer) = RS485_BUFFER_SIZE)
         \/ c = SLIP_END /\ Tested
         \/ c = SLIP_ESC /\ Escaped
         \/ c \notin Special /\ Added(IF rx_esc THEN (SLIP_ESC + c) % 256 ELSE c)
  <1>1. CASE Len(rs485Buffer) >= RS485_BUFFER_SIZE
    <2>1. Overflow /\ Len(rs485Buffer) = RS485_BUFFER_SIZE
      BY <1>1, SlipConstants DEF serialEvent, RecvType, RecvInv
    <2> QED
      BY <2>1 DEF Overflow, Emptied, RecvInv
  <1>2. CASE ~(Len(rs485Buffer) >= RS485_BUFFER_SIZE)
    <2>1. CASE c = SLIP_START
      <3>1. StartByte
        BY <1>2, <2>1, BytesDiffer DEF serialEvent
      <3> QED
        BY <2>1, <3>1 DEF StartByte, Emptied
    <2>2. CASE c = SLIP_END
      BY <1>2, <2>2, BytesDiffer DEF serialEvent, EndByte, reciveValidMsg, Tested
    <2>3. CASE c = SLIP_ESC
      BY <1>2, <2>3, BytesDiffer DEF serialEvent, EscByte, Escaped
    <2>4. CASE c \notin Special
      <3>1. DataByte(c)
        BY <1>2, <2>4 DEF serialEvent, Special
      <3> QED
        BY <2>4, <3>1 DEF DataByte, Added
    <2> QED
      BY <2>1, <2>2, <2>3, <2>4 DEF Special
  <1> QED
    BY <1>1, <1>2
-----------------------------------------------------------------------------
(***************************************************************************)
(* The invariant behind OnlySentAccepted: what the receiver may hold       *)
(* between two packets, and of the packet on the line once one byte was    *)
(* damaged.                                                                *)
(***************************************************************************)
\* After m packets: nothing, or the last of them whole, its END having been lost.
Left(m) ==
    \/ ~startReceived /\ Matches(accepted, log, m)
    \/ startReceived /\ rs485Buffer = <<>> /\ Matches(accepted, log, m)
    \/ startReceived /\ m > 0 /\ Began(rs485Buffer, log[m]) /\ Matches(accepted, log, m - 1)

\* A fragment of the m-th packet, once the rest of it has arrived.
Broken(m) ==
    /\ startReceived /\ Matches(accepted, log, m - 1)
    /\ rs485Buffer \o Rest(packet, next, at = "escaped", rx_esc) \in Fragments(packet)

\* The packet before, and behind it what has arrived of this one.
Joined(m) ==
    startReceived /\ m > 1 /\ Began(rs485Buffer, log[m - 1]) /\ Matches(accepted, log, m - 2)

Deaf(m) == ~startReceived /\ Matches(accepted, log, m)

Underway(m) ==
    \/ clean /\ Matches(accepted, log, m - 1)
    \/ damage # 0 /\ (Broken(m) \/ Joined(m) \/ Deaf(m))

OneInv ==
    /\ at = "idle" => Left(Len(log)) /\ (startReceived => damage # 0)
    /\ at = "start" => /\ Matches(accepted, log, Len(log) - 1)
                       /\ damage = 0 => Left(Len(log) - 1)
    /\ at \in {"data", "escaped", "end"} => Underway(Len(log))

\* The packet on the line is short, and the last one sent.
Sending ==
    /\ IInv /\ at # "idle"
    /\ Body \in Packet /\ packet = WithCRC(Body) /\ Len(log) \in Nat /\ Len(log) > 0
    /\ packet \in Seq(Byte) /\ Len(packet) = Len(Body) + 2 /\ Body \in Seq(Byte)
    /\ Body = log[Len(log)]

LEMMA SendingIs == ASSUME IInv, at # "idle" PROVE Sending
  <1>1. Body \in Packet /\ packet = WithCRC(Body)
    BY BodyIsPacket DEF IInv
  <1>2. Body \in Seq(Byte) /\ packet \in Seq(Byte) /\ Len(packet) = Len(Body) + 2
    BY <1>1, PacketType
  <1>3. Len(log) \in Nat /\ Len(log) > 0
    BY DEF IInv, SendType, SendInv
  <1> QED
    BY <1>1, <1>2, <1>3 DEF Sending, Body

\* The END of a fragment: it is the packet, or it is not taken.
LEMMA TestFragment ==
  ASSUME TellsApart, Sending, Tested, rs485Buffer \in Fragments(packet),
         Matches(accepted, log, Len(log) - 1)
  PROVE  Matches(accepted', log, Len(log))
  <1>1. Valid(rs485Buffer) => Begins(SubSeq(rs485Buffer, 1, Len(rs485Buffer) - 2), log[Len(log)])
    BY DEF TellsApart, Sending
  <1>2. accepted \in Seq(Seq(Byte)) /\ rs485Buffer \in Seq(Byte) /\ Len(log) \in Nat \ {0}
    BY DEF Sending, IInv, RecvType
  <1>3. Matches(IF Valid(rs485Buffer)
                THEN Append(accepted, SubSeq(rs485Buffer, 1, Len(rs485Buffer) - 2))
                ELSE accepted, log, Len(log))
    BY <1>1, <1>2, TestedMatches
  <1> QED
    BY <1>3 DEF Tested

\* The END of two joined packets: they are taken as the first, or they are not taken.
LEMMA TestBegan ==
  ASSUME IInv, Tested, NEW m \in 1 .. Len(log), Began(rs485Buffer, log[m]),
         Matches(accepted, log, m - 1)
  PROVE  Matches(accepted', log, m)
  <1>1. log[m] \in Packet
    BY ElementOfSeq DEF IInv, SendType
  <1>2. log[m] \in Seq(Byte) /\ m \in Nat \ {0}
    BY <1>1, PacketType
  <1>3. accepted \in Seq(Seq(Byte)) /\ rs485Buffer \in Seq(Byte)
    BY DEF IInv, RecvType
  <1>4. Begins(SubSeq(rs485Buffer, 1, Len(rs485Buffer) - 2), log[m])
    BY <1>2, <1>3, TestedBegan
  <1>5. Matches(IF Valid(rs485Buffer)
                THEN Append(accepted, SubSeq(rs485Buffer, 1, Len(rs485Buffer) - 2))
                ELSE accepted, log, m)
    BY <1>2, <1>3, <1>4, TestedMatches
  <1> QED
    BY <1>5 DEF Tested

\* A packet that has begun stays begun while bytes are added.
LEMMA AddBegan ==
  ASSUME NEW p \in Seq(Byte), NEW b \in Seq(Byte), NEW c \in Byte, Began(b, p)
  PROVE  Began(Append(b, c), p)
  <1> DEFINE a == Append(b, c)
             h == SubSeq(b, 1, Len(p))
             k == SubSeq(a, 1, Len(p))
  <1>1. /\ a \in Seq(Byte) /\ Len(a) = Len(b) + 1 /\ \A i \in 1 .. Len(b) : a[i] = b[i]
    BY AppendProperties
  <1>2. Len(p) \in Nat /\ Len(b) \in Nat /\ Len(p) + 2 <= Len(b) /\ h = p
    BY DEF Began
  <1>3. h \in Seq(Byte) /\ Len(h) = Len(p) /\ \A i \in 1 .. Len(p) : h[i] = b[i]
    BY <1>2, FirstBytes
  <1> HIDE DEF a, h
  <1>4. k \in Seq(Byte) /\ Len(k) = Len(p) /\ \A i \in 1 .. Len(p) : k[i] = a[i]
    BY <1>1, <1>2, FirstBytes
  <1> HIDE DEF k
  <1>5. \A i \in 1 .. Len(p) : k[i] = h[i]
    BY <1>1, <1>2, <1>3, <1>4
  <1>6. k = h
    BY <1>3, <1>4, <1>5, SeqEqual
  <1>7. Began(a, p)
    BY <1>1, <1>2, <1>6 DEF Began, k
  <1> QED
    BY <1>7 DEF a

\* What was sent is in the buffer as it was sent, with anything after it.
LEMMA WholeBegan ==
  ASSUME Sending
  PROVE  Began(packet, Body) /\ \A c \in Byte : Began(Append(packet, c), Body)
  <1>1. SubSeq(packet, 1, Len(packet) - 2) = Body /\ Len(packet) - 2 = Len(Body)
    BY WholePacketValid DEF Sending
  <1>2. Began(packet, Body)
    BY <1>1 DEF Began, Sending
  <1> QED
    BY <1>2, AddBegan DEF Sending
-----------------------------------------------------------------------------
(***************************************************************************)
(* A byte arrives as it left, of a packet that was damaged before.         *)
(***************************************************************************)
LEMMA AppendRest ==
  ASSUME NEW w \in Seq(Byte), NEW n \in Nat, n < Len(w), NEW buff \in Seq(Byte),
         NEW begun \in BOOLEAN, NEW esc \in BOOLEAN, begun => w[n + 1] \in Special
  PROVE  Append(buff, Read(w[n + 1], begun, esc)) \o Rest(w, n + 1, FALSE, FALSE)
           = buff \o Rest(w, n, begun, esc)
  <1> DEFINE v == Read(w[n + 1], begun, esc)
             r == Rest(w, n + 1, FALSE, FALSE)
  <1>1. v \in Byte /\ r \in Seq(Byte) /\ Rest(w, n, begun, esc) = <<v>> \o r
    BY RestFirst
  <1> HIDE DEF v, r
  <1>2. <<v>> \in Seq(Byte)
    BY <1>1
  <1>3. Append(buff, v) = buff \o <<v>>
    BY <1>1, AppendIsConcat
  <1>4. (buff \o <<v>>) \o r = buff \o (<<v>> \o r)
    BY <1>1, <1>2, ConcatAssociative
  <1>5. Append(buff, v) \o r = buff \o Rest(w, n, begun, esc)
    BY <1>1, <1>3, <1>4
  <1> QED
    BY <1>5 DEF v, r

\* An escape that leaves and is heard makes no difference to what follows.
LEMMA EscapeRest ==
  ASSUME NEW w \in Seq(Byte), NEW n \in Nat, n < Len(w), w[n + 1] \in Special,
         NEW esc \in BOOLEAN
  PROVE  Rest(w, n, TRUE, TRUE) = Rest(w, n, FALSE, esc)
  <1>1. Read(w[n + 1], TRUE, TRUE) = Read(w[n + 1], FALSE, esc)
    BY DEF Read
  <1> QED
    BY <1>1 DEF Rest

\* Where the sender is in the packet, and where the next byte takes it.
LEMMA AtPoint ==
  ASSUME IInv, at \in {"data", "escaped", "end"}
  PROVE  Point(packet, next, at = "escaped")
  BY DEF IInv, SendType, SendInv, Point

LEMMA LeavesByte ==
  ASSUME Sending, CharLeaves, at \in {"data", "escaped"}
  PROVE  /\ log' = log /\ packet' = packet /\ Body' = Body
         /\ next \in Nat /\ next < Len(packet) /\ (at = "escaped" => packet[next + 1] \in Special)
         /\ \/ /\ at = "data" /\ packet[next + 1] \in Special
               /\ at' = "escaped" /\ next' = next /\ Char = SLIP_ESC
            \/ /\ at' \in {"data", "end"} /\ next' = next + 1 /\ Char \notin Special
               /\ \A esc \in BOOLEAN :
                     (IF esc THEN (SLIP_ESC + Char) % 256 ELSE Char)
                       = Read(packet[next + 1], at = "escaped", esc)
  <1>1. log' = log /\ packet' = packet /\ Body' = Body
    BY DEF CharLeaves, Body
  <1>2. next \in Nat /\ next < Len(packet) /\ (at = "escaped" => packet[next + 1] \in Special)
    BY DEF Sending, IInv, SendType, SendInv
  <1>3. CASE at = "data" /\ packet[next + 1] \in Special
    <2>1. at' = "escaped" /\ next' = next /\ Char = SLIP_ESC
      BY <1>3, CharIs DEF CharLeaves, Sending, IInv
    <2> QED
      BY <1>1, <1>2, <1>3, <2>1
  <1>4. CASE at = "data" /\ packet[next + 1] \notin Special
    <2>1. at' \in {"data", "end"} /\ next' = next + 1
      BY <1>4 DEF CharLeaves, After
    <2>2. Char = packet[next + 1] /\ Char \notin Special
      BY <1>4, CharIs DEF Sending, IInv
    <2>3. \A esc \in BOOLEAN : (IF esc THEN (SLIP_ESC + Char) % 256 ELSE Char)
                                 = Read(packet[next + 1], FALSE, esc)
      BY <2>2 DEF Read
    <2>4. (at = "escaped") = FALSE
      BY <1>4
    <2> QED
      BY <1>1, <1>2, <2>1, <2>2, <2>3, <2>4
  <1>5. CASE at = "escaped"
    <2>1. at' \in {"data", "end"} /\ next' = next + 1
      BY <1>5 DEF CharLeaves, After
    <2>2. Char \notin Special /\ (SLIP_ESC + Char) % 256 = packet[next + 1]
      BY <1>5, CharIs DEF Sending, IInv
    <2>3. Char = packet[next + 1] - SLIP_ESC
      BY <1>5 DEF Char
    <2>4. \A esc \in BOOLEAN : (IF esc THEN (SLIP_ESC + Char) % 256 ELSE Char)
                                 = Read(packet[next + 1], TRUE, esc)
      BY <1>2, <1>5, <2>2, <2>3 DEF Read
    <2>5. (at = "escaped") = TRUE
      BY <1>5
    <2> QED
      BY <1>1, <1>2, <2>1, <2>2, <2>4, <2>5
  <1> QED
    BY <1>3, <1>4, <1>5

\* An empty buffer becomes the end of a packet.
LEMMA EmptyBroken ==
  ASSUME IInv', at' \in {"data", "escaped", "end"}, startReceived', rs485Buffer' = <<>>,
         Matches(accepted', log', Len(log') - 1)
  PROVE  Broken(Len(log))'
  <1>1. /\ Point(packet', next', at' = "escaped") /\ packet' \in Seq(Byte)
        /\ rx_esc' \in BOOLEAN
    BY DEF IInv, SendType, SendInv, RecvType, Point
  <1> DEFINE r == Rest(packet', next', at' = "escaped", rx_esc')
  <1>2. r \in Seq(Byte) /\ r \in Fragments(packet')
    BY <1>1, RestType, FragEnd
  <1> HIDE DEF r
  <1>3. <<>> \o r = r
    BY <1>2, ConcatEmptySeq
  <1> QED
    BY <1>2, <1>3 DEF Broken, r

LEMMA BrokenStep ==
  ASSUME Sending, IInv', CharLeaves, serialEvent(Char), at \in {"data", "escaped"},
         Broken(Len(log))
  PROVE  Broken(Len(log))'
  <1>1. /\ log' = log /\ packet' = packet /\ next \in Nat /\ next < Len(packet)
        /\ (at = "escaped" => packet[next + 1] \in Special)
    BY LeavesByte
  <1>2. /\ Char \in Byte /\ RecvType /\ RecvInv /\ startReceived /\ rx_esc \in BOOLEAN
        /\ packet \in Seq(Byte) /\ rs485Buffer \in Seq(Byte)
        /\ Matches(accepted, log, Len(log) - 1)
        /\ rs485Buffer \o Rest(packet, next, at = "escaped", rx_esc) \in Fragments(packet)
    BY CharIs DEF Sending, IInv, SendType, RecvType, Broken
  <1>3. \/ Emptied
        \/ Char = SLIP_END /\ Tested
        \/ Char = SLIP_ESC /\ Escaped
        \/ Char \notin Special /\ Added(IF rx_esc THEN (SLIP_ESC + Char) % 256 ELSE Char)
    BY <1>2, HeardOpen
  <1>4. CASE Emptied
    <2>1. at' \in {"data", "escaped", "end"}
      BY LeavesByte
    <2> QED
      BY <1>1, <1>2, <1>4, <2>1, EmptyBroken DEF Emptied
  <1>5. CASE /\ at = "data" /\ packet[next + 1] \in Special
             /\ at' = "escaped" /\ next' = next /\ Char = SLIP_ESC
    <2>1. Emptied \/ Escaped
      BY <1>3, <1>5, BytesDiffer DEF Special
    <2>2. CASE Escaped
      <3>1. (at = "escaped") = FALSE /\ (at' = "escaped") = TRUE /\ rx_esc' = TRUE
        BY <1>5, <2>2 DEF Escaped, IInv, RecvType
      <3>2. Rest(packet, next, TRUE, TRUE) = Rest(packet, next, FALSE, rx_esc)
        BY <1>1, <1>2, <1>5, EscapeRest
      <3>3. rs485Buffer' \o Rest(packet', next', at' = "escaped", rx_esc') \in Fragments(packet')
        BY <1>1, <1>2, <1>5, <2>2, <3>1, <3>2 DEF Escaped
      <3> QED
        BY <1>1, <1>2, <2>2, <3>3 DEF Escaped, Broken
    <2> QED
      BY <1>4, <2>1, <2>2
  <1>6. CASE /\ at' \in {"data", "end"} /\ next' = next + 1 /\ Char \notin Special
             /\ \A esc \in BOOLEAN :
                   (IF esc THEN (SLIP_ESC + Char) % 256 ELSE Char)
                     = Read(packet[next + 1], at = "escaped", esc)
    <2> DEFINE v == Read(packet[next + 1], at = "escaped", rx_esc)
    <2>1. Emptied \/ Added(v)
      BY <1>2, <1>3, <1>6 DEF Special
    <2>2. CASE Added(v)
      <3>1. (at' = "escaped") = FALSE /\ rx_esc' = FALSE
        BY <1>6, <2>2 DEF Added, IInv, RecvType
      <3>2. Append(rs485Buffer, v) \o Rest(packet, next + 1, FALSE, FALSE)
              = rs485Buffer \o Rest(packet, next, at = "escaped", rx_esc)
        BY <1>1, <1>2, AppendRest
      <3> HIDE DEF v
      <3>3. rs485Buffer' \o Rest(packet', next', at' = "escaped", rx_esc') \in Fragments(packet')
        BY <1>1, <1>2, <1>6, <2>2, <3>1, <3>2 DEF Added
      <3> QED
        BY <1>1, <1>2, <2>2, <3>3 DEF Added, Broken
    <2> QED
      BY <1>4, <2>1, <2>2
  <1> QED
    BY <1>5, <1>6, LeavesByte

LEMMA BrokenEnds ==
  ASSUME TellsApart, Sending, CharLeaves, serialEvent(Char), at = "end", Broken(Len(log))
  PROVE  Left(Len(log))'
  <1>1. /\ Char = SLIP_END /\ Char \in Byte /\ RecvType /\ RecvInv /\ startReceived
        /\ log' = log /\ Len(log) \in Nat /\ rs485Buffer \in Seq(Byte)
        /\ Matches(accepted, log, Len(log) - 1)
    BY CharIs DEF Sending, IInv, Broken, CharLeaves, RecvType
  <1>2. rs485Buffer \in Fragments(packet)
    <2>1. next = Len(packet)
      BY DEF Sending, IInv, SendInv
    <2>2. Rest(packet, next, at = "escaped", rx_esc) = <<>>
      BY <2>1, RestEmpty
    <2>3. rs485Buffer \o <<>> = rs485Buffer
      BY <1>1, ConcatEmptySeq
    <2> QED
      BY <2>2, <2>3 DEF Broken
  <1>3. Emptied \/ Tested
    BY <1>1, HeardOpen, BytesDiffer DEF Special
  <1>4. CASE Emptied
    <2>1. Matches(accepted, log, Len(log))
      BY <1>1, MatchesMore
    <2> QED
      BY <1>1, <1>4, <2>1 DEF Emptied, Left
  <1>5. CASE Tested
    BY <1>1, <1>2, <1>5, TestFragment DEF Tested, Left
  <1> QED
    BY <1>3, <1>4, <1>5

LEMMA JoinedStep ==
  ASSUME Sending, IInv', CharLeaves, serialEvent(Char), at \in {"data", "escaped"},
         Joined(Len(log))
  PROVE  (Broken(Len(log)) \/ Joined(Len(log)))'
  <1> DEFINE k == Len(log)
  <1>1. log' = log /\ at' \in {"data", "escaped", "end"}
    BY LeavesByte
  <1>2. /\ Char \in Byte /\ RecvType /\ RecvInv /\ startReceived /\ rx_esc \in BOOLEAN
        /\ rs485Buffer \in Seq(Byte) /\ k \in Nat /\ k > 1 /\ log \in Seq(Packet)
        /\ Began(rs485Buffer, log[k - 1]) /\ Matches(accepted, log, k - 2)
    BY CharIs DEF Sending, IInv, RecvType, SendType, Joined
  <1>3. log[k - 1] \in Seq(Byte)
    <2>1. k - 1 \in 1 .. Len(log)
      BY <1>2
    <2> QED
      BY <1>2, <2>1, ElementOfSeq, PacketType
  <1> HIDE DEF k
  <1>4. \/ Emptied
        \/ Char = SLIP_END /\ Tested
        \/ Char = SLIP_ESC /\ Escaped
        \/ Char \notin Special /\ Added(IF rx_esc THEN (SLIP_ESC + Char) % 256 ELSE Char)
    BY <1>2, HeardOpen
  <1>5. Char # SLIP_END
    BY LeavesByte, BytesDiffer DEF Special
  <1>6. CASE Emptied
    <2>1. Matches(accepted, log, k - 1)
      BY <1>2, MatchesMore
    <2>2. Broken(Len(log))'
      BY <1>1, <1>6, <2>1, EmptyBroken DEF Emptied, k
    <2> QED
      BY <2>2
  <1>7. CASE Escaped
    <2>1. Joined(Len(log))'
      BY <1>1, <1>2, <1>7 DEF Escaped, Joined, k
    <2> QED
      BY <2>1
  <1>8. CASE Added(IF rx_esc THEN (SLIP_ESC + Char) % 256 ELSE Char)
    <2>1. PICK b \in Byte : Added(b)
      BY <1>2, <1>8, BytesAre, Unescaped
    <2>2. Began(Append(rs485Buffer, b), log[k - 1])
      BY <1>2, <1>3, AddBegan
    <2>3. Joined(Len(log))'
      BY <1>1, <1>2, <2>1, <2>2 DEF Added, Joined, k
    <2> QED
      BY <2>3
  <1> QED
    BY <1>4, <1>5, <1>6, <1>7, <1>8

LEMMA JoinedEnds ==
  ASSUME Sending, CharLeaves, serialEvent(Char), at = "end", Joined(Len(log))
  PROVE  Left(Len(log))'
  <1> DEFINE k == Len(log)
  <1>1. /\ Char = SLIP_END /\ Char \in Byte /\ RecvType /\ RecvInv /\ startReceived
        /\ log' = log /\ k \in Nat /\ k > 1 /\ IInv
        /\ Began(rs485Buffer, log[k - 1]) /\ Matches(accepted, log, k - 2)
    BY CharIs DEF Sending, IInv, Joined, CharLeaves
  <1> HIDE DEF k
  <1>2. Emptied \/ Tested
    BY <1>1, HeardOpen, BytesDiffer DEF Special
  <1>3. CASE Emptied
    <2>1. Matches(accepted, log, k)
      BY <1>1, MatchesMore
    <2> QED
      BY <1>1, <1>3, <2>1 DEF Emptied, Left, k
  <1>4. CASE Tested
    <2>1. k - 1 \in 1 .. Len(log) /\ (k - 1) - 1 = k - 2
      BY <1>1 DEF k
    <2>2. Matches(accepted', log, k - 1)
      BY <1>1, <1>4, <2>1, TestBegan
    <2>3. Matches(accepted', log, k)
      BY <1>1, <2>2, MatchesMore
    <2> QED
      BY <1>1, <1>4, <2>3 DEF Tested, Left, k
  <1> QED
    BY <1>2, <1>3, <1>4

\* A receiver that waits for a START hears none before the packet's end.
LEMMA DeafStep ==
  ASSUME Sending, IInv', CharLeaves, serialEvent(Char), at \in {"data", "escaped", "end"},
         Deaf(Len(log))
  PROVE  Deaf(Len(log))'
  <1>1. /\ Char # SLIP_START /\ Char \in Byte /\ log' = log
        /\ RecvType /\ RecvInv /\ ~startReceived
    BY CharIs, BytesDiffer DEF CharLeaves, Sending, IInv, Deaf, Special
  <1>2. accepted' = accepted /\ ~startReceived'
    BY <1>1, HeardClosed
  <1> QED
    BY <1>1, <1>2 DEF Deaf

\* A byte of a damaged packet.
LEMMA DamagedStep ==
  ASSUME TellsApart, Sending, IInv', CharLeaves, serialEvent(Char),
         at \in {"data", "escaped", "end"},
         Broken(Len(log)) \/ Joined(Len(log)) \/ Deaf(Len(log))
  PROVE  /\ at' # "idle" => (Broken(Len(log)) \/ Joined(Len(log)) \/ Deaf(Len(log)))'
         /\ at' = "idle" => Left(Len(log))'
  <1>1. CASE at \in {"data", "escaped"}
    <2>1. at' # "idle"
      BY <1>1, LeavesByte
    <2>2. CASE Broken(Len(log))
      BY <1>1, <2>1, <2>2, BrokenStep
    <2>3. CASE Joined(Len(log))
      BY <1>1, <2>1, <2>3, JoinedStep
    <2>4. CASE Deaf(Len(log))
      BY <2>1, <2>4, DeafStep
    <2> QED
      BY <2>2, <2>3, <2>4
  <1>2. CASE at = "end"
    <2>1. at' = "idle"
      BY <1>2 DEF CharLeaves
    <2>2. CASE Broken(Len(log))
      BY <1>2, <2>1, <2>2, BrokenEnds
    <2>3. CASE Joined(Len(log))
      BY <1>2, <2>1, <2>3, JoinedEnds
    <2>4. CASE Deaf(Len(log))
      <3>1. Deaf(Len(log))'
        BY <2>4, DeafStep
      <3> QED
        BY <2>1, <3>1 DEF Deaf, Left
    <2> QED
      BY <2>2, <2>3, <2>4
  <1> QED
    BY <1>1, <1>2
-----------------------------------------------------------------------------
(***************************************************************************)
(* The one byte that is damaged.                                           *)
(***************************************************************************)
LEMMA PatchBroken ==
  ASSUME IInv', packet' \in Seq(Byte), NEW n \in 0 .. Len(packet'), NEW x \in Patches,
         at' \in {"data", "escaped", "end"}, next' \in {n, n + 1}, startReceived',
         rs485Buffer' = SubSeq(packet', 1, n) \o x, Matches(accepted', log', Len(log') - 1)
  PROVE  Broken(Len(log))'
  <1>1. Point(packet', next', at' = "escaped") /\ rx_esc' \in BOOLEAN
    BY DEF IInv, SendType, SendInv, RecvType, Point
  <1>2. SubSeq(packet', 1, n) \o x \o Rest(packet', next', at' = "escaped", rx_esc')
          \in Fragments(packet')
    BY <1>1, FragPatch
  <1> QED
    BY <1>2 DEF Broken

\* One made-up byte in the buffer, or none.
LEMMA PatchIs ==
  ASSUME NEW c \in Noise, NEW esc \in BOOLEAN
  PROVE  LET v == IF esc THEN (SLIP_ESC + c) % 256 ELSE c
         IN  v \in Byte /\ <<v>> \in Patches
  <1>1. c \in Byte /\ (SLIP_ESC + c) % 256 \in Byte
    BY SlipConstants, BytesAre, Unescaped
  <1>2. <<c>> \in Patches /\ <<(SLIP_ESC + c) % 256>> \in Patches
    BY DEF Patches
  <1> QED
    BY <1>1, <1>2

LEMMA NothingTested == ~Valid(<<>>)
  BY EmptySeq DEF Valid

\* The receiver holds what has arrived of an undamaged packet: one byte later it
\* holds that, perhaps with a byte more, or nothing, or has tested it.
LEMMA WholeHeard ==
  ASSUME AllShort, Sending, clean, at \in {"data", "escaped", "end"},
         UNCHANGED recvVars \/ \E c \in Noise : serialEvent(c)
  PROVE  /\ rs485Buffer = SubSeq(packet, 1, next) /\ next \in 0 .. Len(packet)
         /\ \/ /\ startReceived' /\ accepted' = accepted
               /\ \/ rs485Buffer' = rs485Buffer
                  \/ \E v \in Byte : <<v>> \in Patches /\ rs485Buffer' = Append(rs485Buffer, v)
            \/ Emptied
            \/ Tested
  <1>1. /\ startReceived /\ rs485Buffer = SubSeq(packet, 1, next) /\ next \in 0 .. Len(packet)
        /\ RecvType /\ RecvInv /\ rx_esc \in BOOLEAN
    BY DEF AllShort, Sending, IInv, CleanInv, SendType, RecvType
  <1>2. CASE UNCHANGED recvVars
    BY <1>1, <1>2 DEF recvVars
  <1>3. ASSUME NEW c \in Noise, serialEvent(c)
        PROVE  \/ /\ startReceived' /\ accepted' = accepted
                  /\ \/ rs485Buffer' = rs485Buffer
                     \/ \E v \in Byte : <<v>> \in Patches /\ rs485Buffer' = Append(rs485Buffer, v)
               \/ Emptied
               \/ Tested
    <2> DEFINE v == IF rx_esc THEN (SLIP_ESC + c) % 256 ELSE c
    <2>1. v \in Byte /\ <<v>> \in Patches
      BY <1>1, PatchIs
    <2>2. c \in Byte
      BY SlipConstants
    <2>3. Emptied \/ Tested \/ Escaped \/ Added(v)
      BY <1>1, <1>3, <2>2, HeardOpen
    <2> HIDE DEF v
    <2> QED
      BY <2>1, <2>3 DEF Escaped, Added
  <1> QED
    BY <1>1, <1>2, <1>3

LEMMA HitWhole ==
  ASSUME TellsApart, AllShort, Sending, IInv', clean, at \in {"data", "escaped", "end"},
         Matches(accepted, log, Len(log) - 1), log' = log, packet' = packet,
         UNCHANGED recvVars \/ \E c \in Noise : serialEvent(c),
         \/ at' \in {"data", "escaped", "end"} /\ next' \in {next, next + 1}
         \/ at = "end" /\ at' = "idle"
  PROVE  /\ at' # "idle" => (Broken(Len(log)) \/ Joined(Len(log)) \/ Deaf(Len(log)))'
         /\ at' = "idle" => Left(Len(log))'
  <1> DEFINE k == Len(log)
             b == SubSeq(packet, 1, next)
  <1>1. /\ rs485Buffer = b /\ next \in 0 .. Len(packet) /\ packet \in Seq(Byte)
        /\ k \in Nat /\ k > 0 /\ Body = log[k]
    BY WholeHeard DEF Sending
  <1>2. b \in Seq(Byte) /\ b \in Fragments(packet)
    BY <1>1, FirstBytes, FragBegin
  <1>3. Matches(accepted, log, k)
    BY <1>1, MatchesMore
  <1>4. ASSUME at = "end" PROVE b = packet
    <2>1. next = Len(packet)
      BY <1>4 DEF Sending, IInv, SendInv
    <2> QED
      BY <1>1, <2>1, SubSeqFull
  <1> HIDE DEF b, k
  <1>5. CASE Emptied
    <2>1. CASE at' \in {"data", "escaped", "end"}
      <3>1. Broken(Len(log))'
        BY <1>5, <2>1, EmptyBroken DEF Emptied
      <3> QED
        BY <2>1, <3>1
    <2>2. CASE at' = "idle"
      BY <1>3, <1>5, <2>2 DEF Emptied, Left, k
    <2> QED
      BY <2>1, <2>2
  <1>6. CASE Tested
    <2>1. Matches(accepted', log, Len(log))
      BY <1>1, <1>2, <1>6, TestFragment
    <2> QED
      BY <1>6, <2>1 DEF Tested, Deaf, Left
  <1>7. CASE startReceived' /\ accepted' = accepted /\ rs485Buffer' = rs485Buffer
    <2>1. CASE at' \in {"data", "escaped", "end"} /\ next' \in {next, next + 1}
      <3>1. <<>> \in Patches
        BY DEF Patches
      <3>2. rs485Buffer' = SubSeq(packet', 1, next) \o <<>>
        BY <1>1, <1>2, <1>7, ConcatEmptySeq DEF b
      <3>3. Broken(Len(log))'
        BY <1>1, <1>7, <2>1, <3>1, <3>2, PatchBroken
      <3> QED
        BY <2>1, <3>3
    <2>2. CASE at = "end" /\ at' = "idle"
      <3>1. Began(rs485Buffer', log[k])
        BY <1>1, <1>4, <1>7, <2>2, WholeBegan
      <3> QED
        BY <1>1, <1>7, <2>2, <3>1 DEF Left, k
    <2> QED
      BY <2>1, <2>2
  <1>8. ASSUME startReceived', accepted' = accepted,
               NEW v \in Byte, <<v>> \in Patches, rs485Buffer' = Append(rs485Buffer, v)
        PROVE  /\ at' # "idle" => (Broken(Len(log)) \/ Joined(Len(log)) \/ Deaf(Len(log)))'
               /\ at' = "idle" => Left(Len(log))'
    <2>1. CASE at' \in {"data", "escaped", "end"} /\ next' \in {next, next + 1}
      <3>1. rs485Buffer' = SubSeq(packet', 1, next) \o <<v>>
        BY <1>1, <1>2, <1>8, AppendIsConcat DEF b
      <3>2. Broken(Len(log))'
        BY <1>1, <1>8, <2>1, <3>1, PatchBroken
      <3> QED
        BY <2>1, <3>2
    <2>2. CASE at = "end" /\ at' = "idle"
      <3>1. Began(rs485Buffer', log[k])
        BY <1>1, <1>4, <1>8, <2>2, WholeBegan
      <3> QED
        BY <1>1, <1>8, <2>2, <3>1 DEF Left, k
    <2> QED
      BY <2>1, <2>2
  <1> QED
    BY <1>5, <1>6, <1>7, <1>8, WholeHeard

\* What is left of an earlier packet was sent.
LEMMA LeftMatches ==
  ASSUME NEW m \in Int, Left(m)
  PROVE  Matches(accepted, log, m)
  <1>1. Matches(accepted, log, m - 1) => Matches(accepted, log, m)
    BY MatchesMore
  <1> QED
    BY <1>1 DEF Left

\* One byte more, and what is left of m packets is taken, kept or gone.
LEMMA LeftHeard ==
  ASSUME IInv, NEW m \in Nat, m <= Len(log), Left(m), NEW c \in Noise, serialEvent(c)
  PROVE  /\ Matches(accepted', log, m)
         /\ startReceived' =>
               \/ rs485Buffer' = <<>>
               \/ \E v \in Byte : <<v>> \in Patches /\ rs485Buffer' = <<v>>
               \/ m > 0 /\ Began(rs485Buffer', log[m]) /\ Matches(accepted', log, m - 1)
  <1>1. RecvType /\ RecvInv /\ c \in Byte /\ rx_esc \in BOOLEAN /\ rs485Buffer \in Seq(Byte)
    BY SlipConstants DEF IInv, RecvType
  <1>2. Matches(accepted, log, m)
    BY LeftMatches
  <1>3. CASE ~startReceived
    BY <1>1, <1>2, <1>3, HeardClosed
  <1>4. CASE startReceived
    <2> DEFINE v == IF rx_esc THEN (SLIP_ESC + c) % 256 ELSE c
    <2>1. v \in Byte /\ <<v>> \in Patches
      BY <1>1, PatchIs
    <2>2. Emptied \/ Tested \/ Escaped \/ Added(v)
      BY <1>1, <1>4, HeardOpen
    <2> HIDE DEF v
    <2>3. CASE Emptied
      BY <1>2, <2>3 DEF Emptied
    <2>4. CASE rs485Buffer = <<>>
      <3>1. Append(<<>>, v) = <<v>>
        OBVIOUS
      <3>2. Tested => accepted' = accepted /\ ~startReceived'
        BY <2>4, NothingTested DEF Tested
      <3> QED
        BY <1>2, <2>1, <2>2, <2>3, <2>4, <3>1, <3>2 DEF Escaped, Added
    <2>5. CASE m > 0 /\ Began(rs485Buffer, log[m]) /\ Matches(accepted, log, m - 1)
      <3>1. CASE Tested
        <4>1. m \in 1 .. Len(log)
          BY <2>5 DEF IInv, SendType
        <4>2. Matches(accepted', log, m)
          BY <2>5, <3>1, <4>1, TestBegan
        <4> QED
          BY <3>1, <4>2 DEF Tested
      <3>2. CASE Escaped
        BY <1>2, <2>5, <3>2 DEF Escaped
      <3>3. CASE Added(v)
        <4>1. m \in 1 .. Len(log) /\ log \in Seq(Packet)
          BY <2>5 DEF IInv, SendType
        <4>2. log[m] \in Seq(Byte)
          BY <4>1, ElementOfSeq, PacketType
        <4>3. Began(Append(rs485Buffer, v), log[m])
          BY <1>1, <2>1, <2>5, <4>2, AddBegan
        <4> QED
          BY <1>2, <2>5, <3>3, <4>3 DEF Added
      <3> QED
        BY <2>2, <2>3, <3>1, <3>2, <3>3
    <2> QED
      BY <1>4, <2>4, <2>5 DEF Left
  <1> QED
    BY <1>3, <1>4

\* The START is lost, or another byte arrives for it.
LEMMA HitStart ==
  ASSUME Sending, IInv', at = "start", CharLeaves, Left(Len(log) - 1),
         UNCHANGED recvVars \/ \E c \in Noise : serialEvent(c)
  PROVE  (Broken(Len(log)) \/ Joined(Len(log)) \/ Deaf(Len(log)))'
  <1> DEFINE k == Len(log)
             m == k - 1
  <1>1. /\ log' = log /\ packet' = packet /\ packet \in Seq(Byte) /\ next' = 0
        /\ at' \in {"data", "end"} /\ k \in Nat /\ m \in Nat /\ m <= k /\ IInv
    BY DEF Sending, CharLeaves, After
  <1>2. /\ Matches(accepted', log, m)
        /\ startReceived' =>
              \/ rs485Buffer' = <<>>
              \/ \E v \in Byte : <<v>> \in Patches /\ rs485Buffer' = <<v>>
              \/ m > 0 /\ Began(rs485Buffer', log[m]) /\ Matches(accepted', log, m - 1)
    <2>1. CASE UNCHANGED recvVars
      BY <1>1, <2>1, LeftMatches DEF recvVars, Left
    <2>2. CASE \E c \in Noise : serialEvent(c)
      BY <1>1, <2>2, LeftHeard
    <2> QED
      BY <2>1, <2>2
  <1>3. CASE ~startReceived'
    <2>1. Matches(accepted', log, k)
      BY <1>1, <1>2, MatchesMore
    <2> QED
      BY <1>1, <1>3, <2>1 DEF Deaf
  <1>4. CASE startReceived' /\ rs485Buffer' = <<>>
    <2>1. Broken(Len(log))'
      BY <1>1, <1>2, <1>4, EmptyBroken
    <2> QED
      BY <2>1
  <1>5. ASSUME startReceived', NEW v \in Byte, <<v>> \in Patches, rs485Buffer' = <<v>>
        PROVE  Broken(Len(log))'
    <2>1. 0 \in 0 .. Len(packet') /\ next' \in {0, 0 + 1}
      BY <1>1
    <2>2. SubSeq(packet', 1, 0) = <<>>
      BY SubSeqEmpty
    <2>3. <<v>> \in Seq(Byte)
      OBVIOUS
    <2>4. <<>> \o <<v>> = <<v>>
      BY <2>3, ConcatEmptySeq
    <2>5. rs485Buffer' = SubSeq(packet', 1, 0) \o <<v>>
      BY <1>5, <2>2, <2>4
    <2> QED
      BY <1>1, <1>2, <1>5, <2>1, <2>5, PatchBroken
  <1>6. CASE startReceived' /\ m > 0 /\ Began(rs485Buffer', log[m]) /\ Matches(accepted', log, m - 1)
    <2>1. Len(log') > 1 /\ Len(log') - 1 = m /\ Len(log') - 2 = m - 1
      BY <1>1, <1>6
    <2>2. Joined(Len(log))'
      BY <1>1, <1>6, <2>1 DEF Joined
    <2> QED
      BY <2>2
  <1> QED
    BY <1>2, <1>3, <1>4, <1>5, <1>6
-----------------------------------------------------------------------------
LEMMA InitOneInv == Init => OneInv
  <1> SUFFICES ASSUME Init PROVE OneInv
    OBVIOUS
  <1>1. at = "idle" /\ ~startReceived /\ accepted = <<>> /\ log = <<>>
    BY DEF Init
  <1> DEFINE none == [i \in 1 .. 0 |-> 0]
  <1>2. Len(accepted) = 0 /\ Len(log) = 0
    BY <1>1, EmptySeq
  <1>3. none \in [1 .. Len(accepted) -> 1 .. Len(log)] /\ \A i \in 1 .. Len(accepted) : FALSE
    BY <1>2
  <1> HIDE DEF none
  <1>4. Matches(accepted, log, Len(log))
    BY <1>3 DEF Matches
  <1> QED
    BY <1>1, <1>4 DEF OneInv, Left

\* A new packet is begun: what was left over is of the one before.
LEMMA OneSend ==
  ASSUME IInv, OneInv, NEW p \in Packet, protocol_send_packet(p)
  PROVE  OneInv'
  <1> DEFINE k == Len(log)
  <1>1. /\ at = "idle" /\ at' = "start" /\ log' = Append(log, p) /\ log \in Seq(Packet)
        /\ UNCHANGED recvVars /\ Left(k)
    BY DEF protocol_send_packet, OneInv, IInv, SendType
  <1>2. /\ k \in Nat /\ Len(log') = k + 1 /\ Len(log') - 1 = k
        /\ \A i \in 1 .. k : log'[i] = log[i]
    BY <1>1, AppendProperties
  <1> HIDE DEF k
  <1>3. \A m \in Int : m <= k /\ Matches(accepted, log, m) => Matches(accepted', log', m)
    BY <1>1, MatchesSent DEF recvVars, k
  <1>4. Matches(accepted', log', k)
    BY <1>1, <1>2, <1>3, LeftMatches
  <1>5. CASE ~startReceived
    BY <1>1, <1>2, <1>4, <1>5 DEF OneInv, Left, recvVars
  <1>6. CASE startReceived /\ rs485Buffer = <<>>
    BY <1>1, <1>2, <1>4, <1>6 DEF OneInv, Left, recvVars
  <1>7. CASE startReceived /\ k > 0 /\ Began(rs485Buffer, log[k]) /\ Matches(accepted, log, k - 1)
    <2>1. Matches(accepted', log', k - 1) /\ log'[k] = log[k]
      BY <1>2, <1>3, <1>7
    <2> QED
      BY <1>1, <1>2, <1>4, <1>7, <2>1 DEF OneInv, Left, recvVars
  <1> QED
    BY <1>1, <1>5, <1>6, <1>7 DEF Left

\* A byte arrives as it left.
LEMMA OneArrives ==
  ASSUME AllShort, TellsApart, IInv, IInv', OneInv, Arrives
  PROVE  OneInv'
  <1> DEFINE k == Len(log)
  <1>1. /\ CharLeaves /\ serialEvent(Char) /\ damage' = damage /\ log' = log
        /\ clean' = (clean \/ at = "start") /\ clean \in BOOLEAN
        /\ at = "start" => at' = "data"
        /\ at \in {"data", "escaped"} => at' \in {"data", "escaped", "end"}
        /\ at = "end" => at' = "idle"
        /\ at \in {"start", "data", "escaped", "end"} /\ at # "idle"
    BY LeavesTo DEF Arrives, IInv
  <1>2. Sending
    BY <1>1, SendingIs
  <1>3. CASE at = "start"
    <2>1. accepted' = accepted
      BY <1>3, TakenBefore
    <2> QED
      BY <1>1, <1>3, <2>1 DEF OneInv, Underway
  <1>4. CASE at \in {"data", "escaped", "end"} /\ clean /\ Matches(accepted, log, k - 1)
    <2>1. CASE at # "end"
      <3>1. accepted' = accepted
        BY <2>1, TakenBefore
      <3> QED
        BY <1>1, <1>4, <2>1, <3>1 DEF OneInv, Underway
    <2>2. CASE at = "end"
      <3>1. accepted' = Append(accepted, Body) /\ ~startReceived'
        BY <1>1, <1>2, <1>4, <2>2, CleanEnds DEF AllShort, Sending
      <3>2. Begins(Body, log[k]) /\ Body \in Seq(Byte) /\ k \in Nat \ {0}
        BY <1>2, SubSeqFull DEF Begins, Sending
      <3>3. accepted \in Seq(Seq(Byte))
        BY DEF IInv, RecvType
      <3>4. Matches(accepted', log, k)
        BY <1>4, <3>1, <3>2, <3>3, MatchesTaken
      <3> QED
        BY <1>1, <2>2, <3>1, <3>4 DEF OneInv, Left
    <2> QED
      BY <2>1, <2>2
  <1>5. CASE /\ at \in {"data", "escaped", "end"} /\ damage # 0
             /\ Broken(k) \/ Joined(k) \/ Deaf(k)
    <2>1. /\ at' # "idle" => (Broken(Len(log)) \/ Joined(Len(log)) \/ Deaf(Len(log)))'
          /\ at' = "idle" => Left(Len(log))'
      BY <1>1, <1>2, <1>5, DamagedStep
    <2>2. at' # "idle" => Underway(Len(log))'
      BY <1>1, <1>5, <2>1 DEF Underway
    <2>3. at' # "start"
      BY <1>1, <1>5
    <2> QED
      BY <1>1, <1>5, <2>1, <2>2, <2>3 DEF OneInv
  <1> QED
    BY <1>1, <1>3, <1>4, <1>5 DEF OneInv, Underway

\* A byte is lost, changed or added.
LEMMA OneHit ==
  ASSUME MaxDamage <= 1, AllShort, TellsApart, IInv, IInv', OneInv, Damage,
         CharLeaves \/ UNCHANGED sendVars,
         UNCHANGED recvVars \/ \E c \in Noise : serialEvent(c)
  PROVE  OneInv'
  <1> DEFINE k == Len(log)
  <1>1. damage = 0 /\ damage' # 0
    BY SlipConstants DEF Damage, IInv
  <1>2. log' = log /\ packet' = packet /\ k \in Nat
    BY DEF CharLeaves, sendVars, IInv, SendType
  <1>3. CASE at = "idle"
    <2>1. at' = "idle" /\ ~startReceived /\ Matches(accepted, log, k)
      BY <1>1, <1>3, LeftMatches, <1>2 DEF CharLeaves, sendVars, OneInv
    <2>2. accepted' = accepted /\ (startReceived' => rs485Buffer' = <<>>)
      <3>1. CASE UNCHANGED recvVars
        BY <2>1, <3>1 DEF recvVars
      <3>2. CASE \E c \in Noise : serialEvent(c)
        BY <2>1, <3>2, HeardClosed, SlipConstants DEF IInv
      <3> QED
        BY <3>1, <3>2
    <2> QED
      BY <1>1, <1>2, <2>1, <2>2 DEF OneInv, Left
  <1>4. CASE at = "start" /\ CharLeaves
    <2>1. at' = "data"
      BY <1>4, LeavesTo DEF IInv
    <2>2. Sending /\ Left(Len(log) - 1)
      BY <1>1, <1>4, SendingIs DEF OneInv
    <2>3. (Broken(Len(log)) \/ Joined(Len(log)) \/ Deaf(Len(log)))'
      BY <1>4, <2>2, HitStart
    <2>4. Underway(Len(log))'
      BY <1>1, <2>3 DEF Underway
    <2> QED
      BY <2>1, <2>4 DEF OneInv
  <1>5. CASE at = "start" /\ UNCHANGED sendVars
    <2>1. at' = "start" /\ Left(k - 1) /\ k - 1 \in Nat /\ k - 1 <= k
      BY <1>1, <1>2, <1>5 DEF sendVars, OneInv, IInv, SendInv
    <2>2. Matches(accepted', log, k - 1)
      <3>1. CASE UNCHANGED recvVars
        BY <2>1, <3>1, LeftMatches DEF recvVars
      <3>2. CASE \E c \in Noise : serialEvent(c)
        BY <2>1, <3>2, LeftHeard
      <3> QED
        BY <3>1, <3>2
    <2> QED
      BY <1>1, <1>2, <2>1, <2>2 DEF OneInv
  <1>6. CASE at \in {"data", "escaped", "end"}
    <2>1. Sending /\ clean /\ Matches(accepted, log, Len(log) - 1)
      BY <1>1, <1>6, SendingIs DEF OneInv, Underway
    <2>2. \/ at' \in {"data", "escaped", "end"} /\ next' \in {next, next + 1}
          \/ at = "end" /\ at' = "idle"
      <3>1. CASE UNCHANGED sendVars
        BY <1>6, <3>1 DEF sendVars
      <3>2. CASE CharLeaves /\ at = "end"
        BY <3>2 DEF CharLeaves
      <3>3. CASE CharLeaves /\ at \in {"data", "escaped"}
        BY <2>1, <3>3, LeavesByte
      <3> QED
        BY <1>6, <3>1, <3>2, <3>3
    <2>3. /\ at' # "idle" => (Broken(Len(log)) \/ Joined(Len(log)) \/ Deaf(Len(log)))'
          /\ at' = "idle" => Left(Len(log))'
      BY <1>2, <1>6, <2>1, <2>2, HitWhole
    <2>4. at' # "idle" => Underway(Len(log))'
      BY <1>1, <2>3 DEF Underway
    <2>5. at' # "start"
      BY <2>2
    <2> QED
      BY <1>1, <2>3, <2>4, <2>5 DEF OneInv
  <1> QED
    BY <1>3, <1>4, <1>5, <1>6 DEF IInv, SendType

\* With at most one damaged byte per packet, packets that fit the buffer and a
\* checksum that tells what one such byte can leave of them from what was sent:
\* whatever is taken begins with a packet that was sent, in order and none twice.
\* The checksum is asked about single packets only: that START and END, lost or made
\* up, never let two packets or two halves pass for one is the receiver's doing.
THEOREM OnlySentTaken == AllShort /\ TellsApart => (Spec => []OnlySentAccepted)
  <1> SUFFICES ASSUME AllShort, TellsApart, MaxDamage <= 1
               PROVE  Spec => []OnlySentAccepted
    <2>1. CASE ~(MaxDamage <= 1)
      <3>1. OnlySentAccepted
        BY <2>1 DEF OnlySentAccepted
      <3> QED
        BY <3>1, PTL
    <2> QED
      BY <2>1
  <1>1. IInv /\ IInv' /\ OneInv /\ [Next]_vars => OneInv'
    <2> SUFFICES ASSUME IInv, IInv', OneInv, [Next]_vars PROVE OneInv'
      OBVIOUS
    <2>1. ASSUME NEW p \in Packet, protocol_send_packet(p) PROVE OneInv'
      BY <2>1, OneSend
    <2>2. CASE Arrives
      BY <2>2, OneArrives
    <2>3. CASE GetsLost
      BY <2>3, OneHit DEF GetsLost
    <2>4. CASE GetsChanged
      BY <2>4, OneHit DEF GetsChanged
    <2>5. CASE GetsAdded
      BY <2>5, OneHit DEF GetsAdded
    <2>6. CASE UNCHANGED vars
      BY <2>6 DEF vars, sendVars, recvVars, OneInv, Left, Underway, Broken, Joined, Deaf
    <2> QED
      BY <2>1, <2>2, <2>3, <2>4, <2>5, <2>6 DEF Next
  <1>2. IInv /\ OneInv => OnlySentAccepted
    <2> SUFFICES ASSUME IInv, OneInv PROVE Matches(accepted, log, Len(log))
      BY DEF OnlySentAccepted
    <2> DEFINE k == Len(log)
    <2>1. k \in Int /\ at \in {"idle", "start", "data", "escaped", "end"}
      BY DEF IInv, SendType
    <2> HIDE DEF k
    <2>2. /\ Matches(accepted, log, k - 1) => Matches(accepted, log, k)
          /\ Matches(accepted, log, k - 2) => Matches(accepted, log, k)
      BY <2>1, MatchesMore
    <2>3. Left(k) => Matches(accepted, log, k)
      BY <2>1, LeftMatches
    <2> QED
      BY <2>1, <2>2, <2>3 DEF OneInv, Underway, Broken, Joined, Deaf, k
  <1> QED
    BY <1>1, <1>2, InitIInv, StepIInv, InitOneInv, PTL DEF Spec
==============================================================================
