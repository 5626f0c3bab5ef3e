----------------------------- MODULE MCSlipLink ------------------------------
(***************************************************************************)
(* Small instances of SlipLink, with the real checksum and the real values *)
(* of START, END and ESC.  Packets hold the bytes that need escapes and    *)
(* those that escapes are made of.                                         *)
(***************************************************************************)
EXTENDS SlipLink

Crc == INSTANCE Crc16
Checksum == [p \in Seq(Byte) |-> Crc!CRC16ANSI(p)]

Packets == { <<1, 192>>, <<193, 2, 0>>, <<194, 192, 193>>, <<5, 6, 7, 8, 9, 10>>,
             <<5, 6, 7, 8, 9, 10, 11>> }
LineNoise == {192, 193, 194, 0, 65}

\* CRC16ANSI (protocol.c:45): going through its table the code computes what
\* shifting the message through the polynomial gives, for every packet about to
\* leave and whatever byte comes before it.  The first byte enters all 256
\* entries of the table, the others enter it from the registers that follow.
ChecksumIsAnsi ==
    at = "start" /\ Len(log) = 1 => \A b \in Byte :
        Crc!CRC16ANSI(<<b>> \o Body) = Crc!CrcOfPolynomial(<<b>> \o Body)

\* What OnlySentTaken of SlipLinkProofs asks of the checksum holds of these packets.
ASSUME ChecksumTellsApart == TellsApart
==============================================================================
