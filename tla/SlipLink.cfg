\* The bound on the packets ends every run.
CONSTANTS
    Packet <- Packets
    CRC16 <- Checksum
    RS485_BUFFER_SIZE = 9
    SLIP_START = 193
    SLIP_END = 194
    SLIP_ESC = 192
    Noise <- LineNoise
    MaxFrames = 3
    MaxDamage = 1
SPECIFICATION Spec
CHECK_DEADLOCK FALSE
INVARIANT TypeOK
INVARIANT OnlySentAccepted
INVARIANT ChecksumIsAnsi
PROPERTY LineKeepsPromise
