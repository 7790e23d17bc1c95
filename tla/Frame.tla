------------------------------- MODULE Frame -------------------------------
(***************************************************************************)
(* The twelve bytes of a packet on their way: packed by the sender, maybe  *)
(* damaged, checked and printed by the receiver, checked and decoded by the*)
(* server when they come by MQTT.                                          *)
(*                                                                         *)
(* Readings are integers as in the packet: hundredths of a degree and of a *)
(* percent, Pa and mV.  A byte is a number, a CRC the set of its bits: an  *)
(* exclusive or is a symmetric difference.  The server's division by 100   *)
(* and its change from Pa to mmHg are left out.                            *)
(***************************************************************************)
EXTENDS Integers, Sequences, FiniteSetsExt

CONSTANTS
  Measurements,  \* what the sensors may report
  BurstLength    \* a damage lies within so many bits

(* test_espnow_payload_t: int16, uint16, three bytes, uint16.              *)
Representable(r) ==
  /\ r \in [temperature : Int, humidity : Nat, pressure : Nat, voltage : Nat]
  /\ r.temperature >= -32768 /\ r.temperature < 32768
  /\ r.humidity < 65536 /\ r.pressure < 16777216 /\ r.voltage < 65536

(* A CRC of 16 bits is sure of no longer bursts than that.                 *)
ASSUME FrameAssumption ==
  /\ \A r \in Measurements : Representable(r)
  /\ BurstLength \in 1 .. 16

VARIABLES
  packed,    \* the reading that the sender packs
  frame,     \* the bytes, <<>> before they are packed
  damaged,   \* the frame was changed on its way
  printed,   \* what the receiver prints, <<>> for nothing
  packet     \* what the server decodes, <<>> for nothing

frameVars == <<packed, frame, damaged, printed, packet>>

START_FLAG == 126
PayloadSize == 9
FrameSize == 1 + PayloadSize + 2

-----------------------------------------------------------------------------
(* protocol.h, and the byte order of the processors.                       *)
Low(n) == n % 256
High(n) == (n \div 256) % 256
Uint16(b, i) == b[i] + 256 * b[i + 1]

pack_pressure(p) == <<p \div 65536, High(p), Low(p)>>
unpack_pressure(b, i) == 65536 * b[i] + 256 * b[i + 1] + b[i + 2]

(* The attribute "packed": the voltage starts at an odd byte.              *)
Payload(r) ==
  LET temperature == r.temperature % 65536
      pressure == pack_pressure(r.pressure)
  IN  <<Low(temperature), High(temperature), Low(r.humidity), High(r.humidity),
        pressure[1], pressure[2], pressure[3], Low(r.voltage), High(r.voltage)>>

(* crc16LE, bit by bit; the ROM's esp_crc16_le(UINT16_MAX, ...) is the same*)
Xor(a, b) == (a \ b) \cup (b \ a)
Weights == <<1, 2, 4, 8, 16, 32, 64, 128>>
Bits(byte) == {i \in 0 .. 7 : (byte \div Weights[i + 1]) % 2 = 1}
ByteOf(bits) ==
  LET Bit(i) == IF i \in bits THEN Weights[i + 1] ELSE 0
  IN  Bit(0) + Bit(1) + Bit(2) + Bit(3) + Bit(4) + Bit(5) + Bit(6) + Bit(7)

Polynomial_Forward == {0, 5, 12}
Polynomial == {15, 10, 3}   \* 0x8408

Shift(crc) ==
  LET shifted == {i - 1 : i \in crc \ {0}}
  IN  IF 0 \in crc THEN Xor(shifted, Polynomial) ELSE shifted

(* Each eighth shift has a byte taken in before.  The bound c makes TLC    *)
(* evaluate a register once and not at each of its uses.                   *)
Taken(crc, k, data) ==
  IF k % 8 = 1 THEN Xor(crc, Bits(data[1 + (k \div 8)])) ELSE crc

crc16LE(data) ==
  LET crc[k \in 0 .. 8 * Len(data)] ==
        IF k = 0 THEN {} ELSE UNION {Shift(Taken(c, k, data)) : c \in {crc[k - 1]}}
  IN  Xor(0 .. 15, crc[8 * Len(data)])

CrcBytes(crc) ==
  <<ByteOf(crc \cap 0 .. 7), ByteOf({i - 8 : i \in crc \cap 8 .. 15})>>

Framed(bytes) == <<START_FLAG>> \o bytes \o CrcBytes(crc16LE(bytes))

(* What both ends check: size, start flag and CRC.                         *)
PayloadOf(f) == SubSeq(f, 2, 1 + PayloadSize)

Checked_FlagOnly(f) == Len(f) = FrameSize /\ f[1] = START_FLAG
Checked(f) ==
  /\ Len(f) = FrameSize /\ f[1] = START_FLAG
  /\ SubSeq(f, 2 + PayloadSize, FrameSize) = CrcBytes(crc16LE(PayloadOf(f)))

Signed(n) == IF n >= 32768 THEN n - 65536 ELSE n

Fields(b) ==
  [temperature |-> Signed(Uint16(b, 1)), humidity |-> Uint16(b, 3),
   pressure |-> unpack_pressure(b, 5), voltage |-> Uint16(b, 8)]

(* parseMQTTPayload refuses a packet with a field out of its range.        *)
InRange(r) ==
  ~ \/ r.temperature < -5000 \/ r.temperature > 9000 \/ r.humidity > 10000
    \/ r.pressure < 30000 \/ r.pressure > 120000 \/ r.voltage > 5000

(* EncodeMQTTPacket returns no error.                                      *)
Decodable(f) == Checked(f) /\ InRange(Fields(PayloadOf(f)))

-----------------------------------------------------------------------------
FrameTypeOK ==
  /\ packed \in Measurements /\ damaged \in BOOLEAN
  /\ frame # <<>> => Len(frame) \in FrameSize - 1 .. FrameSize
                     /\ \A i \in DOMAIN frame : frame[i] \in 0 .. 255

FrameInit ==
  /\ packed \in Measurements
  /\ frame = <<>> /\ damaged = FALSE /\ printed = <<>> /\ packet = <<>>

Pack ==
  /\ frame = <<>>
  /\ frame' = Framed(Payload(packed))
  /\ UNCHANGED <<packed, damaged, printed, packet>>

(* A frame is cut, or a burst of bits is inverted: the first and the last  *)
(* one of it, and any between them.  Bits count from the lowest of byte 1. *)
BurstsAt(first) ==
  UNION { {inner \cup {first, last} : inner \in SUBSET (first + 1 .. last - 1)} :
            last \in {b \in first .. first + BurstLength - 1 : b < 8 * FrameSize} }

Inverted(f, burst) ==
  [i \in DOMAIN f |-> ByteOf(Xor(Bits(f[i]), {b \in 0 .. 7 : 8 * (i - 1) + b \in burst}))]

Damage ==
  /\ frame # <<>> /\ ~damaged /\ printed = <<>> /\ packet = <<>>
  /\ damaged' = TRUE
  /\ \/ frame' = SubSeq(frame, 1, FrameSize - 1)
     \/ \E first \in 0 .. 8 * FrameSize - 1 : \E burst \in BurstsAt(first) :
          frame' = Inverted(frame, burst)
  /\ UNCHANGED <<packed, printed, packet>>

(* data_parse of the receiver.                                             *)
Parse ==
  /\ frame # <<>> /\ printed = <<>>
  /\ Checked(frame) /\ printed' = Fields(PayloadOf(frame))
  /\ UNCHANGED <<packed, frame, damaged, packet>>

(* EncodeMQTTPacket of the server.                                         *)
Decode ==
  /\ frame # <<>> /\ packet = <<>>
  /\ Decodable(frame)
  /\ packet' = Fields(PayloadOf(frame))
  /\ UNCHANGED <<packed, frame, damaged, printed>>

FrameNext == Pack \/ Damage \/ Parse \/ Decode

FrameSpec == FrameInit /\ [][FrameNext]_frameVars

-----------------------------------------------------------------------------
(* What is printed and what is decoded are the sender's reading, signs and *)
(* high bytes included: no damage within BurstLength bits passes the CRC.  *)
NothingElseArrives == {printed, packet} \subseteq {packed, <<>>}

(* The server accepts an undamaged packet exactly when what was packed, and*)
(* not only what is unpacked, is within the ranges: -50..90 degrees, up to *)
(* 100 percent, 300..1200 hPa, up to 5 V.                                  *)
Plausible(r) ==
  /\ -5000 <= r.temperature /\ r.temperature <= 9000
  /\ 0 <= r.humidity /\ r.humidity <= 10000
  /\ 30000 <= r.pressure /\ r.pressure <= 120000 /\ 0 <= r.voltage /\ r.voltage <= 5000

DecodedIffInRange ==
  ~damaged => /\ packet # <<>> => Plausible(packed)
              /\ frame # <<>> => (Decodable(frame) <=> Plausible(packed))

(* A packet arrives as it was packed or not at all, and an undamaged one   *)
(* arrives unless it is out of range (packet.go:100-162, main.c:91-114).   *)
PacketsAreTrue == NothingElseArrives /\ DecodedIffInRange

(* A CRC by its definition: the remainder of the payload's polynomial, the *)
(* lowest bit of the first byte being its highest power, times x^16 by     *)
(* x^16 + x^12 + x^5 + 1.                                                  *)
Remainder(data) ==
  LET top == 8 * Len(data) + 15
      message == UNION {{top - (8 * (i - 1) + b) : b \in Bits(data[i])} : i \in DOMAIN data}
      Divide(r, d) == IF d \in r THEN Xor(r, {d, d - 4, d - 11, d - 16}) ELSE r
      rest[k \in 0 .. 8 * Len(data)] ==
        IF k = 0 THEN message ELSE UNION {Divide(r, top + 1 - k) : r \in {rest[k - 1]}}
  IN  rest[8 * Len(data)]

(* crc16LE is the complement of that remainder, mirrored, for each payload *)
(* that arrives (packet.go:164-179).                                       *)
CrcIsRemainder ==
  Len(frame) = FrameSize =>
    crc16LE(PayloadOf(frame)) = {i \in 0 .. 15 : 15 - i \notin Remainder(PayloadOf(frame))}
=============================================================================
