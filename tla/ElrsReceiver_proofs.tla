------------------------- MODULE ElrsReceiver_proofs -------------------------
(***************************************************************************)
(* Proofs about ElrsReceiver, for every content of the frames and every    *)
(* length a read may have: that the channels handed to the teleop node are *)
(* those the radio packed, type correctness, and that the reads drift into *)
(* step with the frames.                                                   *)
(***************************************************************************)
EXTENDS ElrsReceiver, TLAPS

(* Bit b of the packed channels is bit o of channel c.                     *)
LEMMA BitOfChannel ==
  ASSUME NEW f, NEW c \in Nat, NEW o \in 0..10, NEW b \in Nat, b = 11 * c + o
  PROVE  PackedBit(f, b) = Bit(f[c], o)
<1>1. b \div 11 = c /\ b % 11 = o
  BY SMT
<1> QED
  BY <1>1 DEF PackedBit

(* The bits of a value, as differences of its quotients.                   *)
LEMMA Bits ==
  ASSUME NEW n \in Value
  PROVE  /\ Bit(n, 0) = n - 2 * (n \div 2)
         /\ Bit(n, 1) = (n \div 2) - 2 * (n \div 4)
         /\ Bit(n, 2) = (n \div 4) - 2 * (n \div 8)
         /\ Bit(n, 3) = (n \div 8) - 2 * (n \div 16)
         /\ Bit(n, 4) = (n \div 16) - 2 * (n \div 32)
         /\ Bit(n, 5) = (n \div 32) - 2 * (n \div 64)
         /\ Bit(n, 6) = (n \div 64) - 2 * (n \div 128)
         /\ Bit(n, 7) = (n \div 128) - 2 * (n \div 256)
         /\ Bit(n, 8) = (n \div 256) - 2 * (n \div 512)
         /\ Bit(n, 9) = (n \div 512) - 2 * (n \div 1024)
         /\ Bit(n, 10) = n \div 1024
BY SMT DEF Bit, Value

(* Remainders, as differences of a value and its quotients.                *)
LEMMA Remainders ==
  ASSUME NEW n \in Value
  PROVE  /\ n % 2 = n - 2 * (n \div 2)
         /\ n % 4 = n - 4 * (n \div 4)
         /\ n % 8 = n - 8 * (n \div 8)
         /\ n % 16 = n - 16 * (n \div 16)
         /\ n % 32 = n - 32 * (n \div 32)
         /\ n % 64 = n - 64 * (n \div 64)
         /\ n % 128 = n - 128 * (n \div 128)
         /\ n % 256 = n - 256 * (n \div 256)
         /\ (n \div 2) % 256 = (n \div 2) - 256 * (n \div 512)
         /\ (n \div 4) % 256 = (n \div 4) - 256 * (n \div 1024)
BY SMT DEF Value

(* All of these are integers.                                              *)
LEMMA Quotients ==
  ASSUME NEW n \in Value
  PROVE  /\ n \in Int
         /\ n \div 2 \in Int
         /\ n \div 4 \in Int
         /\ n \div 8 \in Int
         /\ n \div 16 \in Int
         /\ n \div 32 \in Int
         /\ n \div 64 \in Int
         /\ n \div 128 \in Int
         /\ n \div 256 \in Int
         /\ n \div 512 \in Int
         /\ n \div 1024 \in Int
BY SMT DEF Value

(* Eight bits from bit o on of a value n and the value m behind it.        *)
BitOfTwo(n, m, b) == IF b < 11 THEN Bit(n, b) ELSE Bit(m, b - 11)
Slice(n, m, o) ==
  BitOfTwo(n, m, o) + 2 * BitOfTwo(n, m, o + 1) + 4 * BitOfTwo(n, m, o + 2)
    + 8 * BitOfTwo(n, m, o + 3) + 16 * BitOfTwo(n, m, o + 4)
    + 32 * BitOfTwo(n, m, o + 5) + 64 * BitOfTwo(n, m, o + 6)
    + 128 * BitOfTwo(n, m, o + 7)

(* A byte of the frame is a slice of the two channels it lies in.          *)
LEMMA ByteIsSlice ==
  ASSUME NEW f, NEW c \in Nat, NEW o \in 0..10, NEW j \in Nat, 8 * j = 11 * c + o
  PROVE  PackedByte(f, j) = Slice(f[c], f[c + 1], o)
<1>1. ASSUME NEW t \in 0..7
      PROVE  PackedBit(f, 8 * j + t) = BitOfTwo(f[c], f[c + 1], o + t)
  <2>1. CASE o + t < 11
    BY <2>1, BitOfChannel DEF BitOfTwo
  <2>2. CASE o + t >= 11
    <3>1. 8 * j + t = 11 * (c + 1) + (o + t - 11) /\ o + t - 11 \in 0..10
      BY <2>2
    <3>2. PackedBit(f, 8 * j + t) = Bit(f[c + 1], o + t - 11)
      BY <3>1, BitOfChannel
    <3> QED
      BY <2>2, <3>2 DEF BitOfTwo
  <2> QED
    BY <2>1, <2>2
<1>2. PackedBit(f, 8 * j) = BitOfTwo(f[c], f[c + 1], o)
  BY <1>1
<1> QED
  BY <1>1, <1>2 DEF PackedByte, Slice

(* The slices that the frame has, as quotients and remainders.             *)
LEMMA SliceIs ==
  ASSUME NEW n \in Value, NEW m \in Value
  PROVE  /\ Slice(n, m, 0) = n % 256
         /\ Slice(n, m, 1) = (n \div 2) % 256
         /\ Slice(n, m, 2) = (n \div 4) % 256
         /\ Slice(n, m, 3) = n \div 8
         /\ Slice(n, m, 4) = (n \div 16) + 128 * (m % 2)
         /\ Slice(n, m, 5) = (n \div 32) + 64 * (m % 4)
         /\ Slice(n, m, 6) = (n \div 64) + 32 * (m % 8)
         /\ Slice(n, m, 7) = (n \div 128) + 16 * (m % 16)
         /\ Slice(n, m, 8) = (n \div 256) + 8 * (m % 32)
         /\ Slice(n, m, 9) = (n \div 512) + 4 * (m % 64)
         /\ Slice(n, m, 10) = (n \div 1024) + 2 * (m % 128)
<1>1. Slice(n, m, 0) = n % 256
  BY Quotients, Bits, Remainders DEF Slice, BitOfTwo
<1>2. Slice(n, m, 1) = (n \div 2) % 256
  BY Quotients, Bits, Remainders DEF Slice, BitOfTwo
<1>3. Slice(n, m, 2) = (n \div 4) % 256
  <2>1. Bit(n, 2) + 2 * Bit(n, 3) + 4 * Bit(n, 4) + 8 * Bit(n, 5)
        = (n \div 4) - 16 * (n \div 64)
    BY Quotients, Bits
  <2>2. (n \div 4) % 256 = (n \div 4) - 256 * (n \div 1024)
    BY Remainders
  <2>3. Bit(n, 6) + 2 * Bit(n, 7) + 4 * Bit(n, 8) + 8 * Bit(n, 9)
        = (n \div 64) - 16 * (n \div 1024)
    BY Quotients, Bits
  <2>4. \A b \in 0..10 : Bit(n, b) \in Int
    BY Quotients, Bits
  <2>5. Slice(n, m, 2)
          = Bit(n, 2) + 2 * Bit(n, 3) + 4 * Bit(n, 4) + 8 * Bit(n, 5)
            + 16 * Bit(n, 6) + 32 * Bit(n, 7) + 64 * Bit(n, 8) + 128 * Bit(n, 9)
    BY DEF Slice, BitOfTwo
  <2> QED
    BY Quotients, <2>1, <2>2, <2>3, <2>4, <2>5
<1>4. Slice(n, m, 3) = n \div 8
  BY Quotients, Bits, Remainders DEF Slice, BitOfTwo
<1>5. Slice(n, m, 4) = (n \div 16) + 128 * (m % 2)
  BY Quotients, Bits, Remainders DEF Slice, BitOfTwo
<1>6. Slice(n, m, 5) = (n \div 32) + 64 * (m % 4)
  BY Quotients, Bits, Remainders DEF Slice, BitOfTwo
<1>7. Slice(n, m, 6) = (n \div 64) + 32 * (m % 8)
  BY Quotients, Bits, Remainders DEF Slice, BitOfTwo
<1>8. Slice(n, m, 7) = (n \div 128) + 16 * (m % 16)
  BY Quotients, Bits, Remainders DEF Slice, BitOfTwo
<1>9. Slice(n, m, 8) = (n \div 256) + 8 * (m % 32)
  BY Quotients, Bits, Remainders DEF Slice, BitOfTwo
<1>10. Slice(n, m, 9) = (n \div 512) + 4 * (m % 64)
  BY Quotients, Bits, Remainders DEF Slice, BitOfTwo
<1>11. Slice(n, m, 10) = (n \div 1024) + 2 * (m % 128)
  <2>1. Bit(m, 0) + 2 * Bit(m, 1) + 4 * Bit(m, 2) + 8 * Bit(m, 3)
          + 16 * Bit(m, 4) + 32 * Bit(m, 5) + 64 * Bit(m, 6) = m % 128
    BY Quotients, Bits, Remainders
  <2>2. Bit(n, 10) = n \div 1024 /\ m % 128 \in Int
    <3>1. m % 128 = m - 128 * (m \div 128) /\ m \in Int /\ m \div 128 \in Int
      BY Quotients, Remainders
    <3>2. m % 128 \in Int
      BY <3>1
    <3> QED
      BY Bits, <3>2
  <2>3. \A i \in 0..10 : Bit(m, i) \in Int
    BY Quotients, Bits
  <2>4. Slice(n, m, 10)
          = Bit(n, 10) + 2 * Bit(m, 0) + 4 * Bit(m, 1) + 8 * Bit(m, 2) + 16 * Bit(m, 3)
            + 32 * Bit(m, 4) + 64 * Bit(m, 5) + 128 * Bit(m, 6)
    BY DEF Slice, BitOfTwo
  <2> QED
    BY Quotients, <2>1, <2>2, <2>3, <2>4
<1> QED
  BY <1>1, <1>2, <1>3, <1>4, <1>5, <1>6, <1>7, <1>8, <1>9, <1>10, <1>11

(* Shifted together again, the pieces of a channel n between the channels  *)
(* p before and x behind it are the channel.                               *)
LEMMA Rejoined ==
  ASSUME NEW p \in Value, NEW n \in Value, NEW x \in Value
  PROVE  /\ ((n % 256) + 256 * ((n \div 256) + 8 * (x % 32))) % 2048 = n
         /\ ((((p \div 256) + 8 * (n % 32)) \div 8) + 32 * ((n \div 32) + 64 * (x % 4))) % 2048
                = n
         /\ ((((p \div 32) + 64 * (n % 4)) \div 64) + 4 * ((n \div 4) % 256)
              + 1024 * ((n \div 1024) + 2 * (x % 128))) % 2048 = n
         /\ ((((p \div 1024) + 2 * (n % 128)) \div 2) + 128 * ((n \div 128) + 16 * (x % 16))) % 2048
                = n
         /\ ((((p \div 128) + 16 * (n % 16)) \div 16) + 16 * ((n \div 16) + 128 * (x % 2))) % 2048
                = n
         /\ ((((p \div 16) + 128 * (n % 2)) \div 128) + 2 * ((n \div 2) % 256)
              + 512 * ((n \div 512) + 4 * (x % 64))) % 2048 = n
         /\ ((((p \div 512) + 4 * (n % 64)) \div 4) + 64 * ((n \div 64) + 32 * (x % 8))) % 2048
                = n
         /\ ((((p \div 64) + 32 * (n % 8)) \div 32) + 8 * (n \div 8)) % 2048 = n
<1>1. ((n % 256) + 256 * ((n \div 256) + 8 * (x % 32))) % 2048 = n
  BY SMT DEF Value
<1>2. ((((p \div 256) + 8 * (n % 32)) \div 8) + 32 * ((n \div 32) + 64 * (x % 4))) % 2048
          = n
  BY SMT DEF Value
<1>3. ((((p \div 32) + 64 * (n % 4)) \div 64) + 4 * ((n \div 4) % 256)
              + 1024 * ((n \div 1024) + 2 * (x % 128))) % 2048 = n
  BY SMT DEF Value
<1>4. ((((p \div 1024) + 2 * (n % 128)) \div 2) + 128 * ((n \div 128) + 16 * (x % 16))) % 2048
          = n
  BY SMT DEF Value
<1>5. ((((p \div 128) + 16 * (n % 16)) \div 16) + 16 * ((n \div 16) + 128 * (x % 2))) % 2048
          = n
  BY SMT DEF Value
<1>6. ((((p \div 16) + 128 * (n % 2)) \div 128) + 2 * ((n \div 2) % 256)
              + 512 * ((n \div 512) + 4 * (x % 64))) % 2048 = n
  BY SMT DEF Value
<1>7. ((((p \div 512) + 4 * (n % 64)) \div 4) + 64 * ((n \div 64) + 32 * (x % 8))) % 2048
          = n
  BY SMT DEF Value
<1>8. ((((p \div 64) + 32 * (n % 8)) \div 32) + 8 * (n \div 8)) % 2048 = n
  BY SMT DEF Value
<1> QED
  BY <1>1, <1>2, <1>3, <1>4, <1>5, <1>6, <1>7, <1>8

(* Eleven bytes carry eight channels.                                      *)
LEMMA BytesOfFrame ==
  ASSUME NEW f \in [Channel -> Value], NEW q \in 0..1
  PROVE  /\ PackedByte(f, 11 * q) = f[8 * q] % 256
         /\ PackedByte(f, 11 * q + 1) = (f[8 * q] \div 256) + 8 * (f[8 * q + 1] % 32)
         /\ PackedByte(f, 11 * q + 2) = (f[8 * q + 1] \div 32) + 64 * (f[8 * q + 2] % 4)
         /\ PackedByte(f, 11 * q + 3) = (f[8 * q + 2] \div 4) % 256
         /\ PackedByte(f, 11 * q + 4)
                = (f[8 * q + 2] \div 1024) + 2 * (f[8 * q + 3] % 128)
         /\ PackedByte(f, 11 * q + 5)
                = (f[8 * q + 3] \div 128) + 16 * (f[8 * q + 4] % 16)
         /\ PackedByte(f, 11 * q + 6)
                = (f[8 * q + 4] \div 16) + 128 * (f[8 * q + 5] % 2)
         /\ PackedByte(f, 11 * q + 7) = (f[8 * q + 5] \div 2) % 256
         /\ PackedByte(f, 11 * q + 8)
                = (f[8 * q + 5] \div 512) + 4 * (f[8 * q + 6] % 64)
         /\ PackedByte(f, 11 * q + 9) = (f[8 * q + 6] \div 64) + 32 * (f[8 * q + 7] % 8)
         /\ q = 0 => PackedByte(f, 10) = f[7] \div 8
<1>1. \A k \in 0..7 : f[8 * q + k] \in Value
  BY DEF Channel
<1>2. ASSUME NEW k \in 0..6, NEW o \in 0..10, NEW m \in 0..10, 8 * m = 11 * k + o
      PROVE  PackedByte(f, 11 * q + m) = Slice(f[8 * q + k], f[8 * q + k + 1], o)
  BY <1>2, ByteIsSlice, 8 * (11 * q + m) = 11 * (8 * q + k) + o
<1>3. PackedByte(f, 11 * q) = f[8 * q] % 256
  BY <1>1, <1>2, SliceIs
<1>4. PackedByte(f, 11 * q + 1) = (f[8 * q] \div 256) + 8 * (f[8 * q + 1] % 32)
  BY <1>1, <1>2, SliceIs
<1>5. PackedByte(f, 11 * q + 2) = (f[8 * q + 1] \div 32) + 64 * (f[8 * q + 2] % 4)
  BY <1>1, <1>2, SliceIs
<1>6. PackedByte(f, 11 * q + 3) = (f[8 * q + 2] \div 4) % 256
  BY <1>1, <1>2, SliceIs
<1>7. PackedByte(f, 11 * q + 4) = (f[8 * q + 2] \div 1024) + 2 * (f[8 * q + 3] % 128)
  BY <1>1, <1>2, SliceIs
<1>8. PackedByte(f, 11 * q + 5) = (f[8 * q + 3] \div 128) + 16 * (f[8 * q + 4] % 16)
  BY <1>1, <1>2, SliceIs
<1>9. PackedByte(f, 11 * q + 6) = (f[8 * q + 4] \div 16) + 128 * (f[8 * q + 5] % 2)
  BY <1>1, <1>2, SliceIs
<1>10. PackedByte(f, 11 * q + 7) = (f[8 * q + 5] \div 2) % 256
  BY <1>1, <1>2, SliceIs
<1>11. PackedByte(f, 11 * q + 8) = (f[8 * q + 5] \div 512) + 4 * (f[8 * q + 6] % 64)
  BY <1>1, <1>2, SliceIs
<1>12. PackedByte(f, 11 * q + 9) = (f[8 * q + 6] \div 64) + 32 * (f[8 * q + 7] % 8)
  BY <1>1, <1>2, SliceIs
<1>13. ASSUME q = 0 PROVE PackedByte(f, 10) = f[7] \div 8
  <2>1. f[7] \in Value /\ f[8] \in Value
    BY DEF Channel
  <2>2. PackedByte(f, 10) = Slice(f[7], f[8], 3)
    BY ByteIsSlice
  <2> QED
    BY <2>1, <2>2, SliceIs
<1> QED
  BY <1>3, <1>4, <1>5, <1>6, <1>7, <1>8, <1>9, <1>10, <1>11, <1>12, <1>13

(* What readPacket leaves of the frame: all of it but the byte at 24.      *)
LEMMA BytesInBuffer ==
  ASSUME NEW f \in Frames
  PROVE  /\ \A i \in 3..23 : InBuffer(f)[i] = PackedByte(f, i - 3)
         /\ InBuffer(f)[24] = Crc[f]
BY DEF InBuffer, Packet

(* The bytes of the first fifteen channels are numbers.                    *)
LEMMA PackedByteType ==
  ASSUME NEW f \in [Channel -> Value], NEW j \in 0..20
  PROVE  PackedByte(f, j) \in Int
<1>1. \A b \in 0..167 : PackedBit(f, b) \in Int
  <2> SUFFICES ASSUME NEW b \in 0..167 PROVE PackedBit(f, b) \in Int
    OBVIOUS
  <2>1. b \div 11 \in Channel /\ b % 11 \in 0..10
    BY SMT DEF Channel
  <2>2. Bit(f[b \div 11], b % 11) \in Int
    BY <2>1, Quotients, Bits
  <2> QED
    BY <2>2 DEF PackedBit
<1> QED
  BY <1>1 DEF PackedByte

(* updateChannels repeats itself after eight channels and eleven bytes.    *)
LEMMA Layout ==
  ASSUME NEW q \in 0..1, NEW k \in 0..7
  PROVE  /\ FirstByte[8 * q + k + 1] = 11 * q + FirstByte[k + 1]
         /\ Shift[8 * q + k + 1] = Shift[k + 1]
BY DEF FirstByte, Shift

(* updateChannels with its table of first bytes and shifts written out.    *)
LEMMA UnpackIs ==
  ASSUME NEW d, \A i \in 3..24 : d[i] \in Int, NEW q \in 0..1
  PROVE  /\ Unpack(d, 8 * q) = (d[11 * q + 3] + 256 * d[11 * q + 4]) % 2048
         /\ Unpack(d, 8 * q + 1) = ((d[11 * q + 4] \div 8) + 32 * d[11 * q + 5]) % 2048
         /\ Unpack(d, 8 * q + 2)
                = ((d[11 * q + 5] \div 64) + 4 * d[11 * q + 6] + 1024 * d[11 * q + 7]) % 2048
         /\ Unpack(d, 8 * q + 3) = ((d[11 * q + 7] \div 2) + 128 * d[11 * q + 8]) % 2048
         /\ Unpack(d, 8 * q + 4) = ((d[11 * q + 8] \div 16) + 16 * d[11 * q + 9]) % 2048
         /\ Unpack(d, 8 * q + 5)
                = ((d[11 * q + 9] \div 128) + 2 * d[11 * q + 10] + 512 * d[11 * q + 11]) % 2048
         /\ Unpack(d, 8 * q + 6)
                = ((d[11 * q + 11] \div 4) + 64 * d[11 * q + 12]) % 2048
         /\ Unpack(d, 8 * q + 7)
                = ((d[11 * q + 12] \div 32) + 8 * d[11 * q + 13]) % 2048
<1>1. Unpack(d, 8 * q) = (d[11 * q + 3] + 256 * d[11 * q + 4]) % 2048
  <2>1. FirstByte[8 * q + 1] = 11 * q + 3 /\ Shift[8 * q + 1] = 0
    BY Layout DEF FirstByte, Shift
  <2> QED
    BY <2>1 DEF Unpack
<1>2. Unpack(d, 8 * q + 1) = ((d[11 * q + 4] \div 8) + 32 * d[11 * q + 5]) % 2048
  <2>1. FirstByte[8 * q + 1 + 1] = 11 * q + 4 /\ Shift[8 * q + 1 + 1] = 3
    BY Layout DEF FirstByte, Shift
  <2> QED
    BY <2>1 DEF Unpack
<1>3. Unpack(d, 8 * q + 2)
          = ((d[11 * q + 5] \div 64) + 4 * d[11 * q + 6] + 1024 * d[11 * q + 7]) % 2048
  <2>1. FirstByte[8 * q + 2 + 1] = 11 * q + 5 /\ Shift[8 * q + 2 + 1] = 6
    BY Layout DEF FirstByte, Shift
  <2> QED
    BY <2>1 DEF Unpack
<1>4. Unpack(d, 8 * q + 3) = ((d[11 * q + 7] \div 2) + 128 * d[11 * q + 8]) % 2048
  <2>1. FirstByte[8 * q + 3 + 1] = 11 * q + 7 /\ Shift[8 * q + 3 + 1] = 1
    BY Layout DEF FirstByte, Shift
  <2> QED
    BY <2>1 DEF Unpack
<1>5. Unpack(d, 8 * q + 4) = ((d[11 * q + 8] \div 16) + 16 * d[11 * q + 9]) % 2048
  <2>1. FirstByte[8 * q + 4 + 1] = 11 * q + 8 /\ Shift[8 * q + 4 + 1] = 4
    BY Layout DEF FirstByte, Shift
  <2> QED
    BY <2>1 DEF Unpack
<1>6. Unpack(d, 8 * q + 5)
          = ((d[11 * q + 9] \div 128) + 2 * d[11 * q + 10] + 512 * d[11 * q + 11]) % 2048
  <2>1. FirstByte[8 * q + 5 + 1] = 11 * q + 9 /\ Shift[8 * q + 5 + 1] = 7
    BY Layout DEF FirstByte, Shift
  <2> QED
    BY <2>1 DEF Unpack
<1>7. Unpack(d, 8 * q + 6) = ((d[11 * q + 11] \div 4) + 64 * d[11 * q + 12]) % 2048
  <2>1. FirstByte[8 * q + 6 + 1] = 11 * q + 11 /\ Shift[8 * q + 6 + 1] = 2
    BY Layout DEF FirstByte, Shift
  <2> QED
    BY <2>1 DEF Unpack
<1>8. Unpack(d, 8 * q + 7) = ((d[11 * q + 12] \div 32) + 8 * d[11 * q + 13]) % 2048
  <2>1. FirstByte[8 * q + 7 + 1] = 11 * q + 12 /\ Shift[8 * q + 7 + 1] = 5
    BY Layout DEF FirstByte, Shift
  <2> QED
    BY <2>1 DEF Unpack
<1> QED
  BY <1>1, <1>2, <1>3, <1>4, <1>5, <1>6, <1>7, <1>8

(* What updateChannels makes of the frame in the buffer is what the radio  *)
(* packed into it, for the first fifteen channels and for any values.      *)
LEMMA ChannelUnpacked ==
  ASSUME NEW f \in Frames, NEW c \in 0..14
  PROVE  Unpack(InBuffer(f), c) = f[c]
<1>1. f \in [Channel -> Value]
  BY ElrsAssumption
<1>2. PICK q \in 0..1, k \in 0..7 : c = 8 * q + k
  <2>1. c = 8 * (c \div 8) + (c % 8) /\ c \div 8 \in 0..1 /\ c % 8 \in 0..7
    BY SMT
  <2> QED
    BY <2>1
<1>3. \A i \in 0..15 : f[i] \in Value
  BY <1>1 DEF Channel
<1> DEFINE d == InBuffer(f)
<1>4. /\ \A i \in 3..24 : d[i] \in Int
      /\ \A i \in 3..23 : d[i] = PackedByte(f, i - 3)
  BY <1>1, BytesInBuffer, PackedByteType, ElrsAssumption
<1> SUFFICES Unpack(d, c) = f[c]
  OBVIOUS
<1> HIDE DEF d
<1>5. CASE k = 0
  <2> DEFINE n == f[8 * q]  x == f[8 * q + 1]
  <2>1. d[11 * q + 3] = (n % 256)
    BY <1>1, <1>4, BytesOfFrame
  <2>2. d[11 * q + 4] = ((n \div 256) + 8 * (x % 32))
    BY <1>1, <1>2, <1>4, <1>5, BytesOfFrame
  <2>3. n \in Value /\ x \in Value
    BY <1>2, <1>3, <1>5
  <2>4. ((n % 256) + 256 * ((n \div 256) + 8 * (x % 32))) % 2048 = n
    BY <2>3, Rejoined
  <2>5. c = 8 * q /\ Unpack(d, 8 * q) = (d[11 * q + 3] + 256 * d[11 * q + 4]) % 2048
    BY <1>2, <1>4, <1>5, UnpackIs
  <2> QED
    BY <2>1, <2>2, <2>4, <2>5
<1>6. CASE k = 1
  <2> DEFINE p == f[8 * q]  n == f[8 * q + 1]  x == f[8 * q + 2]
  <2>1. d[11 * q + 4] = ((p \div 256) + 8 * (n % 32))
    BY <1>1, <1>4, BytesOfFrame
  <2>2. d[11 * q + 5] = ((n \div 32) + 64 * (x % 4))
    BY <1>1, <1>2, <1>4, <1>6, BytesOfFrame
  <2>3. p \in Value /\ n \in Value /\ x \in Value
    BY <1>2, <1>3, <1>6
  <2>4. ((((p \div 256) + 8 * (n % 32)) \div 8) + 32 * ((n \div 32) + 64 * (x % 4))) % 2048
            = n
    BY <2>3, Rejoined
  <2>5. /\ c = 8 * q + 1
        /\ Unpack(d, 8 * q + 1) = ((d[11 * q + 4] \div 8) + 32 * d[11 * q + 5]) % 2048
    BY <1>2, <1>4, <1>6, UnpackIs
  <2> QED
    BY <2>1, <2>2, <2>4, <2>5
<1>7. CASE k = 2
  <2> DEFINE p == f[8 * q + 1]  n == f[8 * q + 2]  x == f[8 * q + 3]
  <2>1. d[11 * q + 5] = ((p \div 32) + 64 * (n % 4))
    BY <1>1, <1>4, BytesOfFrame
  <2>2. d[11 * q + 6] = ((n \div 4) % 256)
    BY <1>1, <1>2, <1>4, <1>7, BytesOfFrame
  <2>3. d[11 * q + 7] = ((n \div 1024) + 2 * (x % 128))
    BY <1>1, <1>2, <1>4, <1>7, BytesOfFrame
  <2>4. p \in Value /\ n \in Value /\ x \in Value
    BY <1>2, <1>3, <1>7
  <2>5. ((((p \div 32) + 64 * (n % 4)) \div 64) + 4 * ((n \div 4) % 256)
            + 1024 * ((n \div 1024) + 2 * (x % 128))) % 2048 = n
    BY <2>4, Rejoined
  <2>6. /\ c = 8 * q + 2
        /\ Unpack(d, 8 * q + 2)
               = ((d[11 * q + 5] \div 64) + 4 * d[11 * q + 6] + 1024 * d[11 * q + 7]) % 2048
    BY <1>2, <1>4, <1>7, UnpackIs
  <2> QED
    BY <2>1, <2>2, <2>3, <2>5, <2>6
<1>8. CASE k = 3
  <2> DEFINE p == f[8 * q + 2]  n == f[8 * q + 3]  x == f[8 * q + 4]
  <2>1. d[11 * q + 7] = ((p \div 1024) + 2 * (n % 128))
    BY <1>1, <1>4, BytesOfFrame
  <2>2. d[11 * q + 8] = ((n \div 128) + 16 * (x % 16))
    BY <1>1, <1>2, <1>4, <1>8, BytesOfFrame
  <2>3. p \in Value /\ n \in Value /\ x \in Value
    BY <1>2, <1>3, <1>8
  <2>4. ((((p \div 1024) + 2 * (n % 128)) \div 2) + 128 * ((n \div 128) + 16 * (x % 16))) % 2048
            = n
    BY <2>3, Rejoined
  <2>5. /\ c = 8 * q + 3
        /\ Unpack(d, 8 * q + 3) = ((d[11 * q + 7] \div 2) + 128 * d[11 * q + 8]) % 2048
    BY <1>2, <1>4, <1>8, UnpackIs
  <2> QED
    BY <2>1, <2>2, <2>4, <2>5
<1>9. CASE k = 4
  <2> DEFINE p == f[8 * q + 3]  n == f[8 * q + 4]  x == f[8 * q + 5]
  <2>1. d[11 * q + 8] = ((p \div 128) + 16 * (n % 16))
    BY <1>1, <1>4, BytesOfFrame
  <2>2. d[11 * q + 9] = ((n \div 16) + 128 * (x % 2))
    BY <1>1, <1>2, <1>4, <1>9, BytesOfFrame
  <2>3. p \in Value /\ n \in Value /\ x \in Value
    BY <1>2, <1>3, <1>9
  <2>4. ((((p \div 128) + 16 * (n % 16)) \div 16) + 16 * ((n \div 16) + 128 * (x % 2))) % 2048
            = n
    BY <2>3, Rejoined
  <2>5. /\ c = 8 * q + 4
        /\ Unpack(d, 8 * q + 4) = ((d[11 * q + 8] \div 16) + 16 * d[11 * q + 9]) % 2048
    BY <1>2, <1>4, <1>9, UnpackIs
  <2> QED
    BY <2>1, <2>2, <2>4, <2>5
<1>10. CASE k = 5
  <2> DEFINE p == f[8 * q + 4]  n == f[8 * q + 5]  x == f[8 * q + 6]
  <2>1. d[11 * q + 9] = ((p \div 16) + 128 * (n % 2))
    BY <1>1, <1>4, BytesOfFrame
  <2>2. d[11 * q + 10] = ((n \div 2) % 256)
    BY <1>1, <1>2, <1>4, <1>10, BytesOfFrame
  <2>3. d[11 * q + 11] = ((n \div 512) + 4 * (x % 64))
    BY <1>1, <1>2, <1>4, <1>10, BytesOfFrame
  <2>4. p \in Value /\ n \in Value /\ x \in Value
    BY <1>2, <1>3, <1>10
  <2>5. ((((p \div 16) + 128 * (n % 2)) \div 128) + 2 * ((n \div 2) % 256)
            + 512 * ((n \div 512) + 4 * (x % 64))) % 2048 = n
    BY <2>4, Rejoined
  <2>6. /\ c = 8 * q + 5
        /\ Unpack(d, 8 * q + 5)
               = ((d[11 * q + 9] \div 128) + 2 * d[11 * q + 10] + 512 * d[11 * q + 11]) % 2048
    BY <1>2, <1>4, <1>10, UnpackIs
  <2> QED
    BY <2>1, <2>2, <2>3, <2>5, <2>6
<1>11. CASE k = 6
  <2> DEFINE p == f[8 * q + 5]  n == f[8 * q + 6]  x == f[8 * q + 7]
  <2>1. d[11 * q + 11] = ((p \div 512) + 4 * (n % 64))
    BY <1>1, <1>4, BytesOfFrame
  <2>2. d[11 * q + 12] = ((n \div 64) + 32 * (x % 8))
    BY <1>1, <1>2, <1>4, <1>11, BytesOfFrame
  <2>3. p \in Value /\ n \in Value /\ x \in Value
    BY <1>2, <1>3, <1>11
  <2>4. ((((p \div 512) + 4 * (n % 64)) \div 4) + 64 * ((n \div 64) + 32 * (x % 8))) % 2048
            = n
    BY <2>3, Rejoined
  <2>5. /\ c = 8 * q + 6
        /\ Unpack(d, 8 * q + 6) = ((d[11 * q + 11] \div 4) + 64 * d[11 * q + 12]) % 2048
    BY <1>2, <1>4, <1>11, UnpackIs
  <2> QED
    BY <2>1, <2>2, <2>4, <2>5
<1>12. CASE k = 7
  <2> DEFINE p == f[8 * q + 6]  n == f[8 * q + 7]
  <2>1. d[11 * q + 12] = ((p \div 64) + 32 * (n % 8))
    BY <1>1, <1>4, BytesOfFrame
  <2>2. d[11 * q + 13] = (n \div 8)
    BY <1>1, <1>2, <1>4, <1>12, BytesOfFrame
  <2>3. p \in Value /\ n \in Value
    BY <1>2, <1>3, <1>12
  <2>4. ((((p \div 64) + 32 * (n % 8)) \div 32) + 8 * (n \div 8)) % 2048 = n
    BY <2>3, Rejoined
  <2>5. /\ c = 8 * q + 7
        /\ Unpack(d, 8 * q + 7) = ((d[11 * q + 12] \div 32) + 8 * d[11 * q + 13]) % 2048
    BY <1>2, <1>4, <1>12, UnpackIs
  <2> QED
    BY <2>1, <2>2, <2>4, <2>5
<1> QED
  BY <1>2, <1>5, <1>6, <1>7, <1>8, <1>9, <1>10, <1>11, <1>12
-----------------------------------------------------------------------------
(* Whatever the frame and its checksum, a channel is a value of 11 bits;   *)
(* in the last one there are bits of the checksum instead of its own.      *)
LEMMA UnpackType ==
  ASSUME NEW f \in Frames, NEW c \in Channel
  PROVE  Unpack(InBuffer(f), c) \in Value
<1>1. f \in [Channel -> Value]
  BY ElrsAssumption
<1>2. CASE c \in 0..14
  BY <1>1, <1>2, ChannelUnpacked DEF Channel
<1>3. CASE c = 15
  <2> DEFINE d == InBuffer(f)
  <2>1. \A i \in 3..24 : d[i] \in Int
    BY <1>1, BytesInBuffer, PackedByteType, ElrsAssumption
  <2> HIDE DEF d
  <2>2. Unpack(d, 8 * 1 + 7) = ((d[11 * 1 + 12] \div 32) + 8 * d[11 * 1 + 13]) % 2048
    BY <2>1, UnpackIs
  <2>3. Unpack(d, 15) = ((d[23] \div 32) + 8 * d[24]) % 2048
    BY <2>2
  <2>4. (d[23] \div 32) + 8 * d[24] \in Int
    BY <2>1
  <2> QED
    BY <1>3, <2>3, <2>4 DEF d, Value
<1> QED
  BY <1>2, <1>3 DEF Channel

(* What the callback is handed for a frame.                                *)
LEMMA ChannelsOfFrame ==
  ASSUME NEW f \in Frames
  PROVE  /\ ChannelsOf[f] \in [Channel -> Value]
         /\ \A c \in 0..14 : ChannelsOf[f][c] = f[c]
<1>1. ChannelsOf[f] = [c \in Channel |-> Unpack(InBuffer(f), c)]
  BY DEF ChannelsOf
<1> QED
  BY <1>1, UnpackType, ChannelUnpacked DEF Channel

(* Before the first frame all channels are zero.                           *)
LEMMA InitOK == Init => TypeOK /\ ChannelsAsSent
<1> SUFFICES ASSUME Init PROVE TypeOK /\ ChannelsAsSent
  OBVIOUS
<1>1. Zero \in [Channel -> Value]
  BY DEF Zero, Value
<1> QED
  BY <1>1, ElrsAssumption DEF Init, TypeOK, ChannelsAsSent, StatusId, PacketSize

(* Every step keeps the types: a read finds no more frames than it has     *)
(* bytes, and what a frame becomes is sixteen values.                      *)
LEMMA TypeStep == TypeOK /\ [Next]_vars => TypeOK'
<1> SUFFICES ASSUME TypeOK, [Next]_vars PROVE TypeOK'
  OBVIOUS
<1> USE DEF status
<1>1. CASE Wake \/ Done
  BY <1>1 DEF Wake, Done, TypeOK
<1>2. CASE Read
  <2>1. PICK n \in MinRead..MaxRead : left' = Whole(n) /\ rest' = RestAfter(n)
    BY <1>2 DEF Read
  <2>2. n \in Nat /\ n >= 30 /\ n <= MaxRead /\ rest \in 0..25
    BY <2>1, ElrsAssumption DEF MinRead, TypeOK, PacketSize
  <2>3. left' \in 0..MaxRead
    BY <2>1, <2>2, ElrsAssumption DEF Whole, PacketSize
  <2>4. rest' \in 0..PacketSize - 1
    BY <2>1, <2>2 DEF RestAfter, PacketSize
  <2> QED
    BY <1>2, <2>3, <2>4 DEF Read, TypeOK
<1>3. CASE Deliver
  <2>1. PICK f \in Frames : channels' = ChannelsOf[f] /\ shown' = f
    BY <1>3 DEF Deliver
  <2>2. channels' \in [Channel -> Value] /\ shown' \in [Channel -> Value]
    BY <2>1, ChannelsOfFrame, ElrsAssumption
  <2> QED
    BY <1>3, <2>2, ElrsAssumption DEF Deliver, SetTransferBackData, TypeOK
<1>4. CASE TransferBack \/ TransferFails
  <2>1. id' \in 1..3 /\ told' \in Statuses
    BY <1>4 DEF TransferBack, TransferFails, IdAfter, TypeOK
  <2> QED
    BY <1>4, <2>1 DEF TransferBack, TransferFails, TypeOK
<1>5. CASE Slip
  <2>1. rest' \in 0..PacketSize - 1 /\ slips' \in 0..MaxSlips
    BY <1>5, ElrsAssumption DEF Slip, TypeOK
  <2> QED
    BY <1>5, <2>1 DEF Slip, TypeOK
<1>6. CASE Reject
  <2>1. left' \in 0..MaxRead
    BY <1>6, ElrsAssumption DEF Reject, TypeOK
  <2> QED
    BY <1>6, <2>1 DEF Reject, TypeOK
<1>7. CASE ReadShort
  <2>1. PICK n \in 0..MinRead - 1 :
          left' = (IF n >= PacketSize THEN Whole(n) ELSE 0) /\ rest' = RestAfter(n)
    BY <1>7 DEF ReadShort
  <2>2. n \in 0..29 /\ rest \in 0..25 /\ MaxRead >= 30 /\ MaxRead \in Nat
    BY <2>1, ElrsAssumption DEF MinRead, TypeOK, PacketSize
  <2>3. n >= 26 => (n - rest) \div 26 \in 0..1
    BY <2>2
  <2>4. left' \in 0..MaxRead
    BY <2>1, <2>2, <2>3 DEF Whole, PacketSize
  <2>5. rest' \in 0..PacketSize - 1
    BY <2>1, <2>2 DEF RestAfter, PacketSize
  <2>6. slips' \in 0..MaxSlips
    BY <1>7, ElrsAssumption DEF ReadShort, TypeOK
  <2> QED
    BY <1>7, <2>4, <2>5, <2>6 DEF ReadShort, TypeOK
<1>8. CASE UNCHANGED vars
  BY <1>8 DEF vars, TypeOK
<1> QED
  BY <1>1, <1>2, <1>3, <1>4, <1>5, <1>6, <1>7, <1>8 DEF Next

(* Every variable keeps its type, whatever is read.                        *)
THEOREM TypeCorrect == Spec => []TypeOK
BY InitOK, TypeStep, PTL DEF Spec

(* updateChannels hands the first fifteen channels of every frame, for any *)
(* of the 2048 values of each, to the callback as the radio packed them:   *)
(* the sixteen first bytes and shifts fit the layout of the frame, and the *)
(* checksum that readPacket writes into the buffer disturbs none of them.  *)
THEOREM ChannelsAlwaysAsSent == Spec => []ChannelsAsSent
<1>1. ChannelsAsSent /\ [Next]_vars => ChannelsAsSent'
  <2> SUFFICES ASSUME ChannelsAsSent, [Next]_vars PROVE ChannelsAsSent'
    OBVIOUS
  <2>1. CASE Deliver
    <3>1. PICK f \in Frames : channels' = ChannelsOf[f] /\ shown' = f
      BY <2>1 DEF Deliver
    <3> QED
      BY <3>1, ChannelsOfFrame DEF ChannelsAsSent
  <2>2. CASE UNCHANGED <<channels, shown>>
    BY <2>2 DEF ChannelsAsSent
  <2> QED
    BY <2>1, <2>2
    DEF Next, Wake, Read, ReadShort, Reject, Done, Slip, TransferBack, TransferFails, vars
<1> QED
  BY <1>1, InitOK, PTL DEF Spec
-----------------------------------------------------------------------------
(* A read of n bytes with no whole frame leaves less of a cut frame.       *)
LEMMA VainReadShrinks ==
  ASSUME NEW r \in 0..25, NEW n \in Nat, n >= 30, (n - r) \div 26 = 0
  PROVE  ((r - n) % 26) + 4 <= r
<1>1. n - r \in Nat /\ n - r < 26  BY SMT
<1>2. r - n = 26 * (-1) + (26 - (n - r)) /\ 26 - (n - r) \in 0..25  BY <1>1
<1>3. (r - n) % 26 = 26 - (n - r)  BY <1>1, <1>2, SMT
<1> QED  BY <1>1, <1>3

(* Whatever the lengths of the reads, one without a whole frame leaves at  *)
(* least four bytes less of a cut frame behind (setSerialOpt's VMIN of 30  *)
(* against the packet of 26), so that at most six in a row are in vain.    *)
THEOREM ReadsAlwaysConverge == Spec => ReadsConverge
<1>1. TypeOK /\ [Next]_vars => [Read /\ left' = 0 => rest' + 4 <= rest]_vars
  <2> SUFFICES ASSUME TypeOK, Read, left' = 0 PROVE rest' + 4 <= rest  OBVIOUS
  <2>1. PICK n \in MinRead..MaxRead :
          (n - rest) \div PacketSize = 0 /\ rest' = (rest - n) % PacketSize
    BY DEF Read, Whole, RestAfter
  <2>2. rest \in 0..25 /\ n \in Nat /\ n >= 30
    BY <2>1, ElrsAssumption DEF TypeOK, PacketSize, MinRead
  <2>3. ((rest - n) % 26) + 4 <= rest
    BY <2>1, <2>2, VainReadShrinks DEF PacketSize
  <2> QED  BY <2>1, <2>3 DEF PacketSize
<1> QED  BY <1>1, TypeCorrect, PTL DEF Spec, ReadsConverge
=============================================================================
