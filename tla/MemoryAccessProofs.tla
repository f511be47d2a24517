------------------------- MODULE MemoryAccessProofs -------------------------
(* Arithmetic of the byte layout, for every byte width: every value built is *)
(* in range, and a little-endian write and read are inverse to each other.   *)
EXTENDS MemoryAccess, TLAPS

LEMMA PlaceType ==
  /\ Place(0) = 1 /\ Place(1) = ByteBase
  /\ \A k \in 0 .. 4 : Place(k) \in Nat /\ Place(k) > 0
  /\ \A k \in 0 .. 3 : Place(k + 1) = Place(k) * ByteBase /\ Place(k + 1) >= Place(k)
<1>1. ByteBase \in Nat /\ ByteBase >= 2
  BY ByteBaseAssumption
<1>2. \A x \in Nat : x * ByteBase \in Nat /\ x * ByteBase >= x /\ (x > 0 => x * ByteBase > 0)
  BY <1>1
<1>3. Place(0) = 1 /\ Place(1) = Place(0) * ByteBase /\ Place(1) = ByteBase
  BY <1>1 DEF Place
<1>4. Place(2) = Place(1) * ByteBase /\ Place(3) = Place(2) * ByteBase
  BY <1>1 DEF Place
<1>5. Place(4) = Place(3) * ByteBase
  BY <1>1 DEF Place
<1> QED  BY <1>1, <1>2, <1>3, <1>4, <1>5

LEMMA ByteOfType ==
  ASSUME NEW v \in Nat, NEW k \in 0 .. 4
  PROVE  ByteOf(v, k) \in Byte
<1>1. Place(k) \in Nat /\ Place(k) > 0
  BY PlaceType
<1>2. v \div Place(k) \in Nat
  BY <1>1
<1> QED  BY <1>2, ByteBaseAssumption DEF ByteOf, Byte

LEMMA WordIsNat == Word \subseteq Nat
  BY PlaceType DEF Word, WordSize

LEMMA ZerosType == ASSUME NEW n \in Nat PROVE Zeros(n) \in Arrays(n)
  BY ByteBaseAssumption DEF Zeros, Arrays, Byte

LEMMA WriteBytesType ==
  ASSUME NEW n \in Nat, NEW f \in Arrays(n), NEW a \in Nat, NEW w \in Widths,
         NEW v \in Word
  PROVE  WriteBytes(f, a, w, v) \in Arrays(n)
  BY ByteOfType, WordIsNat DEF WriteBytes, Arrays, Widths, ByteSize, HalfwordSize, WordSize

\* Quotient and remainder are unique.
LEMMA DivModOf ==
  ASSUME NEW P \in Nat, P > 0, NEW x \in Nat, NEW l \in 0 .. P - 1
  PROVE  (P * x + l) \div P = x /\ (P * x + l) % P = l
<1> DEFINE n == P * x + l
           q == n \div P
           r == n % P
<1>1. n \in Nat
  BY DEF n
<1>2. q \in Int /\ r \in 0 .. P - 1 /\ n = P * q + r
  BY <1>1
<1> HIDE DEF q, r
<1>3. \A d \in Int : d >= 1 => P * d >= P
  OBVIOUS
<1>4. P * (x - q) = P * x - P * q
  BY <1>2
<1>5. P * (q - x) = P * q - P * x
  BY <1>2
<1>6. ~(x - q >= 1)
  <2>1. x - q \in Int
   BY <1>2
  <2>2. ASSUME x - q >= 1 PROVE P * (x - q) >= P
   BY <2>1, <2>2, <1>3
  <2> QED  BY <1>2, <2>2, <1>4
<1>7. ~(q - x >= 1)
  <2>1. q - x \in Int
   BY <1>2
  <2>2. ASSUME q - x >= 1 PROVE P * (q - x) >= P
   BY <2>1, <2>2, <1>3
  <2> QED  BY <1>2, <2>2, <1>5
<1>8. x = q
  BY <1>2, <1>6, <1>7
<1> QED  BY <1>2, <1>8 DEF q, r

LEMMA ByteAt ==
  ASSUME NEW k \in 0 .. 3, NEW lo \in 0 .. Place(k) - 1, NEW s \in Byte, NEW hi \in Nat
  PROVE  ByteOf(Place(k) * (ByteBase * hi + s) + lo, k) = s
<1>1. ByteBase \in Nat /\ ByteBase > 0 /\ Place(k) \in Nat /\ Place(k) > 0
  BY PlaceType, ByteBaseAssumption
<1>2. s \in 0 .. ByteBase - 1
  BY DEF Byte
<1>3. ByteBase * hi + s \in Nat
  BY <1>1, <1>2
<1>4. (Place(k) * (ByteBase * hi + s) + lo) \div Place(k) = ByteBase * hi + s
  BY <1>1, <1>3, DivModOf
<1>5. (ByteBase * hi + s) % ByteBase = s
  BY <1>1, <1>2, DivModOf
<1> QED  BY <1>4, <1>5 DEF ByteOf

\* One more byte of a value: v modulo Place(k + 1) is v modulo Place(k) plus byte k.
LEMMA ModPlace ==
  ASSUME NEW k \in 0 .. 3, NEW v \in Nat
  PROVE  v % Place(k + 1) = (v % Place(k)) + Place(k) * ByteOf(v, k)
<1> DEFINE B == ByteBase
           P == Place(k)
           q == v \div P
           r == v % P
           h == q \div B
           s == q % B
<1>1. B \in Nat /\ B > 0 /\ P \in Nat /\ P > 0 /\ Place(k + 1) = P * B
  BY PlaceType, ByteBaseAssumption
<1> HIDE DEF B, P
<1>2. q \in Nat /\ r \in 0 .. P - 1 /\ v = P * q + r
  BY <1>1
<1>3. h \in Nat /\ s \in 0 .. B - 1 /\ q = B * h + s
  BY <1>1, <1>2
<1>4. s = ByteOf(v, k)
  BY DEF ByteOf, P, B
<1> HIDE DEF q, r, h, s
<1>5. v = (P * B) * h + (P * s + r)
  <2>1. v = P * (B * h + s) + r
    BY <1>2, <1>3
  <2>2. P * (B * h + s) = (P * B) * h + P * s
    BY <1>1, <1>3
  <2>3. (P * B) * h \in Int /\ P * s \in Int
    BY <1>1, <1>3
  <2> QED  BY <2>1, <2>2, <2>3, <1>2
<1>6. P * s + r \in 0 .. P * B - 1
  <2>1. P * s \in Nat /\ P * s <= P * (B - 1)
    BY <1>1, <1>3
  <2>2. P * (B - 1) = P * B - P /\ P * B \in Nat
    BY <1>1
  <2> QED  BY <2>1, <2>2, <1>1, <1>2
<1>7. P * B \in Nat /\ P * B > 0
  BY <1>1
<1>8. v % (P * B) = P * s + r
  BY <1>3, <1>5, <1>6, <1>7, DivModOf
<1>9. r = v % Place(k)
  BY DEF r, P
<1>10. P * s \in Int /\ r \in Int
  BY <1>1, <1>2, <1>3
<1> QED  BY <1>1, <1>4, <1>8, <1>9, <1>10 DEF P

\* A write followed by a read of the same width at the same address returns
\* the value cut to the width (memory_write_uN, memory_read_uN).
THEOREM WriteThenRead ==
  ASSUME NEW n \in Nat, NEW f \in Arrays(n), NEW a \in Nat, NEW w \in Widths,
         AccessValid(n, a, w), NEW v \in Nat
  PROVE  ReadBytes(WriteBytes(f, a, w, v), a, w) = v % Place(w)
<1> DEFINE g == WriteBytes(f, a, w, v)
<1>1. \A k \in 0 .. w - 1 : g[a + k] = ByteOf(v, k)
  <2>1. DOMAIN f = 0 .. n - 1 /\ \A k \in 0 .. w - 1 : a + k \in 0 .. n - 1
    BY DEF Arrays, AccessValid, Widths, ByteSize, HalfwordSize, WordSize
  <2>2. \A k \in 0 .. w - 1 : a + k \in a .. a + w - 1 /\ (a + k) - a = k
    BY DEF Widths, ByteSize, HalfwordSize, WordSize
  <2> QED  BY <2>1, <2>2 DEF WriteBytes
<1> HIDE DEF g
<1>2. /\ v % Place(1) = ByteOf(v, 0)
      /\ v % Place(2) = (v % Place(1)) + Place(1) * ByteOf(v, 1)
      /\ v % Place(3) = (v % Place(2)) + Place(2) * ByteOf(v, 2)
      /\ v % Place(4) = (v % Place(3)) + Place(3) * ByteOf(v, 3)
  <2>1. 0 + 1 = 1 /\ 1 + 1 = 2 /\ 2 + 1 = 3 /\ 3 + 1 = 4
    OBVIOUS
  <2>2. v % Place(1) = ByteOf(v, 0)
    BY PlaceType, ByteBaseAssumption DEF ByteOf
  <2>3. v % Place(1 + 1) = (v % Place(1)) + Place(1) * ByteOf(v, 1)
    BY ModPlace
  <2>4. v % Place(2 + 1) = (v % Place(2)) + Place(2) * ByteOf(v, 2)
    BY ModPlace
  <2>5. v % Place(3 + 1) = (v % Place(3)) + Place(3) * ByteOf(v, 3)
    BY ModPlace
  <2> QED  BY <2>1, <2>2, <2>3, <2>4, <2>5
<1>3. CASE w = 1
  <2>1. g[a] = ByteOf(v, 0)
    BY <1>1, <1>3
  <2> QED  BY <1>2, <1>3, <2>1 DEF ReadBytes, ByteSize, g
<1>4. CASE w = 2
  <2>1. g[a] = ByteOf(v, 0) /\ g[a + 1] = ByteOf(v, 1)
    BY <1>1, <1>4
  <2> QED  BY <1>2, <1>4, <2>1 DEF ReadBytes, ByteSize, HalfwordSize, g
<1>5. CASE w = 4
  <2>1. /\ g[a] = ByteOf(v, 0) /\ g[a + 1] = ByteOf(v, 1)
        /\ g[a + 2] = ByteOf(v, 2) /\ g[a + 3] = ByteOf(v, 3)
    BY <1>1, <1>5
  <2> QED  BY <1>2, <1>5, <2>1 DEF ReadBytes, ByteSize, HalfwordSize, g
<1> QED  BY <1>3, <1>4, <1>5 DEF Widths, ByteSize, HalfwordSize, WordSize

\* A read returns the number whose bytes, least significant first, are the
\* bytes of the RAM at that address (memory_read_uN).
THEOREM ReadIsLittleEndian ==
  ASSUME NEW n \in Nat, NEW f \in Arrays(n), NEW a \in Nat, NEW w \in Widths,
         AccessValid(n, a, w)
  PROVE  /\ ReadBytes(f, a, w) \in 0 .. Place(w) - 1
         /\ \A k \in 0 .. w - 1 : f[a + k] = ByteOf(ReadBytes(f, a, w), k)
<1> DEFINE B == ByteBase
           v == ReadBytes(f, a, w)
<1>1. B \in Nat /\ B >= 2
  BY ByteBaseAssumption
<1>2. \A k \in 0 .. w - 1 : f[a + k] \in Byte /\ f[a + k] \in Nat
  <2>1. \A k \in 0 .. w - 1 : a + k \in 0 .. n - 1
    BY DEF AccessValid, Widths, ByteSize, HalfwordSize, WordSize
  <2> QED  BY <1>1, <2>1 DEF Arrays, Byte
<1>3. /\ Place(0) = 1 /\ Place(1) = B /\ Place(2) = B * B /\ Place(3) = B * B * B
      /\ Place(4) = B * B * B * B
  BY DEF Place
<1>4. \A x, y \in Byte : /\ x \in 0 .. Place(1) - 1
                         /\ B * y + x \in 0 .. Place(2) - 1
  <2>1. \A y \in Byte : B * y \in Nat /\ B * y <= B * (B - 1)
    BY <1>1 DEF Byte
  <2>2. B * (B - 1) = B * B - B /\ B * B \in Nat
    BY <1>1
  <2> QED  BY <1>1, <1>3, <2>1, <2>2 DEF Byte
<1>5. \A x, y, z \in Byte : B * B * z + B * y + x \in 0 .. Place(3) - 1
  <2>1. \A z \in Byte : (B * B) * z \in Nat /\ (B * B) * z <= (B * B) * (B - 1)
    <3>1. B * B \in Nat
      BY <1>1
    <3> QED  BY <1>1, <3>1 DEF Byte
  <2>2. (B * B) * (B - 1) = B * B * B - B * B /\ B * B \in Nat /\ B * B * B \in Nat
    BY <1>1
  <2>3. \A x, y \in Byte : B * y + x \in 0 .. B * B - 1
    BY <1>3, <1>4
  <2>4. \A x, y, z \in Byte : B * B * z + B * y + x = (B * B) * z + (B * y + x)
    BY <1>1 DEF Byte
  <2> QED  BY <1>3, <2>1, <2>2, <2>3, <2>4
<1>6. \A x, y, z, t \in Byte : B * B * B * t + B * B * z + B * y + x \in 0 .. Place(4) - 1
  <2>1. \A t \in Byte : (B * B * B) * t \in Nat /\ (B * B * B) * t <= (B * B * B) * (B - 1)
    <3>1. B * B * B \in Nat
      BY <1>1
    <3> QED  BY <1>1, <3>1 DEF Byte
  <2>2. /\ (B * B * B) * (B - 1) = B * B * B * B - B * B * B
        /\ B * B * B \in Nat /\ B * B * B * B \in Nat
    BY <1>1
  <2>3. \A x, y, z \in Byte : B * B * z + B * y + x \in 0 .. B * B * B - 1
    BY <1>3, <1>5
  <2>4. \A x, y, z, t \in Byte :
          B * B * B * t + B * B * z + B * y + x = (B * B * B) * t + (B * B * z + B * y + x)
    BY <1>1 DEF Byte
  <2> QED  BY <1>3, <2>1, <2>2, <2>3, <2>4
<1>7. CASE w = 1
  <2>1. v = f[a] /\ f[a] \in Byte /\ f[a + 0] = f[a]
    <3>1. f[a + 0] \in Byte /\ a + 0 = a
      BY <1>2, <1>7
    <3> QED  BY <1>7, <3>1 DEF ReadBytes, ByteSize
  <2>2. ByteOf(v, 0) = v
    BY <1>1, <1>3, <2>1 DEF ByteOf, Byte
  <2> QED  BY <1>4, <1>7, <2>1, <2>2
<1>8. CASE w = 2
  <2>1. f[a] \in Byte /\ f[a + 1] \in Byte /\ a + 0 = a
    <3>1. f[a + 0] \in Byte /\ a + 0 = a
      BY <1>2, <1>8
    <3> QED  BY <1>2, <1>8, <3>1
  <2>2. v = B * f[a + 1] + f[a]
    BY <1>1, <1>3, <1>8, <2>1 DEF ReadBytes, ByteSize, HalfwordSize, Byte
  <2>3. ByteOf(Place(0) * (B * f[a + 1] + f[a]) + 0, 0) = f[a]
    BY <1>3, <2>1, ByteAt DEF Byte
  <2>4. ByteOf(Place(1) * (B * 0 + f[a + 1]) + f[a], 1) = f[a + 1]
    BY <1>3, <2>1, ByteAt DEF Byte
  <2>5. /\ Place(0) * (B * f[a + 1] + f[a]) + 0 = v
        /\ Place(1) * (B * 0 + f[a + 1]) + f[a] = v
    BY <1>1, <1>3, <2>1, <2>2 DEF Byte
  <2> HIDE DEF v
  <2> QED  BY <1>4, <1>8, <2>1, <2>2, <2>3, <2>4, <2>5 DEF v
<1>9. CASE w = 4
  <2> DEFINE x == f[a]
             y == f[a + 1]
             z == f[a + 2]
             t == f[a + 3]
  <2>1. x \in Byte /\ y \in Byte /\ z \in Byte /\ t \in Byte /\ a + 0 = a
    <3>1. f[a + 0] \in Byte /\ a + 0 = a
      BY <1>2, <1>9
    <3> QED  BY <1>2, <1>9, <3>1
  <2>2. v = B * B * B * t + B * B * z + B * y + x
    BY <1>1, <1>3, <1>9, <2>1 DEF ReadBytes, ByteSize, HalfwordSize, Byte
  <2> HIDE DEF v, x, y, z, t
  <2>3. x \in Nat /\ y \in Nat /\ z \in Nat /\ t \in Nat
    BY <1>1, <2>1 DEF Byte
  <2>4. ByteOf(v, 0) = x
    <3>1. B * (B * t + z) + y \in Nat
      BY <1>1, <2>3
    <3>2. ByteOf(Place(0) * (B * (B * (B * t + z) + y) + x) + 0, 0) = x
      BY <1>3, <2>1, <3>1, ByteAt
    <3>3. Place(0) * (B * (B * (B * t + z) + y) + x) + 0 = v
      BY <1>1, <1>3, <2>2, <2>3
    <3> QED  BY <3>2, <3>3
  <2>5. ByteOf(v, 1) = y
    <3>1. B * t + z \in Nat
      BY <1>1, <2>3
    <3>2. ByteOf(Place(1) * (B * (B * t + z) + y) + x, 1) = y
      BY <1>4, <2>1, <3>1, ByteAt
    <3>3. Place(1) * (B * (B * t + z) + y) + x = v
      BY <1>1, <1>3, <2>2, <2>3
    <3> QED  BY <3>2, <3>3
  <2>6. ByteOf(v, 2) = z
    <3>1. ByteOf(Place(2) * (B * t + z) + (B * y + x), 2) = z
      BY <1>4, <2>1, <2>3, ByteAt
    <3>2. Place(2) * (B * t + z) + (B * y + x) = v
      BY <1>1, <1>3, <2>2, <2>3
    <3> QED  BY <3>1, <3>2
  <2>7. ByteOf(v, 3) = t
    <3>1. ByteOf(Place(3) * (B * 0 + t) + (B * B * z + B * y + x), 3) = t
      BY <1>5, <2>1, ByteAt
    <3>2. Place(3) * (B * 0 + t) + (B * B * z + B * y + x) = v
      BY <1>1, <1>3, <2>2, <2>3
    <3> QED  BY <3>1, <3>2
  <2>8. v \in 0 .. Place(4) - 1
    BY <1>6, <2>1, <2>2
  <2>9. \A k \in 0 .. 3 : f[a + k] = ByteOf(v, k)
    BY <2>1, <2>4, <2>5, <2>6, <2>7 DEF x, y, z, t
  <2> QED  BY <1>9, <2>8, <2>9 DEF v
<1> QED  BY <1>7, <1>8, <1>9 DEF Widths, ByteSize, HalfwordSize, WordSize

LEMMA ReadBytesType ==
  ASSUME NEW n \in Nat, NEW f \in Arrays(n), NEW a \in Nat, NEW w \in Widths,
         AccessValid(n, a, w)
  PROVE  ReadBytes(f, a, w) \in Word
<1>1. /\ Place(1) \in Nat /\ Place(2) \in Nat /\ Place(3) \in Nat /\ Place(4) \in Nat
      /\ Place(1) <= Place(2) /\ Place(2) <= Place(3) /\ Place(3) <= Place(4)
  BY PlaceType
<1>2. ReadBytes(f, a, w) \in 0 .. Place(w) - 1
  BY ReadIsLittleEndian
<1> QED  BY <1>1, <1>2 DEF Word, Widths, ByteSize, HalfwordSize, WordSize
=============================================================================
