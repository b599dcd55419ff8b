---------------------------- MODULE Codec_proofs ----------------------------
(***************************************************************************)
(* What the checksum of a frame is worth, for every frame: a frame is read *)
(* back as it was packed, and no burst of eight bits or fewer gives a      *)
(* frame again.                                                            *)
(*                                                                         *)
(* Two messages go through the register side by side.  Where the first bit *)
(* differs, the two registers differ in their lowest bit; from there on    *)
(* registers that agree in their k lowest bits agreed in the k - 1 lowest  *)
(* one bit of the message before.  So they cannot agree in enough of their *)
(* bits when the burst is over, nor, as equal bits keep a difference,      *)
(* later.                                                                  *)
(***************************************************************************)
EXTENDS NoisyLine, FiniteSetTheorems, WellFoundedInduction, TLAPS

----------------------------------------------------------------------------
(* Induction over numbers. *)

\* Every set of numbers has a least one.
LEMMA LeastNumber ==
  ASSUME NEW T, T \subseteq Nat, T # {}
  PROVE  \E x \in T : \A y \in T : x <= y
<1>. DEFINE Below == {p \in Nat \X Nat : p[1] < p[2]}
<1>1. IsWellFoundedOn(Below, Nat)
  BY NatLessThanWellFounded DEF OpToRel
<1>2. \A x, y \in Nat : <<y, x>> \in Below <=> y < x
  OBVIOUS
<1>. HIDE DEF Below
<1>3. PICK x \in T : \A y \in T : ~ (<<y, x>> \in Below)
  BY <1>1, WFMin
<1>4. \A y \in T : ~ (y < x)
  BY <1>2, <1>3
<1>. QED  BY <1>4

\* Induction from a number up.
LEMMA UpFrom ==
  ASSUME NEW m \in Nat, NEW T, m \in T, \A n \in Nat : n >= m /\ n \in T => n + 1 \in T
  PROVE  \A n \in Nat : n >= m => n \in T
<1>. DEFINE Missing == {n \in Nat : n >= m /\ n \notin T}
<1>1. CASE Missing = {}
  BY <1>1
<1>2. CASE Missing # {}
  <2>1. PICK x \in Missing : \A y \in Missing : x <= y
    BY <1>2, LeastNumber
  <2>2. x # m /\ x \in Nat /\ x >= m /\ x \notin T
    BY <2>1
  <2>3. x - 1 \in Nat /\ x - 1 >= m /\ x - 1 \notin Missing
    BY <2>1, <2>2
  <2>4. (x - 1) + 1 \in T
    BY <2>3
  <2>. QED  BY <2>2, <2>4
<1>. QED  BY <1>1, <1>2

----------------------------------------------------------------------------
(* Bytes and their bits. *)

Bits == {0, 1}
LEMMA BitIsBit ==
  ASSUME NEW x \in Byte, NEW k \in 0 .. 7
  PROVE  Bit(x, k) \in Bits
<1>1. /\ Bit(x, 0) \in Bits /\ Bit(x, 1) \in Bits /\ Bit(x, 2) \in Bits /\ Bit(x, 3) \in Bits
      /\ Bit(x, 4) \in Bits /\ Bit(x, 5) \in Bits /\ Bit(x, 6) \in Bits /\ Bit(x, 7) \in Bits
  BY DEF Bit, Bits, Byte
<1>2. k = 0 \/ k = 1 \/ k = 2 \/ k = 3 \/ k = 4 \/ k = 5 \/ k = 6 \/ k = 7
  OBVIOUS
<1>. QED  BY <1>1, <1>2

\* Eight bits make a byte, which has them ...
LEMMA ByteHasItsBits ==
  ASSUME NEW b, \A k \in 0 .. 7 : b[k] \in Bits
  PROVE  /\ ByteOf(b) \in Byte
         /\ \A k \in 0 .. 7 : Bit(ByteOf(b), k) = b[k]
<1>1. /\ b[0] \in Bits /\ b[1] \in Bits /\ b[2] \in Bits /\ b[3] \in Bits
      /\ b[4] \in Bits /\ b[5] \in Bits /\ b[6] \in Bits /\ b[7] \in Bits
  OBVIOUS
<1>2. ByteOf(b) \in Byte
  BY <1>1 DEF ByteOf, Byte, Bits
<1>3. /\ Bit(ByteOf(b), 0) = b[0] /\ Bit(ByteOf(b), 1) = b[1]
      /\ Bit(ByteOf(b), 2) = b[2] /\ Bit(ByteOf(b), 3) = b[3]
  BY <1>1 DEF ByteOf, Bit, Bits
<1>4. /\ Bit(ByteOf(b), 4) = b[4] /\ Bit(ByteOf(b), 5) = b[5]
      /\ Bit(ByteOf(b), 6) = b[6] /\ Bit(ByteOf(b), 7) = b[7]
  BY <1>1 DEF ByteOf, Bit, Bits
<1>5. \A k \in 0 .. 7 : k = 0 \/ k = 1 \/ k = 2 \/ k = 3 \/ k = 4 \/ k = 5 \/ k = 6 \/ k = 7
  OBVIOUS
<1>. QED  BY <1>2, <1>3, <1>4, <1>5

\* ... and the bits of a byte make that byte.
LEMMA BitsMakeTheByte ==
  ASSUME NEW x \in Byte, NEW b, \A k \in 0 .. 7 : b[k] = Bit(x, k)
  PROVE  ByteOf(b) = x
<1>1. ByteOf(b) = Bit(x, 0) + 2 * Bit(x, 1) + 4 * Bit(x, 2) + 8 * Bit(x, 3)
                  + 16 * Bit(x, 4) + 32 * Bit(x, 5) + 64 * Bit(x, 6) + 128 * Bit(x, 7)
  BY DEF ByteOf
<1>. QED  BY <1>1 DEF Bit, Byte

LEMMA SameBitsSameByte ==
  ASSUME NEW x \in Byte, NEW y \in Byte, \A k \in 0 .. 7 : Bit(x, k) = Bit(y, k)
  PROVE  x = y
<1>1. PICK b : b = [k \in 0 .. 7 |-> Bit(x, k)]
  OBVIOUS
<1>. QED  BY <1>1, BitsMakeTheByte

\* Every bit of a sequence of bytes is in one of them.
LEMMA BitAtType ==
  ASSUME NEW bytes \in Seq(Byte), NEW n \in 0 .. 8 * Len(bytes) - 1
  PROVE  BitAt(bytes, n) \in Bits
<1>1. 1 + n \div 8 \in 1 .. Len(bytes) /\ 7 - (n % 8) \in 0 .. 7
  OBVIOUS
<1>2. bytes[1 + n \div 8] \in Byte
  BY <1>1
<1>. QED  BY <1>1, <1>2, BitIsBit DEF BitAt

----------------------------------------------------------------------------
(* The register. *)

Register == [0 .. 15 -> Bits]
Ones == [k \in 0 .. 15 |-> 1]

\* What one bit does to each bit of the register.
LEMMA FeedBits ==
  ASSUME NEW r \in Register, NEW b \in Bits
  PROVE  /\ Feed(r, b) \in Register
         /\ Feed(r, b)[0] = (r[15] + b) % 2
         /\ \A k \in 1 .. 15 : Feed(r, b)[k] = IF k \in Taps THEN (r[k - 1] + ((r[15] + b) % 2)) % 2
                                               ELSE r[k - 1]
<1>. DEFINE out == (r[15] + b) % 2
            shifted == [k \in 0 .. 15 |-> IF k = 0 THEN 0 ELSE r[k - 1]]
<1>1. \A k \in 0 .. 15 : r[k] \in Bits
  BY DEF Register
<1>2. out \in Bits
  BY <1>1 DEF Bits
<1>3. shifted[0] = 0 /\ \A k \in 1 .. 15 : shifted[k] = r[k - 1]
  OBVIOUS
<1>4. \A k \in 0 .. 15 : shifted[k] \in Bits
  BY <1>1 DEF Bits
<1>5. Feed(r, b) = [k \in 0 .. 15 |-> IF k \in Taps THEN (shifted[k] + out) % 2 ELSE shifted[k]]
  BY DEF Feed
<1>. HIDE DEF out, shifted
<1>6. \A k \in 0 .. 15 : (shifted[k] + out) % 2 \in Bits
  BY <1>2, <1>4 DEF Bits
<1>7. Feed(r, b) \in Register
  BY <1>4, <1>5, <1>6 DEF Register
<1>8. Feed(r, b)[0] = out
  BY <1>2, <1>3, <1>5 DEF Taps, Bits
<1>9. \A k \in 1 .. 15 : Feed(r, b)[k] = IF k \in Taps THEN (r[k - 1] + out) % 2 ELSE r[k - 1]
  BY <1>3, <1>5
<1>10. out = (r[15] + b) % 2
  BY DEF out
<1>. QED  BY <1>7, <1>8, <1>9, <1>10, Zenon

Turn(reg, bytes, n) == IF n = 0 THEN Ones ELSE Feed(reg[n - 1], BitAt(bytes, n - 1))

\* The registers of a message exist: one after the other.
LEMMA RegistersExist ==
  ASSUME NEW bytes \in Seq(Byte)
  PROVE  \E f \in [0 .. 8 * Len(bytes) -> Register] :
            \A n \in 0 .. 8 * Len(bytes) : f[n] = Turn(f, bytes, n)
<1>. DEFINE N == 8 * Len(bytes)
            RightTo(f, m) == \A n \in 0 .. m : f[n] = Turn(f, bytes, n)
            T == {m \in Nat : m <= N => \E f \in [0 .. N -> Register] : RightTo(f, m)}
<1>1. N \in Nat
  OBVIOUS
<1>. HIDE DEF N
<1>2. 0 \in T
  <2>1. PICK f : f = [n \in 0 .. N |-> Ones]
    OBVIOUS
  <2>2. Ones \in Register
    BY DEF Ones, Register, Bits
  <2>3. f \in [0 .. N -> Register]
    BY <2>1, <2>2
  <2>4. RightTo(f, 0)
    BY <1>1, <2>1 DEF Turn
  <2>. HIDE DEF RightTo
  <2>. QED  BY <2>3, <2>4
<1>3. ASSUME NEW m \in Nat, m \in T  PROVE m + 1 \in T
  <2>1. SUFFICES ASSUME m + 1 <= N  PROVE \E f \in [0 .. N -> Register] : RightTo(f, m + 1)
    OBVIOUS
  <2>2. PICK f \in [0 .. N -> Register] : RightTo(f, m)
    BY <1>1, <1>3, <2>1
  <2>3. PICK t : t = Feed(f[m], BitAt(bytes, m))
    OBVIOUS
  <2>4. t \in Register
    <3>1. m \in 0 .. 8 * Len(bytes) - 1 /\ m \in 0 .. N
      BY <1>1, <2>1 DEF N
    <3>. QED  BY <2>3, <3>1, FeedBits, BitAtType
  <2>5. PICK g : g = [n \in 0 .. N |-> IF n = m + 1 THEN t ELSE f[n]]
    OBVIOUS
  <2>6. g \in [0 .. N -> Register]
    BY <2>4, <2>5
  <2>7. \A n \in 0 .. m : g[n] = f[n]
    BY <1>1, <2>1, <2>5
  <2>8. \A n \in 0 .. m + 1 : Turn(g, bytes, n) = Turn(f, bytes, n)
    <3>1. \A n \in 0 .. m + 1 : n # 0 => g[n - 1] = f[n - 1]
      BY <2>7
    <3>. QED  BY <3>1 DEF Turn
  <2>9. RightTo(g, m + 1)
    <3>1. \A n \in 0 .. m : g[n] = Turn(g, bytes, n)
      BY <2>2, <2>7, <2>8
    <3>2. g[m + 1] = Turn(g, bytes, m + 1)
      BY <1>1, <2>1, <2>3, <2>5, <2>8 DEF Turn
    <3>. QED  BY <3>1, <3>2
  <2>. HIDE DEF RightTo
  <2>. QED  BY <2>6, <2>9
<1>4. N \in T
  <2>1. \A n \in Nat : n >= 0 /\ n \in T => n + 1 \in T
    BY <1>3
  <2>. HIDE DEF T
  <2>2. \A n \in Nat : n >= 0 => n \in T
    BY <1>2, <2>1, UpFrom
  <2>. QED  BY <1>1, <2>2
<1>. QED  BY <1>1, <1>4 DEF N

LEMMA RegistersAre ==
  ASSUME NEW bytes \in Seq(Byte)
  PROVE  /\ Registers(bytes) \in [0 .. 8 * Len(bytes) -> Register]
         /\ Registers(bytes)[0] = Ones
         /\ \A n \in 0 .. 8 * Len(bytes) - 1 :
               Registers(bytes)[n + 1] = Feed(Registers(bytes)[n], BitAt(bytes, n))
<1>. DEFINE N == 8 * Len(bytes)
<1>1. PICK f \in [0 .. N -> Register] : \A n \in 0 .. N : f[n] = Turn(f, bytes, n)
  BY RegistersExist
<1>2. f = [n \in 0 .. N |-> Turn(f, bytes, n)]
  BY <1>1
<1>3. Registers(bytes) = CHOOSE g : g = [n \in 0 .. N |-> Turn(g, bytes, n)]
  BY DEF Registers, Turn, Ones
<1>4. PICK R : R = Registers(bytes)
  OBVIOUS
<1>5. R = [n \in 0 .. N |-> Turn(R, bytes, n)]
  BY <1>2, <1>3, <1>4
<1>6. N \in Nat
  OBVIOUS
<1>7. \A n \in 0 .. N : R[n] = Turn(R, bytes, n)
  BY <1>5
<1>8. R[0] = Ones
  BY <1>6, <1>7 DEF Turn
<1>. HIDE DEF N
<1>9. \A n \in 0 .. N - 1 : R[n + 1] = Feed(R[n], BitAt(bytes, n))
  <2>1. SUFFICES ASSUME NEW n \in 0 .. N - 1  PROVE R[n + 1] = Feed(R[n], BitAt(bytes, n))
    OBVIOUS
  <2>2. n + 1 \in 0 .. N /\ n + 1 # 0 /\ (n + 1) - 1 = n
    BY <1>6
  <2>. QED  BY <1>7, <2>2 DEF Turn
<1>10. \A n \in Nat : n >= 0 => n \in {m \in Nat : m <= N => R[m] \in Register}
  <2>. DEFINE T == {m \in Nat : m <= N => R[m] \in Register}
  <2>1. 0 \in T
    BY <1>8 DEF Ones, Register, Bits
  <2>2. ASSUME NEW n \in Nat, n \in T  PROVE n + 1 \in T
    <3>1. SUFFICES ASSUME n + 1 <= N  PROVE R[n + 1] \in Register
      OBVIOUS
    <3>2. n \in 0 .. N - 1 /\ R[n] \in Register
      BY <1>6, <2>2, <3>1
    <3>3. BitAt(bytes, n) \in Bits
      BY <3>2, BitAtType DEF N
    <3>. QED  BY <1>9, <3>2, <3>3, FeedBits
  <2>. HIDE DEF T
  <2>3. \A n \in Nat : n >= 0 => n \in T
    BY <2>1, <2>2, UpFrom
  <2>. QED  BY <2>3 DEF T
<1>11. R \in [0 .. N -> Register]
  BY <1>5, <1>6, <1>10
<1>. QED  BY <1>4, <1>8, <1>9, <1>11 DEF N

----------------------------------------------------------------------------
(* Two messages side by side. *)

AgreeLow(r, s, k) == \A i \in 0 .. k - 1 : r[i] = s[i]

\* Registers that agree in their k lowest bits agreed in the k - 1 lowest one bit before; and in
\* all of them if they agree in all and that bit was the same.
LEMMA OneBitBack ==
  ASSUME NEW r \in Register, NEW s \in Register, NEW a \in Bits, NEW b \in Bits,
         NEW k \in 1 .. 16, AgreeLow(Feed(r, a), Feed(s, b), k)
  PROVE  AgreeLow(r, s, k - 1) /\ (k = 16 /\ a = b => r = s)
<1>1. PICK o : o = (r[15] + a) % 2
  OBVIOUS
<1>2. Feed(r, a)[0] = Feed(s, b)[0]
  BY DEF AgreeLow
<1>3. (s[15] + b) % 2 = o
  BY <1>1, <1>2, FeedBits
<1>4. \A i \in 0 .. 15 : r[i] \in Bits /\ s[i] \in Bits
  BY DEF Register
<1>5. o \in Bits
  BY <1>1, <1>4 DEF Bits
<1>6. \A i \in 0 .. k - 2 : r[i] = s[i]
  <2>1. SUFFICES ASSUME NEW i \in 0 .. k - 2  PROVE r[i] = s[i]
    OBVIOUS
  <2>2. i + 1 \in 1 .. 15 /\ i + 1 \in 0 .. k - 1 /\ (i + 1) - 1 = i /\ i \in 0 .. 15
    OBVIOUS
  <2>3. Feed(r, a)[i + 1] = Feed(s, b)[i + 1]
    BY <2>2 DEF AgreeLow
  <2>4. /\ Feed(r, a)[i + 1] = IF i + 1 \in Taps THEN (r[i] + o) % 2 ELSE r[i]
        /\ Feed(s, b)[i + 1] = IF i + 1 \in Taps THEN (s[i] + o) % 2 ELSE s[i]
    BY <1>1, <1>3, <2>2, FeedBits
  <2>5. (r[i] + o) % 2 = (s[i] + o) % 2 => r[i] = s[i]
    BY <1>4, <1>5, <2>2 DEF Bits
  <2>. QED  BY <2>3, <2>4, <2>5
<1>7. ASSUME k = 16, a = b  PROVE r = s
  <2>1. r[15] = s[15]
    BY <1>1, <1>3, <1>4, <1>7 DEF Bits
  <2>2. \A i \in 0 .. 15 : r[i] = s[i]
    BY <1>6, <1>7, <2>1
  <2>. QED  BY <2>2 DEF Register
<1>. QED  BY <1>6, <1>7 DEF AgreeLow

\* Two messages of the same length, and their registers.
Side(a, b) == a \in Seq(Byte) /\ b \in Seq(Byte) /\ Len(a) = Len(b)

LEMMA SameSoFar ==
  ASSUME NEW a, NEW b, Side(a, b), NEW m \in 0 .. 8 * Len(a),
         \A n \in 0 .. m - 1 : BitAt(a, n) = BitAt(b, n)
  PROVE  Registers(a)[m] = Registers(b)[m]
<1>. DEFINE T == {n \in Nat : n <= m => Registers(a)[n] = Registers(b)[n]}
<1>0. a \in Seq(Byte) /\ b \in Seq(Byte) /\ Len(a) = Len(b) /\ Len(a) \in Nat
  BY DEF Side
<1>1. 0 \in T
  BY <1>0, RegistersAre
<1>2. ASSUME NEW n \in Nat, n \in T  PROVE n + 1 \in T
  <2>1. SUFFICES ASSUME n + 1 <= m  PROVE Registers(a)[n + 1] = Registers(b)[n + 1]
    OBVIOUS
  <2>2. n \in 0 .. 8 * Len(a) - 1 /\ n \in 0 .. m - 1 /\ Registers(a)[n] = Registers(b)[n]
    BY <1>0, <1>2, <2>1
  <2>3. /\ Registers(a)[n + 1] = Feed(Registers(a)[n], BitAt(a, n))
        /\ Registers(b)[n + 1] = Feed(Registers(b)[n], BitAt(b, n))
    BY <1>0, <2>2, RegistersAre
  <2>. QED  BY <2>2, <2>3
<1>. HIDE DEF T
<1>3. \A n \in Nat : n >= 0 => n \in T
  BY <1>1, <1>2, UpFrom
<1>. QED  BY <1>3 DEF T

LEMMA BitsBack ==
  ASSUME NEW a, NEW b, Side(a, b), NEW m \in 0 .. 8 * Len(a), NEW k \in 0 .. 16,
         AgreeLow(Registers(a)[m], Registers(b)[m], k)
  PROVE  \A j \in 0 .. m : j <= k => AgreeLow(Registers(a)[m - j], Registers(b)[m - j], k - j)
<1>. DEFINE T == {j \in Nat : j <= m /\ j <= k =>
                                  AgreeLow(Registers(a)[m - j], Registers(b)[m - j], k - j)}
<1>0. a \in Seq(Byte) /\ b \in Seq(Byte) /\ Len(a) = Len(b) /\ Len(a) \in Nat
  BY DEF Side
<1>1. 0 \in T
  OBVIOUS
<1>2. ASSUME NEW j \in Nat, j \in T  PROVE j + 1 \in T
  <2>1. SUFFICES ASSUME j + 1 <= m, j + 1 <= k
                 PROVE AgreeLow(Registers(a)[m - (j + 1)], Registers(b)[m - (j + 1)], k - (j + 1))
    OBVIOUS
  <2>2. PICK n : n = m - (j + 1)
    OBVIOUS
  <2>3. n \in 0 .. 8 * Len(a) - 1 /\ n + 1 = m - j /\ k - j \in 1 .. 16 /\ k - (j + 1) = (k - j) - 1
        /\ n \in 0 .. 8 * Len(a)
    BY <1>0, <2>1, <2>2
  <2>4. AgreeLow(Registers(a)[n + 1], Registers(b)[n + 1], k - j)
    BY <1>2, <2>1, <2>3
  <2>5. /\ Registers(a)[n + 1] = Feed(Registers(a)[n], BitAt(a, n))
        /\ Registers(b)[n + 1] = Feed(Registers(b)[n], BitAt(b, n))
        /\ Registers(a)[n] \in Register /\ Registers(b)[n] \in Register
    BY <1>0, <2>3, RegistersAre
  <2>6. BitAt(a, n) \in Bits /\ BitAt(b, n) \in Bits
    BY <1>0, <2>3, BitAtType
  <2>7. AgreeLow(Registers(a)[n], Registers(b)[n], (k - j) - 1)
    BY <2>3, <2>4, <2>5, <2>6, OneBitBack
  <2>. QED  BY <2>2, <2>3, <2>7
<1>. HIDE DEF T
<1>3. \A j \in Nat : j >= 0 => j \in T
  BY <1>1, <1>2, UpFrom
<1>. QED  BY <1>3 DEF T

\* A difference is never undone by bits that are the same.
LEMMA DifferenceStays ==
  ASSUME NEW a, NEW b, Side(a, b), NEW m \in 0 .. 8 * Len(a),
         \A n \in m .. 8 * Len(a) - 1 : BitAt(a, n) = BitAt(b, n),
         Registers(a)[8 * Len(a)] = Registers(b)[8 * Len(a)]
  PROVE  Registers(a)[m] = Registers(b)[m]
<1>. DEFINE N == 8 * Len(a)
            T == {j \in Nat : j <= N - m => Registers(a)[N - j] = Registers(b)[N - j]}
<1>0. a \in Seq(Byte) /\ b \in Seq(Byte) /\ Len(a) = Len(b) /\ Len(a) \in Nat
  BY DEF Side
<1>1. 0 \in T
  BY <1>0
<1>2. ASSUME NEW j \in Nat, j \in T  PROVE j + 1 \in T
  <2>1. SUFFICES ASSUME j + 1 <= N - m
                 PROVE Registers(a)[N - (j + 1)] = Registers(b)[N - (j + 1)]
    OBVIOUS
  <2>2. PICK n : n = N - (j + 1)
    OBVIOUS
  <2>3. n \in 0 .. N - 1 /\ n + 1 = N - j /\ n \in 0 .. N /\ n \in m .. N - 1
    BY <1>0, <2>1, <2>2
  <2>4. Registers(a)[n + 1] = Registers(b)[n + 1]
    BY <1>2, <2>1, <2>3
  <2>5. /\ Registers(a)[n + 1] = Feed(Registers(a)[n], BitAt(a, n))
        /\ Registers(b)[n + 1] = Feed(Registers(b)[n], BitAt(b, n))
        /\ Registers(a)[n] \in Register /\ Registers(b)[n] \in Register
    BY <1>0, <2>3, RegistersAre
  <2>6. BitAt(a, n) \in Bits /\ BitAt(b, n) \in Bits /\ BitAt(a, n) = BitAt(b, n)
    BY <1>0, <2>3, BitAtType
  <2>7. AgreeLow(Feed(Registers(a)[n], BitAt(a, n)), Feed(Registers(b)[n], BitAt(b, n)), 16)
    BY <2>4, <2>5 DEF AgreeLow
  <2>8. Registers(a)[n] = Registers(b)[n]
    BY <2>5, <2>6, <2>7, OneBitBack
  <2>. QED  BY <2>2, <2>8
<1>3. N - m \in Nat /\ N - (N - m) = m
  BY <1>0
<1>. HIDE DEF T, N
<1>4. \A j \in Nat : j >= 0 => j \in T
  BY <1>1, <1>2, UpFrom
<1>. QED  BY <1>3, <1>4 DEF T

\* Messages whose first different bit is p: their registers cannot agree in as many of their
\* lowest bits as bits have come since.
LEMMA FirstBitShows ==
  ASSUME NEW a, NEW b, Side(a, b), NEW p \in 0 .. 8 * Len(a) - 1,
         \A n \in 0 .. p - 1 : BitAt(a, n) = BitAt(b, n), BitAt(a, p) # BitAt(b, p),
         NEW m \in p + 1 .. 8 * Len(a), NEW k \in 0 .. 16, k >= m - p
  PROVE  ~ AgreeLow(Registers(a)[m], Registers(b)[m], k)
<1>0. a \in Seq(Byte) /\ b \in Seq(Byte) /\ Len(a) = Len(b) /\ Len(a) \in Nat
  BY DEF Side
<1>1. SUFFICES ASSUME AgreeLow(Registers(a)[m], Registers(b)[m], k)  PROVE FALSE
  OBVIOUS
<1>2. PICK j : j = m - (p + 1)
  OBVIOUS
<1>3. j \in 0 .. m /\ j <= k /\ m - j = p + 1 /\ k - j >= 1 /\ k - j \in Int
  BY <1>2
<1>4. m \in 0 .. 8 * Len(a)
  BY <1>0
<1>5. AgreeLow(Registers(a)[p + 1], Registers(b)[p + 1], k - j)
  BY <1>1, <1>3, <1>4, BitsBack
<1>6. Registers(a)[p + 1][0] = Registers(b)[p + 1][0]
  BY <1>3, <1>5 DEF AgreeLow
<1>7. p \in 0 .. 8 * Len(a)
  BY <1>0
<1>8. Registers(a)[p] = Registers(b)[p]
  BY <1>7, SameSoFar
<1>9. PICK r \in Register : r = Registers(a)[p]
  BY <1>0, <1>7, RegistersAre
<1>10. /\ Registers(a)[p + 1] = Feed(r, BitAt(a, p))
       /\ Registers(b)[p + 1] = Feed(r, BitAt(b, p))
  BY <1>0, <1>8, <1>9, RegistersAre
<1>11. BitAt(a, p) \in Bits /\ BitAt(b, p) \in Bits
  BY <1>0, BitAtType
<1>12. (r[15] + BitAt(a, p)) % 2 = (r[15] + BitAt(b, p)) % 2
  BY <1>6, <1>10, <1>11, FeedBits
<1>13. r[15] \in Bits
  BY DEF Register
<1>. QED  BY <1>11, <1>12, <1>13 DEF Bits

----------------------------------------------------------------------------
(* Frames that unpack_frame takes. *)

\* The bytes that the checksum covers, and how many bits they are.
Body(f) == SubSeq(f, 1, Len(f) - 2)
BodyBits(f) == 8 * (Len(f) - 2)

Sealed(f) ==
    /\ f \in Seq(Byte) /\ Len(f) >= 5
    /\ f[1] = Sof /\ f[3] = Len(f) - 5
    /\ crc16(Body(f)) = f[Len(f) - 1] + 256 * f[Len(f)]

LEMMA TakenIsSealed ==
  ASSUME NEW f \in Seq(Byte)
  PROVE  /\ ~ Sealed(f) => unpack_frame(f) = None
         /\ Sealed(f) => unpack_frame(f) = <<f[2], SubSeq(f, 4, Len(f) - 2)>>
<1>1. CASE Len(f) < 5 \/ f[1] # Sof
  BY <1>1 DEF Sealed, unpack_frame
<1>2. CASE Len(f) >= 5 /\ f[1] = Sof
  <2>1. f[3] \in 0 .. 255 /\ Len(f) \in Nat
    <3>1. f[3] \in Byte /\ Len(f) \in Nat
      BY <1>2
    <3>. QED  BY <3>1 DEF Byte
  <2>2. CASE Len(f) # f[3] + 5
    BY <1>2, <2>1, <2>2 DEF Sealed, unpack_frame
  <2>3. CASE Len(f) = f[3] + 5
    <3>1. /\ 3 + f[3] = Len(f) - 2 /\ 4 + f[3] = Len(f) - 1 /\ 5 + f[3] = Len(f)
          /\ f[3] = Len(f) - 5 /\ ~ (Len(f) < 5)
      <4>1. PICK x \in 0 .. 255, L \in Nat : x = f[3] /\ L = Len(f)
        BY <2>1
      <4>2. L = x + 5
        BY <2>3, <4>1, Zenon
      <4>3. 3 + x = L - 2 /\ 4 + x = L - 1 /\ 5 + x = L /\ x = L - 5 /\ ~ (L < 5)
        BY <4>2
      <4>. QED  BY <4>1, <4>3, Zenon
    <3>2. Covered(f) = Body(f)
      BY <3>1 DEF Covered, Body
    <3>3. unpack_frame(f) = IF crc16(Body(f)) # f[Len(f) - 1] + 256 * f[Len(f)] THEN None
                            ELSE <<f[2], SubSeq(f, 4, Len(f) - 2)>>
      BY <1>2, <2>3, <3>1, <3>2, Zenon DEF unpack_frame
    <3>. QED  BY <1>2, <3>1, <3>3 DEF Sealed
  <2>. QED  BY <2>2, <2>3
<1>. QED  BY <1>1, <1>2

LEMMA BodyType ==
  ASSUME NEW f, Sealed(f)
  PROVE  Body(f) \in Seq(Byte) /\ Len(Body(f)) = Len(f) - 2 /\ 8 * Len(Body(f)) = BodyBits(f)
<1>1. f \in Seq(Byte) /\ Len(f) \in Nat /\ Len(f) >= 5
  BY DEF Sealed
<1>2. Body(f) \in Seq(Byte) /\ Len(Body(f)) = Len(f) - 2
  BY <1>1 DEF Body
<1>. QED  BY <1>2 DEF BodyBits

\* The checksum is the last register, its low byte first.
LEMMA TheChecksum ==
  ASSUME NEW bytes \in Seq(Byte)
  PROVE  \E lo, hi \in Byte :
            /\ crc16(bytes) = lo + 256 * hi
            /\ \A k \in 0 .. 7 : /\ Registers(bytes)[8 * Len(bytes)][k] = Bit(lo, k)
                                 /\ Registers(bytes)[8 * Len(bytes)][8 + k] = Bit(hi, k)
<1>1. PICK r : r = Registers(bytes)[8 * Len(bytes)]
  OBVIOUS
<1>2. r \in Register
  BY <1>1, RegistersAre
<1>3. PICK h : h = [k \in 0 .. 7 |-> r[8 + k]]
  OBVIOUS
<1>4. (\A k \in 0 .. 7 : r[k] \in Bits /\ h[k] \in Bits) /\ \A k \in 0 .. 7 : h[k] = r[8 + k]
  BY <1>2, <1>3 DEF Register
<1>5. /\ ByteOf(r) \in Byte /\ \A k \in 0 .. 7 : Bit(ByteOf(r), k) = r[k]
      /\ ByteOf(h) \in Byte /\ \A k \in 0 .. 7 : Bit(ByteOf(h), k) = h[k]
  BY <1>4, ByteHasItsBits
<1>6. crc16(bytes) = ByteOf(r) + 256 * ByteOf(h)
  BY <1>1, <1>3 DEF crc16
<1>7. \A k \in 0 .. 7 : r[k] = Bit(ByteOf(r), k) /\ r[8 + k] = Bit(ByteOf(h), k)
  BY <1>4, <1>5
<1>. QED  BY <1>1, <1>5, <1>6, <1>7, Zenon

\* Bit k of the low byte of the checksum is bit 7 - k of the trailer, and so on.
LEMMA TrailerIsRegister ==
  ASSUME NEW f, Sealed(f), NEW k \in 0 .. 7
  PROVE  /\ Registers(Body(f))[BodyBits(f)][k] = BitAt(f, BodyBits(f) + 7 - k)
         /\ Registers(Body(f))[BodyBits(f)][8 + k] = BitAt(f, BodyBits(f) + 15 - k)
<1>1. PICK L \in Nat : L = Len(f) /\ L >= 5
  BY DEF Sealed
<1>2. Body(f) \in Seq(Byte) /\ Len(Body(f)) = L - 2 /\ BodyBits(f) = 8 * (L - 2)
  BY <1>1 DEF Sealed, Body, BodyBits
<1>3. PICK lo \in Byte, hi \in Byte :
        /\ crc16(Body(f)) = lo + 256 * hi
        /\ \A j \in 0 .. 7 : /\ Registers(Body(f))[8 * Len(Body(f))][j] = Bit(lo, j)
                             /\ Registers(Body(f))[8 * Len(Body(f))][8 + j] = Bit(hi, j)
  BY <1>2, TheChecksum
<1>4. f[L - 1] \in Byte /\ f[L] \in Byte /\ crc16(Body(f)) = f[L - 1] + 256 * f[L]
  BY <1>1 DEF Sealed
<1>5. lo = f[L - 1] /\ hi = f[L]
  <2>1. PICK x \in Byte, y \in Byte : x = f[L - 1] /\ y = f[L]
    BY <1>4
  <2>2. lo + 256 * hi = x + 256 * y
    BY <1>3, <1>4, <2>1
  <2>3. lo = x /\ hi = y
    BY <2>2 DEF Byte
  <2>. QED  BY <2>1, <2>3
<1>6. /\ 1 + ((8 * (L - 2) + 7 - k) \div 8) = L - 1 /\ 7 - ((8 * (L - 2) + 7 - k) % 8) = k
      /\ 1 + ((8 * (L - 2) + 15 - k) \div 8) = L /\ 7 - ((8 * (L - 2) + 15 - k) % 8) = k
  BY <1>1
<1>7. BitAt(f, 8 * (L - 2) + 7 - k) = Bit(f[L - 1], k) /\ BitAt(f, 8 * (L - 2) + 15 - k) = Bit(f[L], k)
  BY <1>6 DEF BitAt
<1>. QED  BY <1>2, <1>3, <1>5, <1>7

LEMMA BodyHasTheBits ==
  ASSUME NEW f \in Seq(Byte), Len(f) >= 5, NEW n \in 0 .. BodyBits(f) - 1
  PROVE  BitAt(Body(f), n) = BitAt(f, n)
<1>1. 1 + n \div 8 \in 1 .. Len(f) - 2
  BY DEF BodyBits
<1>2. Body(f)[1 + n \div 8] = f[1 + n \div 8]
  BY <1>1 DEF Body
<1>. QED  BY <1>2 DEF BitAt

\* Two frames that are taken, of the same length, whose first different bit is p, differ behind it:
\* further on than eight bits, or than sixteen if their trailers are the same.
LEMMA SealedFramesAreApart ==
  ASSUME NEW f, NEW g, Sealed(f), Sealed(g), Len(f) = Len(g),
         NEW p \in 0 .. 8 * Len(f) - 1, \A n \in 0 .. p - 1 : BitAt(f, n) = BitAt(g, n),
         BitAt(f, p) # BitAt(g, p), NEW w \in {8, 16},
         w = 16 => \A n \in BodyBits(f) .. 8 * Len(f) - 1 : BitAt(f, n) = BitAt(g, n)
  PROVE  \E n \in p + w .. 8 * Len(f) - 1 : BitAt(f, n) # BitAt(g, n)
<1>1. SUFFICES ASSUME \A n \in p + w .. 8 * Len(f) - 1 : BitAt(f, n) = BitAt(g, n)  PROVE FALSE
  OBVIOUS
<1>2. PICK L \in Nat : L = Len(f) /\ L = Len(g) /\ L >= 5
  BY DEF Sealed
<1>3. PICK N \in Nat : N = 8 * (L - 2) /\ N = BodyBits(f) /\ N = BodyBits(g) /\ 8 * L = N + 16
  BY <1>2 DEF BodyBits
<1>4. PICK a \in Seq(Byte), b \in Seq(Byte) : a = Body(f) /\ b = Body(g) /\ Len(a) = L - 2 /\ Len(b) = L - 2
  <2>1. /\ Body(f) \in Seq(Byte) /\ Len(Body(f)) = L - 2
        /\ Body(g) \in Seq(Byte) /\ Len(Body(g)) = L - 2
    BY <1>2, BodyType
  <2>. QED  BY <2>1
<1>5. Side(a, b) /\ 8 * Len(a) = N
  BY <1>3, <1>4 DEF Side
<1>6. \A n \in 0 .. N - 1 : BitAt(a, n) = BitAt(f, n) /\ BitAt(b, n) = BitAt(g, n)
  BY <1>2, <1>3, <1>4, BodyHasTheBits DEF Sealed
<1>7. PICK r, s : r = Registers(a)[N] /\ s = Registers(b)[N]
  OBVIOUS
<1>8. r \in Register /\ s \in Register
  <2>1. N \in 0 .. 8 * Len(a) /\ N \in 0 .. 8 * Len(b)
    BY <1>3, <1>4
  <2>. QED  BY <1>7, <2>1, RegistersAre
<1>9. \A k \in 0 .. 7 : /\ r[k] = BitAt(f, N + 7 - k) /\ r[8 + k] = BitAt(f, N + 15 - k)
                        /\ s[k] = BitAt(g, N + 7 - k) /\ s[8 + k] = BitAt(g, N + 15 - k)
  <2>1. SUFFICES ASSUME NEW k \in 0 .. 7
                 PROVE /\ r[k] = BitAt(f, N + 7 - k) /\ r[8 + k] = BitAt(f, N + 15 - k)
                       /\ s[k] = BitAt(g, N + 7 - k) /\ s[8 + k] = BitAt(g, N + 15 - k)
    OBVIOUS
  <2>2. /\ Registers(Body(f))[BodyBits(f)][k] = BitAt(f, BodyBits(f) + 7 - k)
        /\ Registers(Body(f))[BodyBits(f)][8 + k] = BitAt(f, BodyBits(f) + 15 - k)
        /\ Registers(Body(g))[BodyBits(g)][k] = BitAt(g, BodyBits(g) + 7 - k)
        /\ Registers(Body(g))[BodyBits(g)][8 + k] = BitAt(g, BodyBits(g) + 15 - k)
    BY TrailerIsRegister
  <2>. QED  BY <1>3, <1>4, <1>7, <2>2, Zenon
<1>10. ASSUME \A n \in N .. N + 15 : BitAt(f, n) = BitAt(g, n)  PROVE r = s
  <2>1. \A k \in 0 .. 7 : r[k] = s[k] /\ r[8 + k] = s[8 + k]
    <3>1. \A k \in 0 .. 7 : N + 7 - k \in N .. N + 15 /\ N + 15 - k \in N .. N + 15
      OBVIOUS
    <3>. QED  BY <1>9, <1>10, <3>1, ZenonT(40)
  <2>2. \A k \in 0 .. 15 : r[k] = s[k]
    <3>1. SUFFICES ASSUME NEW k \in 0 .. 15  PROVE r[k] = s[k]
      OBVIOUS
    <3>2. k \in 0 .. 7 \/ (k - 8 \in 0 .. 7 /\ 8 + (k - 8) = k)
      OBVIOUS
    <3>3. k - 8 \in 0 .. 7 => r[8 + (k - 8)] = s[8 + (k - 8)]
      BY <2>1
    <3>. QED  BY <2>1, <3>2, <3>3
  <2>3. r = [k \in 0 .. 15 |-> r[k]] /\ s = [k \in 0 .. 15 |-> s[k]]
    BY <1>8 DEF Register
  <2>. QED  BY <2>2, <2>3
<1>11. CASE p >= N
  <2>1. \A n \in 0 .. N - 1 : BitAt(a, n) = BitAt(b, n)
    BY <1>6, <1>11
  <2>2. r = s
    <3>1. N \in 0 .. 8 * Len(a)
      BY <1>3, <1>5
    <3>. QED  BY <1>5, <1>7, <2>1, <3>1, SameSoFar
  <2>3. p \in N .. N + 15
    BY <1>2, <1>3, <1>11
  <2>4. CASE p <= N + 7
    <3>1. PICK k \in 0 .. 7 : N + 7 - k = p
      <4>1. N + 7 - p \in 0 .. 7 /\ N + 7 - (N + 7 - p) = p
        BY <2>3, <2>4
      <4>. QED  BY <4>1
    <3>. QED  BY <1>9, <2>2, <3>1
  <2>5. CASE p > N + 7
    <3>1. PICK k \in 0 .. 7 : N + 15 - k = p
      <4>1. N + 15 - p \in 0 .. 7 /\ N + 15 - (N + 15 - p) = p
        BY <2>3, <2>5
      <4>. QED  BY <4>1
    <3>. QED  BY <1>9, <2>2, <3>1
  <2>. QED  BY <2>3, <2>4, <2>5
<1>12. CASE p < N
  <2>1. /\ p \in 0 .. 8 * Len(a) - 1
        /\ \A n \in 0 .. p - 1 : BitAt(a, n) = BitAt(b, n)
        /\ BitAt(a, p) # BitAt(b, p)
    BY <1>5, <1>6, <1>12
  <2>2. \A m \in p + 1 .. N, k \in 0 .. 16 : k >= m - p => ~ AgreeLow(Registers(a)[m], Registers(b)[m], k)
    BY <1>5, <2>1, FirstBitShows
  <2>3. CASE p + w <= N
    <3>1. \A n \in N .. N + 15 : BitAt(f, n) = BitAt(g, n)
      BY <1>1, <1>2, <1>3, <2>3
    <3>2. r = s
      BY <1>10, <3>1
    <3>3. \A n \in p + w .. N - 1 : BitAt(a, n) = BitAt(b, n)
      BY <1>1, <1>2, <1>3, <1>6
    <3>4. p + w \in 0 .. 8 * Len(a) /\ p + w \in p + 1 .. N /\ w \in 0 .. 16 /\ w >= (p + w) - p
      BY <1>5, <2>3
    <3>5. Registers(a)[p + w] = Registers(b)[p + w]
      <4>1. PICK m \in 0 .. 8 * Len(a) : m = p + w
        BY <3>4
      <4>2. \A n \in m .. 8 * Len(a) - 1 : BitAt(a, n) = BitAt(b, n)
        BY <1>5, <3>3, <4>1
      <4>3. Registers(a)[8 * Len(a)] = Registers(b)[8 * Len(a)]
        BY <1>5, <1>7, <3>2
      <4>4. Registers(a)[m] = Registers(b)[m]
        BY <1>5, <4>2, <4>3, DifferenceStays, ZenonT(60)
      <4>. QED  BY <4>1, <4>4
    <3>6. AgreeLow(Registers(a)[p + w], Registers(b)[p + w], w)
      BY <3>5 DEF AgreeLow
    <3>. QED  BY <2>2, <3>4, <3>6
  <2>4. CASE p + w > N /\ w = 8
    <3>1. N - p \in 0 .. 16 /\ N \in p + 1 .. N /\ N - p <= 8
      BY <1>12, <2>4
    <3>2. \A k \in 0 .. N - p - 1 : r[k] = s[k]
      <4>1. SUFFICES ASSUME NEW k \in 0 .. N - p - 1  PROVE r[k] = s[k]
        OBVIOUS
      <4>2. k \in 0 .. 7 /\ N + 7 - k \in p + w .. 8 * Len(f) - 1
        BY <1>2, <1>3, <2>4, <3>1
      <4>. QED  BY <1>1, <1>9, <4>2
    <3>3. AgreeLow(Registers(a)[N], Registers(b)[N], N - p)
      BY <1>7, <3>2 DEF AgreeLow
    <3>. QED  BY <2>2, <3>1, <3>3, SMTT(40)
  <2>5. CASE p + w > N /\ w = 16
    <3>1. \A n \in N .. N + 15 : BitAt(f, n) = BitAt(g, n)
      BY <1>2, <1>3, <2>5
    <3>2. AgreeLow(Registers(a)[N], Registers(b)[N], 16)
      BY <1>7, <1>10, <3>1 DEF AgreeLow
    <3>3. N \in p + 1 .. N /\ 16 \in 0 .. 16 /\ 16 >= N - p
      BY <1>12, <2>5
    <3>. QED  BY <2>2, <3>2, <3>3
  <2>. QED  BY <1>12, <2>3, <2>4, <2>5
<1>. QED  BY <1>3, <1>11, <1>12

----------------------------------------------------------------------------
(* What pack_frame makes, and what the line makes of it. *)

LEMMA Joined ==
  ASSUME NEW S, NEW s \in Seq(S), NEW t \in Seq(S)
  PROVE  /\ s \o t \in Seq(S) /\ Len(s \o t) = Len(s) + Len(t)
         /\ \A i \in 1 .. Len(s) : (s \o t)[i] = s[i]
         /\ \A i \in Len(s) + 1 .. Len(s) + Len(t) : (s \o t)[i] = t[i - Len(s)]
  BY SMTT(40)

LEMMA SameSequence ==
  ASSUME NEW S, NEW s \in Seq(S), NEW t \in Seq(S), NEW n, Len(s) = n, Len(t) = n,
         \A i \in 1 .. n : s[i] = t[i]
  PROVE  s = t
  OBVIOUS

LEMMA PackedIsSealed ==
  ASSUME NEW c \in Byte, NEW payload \in Seq(Byte), Len(payload) \in 0 .. 255
  PROVE  /\ Sealed(pack_frame(c, payload))
         /\ Len(pack_frame(c, payload)) = Len(payload) + 5
         /\ unpack_frame(pack_frame(c, payload)) = <<c, payload>>
<1>1. PICK P \in 0 .. 255 : P = Len(payload)
  OBVIOUS
<1>2. PICK head : head = <<Sof, c, P>>
  OBVIOUS
<1>3. head \in Seq(Byte) /\ Len(head) = 3 /\ head[1] = Sof /\ head[2] = c /\ head[3] = P
  <2>1. Sof \in Byte /\ P \in Byte
    <3>1. P \in 0 .. 255 /\ 165 \in 0 .. 255
      OBVIOUS
    <3>. QED  BY <3>1, Zenon DEF Byte, Sof
  <2>2. <<Sof, c, P>> \in Seq(Byte) /\ Len(<<Sof, c, P>>) = 3
    BY <2>1
  <2>. QED  BY <1>2, <2>2
<1>4. PICK body : body = head \o payload
  OBVIOUS
<1>5. /\ body \in Seq(Byte) /\ Len(body) = P + 3
      /\ body[1] = Sof /\ body[2] = c /\ body[3] = P
      /\ \A i \in 1 .. P : body[3 + i] = payload[i]
  <2>1. /\ body \in Seq(Byte) /\ Len(body) = 3 + P
        /\ \A i \in 1 .. 3 : body[i] = head[i]
        /\ \A i \in 1 .. P : body[3 + i] = payload[i]
    <3>1. head \in Seq(Byte) /\ payload \in Seq(Byte) /\ Len(head) = 3 /\ Len(payload) = P
      BY <1>1, <1>3
    <3>2. /\ body \in Seq(Byte) /\ Len(body) = 3 + P
          /\ \A i \in 1 .. 3 : body[i] = head[i]
          /\ \A i \in 3 + 1 .. 3 + P : body[i] = payload[i - 3]
      <4>1. /\ head \o payload \in Seq(Byte)
            /\ Len(head \o payload) = Len(head) + Len(payload)
            /\ \A i \in 1 .. Len(head) : (head \o payload)[i] = head[i]
            /\ \A i \in Len(head) + 1 .. Len(head) + Len(payload) :
                  (head \o payload)[i] = payload[i - Len(head)]
        BY <3>1, Joined, Zenon
      <4>. QED  BY <1>4, <3>1, <4>1, Zenon
    <3>3. ASSUME NEW i \in 1 .. P  PROVE body[3 + i] = payload[i]
      <4>1. PICK j \in 3 + 1 .. 3 + P : j = 3 + i /\ j - 3 = i
        OBVIOUS
      <4>. QED  BY <3>2, <4>1
    <3>. QED  BY <3>2, <3>3, SMTT(40)
  <2>2. 1 \in 1 .. 3 /\ 2 \in 1 .. 3 /\ 3 \in 1 .. 3 /\ 3 + P = P + 3
    OBVIOUS
  <2>. QED  BY <1>3, <2>1, <2>2, ZenonT(40)
<1>6. PICK lo \in Byte, hi \in Byte : crc16(body) = lo + 256 * hi
  BY <1>5, TheChecksum
<1>7. (lo + 256 * hi) % 256 = lo /\ (lo + 256 * hi) \div 256 = hi
  BY DEF Byte
<1>8. PICK f : f = body \o <<lo, hi>>
  OBVIOUS
<1>9. pack_frame(c, payload) = f
  <2>1. ~ (Len(payload) > 255)
    <3>1. ~ (P > 255)
      OBVIOUS
    <3>. QED  BY <1>1, <3>1, Zenon
  <2>. QED  BY ZenonT(40), <1>1, <1>2, <1>4, <1>6, <1>7, <1>8, <2>1 DEF pack_frame
<1>10. /\ f \in Seq(Byte) /\ Len(f) = P + 5
       /\ f[P + 4] = lo /\ f[P + 5] = hi
       /\ \A i \in 1 .. P + 3 : f[i] = body[i]
  BY <1>5, <1>8
<1>11. f[1] = Sof /\ f[2] = c /\ f[3] = P
  BY <1>5, <1>10
<1>12. Body(f) = body
  <2>1. Body(f) = SubSeq(f, 1, P + 3)
    BY <1>10 DEF Body
  <2>2. SubSeq(f, 1, P + 3) = body
    BY <1>5, <1>10
  <2>. QED  BY <2>1, <2>2
<1>13. Sealed(f)
  <2>1. Len(f) >= 5 /\ Len(f) - 5 = P /\ Len(f) - 1 = P + 4
    BY <1>10, SMTT(40)
  <2>. QED  BY <1>6, <1>10, <1>11, <1>12, <2>1 DEF Sealed
<1>14. SubSeq(f, 4, Len(f) - 2) = payload
  <2>1. Len(f) - 2 = P + 3
    BY <1>10
  <2>2. \A i \in 1 .. P : f[i + 3] = payload[i]
    BY <1>5, <1>10
  <2>3. SubSeq(f, 4, P + 3) \in Seq(Byte) /\ Len(SubSeq(f, 4, P + 3)) = P
    BY <1>10
  <2>4. \A i \in 1 .. P : SubSeq(f, 4, P + 3)[i] = f[i + 3]
    BY <1>10, SMTT(40)
  <2>5. SubSeq(f, 4, P + 3) = payload
    <3>1. PICK q \in Seq(Byte) : q = SubSeq(f, 4, P + 3) /\ Len(q) = P
      BY <2>3
    <3>2. \A i \in 1 .. P : q[i] = payload[i]
      BY <2>2, <2>4, <3>1, Zenon
    <3>3. q = payload
      BY <1>1, <3>1, <3>2, SameSequence, Zenon
    <3>. QED  BY <3>1, <3>3
  <2>. QED  BY <2>1, <2>5
<1>15. unpack_frame(f) = <<c, payload>>
  BY <1>10, <1>11, <1>13, <1>14, TakenIsSealed
<1>. QED  BY <1>1, <1>9, <1>10, <1>13, <1>15

\* The damage turns over the bits it names and no others.
LEMMA DamagedBits ==
  ASSUME NEW f \in Seq(Byte), NEW F
  PROVE  /\ Damaged(f, F) \in Seq(Byte) /\ Len(Damaged(f, F)) = Len(f)
         /\ \A n \in 0 .. 8 * Len(f) - 1 :
               BitAt(Damaged(f, F), n) = IF n \in F THEN 1 - BitAt(f, n) ELSE BitAt(f, n)
<1>. DEFINE Turned(i, k) == IF 8 * (i - 1) + 7 - k \in F THEN 1 - Bit(f[i], k) ELSE Bit(f[i], k)
            Places(i) == [k \in 0 .. 7 |-> Turned(i, k)]
            g == Damaged(f, F)
<1>1. g = [i \in 1 .. Len(f) |-> ByteOf(Places(i))]
  BY DEF Damaged
<1>2. \A i \in 1 .. Len(f) : \A k \in 0 .. 7 : Places(i)[k] \in Bits /\ Places(i)[k] = Turned(i, k)
  <2>1. SUFFICES ASSUME NEW i \in 1 .. Len(f), NEW k \in 0 .. 7  PROVE Turned(i, k) \in Bits
    OBVIOUS
  <2>2. f[i] \in Byte
    OBVIOUS
  <2>3. Bit(f[i], k) \in Bits
    BY <2>2, BitIsBit
  <2>. QED  BY <2>3 DEF Bits
<1>. HIDE DEF Places, Turned, g
<1>3. \A i \in 1 .. Len(f) : /\ ByteOf(Places(i)) \in Byte
                             /\ \A k \in 0 .. 7 : Bit(ByteOf(Places(i)), k) = Turned(i, k)
  BY <1>2, ByteHasItsBits
<1>4. \A i \in 1 .. Len(f) : g[i] \in Byte /\ \A k \in 0 .. 7 : Bit(g[i], k) = Turned(i, k)
  BY <1>1, <1>3
<1>5. g \in Seq(Byte) /\ Len(g) = Len(f)
  <2>1. g \in [1 .. Len(f) -> Byte]
    BY <1>1, <1>3
  <2>. QED  BY <2>1
<1>6. \A n \in 0 .. 8 * Len(f) - 1 :
        BitAt(g, n) = IF n \in F THEN 1 - BitAt(f, n) ELSE BitAt(f, n)
  <2>1. SUFFICES ASSUME NEW n \in 0 .. 8 * Len(f) - 1
                 PROVE BitAt(g, n) = IF n \in F THEN 1 - BitAt(f, n) ELSE BitAt(f, n)
    OBVIOUS
  <2>2. PICK i \in 1 .. Len(f), k \in 0 .. 7 : i = 1 + n \div 8 /\ k = 7 - (n % 8)
    OBVIOUS
  <2>3. 8 * (i - 1) + 7 - k = n
    BY <2>2
  <2>4. BitAt(g, n) = Bit(g[i], k) /\ BitAt(f, n) = Bit(f[i], k)
    BY <2>2 DEF BitAt
  <2>5. Bit(g[i], k) = Turned(i, k)
    BY <1>4
  <2>. QED  BY <2>3, <2>4, <2>5 DEF Turned
<1>. QED  BY <1>5, <1>6 DEF g

LEMMA NoDamage ==
  ASSUME NEW f \in Seq(Byte)
  PROVE  Damaged(f, {}) = f
<1>1. PICK g : g = Damaged(f, {})
  OBVIOUS
<1>2. g \in Seq(Byte) /\ Len(g) = Len(f)
  BY <1>1, DamagedBits
<1>3. \A n \in 0 .. 8 * Len(f) - 1 : BitAt(g, n) = BitAt(f, n)
  BY <1>1, DamagedBits
<1>4. \A i \in 1 .. Len(f) : g[i] = f[i]
  <2>1. SUFFICES ASSUME NEW i \in 1 .. Len(f)  PROVE g[i] = f[i]
    OBVIOUS
  <2>2. \A k \in 0 .. 7 : Bit(g[i], k) = Bit(f[i], k)
    <3>1. SUFFICES ASSUME NEW k \in 0 .. 7  PROVE Bit(g[i], k) = Bit(f[i], k)
      OBVIOUS
    <3>2. PICK n \in 0 .. 8 * Len(f) - 1 : n = 8 * (i - 1) + 7 - k
      OBVIOUS
    <3>3. 1 + n \div 8 = i /\ 7 - (n % 8) = k
      BY <3>2
    <3>4. BitAt(g, n) = Bit(g[i], k) /\ BitAt(f, n) = Bit(f[i], k)
      BY <3>3 DEF BitAt
    <3>. QED  BY <1>3, <3>4
  <2>3. g[i] \in Byte /\ f[i] \in Byte
    BY <1>2
  <2>. QED  BY <2>2, <2>3, SameBitsSameByte
<1>. QED  BY <1>1, <1>2, <1>4

\* A frame with a burst of w bits in it is not taken for a frame.
LEMMA BurstIsSeen ==
  ASSUME NEW f, Sealed(f), NEW F, F \subseteq 0 .. 8 * Len(f) - 1, F # {}, NEW w \in {8, 16},
         \A m, n \in F : m - n < w, w = 16 => F \subseteq 0 .. BodyBits(f) - 1
  PROVE  unpack_frame(Damaged(f, F)) = None
<1>1. PICK g : g = Damaged(f, F)
  OBVIOUS
<1>2. f \in Seq(Byte) /\ Len(f) \in Nat
  BY DEF Sealed
<1>3. /\ g \in Seq(Byte) /\ Len(g) = Len(f)
      /\ \A n \in 0 .. 8 * Len(f) - 1 : BitAt(g, n) = IF n \in F THEN 1 - BitAt(f, n) ELSE BitAt(f, n)
  BY <1>1, <1>2, DamagedBits
<1>4. PICK p \in F : \A n \in F : p <= n
  <2>1. F \subseteq Nat
    OBVIOUS
  <2>. QED  BY <2>1, LeastNumber
<1>5. p \in 0 .. 8 * Len(f) - 1 /\ \A n \in F : n \in Int /\ p <= n /\ n < p + w
  BY <1>4
<1>6. \A n \in 0 .. p - 1 : BitAt(f, n) = BitAt(g, n)
  BY <1>2, <1>3, <1>5
<1>7. BitAt(f, p) # BitAt(g, p)
  <2>1. BitAt(f, p) \in Bits
    BY <1>2, <1>5, BitAtType
  <2>. QED  BY <1>3, <1>5, <2>1 DEF Bits
<1>8. \A n \in p + w .. 8 * Len(f) - 1 : BitAt(f, n) = BitAt(g, n)
  BY <1>2, <1>3, <1>5
<1>9. w = 16 => \A n \in BodyBits(f) .. 8 * Len(f) - 1 : BitAt(f, n) = BitAt(g, n)
  <2>1. Len(f) >= 5
    BY DEF Sealed
  <2>2. PICK N \in Nat : N = BodyBits(f)
    BY <1>2, <2>1 DEF BodyBits
  <2>. QED  BY <1>2, <1>3, <2>2
<1>10. ~ Sealed(g)
  BY <1>3, <1>5, <1>6, <1>7, <1>8, <1>9, SealedFramesAreApart
<1>. QED  BY <1>1, <1>3, <1>10, TakenIsSealed

\* A burst of up to sixteen bits within the header and the payload of a frame is seen as well.
\* (Not one that runs into the trailer: its low byte comes first.)
THEOREM WideBurstsBeforeTheTrailerAreSeen ==
  ASSUME NEW c \in Byte, NEW payload \in Seq(Byte), Len(payload) \in 0 .. 255,
         NEW F, F \subseteq 0 .. 8 * (Len(payload) + 3) - 1, F # {}, \A m, n \in F : m - n < 16
  PROVE  unpack_frame(Damaged(pack_frame(c, payload), F)) = None
<1>1. PICK f : f = pack_frame(c, payload)
  OBVIOUS
<1>2. Sealed(f) /\ Len(f) = Len(payload) + 5 /\ Len(payload) \in Nat
  BY <1>1, PackedIsSealed
<1>3. BodyBits(f) = 8 * (Len(payload) + 3)
  BY <1>2 DEF BodyBits
<1>4. F \subseteq 0 .. BodyBits(f) - 1
  BY <1>3
<1>5. F \subseteq 0 .. 8 * Len(f) - 1
  BY <1>2
<1>6. unpack_frame(Damaged(f, F)) = None
  BY <1>2, <1>4, <1>5, BurstIsSeen
<1>. QED  BY <1>1, <1>6

----------------------------------------------------------------------------
(* The line. *)

\* What is on the line is a frame that was packed, and the damage is one burst.
LineInv ==
    /\ phase \in {"idle", "line", "read"}
    /\ phase # "idle" =>
         /\ sent \in Samples /\ frame = pack_frame(sent[1], sent[2])
         /\ flips \subseteq 0 .. 8 * Len(frame) - 1 /\ InARow(flips)
    /\ BurstsAreSeen

LEMMA ReadSeesBursts ==
  ASSUME NEW s \in Samples, NEW F, F \subseteq 0 .. 8 * Len(pack_frame(s[1], s[2])) - 1, InARow(F)
  PROVE  unpack_frame(Damaged(pack_frame(s[1], s[2]), F)) = IF F = {} THEN s ELSE None
<1>1. s[1] \in Byte /\ s[2] \in Seq(Byte) /\ Len(s[2]) \in 0 .. 255 /\ s = <<s[1], s[2]>>
  <2>1. s \in Byte \X Seq(Byte) /\ Len(s[2]) <= 255
    BY NoiseAssumption
  <2>2. Len(s[2]) \in Nat
    BY <2>1
  <2>3. Len(s[2]) \in 0 .. 255
    <3>1. PICK n \in Nat : n = Len(s[2])
      BY <2>2
    <3>2. n <= 255
      BY <2>1, <3>1, Zenon
    <3>3. n \in 0 .. 255
      BY <3>2
    <3>. QED  BY <3>1, <3>3
  <2>. QED  BY <2>1, <2>3
<1>2. PICK f : f = pack_frame(s[1], s[2])
  OBVIOUS
<1>3. Sealed(f) /\ unpack_frame(f) = s /\ f \in Seq(Byte)
  BY <1>1, <1>2, PackedIsSealed, ZenonT(60) DEF Sealed
<1>4. CASE F = {}
  BY <1>2, <1>3, <1>4, NoDamage
<1>5. CASE F # {}
  <2>1. \A m, n \in F : m - n < 8
    <3>1. SUFFICES ASSUME NEW m \in F, NEW n \in F  PROVE m - n < 8
      OBVIOUS
    <3>2. m \in Int /\ n \in Int /\ m - n < BurstMax
      BY DEF InARow
    <3>. QED  BY <3>2, NoiseAssumption
  <2>2. unpack_frame(Damaged(f, F)) = None
    <3>1. F \subseteq 0 .. 8 * Len(f) - 1
      BY <1>2
    <3>2. PICK w \in {8, 16} : w = 8
      OBVIOUS
    <3>3. (\A m, n \in F : m - n < w) /\ w # 16
      BY <2>1, <3>2
    <3>. QED  BY <1>3, <1>5, <3>1, <3>3, BurstIsSeen
  <2>. QED  BY <1>2, <1>5, <2>2
<1>. QED  BY <1>4, <1>5

LEMMA LineInvHolds == Spec => []LineInv
<1>1. Init => LineInv
  BY DEF Init, LineInv, BurstsAreSeen
<1>2. LineInv /\ [Next]_vars => LineInv'
  <2>. SUFFICES ASSUME LineInv, [Next]_vars  PROVE LineInv'
    OBVIOUS
  <2>1. CASE Write
    <3>1. PICK s \in Samples : sent' = s /\ frame' = pack_frame(s[1], s[2])
      BY <2>1 DEF Write
    <3>2. phase' = "line" /\ flips' = {}
      BY <2>1 DEF Write
    <3>. QED  BY <3>1, <3>2 DEF LineInv, BurstsAreSeen, InARow
  <2>2. CASE Noise
    <3>1. PICK n \in 0 .. 8 * Len(frame) - 1 : InARow(flips \cup {n}) /\ flips' = flips \cup {n}
      BY <2>2 DEF Noise
    <3>2. phase = "line" /\ phase' = phase /\ sent' = sent /\ frame' = frame
      BY <2>2 DEF Noise
    <3>. QED  BY <3>1, <3>2 DEF LineInv, BurstsAreSeen
  <2>3. CASE Read
    <3>1. /\ phase = "line" /\ phase' = "read" /\ sent' = sent /\ frame' = frame /\ flips' = flips
          /\ got' = unpack_frame(Damaged(frame, flips))
      BY <2>3 DEF Read
    <3>2. /\ sent \in Samples /\ frame = pack_frame(sent[1], sent[2])
          /\ flips \subseteq 0 .. 8 * Len(frame) - 1 /\ InARow(flips)
      BY <3>1 DEF LineInv
    <3>3. got' = IF flips = {} THEN sent ELSE None
      BY <3>1, <3>2, ReadSeesBursts
    <3>. QED  BY <3>1, <3>2, <3>3 DEF LineInv, BurstsAreSeen
  <2>4. CASE UNCHANGED vars
    BY <2>4 DEF vars, LineInv, BurstsAreSeen
  <2>. QED  BY <2>1, <2>2, <2>3, <2>4 DEF Next
<1>. QED  BY <1>1, <1>2, PTL DEF Spec

\* For all frames and payloads, and bursts of up to eight bits: pack_frame and unpack_frame agree,
\* and what a burst has damaged is not taken for a frame.
THEOREM BurstsAreSeenHolds == Spec => []BurstsAreSeen
<1>1. LineInv => BurstsAreSeen
  BY DEF LineInv
<1>. QED  BY <1>1, LineInvHolds, PTL

----------------------------------------------------------------------------
(* State frames and versions. *)

\* Where the fields of a state frame of seven joints lie: the flags and the sequence number, six
\* fields of each joint, and joint_fault if there is one.
JointFieldOf(b) ==
    LET place == (b - 4) % 21
    IN IF place = 20 THEN <<b, 1>> ELSE <<b - (place % 4), 4>>
FieldOf(b) ==
    IF b < 2 THEN <<0, 2>> ELSE IF b < 4 THEN <<2, 2>>
    ELSE IF b < 151 THEN JointFieldOf(b) ELSE <<151, 2>>

Covers(f, b) == f[1] <= b /\ b < f[1] + f[2]

LEMMA OneJointFieldOf ==
  ASSUME NEW b \in 4 .. 150
  PROVE  /\ \E i \in 0 .. 6 : JointFieldOf(b) \in JointFields(4 + 21 * i) /\ Covers(JointFieldOf(b), b)
         /\ \A i \in 0 .. 6 : \A f \in JointFields(4 + 21 * i) : Covers(f, b) => f = JointFieldOf(b)
<1>1. PICK j \in 0 .. 6, place \in 0 .. 20 : b - 4 = 21 * j + place /\ place = (b - 4) % 21
  <2>1. (b - 4) \div 21 \in 0 .. 6 /\ (b - 4) % 21 \in 0 .. 20
        /\ b - 4 = 21 * ((b - 4) \div 21) + ((b - 4) % 21)
    OBVIOUS
  <2>. QED  BY <2>1
<1>2. CASE place = 20
  <2>1. JointFieldOf(b) = <<b, 1>> /\ b = 4 + 21 * j + 20
    BY <1>1, <1>2 DEF JointFieldOf
  <2>2. JointFieldOf(b) \in JointFields(4 + 21 * j) /\ Covers(JointFieldOf(b), b)
    BY <2>1 DEF JointFields, Covers
  <2>3. ASSUME NEW i \in 0 .. 6, NEW f \in JointFields(4 + 21 * i), Covers(f, b)
        PROVE f = JointFieldOf(b)
    <3>1. CASE f = <<4 + 21 * i + 20, 1>>
      BY <2>1, <2>3, <3>1 DEF Covers
    <3>2. ASSUME NEW k \in 0 .. 4, f = <<4 + 21 * i + 4 * k, 4>>  PROVE FALSE
      <4>1. 4 + 21 * i + 4 * k <= b /\ b < 4 + 21 * i + 4 * k + 4
        BY <2>3, <3>2 DEF Covers
      <4>. QED  BY <2>1, <4>1
    <3>. QED  BY <2>3, <3>1, <3>2 DEF JointFields
  <2>. QED  BY <2>2, <2>3
<1>3. CASE place # 20
  <2>1. PICK k \in 0 .. 4, r \in 0 .. 3 : place = 4 * k + r /\ r = place % 4
    <3>1. place \div 4 \in 0 .. 4 /\ place % 4 \in 0 .. 3 /\ place = 4 * (place \div 4) + (place % 4)
      BY <1>3
    <3>. QED  BY <3>1
  <2>2. JointFieldOf(b) = <<b - r, 4>> /\ b = 4 + 21 * j + 4 * k + r
    BY <1>1, <1>3, <2>1 DEF JointFieldOf
  <2>3. JointFieldOf(b) = <<4 + 21 * j + 4 * k, 4>>
    BY <2>2
  <2>4. JointFieldOf(b) \in JointFields(4 + 21 * j) /\ Covers(JointFieldOf(b), b)
    BY <2>2, <2>3 DEF JointFields, Covers
  <2>5. ASSUME NEW i \in 0 .. 6, NEW f \in JointFields(4 + 21 * i), Covers(f, b)
        PROVE f = JointFieldOf(b)
    <3>1. CASE f = <<4 + 21 * i + 20, 1>>
      <4>1. 4 + 21 * i + 20 = b
        BY <2>5, <3>1 DEF Covers
      <4>. QED  BY <1>1, <1>3, <4>1
    <3>2. ASSUME NEW l \in 0 .. 4, f = <<4 + 21 * i + 4 * l, 4>>  PROVE f = JointFieldOf(b)
      <4>1. 4 + 21 * i + 4 * l <= b /\ b < 4 + 21 * i + 4 * l + 4
        BY <2>5, <3>2 DEF Covers
      <4>2. i = j /\ l = k
        BY <2>2, <4>1
      <4>. QED  BY <2>3, <3>2, <4>2
    <3>. QED  BY <2>5, <3>1, <3>2 DEF JointFields
  <2>. QED  BY <2>4, <2>5
<1>. QED  BY <1>2, <1>3

StateFields(len) ==
    {<<0, 2>>, <<2, 2>>} \cup (UNION {JointFields(4 + 21 * i) : i \in 0 .. 6})
    \cup IF len = 153 THEN {<<151, 2>>} ELSE {}

\* What is taken for a state frame has seven joints and is of the old layout or of the new.
LEMMA StateLengths ==
  ASSUME NEW len \in Nat, decode_status(len) # None
  PROVE  len \in {151, 153} /\ decode_status(len)[1] = StateFields(len)
<1>1. ~ (len < 4) /\ Joints(len) = 7 /\ Rest(len) \in {0, 2}
  BY DEF decode_status, RestFits
<1>2. Rest(len) = len - 151
  BY <1>1 DEF Rest
<1>3. len \in {151, 153} /\ (Rest(len) = 2 <=> len = 153)
  BY <1>1, <1>2
<1>4. decode_status(len)[1] =
        {<<0, 2>>, <<2, 2>>} \cup (UNION {JointFields(4 + 21 * i) : i \in 0 .. Joints(len) - 1})
        \cup IF Rest(len) = 2 THEN {<<len - 2, 2>>} ELSE {}
  BY <1>1 DEF decode_status, RestFits
<1>5. 0 .. Joints(len) - 1 = 0 .. 6 /\ (len = 153 => len - 2 = 151)
  BY <1>1
<1>. QED  BY <1>3, <1>4, <1>5, ZenonT(40) DEF StateFields

\* Every byte of a state frame is read by one field, and no field reads behind its end.
THEOREM EveryByteIsReadOnce ==
  ASSUME NEW len \in Nat, decode_status(len) # None, NEW b \in Nat
  PROVE  Cardinality({f \in decode_status(len)[1] : f[1] <= b /\ b < f[1] + f[2]})
           = IF b < len THEN 1 ELSE 0
<1>. DEFINE joints == UNION {JointFields(4 + 21 * i) : i \in 0 .. 6}
            fields == StateFields(len)
            hits == {f \in fields : Covers(f, b)}
<1>1. len \in {151, 153} /\ decode_status(len)[1] = fields
  BY StateLengths
<1>2. {f \in decode_status(len)[1] : f[1] <= b /\ b < f[1] + f[2]} = hits
  BY <1>1 DEF Covers
<1>3. \A f \in joints : Covers(f, b) => b \in 4 .. 150
  <2>1. SUFFICES ASSUME NEW i \in 0 .. 6, NEW f \in JointFields(4 + 21 * i), Covers(f, b)
                 PROVE b \in 4 .. 150
    OBVIOUS
  <2>2. CASE f = <<4 + 21 * i + 20, 1>>
    BY <2>1, <2>2 DEF Covers
  <2>3. ASSUME NEW k \in 0 .. 4, f = <<4 + 21 * i + 4 * k, 4>>  PROVE b \in 4 .. 150
    BY <2>1, <2>3 DEF Covers
  <2>. QED  BY <2>1, <2>2, <2>3 DEF JointFields
<1>4. /\ Covers(<<0, 2>>, b) <=> b < 2
      /\ Covers(<<2, 2>>, b) <=> b >= 2 /\ b < 4
      /\ Covers(<<151, 2>>, b) <=> b >= 151 /\ b < 153
  BY DEF Covers
<1>5. b \in 4 .. 150 => /\ JointFieldOf(b) \in joints /\ Covers(JointFieldOf(b), b)
                        /\ \A f \in joints : Covers(f, b) => f = JointFieldOf(b)
  BY OneJointFieldOf
<1>8. fields = {<<0, 2>>, <<2, 2>>} \cup joints \cup IF len = 153 THEN {<<151, 2>>} ELSE {}
  BY DEF StateFields
<1>. HIDE DEF joints, fields
<1>6. CASE b < len
  <2>1. b < 2 \/ (b >= 2 /\ b < 4) \/ b \in 4 .. 150 \/ (b >= 151 /\ b < 153 /\ len = 153)
    BY <1>1, <1>6
  <2>2. hits = {FieldOf(b)}
    <3>1. CASE b < 2
      BY <1>3, <1>4, <1>8, <3>1 DEF FieldOf
    <3>2. CASE b >= 2 /\ b < 4
      BY <1>3, <1>4, <1>8, <3>2 DEF FieldOf
    <3>3. CASE b \in 4 .. 150
      BY <1>4, <1>5, <1>8, <3>3 DEF FieldOf
    <3>4. CASE b >= 151 /\ b < 153 /\ len = 153
      BY <1>3, <1>4, <1>8, <3>4 DEF FieldOf
    <3>. QED  BY <2>1, <3>1, <3>2, <3>3, <3>4
  <2>. HIDE DEF hits
  <2>3. Cardinality(hits) = 1
    BY <2>2, FS_Singleton, Zenon
  <2>. QED  BY <1>2, <1>6, <2>3
<1>7. CASE ~ (b < len)
  <2>1. hits = {}
    BY <1>1, <1>3, <1>4, <1>7, <1>8
  <2>. HIDE DEF hits
  <2>2. Cardinality(hits) = 0
    BY <2>1, FS_EmptySet, Zenon
  <2>. QED  BY <1>2, <1>7, <2>2
<1>. QED  BY <1>6, <1>7

\* The flag word is its names, its mode and its two bits.
LEMMA FlagsAreRead ==
  ASSUME NEW flags \in 0 .. 2047
  PROVE  Reading(flags) = flags
<1>. DEFINE named(k) == IF k \in flag_names(flags) THEN 2^k ELSE 0
<1>1. /\ named(0) = flags % 2
      /\ named(1) = 2 * ((flags \div 2) % 2)
      /\ named(2) = 4 * ((flags \div 4) % 2)
      /\ named(3) = 8 * ((flags \div 8) % 2)
      /\ named(4) = 16 * ((flags \div 16) % 2)
      /\ named(5) = 32 * ((flags \div 32) % 2)
  BY DEF flag_names, Bit
<1>2. /\ mode(flags) = (flags \div 64) % 8
      /\ (IF enabled(flags) THEN 512 ELSE 0) = 512 * ((flags \div 512) % 2)
      /\ (IF cart_busy(flags) THEN 1024 ELSE 0) = 1024 * ((flags \div 1024) % 2)
  BY DEF mode, enabled, cart_busy, Bit
<1>3. flags = (flags % 2) + 2 * ((flags \div 2) % 2) + 4 * ((flags \div 4) % 2)
              + 8 * ((flags \div 8) % 2) + 16 * ((flags \div 16) % 2) + 32 * ((flags \div 32) % 2)
              + 64 * ((flags \div 64) % 8) + 512 * ((flags \div 512) % 2)
              + 1024 * ((flags \div 1024) % 2)
  <2>1. /\ flags = (flags % 2) + 2 * (flags \div 2)
        /\ flags \div 2 = ((flags \div 2) % 2) + 2 * (flags \div 4)
        /\ flags \div 4 = ((flags \div 4) % 2) + 2 * (flags \div 8)
    OBVIOUS
  <2>2. /\ flags \div 8 = ((flags \div 8) % 2) + 2 * (flags \div 16)
        /\ flags \div 16 = ((flags \div 16) % 2) + 2 * (flags \div 32)
        /\ flags \div 32 = ((flags \div 32) % 2) + 2 * (flags \div 64)
    OBVIOUS
  <2>3. /\ flags \div 64 = ((flags \div 64) % 8) + 8 * (flags \div 512)
        /\ flags \div 512 = ((flags \div 512) % 2) + 2 * (flags \div 1024)
        /\ flags \div 1024 = (flags \div 1024) % 2
    OBVIOUS
  <2>. QED  BY <2>1, <2>2, <2>3
<1>. QED  BY <1>1, <1>2, <1>3 DEF Reading

\* decode_status reads each byte of a state frame once, and the fault names, mode and status bits
\* of RobotState are all there is in its flag word.
THEOREM StateFrameIsReadHolds == Spec => []StateFrameIsRead
<1>1. AllIsRead
  <2>1. ASSUME NEW len \in 0 .. 255, decode_status(len) # None  PROVE ReadOnce(len)
    <3>1. len \in Nat /\ \A b \in 0 .. 255 : b \in Nat
      OBVIOUS
    <3>. QED  BY <2>1, <3>1, EveryByteIsReadOnce DEF ReadOnce
  <2>2. 2^11 - 1 = 2047
    OBVIOUS
  <2>. QED  BY <2>1, <2>2, FlagsAreRead, SMTT(60) DEF AllIsRead
<1>2. Init => StateFrameIsRead
  BY <1>1 DEF StateFrameIsRead
<1>3. StateFrameIsRead /\ [Next]_vars => StateFrameIsRead'
  BY <1>1 DEF StateFrameIsRead
<1>. QED  BY <1>2, <1>3, PTL DEF Spec

\* The order of versions, for versions of any size: one of two different ones is older, never both,
\* and what is older than an older one is older.
THEOREM OlderIsAnOrder ==
  ASSUME NEW a \in Nat \X Nat \X Nat, NEW b \in Nat \X Nat \X Nat, NEW c \in Nat \X Nat \X Nat
  PROVE  /\ a # b => (Older(a, b) <=> ~ Older(b, a))
         /\ ~ Older(a, a)
         /\ Older(a, b) /\ Older(b, c) => Older(a, c)
  BY DEF Older

\* It is the order of the numbers that GateHolds compares, as long as these have a place for
\* every minor version and every patch.
THEOREM OlderIsNumeric ==
  ASSUME NEW a \in Nat \X (0 .. 99) \X (0 .. 99), NEW b \in Nat \X (0 .. 99) \X (0 .. 99)
  PROVE  Older(a, b) <=> Worth(a) < Worth(b)
<1>1. /\ a[1] \in Nat /\ a[2] \in 0 .. 99 /\ a[3] \in 0 .. 99
      /\ b[1] \in Nat /\ b[2] \in 0 .. 99 /\ b[3] \in 0 .. 99
  OBVIOUS
<1>2. PICK a1 \in Nat, a2 \in 0 .. 99, a3 \in 0 .. 99, b1 \in Nat, b2 \in 0 .. 99, b3 \in 0 .. 99 :
        a1 = a[1] /\ a2 = a[2] /\ a3 = a[3] /\ b1 = b[1] /\ b2 = b[2] /\ b3 = b[3]
  BY <1>1
<1>3. (10000 * a1 + 100 * a2 + a3 < 10000 * b1 + 100 * b2 + b3)
      <=> IF a1 # b1 THEN a1 < b1 ELSE IF a2 # b2 THEN a2 < b2 ELSE a3 < b3
  <2>1. CASE a1 < b1
    BY <2>1
  <2>2. CASE b1 < a1
    BY <2>2
  <2>3. CASE a1 = b1
    BY <2>3
  <2>. QED  BY <2>1, <2>2, <2>3
<1>4. Older(a, b) <=> IF a1 # b1 THEN a1 < b1 ELSE IF a2 # b2 THEN a2 < b2 ELSE a3 < b3
  BY <1>2 DEF Older
<1>5. Worth(a) = 10000 * a1 + 100 * a2 + a3 /\ Worth(b) = 10000 * b1 + 100 * b2 + b3
  BY <1>2 DEF Worth
<1>. QED  BY <1>3, <1>4, <1>5
=============================================================================
