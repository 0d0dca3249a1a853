--------------------------- MODULE Dxl2LinkProofs ----------------------------
(***************************************************************************)
(* Types of the protocol 2.0 link; that a link on which nothing is lost or *)
(* late hands over what the servo said, since maker and parser agree, byte *)
(* by byte and with the CRC, on every payload; and where parameters are    *)
(* stored, whatever is lost or late.                                       *)
(***************************************************************************)
EXTENDS Dxl2Link, WellFoundedInduction, SequenceTheorems, TLAPS

----------------------------------------------------------------------------
(* Induction over the naturals, as a fact about sets.                       *)

LEMMA LeastNat ==
  ASSUME NEW T \in SUBSET Nat, T # {}
  PROVE  \E n \in T : \A m \in T : n <= m
<1> DEFINE R == {p \in Nat \X Nat : p[1] < p[2]}
<1>1. IsWellFoundedOn(R, Nat)
  BY NatLessThanWellFounded DEF OpToRel
<1>2. PICK n \in T : \A m \in T : <<m, n>> \notin R
  <2> HIDE DEF R
  <2>1. QED
    BY <1>1, WFMin
<1>3. \A m \in T : ~(m < n)
  BY <1>2
<1>4. QED
  BY <1>3

LEMMA Induct ==
  ASSUME NEW S, 0 \in S, \A n \in Nat : n \in S => n + 1 \in S
  PROVE  Nat \subseteq S
<1> DEFINE T == Nat \ S
<1>1. SUFFICES ASSUME T # {} PROVE FALSE
  OBVIOUS
<1>2. PICK n \in T : \A m \in T : n <= m
  BY <1>1, LeastNat
<1>3. n # 0
  OBVIOUS
<1>4. n - 1 \in Nat /\ n - 1 \notin T
  BY <1>2, <1>3
<1>5. QED
  BY <1>4

(* A function given by its first value and the step to the next one exists. *)
Runs(f, base, step, N, S) ==
  /\ f \in [0 .. N -> S] /\ f[0] = base
  /\ \A n \in 1 .. N : f[n] = step[f[n - 1], n]

LEMMA RunExists ==
  ASSUME NEW S, NEW base \in S, NEW N \in Nat, NEW step \in [S \X (1 .. N) -> S]
  PROVE  \E f : Runs(f, base, step, N, S)
<1> DEFINE T == {n \in Nat : n <= N => \E f : Runs(f, base, step, n, S)}
<1>1. 0 \in T
  <2>1. Runs([n \in 0 .. 0 |-> base], base, step, 0, S)
    BY DEF Runs
  <2>2. QED
    BY <2>1
<1>2. ASSUME NEW n \in Nat, n \in T PROVE n + 1 \in T
  <2>1. SUFFICES ASSUME n + 1 <= N PROVE \E f : Runs(f, base, step, n + 1, S)
    OBVIOUS
  <2>2. PICK f : Runs(f, base, step, n, S)
    BY <1>2, <2>1
  <2> DEFINE last_ == step[f[n], n + 1]
             g == [i \in 0 .. n + 1 |-> IF i = n + 1 THEN last_ ELSE f[i]]
  <2>3. f \in [0 .. n -> S] /\ f[n] \in S /\ n + 1 \in 1 .. N /\ n \in 0 .. n
    <3>1. n + 1 \in 1 .. N /\ n \in 0 .. n
      BY <2>1
    <3>2. QED
      BY <2>2, <3>1 DEF Runs
  <2>4. last_ \in S
    BY <2>3
  <2>5. g \in [0 .. n + 1 -> S] /\ g[0] = base
    <3> HIDE DEF last_
    <3>1. \A i \in 0 .. n + 1 : i = n + 1 \/ i \in 0 .. n
      OBVIOUS
    <3>2. 0 \in 0 .. n + 1 /\ 0 # n + 1
      OBVIOUS
    <3>3. f[0] = base
      BY <2>2 DEF Runs
    <3>4. QED
      BY <2>3, <2>4, <3>1, <3>2, <3>3
  <2>6. ASSUME NEW i \in 1 .. n + 1 PROVE g[i] = step[g[i - 1], i]
    <3>1. CASE i = n + 1
      <4>1. i \in 0 .. n + 1 /\ i - 1 \in 0 .. n + 1 /\ i - 1 = n /\ i - 1 # n + 1
        BY <3>1
      <4> HIDE DEF last_
      <4>2. g[i] = last_ /\ g[i - 1] = f[n]
        BY <3>1, <4>1
      <4> USE DEF last_
      <4>3. QED
        BY <3>1, <4>2
    <3>2. CASE i # n + 1
      <4>1. /\ i \in 1 .. n /\ i \in 0 .. n + 1
            /\ i - 1 \in 0 .. n + 1 /\ i - 1 # n + 1
        BY <3>2
      <4> HIDE DEF last_
      <4>2. g[i] = f[i] /\ g[i - 1] = f[i - 1]
        BY <3>2, <4>1
      <4>3. f[i] = step[f[i - 1], i]
        BY <2>2, <4>1 DEF Runs
      <4>4. QED
        BY <4>2, <4>3
    <3>3. QED
      BY <3>1, <3>2
  <2>7. QED
    BY <2>5, <2>6 DEF Runs
<1>3. Nat \subseteq T
  <2> HIDE DEF T
  <2>1. QED
    BY <1>1, <1>2, Induct
<1>4. QED
  BY <1>3

----------------------------------------------------------------------------
(* The CRC has 16 bits, and grows byte by byte.                             *)

LEMMA WordIs == \A w \in Nat : w <= 65535 => w \in Word
<1>1. \A w \in Nat : w % 65536 \in Word
  BY DEF Word
<1>2. \A w \in Nat : w % 65536 = w => w \in Word
  BY <1>1
<1>3. \A w \in Nat : w <= 65535 => w % 65536 = w
  OBVIOUS
<1>4. QED
  BY <1>2, <1>3

LEMMA HighByte == \A w \in Word : w \div 256 \in Byte /\ w % 256 \in Byte
<1>1. SUFFICES ASSUME NEW w \in Word
               PROVE  w \div 256 \in Byte /\ w % 256 \in Byte
  OBVIOUS
<1>2. w \in Nat /\ w <= 65535
  BY DEF Word
<1>3. w \div 256 \in Nat
  BY <1>2
<1>4. w \div 256 <= 255
  BY <1>2
<1>5. w % 256 \in Byte
  BY <1>2 DEF Byte
<1>6. QED
  BY <1>3, <1>4, <1>5 DEF Byte

LEMMA HalfByte == \A b \in Byte : b \div 16 \in 0 .. 15 /\ b % 16 \in 0 .. 15
<1>1. SUFFICES ASSUME NEW b \in Byte
               PROVE  b \div 16 \in 0 .. 15 /\ b % 16 \in 0 .. 15
  OBVIOUS
<1>2. b \in Nat /\ b <= 255
  BY DEF Byte
<1>3. b \div 16 \in Nat
  BY <1>2
<1>4. b \div 16 <= 15
  BY <1>2
<1>5. b % 16 \in 0 .. 15
  BY <1>2
<1>6. QED
  BY <1>3, <1>4, <1>5

LEMMA XorBitType == \A a, b \in 0 .. 15 : XorBit[a, b] \in 0 .. 15
<1>1. SUFFICES ASSUME NEW a \in 0 .. 15, NEW b \in 0 .. 15
               PROVE  XorBit[a, b] \in 0 .. 15
  OBVIOUS
<1> DEFINE D(k) == IF (a \div k) % 2 = (b \div k) % 2 THEN 0 ELSE k
<1>2. XorBit[a, b] = D(1) + D(2) + D(4) + D(8)
  <2>1. <<a, b>> \in (0 .. 15) \X (0 .. 15)
    OBVIOUS
  <2>2. QED
    BY <2>1 DEF XorBit
<1>3. D(1) \in {0, 1} /\ D(2) \in {0, 2} /\ D(4) \in {0, 4} /\ D(8) \in {0, 8}
  OBVIOUS
<1>4. \A p \in {0, 1}, q \in {0, 2}, r \in {0, 4}, s \in {0, 8} : p + q + r + s \in 0 .. 15
  OBVIOUS
<1>5. QED
  <2> HIDE DEF D
  <2>1. QED
    BY <1>2, <1>3, <1>4

LEMMA Xor8Type == \A a, b \in Byte : Xor8(a, b) \in Byte
<1>1. SUFFICES ASSUME NEW a \in Byte, NEW b \in Byte PROVE Xor8(a, b) \in Byte
  OBVIOUS
<1>2. /\ a \div 16 \in 0 .. 15 /\ a % 16 \in 0 .. 15
      /\ b \div 16 \in 0 .. 15 /\ b % 16 \in 0 .. 15
  BY HalfByte
<1>3. XorBit[a \div 16, b \div 16] \in 0 .. 15 /\ XorBit[a % 16, b % 16] \in 0 .. 15
  BY <1>2, XorBitType
<1>4. \A x, y \in 0 .. 15 : 16 * x + y \in Byte
  BY DEF Byte
<1>5. QED
  BY <1>3, <1>4 DEF Xor8

LEMMA Xor16Type == \A a, b \in Word : Xor16(a, b) \in Word
<1>1. SUFFICES ASSUME NEW a \in Word, NEW b \in Word PROVE Xor16(a, b) \in Word
  OBVIOUS
<1>2. /\ a \div 256 \in Byte /\ a % 256 \in Byte
      /\ b \div 256 \in Byte /\ b % 256 \in Byte
  BY HighByte
<1>3. Xor8(a \div 256, b \div 256) \in Byte /\ Xor8(a % 256, b % 256) \in Byte
  BY <1>2, Xor8Type
<1>4. \A x, y \in Byte : 256 * x + y \in Word
  <2> TAKE x, y \in Byte
  <2>1. 256 * x + y \in Nat /\ 256 * x + y <= 65535
    BY DEF Byte
  <2>2. QED
    BY <2>1, WordIs
<1>5. QED
  BY <1>3, <1>4 DEF Xor16

LEMMA TableType == \A i \in Byte : crc_table[i] \in Word
<1>1. SUFFICES ASSUME NEW i \in Byte PROVE crc_table[i] \in Word
  OBVIOUS
<1> DEFINE Next8(w) == LET twice == (2 * w) % 65536
                       IN IF w >= 32768 THEN Xor16(twice, 32773) ELSE twice
           step == [x \in Word \X (1 .. 8) |-> Next8(x[1])]
           IsShift(s) == s = [n \in 0 .. 8 |->
                                IF n = 0 THEN 256 * i ELSE Next8(s[n - 1])]
<1>2. ASSUME NEW w \in Word PROVE Next8(w) \in Word
  <2>1. (2 * w) % 65536 \in Word /\ 32773 \in Word
    BY DEF Word
  <2>2. QED
    BY <2>1, Xor16Type
<1>3. 256 * i \in Word
  BY DEF Byte, Word
<1>4. PICK f : Runs(f, 256 * i, step, 8, Word)
  <2>1. step \in [Word \X (1 .. 8) -> Word]
    BY <1>2
  <2> HIDE DEF step
  <2>2. QED
    BY <1>3, <2>1, RunExists
<1>5. ASSUME NEW n \in 1 .. 8 PROVE f[n - 1] \in Word /\ f[n] = Next8(f[n - 1])
  <2>1. n - 1 \in 0 .. 8
    OBVIOUS
  <2>2. f[n - 1] \in Word /\ f[n] = step[f[n - 1], n]
    <3> HIDE DEF step
    <3>1. QED
      BY <1>4, <2>1 DEF Runs
  <2> HIDE DEF Next8
  <2>3. <<f[n - 1], n>> \in Word \X (1 .. 8)
    BY <2>2
  <2>4. QED
    BY <2>2, <2>3
<1>6. IsShift(f)
  <2> HIDE DEF step, Next8
  <2>1. f \in [0 .. 8 -> Word] /\ f[0] = 256 * i
    BY <1>4 DEF Runs
  <2>2. \A n \in 0 .. 8 : n = 0 \/ n \in 1 .. 8
    OBVIOUS
  <2>3. QED
    BY <1>5, <2>1, <2>2
<1>7. crc_table[i] = (CHOOSE s : IsShift(s))[8]
  BY DEF crc_table
<1>8. PICK s : s = (CHOOSE t : IsShift(t)) /\ IsShift(s)
  <2> HIDE DEF IsShift
  <2>1. QED
    BY <1>6
<1>9. s[0] = 256 * i /\ \A n \in 1 .. 8 : s[n] = Next8(s[n - 1])
  <2>1. 0 \in 0 .. 8 /\ \A n \in 1 .. 8 : n \in 0 .. 8 /\ n # 0
    OBVIOUS
  <2> HIDE DEF Next8
  <2>2. QED
    BY <1>8, <2>1
<1>10. s[8] \in Word
  <2> HIDE DEF Next8, IsShift
  <2>1. s[1] = Next8(s[0]) /\ s[2] = Next8(s[1]) /\ s[3] = Next8(s[2])
        /\ s[4] = Next8(s[3]) /\ s[5] = Next8(s[4]) /\ s[6] = Next8(s[5])
        /\ s[7] = Next8(s[6]) /\ s[8] = Next8(s[7])
    BY <1>9
  <2>2. s[0] \in Word
    BY <1>3, <1>9
  <2>3. QED
    BY <1>2, <2>1, <2>2
<1>11. QED
  BY <1>7, <1>8, <1>10

LEMMA CrcType == \A c \in Word, b \in Byte : Crc(c, b) \in Word
<1>1. SUFFICES ASSUME NEW c \in Word, NEW b \in Byte PROVE Crc(c, b) \in Word
  OBVIOUS
<1>2. (256 * c) % 65536 \in Word /\ c \div 256 \in Byte
  <2>1. (256 * c) % 65536 \in Word
    BY DEF Word
  <2>2. QED
    BY <2>1, HighByte
<1>3. crc_table[Xor8(c \div 256, b)] \in Word
  BY <1>2, Xor8Type, TableType
<1>4. QED
  BY <1>2, <1>3, Xor16Type DEF Crc

LEMMA CrcRuns ==
  ASSUME NEW bytes \in Seq(Byte)
  PROVE  /\ CrcUpTo(bytes)[0] = 0 /\ CrcUpTo(bytes) \in [0 .. Len(bytes) -> Word]
         /\ \A n \in 1 .. Len(bytes) :
              CrcUpTo(bytes)[n] = Crc(CrcUpTo(bytes)[n - 1], bytes[n])
<1> DEFINE N == Len(bytes)
           step == [x \in Word \X (1 .. N) |-> Crc(x[1], bytes[x[2]])]
           IsCrc(f) == f = [n \in 0 .. N |->
                              IF n = 0 THEN 0 ELSE Crc(f[n - 1], bytes[n])]
<1>1. N \in Nat /\ \A n \in 1 .. N : bytes[n] \in Byte
  OBVIOUS
<1>2. step \in [Word \X (1 .. N) -> Word]
  <2> HIDE DEF N
  <2>1. QED
    BY <1>1, CrcType
<1>3. PICK f : Runs(f, 0, step, N, Word)
  <2>1. 0 \in Word
    BY DEF Word
  <2> HIDE DEF step, N
  <2>2. QED
    BY <1>1, <1>2, <2>1, RunExists
<1>4. ASSUME NEW n \in 1 .. N PROVE f[n] = Crc(f[n - 1], bytes[n])
  <2> HIDE DEF N
  <2>1. n - 1 \in 0 .. N
    BY <1>1
  <2>2. f[n - 1] \in Word /\ f[n] = step[f[n - 1], n]
    BY <1>3, <2>1 DEF Runs
  <2>3. QED
    BY <2>2
<1>5. IsCrc(f)
  <2> HIDE DEF N, step
  <2>1. f \in [0 .. N -> Word] /\ f[0] = 0
    BY <1>3 DEF Runs
  <2>2. \A n \in 0 .. N : n = 0 \/ n \in 1 .. N
    BY <1>1
  <2>3. QED
    BY <1>4, <2>1, <2>2
<1>6. CrcUpTo(bytes) = CHOOSE g : IsCrc(g)
  BY DEF CrcUpTo
<1>7. IsCrc(CrcUpTo(bytes))
  <2> HIDE DEF IsCrc
  <2>1. QED
    BY <1>5, <1>6
<1> DEFINE c == CrcUpTo(bytes)
<1>8. /\ c[0] = 0 /\ \A n \in 1 .. N : c[n] = Crc(c[n - 1], bytes[n])
      /\ c = [n \in 0 .. N |-> c[n]]
  <2> HIDE DEF N, c
  <2>1. 0 \in 0 .. N /\ \A n \in 1 .. N : n \in 0 .. N /\ n # 0
    BY <1>1
  <2>2. IsCrc(c)
    BY <1>7 DEF c
  <2>3. QED
    BY <2>1, <2>2
<1>9. \A n \in 0 .. N : c[n] \in Word
  <2> DEFINE T == {n \in Nat : n <= N => c[n] \in Word}
  <2> HIDE DEF N, c
  <2>1. 0 \in T
    <3>1. 0 \in Nat /\ 0 \in Word
      BY DEF Word
    <3>2. QED
      BY <1>8, <3>1
  <2>2. ASSUME NEW n \in Nat, n \in T PROVE n + 1 \in T
    <3>1. SUFFICES ASSUME n + 1 <= N PROVE c[n + 1] \in Word
      OBVIOUS
    <3>2. PICK m \in 1 .. N : m = n + 1
      BY <1>1, <3>1
    <3>3. m - 1 = n /\ c[n] \in Word
      BY <1>1, <2>2, <3>1, <3>2
    <3>4. c[m] = Crc(c[n], bytes[m])
      BY <1>8, <3>3
    <3>5. QED
      BY <1>1, <3>2, <3>3, <3>4, CrcType
  <2>3. Nat \subseteq T
    <3> HIDE DEF T
    <3>1. QED
      BY <2>1, <2>2, Induct
  <2>4. QED
    BY <1>1, <2>3
<1>10. QED
  BY <1>8, <1>9

LEMMA CrcOfType == \A bytes \in Seq(Byte) : CrcOf(bytes) \in Word
<1>1. SUFFICES ASSUME NEW bytes \in Seq(Byte) PROVE CrcOf(bytes) \in Word
  OBVIOUS
<1>2. CrcUpTo(bytes) \in [0 .. Len(bytes) -> Word]
  BY CrcRuns
<1>3. Len(bytes) \in 0 .. Len(bytes)
  OBVIOUS
<1>4. QED
  BY <1>2, <1>3 DEF CrcOf

----------------------------------------------------------------------------
(* Suffixes, and what byte stuffing makes of parameters.                    *)

LEMMA ReverseIs ==
  ASSUME NEW s \in Seq(Byte)
  PROVE  /\ Reverse(s) \in Seq(Byte) /\ Len(Reverse(s)) = Len(s)
         /\ \A i \in 1 .. Len(s) : Reverse(s)[i] = s[(Len(s) - i) + 1]
<1>1. Len(s) \in Nat /\ \A i \in 1 .. Len(s) : (Len(s) - i) + 1 \in 1 .. Len(s)
  OBVIOUS
<1>2. \A i \in 1 .. Len(s) : s[(Len(s) - i) + 1] \in Byte
  BY <1>1
<1>3. QED
  <2> DEFINE e(i) == s[(Len(s) - i) + 1]
             n == Len(s)
  <2>1. Reverse(s) = [i \in 1 .. n |-> e(i)]
    BY DEF Reverse
  <2>2. n \in Nat /\ \A i \in 1 .. n : e(i) \in Byte
    BY <1>1, <1>2
  <2> HIDE DEF e, n
  <2>3. [i \in 1 .. n |-> e(i)] \in Seq(Byte) /\ Len([i \in 1 .. n |-> e(i)]) = n
    BY <2>2
  <2>4. QED
    BY <2>1, <2>3 DEF e, n

LEMMA SuffixIs ==
  ASSUME NEW s \in Seq(Byte), NEW t \in Seq(Byte)
  PROVE  IsSuffix(s, t) <=>
           /\ Len(s) <= Len(t)
           /\ \A i \in 1 .. Len(s) : t[(Len(t) - Len(s)) + i] = s[i]
<1> DEFINE a == Reverse(s)
           b == Reverse(t)
<1>1. /\ a \in Seq(Byte) /\ Len(a) = Len(s)
      /\ \A i \in 1 .. Len(s) : a[i] = s[(Len(s) - i) + 1]
      /\ b \in Seq(Byte) /\ Len(b) = Len(t)
      /\ \A i \in 1 .. Len(t) : b[i] = t[(Len(t) - i) + 1]
  BY ReverseIs
<1>2. Len(s) \in Nat /\ Len(t) \in Nat
  OBVIOUS
<1>3. IsSuffix(s, t) <=> Len(s) <= Len(t) /\ SubSeq(a, 1, Len(s)) = SubSeq(b, 1, Len(s))
  BY <1>1 DEF IsSuffix, IsPrefix
<1>4. ASSUME Len(s) <= Len(t)
      PROVE  SubSeq(a, 1, Len(s)) = SubSeq(b, 1, Len(s)) <=>
               \A i \in 1 .. Len(s) : t[(Len(t) - Len(s)) + i] = s[i]
  <2> HIDE DEF a, b
  <2>1. SubSeq(a, 1, Len(s)) = a
    BY <1>1, SubSeqFull
  <2> DEFINE c == SubSeq(b, 1, Len(s))
  <2>2. /\ c \in Seq(Byte) /\ Len(c) = Len(s)
        /\ \A i \in 1 .. Len(s) : c[i] = b[i]
    <3>1. \A i \in 1 .. Len(s) : i \in 1 .. Len(b) /\ b[i] \in Byte
      BY <1>1, <1>2, <1>4
    <3>2. /\ c \in Seq(Byte) /\ Len(c) = IF 1 <= Len(s) THEN Len(s) - 1 + 1 ELSE 0
          /\ \A i \in 1 .. Len(s) - 1 + 1 : c[i] = b[1 + i - 1]
      BY <1>2, <3>1, SubSeqProperties
    <3>3. QED
      BY <1>2, <3>2
  <2>3. a = c <=> \A i \in 1 .. Len(s) : a[i] = c[i]
    <3> HIDE DEF c
    <3>1. QED
      BY <1>1, <2>2, SeqEqual
  <2>4. \A i \in 1 .. Len(s) : /\ a[i] = s[(Len(s) - i) + 1]
                               /\ c[i] = t[(Len(t) - i) + 1]
    <3>1. \A i \in 1 .. Len(s) : i \in 1 .. Len(t)
      BY <1>2, <1>4
    <3>2. QED
      BY <1>1, <2>2, <3>1
  <2>5. ASSUME a = c, NEW i \in 1 .. Len(s)
        PROVE  t[(Len(t) - Len(s)) + i] = s[i]
    <3>0. (Len(s) - i) + 1 \in 1 .. Len(s)
      BY <1>2
    <3>1. PICK j \in 1 .. Len(s) : j = (Len(s) - i) + 1
      BY <3>0
    <3>2. (Len(s) - j) + 1 = i /\ (Len(t) - j) + 1 = (Len(t) - Len(s)) + i
      BY <1>2, <3>1
    <3>3. a[j] = s[i] /\ c[j] = t[(Len(t) - Len(s)) + i]
      BY <2>4, <3>2
    <3>4. QED
      BY <2>5, <3>3
  <2>6. ASSUME \A i \in 1 .. Len(s) : t[(Len(t) - Len(s)) + i] = s[i],
               NEW j \in 1 .. Len(s)
        PROVE  a[j] = c[j]
    <3>0. (Len(s) - j) + 1 \in 1 .. Len(s)
      BY <1>2
    <3>1. PICK i \in 1 .. Len(s) : i = (Len(s) - j) + 1
      BY <3>0
    <3>2. (Len(s) - j) + 1 = i /\ (Len(t) - j) + 1 = (Len(t) - Len(s)) + i
      BY <1>2, <3>1
    <3>3. a[j] = s[i] /\ c[j] = t[(Len(t) - Len(s)) + i]
      BY <2>4, <3>2
    <3>4. QED
      BY <2>6, <3>3
  <2>7. QED
    <3> HIDE DEF c
    <3>1. a = c <=> \A i \in 1 .. Len(s) : t[(Len(t) - Len(s)) + i] = s[i]
      BY <2>3, <2>5, <2>6
    <3>2. QED
      BY <2>1, <3>1 DEF c
<1>5. QED
  BY <1>3, <1>4

LEMMA HeaderSuffix ==
  ASSUME NEW t \in Seq(Byte)
  PROVE  IsSuffix(<<FF, FF, FD>>, t) <=>
           /\ 3 <= Len(t) /\ t[Len(t) - 2] = FF
           /\ t[Len(t) - 1] = FF /\ t[Len(t)] = FD
<1> DEFINE s == <<FF, FF, FD>>
<1>1. /\ s \in Seq(Byte) /\ Len(s) = 3 /\ s[1] = FF /\ s[2] = FF /\ s[3] = FD
  BY DEF FF, FD, Byte
<1>2. Len(t) \in Nat
  OBVIOUS
<1>3. /\ (Len(t) - 3) + 1 = Len(t) - 2 /\ (Len(t) - 3) + 2 = Len(t) - 1
      /\ (Len(t) - 3) + 3 = Len(t)
  BY <1>2
<1> HIDE DEF s
<1>4. IsSuffix(s, t) <=> 3 <= Len(t) /\ \A i \in 1 .. 3 : t[(Len(t) - 3) + i] = s[i]
  <2>1. s \in Seq(Byte)
    BY <1>1
  <2>2. IsSuffix(s, t) <=>
          /\ Len(s) <= Len(t)
          /\ \A i \in 1 .. Len(s) : t[(Len(t) - Len(s)) + i] = s[i]
    BY <2>1, SuffixIs
  <2>3. QED
    BY <1>1, <2>2
<1>5. (\A i \in 1 .. 3 : t[(Len(t) - 3) + i] = s[i]) <=>
        /\ t[(Len(t) - 3) + 1] = s[1] /\ t[(Len(t) - 3) + 2] = s[2]
        /\ t[(Len(t) - 3) + 3] = s[3]
  <2>1. 1 .. 3 = {1, 2, 3}
    OBVIOUS
  <2>2. QED
    BY <2>1
<1>6. QED
  BY <1>1, <1>3, <1>4, <1>5 DEF s

LEMMA StuffedSuffix ==
  ASSUME NEW t \in Seq(Byte)
  PROVE  IsSuffix(<<FF, FF, FD, FD>>, t) <=>
           /\ 4 <= Len(t) /\ t[Len(t) - 3] = FF
           /\ t[Len(t) - 2] = FF /\ t[Len(t) - 1] = FD /\ t[Len(t)] = FD
<1> DEFINE s == <<FF, FF, FD, FD>>
<1>1. /\ s \in Seq(Byte) /\ Len(s) = 4
      /\ s[1] = FF /\ s[2] = FF /\ s[3] = FD /\ s[4] = FD
  BY DEF FF, FD, Byte
<1>2. Len(t) \in Nat
  OBVIOUS
<1>3. /\ (Len(t) - 4) + 1 = Len(t) - 3 /\ (Len(t) - 4) + 2 = Len(t) - 2
      /\ (Len(t) - 4) + 3 = Len(t) - 1 /\ (Len(t) - 4) + 4 = Len(t)
  BY <1>2
<1> HIDE DEF s
<1>4. IsSuffix(s, t) <=> 4 <= Len(t) /\ \A i \in 1 .. 4 : t[(Len(t) - 4) + i] = s[i]
  <2>1. s \in Seq(Byte)
    BY <1>1
  <2>2. IsSuffix(s, t) <=>
          /\ Len(s) <= Len(t)
          /\ \A i \in 1 .. Len(s) : t[(Len(t) - Len(s)) + i] = s[i]
    BY <2>1, SuffixIs
  <2>3. QED
    BY <1>1, <2>2
<1>5. (\A i \in 1 .. 4 : t[(Len(t) - 4) + i] = s[i]) <=>
        /\ t[(Len(t) - 4) + 1] = s[1] /\ t[(Len(t) - 4) + 2] = s[2]
        /\ t[(Len(t) - 4) + 3] = s[3] /\ t[(Len(t) - 4) + 4] = s[4]
  <2>1. 1 .. 4 = {1, 2, 3, 4}
    OBVIOUS
  <2>2. QED
    BY <2>1
<1>6. QED
  BY <1>1, <1>3, <1>4, <1>5 DEF s

LEMMA StuffRuns ==
  ASSUME NEW p \in Seq(Byte)
  PROVE  /\ StuffUpTo(p)[0] = <<>>
         /\ \A n \in 0 .. Len(p) : StuffUpTo(p)[n] \in Seq(Byte)
         /\ \A n \in 1 .. Len(p) :
              StuffUpTo(p)[n] = StuffOnto(StuffUpTo(p)[n - 1], p[n])
<1> DEFINE N == Len(p)
           S == Seq(Byte)
           step == [x \in S \X (1 .. N) |-> StuffOnto(x[1], p[x[2]])]
           IsStuff(f) == f = [n \in 0 .. N |->
                                IF n = 0 THEN <<>> ELSE StuffOnto(f[n - 1], p[n])]
<1>1. N \in Nat /\ \A n \in 1 .. N : p[n] \in Byte
  OBVIOUS
<1>2. ASSUME NEW s \in S, NEW b \in Byte PROVE StuffOnto(s, b) \in S
  <2>1. FD \in Byte
    BY DEF FD, Byte
  <2>2. QED
    BY <2>1 DEF StuffOnto
<1>3. step \in [S \X (1 .. N) -> S]
  <2> HIDE DEF N, S
  <2>1. QED
    BY <1>1, <1>2
<1>4. PICK f : Runs(f, <<>>, step, N, S)
  <2>1. <<>> \in S
    OBVIOUS
  <2> HIDE DEF step, N, S
  <2>2. QED
    BY <1>1, <1>3, <2>1, RunExists
<1>5. ASSUME NEW n \in 1 .. N PROVE f[n] = StuffOnto(f[n - 1], p[n])
  <2> HIDE DEF N, S
  <2>1. n - 1 \in 0 .. N
    BY <1>1
  <2>2. f[n - 1] \in S /\ f[n] = step[f[n - 1], n]
    <3> HIDE DEF step
    <3>1. QED
      BY <1>4, <2>1 DEF Runs
  <2>3. <<f[n - 1], n>> \in S \X (1 .. N)
    BY <2>2
  <2>4. QED
    BY <2>2, <2>3
<1>6. IsStuff(f)
  <2> HIDE DEF N, step, S
  <2>1. f \in [0 .. N -> S] /\ f[0] = <<>>
    BY <1>4 DEF Runs
  <2>2. \A n \in 0 .. N : n = 0 \/ n \in 1 .. N
    BY <1>1
  <2>3. QED
    BY <1>5, <2>1, <2>2
<1>7. StuffUpTo(p) = CHOOSE g : IsStuff(g)
  BY DEF StuffUpTo
<1>8. IsStuff(StuffUpTo(p))
  <2> HIDE DEF IsStuff
  <2>1. QED
    BY <1>6, <1>7
<1> DEFINE c == StuffUpTo(p)
<1>9. c[0] = <<>> /\ \A n \in 1 .. N : c[n] = StuffOnto(c[n - 1], p[n])
  <2> HIDE DEF N, c
  <2>1. 0 \in 0 .. N /\ \A n \in 1 .. N : n \in 0 .. N /\ n # 0
    BY <1>1
  <2>2. IsStuff(c)
    BY <1>8 DEF c
  <2>3. QED
    BY <2>1, <2>2
<1>10. \A n \in 0 .. N : c[n] \in S
  <2> DEFINE T == {n \in Nat : n <= N => c[n] \in S}
  <2>1. 0 \in T
    <3>1. <<>> \in S
      OBVIOUS
    <3> HIDE DEF c, N, S
    <3>2. QED
      BY <1>9, <3>1
  <2> HIDE DEF N, c, S
  <2>2. ASSUME NEW n \in Nat, n \in T PROVE n + 1 \in T
    <3>1. SUFFICES ASSUME n + 1 <= N PROVE c[n + 1] \in S
      OBVIOUS
    <3>2. PICK m \in 1 .. N : m = n + 1
      BY <1>1, <3>1
    <3>3. m - 1 = n /\ c[n] \in S
      BY <1>1, <2>2, <3>1, <3>2
    <3>4. c[m] = StuffOnto(c[n], p[m])
      BY <1>9, <3>3
    <3>5. QED
      BY <1>1, <1>2, <3>2, <3>3, <3>4
  <2>3. Nat \subseteq T
    <3> HIDE DEF T
    <3>1. QED
      BY <2>1, <2>2, Induct
  <2>4. QED
    BY <1>1, <2>3
<1>11. QED
  BY <1>9, <1>10

LEMMA PrefixIs ==
  ASSUME NEW p \in Seq(Byte), NEW n \in 0 .. Len(p)
  PROVE  /\ SubSeq(p, 1, n) \in Seq(Byte) /\ Len(SubSeq(p, 1, n)) = n
         /\ \A i \in 1 .. n : SubSeq(p, 1, n)[i] = p[i]
<1>1. n \in Nat /\ Len(p) \in Nat /\ n <= Len(p)
  OBVIOUS
<1>2. \A i \in 1 .. n : p[i] \in Byte
  BY <1>1
<1>3. /\ SubSeq(p, 1, n) \in Seq(Byte)
      /\ Len(SubSeq(p, 1, n)) = IF 1 <= n THEN n - 1 + 1 ELSE 0
      /\ \A i \in 1 .. n - 1 + 1 : SubSeq(p, 1, n)[i] = p[1 + i - 1]
  BY <1>1, <1>2, SubSeqProperties
<1>4. QED
  BY <1>1, <1>3

LEMMA PrefixGrows ==
  ASSUME NEW p \in Seq(Byte), NEW n \in 0 .. Len(p), n < Len(p)
  PROVE  Append(SubSeq(p, 1, n), p[n + 1]) = SubSeq(p, 1, n + 1)
<1> DEFINE a == SubSeq(p, 1, n)
           b == SubSeq(p, 1, n + 1)
           c == Append(a, p[n + 1])
<1>1. n \in Nat /\ Len(p) \in Nat /\ n + 1 \in 0 .. Len(p) /\ n + 1 \in 1 .. Len(p)
  OBVIOUS
<1>2. p[n + 1] \in Byte
  BY <1>1
<1>3. /\ a \in Seq(Byte) /\ Len(a) = n
      /\ \A i \in 1 .. n : a[i] = p[i]
  BY PrefixIs
<1>4. /\ b \in Seq(Byte) /\ Len(b) = n + 1
      /\ \A i \in 1 .. n + 1 : b[i] = p[i]
  BY <1>1, PrefixIs
<1> HIDE DEF a, b
<1>5. /\ c \in Seq(Byte) /\ Len(c) = n + 1
      /\ \A i \in 1 .. n : c[i] = a[i]
      /\ c[n + 1] = p[n + 1]
  BY <1>2, <1>3, AppendProperties
<1>6. ASSUME NEW i \in 1 .. n + 1 PROVE c[i] = b[i]
  <2> HIDE DEF c
  <2>1. i \in 1 .. n \/ i = n + 1
    BY <1>1
  <2>2. QED
    BY <1>3, <1>4, <1>5, <2>1
<1>7. c = b
  <2> HIDE DEF c
  <2>1. QED
    BY <1>4, <1>5, <1>6, SeqEqual
<1>8. QED
  BY <1>7 DEF a, b

LEMMA InsideIs ==
  ASSUME NEW p \in Seq(Byte), NEW i \in 1 .. Len(p) - 3,
         p[i] = FF, p[i + 1] = FF, p[i + 2] = FD
  PROVE  StuffedInside(p)
<1> DEFINE s == SubSeq(p, i, i + 2)
           h == <<FF, FF, FD>>
<1>1. i \in Int /\ i + 2 \in Int /\ i <= i + 2 /\ \A j \in i .. i + 2 : p[j] \in Byte
  OBVIOUS
<1>2. /\ s \in Seq(Byte) /\ Len(s) = IF i <= i + 2 THEN (i + 2) - i + 1 ELSE 0
      /\ \A j \in 1 .. (i + 2) - i + 1 : s[j] = p[i + j - 1]
  BY <1>1, SubSeqProperties
<1> HIDE DEF s
<1>3. Len(s) = 3 /\ s[1] = FF /\ s[2] = FF /\ s[3] = FD
  <2>1. (i + 2) - i + 1 = 3 /\ i + 1 - 1 = i /\ i + 2 - 1 = i + 1 /\ i + 3 - 1 = i + 2
    OBVIOUS
  <2>2. 1 \in 1 .. 3 /\ 2 \in 1 .. 3 /\ 3 \in 1 .. 3
    OBVIOUS
  <2>3. s[1] = p[i + 1 - 1] /\ s[2] = p[i + 2 - 1] /\ s[3] = p[i + 3 - 1]
    BY <1>2, <2>1, <2>2
  <2>4. QED
    BY <1>1, <1>2, <2>1, <2>3
<1>4. s = h
  <2>1. /\ h \in Seq(Byte) /\ Len(h) = 3 /\ h[1] = FF /\ h[2] = FF /\ h[3] = FD
    BY DEF FF, FD, Byte
  <2> HIDE DEF h
  <2>2. \A j \in 1 .. 3 : j = 1 \/ j = 2 \/ j = 3
    OBVIOUS
  <2>3. \A j \in 1 .. 3 : s[j] = h[j]
    BY <1>3, <2>1, <2>2
  <2>4. QED
    BY <1>2, <1>3, <2>1, <2>3, SeqEqual
<1>5. QED
  BY <1>4 DEF StuffedInside, s

(* Stuffed at most at the end, parameters become themselves or themselves   *)
(* with a byte behind.                                                      *)
Ending(p) == /\ 3 <= Len(p) /\ p[Len(p) - 2] = FF
             /\ p[Len(p) - 1] = FF /\ p[Len(p)] = FD

LEMMA StuffIs ==
  ASSUME NEW p \in Seq(Byte), ~StuffedInside(p)
  PROVE  Stuff(p) = p \/ (Ending(p) /\ Stuff(p) = Append(p, FD))
<1> DEFINE m == StuffUpTo(p)
           T == {n \in Nat : n < Len(p) => m[n] = SubSeq(p, 1, n)}
<1>1. Len(p) \in Nat /\ \A n \in 1 .. Len(p) : p[n] \in Byte
  OBVIOUS
<1>2. /\ m[0] = <<>>
      /\ \A n \in 0 .. Len(p) : m[n] \in Seq(Byte)
      /\ \A n \in 1 .. Len(p) : m[n] = StuffOnto(m[n - 1], p[n])
  BY StuffRuns
<1> HIDE DEF m
<1>3. 0 \in T
  <2>1. SubSeq(p, 1, 0) = <<>>
    BY SubSeqEmpty
  <2>2. QED
    BY <1>2, <2>1
<1>4. ASSUME NEW n \in Nat, n \in T PROVE n + 1 \in T
  <2>1. SUFFICES ASSUME n + 1 < Len(p) PROVE m[n + 1] = SubSeq(p, 1, n + 1)
    OBVIOUS
  <2>2. m[n] = SubSeq(p, 1, n)
    BY <1>1, <1>4, <2>1
  <2>3. /\ n + 1 \in 1 .. Len(p) /\ n + 1 \in 0 .. Len(p)
        /\ n \in 0 .. Len(p) /\ n < Len(p)
    BY <1>1, <2>1
  <2> DEFINE t == SubSeq(p, 1, n + 1)
  <2>4. Append(m[n], p[n + 1]) = t
    BY <2>2, <2>3, PrefixGrows
  <2>5. /\ t \in Seq(Byte) /\ Len(t) = n + 1
        /\ \A i \in 1 .. n + 1 : t[i] = p[i]
    BY <2>3, PrefixIs
  <2>6. PICK k \in 1 .. Len(p) : k = n + 1
    BY <2>3
  <2>7. m[k] = StuffOnto(m[k - 1], p[k]) /\ k - 1 = n
    BY <1>2, <2>6
  <2>8. m[n + 1] = IF IsSuffix(<<FF, FF, FD>>, t) THEN Append(t, FD) ELSE t
    <3> HIDE DEF t
    <3>1. QED
      BY <2>4, <2>6, <2>7 DEF StuffOnto
  <2>9. ~IsSuffix(<<FF, FF, FD>>, t)
    <3>1. SUFFICES ASSUME IsSuffix(<<FF, FF, FD>>, t) PROVE FALSE
      OBVIOUS
    <3> HIDE DEF t
    <3>2. /\ 3 <= n + 1 /\ t[(n + 1) - 2] = FF /\ t[(n + 1) - 1] = FF
          /\ t[n + 1] = FD
      BY <2>5, <3>1, HeaderSuffix
    <3>3. (n + 1) - 2 = n - 1 /\ (n + 1) - 1 = n
      OBVIOUS
    <3>4. n - 1 \in 1 .. n + 1 /\ n \in 1 .. n + 1 /\ n + 1 \in 1 .. n + 1
      BY <3>2
    <3>5. p[n - 1] = FF /\ p[n] = FF /\ p[n + 1] = FD
      BY <2>5, <3>2, <3>3, <3>4
    <3>6. PICK i \in 1 .. Len(p) - 3 : i = n - 1
      <4>1. n - 1 \in 1 .. Len(p) - 3
        BY <1>1, <2>1, <3>2
      <4>2. QED
        BY <4>1
    <3>7. i + 1 = n /\ i + 2 = n + 1
      BY <3>6
    <3>8. QED
      BY <3>5, <3>6, <3>7, InsideIs
  <2>10. QED
    BY <2>8, <2>9
<1>5. Nat \subseteq T
  <2> HIDE DEF T
  <2>1. QED
    BY <1>3, <1>4, Induct
<1>6. Stuff(p) = m[Len(p)]
  BY DEF Stuff, m
<1>7. CASE Len(p) = 0
  <2>1. p = <<>>
    BY <1>7
  <2>2. QED
    BY <1>2, <1>6, <1>7, <2>1
<1>8. CASE Len(p) # 0
  <2>1. PICK n \in Nat : n = Len(p) - 1
    BY <1>1, <1>8
  <2>2. /\ n + 1 = Len(p) /\ n < Len(p) /\ n \in 0 .. Len(p)
        /\ Len(p) \in 1 .. Len(p) /\ Len(p) - 1 = n
    BY <1>1, <2>1
  <2>3. m[n] = SubSeq(p, 1, n)
    BY <1>5, <2>2
  <2>4. Append(m[n], p[Len(p)]) = SubSeq(p, 1, Len(p))
    BY <2>2, <2>3, PrefixGrows
  <2>5. Append(m[n], p[Len(p)]) = p
    BY <2>4, SubSeqFull
  <2>6. m[Len(p)] = StuffOnto(m[n], p[Len(p)])
    BY <1>2, <2>2
  <2>7. m[Len(p)] = IF IsSuffix(<<FF, FF, FD>>, p) THEN Append(p, FD) ELSE p
    BY <2>5, <2>6 DEF StuffOnto
  <2>8. QED
    BY <1>6, <2>7, HeaderSuffix DEF Ending
<1>9. QED
  BY <1>7, <1>8

----------------------------------------------------------------------------
(* The bytes of an answer.                                                  *)
Body(p)   == StatusBody(Id, p)
Length(p) == Len(Stuff(p)) + 4
Header(p) == <<FF, FF, FD, 0, Id, Length(p) % 256, Length(p) \div 256, STATUS, 0>>

LEMMA StuffType == \A p \in Seq(Byte) : Stuff(p) \in Seq(Byte)
<1>1. SUFFICES ASSUME NEW p \in Seq(Byte) PROVE Stuff(p) \in Seq(Byte)
  OBVIOUS
<1>2. Len(p) \in 0 .. Len(p)
  OBVIOUS
<1>3. QED
  BY <1>2, StuffRuns DEF Stuff

LEMMA PayloadType ==
  ASSUME NEW p \in Payloads
  PROVE  /\ p \in Seq(Byte) /\ Stuff(p) \in Seq(Byte)
         /\ Len(Stuff(p)) \in Nat /\ Length(p) \in Nat
         /\ 4 <= Length(p) /\ Length(p) <= 65535
<1>1. p \in Seq(Byte) /\ Len(Stuff(p)) + 4 < 65536
  BY LinkAssumption
<1>2. Stuff(p) \in Seq(Byte)
  BY <1>1, StuffType
<1>3. Len(Stuff(p)) \in Nat
  BY <1>2
<1>4. Length(p) \in Nat /\ 4 <= Length(p) /\ Length(p) <= 65535
  <2> DEFINE n == Len(Stuff(p))
  <2>1. n \in Nat /\ n + 4 < 65536 /\ Length(p) = n + 4
    BY <1>1, <1>3 DEF Length
  <2> HIDE DEF n
  <2>2. QED
    BY <2>1
<1>5. QED
  BY <1>1, <1>2, <1>3, <1>4

LEMMA HeaderIs ==
  ASSUME NEW p \in Payloads
  PROVE  /\ Header(p) \in Seq(Byte) /\ Len(Header(p)) = 9
         /\ Header(p)[1] = FF /\ Header(p)[2] = FF /\ Header(p)[3] = FD
         /\ Header(p)[4] = 0 /\ Header(p)[5] = Id
         /\ Header(p)[6] = Length(p) % 256 /\ Header(p)[7] = Length(p) \div 256
         /\ Header(p)[8] = STATUS /\ Header(p)[9] = 0
<1>1. Length(p) \in Word
  <2>1. Length(p) \in Nat /\ 4 <= Length(p) /\ Length(p) <= 65535
    BY PayloadType
  <2>2. QED
    BY <2>1, WordIs
<1>2. Length(p) % 256 \in Byte /\ Length(p) \div 256 \in Byte
  BY <1>1, HighByte
<1>3. FF \in Byte /\ FD \in Byte /\ 0 \in Byte /\ STATUS \in Byte
  BY DEF FF, FD, STATUS, Byte
<1>4. Id \in Byte
  BY LinkAssumption DEF Byte
<1>5. QED
  BY <1>2, <1>3, <1>4 DEF Header

LEMMA BodyIs ==
  ASSUME NEW p \in Payloads
  PROVE  /\ Body(p) \in Seq(Byte) /\ Len(Body(p)) = Len(Stuff(p)) + 9
         /\ \A i \in 1 .. 9 : Body(p)[i] = Header(p)[i]
         /\ \A j \in 1 .. Len(Stuff(p)) : Body(p)[9 + j] = Stuff(p)[j]
<1> DEFINE h == Header(p)
           s == Stuff(p)
           n == Len(Stuff(p))
<1>1. Body(p) = h \o s
  BY DEF Body, StatusBody, Header, Length
<1>2. h \in Seq(Byte) /\ Len(h) = 9 /\ s \in Seq(Byte) /\ n = Len(s) /\ n \in Nat
  BY HeaderIs, PayloadType
<1> HIDE DEF h, s, n
<1>3. /\ h \o s \in Seq(Byte) /\ Len(h \o s) = 9 + n
      /\ \A i \in 1 .. 9 + n : (h \o s)[i] = IF i <= 9 THEN h[i] ELSE s[i - 9]
  <2>1. /\ h \o s \in Seq(Byte) /\ Len(h \o s) = Len(h) + Len(s)
        /\ \A i \in 1 .. Len(h) + Len(s) :
             (h \o s)[i] = IF i <= Len(h) THEN h[i] ELSE s[i - Len(h)]
    BY <1>2, ConcatProperties
  <2>2. QED
    BY <1>2, <2>1
<1>4. \A i \in 1 .. 9 : i \in 1 .. 9 + n /\ i <= 9
  BY <1>2
<1>5. ASSUME NEW j \in 1 .. n PROVE (h \o s)[9 + j] = s[j]
  <2>1. PICK i \in 1 .. 9 + n : i = 9 + j
    <3>1. 9 + j \in 1 .. 9 + n
      BY <1>2
    <3>2. QED
      BY <3>1
  <2>2. ~(i <= 9) /\ i - 9 = j
    BY <2>1
  <2>3. QED
    BY <1>3, <2>1, <2>2
<1>6. \A i \in 1 .. 9 : (h \o s)[i] = h[i]
  BY <1>3, <1>4
<1>7. QED
  BY <1>1, <1>2, <1>3, <1>5, <1>6 DEF h, s, n

LEMMA StatusIs ==
  ASSUME NEW p \in Payloads
  PROVE  /\ Status(Id, p) \in Seq(Byte)
         /\ Len(Status(Id, p)) = Len(Body(p)) + 2
         /\ \A i \in 1 .. Len(Body(p)) : Status(Id, p)[i] = Body(p)[i]
         /\ Status(Id, p)[Len(Body(p)) + 1] = CrcOf(Body(p)) % 256
         /\ Status(Id, p)[Len(Body(p)) + 2] = CrcOf(Body(p)) \div 256
<1> DEFINE b == Body(p)
           lo == CrcOf(b) % 256
           hi == CrcOf(b) \div 256
           t == <<lo, hi>>
           n == Len(b)
<1>1. Status(Id, p) = b \o t
  BY DEF Body, Status
<1>2. b \in Seq(Byte)
  BY BodyIs
<1>3. lo \in Byte /\ hi \in Byte
  BY <1>2, CrcOfType, HighByte
<1> HIDE DEF b, lo, hi
<1>4. n \in Nat /\ n = Len(b)
  BY <1>2
<1>5. t \in Seq(Byte) /\ Len(t) = 2 /\ t[1] = lo /\ t[2] = hi
  BY <1>3
<1> HIDE DEF t, n
<1>6. /\ b \o t \in Seq(Byte) /\ Len(b \o t) = n + 2
      /\ \A i \in 1 .. n + 2 : (b \o t)[i] = IF i <= n THEN b[i] ELSE t[i - n]
  <2>1. /\ b \o t \in Seq(Byte) /\ Len(b \o t) = Len(b) + Len(t)
        /\ \A i \in 1 .. Len(b) + Len(t) :
             (b \o t)[i] = IF i <= Len(b) THEN b[i] ELSE t[i - Len(b)]
    BY <1>2, <1>5, ConcatProperties
  <2>2. QED
    BY <1>4, <1>5, <2>1
<1>7. /\ \A i \in 1 .. n : i \in 1 .. n + 2 /\ i <= n
      /\ n + 1 \in 1 .. n + 2 /\ n + 2 \in 1 .. n + 2
      /\ ~(n + 1 <= n) /\ ~(n + 2 <= n) /\ (n + 1) - n = 1 /\ (n + 2) - n = 2
  BY <1>4
<1>8. /\ \A i \in 1 .. n : (b \o t)[i] = b[i]
      /\ (b \o t)[n + 1] = lo /\ (b \o t)[n + 2] = hi
  BY <1>5, <1>6, <1>7
<1>9. QED
  BY <1>1, <1>6, <1>8 DEF b, lo, hi, n

----------------------------------------------------------------------------
(* The parser behind the first k bytes of an undamaged answer of payload p. *)
Reading(state, len, inst, got, crc, recv) ==
  [state |-> state, ffs |-> 0, len |-> len, inst |-> inst, err |-> 0,
   got |-> got, crc |-> crc, recv |-> recv]

Got(p, j) == IF j < Len(p) THEN SubSeq(p, 1, j) ELSE p

At(p, k) ==
  LET crc == CrcUpTo(Body(p))
      n   == Len(Body(p))
  IN IF k < 3 THEN [IdleParser EXCEPT !.ffs = k]
     ELSE IF k = 3 THEN Reading("reserved", 0, 0, <<>>, crc[3], 0)
     ELSE IF k = 4 THEN Reading("id", 0, 0, <<>>, crc[4], 0)
     ELSE IF k = 5 THEN Reading("length_l", 0, 0, <<>>, crc[5], 0)
     ELSE IF k = 6 THEN Reading("length_h", Length(p) % 256, 0, <<>>, crc[6], 0)
     ELSE IF k = 7 THEN Reading("inst", Length(p), 0, <<>>, crc[7], 0)
     ELSE IF k = 8 THEN Reading("error", Length(p), STATUS, <<>>, crc[8], 0)
     ELSE IF k < n THEN Reading("param", Length(p), STATUS, Got(p, k - 9), crc[k], 0)
     ELSE IF k = n THEN Reading("crc_l", Length(p), STATUS, p, crc[n], 0)
     ELSE Reading("crc_h", Length(p), STATUS, p, crc[n], crc[n] % 256)

LEMMA ReadingIs ==
  ASSUME NEW state, NEW len, NEW inst, NEW got, NEW crc, NEW recv
  PROVE  LET r == Reading(state, len, inst, got, crc, recv) IN
         /\ r.state = state /\ r.len = len /\ r.inst = inst /\ r.err = 0
         /\ r.got = got /\ r.crc = crc /\ r.recv = recv
  BY DEF Reading

(* (What EXCEPT does to two fields is seen one field at a time.)            *)
Moved(r, to, c) == [r EXCEPT !.state = to, !.crc = c]

LEMMA MovedIs ==
  ASSUME NEW state, NEW len, NEW inst, NEW got, NEW crc, NEW recv, NEW to, NEW c
  PROVE  Moved(Reading(state, len, inst, got, crc, recv), to, c)
           = Reading(to, len, inst, got, c, recv)
<1> DEFINE r == Reading(state, len, inst, got, crc, recv)
           s == [r EXCEPT !.state = to]
<1>1. s = Reading(to, len, inst, got, crc, recv)
  BY DEF Reading
<1>2. [s EXCEPT !.crc = c] = Reading(to, len, inst, got, c, recv)
  <2> HIDE DEF s
  <2>1. QED
    BY <1>1 DEF Reading
<1>3. Moved(r, to, c) = [s EXCEPT !.crc = c]
  <2> HIDE DEF r
  <2>1. QED
    BY DEF Moved
<1>4. QED
  BY <1>2, <1>3

LEMMA GoesIs ==
  ASSUME NEW state, NEW len, NEW inst, NEW got, NEW crc, NEW recv, NEW to, NEW b
  PROVE  Goes(Reading(state, len, inst, got, crc, recv), to, b)
           = Outcome(Reading(to, len, inst, got, Crc(crc, b), recv), "proceeding", -1)
<1> DEFINE r == Reading(state, len, inst, got, crc, recv)
<1>1. r.crc = crc
  BY DEF Reading
<1>2. Moved(r, to, Crc(crc, b)) = Reading(to, len, inst, got, Crc(crc, b), recv)
  BY MovedIs
<1> HIDE DEF r
<1>3. Goes(r, to, b) = Outcome(Moved(r, to, Crc(crc, b)), "proceeding", -1)
  BY <1>1 DEF Goes, Moved
<1>4. QED
  BY <1>2, <1>3 DEF r

LEMMA LengthIs ==
  ASSUME NEW state, NEW len, NEW crc, NEW to
  PROVE  [Reading(state, len, 0, <<>>, crc, 0) EXCEPT !.len = to]
           = Reading(state, to, 0, <<>>, crc, 0)
  BY DEF Reading

LEMMA InstIs ==
  ASSUME NEW len, NEW crc, NEW r, r = Reading("inst", len, 0, <<>>, crc, 0)
  PROVE  [r EXCEPT !.inst = STATUS, !.err = 0, !.got = <<>>]
           = Reading("inst", len, STATUS, <<>>, crc, 0)
<1> DEFINE s == [r EXCEPT !.inst = STATUS]
           t == [s EXCEPT !.err = 0]
<1>1. s = Reading("inst", len, STATUS, <<>>, crc, 0)
  BY DEF Reading
<1>2. [r EXCEPT !.inst = STATUS, !.err = 0, !.got = <<>>] = [t EXCEPT !.got = <<>>]
  OBVIOUS
<1> HIDE DEF s
<1>3. t = s
  BY <1>1 DEF Reading
<1> HIDE DEF t
<1>4. [t EXCEPT !.got = <<>>] = s
  BY <1>1, <1>3 DEF Reading
<1>5. QED
  BY <1>1, <1>2, <1>4

LEMMA ParseIs ==
  ASSUME NEW p, NEW b, NEW c
  PROVE  /\ p.state = "idle" => Parse(p, b, c) = InIdle(p, b)
         /\ p.state = "reserved" => Parse(p, b, c) = InReserved(p, b)
         /\ p.state = "id" => Parse(p, b, c) = InId(p, b)
         /\ p.state \in {"length_l", "length_h"} => Parse(p, b, c) = InLength(p, b)
         /\ p.state = "inst" => Parse(p, b, c) = InInst(p, b, c)
         /\ p.state = "error" => Parse(p, b, c) = InError(p, b)
         /\ p.state = "param" => Parse(p, b, c) = InParam(p, b)
         /\ p.state = "crc_l" => Parse(p, b, c) = InCrcLow(p, b)
         /\ p.state = "crc_h" => Parse(p, b, c) = InCrcHigh(p, b)
  BY DEF Parse

(* The CRC of the bytes so far.                                             *)
LEMMA CrcGrows ==
  ASSUME NEW p \in Payloads
  PROVE  /\ CrcUpTo(Body(p))[3] = CrcOf(<<FF, FF, FD>>)
         /\ \A k \in 1 .. Len(Body(p)) :
              CrcUpTo(Body(p))[k] = Crc(CrcUpTo(Body(p))[k - 1], Body(p)[k])
<1> DEFINE b == Body(p)
           h == <<FF, FF, FD>>
<1>1. /\ b \in Seq(Byte) /\ Len(b) = Len(Stuff(p)) + 9 /\ Len(Stuff(p)) \in Nat
      /\ b[1] = FF /\ b[2] = FF /\ b[3] = FD
  <2>1. b \in Seq(Byte) /\ Len(b) = Len(Stuff(p)) + 9 /\ Len(Stuff(p)) \in Nat
    BY BodyIs, PayloadType
  <2>2. 1 \in 1 .. 9 /\ 2 \in 1 .. 9 /\ 3 \in 1 .. 9
    OBVIOUS
  <2>3. b[1] = FF /\ b[2] = FF /\ b[3] = FD
    BY <2>2, BodyIs, HeaderIs
  <2>4. QED
    BY <2>1, <2>3
<1>2. /\ h \in Seq(Byte) /\ Len(h) = 3 /\ h[1] = FF /\ h[2] = FF /\ h[3] = FD
  BY DEF FF, FD, Byte
<1> HIDE DEF b, h
<1>3. /\ CrcUpTo(b)[0] = 0
      /\ \A n \in 1 .. Len(b) : CrcUpTo(b)[n] = Crc(CrcUpTo(b)[n - 1], b[n])
  BY <1>1, CrcRuns
<1>4. /\ CrcUpTo(h)[0] = 0
      /\ \A n \in 1 .. 3 : CrcUpTo(h)[n] = Crc(CrcUpTo(h)[n - 1], h[n])
  BY <1>2, CrcRuns
<1>5. /\ 1 \in 1 .. Len(b) /\ 2 \in 1 .. Len(b) /\ 3 \in 1 .. Len(b)
      /\ 1 \in 1 .. 3 /\ 2 \in 1 .. 3 /\ 3 \in 1 .. 3
      /\ 1 - 1 = 0 /\ 2 - 1 = 1 /\ 3 - 1 = 2
  BY <1>1
<1>6. /\ CrcUpTo(b)[1] = Crc(0, FF) /\ CrcUpTo(h)[1] = Crc(0, FF)
  BY <1>1, <1>2, <1>3, <1>4, <1>5
<1>7. CrcUpTo(b)[2] = CrcUpTo(h)[2]
  BY <1>1, <1>2, <1>3, <1>4, <1>5, <1>6
<1>8. CrcUpTo(b)[3] = CrcUpTo(h)[3]
  BY <1>1, <1>2, <1>3, <1>4, <1>5, <1>7
<1>9. CrcOf(h) = CrcUpTo(h)[3]
  BY <1>2 DEF CrcOf
<1>10. QED
  BY <1>3, <1>8, <1>9 DEF b, h

LEMMA GotNothing == \A p \in Payloads : Got(p, 0) = <<>>
<1>1. SUFFICES ASSUME NEW p \in Payloads PROVE Got(p, 0) = <<>>
  OBVIOUS
<1>2. p \in Seq(Byte)
  BY PayloadType
<1>3. CASE 0 < Len(p)
  <2>1. SubSeq(p, 1, 0) = <<>>
    BY SubSeqEmpty
  <2>2. QED
    BY <1>3, <2>1 DEF Got
<1>4. CASE ~(0 < Len(p))
  BY <1>2, <1>4 DEF Got
<1>5. QED
  BY <1>3, <1>4

(* Behind the header of a packet without parameters comes the CRC.          *)
LEMMA AtParams ==
  ASSUME NEW p \in Payloads, ~StuffedInside(p)
  PROVE  At(p, 9) = IF Length(p) = 4
                    THEN Reading("crc_l", 4, STATUS, <<>>, CrcUpTo(Body(p))[9], 0)
                    ELSE Reading("param", Length(p), STATUS, <<>>, CrcUpTo(Body(p))[9], 0)
<1> DEFINE n == Len(Body(p))
           m == Len(Stuff(p))
<1>1. p \in Seq(Byte) /\ m \in Nat /\ n = m + 9 /\ Length(p) = m + 4
  BY BodyIs, PayloadType DEF Length
<1>2. CASE m = 0
  <2>1. Stuff(p) # Append(p, FD)
    <3>1. FD \in Byte
      BY DEF FD, Byte
    <3>2. Len(Append(p, FD)) = Len(p) + 1 /\ Len(p) \in Nat
      BY <1>1, <3>1, AppendProperties
    <3>3. QED
      BY <1>2, <3>2
  <2>2. Stuff(p) = p
    BY <1>1, <2>1, StuffIs
  <2>3. p = <<>>
    BY <1>1, <1>2, <2>2
  <2>4. Len(Body(p)) = 9 /\ Length(p) = 4
    BY <1>1, <1>2
  <2>5. At(p, 9) = Reading("crc_l", Length(p), STATUS, p, CrcUpTo(Body(p))[9], 0)
    BY <2>4 DEF At
  <2>6. QED
    BY <2>3, <2>4, <2>5
<1>3. CASE m # 0
  <2>1. 9 < Len(Body(p)) /\ Length(p) # 4
    BY <1>1, <1>3
  <2>2. 9 - 9 = 0 /\ Got(p, 0) = <<>>
    BY GotNothing
  <2>3. At(p, 9) = Reading("param", Length(p), STATUS, Got(p, 9 - 9),
                           CrcUpTo(Body(p))[9], 0)
    BY <2>1 DEF At
  <2>4. QED
    BY <2>1, <2>2, <2>3
<1>4. QED
  BY <1>2, <1>3

(* The header, byte by byte.                                                *)
LEMMA HeaderStep ==
  ASSUME NEW p \in Payloads, ~StuffedInside(p), NEW c \in Nat,
         Len(Stuff(p)) <= c, NEW k \in 0 .. 8
  PROVE  Parse(At(p, k), Body(p)[k + 1], c) = Outcome(At(p, k + 1), "proceeding", -1)
<1> DEFINE b(i) == Body(p)[i]
           crc(i) == CrcUpTo(Body(p))[i]
           n == Len(Body(p))
           len == Length(p)
<1>1. /\ b(1) = FF /\ b(2) = FF /\ b(3) = FD /\ b(4) = 0 /\ b(5) = Id
      /\ b(6) = len % 256 /\ b(7) = len \div 256 /\ b(8) = STATUS /\ b(9) = 0
  <2>1. /\ 1 \in 1 .. 9 /\ 2 \in 1 .. 9 /\ 3 \in 1 .. 9 /\ 4 \in 1 .. 9 /\ 5 \in 1 .. 9
        /\ 6 \in 1 .. 9 /\ 7 \in 1 .. 9 /\ 8 \in 1 .. 9 /\ 9 \in 1 .. 9
    OBVIOUS
  <2>2. QED
    BY <2>1, BodyIs, HeaderIs
<1>2. /\ crc(3) = CrcOf(<<FF, FF, FD>>)
      /\ crc(4) = Crc(crc(3), b(4)) /\ crc(5) = Crc(crc(4), b(5))
      /\ crc(6) = Crc(crc(5), b(6)) /\ crc(7) = Crc(crc(6), b(7))
      /\ crc(8) = Crc(crc(7), b(8)) /\ crc(9) = Crc(crc(8), b(9))
  <2>1. n = Len(Stuff(p)) + 9 /\ Len(Stuff(p)) \in Nat
    BY BodyIs, PayloadType
  <2>2. /\ 4 \in 1 .. n /\ 5 \in 1 .. n /\ 6 \in 1 .. n /\ 7 \in 1 .. n
        /\ 8 \in 1 .. n /\ 9 \in 1 .. n
    BY <2>1
  <2>3. /\ 4 - 1 = 3 /\ 5 - 1 = 4 /\ 6 - 1 = 5 /\ 7 - 1 = 6 /\ 8 - 1 = 7 /\ 9 - 1 = 8
    OBVIOUS
  <2>4. QED
    BY <2>2, <2>3, CrcGrows
<1>3. /\ len \in Nat /\ 4 <= len /\ (len % 256) + 256 * (len \div 256) = len
      /\ len = Len(Stuff(p)) + 4 /\ len <= c + 4
      /\ n = len + 5
  <2>1. len \in Nat /\ 4 <= len
    BY PayloadType
  <2>2. len = Len(Stuff(p)) + 4 /\ n = Len(Stuff(p)) + 9 /\ Len(Stuff(p)) \in Nat
    BY BodyIs, PayloadType DEF Length
  <2> HIDE DEF len, n
  <2>3. (len % 256) + 256 * (len \div 256) = len
    BY <2>1
  <2>4. QED
    BY <2>1, <2>2, <2>3
<1>4. /\ IdleParser.state = "idle" /\ FF # FD /\ FD # 0 /\ STATUS # 0
      /\ At(p, 0) = [IdleParser EXCEPT !.ffs = 0]
      /\ At(p, 1) = [IdleParser EXCEPT !.ffs = 1]
      /\ At(p, 2) = [IdleParser EXCEPT !.ffs = 2]
      /\ At(p, 3) = Reading("reserved", 0, 0, <<>>, crc(3), 0)
      /\ At(p, 4) = Reading("id", 0, 0, <<>>, crc(4), 0)
      /\ At(p, 5) = Reading("length_l", 0, 0, <<>>, crc(5), 0)
      /\ At(p, 6) = Reading("length_h", len % 256, 0, <<>>, crc(6), 0)
      /\ At(p, 7) = Reading("inst", len, 0, <<>>, crc(7), 0)
      /\ At(p, 8) = Reading("error", len, STATUS, <<>>, crc(8), 0)
  BY DEF At, IdleParser, FF, FD, STATUS
<1>5. At(p, 9) = IF len = 4 THEN Reading("crc_l", len, STATUS, <<>>, crc(9), 0)
                 ELSE Reading("param", len, STATUS, <<>>, crc(9), 0)
  BY AtParams
<1> HIDE DEF b, crc, n, len
<1>6. CASE k = 0
  <2>1. At(p, 0).state = "idle" /\ At(p, 0).ffs = 0
    BY <1>4 DEF IdleParser
  <2>2. Parse(At(p, 0), FF, c) = InIdle(At(p, 0), FF)
    BY <2>1, ParseIs
  <2>3. InIdle(At(p, 0), FF) = Outcome(At(p, 1), "proceeding", -1)
    BY <1>4, <2>1 DEF InIdle, IdleParser
  <2>4. QED
    BY <1>1, <1>6, <2>2, <2>3 DEF b
<1>7. CASE k = 1
  <2>1. At(p, 1).state = "idle" /\ At(p, 1).ffs = 1
    BY <1>4 DEF IdleParser
  <2>2. Parse(At(p, 1), FF, c) = InIdle(At(p, 1), FF)
    BY <2>1, ParseIs
  <2>3. InIdle(At(p, 1), FF) = Outcome(At(p, 2), "proceeding", -1)
    BY <1>4, <2>1 DEF InIdle, IdleParser
  <2>4. QED
    BY <1>1, <1>7, <2>2, <2>3 DEF b
<1>8. CASE k = 2
  <2>1. At(p, 2).state = "idle" /\ At(p, 2).ffs = 2
    BY <1>4 DEF IdleParser
  <2>2. Parse(At(p, 2), FD, c) = InIdle(At(p, 2), FD)
    BY <2>1, ParseIs
  <2>3. InIdle(At(p, 2), FD) = Outcome(At(p, 3), "proceeding", -1)
    <3> DEFINE h == CrcOf(<<FF, FF, FD>>)
    <3>1. IdleParser = Reading("idle", 0, 0, <<>>, 0, 0)
      BY DEF IdleParser, Reading
    <3>2. Moved(IdleParser, "reserved", h) = At(p, 3)
      BY <1>2, <1>4, <3>1, MovedIs
    <3> HIDE DEF h
    <3>3. InIdle(At(p, 2), FD) = Outcome(Moved(IdleParser, "reserved", h),
                                         "proceeding", -1)
      BY <2>1 DEF InIdle, Moved, h
    <3>4. QED
      BY <3>2, <3>3
  <2>4. QED
    BY <1>1, <1>8, <2>2, <2>3 DEF b
<1>9. CASE k = 3
  <2>1. At(p, 3).state = "reserved"
    BY <1>4 DEF Reading
  <2>2. Parse(At(p, 3), 0, c) = InReserved(At(p, 3), 0)
    BY <2>1, ParseIs
  <2>3. InReserved(At(p, 3), 0) = Outcome(At(p, 4), "proceeding", -1)
    <3>1. InReserved(At(p, 3), 0) = Goes(At(p, 3), "id", 0)
      BY <1>4 DEF InReserved
    <3>2. QED
      BY <1>1, <1>2, <1>4, <3>1, GoesIs
  <2>4. QED
    BY <1>1, <1>9, <2>2, <2>3 DEF b
<1>10. CASE k = 4
  <2>1. At(p, 4).state = "id"
    BY <1>4 DEF Reading
  <2>2. Parse(At(p, 4), Id, c) = InId(At(p, 4), Id)
    BY <2>1, ParseIs
  <2>3. Id < FD
    BY LinkAssumption DEF FD
  <2>4. InId(At(p, 4), Id) = Outcome(At(p, 5), "proceeding", -1)
    <3>1. InId(At(p, 4), Id) = Goes(At(p, 4), "length_l", Id)
      BY <2>3 DEF InId
    <3>2. QED
      BY <1>1, <1>2, <1>4, <3>1, GoesIs
  <2>5. QED
    BY <1>1, <1>10, <2>2, <2>4 DEF b
<1>11. CASE k = 5
  <2>1. At(p, 5).state = "length_l"
    BY <1>4 DEF Reading
  <2>2. Parse(At(p, 5), b(6), c) = InLength(At(p, 5), b(6))
    BY <2>1, ParseIs
  <2>3. InLength(At(p, 5), b(6)) = Outcome(At(p, 6), "proceeding", -1)
    <3> DEFINE q == [At(p, 5) EXCEPT !.len = b(6)]
    <3>1. q = Reading("length_l", b(6), 0, <<>>, crc(5), 0)
      BY <1>4, LengthIs
    <3> HIDE DEF q
    <3>2. InLength(At(p, 5), b(6)) = Goes(q, "length_h", b(6))
      BY <2>1 DEF InLength, q
    <3>3. QED
      BY <1>1, <1>2, <1>4, <3>1, <3>2, GoesIs
  <2>4. QED
    BY <1>11, <2>2, <2>3 DEF b
<1>12. CASE k = 6
  <2>1. At(p, 6).state = "length_h" /\ At(p, 6).len = len % 256
    BY <1>4 DEF Reading
  <2>2. Parse(At(p, 6), b(7), c) = InLength(At(p, 6), b(7))
    BY <2>1, ParseIs
  <2>3. At(p, 6).len + 256 * b(7) = len /\ ~(len < 3)
    BY <1>1, <1>3, <2>1
  <2>4. InLength(At(p, 6), b(7)) = Outcome(At(p, 7), "proceeding", -1)
    <3> DEFINE q == [At(p, 6) EXCEPT !.len = len]
    <3>1. q = Reading("length_h", len, 0, <<>>, crc(6), 0)
      BY <1>4 DEF Reading
    <3>2. [At(p, 6) EXCEPT !.len = IF At(p, 6).state = "length_l" THEN b(7)
                                   ELSE @ + 256 * b(7)] = q
      BY <1>4, <2>1, <2>3 DEF Reading
    <3>3. q.len = len
      BY <3>1 DEF Reading
    <3> HIDE DEF q
    <3>4. InLength(At(p, 6), b(7)) = Goes(q, "inst", b(7))
      BY <2>1, <2>3, <3>2, <3>3 DEF InLength
    <3>5. Goes(q, "inst", b(7)) = Outcome(At(p, 7), "proceeding", -1)
      BY <1>2, <1>4, <3>1, GoesIs
    <3>6. QED
      BY <3>4, <3>5
  <2>5. QED
    BY <1>12, <2>2, <2>4 DEF b
<1>13. CASE k = 7
  <2>1. At(p, 7).state = "inst"
    BY <1>4 DEF Reading
  <2>2. Parse(At(p, 7), STATUS, c) = InInst(At(p, 7), STATUS, c)
    BY <2>1, ParseIs
  <2> DEFINE q == [At(p, 7) EXCEPT !.inst = STATUS, !.err = 0, !.got = <<>>]
  <2>3. q = Reading("inst", len, STATUS, <<>>, crc(7), 0)
    BY <1>4, InstIs
  <2>4. Frame(q) = 4 /\ q.len = len
    BY <2>3 DEF Reading, Frame
  <2> HIDE DEF q
  <2>5. ~(q.len < Frame(q)) /\ ~(q.len > c + Frame(q))
    BY <1>3, <2>4
  <2>6. InInst(At(p, 7), STATUS, c) = Goes(q, "error", STATUS)
    BY <2>5 DEF InInst, q
  <2>7. Goes(q, "error", STATUS) = Outcome(At(p, 8), "proceeding", -1)
    BY <1>1, <1>2, <1>4, <2>3, GoesIs
  <2>8. QED
    BY <1>1, <1>13, <2>2, <2>6, <2>7 DEF b
<1>14. CASE k = 8
  <2>1. At(p, 8).state = "error" /\ At(p, 8).len = len
    BY <1>4 DEF Reading
  <2>2. Parse(At(p, 8), 0, c) = InError(At(p, 8), 0)
    BY <2>1, ParseIs
  <2>3. InError(At(p, 8), 0) = Outcome(At(p, 9), "proceeding", -1)
    <3>1. [At(p, 8) EXCEPT !.err = 0] = At(p, 8)
      BY <1>4 DEF Reading
    <3>2. InError(At(p, 8), 0) = Goes(At(p, 8), IF len = 4 THEN "crc_l" ELSE "param", 0)
      BY <2>1, <3>1 DEF InError
    <3>3. crc(9) = Crc(crc(8), 0)
      BY <1>1, <1>2
    <3>4. CASE len = 4
      BY <1>4, <1>5, <3>2, <3>3, <3>4, GoesIs
    <3>5. CASE len # 4
      BY <1>4, <1>5, <3>2, <3>3, <3>5, GoesIs
    <3>6. QED
      BY <3>4, <3>5
  <2>4. QED
    BY <1>1, <1>14, <2>2, <2>3 DEF b
<1>15. QED
  <2>1. \/ k = 0 \/ k = 1 \/ k = 2 \/ k = 3 \/ k = 4 \/ k = 5 \/ k = 6 \/ k = 7
        \/ k = 8
    OBVIOUS
  <2>2. QED
    BY <2>1, <1>6, <1>7, <1>8, <1>9, <1>10, <1>11, <1>12, <1>13, <1>14

(* A byte put before others.                                                *)
LEMMA BehindError ==
  ASSUME NEW s \in Seq(Byte)
  PROVE  LET t == <<0>> \o s IN
         /\ t \in Seq(Byte) /\ Len(t) = Len(s) + 1 /\ t[1] = 0
         /\ \A i \in 1 .. Len(s) : t[i + 1] = s[i]
<1> DEFINE e == <<0>>
           t == e \o s
<1>1. e \in Seq(Byte) /\ Len(e) = 1 /\ e[1] = 0
  BY DEF Byte
<1>2. Len(s) \in Nat
  OBVIOUS
<1> HIDE DEF e
<1>3. /\ t \in Seq(Byte) /\ Len(t) = Len(e) + Len(s)
      /\ \A i \in 1 .. Len(e) + Len(s) : t[i] = IF i <= Len(e) THEN e[i] ELSE s[i - Len(e)]
  BY <1>1, ConcatProperties
<1>4. 1 \in 1 .. 1 + Len(s) /\ 1 <= 1
  BY <1>2
<1>5. Len(t) = Len(s) + 1 /\ t[1] = 0
  <2> HIDE DEF t
  <2>1. QED
    BY <1>1, <1>2, <1>3, <1>4
<1>6. ASSUME NEW i \in 1 .. Len(s) PROVE t[i + 1] = s[i]
  <2>1. i + 1 \in 1 .. 1 + Len(s) /\ ~(i + 1 <= 1) /\ (i + 1) - 1 = i
    BY <1>2
  <2>2. PICK k \in 1 .. 1 + Len(s) : k = i + 1
    BY <2>1
  <2> HIDE DEF t
  <2>3. t[k] = s[k - 1]
    BY <1>1, <1>3, <2>1, <2>2
  <2>4. QED
    BY <2>1, <2>2, <2>3
<1>7. QED
  BY <1>3, <1>5, <1>6 DEF e

(* The next parameter byte: which it is, what has been collected with it,   *)
(* and whether it is one that was stuffed in.                               *)
LEMMA NextParam ==
  ASSUME NEW p \in Payloads, ~StuffedInside(p), NEW j \in Nat, j < Len(Stuff(p))
  PROVE  LET b    == Stuff(p)[j + 1]
             more == Append(Got(p, j), b)
         IN /\ more \in Seq(Byte) /\ Len(more) = j + 1
            /\ IsSuffix(<<FF, FF, FD, FD>>, <<0>> \o more) <=> j >= Len(p)
            /\ Got(p, j + 1) = IF j >= Len(p) THEN Got(p, j) ELSE more
<1> DEFINE s == Stuff(p)
           b == s[j + 1]
           more == Append(Got(p, j), b)
           t == <<0>> \o more
<1>1. /\ p \in Seq(Byte) /\ s \in Seq(Byte) /\ Len(s) \in Nat /\ Len(p) \in Nat
      /\ FD \in Byte
  <2>1. p \in Seq(Byte) /\ s \in Seq(Byte)
    BY PayloadType
  <2>2. QED
    BY <2>1 DEF FD, Byte
<1>2. s = p \/ (Ending(p) /\ s = Append(p, FD))
  BY <1>1, StuffIs
<1>3. /\ Append(p, FD) \in Seq(Byte) /\ Len(Append(p, FD)) = Len(p) + 1
      /\ \A i \in 1 .. Len(p) : Append(p, FD)[i] = p[i]
      /\ Append(p, FD)[Len(p) + 1] = FD
  BY <1>1, AppendProperties
<1>4. CASE j < Len(p)
  <2>1. j \in 0 .. Len(p) /\ j + 1 \in 0 .. Len(p) /\ j + 1 \in 1 .. Len(p)
    BY <1>1, <1>4
  <2>2. b = p[j + 1]
    BY <1>2, <1>3, <2>1
  <2>3. Got(p, j) = SubSeq(p, 1, j)
    BY <1>4 DEF Got
  <2>4. more = SubSeq(p, 1, j + 1)
    BY <1>1, <1>4, <2>1, <2>2, <2>3, PrefixGrows
  <2> HIDE DEF more
  <2>5. /\ more \in Seq(Byte) /\ Len(more) = j + 1
        /\ \A i \in 1 .. j + 1 : more[i] = p[i]
    BY <1>1, <2>1, <2>4, PrefixIs
  <2>6. Got(p, j + 1) = more
    <3>1. CASE j + 1 < Len(p)
      BY <2>4, <3>1 DEF Got
    <3>2. CASE ~(j + 1 < Len(p))
      <4>1. j + 1 = Len(p)
        BY <1>1, <2>1, <3>2
      <4>2. more = p
        BY <1>1, <2>4, <4>1, SubSeqFull
      <4>3. QED
        BY <3>2, <4>2 DEF Got
    <3>3. QED
      BY <3>1, <3>2
  <2>7. ~IsSuffix(<<FF, FF, FD, FD>>, t)
    <3>1. SUFFICES ASSUME IsSuffix(<<FF, FF, FD, FD>>, t) PROVE FALSE
      OBVIOUS
    <3>2. /\ t \in Seq(Byte) /\ Len(t) = Len(more) + 1 /\ t[1] = 0
          /\ \A i \in 1 .. Len(more) : t[i + 1] = more[i]
      BY <2>5, BehindError
    <3> HIDE DEF t
    <3>3. /\ 4 <= Len(t) /\ t[Len(t) - 3] = FF
          /\ t[Len(t) - 2] = FF /\ t[Len(t) - 1] = FD
      BY <3>1, <3>2, StuffedSuffix DEF t
    <3>4. Len(t) = j + 2 /\ j >= 2
      BY <2>5, <3>2, <3>3
    <3>5. Len(t) - 3 = j - 1 /\ Len(t) - 2 = j /\ Len(t) - 1 = j + 1
      BY <3>4
    <3>6. j # 2
      <4>1. SUFFICES ASSUME j = 2 PROVE FALSE
        OBVIOUS
      <4>2. Len(t) - 3 = 1
        BY <3>5, <4>1
      <4>3. t[1] = FF
        BY <3>3, <4>2
      <4>4. QED
        BY <3>2, <4>3 DEF FF
    <3>7. PICK i \in 1 .. Len(p) - 3 : i = j - 2
      <4>1. j - 2 \in 1 .. Len(p) - 3
        BY <1>1, <2>1, <3>4, <3>6
      <4>2. QED
        BY <4>1
    <3>8. /\ i \in 1 .. j + 1 /\ i + 1 \in 1 .. j + 1 /\ i + 2 \in 1 .. j + 1
          /\ i + 1 = j - 1 /\ i + 1 + 1 = j /\ i + 2 + 1 = j + 1
      BY <3>7, <3>4, <3>6
    <3>9. t[i + 1] = more[i] /\ t[i + 1 + 1] = more[i + 1] /\ t[i + 2 + 1] = more[i + 2]
      BY <2>5, <3>2, <3>8
    <3>10. p[i] = FF /\ p[i + 1] = FF /\ p[i + 2] = FD
      BY <2>5, <3>3, <3>5, <3>8, <3>9
    <3>11. QED
      BY <1>1, <3>10, InsideIs
  <2>8. ~(j >= Len(p))
    BY <1>1, <1>4
  <2>9. QED
    BY <2>5, <2>6, <2>7, <2>8 DEF more
<1>5. CASE j >= Len(p)
  <2>1. s # p
    BY <1>1, <1>5
  <2>2. Ending(p) /\ s = Append(p, FD)
    BY <1>2, <2>1
  <2>3. j = Len(p)
    BY <1>1, <1>3, <1>5, <2>2
  <2>4. b = FD
    BY <1>3, <2>2, <2>3
  <2>5. Got(p, j) = p /\ Got(p, j + 1) = p
    BY <1>1, <2>3 DEF Got
  <2>6. more = Append(p, FD)
    BY <2>4, <2>5
  <2> HIDE DEF more
  <2>7. /\ more \in Seq(Byte) /\ Len(more) = j + 1
        /\ \A i \in 1 .. j : more[i] = p[i]
        /\ more[j + 1] = FD
    BY <1>3, <2>3, <2>6
  <2>8. IsSuffix(<<FF, FF, FD, FD>>, t)
    <3>1. /\ t \in Seq(Byte) /\ Len(t) = Len(more) + 1
          /\ \A i \in 1 .. Len(more) : t[i + 1] = more[i]
      BY <2>7, BehindError
    <3> HIDE DEF t
    <3>2. 3 <= j /\ p[j - 2] = FF /\ p[j - 1] = FF /\ p[j] = FD
      BY <2>2, <2>3 DEF Ending
    <3>3. /\ j - 2 \in 1 .. j + 1 /\ j - 1 \in 1 .. j + 1 /\ j \in 1 .. j + 1
          /\ j + 1 \in 1 .. j + 1
          /\ j - 2 \in 1 .. j /\ j - 1 \in 1 .. j /\ j \in 1 .. j
      BY <3>2
    <3>4. /\ t[(j - 2) + 1] = FF /\ t[(j - 1) + 1] = FF
          /\ t[j + 1] = FD /\ t[(j + 1) + 1] = FD
      BY <2>7, <3>1, <3>2, <3>3
    <3>5. /\ Len(t) = j + 2 /\ Len(t) - 3 = (j - 2) + 1 /\ Len(t) - 2 = (j - 1) + 1
          /\ Len(t) - 1 = j + 1 /\ Len(t) = (j + 1) + 1 /\ 4 <= Len(t)
      BY <2>7, <3>1, <3>2
    <3>6. /\ t[Len(t) - 3] = FF /\ t[Len(t) - 2] = FF
          /\ t[Len(t) - 1] = FD /\ t[Len(t)] = FD
      BY <3>4, <3>5
    <3>7. QED
      BY <3>1, <3>5, <3>6, StuffedSuffix
  <2>9. QED
    BY <1>5, <2>5, <2>7, <2>8 DEF more
<1>6. QED
  BY <1>1, <1>4, <1>5

Taken(r, got, c) == [r EXCEPT !.got = got, !.crc = c]

LEMMA TakenIs ==
  ASSUME NEW state, NEW len, NEW got, NEW crc, NEW new, NEW c
  PROVE  Taken(Reading(state, len, STATUS, got, crc, 0), new, c)
           = Reading(state, len, STATUS, new, c, 0)
<1> DEFINE r == Reading(state, len, STATUS, got, crc, 0)
           s == [r EXCEPT !.got = new]
<1>1. s = Reading(state, len, STATUS, new, crc, 0)
  BY DEF Reading
<1>2. [s EXCEPT !.crc = c] = Reading(state, len, STATUS, new, c, 0)
  <2> HIDE DEF s
  <2>1. QED
    BY <1>1 DEF Reading
<1>3. Taken(r, new, c) = [s EXCEPT !.crc = c]
  <2> HIDE DEF r
  <2>1. QED
    BY DEF Taken
<1>4. QED
  BY <1>2, <1>3

LEMMA DoneIs ==
  ASSUME NEW len, NEW got, NEW crc
  PROVE  [Reading("param", len, STATUS, got, crc, 0) EXCEPT !.state = "crc_l"]
           = Reading("crc_l", len, STATUS, got, crc, 0)
  BY DEF Reading

LEMMA ParamStep ==
  ASSUME NEW p \in Payloads, ~StuffedInside(p), NEW c, NEW j \in Nat,
         j < Len(Stuff(p))
  PROVE  Parse(At(p, 9 + j), Stuff(p)[j + 1], c)
           = Outcome(At(p, 10 + j), "proceeding", Len(Got(p, j)))
<1> DEFINE b == Stuff(p)[j + 1]
           n == Len(Body(p))
           len == Length(p)
           more == Append(Got(p, j), b)
           crc(i) == CrcUpTo(Body(p))[i]
           r == At(p, 9 + j)
           extra == IsSuffix(<<FF, FF, FD, FD>>, <<0>> \o more)
           q == Reading("param", len, STATUS, Got(p, j + 1), crc(10 + j), 0)
<1>1. /\ p \in Seq(Byte) /\ Len(p) \in Nat
      /\ Len(Stuff(p)) \in Nat /\ n = Len(Stuff(p)) + 9
      /\ len = Len(Stuff(p)) + 4
  <2>1. p \in Seq(Byte) /\ Len(Stuff(p)) \in Nat
    BY PayloadType
  <2>2. QED
    BY <2>1, BodyIs DEF Length
<1>2. r = Reading("param", len, STATUS, Got(p, j), crc(9 + j), 0)
  <2>1. PICK k \in Nat : k = 9 + j
    OBVIOUS
  <2>2. /\ ~(k < 3) /\ k # 3 /\ k # 4 /\ k # 5 /\ k # 6 /\ k # 7 /\ k # 8
        /\ k < n /\ k - 9 = j
    BY <1>1, <2>1
  <2>3. At(p, k) = Reading("param", len, STATUS, Got(p, k - 9), crc(k), 0)
    BY <2>2 DEF At
  <2>4. QED
    BY <2>1, <2>2, <2>3
<1>3. crc(10 + j) = Crc(crc(9 + j), b)
  <2>1. 10 + j \in 1 .. n /\ (10 + j) - 1 = 9 + j /\ 10 + j = 9 + (j + 1)
        /\ j + 1 \in 1 .. Len(Stuff(p))
    BY <1>1
  <2>2. PICK k \in 1 .. n : k = 10 + j
    BY <2>1
  <2>3. Body(p)[k] = b
    <3>1. Body(p)[9 + (j + 1)] = Stuff(p)[j + 1]
      BY <2>1, BodyIs
    <3>2. QED
      BY <2>1, <2>2, <3>1
  <2>4. CrcUpTo(Body(p))[k] = Crc(CrcUpTo(Body(p))[k - 1], Body(p)[k])
    BY CrcGrows
  <2>5. k - 1 = 9 + j
    BY <2>1, <2>2
  <2>6. QED
    BY <2>2, <2>3, <2>4, <2>5
<1>4. /\ Len(more) = j + 1
      /\ extra <=> j >= Len(p)
      /\ Got(p, j + 1) = IF j >= Len(p) THEN Got(p, j) ELSE more
  BY NextParam
<1>5. At(p, 10 + j) = IF j + 1 = Len(Stuff(p))
                      THEN [q EXCEPT !.state = "crc_l"] ELSE q
  <2>1. PICK k \in Nat : k = 10 + j
    OBVIOUS
  <2>2. /\ ~(k < 3) /\ k # 3 /\ k # 4 /\ k # 5 /\ k # 6 /\ k # 7 /\ k # 8
        /\ k - 9 = j + 1
    BY <2>1
  <2>3. CASE j + 1 = Len(Stuff(p))
    <3>1. ~(k < n) /\ k = n
      BY <1>1, <2>1, <2>3
    <3>2. At(p, k) = Reading("crc_l", len, STATUS, p, crc(k), 0)
      BY <2>2, <3>1 DEF At
    <3>3. Got(p, j + 1) = p
      <4>1. j + 1 >= Len(p)
        <5>1. FD \in Byte
          BY DEF FD, Byte
        <5>2. Len(Append(p, FD)) = Len(p) + 1
          BY <1>1, <5>1, AppendProperties
        <5>3. Len(Stuff(p)) >= Len(p)
          BY <1>1, <5>2, StuffIs
        <5>4. QED
          BY <2>3, <5>3
      <4>2. QED
        BY <1>1, <4>1 DEF Got
    <3>4. [q EXCEPT !.state = "crc_l"] = Reading("crc_l", len, STATUS, p, crc(k), 0)
      BY <2>1, <3>3, DoneIs
    <3>5. QED
      BY <2>1, <2>3, <3>2, <3>4
  <2>4. CASE j + 1 # Len(Stuff(p))
    <3>1. k < n
      BY <1>1, <2>1, <2>4
    <3>2. At(p, k) = Reading("param", len, STATUS, Got(p, k - 9), crc(k), 0)
      BY <2>2, <3>1 DEF At
    <3>3. QED
      BY <2>1, <2>2, <2>4, <3>2
  <2>5. QED
    BY <2>3, <2>4
<1>6. /\ r.state = "param" /\ r.inst = STATUS /\ r.err = 0 /\ r.got = Got(p, j)
      /\ r.crc = crc(9 + j) /\ r.len = len
  BY <1>2, ReadingIs
<1>7. Taken(r, Got(p, j + 1), crc(10 + j)) = q
  BY <1>2, TakenIs
<1> HIDE DEF r, len, n, crc
<1>8. Parse(r, b, c) = InParam(r, b)
  BY <1>6, ParseIs
<1>9. InParam(r, b) = Outcome(IF j + 1 = Len(Stuff(p)) THEN [q EXCEPT !.state = "crc_l"]
                              ELSE q, "proceeding", Len(Got(p, j)))
  <2> DEFINE t == Taken(r, IF extra THEN r.got ELSE more, Crc(r.crc, b))
  <2>1. t = q
    <3>1. (IF extra THEN r.got ELSE more) = Got(p, j + 1)
      BY <1>4, <1>6
    <3>2. Crc(r.crc, b) = crc(10 + j)
      BY <1>3, <1>6
    <3>3. QED
      BY <1>7, <3>1, <3>2
  <2>2. Frame(r) = 4
    BY <1>6 DEF Frame
  <2>3. (Len(more) + Frame(r) = r.len) <=> j + 1 = Len(Stuff(p))
    BY <1>1, <1>4, <1>6, <2>2
  <2>4. InParam(r, b) = Outcome(IF Len(more) + Frame(r) = r.len
                                THEN [t EXCEPT !.state = "crc_l"] ELSE t,
                                "proceeding", Len(r.got))
    BY <1>6 DEF InParam, Taken
  <2> HIDE DEF q, t
  <2>5. QED
    BY <1>6, <2>1, <2>3, <2>4
<1>10. QED
  <2> HIDE DEF q
  <2>1. QED
    BY <1>5, <1>8, <1>9 DEF r

Ended(r, b) == [r EXCEPT !.state = "crc_h", !.recv = b]

LEMMA EndedIs ==
  ASSUME NEW len, NEW got, NEW crc, NEW b
  PROVE  Ended(Reading("crc_l", len, STATUS, got, crc, 0), b)
           = Reading("crc_h", len, STATUS, got, crc, b)
<1> DEFINE r == Reading("crc_l", len, STATUS, got, crc, 0)
           s == [r EXCEPT !.state = "crc_h"]
<1>1. s = Reading("crc_h", len, STATUS, got, crc, 0)
  BY DEF Reading
<1>2. [s EXCEPT !.recv = b] = Reading("crc_h", len, STATUS, got, crc, b)
  <2> HIDE DEF s
  <2>1. QED
    BY <1>1 DEF Reading
<1>3. Ended(r, b) = [s EXCEPT !.recv = b]
  <2> HIDE DEF r
  <2>1. QED
    BY DEF Ended
<1>4. QED
  BY <1>2, <1>3

LEMMA CrcSteps ==
  ASSUME NEW p \in Payloads, NEW c
  PROVE  LET n == Len(Body(p))
             crc == CrcOf(Body(p))
         IN /\ Parse(At(p, n), crc % 256, c) = Outcome(At(p, n + 1), "proceeding", -1)
            /\ Parse(At(p, n + 1), crc \div 256, c) = Outcome(IdleParser, "ok", -1)
            /\ At(p, n + 1).got = p /\ At(p, n + 1).inst = STATUS
<1> DEFINE n == Len(Body(p))
           crc == CrcOf(Body(p))
           len == Length(p)
<1>1. n \in Nat /\ n >= 9 /\ crc \in Word /\ CrcUpTo(Body(p))[n] = crc
  <2>1. Body(p) \in Seq(Byte) /\ n = Len(Stuff(p)) + 9 /\ Len(Stuff(p)) \in Nat
    BY BodyIs, PayloadType
  <2>2. crc \in Word /\ CrcUpTo(Body(p))[n] = crc
    BY <2>1, CrcOfType DEF CrcOf
  <2>3. QED
    BY <2>1, <2>2
<1>2. /\ ~(n < 3) /\ n # 3 /\ n # 4 /\ n # 5 /\ n # 6 /\ n # 7 /\ n # 8 /\ ~(n < n)
      /\ ~(n + 1 < 3) /\ n + 1 # 3 /\ n + 1 # 4 /\ n + 1 # 5 /\ n + 1 # 6
      /\ n + 1 # 7 /\ n + 1 # 8 /\ ~(n + 1 < n) /\ n + 1 # n
  <2> HIDE DEF n
  <2>1. n \in Nat /\ n >= 9
    BY <1>1
  <2>2. QED
    BY <2>1
<1>3. At(p, n) = Reading("crc_l", len, STATUS, p, crc, 0)
  BY <1>1, <1>2 DEF At
<1>4. At(p, n + 1) = Reading("crc_h", len, STATUS, p, crc, crc % 256)
  BY <1>1, <1>2 DEF At
<1>5. crc = (crc % 256) + 256 * (crc \div 256)
  <2> HIDE DEF crc
  <2>1. crc \in Nat
    BY <1>1 DEF Word
  <2>2. QED
    BY <2>1
<1> HIDE DEF n, crc, len
<1>6. Parse(At(p, n), crc % 256, c) = Outcome(At(p, n + 1), "proceeding", -1)
  <2>1. At(p, n).state = "crc_l"
    BY <1>3, ReadingIs
  <2>2. Parse(At(p, n), crc % 256, c) = InCrcLow(At(p, n), crc % 256)
    BY <2>1, ParseIs
  <2>3. InCrcLow(At(p, n), crc % 256)
          = Outcome(Ended(At(p, n), crc % 256), "proceeding", -1)
    BY DEF InCrcLow, Ended
  <2>4. QED
    BY <1>3, <1>4, <2>2, <2>3, EndedIs
<1>7. /\ At(p, n + 1).state = "crc_h" /\ At(p, n + 1).got = p
      /\ At(p, n + 1).inst = STATUS /\ At(p, n + 1).crc = crc
      /\ At(p, n + 1).recv = crc % 256
  BY <1>4, ReadingIs
<1>8. Parse(At(p, n + 1), crc \div 256, c) = Outcome(IdleParser, "ok", -1)
  <2>1. Parse(At(p, n + 1), crc \div 256, c) = InCrcHigh(At(p, n + 1), crc \div 256)
    BY <1>7, ParseIs
  <2>2. InCrcHigh(At(p, n + 1), crc \div 256) = Outcome(IdleParser, "ok", -1)
    BY <1>5, <1>7 DEF InCrcHigh
  <2>3. QED
    BY <2>1, <2>2
<1>9. QED
  BY <1>6, <1>7, <1>8 DEF n, crc

(* One byte of an undamaged answer: all but the last leave the parser where *)
(* At says, and the last one ends the packet well.                          *)
LEMMA AnswerStep ==
  ASSUME NEW p \in Payloads, ~StuffedInside(p), NEW c \in Nat, Len(Stuff(p)) <= c,
         NEW k \in 0 .. Len(Status(Id, p)) - 1
  PROVE  LET s   == Status(Id, p)
             out == Parse(At(p, k), s[k + 1], c)
         IN /\ k + 1 < Len(s) => out.parser = At(p, k + 1) /\ out.ret = "proceeding"
            /\ k + 1 = Len(s) => /\ out.parser = IdleParser /\ out.ret = "ok"
                                 /\ At(p, k).got = p /\ At(p, k).inst = STATUS
<1> DEFINE s == Status(Id, p)
           b == Body(p)
           n == Len(b)
           m == Len(Stuff(p))
           out == Parse(At(p, k), s[k + 1], c)
<1>1. ASSUME NEW q, NEW ret, NEW at
      PROVE  Outcome(q, ret, at).parser = q /\ Outcome(q, ret, at).ret = ret
  BY DEF Outcome
<1>2. /\ m \in Nat /\ n = m + 9 /\ Len(s) = n + 2 /\ k \in Nat /\ k <= n + 1
      /\ \A i \in 1 .. n : s[i] = b[i]
      /\ s[n + 1] = CrcOf(b) % 256 /\ s[n + 2] = CrcOf(b) \div 256
  <2>1. m \in Nat /\ n = m + 9 /\ Len(s) = n + 2
    BY BodyIs, StatusIs, PayloadType
  <2>2. k \in Nat /\ k <= n + 1
    BY <2>1
  <2>3. /\ \A i \in 1 .. n : s[i] = b[i]
        /\ s[n + 1] = CrcOf(b) % 256 /\ s[n + 2] = CrcOf(b) \div 256
    BY StatusIs
  <2>4. QED
    BY <2>1, <2>2, <2>3
<1> HIDE DEF s, b, n, m
<1>3. CASE k <= 8
  <2>1. k \in 0 .. 8 /\ k + 1 \in 1 .. n /\ k + 1 < Len(s) /\ k + 1 # Len(s)
    BY <1>2, <1>3
  <2>2. out = Outcome(At(p, k + 1), "proceeding", -1)
    BY <1>2, <2>1, HeaderStep DEF b, m
  <2>3. QED
    BY <1>1, <2>1, <2>2 DEF s
<1>4. CASE k > 8 /\ k < n
  <2>1. PICK j \in Nat : j = k - 9
    BY <1>2, <1>4
  <2>2. /\ j < m /\ k = 9 + j /\ k + 1 = 10 + j /\ k + 1 \in 1 .. n
        /\ k + 1 < Len(s) /\ k + 1 # Len(s)
        /\ j + 1 \in 1 .. m /\ 9 + (j + 1) = k + 1
    BY <1>2, <1>4, <2>1
  <2>3. b[9 + (j + 1)] = Stuff(p)[j + 1]
    BY <2>2, BodyIs DEF b, m
  <2>4. s[k + 1] = Stuff(p)[j + 1]
    BY <1>2, <2>2, <2>3
  <2>5. Parse(At(p, 9 + j), Stuff(p)[j + 1], c)
          = Outcome(At(p, 10 + j), "proceeding", Len(Got(p, j)))
    BY <2>2, ParamStep DEF m
  <2>6. out = Outcome(At(p, k + 1), "proceeding", Len(Got(p, j)))
    BY <2>2, <2>4, <2>5
  <2>7. QED
    BY <1>1, <2>2, <2>6 DEF s
<1>5. CASE k = n
  <2>1. k + 1 < Len(s) /\ k + 1 # Len(s)
    BY <1>2, <1>5
  <2>2. out = Outcome(At(p, k + 1), "proceeding", -1)
    BY <1>2, <1>5, CrcSteps DEF n, b
  <2>3. QED
    BY <1>1, <2>1, <2>2 DEF s
<1>6. CASE k = n + 1
  <2>1. k + 1 = Len(s) /\ ~(k + 1 < Len(s)) /\ k + 1 = n + 2
    BY <1>2, <1>6
  <2>2. /\ Parse(At(p, k), CrcOf(b) \div 256, c) = Outcome(IdleParser, "ok", -1)
        /\ At(p, k).got = p /\ At(p, k).inst = STATUS
    BY <1>6, CrcSteps DEF n, b
  <2>3. out = Outcome(IdleParser, "ok", -1)
    BY <1>2, <2>1, <2>2
  <2>4. QED
    BY <1>1, <2>1, <2>2, <2>3 DEF s
<1>7. QED
  BY <1>2, <1>3, <1>4, <1>5, <1>6

----------------------------------------------------------------------------
(* The types.  The parser's: what it has collected leaves room for the next *)
(* byte of the packet, also when that byte is the error byte.               *)
Parsers == [state : States, ffs : 0 .. 2, len : Nat, inst : Byte, err : Byte,
            got : Seq(Byte), crc : Word, recv : Byte]

Roomy(p) ==
  /\ p.state = "error" => p.inst = STATUS /\ p.len >= 4 /\ p.got = <<>>
  /\ p.state = "param" => Len(p.got) + Frame(p) < p.len

LEMMA MovedType ==
  ASSUME NEW p \in Parsers, NEW to \in States, NEW c \in Word
  PROVE  LET q == Moved(p, to, c) IN
         /\ q \in Parsers /\ q.state = to /\ q.len = p.len /\ q.inst = p.inst
         /\ q.got = p.got
<1> DEFINE q == [p EXCEPT !.state = to]
           r == [q EXCEPT !.crc = c]
<1>1. Moved(p, to, c) = r
  BY DEF Moved
<1>2. /\ q \in Parsers /\ q.state = to /\ q.len = p.len /\ q.inst = p.inst
      /\ q.got = p.got
  BY DEF Parsers
<1> HIDE DEF q
<1>3. /\ r \in Parsers /\ r.state = q.state /\ r.len = q.len /\ r.inst = q.inst
      /\ r.got = q.got
  BY <1>2 DEF Parsers
<1>4. QED
  <2> HIDE DEF r
  <2>1. QED
    BY <1>1, <1>2, <1>3

LEMMA GoesType ==
  ASSUME NEW p \in Parsers, NEW to \in States, NEW b \in Byte
  PROVE  LET q == Goes(p, to, b).parser IN
         /\ q \in Parsers /\ q.state = to /\ q.len = p.len /\ q.inst = p.inst
         /\ q.got = p.got
<1>1. Crc(p.crc, b) \in Word
  BY CrcType DEF Parsers
<1>2. Goes(p, to, b).parser = Moved(p, to, Crc(p.crc, b))
  BY DEF Goes, Outcome, Moved
<1>3. QED
  BY <1>1, <1>2, MovedType

LEMMA IdleType == IdleParser \in Parsers /\ Roomy(IdleParser)
<1>1. 0 \in Word
  BY DEF Word
<1>2. QED
  BY <1>1 DEF IdleParser, Parsers, Roomy, States, Byte

LEMMA ParserStep ==
  ASSUME NEW p \in Parsers, Roomy(p), NEW b \in Byte, NEW c \in Nat
  PROVE  LET q == Parse(p, b, c).parser IN q \in Parsers /\ Roomy(q)
<1> DEFINE q == Parse(p, b, c).parser
<1>1. \A x, ret, at : Outcome(x, ret, at).parser = x
  BY DEF Outcome
<1>2. \A ret : Fails(ret).parser = IdleParser
  BY <1>1 DEF Fails
<1>3. p.state \in States
  BY DEF Parsers
<1>4. CASE p.state = "idle"
  <2>1. q = InIdle(p, b).parser
    BY <1>4, ParseIs
  <2>2. CASE p.ffs = 2 /\ b = FD
    <3> DEFINE h == CrcOf(<<FF, FF, FD>>)
    <3>1. h \in Word
      <4>1. <<FF, FF, FD>> \in Seq(Byte)
        BY DEF FF, FD, Byte
      <4>2. QED
        BY <4>1, CrcOfType
    <3> HIDE DEF h
    <3>2. q = Moved(IdleParser, "reserved", h)
      BY <1>1, <2>1, <2>2 DEF InIdle, Moved, h
    <3>3. "reserved" \in States
      BY DEF States
    <3>4. QED
      BY <3>1, <3>2, <3>3, IdleType, MovedType DEF Roomy
  <2>3. CASE ~(p.ffs = 2 /\ b = FD)
    <3> DEFINE r == [p EXCEPT !.ffs = IF b # FF THEN 0 ELSE IF @ = 0 THEN 1 ELSE 2]
    <3>1. q = r
      BY <1>1, <2>1, <2>3 DEF InIdle
    <3>2. r \in Parsers /\ r.state = "idle"
      BY <1>4 DEF Parsers
    <3>3. QED
      BY <3>1, <3>2 DEF Roomy
  <2>4. QED
    BY <2>2, <2>3
<1>5. CASE p.state = "reserved"
  <2>1. q = InReserved(p, b).parser
    BY <1>5, ParseIs
  <2>2. CASE b # FD
    <3>1. q = Goes(p, "id", b).parser
      BY <2>1, <2>2 DEF InReserved
    <3>2. "id" \in States
      BY DEF States
    <3>3. QED
      BY <3>1, <3>2, GoesType DEF Roomy
  <2>3. CASE ~(b # FD)
    BY <1>2, <2>1, <2>3, IdleType DEF InReserved
  <2>4. QED
    BY <2>2, <2>3
<1>6. CASE p.state = "id"
  <2>1. q = InId(p, b).parser
    BY <1>6, ParseIs
  <2>2. CASE b < FD \/ b = BROADCAST
    <3>1. q = Goes(p, "length_l", b).parser
      BY <2>1, <2>2 DEF InId
    <3>2. "length_l" \in States
      BY DEF States
    <3>3. QED
      BY <3>1, <3>2, GoesType DEF Roomy
  <2>3. CASE ~(b < FD \/ b = BROADCAST)
    BY <1>2, <2>1, <2>3, IdleType DEF InId
  <2>4. QED
    BY <2>2, <2>3
<1>7. CASE p.state \in {"length_l", "length_h"}
  <2>1. q = InLength(p, b).parser
    BY <1>7, ParseIs
  <2> DEFINE r == [p EXCEPT !.len = IF p.state = "length_l" THEN b ELSE @ + 256 * b]
  <2>2. r \in Parsers
    <3>1. p.len + 256 * b \in Nat /\ b \in Nat
      BY DEF Byte, Parsers
    <3>2. QED
      BY <3>1 DEF Parsers
  <2> HIDE DEF r
  <2>3. CASE p.state = "length_l"
    <3>1. q = Goes(r, "length_h", b).parser
      BY <2>1, <2>3 DEF InLength, r
    <3>2. "length_h" \in States
      BY DEF States
    <3>3. QED
      BY <2>2, <3>1, <3>2, GoesType DEF Roomy
  <2>4. CASE p.state # "length_l" /\ r.len < 3
    BY <1>2, <2>1, <2>4, IdleType DEF InLength, r
  <2>5. CASE p.state # "length_l" /\ ~(r.len < 3)
    <3>1. q = Goes(r, "inst", b).parser
      BY <2>1, <2>5 DEF InLength, r
    <3>2. "inst" \in States
      BY DEF States
    <3>3. QED
      BY <2>2, <3>1, <3>2, GoesType DEF Roomy
  <2>6. QED
    BY <2>3, <2>4, <2>5
<1>8. CASE p.state = "inst"
  <2>1. q = InInst(p, b, c).parser
    BY <1>8, ParseIs
  <2> DEFINE r == [p EXCEPT !.inst = b, !.err = 0, !.got = <<>>]
             to == IF b = STATUS THEN "error"
                   ELSE IF r.len = 3 THEN "crc_l" ELSE "param"
  <2>2. r \in Parsers /\ r.inst = b /\ r.got = <<>> /\ r.len \in Nat
    <3>1. <<>> \in Seq(Byte) /\ 0 \in Byte
      BY DEF Byte
    <3>2. QED
      BY <3>1 DEF Parsers
  <2> HIDE DEF r
  <2>3. CASE r.len < Frame(r)
    BY <1>2, <2>1, <2>3, IdleType DEF InInst, r
  <2>4. CASE ~(r.len < Frame(r)) /\ r.len > c + Frame(r)
    BY <1>2, <2>1, <2>4, IdleType DEF InInst, r
  <2>5. CASE ~(r.len < Frame(r)) /\ ~(r.len > c + Frame(r))
    <3>1. q = Goes(r, to, b).parser
      BY <2>1, <2>5 DEF InInst, r
    <3>2. to \in States
      BY DEF States
    <3>3. /\ q \in Parsers /\ q.state = to /\ q.len = r.len /\ q.inst = b
          /\ q.got = <<>>
      BY <2>2, <3>1, <3>2, GoesType
    <3> HIDE DEF q
    <3>4. Frame(q) = Frame(r)
      BY <2>2, <3>3 DEF Frame
    <3>5. b = STATUS => q.len >= 4
      BY <2>2, <2>5, <3>3 DEF Frame
    <3>6. b # STATUS /\ r.len # 3 => Len(q.got) + Frame(q) < q.len
      <4>1. SUFFICES ASSUME b # STATUS, r.len # 3
                     PROVE  Len(q.got) + Frame(q) < q.len
        OBVIOUS
      <4>2. Frame(r) = 3 /\ Len(q.got) = 0
        BY <2>2, <3>3, <4>1 DEF Frame
      <4>3. QED
        BY <2>2, <2>5, <3>3, <3>4, <4>1, <4>2
    <3>7. Roomy(q)
      BY <3>3, <3>5, <3>6 DEF Roomy
    <3>8. QED
      BY <3>3, <3>7 DEF q
  <2>6. QED
    BY <2>3, <2>4, <2>5
<1>9. CASE p.state = "error"
  <2>1. q = InError(p, b).parser
    BY <1>9, ParseIs
  <2> DEFINE r == [p EXCEPT !.err = b]
             to == IF p.len = 4 THEN "crc_l" ELSE "param"
  <2>2. r \in Parsers /\ r.inst = p.inst /\ r.got = p.got /\ r.len = p.len
    BY DEF Parsers
  <2> HIDE DEF r
  <2>3. q = Goes(r, to, b).parser
    BY <2>1 DEF InError, r
  <2>4. to \in States
    BY DEF States
  <2>5. /\ q \in Parsers /\ q.state = to /\ q.len = p.len /\ q.inst = p.inst
        /\ q.got = p.got
    BY <2>2, <2>3, <2>4, GoesType
  <2>6. p.inst = STATUS /\ p.len >= 4 /\ p.got = <<>> /\ p.len \in Nat
    BY <1>9 DEF Roomy, Parsers
  <2> HIDE DEF q
  <2>7. Frame(q) = 4 /\ Len(q.got) = 0
    BY <2>5, <2>6 DEF Frame
  <2>8. p.len # 4 => Len(q.got) + Frame(q) < q.len
    BY <2>5, <2>6, <2>7
  <2>9. Roomy(q)
    BY <2>5, <2>8 DEF Roomy
  <2>10. QED
    BY <2>5, <2>9 DEF q
<1>10. CASE p.state = "param"
  <2>1. q = InParam(p, b).parser
    BY <1>10, ParseIs
  <2> DEFINE more == Append(p.got, b)
             extra == IsSuffix(<<FF, FF, FD, FD>>,
                               <<IF p.inst = STATUS THEN p.err ELSE p.inst>> \o more)
             got == IF extra THEN p.got ELSE more
             r == Taken(p, got, Crc(p.crc, b))
             done == Len(more) + Frame(p) = p.len
  <2>2. q = IF done THEN [r EXCEPT !.state = "crc_l"] ELSE r
    BY <1>1, <2>1 DEF InParam, Taken
  <2>3. /\ p.got \in Seq(Byte) /\ more \in Seq(Byte) /\ Len(p.got) \in Nat
        /\ Len(more) = Len(p.got) + 1 /\ Crc(p.crc, b) \in Word
        /\ p.len \in Nat /\ Len(p.got) + Frame(p) < p.len
    <3>1. p.got \in Seq(Byte) /\ p.crc \in Word /\ p.len \in Nat
      BY DEF Parsers
    <3>2. QED
      BY <1>10, <3>1, CrcType, AppendProperties DEF Roomy
  <2> HIDE DEF more, extra
  <2>4. got \in Seq(Byte) /\ Len(got) \in Nat /\ Len(got) <= Len(more)
    BY <2>3
  <2> HIDE DEF got
  <2>5. r \in Parsers /\ r.state = p.state /\ r.got = got /\ r.len = p.len /\ r.inst = p.inst
    <3> DEFINE s == [p EXCEPT !.got = got]
    <3>1. s \in Parsers /\ s.state = p.state /\ s.got = got /\ s.len = p.len /\ s.inst = p.inst
      BY <2>4 DEF Parsers
    <3>2. r = [s EXCEPT !.crc = Crc(p.crc, b)]
      BY DEF Taken
    <3> HIDE DEF s, r
    <3>3. QED
      BY <2>3, <3>1, <3>2 DEF Parsers
  <2> HIDE DEF r
  <2>6. CASE done
    <3>1. /\ [r EXCEPT !.state = "crc_l"] \in Parsers
          /\ [r EXCEPT !.state = "crc_l"].state = "crc_l"
      BY <2>5 DEF Parsers, States
    <3>2. QED
      BY <2>2, <2>6, <3>1 DEF Roomy
  <2>7. CASE ~done
    <3>1. Frame(r) = Frame(p) /\ Frame(p) \in Nat
      BY <2>5 DEF Frame
    <3>2. Len(r.got) + Frame(r) < r.len
      <4> DEFINE had == Len(p.got)
                 has == Len(more)
                 now == Len(got)
                 frame == Frame(p)
                 len == p.len
      <4>1. /\ had \in Nat /\ has = had + 1 /\ now \in Nat /\ now <= has
            /\ frame \in Nat /\ len \in Nat /\ had + frame < len
        BY <2>3, <2>4, <3>1
      <4>2. has + frame # len
        BY <2>7
      <4> HIDE DEF had, has, now, frame, len
      <4>3. now + frame < len
        BY <4>1, <4>2
      <4>4. QED
        BY <2>5, <3>1, <4>3 DEF now, frame, len
    <3>3. Roomy(r)
      BY <1>10, <2>5, <3>2 DEF Roomy
    <3>4. QED
      BY <2>2, <2>5, <2>7, <3>3
  <2>8. QED
    BY <2>6, <2>7
<1>11. CASE p.state = "crc_l"
  <2>1. q = InCrcLow(p, b).parser
    BY <1>11, ParseIs
  <2>2. q = Ended(p, b)
    BY <1>1, <2>1 DEF InCrcLow, Ended
  <2>3. Ended(p, b) \in Parsers /\ Ended(p, b).state = "crc_h"
    BY DEF Ended, Parsers, States
  <2>4. QED
    BY <2>2, <2>3 DEF Roomy
<1>12. CASE p.state = "crc_h"
  <2>1. q = IdleParser
    BY <1>1, <1>12, ParseIs DEF InCrcHigh
  <2>2. QED
    BY <2>1, IdleType
<1>13. QED
  BY <1>3, <1>4, <1>5, <1>6, <1>7, <1>8, <1>9, <1>10, <1>11, <1>12 DEF States

(* The length of the packet whose parameters come has been held against c.  *)
Fits(p, c) == p.state \in {"error", "param"} => p.len <= c + Frame(p)

LEMMA FitsStep ==
  ASSUME NEW p \in Parsers, Roomy(p), NEW b \in Byte, NEW c \in Nat, NEW k \in Nat,
         Fits(p, k)
  PROVE  Fits(Parse(p, b, c).parser, IF p.state = "inst" THEN c ELSE k)
<1> DEFINE q == Parse(p, b, c).parser
<1>1. \A x, ret, at : Outcome(x, ret, at).parser = x
  BY DEF Outcome
<1>2. \A ret : Fails(ret).parser.state = "idle"
  BY <1>1 DEF Fails, IdleParser
<1>3. p.state \in States
  BY DEF Parsers
<1>4. CASE p.state = "idle"
  <2>1. q = InIdle(p, b).parser
    BY <1>4, ParseIs
  <2>2. CASE p.ffs = 2 /\ b = FD
    <3> DEFINE h == CrcOf(<<FF, FF, FD>>)
    <3> HIDE DEF h
    <3>1. q = Moved(IdleParser, "reserved", h)
      BY <1>1, <2>1, <2>2 DEF InIdle, Moved, h
    <3>2. q.state = "reserved"
      BY <3>1 DEF Moved, IdleParser
    <3>3. QED
      BY <3>2 DEF Fits
  <2>3. CASE ~(p.ffs = 2 /\ b = FD)
    <3>1. q = [p EXCEPT !.ffs = IF b # FF THEN 0 ELSE IF @ = 0 THEN 1 ELSE 2]
      BY <1>1, <2>1, <2>3 DEF InIdle
    <3>2. q.state = "idle"
      BY <1>4, <3>1 DEF Parsers
    <3>3. QED
      BY <3>2 DEF Fits
  <2>4. QED
    BY <2>2, <2>3
<1>5. CASE p.state = "reserved"
  <2>1. q = InReserved(p, b).parser
    BY <1>5, ParseIs
  <2>2. CASE b # FD
    <3>1. q = Goes(p, "id", b).parser
      BY <2>1, <2>2 DEF InReserved
    <3>2. "id" \in States
      BY DEF States
    <3>3. QED
      BY <3>1, <3>2, GoesType DEF Fits
  <2>3. CASE ~(b # FD)
    <3>1. q.state = "idle"
      BY <1>2, <2>1, <2>3 DEF InReserved
    <3>2. QED
      BY <3>1 DEF Fits
  <2>4. QED
    BY <2>2, <2>3
<1>6. CASE p.state = "id"
  <2>1. q = InId(p, b).parser
    BY <1>6, ParseIs
  <2>2. CASE b < FD \/ b = BROADCAST
    <3>1. q = Goes(p, "length_l", b).parser
      BY <2>1, <2>2 DEF InId
    <3>2. "length_l" \in States
      BY DEF States
    <3>3. QED
      BY <3>1, <3>2, GoesType DEF Fits
  <2>3. CASE ~(b < FD \/ b = BROADCAST)
    <3>1. q.state = "idle"
      BY <1>2, <2>1, <2>3 DEF InId
    <3>2. QED
      BY <3>1 DEF Fits
  <2>4. QED
    BY <2>2, <2>3
<1>7. CASE p.state \in {"length_l", "length_h"}
  <2>1. q = InLength(p, b).parser
    BY <1>7, ParseIs
  <2> DEFINE r == [p EXCEPT !.len = IF p.state = "length_l" THEN b ELSE @ + 256 * b]
  <2>2. r \in Parsers
    <3>1. p.len + 256 * b \in Nat /\ b \in Nat
      BY DEF Byte, Parsers
    <3>2. QED
      BY <3>1 DEF Parsers
  <2> HIDE DEF r
  <2>3. CASE p.state = "length_l"
    <3>1. q = Goes(r, "length_h", b).parser
      BY <2>1, <2>3 DEF InLength, r
    <3>2. "length_h" \in States
      BY DEF States
    <3>3. QED
      BY <2>2, <3>1, <3>2, GoesType DEF Fits
  <2>4. CASE p.state # "length_l" /\ r.len < 3
    <3>1. q.state = "idle"
      BY <1>2, <2>1, <2>4 DEF InLength, r
    <3>2. QED
      BY <3>1 DEF Fits
  <2>5. CASE p.state # "length_l" /\ ~(r.len < 3)
    <3>1. q = Goes(r, "inst", b).parser
      BY <2>1, <2>5 DEF InLength, r
    <3>2. "inst" \in States
      BY DEF States
    <3>3. QED
      BY <2>2, <3>1, <3>2, GoesType DEF Fits
  <2>6. QED
    BY <2>3, <2>4, <2>5
<1>8. CASE p.state = "inst"
  <2>1. q = InInst(p, b, c).parser
    BY <1>8, ParseIs
  <2> DEFINE r == [p EXCEPT !.inst = b, !.err = 0, !.got = <<>>]
             to == IF b = STATUS THEN "error"
                   ELSE IF r.len = 3 THEN "crc_l" ELSE "param"
  <2>2. r \in Parsers /\ r.len \in Nat
    <3>1. <<>> \in Seq(Byte) /\ 0 \in Byte
      BY DEF Byte
    <3>2. QED
      BY <3>1 DEF Parsers
  <2> HIDE DEF r
  <2>3. CASE r.len < Frame(r) \/ r.len > c + Frame(r)
    <3>1. q.state = "idle"
      BY <1>2, <2>1, <2>3 DEF InInst, r
    <3>2. QED
      BY <3>1 DEF Fits
  <2>4. CASE ~(r.len < Frame(r)) /\ ~(r.len > c + Frame(r))
    <3>1. q = Goes(r, to, b).parser
      BY <2>1, <2>4 DEF InInst, r
    <3>2. to \in States
      BY DEF States
    <3>3. q.len = r.len /\ q.inst = r.inst
      BY <2>2, <3>1, <3>2, GoesType
    <3> HIDE DEF q
    <3>4. Frame(q) = Frame(r) /\ Frame(r) \in Nat
      BY <3>3 DEF Frame
    <3>5. q.len <= c + Frame(q)
      BY <2>2, <2>4, <3>3, <3>4
    <3>6. QED
      BY <1>8, <3>5 DEF Fits, q
  <2>5. QED
    BY <2>3, <2>4
<1>9. CASE p.state \in {"error", "param"}
  <2>1. q.len = p.len /\ q.inst = p.inst
    <3>1. CASE p.state = "error"
      <4> DEFINE r == [p EXCEPT !.err = b]
                 to == IF p.len = 4 THEN "crc_l" ELSE "param"
      <4>1. r \in Parsers /\ r.inst = p.inst /\ r.len = p.len
        BY DEF Parsers
      <4>2. q = InError(p, b).parser
        BY <3>1, ParseIs
      <4> HIDE DEF r
      <4>3. q = Goes(r, to, b).parser
        BY <4>2 DEF InError, r
      <4>4. to \in States
        BY DEF States
      <4>5. QED
        BY <4>1, <4>3, <4>4, GoesType
    <3>2. CASE p.state = "param"
      <4>1. q = InParam(p, b).parser
        BY <3>2, ParseIs
      <4> DEFINE more == Append(p.got, b)
                 extra == IsSuffix(<<FF, FF, FD, FD>>,
                                   <<IF p.inst = STATUS THEN p.err ELSE p.inst>> \o more)
                 got == IF extra THEN p.got ELSE more
                 r == Taken(p, got, Crc(p.crc, b))
                 done == Len(more) + Frame(p) = p.len
      <4>2. q = IF done THEN [r EXCEPT !.state = "crc_l"] ELSE r
        BY <1>1, <4>1 DEF InParam, Taken
      <4> HIDE DEF got, done
      <4> DEFINE h == Crc(p.crc, b)
      <4>3. r = Taken(p, got, h)
        OBVIOUS
      <4> HIDE DEF h
      <4>4. r.len = p.len /\ r.inst = p.inst /\ "state" \in DOMAIN r
        BY <4>3 DEF Taken, Parsers
      <4> HIDE DEF r
      <4>5. /\ [r EXCEPT !.state = "crc_l"].len = r.len
            /\ [r EXCEPT !.state = "crc_l"].inst = r.inst
        BY <4>3, <4>4 DEF Taken, Parsers
      <4>6. QED
        BY <4>2, <4>4, <4>5
    <3>3. QED
      BY <1>9, <3>1, <3>2
  <2> HIDE DEF q
  <2>2. Frame(q) = Frame(p) /\ p.len <= k + Frame(p)
    BY <1>9, <2>1 DEF Frame, Fits
  <2>3. QED
    BY <1>9, <2>1, <2>2 DEF Fits, q
<1>10. CASE p.state = "crc_l"
  <2>1. q = InCrcLow(p, b).parser
    BY <1>10, ParseIs
  <2>2. q = Ended(p, b)
    BY <1>1, <2>1 DEF InCrcLow, Ended
  <2>3. Ended(p, b).state = "crc_h"
    BY DEF Ended, Parsers
  <2>4. QED
    BY <2>2, <2>3 DEF Fits
<1>11. CASE p.state = "crc_h"
  <2>1. q = IdleParser
    BY <1>1, <1>11, ParseIs DEF InCrcHigh
  <2>2. QED
    BY <2>1 DEF Fits, IdleParser
<1>12. QED
  BY <1>3, <1>4, <1>5, <1>6, <1>7, <1>8, <1>9, <1>10, <1>11 DEF States

(* Only a parameter byte is stored, at the end of those collected.          *)
LEMMA StoredAt ==
  ASSUME NEW p \in Parsers, NEW b \in Byte, NEW c \in Nat
  PROVE  \/ Parse(p, b, c).at = -1
         \/ p.state = "param" /\ Parse(p, b, c).at = Len(p.got)
<1> DEFINE at == Parse(p, b, c).at
<1>1. \A x, ret, n : Outcome(x, ret, n).at = n
  BY DEF Outcome
<1>2. \A ret : Fails(ret).at = -1
  BY <1>1 DEF Fails
<1>3. \A x, to : Goes(x, to, b).at = -1
  BY <1>1 DEF Goes
<1>4. CASE p.state = "idle"
  <2>1. at = InIdle(p, b).at
    BY <1>4, ParseIs
  <2>2. QED
    BY <1>1, <2>1 DEF InIdle
<1>5. CASE p.state = "reserved"
  <2>1. at = InReserved(p, b).at
    BY <1>5, ParseIs
  <2>2. QED
    BY <1>2, <1>3, <2>1 DEF InReserved
<1>6. CASE p.state = "id"
  <2>1. at = InId(p, b).at
    BY <1>6, ParseIs
  <2>2. QED
    BY <1>2, <1>3, <2>1 DEF InId
<1>7. CASE p.state \in {"length_l", "length_h"}
  <2>1. at = InLength(p, b).at
    BY <1>7, ParseIs
  <2>2. QED
    BY <1>2, <1>3, <2>1, Zenon DEF InLength
<1>8. CASE p.state = "inst"
  <2>1. at = InInst(p, b, c).at
    BY <1>8, ParseIs
  <2>2. QED
    BY <1>2, <1>3, <2>1, Zenon DEF InInst
<1>9. CASE p.state = "error"
  <2>1. at = InError(p, b).at
    BY <1>9, ParseIs
  <2>2. QED
    BY <1>3, <2>1 DEF InError
<1>10. CASE p.state = "param"
  <2>1. at = InParam(p, b).at
    BY <1>10, ParseIs
  <2>2. PICK x : InParam(p, b) = Outcome(x, "proceeding", Len(p.got))
    BY Zenon DEF InParam
  <2>3. at = Len(p.got)
    BY <2>1, <2>2 DEF Outcome
  <2>4. QED
    BY <1>10, <2>3
<1>11. CASE p.state = "crc_l"
  <2>1. at = InCrcLow(p, b).at
    BY <1>11, ParseIs
  <2>2. QED
    BY <1>1, <2>1 DEF InCrcLow
<1>12. CASE p.state = "crc_h"
  <2>1. at = InCrcHigh(p, b).at
    BY <1>12, ParseIs
  <2>2. QED
    BY <1>1, <2>1 DEF InCrcHigh
<1>13. p.state \in States
  BY DEF Parsers
<1>14. QED
  BY <1>4, <1>5, <1>6, <1>7, <1>8, <1>9, <1>10, <1>11, <1>12, <1>13 DEF States

Lasts == [ok : BOOLEAN, value : Seq(Byte), said : Seq(Byte)]

TypeInv ==
  /\ cap \in Capacities /\ waiting \in BOOLEAN
  /\ parser \in Parsers /\ Roomy(parser)
  /\ wire \in Seq(Seq(Byte)) /\ rx \in Seq(Byte) /\ last \in Lasts
  /\ calls \in 0 .. MaxCalls /\ losses \in 0 .. MaxLosses /\ late \in 0 .. MaxLate
  /\ stuffed \in BOOLEAN /\ misfit \in BOOLEAN /\ forged \in BOOLEAN /\ stray \in BOOLEAN
  /\ cut \in BOOLEAN /\ checked \in {0} \cup Capacities

LEMMA TypeInvType == TypeInv => TypeOK
<1>1. SUFFICES ASSUME TypeInv PROVE TypeOK
  OBVIOUS
<1>2. /\ parser.state \in States /\ parser.ffs \in 0 .. 2 /\ parser.got \in Seq(Byte)
      /\ parser.crc \in Word
  BY <1>1 DEF TypeInv, Parsers
<1>3. parser.state = "param" => Len(parser.got) + Frame(parser) < parser.len
  BY <1>1 DEF TypeInv, Roomy
<1>4. last.ok \in BOOLEAN /\ last.value \in Seq(Byte)
  BY <1>1 DEF TypeInv, Lasts
<1>5. {waiting, stuffed, misfit, forged, cut, stray, last.ok} \subseteq BOOLEAN
  BY <1>1, <1>4 DEF TypeInv
<1>6. QED
  <2>1. /\ cap \in Capacities /\ checked \in {0} \cup Capacities /\ rx \in Seq(Byte) /\ calls \in 0 .. MaxCalls
        /\ losses \in 0 .. MaxLosses /\ late \in 0 .. MaxLate
    BY <1>1 DEF TypeInv
  <2>2. QED
    BY <1>2, <1>3, <1>4, <1>5, <2>1 DEF TypeOK

LEMMA TypeInit == Init => TypeInv
<1>1. SUFFICES ASSUME Init PROVE TypeInv
  OBVIOUS
<1>2. parser \in Parsers /\ Roomy(parser)
  BY <1>1, IdleType DEF Init
<1>3. last \in Lasts
  BY <1>1 DEF Init, Lasts
<1>4. /\ calls \in 0 .. MaxCalls /\ losses \in 0 .. MaxLosses /\ late \in 0 .. MaxLate
  BY <1>1, LinkAssumption DEF Init
<1>5. wire \in Seq(Seq(Byte)) /\ rx \in Seq(Byte)
  BY <1>1 DEF Init
<1>6. QED
  BY <1>1, <1>2, <1>3, <1>4, <1>5 DEF Init, TypeInv

(* What is left of an answer is bytes.                                      *)
LEMMA LeftType ==
  ASSUME NEW s \in Seq(Byte), NEW t \in Left(s)
  PROVE  t \in Seq(Byte)
<1>1. CASE t = <<>>
  BY <1>1
<1>2. CASE t # <<>>
  <2>1. PICK i \in DOMAIN s : t = RemoveAt(s, i)
    BY <1>2 DEF Left
  <2>2. Len(s) \in Nat /\ i \in 1 .. Len(s)
    OBVIOUS
  <2>3. SubSeq(s, 1, i - 1) \in Seq(Byte)
    <3>1. \A j \in 1 .. i - 1 : s[j] \in Byte
      BY <2>2
    <3>2. 1 \in Int /\ i - 1 \in Int
      BY <2>2
    <3>3. QED
      BY <3>1, <3>2, SubSeqProperties
  <2>4. SubSeq(s, i + 1, Len(s)) \in Seq(Byte)
    <3>1. \A j \in i + 1 .. Len(s) : s[j] \in Byte
      BY <2>2
    <3>2. i + 1 \in Int /\ Len(s) \in Int
      BY <2>2
    <3>3. QED
      BY <3>1, <3>2, SubSeqProperties
  <2>5. QED
    BY <2>1, <2>3, <2>4, ConcatProperties DEF RemoveAt
<1>3. QED
  BY <1>1, <1>2

LEMMA AskType ==
  ASSUME TypeInv, NEW p \in Payloads, NEW c \in Capacities, Ask(p, c)
  PROVE  TypeInv'
<1>1. p \in Seq(Byte) /\ Status(Id, p) \in Seq(Byte)
  BY PayloadType, StatusIs
<1>2. cap' \in Capacities /\ waiting' \in BOOLEAN /\ rx' \in Seq(Byte)
  BY DEF Ask, TypeInv
<1>3. parser' \in Parsers /\ Roomy(parser')
  <2> DEFINE z == [i \in DOMAIN parser.got |-> 0]
  <2>1. parser.got \in Seq(Byte)
    BY DEF TypeInv, Parsers
  <2>2. z = [i \in 1 .. Len(parser.got) |-> 0]
    BY <2>1
  <2>3. z \in Seq(Byte) /\ Len(z) = Len(parser.got)
    <3>1. PICK n \in Nat : n = Len(parser.got)
      BY <2>1
    <3>2. z = [i \in 1 .. n |-> 0] /\ 0 \in Byte
      BY <2>2, <3>1 DEF Byte
    <3> HIDE DEF z
    <3>3. QED
      BY <3>1, <3>2
  <2>4. parser.got = <<>> => z = <<>>
    BY <2>3
  <2>5. parser' = [parser EXCEPT !.got = z]
    BY DEF Ask
  <2> HIDE DEF z
  <2>6. /\ parser' \in Parsers /\ parser'.got = z /\ parser'.state = parser.state
        /\ parser'.len = parser.len /\ parser'.inst = parser.inst
    BY <2>3, <2>5 DEF TypeInv, Parsers
  <2>7. Frame(parser') = Frame(parser)
    BY <2>6 DEF Frame
  <2>8. QED
    BY <2>3, <2>4, <2>6, <2>7 DEF TypeInv, Roomy
<1>4. wire' \in Seq(Seq(Byte))
  <2>1. PICK t \in Seq(Byte) : wire' = Append(wire, t)
    BY <1>1, LeftType DEF Ask
  <2>2. QED
    BY <2>1, AppendProperties DEF TypeInv
<1>5. last' \in Lasts
  BY <1>1 DEF Ask, TypeInv, Lasts
<1>6. calls' \in 0 .. MaxCalls /\ losses' \in 0 .. MaxLosses /\ late' \in 0 .. MaxLate
  <2>1. MaxCalls \in Nat /\ MaxLosses \in Nat
    BY LinkAssumption
  <2>2. calls' = calls + 1 /\ calls < MaxCalls /\ late' = late
    BY DEF Ask
  <2>3. losses' = losses \/ (losses < MaxLosses /\ losses' = losses + 1)
    BY DEF Ask
  <2>4. /\ calls \in 0 .. MaxCalls /\ losses \in 0 .. MaxLosses
        /\ late \in 0 .. MaxLate
    BY DEF TypeInv
  <2>5. QED
    BY <2>1, <2>2, <2>3, <2>4
<1>7. /\ stuffed' \in BOOLEAN /\ misfit' \in BOOLEAN /\ forged' \in BOOLEAN /\ stray' \in BOOLEAN
      /\ cut' \in BOOLEAN /\ checked' \in {0} \cup Capacities
  BY DEF Ask, TypeInv
<1>8. QED
  BY <1>2, <1>3, <1>4, <1>5, <1>6, <1>7 DEF TypeInv

LEMMA ArriveType == TypeInv /\ Arrive => TypeInv'
<1>1. SUFFICES ASSUME TypeInv, Arrive PROVE TypeInv'
  OBVIOUS
<1>2. Head(wire) \in Seq(Byte) /\ Tail(wire) \in Seq(Seq(Byte))
  BY <1>1, HeadTailProperties DEF TypeInv, Arrive
<1>3. wire' \in Seq(Seq(Byte)) /\ rx' \in Seq(Byte)
  BY <1>1, <1>2, ConcatProperties DEF TypeInv, Arrive
<1>4. QED
  BY <1>1, <1>3 DEF TypeInv, Arrive, past

LEMMA ReturnType ==
  ASSUME TypeInv, NEW ok \in BOOLEAN, NEW value \in Seq(Byte), Return(ok, value)
  PROVE  waiting' \in BOOLEAN /\ last' \in Lasts
<1> DEFINE s == [last EXCEPT !.ok = ok]
<1>1. s \in Lasts
  BY DEF TypeInv, Lasts
<1>2. last' = [s EXCEPT !.value = value]
  BY DEF Return
<1> HIDE DEF s
<1>3. QED
  BY <1>1, <1>2 DEF Return, Lasts

LEMMA ReceiveType == TypeInv /\ Receive => TypeInv'
<1>1. SUFFICES ASSUME TypeInv, Receive PROVE TypeInv'
  OBVIOUS
<1> DEFINE out == Parse(parser, Head(rx), cap)
<1>2. Head(rx) \in Byte /\ rx' \in Seq(Byte)
  BY <1>1, HeadTailProperties DEF TypeInv, Receive
<1>3. parser' \in Parsers /\ Roomy(parser')
  <2>1. cap \in Nat
    BY <1>1, LinkAssumption DEF TypeInv
  <2>2. parser' = out.parser
    BY <1>1 DEF Receive
  <2>3. QED
    BY <1>1, <1>2, <2>1, <2>2, ParserStep DEF TypeInv
<1>4. waiting' \in BOOLEAN /\ last' \in Lasts
  <2>1. parser.got \in Seq(Byte) /\ <<>> \in Seq(Byte)
    BY <1>1 DEF TypeInv, Parsers
  <2>2. \/ UNCHANGED <<waiting, last>>
        \/ Return(TRUE, parser.got)
        \/ Return(FALSE, <<>>)
    BY <1>1 DEF Receive
  <2>3. CASE UNCHANGED <<waiting, last>>
    BY <1>1, <2>3 DEF TypeInv
  <2>4. CASE Return(TRUE, parser.got)
    BY <1>1, <2>1, <2>4, ReturnType
  <2>5. CASE Return(FALSE, <<>>)
    BY <1>1, <2>1, <2>5, ReturnType
  <2>6. QED
    BY <2>2, <2>3, <2>4, <2>5
<1>5. forged' \in BOOLEAN
  <2>1. forged' = forged \/ forged' = TRUE
    BY <1>1 DEF Receive, Account
  <2>2. QED
    BY <1>1, <2>1 DEF TypeInv
<1>6. stray' \in BOOLEAN
  <2>1. stray' = (stray \/ out.at >= cap)
    BY <1>1 DEF Receive
  <2>2. QED
    BY <2>1
<1>7. /\ cap' = cap /\ wire' = wire /\ calls' = calls /\ losses' = losses
      /\ late' = late /\ stuffed' = stuffed /\ misfit' = misfit /\ cut' = cut
      /\ checked' = cap \/ checked' = checked
  BY <1>1 DEF Receive, past
<1>8. QED
  BY <1>1, <1>2, <1>3, <1>4, <1>5, <1>6, <1>7 DEF TypeInv

LEMMA TimesOutType == TypeInv /\ TimesOut => TypeInv'
<1>1. SUFFICES ASSUME TypeInv, TimesOut PROVE TypeInv'
  OBVIOUS
<1>2. waiting' \in BOOLEAN /\ last' \in Lasts
  <2>1. <<>> \in Seq(Byte)
    OBVIOUS
  <2>2. QED
    BY <1>1, <2>1, ReturnType DEF TimesOut
<1>3. late' \in 0 .. MaxLate
  BY <1>1, LinkAssumption DEF TimesOut, TypeInv
<1>4. QED
  BY <1>1, <1>2, <1>3 DEF TypeInv, TimesOut

LEMMA TypeStep == TypeInv /\ [Next]_vars => TypeInv'
<1>1. SUFFICES ASSUME TypeInv, [Next]_vars PROVE TypeInv'
  OBVIOUS
<1>2. CASE \E p \in Payloads, c \in Capacities : Ask(p, c)
  BY <1>1, <1>2, AskType
<1>3. CASE UNCHANGED vars
  BY <1>1, <1>3 DEF vars, past, TypeInv
<1>4. QED
  BY <1>1, <1>2, <1>3, ArriveType, ReceiveType, TimesOutType DEF Next

(* The types of the link's variables, for every payload that fits into a    *)
(* packet and every buffer: and the parser goes on collecting only while    *)
(* the packet has room, whatever bytes come.                                *)
THEOREM TypeCorrect == Spec => []TypeOK
  BY TypeInit, TypeStep, TypeInvType, PTL DEF Spec

----------------------------------------------------------------------------
(* Nothing lost, nothing late, nothing out of place: between calls nothing  *)
(* is under way; in a call the answer is on the wire, or its first bytes    *)
(* have gone through the parser and the others are unread.                  *)
Coming ==
  wire = <<Status(Id, last.said)>> /\ rx = <<>> /\ parser = At(last.said, 0)

UnderWay(k) ==
  LET s == Status(Id, last.said)
  IN wire = <<>> /\ rx = SubSeq(s, k + 1, Len(s)) /\ parser = At(last.said, k)

CallInv ==
  IF waiting
  THEN /\ last.said \in Payloads /\ ~StuffedInside(last.said)
       /\ Len(Stuff(last.said)) <= cap
       /\ \/ Coming
          \/ \E k \in 0 .. Len(Status(Id, last.said)) - 1 : UnderWay(k)
  ELSE /\ wire = <<>> /\ rx = <<>> /\ parser = IdleParser
       /\ calls > 0 => last.ok /\ Truthful

StepInv == TypeInv /\ (losses = 0 /\ late = 0 /\ ~misfit => CallInv)

LEMMA AtStart == \A p : At(p, 0) = IdleParser
  BY DEF At, IdleParser

LEMMA StepInvInit == Init => StepInv
  BY TypeInit DEF Init, StepInv, CallInv

LEMMA AskKeeps ==
  ASSUME StepInv, NEW p \in Payloads, NEW c \in Capacities, Ask(p, c),
         losses' = 0, late' = 0, ~misfit'
  PROVE  CallInv'
<1>1. ~waiting /\ losses = 0 /\ late = 0 /\ ~misfit /\ losses \in Nat
  <2>1. losses \in Nat
    BY LinkAssumption DEF StepInv, TypeInv
  <2>2. losses = 0
    BY <2>1 DEF Ask
  <2>3. late = 0
    BY DEF Ask
  <2>4. ~misfit
    BY DEF Ask
  <2>5. QED
    BY <2>1, <2>2, <2>3, <2>4 DEF Ask
<1>2. wire = <<>> /\ rx = <<>> /\ parser = IdleParser
  BY <1>1 DEF StepInv, CallInv
<1>3. waiting' /\ cap' = c /\ rx' = <<>>
  BY <1>2 DEF Ask
<1>4. last'.said = p
  BY DEF Ask, StepInv, TypeInv, Lasts
<1>5. ~StuffedInside(p) /\ Len(Stuff(p)) <= c
  <2>1. ~StuffedInside(p) /\ ~(Len(Stuff(p)) > c)
    BY DEF Ask
  <2>2. Len(Stuff(p)) \in Nat /\ c \in Nat
    BY PayloadType, LinkAssumption
  <2>3. QED
    BY <2>1, <2>2
<1>6. wire' = <<Status(Id, p)>>
  <2>1. wire' = Append(wire, Status(Id, p))
    BY <1>1 DEF Ask
  <2>2. QED
    BY <1>2, <2>1
<1>7. parser' = At(p, 0)
  <2>1. parser' = [IdleParser EXCEPT !.got = [i \in DOMAIN IdleParser.got |-> 0]]
    BY <1>2 DEF Ask
  <2>2. IdleParser.got = <<>> /\ [i \in DOMAIN <<>> |-> 0] = <<>>
    BY DEF IdleParser
  <2>3. [IdleParser EXCEPT !.got = <<>>] = IdleParser
    BY DEF IdleParser
  <2>4. QED
    BY <2>1, <2>2, <2>3, AtStart
<1>8. QED
  BY <1>3, <1>4, <1>5, <1>6, <1>7 DEF CallInv, Coming

LEMMA ArriveKeeps ==
  ASSUME StepInv, Arrive, losses = 0, late = 0, ~misfit
  PROVE  CallInv'
<1>1. CallInv /\ wire # <<>>
  BY DEF StepInv, Arrive
<1>2. /\ waiting /\ last.said \in Payloads /\ ~StuffedInside(last.said)
      /\ Len(Stuff(last.said)) <= cap /\ Coming
  BY <1>1 DEF CallInv, UnderWay
<1> DEFINE s == Status(Id, last.said)
<1>3. s \in Seq(Byte) /\ Len(s) \in Nat /\ Len(s) > 0
  <2>1. /\ s \in Seq(Byte) /\ Len(s) = Len(Body(last.said)) + 2
        /\ Len(Body(last.said)) = Len(Stuff(last.said)) + 9
        /\ Len(Stuff(last.said)) \in Nat
    BY <1>2, StatusIs, BodyIs, PayloadType
  <2>2. QED
    BY <2>1
<1> HIDE DEF s
<1>4. wire = <<s>> /\ rx = <<>> /\ parser = At(last.said, 0)
  BY <1>2 DEF Coming, s
<1>5. wire' = <<>> /\ rx' = s
  <2>1. wire' = Tail(wire) /\ rx' = rx \o Head(wire)
    BY DEF Arrive
  <2>2. Tail(<<s>>) = <<>> /\ Head(<<s>>) = s
    OBVIOUS
  <2>3. <<>> \o s = s
    BY <1>3, ConcatEmptySeq
  <2>4. QED
    BY <1>4, <2>1, <2>2, <2>3
<1>6. /\ cap' = cap /\ waiting' = waiting /\ parser' = parser /\ last' = last
  BY DEF Arrive
<1>7. UnderWay(0)'
  <2>1. s = SubSeq(s, 0 + 1, Len(s))
    BY <1>3, SubSeqFull
  <2>2. s' = s
    BY <1>6 DEF s
  <2>3. QED
    BY <1>4, <1>5, <1>6, <2>1, <2>2 DEF UnderWay, s
<1>8. 0 \in 0 .. Len(Status(Id, last.said)) - 1
  BY <1>3 DEF s
<1>9. QED
  BY <1>2, <1>6, <1>7, <1>8 DEF CallInv

LEMMA ReceiveKeeps ==
  ASSUME StepInv, Receive, losses = 0, late = 0, ~misfit
  PROVE  CallInv'
<1> DEFINE p == last.said
           s == Status(Id, p)
           n == Len(s)
           out == Parse(parser, Head(rx), cap)
<1>1. CallInv /\ waiting /\ rx # <<>>
  BY DEF StepInv, Receive
<1>2. /\ p \in Payloads /\ ~StuffedInside(p) /\ Len(Stuff(p)) <= cap
  BY <1>1 DEF CallInv
<1>3. PICK k \in 0 .. n - 1 : UnderWay(k)
  BY <1>1 DEF CallInv, Coming
<1>4. /\ wire = <<>> /\ rx = SubSeq(s, k + 1, n) /\ parser = At(p, k)
  BY <1>3 DEF UnderWay
<1>5. s \in Seq(Byte) /\ n \in Nat /\ k \in Nat /\ k < n /\ cap \in Nat
  <2>1. s \in Seq(Byte) /\ n \in Nat
    BY <1>2, StatusIs
  <2>2. cap \in Nat
    BY LinkAssumption DEF StepInv, TypeInv
  <2> HIDE DEF n
  <2>3. k \in Nat /\ k < n
    BY <2>1
  <2>4. QED
    BY <2>1, <2>2, <2>3
<1>6. Head(rx) = s[k + 1] /\ Tail(rx) = SubSeq(s, (k + 1) + 1, n)
  <2>1. k + 1 \in 1 .. Len(s) /\ n \in k + 1 .. Len(s)
    BY <1>5
  <2>2. QED
    BY <1>4, <1>5, <2>1, HeadTailOfSubSeq
<1>7. /\ k + 1 < n => out.parser = At(p, k + 1) /\ out.ret = "proceeding"
      /\ k + 1 = n => /\ out.parser = IdleParser /\ out.ret = "ok"
                      /\ parser.got = p /\ parser.inst = STATUS
  BY <1>2, <1>4, <1>5, <1>6, AnswerStep
<1>8. /\ parser' = out.parser /\ rx' = Tail(rx) /\ wire' = <<>> /\ cap' = cap
      /\ calls' = calls
  BY <1>4 DEF Receive, past
<1>9. CASE k + 1 < n
  <2>1. waiting' = waiting /\ last' = last
    BY <1>7, <1>9 DEF Receive
  <2>2. UnderWay(k + 1)'
    BY <1>4, <1>6, <1>7, <1>8, <1>9, <2>1 DEF UnderWay
  <2>3. k + 1 \in 0 .. n - 1
    <3> HIDE DEF n
    <3>1. QED
      BY <1>5, <1>9
  <2>4. QED
    BY <1>1, <1>2, <1>8, <2>1, <2>2, <2>3 DEF CallInv
<1>10. CASE k + 1 = n
  <2>1. Return(TRUE, p)
    BY <1>7, <1>10 DEF Receive
  <2>2. ~waiting'
    BY <2>1 DEF Return
  <2>3. last'.ok /\ last'.value = p /\ last'.said = p
    <3> DEFINE l == [last EXCEPT !.ok = TRUE]
    <3>1. l \in Lasts /\ l.ok = TRUE /\ l.said = p
      BY DEF StepInv, TypeInv, Lasts
    <3>2. last' = [l EXCEPT !.value = p]
      BY <2>1 DEF Return
    <3> HIDE DEF l
    <3>3. last'.ok = TRUE /\ last'.value = p /\ last'.said = p
      BY <3>1, <3>2 DEF Lasts
    <3>4. QED
      BY <3>3
  <2>4. rx' = <<>>
    <3>1. SubSeq(s, (k + 1) + 1, n) = <<>>
      <4>1. (k + 1) + 1 \in Int /\ n \in Int /\ n < (k + 1) + 1
        BY <1>5, <1>10
      <4>2. QED
        BY <4>1, SubSeqEmpty
    <3>2. QED
      BY <1>6, <1>8, <3>1
  <2>5. parser' = IdleParser
    BY <1>7, <1>8, <1>10
  <2>6. QED
    BY <1>8, <2>2, <2>3, <2>4, <2>5 DEF CallInv, Truthful
<1>11. QED
  <2> HIDE DEF n
  <2>1. k + 1 < n \/ k + 1 = n
    BY <1>5
  <2>2. QED
    BY <1>9, <1>10, <2>1

LEMMA TimesOutKeeps ==
  ASSUME StepInv, TimesOut, losses = 0, late' = 0, ~misfit
  PROVE  FALSE
<1>1. late \in Nat
  BY LinkAssumption DEF StepInv, TypeInv
<1>2. late = 0
  BY <1>1 DEF TimesOut
<1>3. waiting /\ rx = <<>> /\ wire = <<>>
  BY <1>1, <1>2 DEF TimesOut
<1>4. CallInv
  BY <1>2 DEF StepInv
<1> DEFINE s == Status(Id, last.said)
<1>5. last.said \in Payloads
  BY <1>3, <1>4 DEF CallInv
<1>6. s \in Seq(Byte) /\ Len(s) \in Nat
  BY <1>5, StatusIs
<1>7. PICK k \in 0 .. Len(s) - 1 : UnderWay(k)
  BY <1>3, <1>4 DEF CallInv, Coming
<1>8. SubSeq(s, k + 1, Len(s)) = <<>>
  BY <1>3, <1>7 DEF UnderWay
<1>9. k + 1 \in 1 .. Len(s) /\ k + 1 \in Int /\ Len(s) \in Int /\ k + 1 <= Len(s)
  BY <1>6
<1>10. \A i \in k + 1 .. Len(s) : s[i] \in Byte
  BY <1>6, <1>9
<1>11. Len(SubSeq(s, k + 1, Len(s))) = Len(s) - (k + 1) + 1
  BY <1>9, <1>10, SubSeqProperties
<1>12. Len(<<>>) = 0
  OBVIOUS
<1>13. Len(s) - (k + 1) + 1 = 0
  BY <1>8, <1>11, <1>12
<1>14. QED
  <2> DEFINE n == Len(s)
  <2>1. n \in Nat /\ k \in Int /\ k <= n - 1
    BY <1>6
  <2>2. n - (k + 1) + 1 = 0
    BY <1>13
  <2>3. k + 1 <= n
    BY <1>9
  <2> HIDE DEF n
  <2>4. k = n
    BY <2>1, <2>2
  <2>5. QED
    BY <2>1, <2>3, <2>4

LEMMA StepInvStep == StepInv /\ [Next]_vars => StepInv'
<1>1. SUFFICES ASSUME StepInv, [Next]_vars PROVE StepInv'
  OBVIOUS
<1>2. CASE \E p \in Payloads, c \in Capacities : Ask(p, c)
  BY <1>1, <1>2, AskKeeps, AskType DEF StepInv
<1>3. CASE Arrive
  <2>1. losses' = losses /\ late' = late /\ misfit' = misfit
    BY <1>3 DEF Arrive, past
  <2>2. QED
    BY <1>1, <1>3, <2>1, ArriveKeeps, ArriveType DEF StepInv
<1>4. CASE Receive
  <2>1. losses' = losses /\ late' = late /\ misfit' = misfit
    BY <1>4 DEF Receive, past
  <2>2. QED
    BY <1>1, <1>4, <2>1, ReceiveKeeps, ReceiveType DEF StepInv
<1>5. CASE TimesOut
  <2>1. losses' = losses /\ misfit' = misfit
    BY <1>5 DEF TimesOut
  <2>2. QED
    BY <1>1, <1>5, <2>1, TimesOutKeeps, TimesOutType DEF StepInv
<1>6. CASE UNCHANGED vars
  <2>1. TypeInv'
    BY <1>1, <1>6 DEF StepInv, TypeInv, vars, past
  <2>2. CallInv' = CallInv /\ losses' = losses /\ late' = late /\ misfit' = misfit
    BY <1>6 DEF vars, past, CallInv, Coming, UnderWay, Truthful
  <2>3. QED
    BY <1>1, <2>1, <2>2 DEF StepInv
<1>7. QED
  BY <1>1, <1>2, <1>3, <1>4, <1>5, <1>6 DEF Next

(* As long as no answer is lost or late and none has stuffed bytes inside   *)
(* or is too long for its buffer, every call ends well and returns what the *)
(* servo said to it: for every payload, id and buffer and any number of     *)
(* calls, the maker's stuffing, length and CRC are what the parser undoes.  *)
THEOREM CallsStayInStep == Spec => []InStep
<1>1. StepInv => InStep
  <2>1. SUFFICES ASSUME StepInv, losses + late = 0, ~misfit, calls > 0, ~waiting
                 PROVE  last.ok /\ Truthful
    BY DEF InStep
  <2>2. losses \in Nat /\ late \in Nat
    BY <2>1, LinkAssumption DEF StepInv, TypeInv
  <2>3. losses = 0 /\ late = 0
    BY <2>1, <2>2
  <2>4. QED
    BY <2>1, <2>3 DEF StepInv, CallInv
<1>2. QED
  BY <1>1, StepInvInit, StepInvStep, PTL DEF Spec
----------------------------------------------------------------------------
(* What is stored behind a buffer.                                          *)
FitsInv == TypeInv /\ Fits(parser, checked)

LEMMA CheckedNat == TypeInv => cap \in Nat /\ checked \in Nat
  BY LinkAssumption DEF TypeInv

LEMMA FitsInit == Init => FitsInv
  BY TypeInit DEF Init, FitsInv, Fits, IdleParser

LEMMA FitsInvStep == FitsInv /\ [Next]_vars => FitsInv'
<1>1. SUFFICES ASSUME FitsInv, [Next]_vars PROVE Fits(parser, checked)'
  BY TypeStep DEF FitsInv
<1>2. ASSUME parser'.state = parser.state, parser'.len = parser.len,
             parser'.inst = parser.inst, checked' = checked
      PROVE  Fits(parser, checked)'
  BY <1>1, <1>2 DEF FitsInv, Fits, Frame
<1>3. CASE \E p \in Payloads, c \in Capacities : Ask(p, c)
  <2>1. parser' = [parser EXCEPT !.got = [i \in DOMAIN @ |-> 0]] /\ checked' = checked
    BY <1>3 DEF Ask
  <2>2. /\ parser'.state = parser.state /\ parser'.len = parser.len
        /\ parser'.inst = parser.inst
    BY <1>1, <2>1 DEF FitsInv, TypeInv, Parsers
  <2>3. QED
    BY <1>2, <2>1, <2>2
<1>4. CASE Receive
  <2>1. /\ parser' = Parse(parser, Head(rx), cap).parser
        /\ checked' = IF parser.state = "inst" THEN cap ELSE checked
    BY <1>4 DEF Receive
  <2>2. Head(rx) \in Byte
    BY <1>1, <1>4, HeadTailProperties DEF FitsInv, TypeInv, Receive
  <2>3. /\ cap \in Nat /\ checked \in Nat /\ parser \in Parsers /\ Roomy(parser)
        /\ Fits(parser, checked)
    BY <1>1, CheckedNat DEF FitsInv, TypeInv
  <2>4. Fits(parser', checked')
    BY <2>1, <2>2, <2>3, FitsStep
  <2>5. QED
    BY <2>4 DEF Fits, Frame
<1>5. CASE Arrive \/ TimesOut \/ UNCHANGED vars
  BY <1>2, <1>5 DEF Arrive, TimesOut, vars
<1>6. QED
  BY <1>1, <1>3, <1>4, <1>5 DEF Next

(* A call stores a parameter byte behind its buffer only when the packet    *)
(* began under another call with a larger one: for all buffers, payloads    *)
(* and bytes, lost, late or stuffed, and any number of calls.               *)
THEOREM ParametersFit == Spec => WithinBuffer
<1>1. FitsInv /\ [Next]_vars => [stray' /\ ~stray => cap < checked]_vars
  <2>1. SUFFICES ASSUME FitsInv, [Next]_vars, stray', ~stray
                 PROVE  cap < checked
    OBVIOUS
  <2>2. CASE Receive
    <3>1. stray' = (stray \/ Parse(parser, Head(rx), cap).at >= cap)
      BY <2>2 DEF Receive
    <3>2. Head(rx) \in Byte
      BY <2>1, <2>2, HeadTailProperties DEF FitsInv, TypeInv, Receive
    <3>3. /\ cap \in Nat /\ checked \in Nat /\ parser \in Parsers /\ Roomy(parser)
          /\ Fits(parser, checked)
      BY <2>1, CheckedNat DEF FitsInv, TypeInv
    <3>4. parser.state = "param" /\ Len(parser.got) >= cap
      <4>1. Parse(parser, Head(rx), cap).at >= cap
        BY <2>1, <3>1
      <4>2. \/ Parse(parser, Head(rx), cap).at = -1
            \/ /\ parser.state = "param"
               /\ Parse(parser, Head(rx), cap).at = Len(parser.got)
        BY <3>2, <3>3, StoredAt
      <4>3. QED
        BY <3>3, <4>1, <4>2
    <3>5. /\ Len(parser.got) + Frame(parser) < parser.len
          /\ parser.len <= checked + Frame(parser)
      BY <3>3, <3>4 DEF Roomy, Fits
    <3>6. Len(parser.got) \in Nat /\ Frame(parser) \in Nat /\ parser.len \in Nat
      BY <3>3 DEF Parsers, Frame
    <3>7. QED
      BY <3>3, <3>4, <3>5, <3>6
  <2>3. CASE ~Receive
    BY <2>1, <2>3 DEF Next, Ask, Arrive, TimesOut, vars
  <2>4. QED
    BY <2>2, <2>3
<1>2. QED
  BY <1>1, FitsInit, FitsInvStep, PTL DEF Spec, WithinBuffer
=============================================================================
