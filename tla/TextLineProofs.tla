----------------------------- MODULE TextLineProofs -----------------------------
(***************************************************************************)
(* Lines of any bytes and of any length: the longest text a line begins    *)
(* with is what is converted of it, what is converted while it is written  *)
(* is the beginning of what will be, and its CRC is the remainder of a     *)
(* division.                                                               *)
(***************************************************************************)
EXTENDS TextLine, NumberProofs

-----------------------------------------------------------------------------
(***************************************************************************)
(* The tables.                                                             *)
(***************************************************************************)
LEMMA TableZero == crc16tab[1] = 0
BY DEF crc16tab

\* The entries of the table: words, of which each pair follows from one before.
LEMMA TableWords == \A y \in 1 .. 256 : crc16tab[y] \in Nat /\ crc16tab[y] < 65536
BY DEF crc16tab

LEMMA TableEven ==
    ASSUME NEW y \in 0 .. 127
    PROVE  crc16tab[2 * y + 1] = ShiftIn(crc16tab[y + 1], 0)
BY SMTT(20) DEF crc16tab, ^^, ShiftIn

LEMMA TableOdd ==
    ASSUME NEW y \in 0 .. 127
    PROVE  crc16tab[2 * y + 2] = crc16tab[2 * y + 1] ^^ 4129
BY SMTT(20) DEF crc16tab, ^^

\* An even number and the odd one behind it differ in the last bit.
LEMMA EvenOdd == \A y \in 0 .. 127 : (2 * y) ^^ 1 = 2 * y + 1
BY SMTT(30) DEF ^^

\* The table of characters, as far as the proofs need it.
LEMMA TableLength == Len(m_conversion_table) = 255
BY DEF m_conversion_table

LEMMA TableBlank == m_conversion_table[32] = 32
BY DEF m_conversion_table

\* No character has two places.
LEMMA TableDistinct ==
    \A a, b \in 1 .. 255 : m_conversion_table[a] = m_conversion_table[b] => a = b
BY SMTT(60) DEF m_conversion_table

LEMMA TableLikeASCII == \A c \in LikeASCII : c \in 1 .. 255 /\ m_conversion_table[c] = c
BY SMTT(30) DEF m_conversion_table, LikeASCII

\* Where there is a capital letter, its small letter is in its place, ...
LEMMA TableSmall ==
    \A a \in 1 .. 255 : m_conversion_table[a] \in RegularCapitals
        => /\ a # 32 /\ PlaceOfSmall(a) \in 1 .. 255
           /\ m_conversion_table[PlaceOfSmall(a)] = SmallLetter(m_conversion_table[a])
BY SMTT(60) DEF m_conversion_table, RegularCapitals, SmallLetter, PlaceOfSmall

\* ... and where there is a small letter, its capital; 377 is none, though 376 is a capital.
CapitalLetter(u) ==
    CASE u = 255             -> 376
      [] u < 255 \/ u = 377  -> u - 32
      [] OTHER               -> u - 1

PlaceOfCapital(place) ==
    IF place \in 128 .. 159 /\ place % 16 < 10 THEN place + 64
    ELSE IF place \in 96 .. 127 THEN place - 32 ELSE place - 16

LEMMA TableCapital ==
    \A a \in 1 .. 255 : CapitalLetter(m_conversion_table[a]) \in RegularCapitals
        => /\ PlaceOfCapital(a) \in 1 .. 255
           /\ m_conversion_table[PlaceOfCapital(a)] = CapitalLetter(m_conversion_table[a])
<1> DEFINE P(a) == CapitalLetter(m_conversion_table[a]) \in RegularCapitals
                        => /\ PlaceOfCapital(a) \in 1 .. 255
                           /\ m_conversion_table[PlaceOfCapital(a)] = CapitalLetter(m_conversion_table[a])
<1>1. \A a \in 1 .. 16 : P(a)
    BY SMTT(60) DEF m_conversion_table, RegularCapitals, CapitalLetter, PlaceOfCapital
<1>2. \A a \in 17 .. 63 : P(a)
    BY SMTT(60) DEF m_conversion_table, RegularCapitals, CapitalLetter, PlaceOfCapital
<1>3. \A a \in 64 .. 95 : P(a)
    BY SMTT(60) DEF m_conversion_table, RegularCapitals, CapitalLetter, PlaceOfCapital
<1>4. \A a \in 96 .. 127 : P(a)
    BY SMTT(60) DEF m_conversion_table, RegularCapitals, CapitalLetter, PlaceOfCapital
<1>5. \A a \in 128 .. 143 : P(a)
    BY SMTT(60) DEF m_conversion_table, RegularCapitals, CapitalLetter, PlaceOfCapital
<1>6. \A a \in 144 .. 159 : P(a)
    BY SMTT(60) DEF m_conversion_table, RegularCapitals, CapitalLetter, PlaceOfCapital
<1>7. \A a \in 160 .. 191 : P(a)
    BY SMTT(60) DEF m_conversion_table, RegularCapitals, CapitalLetter, PlaceOfCapital
<1>8. \A a \in 192 .. 223 : P(a)
    BY SMTT(60) DEF m_conversion_table, RegularCapitals, CapitalLetter, PlaceOfCapital
<1>9. \A a \in 224 .. 239 : P(a)
    BY SMTT(60) DEF m_conversion_table, RegularCapitals, CapitalLetter, PlaceOfCapital
<1>10. \A a \in 240 .. 255 : P(a)
    BY SMTT(60) DEF m_conversion_table, RegularCapitals, CapitalLetter, PlaceOfCapital
<1>11. ASSUME NEW a \in 1 .. 255 PROVE P(a)
    <2>1. \/ a \in 1 .. 16 \/ a \in 17 .. 63 \/ a \in 64 .. 95 \/ a \in 96 .. 127 \/ a \in 128 .. 143
          \/ a \in 144 .. 159 \/ a \in 160 .. 191 \/ a \in 192 .. 223 \/ a \in 224 .. 239 \/ a \in 240 .. 255
        OBVIOUS
    <2> HIDE DEF P
    <2> QED
        BY <2>1, <1>1, <1>2, <1>3, <1>4, <1>5, <1>6, <1>7, <1>8, <1>9, <1>10
<1> QED
    BY <1>11

LEMMA SmallOfCapital ==
    \A u \in RegularCapitals : u \in Nat /\ CapitalLetter(SmallLetter(u)) = u
BY DEF RegularCapitals, CapitalLetter, SmallLetter

-----------------------------------------------------------------------------
(***************************************************************************)
(* Words, and the exclusive or of two of them, digit by digit.             *)
(***************************************************************************)
\* Words, the powers of two, and the word of sixteen digits.
Words == {n \in Nat : n < 65536}

Power == [j \in 0 .. 16 |-> <<1, 2, 4, 8, 16, 32, 64, 128, 256, 512, 1024, 2048, 4096, 8192,
                             16384, 32768, 65536>>[j + 1]]

\* What the other proofs know of the powers of two.
LEMMA Powers ==
    /\ \A j \in 0 .. 16 : Power[j] \in Nat \ {0}
    /\ \A j \in 0 .. 15 : Power[j + 1] = 2 * Power[j]
    /\ Power[0] = 1 /\ Power[16] = 65536
BY DEF Power

\* A number is its half and its last bit.
LEMMA Halves ==
    ASSUME NEW a \in Nat, NEW p \in 0 .. 1
    PROVE  (2 * a + p) \div 2 = a /\ (2 * a + p) % 2 = p
<1>1. (2 * a + p) \div 2 = a
    OBVIOUS
<1>2. CASE p = 0
    BY <1>1, <1>2
<1>3. CASE p = 1
    BY <1>1, <1>3
<1> QED
    BY <1>2, <1>3

\* Halving a quotient doubles the divisor.
LEMMA HalfQuotient ==
    ASSUME NEW a \in Nat, NEW k \in Nat \ {0}
    PROVE  (a \div k) \div 2 = a \div (2 * k) /\ a \div k \in Nat
<1>1. a \div k \in Nat
    <2>1. PICK q \in Int, r \in Int : q = a \div k /\ r = a % k
        OBVIOUS
    <2>2. a = k * q + r /\ 0 <= r /\ r < k
        BY <2>1
    <2>3. q >= 0
        BY <2>2
    <2> QED
        BY <2>1, <2>3
<1>2. (a \div k) \div 2 = a \div (2 * k)
    BY SMTT(30)
<1> QED
    BY <1>1, <1>2, Zenon

\* Horner's scheme backwards: halving takes off one bit after the other.
LEMMA Halving ==
    ASSUME NEW h, \A j \in 0 .. 15 : h[j] \in 0 .. 1,
           NEW v, \A j \in 0 .. 16 : v[j] \in Nat,
           \A j \in 0 .. 15 : v[j] = 2 * v[j + 1] + h[j]
    PROVE  \A j \in 0 .. 15 : (v[0] \div Power[j]) % 2 = h[j]
<1> DEFINE P == {n \in 0 .. 15 : v[0] \div Power[n] = v[n]}
<1>1. \A j \in 0 .. 15 : v[j] \div 2 = v[j + 1] /\ v[j] % 2 = h[j]
    <2> SUFFICES ASSUME NEW j \in 0 .. 15 PROVE v[j] \div 2 = v[j + 1] /\ v[j] % 2 = h[j]
        BY Zenon
    <2>1. v[j + 1] \in Nat
        OBVIOUS
    <2>2. h[j] \in 0 .. 1
        BY Zenon
    <2>3. v[j] = 2 * v[j + 1] + h[j]
        BY Zenon
    <2>4. PICK a \in Nat, p \in 0 .. 1 : a = v[j + 1] /\ p = h[j]
        BY <2>1, <2>2, Zenon
    <2>5. (2 * a + p) \div 2 = a /\ (2 * a + p) % 2 = p
        BY Halves
    <2>6. v[j] = 2 * a + p
        BY <2>3, <2>4
    <2> QED
        BY <2>4, <2>5, <2>6, Zenon
<1>2. 0 \in P
    BY Powers
<1>3. ASSUME NEW n \in 0 .. 14, n \in P PROVE n + 1 \in P
    <2>1. n \in 0 .. 15 /\ n + 1 \in 0 .. 15
        OBVIOUS
    <2>2. Power[n] \in Nat \ {0} /\ v[0] \in Nat
        BY <2>1, Powers
    <2>3. (v[0] \div Power[n]) \div 2 = v[0] \div (2 * Power[n])
        BY <2>2, HalfQuotient, Zenon
    <2>4. v[0] \div Power[n] = v[n]
        BY <1>3
    <2>5. v[n] \div 2 = v[n + 1]
        BY <1>1, <2>1
    <2>6. Power[n + 1] = 2 * Power[n]
        BY <2>1, Powers
    <2> QED
        BY <2>1, <2>3, <2>4, <2>5, <2>6
<1> HIDE DEF P
<1>4. \A n \in 0 .. 15 - 1 : n \in P => n + 1 \in P
    BY <1>3
<1>5. \A n \in 0 .. 15 : n \in P
    BY <1>2, <1>4, Induction
<1>6. \A n \in 0 .. 15 : v[0] \div Power[n] = v[n]
    BY <1>5, Zenon DEF P
<1> QED
    BY <1>1, <1>6, Zenon

Four(h, j) == h[j] + 2 * h[j + 1] + 4 * h[j + 2] + 8 * h[j + 3]

Word(h) == Four(h, 0) + 16 * Four(h, 4) + 256 * Four(h, 8) + 4096 * Four(h, 12)

\* The value of sixteen digits, computed from the highest on.
LEMMA Horner ==
    ASSUME NEW h \in [0 .. 15 -> 0 .. 1]
    PROVE  \E v : /\ \A j \in 0 .. 16 : v[j] \in Nat
                  /\ \A j \in 0 .. 15 : v[j] = 2 * v[j + 1] + h[j]
                  /\ v[0] = Word(h)
                  /\ v[16] = 0
<1> DEFINE step == [n \in 1 .. 16 |-> [a \in Nat |-> 2 * a + h[16 - n]]]
<1>1. StepsWithin(step, 16, Nat)
    BY SMTT(10) DEF StepsWithin
<1>8. \A n \in 1 .. 16 : \A a \in Nat : step[n][a] = 2 * a + h[16 - n]
    BY SMTT(10)
<1> HIDE DEF step
<1>2. PICK f : Follows(f, 16, Nat, 0, step)
    BY <1>1, Recursion, 16 \in Nat, 0 \in Nat, Zenon
<1>3. \A n \in 1 .. 16 : f[n] = 2 * f[n - 1] + h[16 - n]
    <2> SUFFICES ASSUME NEW n \in 1 .. 16 PROVE f[n] = 2 * f[n - 1] + h[16 - n]
        OBVIOUS
    <2>1. f \in [0 .. 16 -> Nat] /\ f[n] = step[n][f[n - 1]]
        BY <1>2 DEF Follows
    <2>2. f[n - 1] \in Nat
        BY <2>1
    <2> QED
        BY <1>8, <2>1, <2>2, Zenon
<1> DEFINE v == [j \in 0 .. 16 |-> f[16 - j]]
<1>4. \A j \in 0 .. 16 : v[j] \in Nat
    BY <1>2, SMTT(10) DEF Follows
<1>5. \A j \in 0 .. 15 : v[j] = 2 * v[j + 1] + h[j]
    BY <1>3, SMTT(10)
<1>6. v[16] = 0
    BY <1>2 DEF Follows
<1> HIDE DEF v
<1>7. ASSUME NEW j \in {0, 4, 8, 12} PROVE v[j] = Four(h, j) + 16 * v[j + 4]
    <2>1. /\ v[j] = 2 * v[j + 1] + h[j]
          /\ v[j + 1] = 2 * v[j + 2] + h[j + 1]
          /\ v[j + 2] = 2 * v[j + 3] + h[j + 2]
          /\ v[j + 3] = 2 * v[j + 4] + h[j + 3]
        BY <1>5
    <2>2. /\ v[j + 4] \in Nat
          /\ h[j] \in Int /\ h[j + 1] \in Int /\ h[j + 2] \in Int /\ h[j + 3] \in Int
        BY <1>4
    <2> QED
        BY <2>1, <2>2 DEF Four
<1>9. \A j \in {0, 4, 8, 12} : Four(h, j) \in Int
    BY DEF Four
<1>10. v[0] = Four(h, 0) + 16 * v[4] /\ v[4] = Four(h, 4) + 16 * v[8]
       /\ v[8] = Four(h, 8) + 16 * v[12] /\ v[12] = Four(h, 12) + 16 * v[16]
    BY <1>7
<1>11. v[0] = Word(h)
    BY <1>6, <1>9, <1>10 DEF Word
<1> QED
    BY <1>4, <1>5, <1>6, <1>11, Zenon

\* Digit j of a number, from the lowest on.
digit(x, j) == (x \div Power[j]) % 2

\* The digits of a word are those it was made of.
LEMMA WordBits ==
    ASSUME NEW h \in [0 .. 15 -> 0 .. 1]
    PROVE  Word(h) \in Words /\ \A j \in 0 .. 15 : digit(Word(h), j) = h[j]
<1>1. PICK v : /\ \A j \in 0 .. 16 : v[j] \in Nat
               /\ \A j \in 0 .. 15 : v[j] = 2 * v[j + 1] + h[j]
               /\ v[0] = Word(h)
               /\ v[16] = 0
    BY Horner, Zenon
<1>2. \A j \in 0 .. 15 : (v[0] \div Power[j]) % 2 = h[j]
    BY <1>1, Halving, Zenon
<1>3. /\ Four(h, 0) \in 0 .. 15 /\ Four(h, 4) \in 0 .. 15
      /\ Four(h, 8) \in 0 .. 15 /\ Four(h, 12) \in 0 .. 15
    BY DEF Four
<1>4. Word(h) \in Words
    <2>1. PICK a \in 0 .. 15, b \in 0 .. 15, c \in 0 .. 15, d \in 0 .. 15 :
              a = Four(h, 0) /\ b = Four(h, 4) /\ c = Four(h, 8) /\ d = Four(h, 12)
        BY <1>3, Zenon
    <2>3. a + 16 * b + 256 * c + 4096 * d < 65536 /\ a + 16 * b + 256 * c + 4096 * d \in Nat
        OBVIOUS
    <2>2. a + 16 * b + 256 * c + 4096 * d \in Words
        BY <2>3 DEF Words
    <2> QED
        BY <2>1, <2>2 DEF Word
<1> QED
    BY <1>1, <1>2, <1>4 DEF digit

\* The last bit of a sum is that of the sum of the last bits.
LEMMA Parity ==
    ASSUME NEW a \in Nat, NEW b \in Nat
    PROVE  (a + b) % 2 = ((a % 2) + (b % 2)) % 2 /\ (a + b) % 2 \in 0 .. 1 /\ a % 2 \in 0 .. 1
OBVIOUS

\* The exclusive or adds the digits without carry.
LEMMA XorBits ==
    ASSUME NEW x \in Nat, NEW y \in Nat
    PROVE  /\ x ^^ y \in Words
           /\ \A j \in 0 .. 15 : digit(x ^^ y, j) = (digit(x, j) + digit(y, j)) % 2
<1> DEFINE h == [j \in 0 .. 15 |-> (x \div Power[j] + y \div Power[j]) % 2]
<1> HIDE DEF h
<1>1. ASSUME NEW j \in 0 .. 15
      PROVE  /\ h[j] = (digit(x, j) + digit(y, j)) % 2
             /\ h[j] \in 0 .. 1
    <2>1. Power[j] \in Nat \ {0}
        BY Powers
    <2>2. x \div Power[j] \in Nat /\ y \div Power[j] \in Nat
        BY <2>1, HalfQuotient, Zenon
    <2>3. PICK a \in Nat, b \in Nat : a = x \div Power[j] /\ b = y \div Power[j]
        BY <2>2, Zenon
    <2>4. (a + b) % 2 = ((a % 2) + (b % 2)) % 2 /\ (a + b) % 2 \in 0 .. 1
        BY Parity
    <2>6. h[j] = (x \div Power[j] + y \div Power[j]) % 2
        BY Zenon DEF h
    <2>5. h[j] = (a + b) % 2 /\ digit(x, j) = a % 2 /\ digit(y, j) = b % 2
        BY <2>3, <2>6, Zenon DEF digit
    <2> QED
        BY <2>4, <2>5
<1> DEFINE bit(k) == (x \div k + y \div k) % 2
           four(k) == bit(k) + 2 * bit(2 * k) + 4 * bit(4 * k) + 8 * bit(8 * k)
<1>2. ASSUME NEW j \in {0, 4, 8, 12} PROVE Four(h, j) = four(Power[j])
    <2>1. j \in 0 .. 15 /\ j + 1 \in 0 .. 15 /\ j + 2 \in 0 .. 15 /\ j + 3 \in 0 .. 15
        OBVIOUS
    <2>2. /\ Power[j + 1] = 2 * Power[j]
          /\ Power[j + 2] = 4 * Power[j]
          /\ Power[j + 3] = 8 * Power[j]
        BY DEF Power
    <2>3. \A i \in 0 .. 15 : h[i] = bit(Power[i])
        BY Zenon DEF h
    <2> HIDE DEF h, bit
    <2>4. h[j] = bit(Power[j]) /\ h[j + 1] = bit(2 * Power[j])
          /\ h[j + 2] = bit(4 * Power[j]) /\ h[j + 3] = bit(8 * Power[j])
        BY <2>1, <2>2, <2>3
    <2> QED
        BY <2>4, Zenon DEF Four
<1>4. x ^^ y = four(1) + 16 * four(16) + 256 * four(256) + 4096 * four(4096)
    BY DEF ^^
<1>5. Power[0] = 1 /\ Power[4] = 16 /\ Power[8] = 256 /\ Power[12] = 4096
    BY DEF Power
<1>6. x ^^ y = Word(h)
    <2> HIDE DEF four, h
    <2> QED
        BY <1>2, <1>4, <1>5 DEF Word
<1> HIDE DEF h
<1>3. h \in [0 .. 15 -> 0 .. 1]
    BY <1>1 DEF h
<1> QED
    BY <1>1, <1>3, <1>6, WordBits

\* A word is its own quotient by 1 and has none by 65536.
LEMMA WordQuotients ==
    ASSUME NEW x \in Words PROVE x \div 1 = x /\ x \div 65536 = 0 /\ x \in Nat
<1>1. x \in Nat /\ x < 65536
    BY DEF Words
<1>2. x \div 65536 = 0
    BY <1>1
<1>3. x \div 1 = x
    BY <1>1
<1> QED
    BY <1>1, <1>2, <1>3

\* Words with the same digits are the same.
LEMMA SameBits ==
    ASSUME NEW x \in Words, NEW y \in Words, \A j \in 0 .. 15 : digit(x, j) = digit(y, j)
    PROVE  x = y
<1> DEFINE P == {n \in 0 .. 16 : x \div Power[16 - n] = y \div Power[16 - n]}
<1>1. 0 \in P
    <2>1. Power[16 - 0] = 65536
        BY Powers
    <2> QED
        BY <2>1, WordQuotients
<1>2. ASSUME NEW n \in 0 .. 15, n \in P PROVE n + 1 \in P
    <2> DEFINE j == 16 - (n + 1)
    <2>1. j \in 0 .. 15 /\ 16 - n = j + 1
        OBVIOUS
    <2> HIDE DEF j
    <2>2. Power[j] \in Nat \ {0} /\ Power[j + 1] = 2 * Power[j]
        BY <2>1, Powers
    <2>8. x \in Nat /\ y \in Nat
        BY WordQuotients
    <2>3. /\ (x \div Power[j]) \div 2 = x \div Power[j + 1] /\ x \div Power[j] \in Nat
          /\ (y \div Power[j]) \div 2 = y \div Power[j + 1] /\ y \div Power[j] \in Nat
        BY <2>2, <2>8, HalfQuotient, Zenon
    <2>4. PICK a \in Nat, b \in Nat : a = x \div Power[j] /\ b = y \div Power[j]
        BY <2>3, Zenon
    <2>5. a \div 2 = b \div 2
        BY <1>2, <2>1, <2>3, <2>4, Zenon
    <2>6. a % 2 = b % 2
        BY <2>1, <2>4 DEF digit
    <2>7. a = b
        BY <2>5, <2>6
    <2> QED
        BY <2>1, <2>4, <2>7 DEF j
<1>3. 16 \in P
    <2> HIDE DEF P
    <2>1. \A n \in 0 .. 16 - 1 : n \in P => n + 1 \in P
        BY <1>2
    <2>2. \A n \in 0 .. 16 : n \in P
        BY <1>1, <2>1, Induction
    <2> QED
        BY <2>2
<1>4. x \div 1 = y \div 1
    BY <1>3, Powers
<1> QED
    BY <1>4, WordQuotients

\* A digit is 0 or 1, and those of 0 are 0.
LEMMA Digit ==
    ASSUME NEW x \in Nat, NEW j \in 0 .. 15
    PROVE  digit(x, j) \in 0 .. 1
<1>1. Power[j] \in Nat \ {0}
    BY Powers
<1>2. x \div Power[j] \in Nat
    BY <1>1, HalfQuotient, Zenon
<1> QED
    BY <1>2, Parity, Zenon DEF digit

LEMMA ZeroDigits == \A j \in 0 .. 15 : digit(0, j) = 0
<1> SUFFICES ASSUME NEW j \in 0 .. 15 PROVE digit(0, j) = 0
    OBVIOUS
<1>1. PICK k \in Nat \ {0} : k = Power[j]
    BY Powers
<1>2. 0 \div k = 0
    OBVIOUS
<1> QED
    BY <1>1, <1>2 DEF digit

\* Adding bits without carry.
LEMMA AddBits ==
    ASSUME NEW a \in 0 .. 1, NEW b \in 0 .. 1, NEW c \in 0 .. 1
    PROVE  /\ (a + b) % 2 = (b + a) % 2 /\ (a + a) % 2 = 0 /\ (a + 0) % 2 = a
           /\ (((a + b) % 2) + c) % 2 = (a + ((b + c) % 2)) % 2
OBVIOUS

\* Words are a group, each its own inverse.
LEMMA Group ==
    ASSUME NEW x \in Words, NEW y \in Words, NEW z \in Words
    PROVE  /\ x ^^ y \in Words
           /\ x ^^ y = y ^^ x
           /\ (x ^^ y) ^^ z = x ^^ (y ^^ z)
           /\ x ^^ x = 0
           /\ x ^^ 0 = x
<1>1. x \in Nat /\ y \in Nat /\ z \in Nat /\ 0 \in Nat /\ 0 \in Words
    BY DEF Words
<1>2. \A w \in Words : w \in Nat
    BY DEF Words
<1>3. /\ x ^^ y \in Words /\ y ^^ x \in Words /\ y ^^ z \in Words
      /\ x ^^ x \in Words /\ x ^^ 0 \in Words
    BY <1>1, XorBits, Zenon
<1>4. (x ^^ y) ^^ z \in Words /\ x ^^ (y ^^ z) \in Words
    BY <1>1, <1>2, <1>3, XorBits, Zenon
<1>5. ASSUME NEW j \in 0 .. 15
      PROVE  /\ digit(x ^^ y, j) = digit(y ^^ x, j)
             /\ digit((x ^^ y) ^^ z, j) = digit(x ^^ (y ^^ z), j)
             /\ digit(x ^^ x, j) = digit(0, j)
             /\ digit(x ^^ 0, j) = digit(x, j)
    <2>1. PICK a \in 0 .. 1, b \in 0 .. 1, c \in 0 .. 1 :
              a = digit(x, j) /\ b = digit(y, j) /\ c = digit(z, j)
        BY <1>1, Digit, Zenon
    <2>2. /\ (a + b) % 2 = (b + a) % 2 /\ (a + a) % 2 = 0 /\ (a + 0) % 2 = a
          /\ (((a + b) % 2) + c) % 2 = (a + ((b + c) % 2)) % 2
        BY AddBits
    <2>3. digit(x ^^ y, j) = (a + b) % 2 /\ digit(y ^^ x, j) = (b + a) % 2
          /\ digit(y ^^ z, j) = (b + c) % 2 /\ digit(x ^^ x, j) = (a + a) % 2
        BY <1>1, <2>1, XorBits, Zenon
    <2>4. digit(0, j) = 0
        BY ZeroDigits
    <2>5. digit(x ^^ 0, j) = (a + 0) % 2
        BY <1>1, <2>1, <2>4, XorBits
    <2>6. digit((x ^^ y) ^^ z, j) = (((a + b) % 2) + c) % 2
        <3>1. PICK p \in Nat : p = x ^^ y
            BY <1>2, <1>3, Zenon
        <3>2. digit(p ^^ z, j) = (digit(p, j) + digit(z, j)) % 2
            BY <1>1, XorBits, Zenon
        <3> QED
            BY <2>1, <2>3, <3>1, <3>2, Zenon
    <2>7. digit(x ^^ (y ^^ z), j) = (a + ((b + c) % 2)) % 2
        <3>1. PICK p \in Nat : p = y ^^ z
            BY <1>2, <1>3, Zenon
        <3>2. digit(x ^^ p, j) = (digit(x, j) + digit(p, j)) % 2
            BY <1>1, XorBits, Zenon
        <3>3. digit(p, j) = (b + c) % 2
            BY <2>3, <3>1, Zenon
        <3>4. digit(x ^^ p, j) = (a + ((b + c) % 2)) % 2
            BY <2>1, <3>2, <3>3
        <3> QED
            BY <3>1, <3>4, Zenon
    <2> QED
        BY <2>1, <2>2, <2>3, <2>4, <2>5, <2>6, <2>7, Zenon
<1> QED
    <2>1. x ^^ y = y ^^ x
        BY <1>3, <1>5, SameBits
    <2>2. (x ^^ y) ^^ z = x ^^ (y ^^ z)
        BY <1>4, <1>5, SameBits
    <2>3. x ^^ x = 0
        BY <1>1, <1>3, <1>5, SameBits, ZenonT(40)
    <2>4. x ^^ 0 = x
        BY <1>1, <1>3, <1>5, SameBits, ZenonT(40)
    <2> QED
        BY <1>3, <2>1, <2>2, <2>3, <2>4, Zenon

\* The same, one law at a time.
LEMMA Commutes == \A x, y \in Words : x ^^ y = y ^^ x
BY Group, Zenon

LEMMA Associates == \A x, y, z \in Words : (x ^^ y) ^^ z = x ^^ (y ^^ z)
BY Group

LEMMA XorWord == \A x, y \in Words : x ^^ y \in Words
BY Group, Zenon

\* In the exclusive or of four words the inner two may change places.
LEMMA Interchange ==
    ASSUME NEW p \in Words, NEW q \in Words, NEW u \in Words, NEW v \in Words
    PROVE  (p ^^ q) ^^ (u ^^ v) = (p ^^ u) ^^ (q ^^ v)
<1>1. p ^^ q \in Words /\ u ^^ v \in Words /\ p ^^ u \in Words /\ q ^^ v \in Words
    BY XorWord, Zenon
<1>2. (p ^^ q) ^^ (u ^^ v) = ((p ^^ q) ^^ u) ^^ v
    BY <1>1, Associates
<1>3. (p ^^ q) ^^ u = p ^^ (q ^^ u)
    BY Associates, ZenonT(40)
<1>4. q ^^ u = u ^^ q
    BY Commutes, Zenon
<1>5. p ^^ (u ^^ q) = (p ^^ u) ^^ q
    BY Associates, ZenonT(40)
<1>6. ((p ^^ u) ^^ q) ^^ v = (p ^^ u) ^^ (q ^^ v)
    BY <1>1, Associates
<1> QED
    BY <1>2, <1>3, <1>4, <1>5, <1>6, Zenon

\* All digits of a word.
Digits(x) == [j \in 0 .. 15 |-> digit(x, j)]

\* A word is made of its digits.
LEMMA WordOfDigits ==
    ASSUME NEW x \in Words
    PROVE  Digits(x) \in [0 .. 15 -> 0 .. 1] /\ x = Word(Digits(x))
<1>1. x \in Nat
    BY DEF Words
<1>2. \A j \in 0 .. 15 : digit(x, j) \in 0 .. 1
    BY <1>1, Digit, Zenon
<1>3. Digits(x) \in [0 .. 15 -> 0 .. 1] /\ \A j \in 0 .. 15 : Digits(x)[j] = digit(x, j)
    BY <1>2 DEF Digits
<1>4. Word(Digits(x)) \in Words /\ \A j \in 0 .. 15 : digit(Word(Digits(x)), j) = digit(x, j)
    BY <1>3, WordBits, Zenon
<1> QED
    BY <1>3, <1>4, SameBits, Zenon

\* One place up.
Shift(r) == (r * 2) % 65536

\* Shifting moves every digit up by one and drops the highest.
LEMMA ShiftOut ==
    ASSUME NEW r \in Nat, NEW c \in 0 .. 1, NEW w \in Words, 2 * r = 65536 * c + w
    PROVE  Shift(r) = w
<1>1. w \in Nat /\ w < 65536
    BY DEF Words
<1>2. (65536 * c + w) % 65536 = w
    BY <1>1
<1> QED
    BY <1>2 DEF Shift

LEMMA ShiftDigits ==
    ASSUME NEW r \in Words
    PROVE  /\ Shift(r) \in Words
           /\ digit(Shift(r), 0) = 0
           /\ \A j \in 1 .. 15 : digit(Shift(r), j) = digit(r, j - 1)
<1> DEFINE h == Digits(r)
           g == [j \in 0 .. 15 |-> IF j = 0 THEN 0 ELSE digit(r, j - 1)]
<1>1. h \in [0 .. 15 -> 0 .. 1] /\ r = Word(h)
    BY WordOfDigits, Zenon
<1>2. \A j \in 0 .. 15 : h[j] = digit(r, j)
    BY DEF Digits
<1>3. /\ g \in [0 .. 15 -> 0 .. 1] /\ g[0] = 0
      /\ \A j \in 1 .. 15 : g[j] = digit(r, j - 1) /\ g[j] = h[j - 1]
    <2>1. \A j \in 0 .. 15 : h[j] \in 0 .. 1
        BY <1>1
    <2>2. \A j \in 1 .. 15 : j - 1 \in 0 .. 15
        OBVIOUS
    <2>3. \A j \in 1 .. 15 : digit(r, j - 1) \in 0 .. 1 /\ digit(r, j - 1) = h[j - 1]
        BY <1>2, <2>1, <2>2, Zenon
    <2> HIDE DEF h
    <2> QED
        BY <2>3
<1> HIDE DEF h, g
<1>4. /\ \A j \in {0, 4, 8, 12} : Four(h, j) \in 0 .. 15 /\ Four(g, j) \in 0 .. 15
      /\ h[3] \in 0 .. 1 /\ h[7] \in 0 .. 1 /\ h[11] \in 0 .. 1 /\ h[15] \in 0 .. 1
    BY <1>1, <1>3 DEF Four
<1>5. Four(g, 0) = 2 * Four(h, 0) - 16 * h[3]
    BY <1>1, <1>3 DEF Four
<1>6. ASSUME NEW j \in {4, 8, 12} PROVE Four(g, j) = 2 * Four(h, j) + h[j - 1] - 16 * h[j + 3]
    <2>1. g[j] = h[j - 1] /\ g[j + 1] = h[j] /\ g[j + 2] = h[j + 1] /\ g[j + 3] = h[j + 2]
        BY <1>3
    <2>2. PICK a \in Int, b \in Int, c \in Int, d \in Int :
              a = h[j - 1] /\ b = h[j] /\ c = h[j + 1] /\ d = h[j + 2]
        BY <1>1, SMTT(30)
    <2>3. PICK e \in Int : e = h[j + 3]
        BY <1>1
    <2>4. Four(g, j) = a + 2 * b + 4 * c + 8 * d
        BY <2>1, <2>2 DEF Four
    <2>5. Four(h, j) = b + 2 * c + 4 * d + 8 * e
        BY <2>2, <2>3 DEF Four
    <2> QED
        BY <2>2, <2>3, <2>4, <2>5
<1>7. /\ Four(g, 4) = 2 * Four(h, 4) + h[3] - 16 * h[7]
      /\ Four(g, 8) = 2 * Four(h, 8) + h[7] - 16 * h[11]
      /\ Four(g, 12) = 2 * Four(h, 12) + h[11] - 16 * h[15]
    BY <1>6
<1>8. 2 * Word(h) = 65536 * h[15] + Word(g)
    <2>1. PICK a \in Int, b \in Int, c \in Int, d \in Int :
              a = Four(h, 0) /\ b = Four(h, 4) /\ c = Four(h, 8) /\ d = Four(h, 12)
        <3>1. Four(h, 0) \in Int /\ Four(h, 4) \in Int /\ Four(h, 8) \in Int /\ Four(h, 12) \in Int
            BY <1>4
        <3> QED
            BY <3>1, Zenon
    <2>2. PICK e \in Int, i \in Int, k \in Int, m \in Int :
              e = h[3] /\ i = h[7] /\ k = h[11] /\ m = h[15]
        BY <1>4
    <2>3. Word(h) = a + 16 * b + 256 * c + 4096 * d
        BY <2>1 DEF Word
    <2>4. /\ Four(g, 0) = 2 * a - 16 * e
          /\ Four(g, 4) = 2 * b + e - 16 * i
          /\ Four(g, 8) = 2 * c + i - 16 * k
          /\ Four(g, 12) = 2 * d + k - 16 * m
        BY <1>5, <1>7, <2>1, <2>2
    <2>5. Word(g) = 2 * a - 16 * e + 16 * (2 * b + e - 16 * i) + 256 * (2 * c + i - 16 * k)
                    + 4096 * (2 * d + k - 16 * m)
        BY <2>4 DEF Word
    <2>6. 2 * Word(h) = 65536 * m + Word(g)
        BY <2>3, <2>5
    <2> QED
        BY <2>2, <2>6
<1>9. Word(g) \in Words /\ \A j \in 0 .. 15 : digit(Word(g), j) = g[j]
    BY <1>3, WordBits, Zenon
<1>10. Shift(r) = Word(g)
    <2>1. r \in Nat
        BY DEF Words
    <2> QED
        <3>1. PICK w \in Words, c \in 0 .. 1 : w = Word(g) /\ c = h[15]
            BY <1>4, <1>9, Zenon
        <3>2. 2 * r = 65536 * c + w
            BY <1>1, <1>8, <3>1
        <3>3. Shift(r) = w
            BY <2>1, <3>2, ShiftOut
        <3> QED
            BY <3>1, <3>3
<1> QED
    BY <1>3, <1>9, <1>10

\* Shifting goes with the exclusive or.
LEMMA ShiftXor ==
    ASSUME NEW r \in Words, NEW s \in Words
    PROVE  Shift(r ^^ s) = Shift(r) ^^ Shift(s)
<1>1. r \in Nat /\ s \in Nat /\ r ^^ s \in Words
    BY XorWord DEF Words
<1>2. Shift(r) \in Words /\ Shift(s) \in Words /\ Shift(r ^^ s) \in Words
    BY <1>1, ShiftDigits, Zenon
<1>3. Shift(r) \in Nat /\ Shift(s) \in Nat /\ Shift(r) ^^ Shift(s) \in Words
    BY <1>2, XorWord DEF Words
<1>4. ASSUME NEW j \in 0 .. 15 PROVE digit(Shift(r ^^ s), j) = digit(Shift(r) ^^ Shift(s), j)
    <2>1. digit(Shift(r) ^^ Shift(s), j) = (digit(Shift(r), j) + digit(Shift(s), j)) % 2
        BY <1>3, XorBits, Zenon
    <2>2. CASE j = 0
        <3>1. digit(Shift(r), j) = 0 /\ digit(Shift(s), j) = 0 /\ digit(Shift(r ^^ s), j) = 0
            BY <1>1, <2>2, ShiftDigits, Zenon
        <3> QED
            BY <2>1, <3>1
    <2>3. CASE j # 0
        <3>1. j \in 1 .. 15 /\ j - 1 \in 0 .. 15
            BY <2>3
        <3>2. digit(Shift(r), j) = digit(r, j - 1) /\ digit(Shift(s), j) = digit(s, j - 1)
              /\ digit(Shift(r ^^ s), j) = digit(r ^^ s, j - 1)
            BY <1>1, <3>1, ShiftDigits, Zenon
        <3>3. digit(r ^^ s, j - 1) = (digit(r, j - 1) + digit(s, j - 1)) % 2
            BY <1>1, <3>1, XorBits
        <3> QED
            BY <2>1, <3>2, <3>3, Zenon
    <2> QED
        BY <2>2, <2>3
<1> QED
    BY <1>2, <1>3, <1>4, SameBits

\* Bytes.
Bytes == {n \in Nat : n < 256}

\* Two halves of bits make two bytes.
LEMMA TwoBytes ==
    ASSUME NEW h \in [0 .. 15 -> 0 .. 1]
    PROVE  /\ Four(h, 0) + 16 * Four(h, 4) \in Bytes
           /\ Four(h, 8) + 16 * Four(h, 12) \in Bytes
           /\ Word(h) = 256 * (Four(h, 8) + 16 * Four(h, 12)) + (Four(h, 0) + 16 * Four(h, 4))
<1>1. /\ Four(h, 0) \in 0 .. 15 /\ Four(h, 4) \in 0 .. 15
      /\ Four(h, 8) \in 0 .. 15 /\ Four(h, 12) \in 0 .. 15
    BY DEF Four
<1>2. PICK a \in 0 .. 15, b \in 0 .. 15, c \in 0 .. 15, d \in 0 .. 15 :
          a = Four(h, 0) /\ b = Four(h, 4) /\ c = Four(h, 8) /\ d = Four(h, 12)
    BY <1>1, Zenon
<1>3. a + 16 * b < 256 /\ a + 16 * b \in Nat /\ c + 16 * d < 256 /\ c + 16 * d \in Nat
    OBVIOUS
<1>4. a + 16 * b + 256 * c + 4096 * d = 256 * (c + 16 * d) + (a + 16 * b)
    OBVIOUS
<1> QED
    BY <1>2, <1>3, <1>4 DEF Word, Bytes

\* A word is below 256 just if its high bits are 0.
LEMMA ByteDigits ==
    ASSUME NEW w \in Words
    PROVE  w \in Bytes <=> \A j \in 8 .. 15 : digit(w, j) = 0
<1> DEFINE h == Digits(w)
<1>1. h \in [0 .. 15 -> 0 .. 1] /\ w = Word(h)
    BY WordOfDigits, Zenon
<1>2. \A j \in 8 .. 15 : h[j] = digit(w, j)
    BY DEF Digits
<1> HIDE DEF h
<1>3. PICK lo \in Bytes, hi \in Bytes :
          /\ lo = Four(h, 0) + 16 * Four(h, 4)
          /\ hi = Four(h, 8) + 16 * Four(h, 12)
          /\ w = 256 * hi + lo
    BY <1>1, TwoBytes
<1>4. w \in Bytes <=> hi = 0
    BY <1>3 DEF Bytes
<1>5. Four(h, 8) \in Nat /\ Four(h, 12) \in Nat
    BY <1>1 DEF Four
<1>6. hi = 0 <=> Four(h, 8) = 0 /\ Four(h, 12) = 0
    BY <1>3, <1>5
<1>7. Four(h, 8) = 0 <=> h[8] = 0 /\ h[9] = 0 /\ h[10] = 0 /\ h[11] = 0
    BY <1>1 DEF Four
<1>8. Four(h, 12) = 0 <=> h[12] = 0 /\ h[13] = 0 /\ h[14] = 0 /\ h[15] = 0
    BY <1>1 DEF Four
<1>9. (\A j \in 8 .. 15 : h[j] = 0) <=> /\ h[8] = 0 /\ h[9] = 0 /\ h[10] = 0 /\ h[11] = 0
                                         /\ h[12] = 0 /\ h[13] = 0 /\ h[14] = 0 /\ h[15] = 0
    OBVIOUS
<1>10. (\A j \in 8 .. 15 : h[j] = 0) <=> \A j \in 8 .. 15 : digit(w, j) = 0
    BY <1>2
<1> QED
    BY <1>4, <1>6, <1>7, <1>8, <1>9, <1>10, Zenon

\* A byte moved to the high half of a word.
LEMMA HighByte ==
    ASSUME NEW x \in Bytes
    PROVE  /\ 256 * x \in Words
           /\ \A j \in 0 .. 7 : digit(256 * x, j) = 0
           /\ \A j \in 8 .. 15 : digit(256 * x, j) = digit(x, j - 8)
<1> DEFINE g == [j \in 0 .. 15 |-> IF j < 8 THEN 0 ELSE digit(x, j - 8)]
           h == Digits(x)
<1>1. x \in Words /\ x \in Nat
    BY DEF Bytes, Words
<1>2. h \in [0 .. 15 -> 0 .. 1] /\ x = Word(h)
    BY <1>1, WordOfDigits, Zenon
<1>3. \A j \in 0 .. 15 : h[j] = digit(x, j)
    BY DEF Digits
<1>4. \A j \in 0 .. 15 : digit(x, j) \in 0 .. 1
    BY <1>1, Digit, Zenon
<1>5. /\ g \in [0 .. 15 -> 0 .. 1] /\ (\A j \in 0 .. 7 : g[j] = 0)
      /\ \A j \in 8 .. 15 : g[j] = digit(x, j - 8)
    BY <1>4
<1>6. \A j \in 8 .. 15 : g[j] = h[j - 8]
    BY <1>3, <1>5
<1> HIDE DEF g, h
<1>7. Four(g, 0) = 0 /\ Four(g, 4) = 0
    BY <1>5 DEF Four
<1>8. Four(g, 8) = Four(h, 0)
    BY <1>6 DEF Four
<1>9. Four(g, 12) = Four(h, 4)
    BY <1>6 DEF Four
<1>10. PICK lo \in Bytes, hi \in Bytes :
          /\ lo = Four(h, 0) + 16 * Four(h, 4)
          /\ hi = Four(h, 8) + 16 * Four(h, 12)
          /\ x = 256 * hi + lo
    BY <1>2, TwoBytes
<1>11. x = lo
    BY <1>10 DEF Bytes
<1>12. PICK u \in Bytes, v \in Bytes :
          /\ u = Four(g, 0) + 16 * Four(g, 4)
          /\ v = Four(g, 8) + 16 * Four(g, 12)
          /\ Word(g) = 256 * v + u
    BY <1>5, TwoBytes
<1>13. u = 0 /\ v = x
    BY <1>7, <1>8, <1>9, <1>10, <1>11, <1>12
<1>14. Word(g) = 256 * x
    <2>1. 256 * x + 0 = 256 * x
        BY <1>1
    <2> QED
        BY <1>12, <1>13, <2>1
<1>15. Word(g) \in Words /\ \A j \in 0 .. 15 : digit(Word(g), j) = g[j]
    BY <1>5, WordBits, Zenon
<1> QED
    BY <1>5, <1>14, <1>15

\* Bytes in the upper half are combined like bytes.
LEMMA HighBytes ==
    ASSUME NEW x \in Bytes, NEW y \in Bytes
    PROVE  x ^^ y \in Bytes /\ (256 * x) ^^ (256 * y) = 256 * (x ^^ y)
<1>1. x \in Words /\ y \in Words /\ x \in Nat /\ y \in Nat
    BY DEF Bytes, Words
<1>2. x ^^ y \in Words
    BY <1>1, XorWord
<1>3. \A j \in 0 .. 15 : digit(x ^^ y, j) = (digit(x, j) + digit(y, j)) % 2
    BY <1>1, XorBits
<1>4. x ^^ y \in Bytes
    <2> SUFFICES ASSUME NEW j \in 8 .. 15 PROVE digit(x ^^ y, j) = 0
        BY <1>2, ByteDigits
    <2>1. digit(x, j) = 0 /\ digit(y, j) = 0
        BY <1>1, ByteDigits
    <2>2. digit(x ^^ y, j) = (0 + 0) % 2
        BY <1>3, <2>1
    <2> QED
        BY <2>2
<1>5. PICK z \in Bytes : z = x ^^ y
    BY <1>4
<1>6. /\ 256 * x \in Words /\ 256 * y \in Words /\ 256 * z \in Words
      /\ 256 * x \in Nat /\ 256 * y \in Nat
    BY <1>1, HighByte
<1>7. PICK p \in Words, q \in Words : p = 256 * x /\ q = 256 * y /\ p \in Nat /\ q \in Nat
    BY <1>6
<1>8. p ^^ q \in Words /\ \A j \in 0 .. 15 : digit(p ^^ q, j) = (digit(p, j) + digit(q, j)) % 2
    BY <1>7, XorBits, XorWord
<1>9. ASSUME NEW j \in 0 .. 15 PROVE digit(p ^^ q, j) = digit(256 * z, j)
    <2>1. CASE j \in 0 .. 7
        <3>1. digit(p, j) = 0 /\ digit(q, j) = 0 /\ digit(256 * z, j) = 0
            BY <1>7, <2>1, HighByte
        <3>2. digit(p ^^ q, j) = (0 + 0) % 2
            BY <1>8, <3>1
        <3> QED
            BY <3>1, <3>2
    <2>2. CASE j \in 8 .. 15
        <3>1. /\ digit(p, j) = digit(x, j - 8)
              /\ digit(q, j) = digit(y, j - 8)
              /\ digit(256 * z, j) = digit(z, j - 8)
            BY <1>7, <2>2, HighByte
        <3>2. j - 8 \in 0 .. 15
            BY <2>2
        <3>3. digit(z, j - 8) = (digit(x, j - 8) + digit(y, j - 8)) % 2
            BY <1>3, <1>5, <3>2
        <3> QED
            BY <1>8, <3>1, <3>3
    <2> QED
        BY <2>1, <2>2
<1>10. p ^^ q = 256 * z
    BY <1>6, <1>8, <1>9, SameBits
<1> QED
    BY <1>4, <1>5, <1>7, <1>10

\* A word is its two bytes.
LEMMA HighAndLow ==
    ASSUME NEW hi \in Bytes, NEW lo \in Bytes
    PROVE  (256 * hi) ^^ lo = 256 * hi + lo
<1> DEFINE g == [j \in 0 .. 15 |-> IF j < 8 THEN digit(lo, j) ELSE digit(hi, j - 8)]
           h == Digits(hi)
           l == Digits(lo)
<1>1. hi \in Words /\ hi \in Nat /\ lo \in Words /\ lo \in Nat
    BY DEF Bytes, Words
<1>2. h \in [0 .. 15 -> 0 .. 1] /\ hi = Word(h) /\ l \in [0 .. 15 -> 0 .. 1] /\ lo = Word(l)
    BY <1>1, WordOfDigits, Zenon
<1>3. \A j \in 0 .. 15 : h[j] = digit(hi, j) /\ l[j] = digit(lo, j)
    BY DEF Digits
<1>4. \A j \in 0 .. 15 : digit(hi, j) \in 0 .. 1 /\ digit(lo, j) \in 0 .. 1
    BY <1>1, Digit, Zenon
<1>5. /\ g \in [0 .. 15 -> 0 .. 1]
      /\ \A j \in 0 .. 7 : g[j] = digit(lo, j)
      /\ \A j \in 8 .. 15 : g[j] = digit(hi, j - 8)
    BY <1>4
<1>6. (\A j \in 0 .. 7 : g[j] = l[j]) /\ \A j \in 8 .. 15 : g[j] = h[j - 8]
    BY <1>3, <1>5
<1> HIDE DEF g, h, l
<1>7. Four(g, 0) = Four(l, 0) /\ Four(g, 4) = Four(l, 4)
    BY <1>6 DEF Four
<1>8. Four(g, 8) = Four(h, 0)
    BY <1>6 DEF Four
<1>9. Four(g, 12) = Four(h, 4)
    BY <1>6 DEF Four
<1>10. hi = Four(h, 0) + 16 * Four(h, 4) /\ lo = Four(l, 0) + 16 * Four(l, 4)
    <2>1. PICK a \in Bytes, b \in Bytes :
              /\ a = Four(h, 0) + 16 * Four(h, 4) /\ b = Four(h, 8) + 16 * Four(h, 12)
              /\ hi = 256 * b + a
        BY <1>2, TwoBytes
    <2>2. PICK c \in Bytes, d \in Bytes :
              /\ c = Four(l, 0) + 16 * Four(l, 4) /\ d = Four(l, 8) + 16 * Four(l, 12)
              /\ lo = 256 * d + c
        BY <1>2, TwoBytes
    <2>3. hi = a
        BY <2>1 DEF Bytes
    <2>4. lo = c
        BY <2>2 DEF Bytes
    <2> QED
        BY <2>1, <2>2, <2>3, <2>4
<1>11. PICK u \in Bytes, v \in Bytes :
          /\ u = Four(g, 0) + 16 * Four(g, 4)
          /\ v = Four(g, 8) + 16 * Four(g, 12)
          /\ Word(g) = 256 * v + u
    BY <1>5, TwoBytes
<1>12. u = lo /\ v = hi
    BY <1>7, <1>8, <1>9, <1>10, <1>11
<1>13. Word(g) \in Words /\ \A j \in 0 .. 15 : digit(Word(g), j) = g[j]
    BY <1>5, WordBits, Zenon
<1>14. PICK p \in Words : p = 256 * hi
    BY HighByte
<1>15. p \in Nat /\ p ^^ lo \in Words
    <2>1. p \in Nat
        BY DEF Words
    <2>2. p ^^ lo \in Words
        BY <1>1, XorWord, Zenon
    <2> QED
        BY <2>1, <2>2
<1>16. ASSUME NEW j \in 0 .. 15 PROVE digit(p ^^ lo, j) = g[j]
    <2>1. digit(p ^^ lo, j) = (digit(p, j) + digit(lo, j)) % 2
        BY <1>1, <1>15, XorBits
    <2>2. CASE j \in 0 .. 7
        <3>1. digit(p, j) = 0 /\ g[j] = digit(lo, j)
            BY <1>5, <1>14, <2>2, HighByte
        <3>2. PICK a \in 0 .. 1 : a = digit(lo, j)
            BY <1>4
        <3>3. (0 + a) % 2 = a
            OBVIOUS
        <3> QED
            BY <2>1, <3>1, <3>2, <3>3
    <2>3. CASE j \in 8 .. 15
        <3>1. digit(p, j) = digit(hi, j - 8) /\ g[j] = digit(hi, j - 8) /\ j - 8 \in 0 .. 15
            BY <1>5, <1>14, <2>3, HighByte
        <3>2. digit(lo, j) = 0
            BY <1>1, <2>3, ByteDigits
        <3>3. PICK a \in 0 .. 1 : a = digit(hi, j - 8)
            BY <1>4, <3>1
        <3>4. (a + 0) % 2 = a
            OBVIOUS
        <3> QED
            BY <2>1, <3>1, <3>2, <3>3, <3>4
    <2> QED
        BY <2>2, <2>3
<1>17. p ^^ lo = Word(g)
    <2>1. \A j \in 0 .. 15 : digit(p ^^ lo, j) = digit(Word(g), j)
        BY <1>13, <1>16
    <2> QED
        BY <1>13, <1>15, <2>1, SameBits, Zenon
<1> QED
    BY <1>11, <1>12, <1>14, <1>17

\* The polynomial, where it is subtracted.
Poly(c) == IF c = 1 THEN 4129 ELSE 0

\* The register is shifted, and the polynomial subtracted or not.
LEMMA ShiftInXor ==
    ASSUME NEW r \in Words, NEW c \in 0 .. 1
    PROVE  /\ ShiftIn(r, c) = Shift(r) ^^ Poly((digit(r, 15) + c) % 2)
           /\ ShiftIn(r, c) \in Words
<1>1. r \in Nat /\ r < 65536
    BY DEF Words
<1>2. r \div 32768 \in 0 .. 1 /\ Power[15] = 32768
    BY <1>1 DEF Power
<1>3. PICK d \in 0 .. 1 : d = r \div 32768
    BY <1>2
<1>4. digit(r, 15) = d
    <2>1. d % 2 = d
        OBVIOUS
    <2> QED
        BY <1>2, <1>3, <2>1 DEF digit
<1>5. Shift(r) \in Words
    BY ShiftDigits
<1>6. Shift(r) ^^ 0 = Shift(r)
    BY <1>5, Group, Zenon
<1>7. 4129 \in Words
    BY DEF Words
<1>8. Shift(r) ^^ 4129 \in Words
    BY <1>5, <1>7, XorWord
<1>9. ShiftIn(r, c) = IF d # c THEN Shift(r) ^^ 4129 ELSE Shift(r)
    BY <1>3 DEF ShiftIn, Shift
<1>10. (d + c) % 2 = IF d # c THEN 1 ELSE 0
    OBVIOUS
<1>11. Poly((d + c) % 2) = IF d # c THEN 4129 ELSE 0
    BY <1>10 DEF Poly
<1> QED
    BY <1>4, <1>5, <1>6, <1>8, <1>9, <1>11

\* Whether to subtract the polynomial goes with the exclusive or, too.
LEMMA PolyXor ==
    ASSUME NEW a \in 0 .. 1, NEW b \in 0 .. 1
    PROVE  Poly((a + b) % 2) = Poly(a) ^^ Poly(b) /\ Poly(a) \in Words
<1>1. 4129 \in Words /\ 0 \in Words
    BY DEF Words
<1>2. 4129 ^^ 4129 = 0 /\ 4129 ^^ 0 = 4129 /\ 0 ^^ 4129 = 4129 /\ 0 ^^ 0 = 0
    BY DEF ^^
<1>3. (a + b) % 2 = IF a = b THEN 0 ELSE 1
    OBVIOUS
<1> QED
    BY <1>1, <1>2, <1>3 DEF Poly

\* Division is linear.
LEMMA Linear ==
    ASSUME NEW r \in Words, NEW s \in Words, NEW c \in 0 .. 1, NEW d \in 0 .. 1
    PROVE  ShiftIn(r ^^ s, (c + d) % 2) = ShiftIn(r, c) ^^ ShiftIn(s, d)
<1>1. r \in Nat /\ s \in Nat
    BY DEF Words
<1>2. r ^^ s \in Words /\ (c + d) % 2 \in 0 .. 1
    BY XorWord
<1>3. PICK u \in 0 .. 1, v \in 0 .. 1 : u = digit(r, 15) /\ v = digit(s, 15)
    BY <1>1, Digit
<1>4. digit(r ^^ s, 15) = (u + v) % 2
    BY <1>1, <1>3, XorBits
<1>5. (((u + v) % 2) + ((c + d) % 2)) % 2 = (((u + c) % 2) + ((v + d) % 2)) % 2
    OBVIOUS
<1>6. (u + c) % 2 \in 0 .. 1 /\ (v + d) % 2 \in 0 .. 1
    OBVIOUS
<1>7. PICK a \in 0 .. 1, b \in 0 .. 1 : a = (u + c) % 2 /\ b = (v + d) % 2
    BY <1>6
<1>8. ShiftIn(r ^^ s, (c + d) % 2) = Shift(r ^^ s) ^^ Poly((a + b) % 2)
    <2>1. PICK w \in Words, e \in 0 .. 1 : w = r ^^ s /\ e = (c + d) % 2
        BY <1>2, Zenon
    <2>2. ShiftIn(w, e) = Shift(w) ^^ Poly((digit(w, 15) + e) % 2)
        BY ShiftInXor, Zenon
    <2>3. (digit(w, 15) + e) % 2 = (a + b) % 2
        BY <1>4, <1>5, <1>7, <2>1
    <2> QED
        BY <2>1, <2>2, <2>3, Zenon
<1>9. ShiftIn(r, c) = Shift(r) ^^ Poly(a) /\ ShiftIn(s, d) = Shift(s) ^^ Poly(b)
    BY <1>3, <1>7, ShiftInXor, Zenon
<1>10. Shift(r ^^ s) = Shift(r) ^^ Shift(s) /\ Shift(r) \in Words /\ Shift(s) \in Words
    BY ShiftXor, ShiftDigits
<1>11. Poly((a + b) % 2) = Poly(a) ^^ Poly(b) /\ Poly(a) \in Words /\ Poly(b) \in Words
    BY PolyXor
<1> QED
    <2>1. (Shift(r) ^^ Shift(s)) ^^ (Poly(a) ^^ Poly(b))
              = (Shift(r) ^^ Poly(a)) ^^ (Shift(s) ^^ Poly(b))
        BY <1>10, <1>11, Interchange
    <2> QED
        BY <1>8, <1>9, <1>10, <1>11, <2>1

\* What a byte still to be shifted in does may wait in the high half of the register.
LEMMA Waiting ==
    ASSUME NEW r \in Words, NEW b \in Bytes
    PROVE  /\ b \div 128 \in 0 .. 1 /\ (2 * b) % 256 \in Bytes
           /\ ShiftIn(r ^^ (256 * b), 0) = ShiftIn(r, b \div 128) ^^ (256 * ((2 * b) % 256))
<1>1. b \in Nat /\ b < 256
    BY DEF Bytes
<1>2. b \div 128 \in 0 .. 1 /\ (2 * b) % 256 < 256 /\ (2 * b) % 256 \in Nat
    BY <1>1
<1>3. PICK c \in 0 .. 1, m \in Nat : c = b \div 128 /\ m = (2 * b) % 256 /\ m < 256
    BY <1>2
<1>4. 2 * b = 256 * c + m
    BY <1>1, <1>3
<1>5. PICK w \in Words : w = 256 * b /\ w \in Nat
    BY HighByte DEF Words
<1>6. w \div 32768 = c /\ Shift(w) = 256 * m
    <2>1. w = 32768 * c + 128 * m
        BY <1>4, <1>5, <1>1
    <2>2. 128 * m < 32768 /\ 128 * m \in Nat
        BY <1>3
    <2>3. 2 * w = 65536 * c + 256 * m
        BY <2>1
    <2>4. 256 * m \in Words
        BY <1>3 DEF Words
    <2> QED
        BY <2>1, <2>2, <2>3, <2>4, ShiftOut
<1>7. ShiftIn(w, c) = 256 * m
    BY <1>6 DEF ShiftIn, Shift
<1>8. (c + c) % 2 = 0
    OBVIOUS
<1>9. ShiftIn(r ^^ w, (c + c) % 2) = ShiftIn(r, c) ^^ ShiftIn(w, c)
    BY Linear
<1> QED
    BY <1>2, <1>3, <1>5, <1>7, <1>8, <1>9 DEF Bytes

\* Eight zeros shifted in.
Zeros(r) ==
    ShiftIn(ShiftIn(ShiftIn(ShiftIn(
        ShiftIn(ShiftIn(ShiftIn(ShiftIn(r, 0), 0), 0), 0), 0), 0), 0), 0)

\* The same for zeros that are shifted in.
LEMMA OneZero == \A r \in Words : ShiftIn(r, 0) \in Words
BY ShiftInXor

LEMMA OneZeroLinear == \A r, s \in Words : ShiftIn(r ^^ s, 0) = ShiftIn(r, 0) ^^ ShiftIn(s, 0)
<1>1. (0 + 0) % 2 = 0
    OBVIOUS
<1> QED
    BY <1>1, Linear

\* The same for a whole byte of zeros.
LEMMA ZerosLinear ==
    ASSUME NEW r \in Words, NEW s \in Words
    PROVE  Zeros(r ^^ s) = Zeros(r) ^^ Zeros(s) /\ Zeros(r) \in Words
<1> DEFINE S(w) == ShiftIn(w, 0)
<1>1. \A w \in Words : S(w) \in Words
    BY OneZero
<1>2. \A v, w \in Words : S(v ^^ w) = S(v) ^^ S(w)
    BY OneZeroLinear
<1>3. Zeros(r ^^ s) = S(S(S(S(S(S(S(S(r ^^ s)))))))) /\ Zeros(r) = S(S(S(S(S(S(S(S(r))))))))
      /\ Zeros(s) = S(S(S(S(S(S(S(S(s))))))))
    BY DEF Zeros
<1> HIDE DEF S
<1> DEFINE S2(w) == S(S(w))
<1>4. \A w \in Words : S2(w) \in Words
    BY <1>1
<1>5. \A v, w \in Words : S2(v ^^ w) = S2(v) ^^ S2(w)
    BY <1>1, <1>2
<1>6. Zeros(r ^^ s) = S2(S2(S2(S2(r ^^ s)))) /\ Zeros(r) = S2(S2(S2(S2(r))))
      /\ Zeros(s) = S2(S2(S2(S2(s))))
    BY <1>3
<1> HIDE DEF S2
<1> DEFINE S4(w) == S2(S2(w))
<1>7. \A w \in Words : S4(w) \in Words
    BY <1>4
<1>8. \A v, w \in Words : S4(v ^^ w) = S4(v) ^^ S4(w)
    BY <1>4, <1>5
<1>9. Zeros(r ^^ s) = S4(S4(r ^^ s)) /\ Zeros(r) = S4(S4(r)) /\ Zeros(s) = S4(S4(s))
    BY <1>6
<1> HIDE DEF S4
<1> QED
    BY <1>7, <1>8, <1>9

\* Below the bits of the polynomial, shifting is doubling.
LEMMA ZerosLow ==
    ASSUME NEW lo \in Bytes
    PROVE  Zeros(lo) = 256 * lo
<1>1. \A n \in Nat : n < 32768 => ShiftIn(n, 0) = 2 * n
    BY DEF ShiftIn
<1>2. lo \in Nat /\ lo < 256
    BY DEF Bytes
<1>3. ShiftIn(lo, 0) = 2 * lo /\ ShiftIn(2 * lo, 0) = 4 * lo
      /\ ShiftIn(4 * lo, 0) = 8 * lo /\ ShiftIn(8 * lo, 0) = 16 * lo
      /\ ShiftIn(16 * lo, 0) = 32 * lo /\ ShiftIn(32 * lo, 0) = 64 * lo
      /\ ShiftIn(64 * lo, 0) = 128 * lo /\ ShiftIn(128 * lo, 0) = 256 * lo
    BY <1>1, <1>2
<1> QED
    BY <1>3 DEF Zeros

\* A single bit leaves the polynomial.
LEMMA ZerosOne == Zeros(256) = 4129
<1>1. ShiftIn(256, 0) = 512 /\ ShiftIn(512, 0) = 1024 /\ ShiftIn(1024, 0) = 2048
      /\ ShiftIn(2048, 0) = 4096 /\ ShiftIn(4096, 0) = 8192 /\ ShiftIn(8192, 0) = 16384
      /\ ShiftIn(16384, 0) = 32768
    BY DEF ShiftIn
<1>2. ShiftIn(32768, 0) = 0 ^^ 4129
    BY DEF ShiftIn
<1>3. 0 ^^ 4129 = 4129
    BY DEF ^^
<1> QED
    BY <1>1, <1>2, <1>3 DEF Zeros

\* The table holds the remainders of the bytes.
LEMMA TableOK ==
    ASSUME NEW x \in Bytes
    PROVE  crc16tab[x + 1] = Zeros(256 * x)
<1> DEFINE Bad == {n \in Bytes : crc16tab[n + 1] # Zeros(256 * n)}
<1>1. Bad \in SUBSET Nat
    BY DEF Bytes
<1> SUFFICES ASSUME Bad # {} PROVE FALSE
    OBVIOUS
<1>2. PICK n \in Bad : \A m \in Bad : n <= m
    <2> HIDE DEF Bad
    <2> QED
        BY <1>1, Smallest
<1>3. n \in Nat /\ n < 256 /\ n \in Bytes
    BY <1>2 DEF Bytes
<1>4. \A m \in Nat : m < n => m \in Bytes /\ crc16tab[m + 1] = Zeros(256 * m)
    <2> SUFFICES ASSUME NEW m \in Nat, m < n PROVE m \in Bytes /\ crc16tab[m + 1] = Zeros(256 * m)
        OBVIOUS
    <2>1. m \in Bytes
        BY <1>3 DEF Bytes
    <2>2. m \notin Bad
        BY <1>2, <1>3
    <2> QED
        BY <2>1, <2>2
<1> DEFINE y == n \div 2
<1>5. y \in 0 .. 127 /\ y \in Nat /\ y < 128 /\ (n = 2 * y \/ n = 2 * y + 1)
    BY <1>3
<1> HIDE DEF y
<1>6. crc16tab[n + 1] # Zeros(256 * n)
    BY <1>2
<1> HIDE DEF Bad
<1>7. CASE n = 0
    <2>1. 0 \in Bytes /\ 256 * 0 = 0
        BY DEF Bytes
    <2>2. Zeros(0) = 0
        BY <2>1, ZerosLow
    <2> QED
        BY <1>6, <1>7, <2>1, <2>2, TableZero
<1>8. CASE n = 2 * y /\ n # 0
    <2>1. y < n
        BY <1>5, <1>8
    <2>2. crc16tab[y + 1] = Zeros(256 * y)
        BY <1>4, <1>5, <2>1
    <2>3. crc16tab[n + 1] = ShiftIn(Zeros(256 * y), 0)
        BY <1>5, <1>8, <2>2, TableEven
    <2>4. ShiftIn(256 * y, 0) = 256 * n
        BY <1>5, <1>8 DEF ShiftIn
    <2>5. ShiftIn(Zeros(256 * y), 0) = Zeros(ShiftIn(256 * y, 0))
        BY Zenon DEF Zeros
    <2> QED
        BY <1>6, <2>3, <2>4, <2>5
<1>9. CASE n = 2 * y + 1
    <2>1. 2 * y \in Nat /\ 2 * y < n /\ 2 * y \in Bytes /\ 1 \in Bytes /\ 256 * 1 = 256
        BY <1>5, <1>9 DEF Bytes
    <2>2. PICK z \in Bytes : z = 2 * y
        BY <2>1
    <2>3. crc16tab[n + 1] = crc16tab[z + 1] ^^ 4129
        BY <1>5, <1>9, <2>2, TableOdd
    <2>4. crc16tab[z + 1] = Zeros(256 * z)
        BY <1>4, <2>1, <2>2
    <2>5. 256 * z \in Words /\ 256 \in Words
        BY <2>1, HighByte
    <2>6. Zeros((256 * z) ^^ 256) = Zeros(256 * z) ^^ 4129
        BY <2>5, ZerosLinear, ZerosOne
    <2>7. (256 * z) ^^ 256 = 256 * (z ^^ 1)
        BY <2>1, HighBytes
    <2>8. z ^^ 1 = n
        BY <1>5, <1>9, <2>2, EvenOdd
    <2> QED
        BY <1>6, <2>3, <2>4, <2>6, <2>7, <2>8
<1> QED
    BY <1>5, <1>7, <1>8, <1>9

\* The bits of a byte, shifted in one by one.
Eight(r, b) ==
    ShiftIn(ShiftIn(ShiftIn(ShiftIn(ShiftIn(ShiftIn(ShiftIn(ShiftIn(r,
        (b \div 128) % 2), (b \div 64) % 2), (b \div 32) % 2), (b \div 16) % 2),
        (b \div 8) % 2), (b \div 4) % 2), (b \div 2) % 2), (b \div 1) % 2)

\* One bit of the byte shifted in, the others left waiting in the upper half.
LEMMA NextBit ==
    ASSUME NEW r \in Words, NEW b \in Bytes, NEW c, NEW m, c = b \div 128, m = (2 * b) % 256
    PROVE  /\ m \in Bytes /\ ShiftIn(r, c) \in Words
           /\ ShiftIn(r ^^ (256 * b), 0) = ShiftIn(r, c) ^^ (256 * m)
BY Waiting, ShiftInXor

\* The bits of a byte are the highest ones of what is left of it.
LEMMA BitsOfByte ==
    ASSUME NEW b \in Bytes
    PROVE  /\ (b \div 128) % 2 = b \div 128
           /\ (b \div 64) % 2 = ((2 * b) % 256) \div 128
           /\ (b \div 32) % 2 = ((4 * b) % 256) \div 128
           /\ (b \div 16) % 2 = ((8 * b) % 256) \div 128
           /\ (b \div 8) % 2 = ((16 * b) % 256) \div 128
           /\ (b \div 4) % 2 = ((32 * b) % 256) \div 128
           /\ (b \div 2) % 2 = ((64 * b) % 256) \div 128
           /\ (b \div 1) % 2 = ((128 * b) % 256) \div 128
<1>1. b \in Nat /\ b < 256
    BY DEF Bytes
<1>2. (b \div 128) % 2 = b \div 128
    BY <1>1
<1>3. (b \div 64) % 2 = ((2 * b) % 256) \div 128
    BY <1>1
<1>4. (b \div 32) % 2 = ((4 * b) % 256) \div 128
    BY <1>1
<1>5. (b \div 16) % 2 = ((8 * b) % 256) \div 128
    BY <1>1
<1>6. (b \div 8) % 2 = ((16 * b) % 256) \div 128
    BY <1>1
<1>7. (b \div 4) % 2 = ((32 * b) % 256) \div 128
    BY <1>1
<1>8. (b \div 2) % 2 = ((64 * b) % 256) \div 128
    BY <1>1
<1>9. (b \div 1) % 2 = ((128 * b) % 256) \div 128
    BY <1>1
<1> QED
    BY <1>2, <1>3, <1>4, <1>5, <1>6, <1>7, <1>8, <1>9

\* The same, from the bits that are left at each step.
LEMMA EightBits ==
    ASSUME NEW r \in Words, NEW b \in Bytes
    PROVE  Eight(r, b) = Zeros(r ^^ (256 * b)) /\ Eight(r, b) \in Words
<1> DEFINE m1 == (2 * b) % 256
           m2 == (4 * b) % 256
           m3 == (8 * b) % 256
           m4 == (16 * b) % 256
           m5 == (32 * b) % 256
           m6 == (64 * b) % 256
           m7 == (128 * b) % 256
           c0 == (b \div 128) % 2
           c1 == (b \div 64) % 2
           c2 == (b \div 32) % 2
           c3 == (b \div 16) % 2
           c4 == (b \div 8) % 2
           c5 == (b \div 4) % 2
           c6 == (b \div 2) % 2
           c7 == (b \div 1) % 2
<1>1. b \in Nat /\ b < 256
    BY DEF Bytes
<1>2. /\ c0 = b \div 128 /\ c1 = m1 \div 128 /\ c2 = m2 \div 128 /\ c3 = m3 \div 128
      /\ c4 = m4 \div 128 /\ c5 = m5 \div 128 /\ c6 = m6 \div 128 /\ c7 = m7 \div 128
    BY BitsOfByte
<1>3. /\ m2 = (2 * m1) % 256 /\ m3 = (2 * m2) % 256 /\ m4 = (2 * m3) % 256
      /\ m5 = (2 * m4) % 256
    BY <1>1
<1>4. m6 = (2 * m5) % 256 /\ m7 = (2 * m6) % 256 /\ 0 = (2 * m7) % 256
    BY <1>1
<1> DEFINE w1 == ShiftIn(r, c0)
           w2 == ShiftIn(w1, c1)
           w3 == ShiftIn(w2, c2)
           w4 == ShiftIn(w3, c3)
           w5 == ShiftIn(w4, c4)
           w6 == ShiftIn(w5, c5)
           w7 == ShiftIn(w6, c6)
           w8 == ShiftIn(w7, c7)
<1>5. Eight(r, b) = w8
    BY Zenon DEF Eight
<1> HIDE DEF m1, m2, m3, m4, m5, m6, m7, c0, c1, c2, c3, c4, c5, c6, c7
<1>6. m1 \in Bytes /\ w1 \in Words /\ ShiftIn(r ^^ (256 * b), 0) = w1 ^^ (256 * m1)
    BY <1>2, NextBit DEF m1
<1> HIDE DEF w1
<1>7. m2 \in Bytes /\ w2 \in Words /\ ShiftIn(w1 ^^ (256 * m1), 0) = w2 ^^ (256 * m2)
    BY <1>2, <1>3, <1>6, NextBit
<1> HIDE DEF w2
<1>8. m3 \in Bytes /\ w3 \in Words /\ ShiftIn(w2 ^^ (256 * m2), 0) = w3 ^^ (256 * m3)
    BY <1>2, <1>3, <1>7, NextBit
<1> HIDE DEF w3
<1>9. m4 \in Bytes /\ w4 \in Words /\ ShiftIn(w3 ^^ (256 * m3), 0) = w4 ^^ (256 * m4)
    BY <1>2, <1>3, <1>8, NextBit
<1> HIDE DEF w4
<1>10. m5 \in Bytes /\ w5 \in Words /\ ShiftIn(w4 ^^ (256 * m4), 0) = w5 ^^ (256 * m5)
    BY <1>2, <1>3, <1>9, NextBit
<1> HIDE DEF w5
<1>11. m6 \in Bytes /\ w6 \in Words /\ ShiftIn(w5 ^^ (256 * m5), 0) = w6 ^^ (256 * m6)
    BY <1>2, <1>4, <1>10, NextBit
<1> HIDE DEF w6
<1>12. m7 \in Bytes /\ w7 \in Words /\ ShiftIn(w6 ^^ (256 * m6), 0) = w7 ^^ (256 * m7)
    BY <1>2, <1>4, <1>11, NextBit
<1> HIDE DEF w7
<1>13. w8 \in Words /\ ShiftIn(w7 ^^ (256 * m7), 0) = w8 ^^ (256 * 0)
    BY <1>2, <1>4, <1>12, NextBit
<1> HIDE DEF w8
<1>14. 256 * 0 = 0
    OBVIOUS
<1>15. w8 ^^ 0 = w8
    BY <1>13, Group
<1>16. Zeros(r ^^ (256 * b)) = w8
    BY <1>6, <1>7, <1>8, <1>9, <1>10, <1>11, <1>12, <1>13, <1>14, <1>15 DEF Zeros
<1> QED
    BY <1>5, <1>13, <1>16

\* One turn of the loop of crc16 is eight of the division.
LEMMA StepIsEight ==
    ASSUME NEW r \in Words, NEW b \in Bytes
    PROVE  crc16step(r, b) = Eight(r, b) /\ Eight(r, b) \in Words
<1>1. PICK hi \in Nat, lo \in Nat : hi = r \div 256 /\ lo = r % 256 /\ hi < 256 /\ lo < 256
                                     /\ r = 256 * hi + lo
    BY DEF Words
<1>2. hi \in Bytes /\ lo \in Bytes
    BY <1>1 DEF Bytes
<1>3. (r * 256) % 65536 = 256 * lo
    BY <1>1
<1>4. hi ^^ b \in Bytes /\ (256 * hi) ^^ (256 * b) = 256 * (hi ^^ b)
    BY <1>2, HighBytes
<1>5. PICK x \in Bytes : x = hi ^^ b
    BY <1>4
<1>6. crc16step(r, b) = (256 * lo) ^^ crc16tab[x + 1]
    BY <1>1, <1>3, <1>5 DEF crc16step
<1>7. PICK B \in Words, L \in Words, H \in Words, X \in Words :
          B = 256 * b /\ L = lo /\ H = 256 * hi /\ X = 256 * x
    BY <1>2, HighByte DEF Words, Bytes
<1>8. r = H ^^ L
    BY <1>1, <1>2, <1>7, HighAndLow
<1>9. H ^^ B = X
    BY <1>4, <1>5, <1>7
<1>10. r ^^ B = X ^^ L
    <2>1. (H ^^ L) ^^ B = H ^^ (L ^^ B)
        BY Associates
    <2>2. L ^^ B = B ^^ L
        BY Commutes
    <2>3. (H ^^ B) ^^ L = H ^^ (B ^^ L)
        BY Associates
    <2> QED
        BY <1>8, <1>9, <2>1, <2>2, <2>3
<1>11. Zeros(X ^^ L) = Zeros(X) ^^ Zeros(L) /\ Zeros(X) \in Words /\ Zeros(L) \in Words
    BY ZerosLinear
<1>12. Zeros(L) = 256 * lo
    BY <1>2, <1>7, ZerosLow
<1>13. Zeros(X) = crc16tab[x + 1]
    BY <1>7, TableOK
<1>14. Zeros(X) ^^ Zeros(L) = Zeros(L) ^^ Zeros(X)
    BY <1>11, Commutes
<1> QED
    BY <1>6, <1>7, <1>10, <1>11, <1>12, <1>13, <1>14, EightBits

\* The words after each byte, and after each bit.
AfterBytes(l_crc, data, crc) ==
    crc = [n \in 0 .. Len(data) |-> IF n = 0 THEN l_crc ELSE crc16step(crc[n - 1], data[n])]

AfterBits(data, register) ==
    register = [i \in 0 .. 8 * Len(data) |->
                   IF i = 0 THEN 65535 ELSE ShiftIn(register[i - 1], Bit(data, i))]

\* The loop of crc16 runs through words.
LEMMA BytesRun ==
    ASSUME NEW l_crc \in Words, NEW data \in Seq(Bytes)
    PROVE  \E crc : /\ crc \in [0 .. Len(data) -> Words]
                    /\ crc[0] = l_crc
                    /\ \A n \in 1 .. Len(data) : crc[n] = crc16step(crc[n - 1], data[n])
                    /\ crc16(l_crc, data) = crc[Len(data)]
<1> DEFINE N == Len(data)
           step == [n \in 1 .. N |-> [w \in Words |-> crc16step(w, data[n])]]
           crc == CHOOSE c : AfterBytes(l_crc, data, c)
<1>1. \A n \in 1 .. N : data[n] \in Bytes
    OBVIOUS
<1>2. \A n \in 1 .. N, w \in Words : crc16step(w, data[n]) \in Words
    BY <1>1, StepIsEight
<1>3. StepsWithin(step, N, Words) /\ N \in Nat
    BY <1>2 DEF StepsWithin
<1>4. PICK g : Follows(g, N, Words, l_crc, step)
    <2> HIDE DEF step, N
    <2> QED
        BY <1>3, Recursion
<1>5. g \in [0 .. N -> Words] /\ g[0] = l_crc
    BY <1>4 DEF Follows
<1>6. \A n \in 1 .. N : g[n] = crc16step(g[n - 1], data[n])
    <2> SUFFICES ASSUME NEW n \in 1 .. N PROVE g[n] = crc16step(g[n - 1], data[n])
        OBVIOUS
    <2>1. n - 1 \in 0 .. N
        OBVIOUS
    <2>2. g[n - 1] \in Words
        BY <1>5, <2>1
    <2>3. step[n][g[n - 1]] = crc16step(g[n - 1], data[n])
        BY <2>2
    <2> HIDE DEF step
    <2> QED
        BY <1>4, <2>3 DEF Follows
<1>7. AfterBytes(l_crc, data, g)
    BY <1>5, <1>6 DEF AfterBytes
<1>8. AfterBytes(l_crc, data, crc)
    BY <1>7
<1>9. crc16(l_crc, data) = crc[N]
    BY DEF crc16, AfterBytes
<1> HIDE DEF crc
<1>10. \A n \in 0 .. N : crc[n] = IF n = 0 THEN l_crc ELSE crc16step(crc[n - 1], data[n])
    BY <1>8 DEF AfterBytes
<1>11. \A n \in 0 .. N : crc[n] = g[n]
    <2> DEFINE P == {n \in 0 .. N : crc[n] = g[n]}
    <2>1. 0 \in P
        BY <1>3, <1>5, <1>10
    <2>2. ASSUME NEW n \in 0 .. N - 1, n \in P PROVE n + 1 \in P
        BY <1>3, <1>6, <1>10, <2>2
    <2>3. N \in Nat
        BY <1>3
    <2>4. \A n \in 0 .. N : n \in P
        <3> HIDE DEF P, N
        <3> QED
            BY <2>1, <2>2, <2>3, Induction
    <2> QED
        BY <2>4
<1>12. crc = [n \in 0 .. N |-> IF n = 0 THEN l_crc ELSE crc16step(crc[n - 1], data[n])]
    BY <1>8 DEF AfterBytes
<1>13. crc \in [0 .. N -> Words]
    BY <1>5, <1>11, <1>12
<1> QED
    BY <1>3, <1>5, <1>6, <1>9, <1>11

\* Bit i is a bit of byte (i + 7) div 8.
LEMMA BitsOfData ==
    ASSUME NEW data, NEW n \in Nat \ {0}
    PROVE  /\ Bit(data, 8 * n - 7) = (data[n] \div 128) % 2
           /\ Bit(data, 8 * n - 6) = (data[n] \div 64) % 2
           /\ Bit(data, 8 * n - 5) = (data[n] \div 32) % 2
           /\ Bit(data, 8 * n - 4) = (data[n] \div 16) % 2
           /\ Bit(data, 8 * n - 3) = (data[n] \div 8) % 2
           /\ Bit(data, 8 * n - 2) = (data[n] \div 4) % 2
           /\ Bit(data, 8 * n - 1) = (data[n] \div 2) % 2
           /\ Bit(data, 8 * n) = (data[n] \div 1) % 2
<1>1. ASSUME NEW k \in 0 .. 7
      PROVE  (8 * n - k + 7) \div 8 = n /\ (8 * n - k - 1) % 8 = 7 - k
    BY <1>1
<1>2. ASSUME NEW k \in 0 .. 7
      PROVE  Bit(data, 8 * n - k) = (data[n] \div <<1, 2, 4, 8, 16, 32, 64, 128>>[k + 1]) % 2
    <2>1. (8 * n - k + 7) \div 8 = n /\ (8 * n - k - 1) % 8 = 7 - k
        BY <1>1
    <2>2. <<128, 64, 32, 16, 8, 4, 2, 1>>[(7 - k) + 1] = <<1, 2, 4, 8, 16, 32, 64, 128>>[k + 1]
        OBVIOUS
    <2> QED
        BY <2>1, <2>2 DEF Bit
<1>3. 8 * n - 0 = 8 * n
    OBVIOUS
<1> QED
    BY <1>2, <1>3

\* Whatever a bit is taken from, a bit is shifted in within the words.
LEMMA ShiftInWord == \A r \in Words, c \in 0 .. 1 : ShiftIn(r, c) \in Words
BY ShiftInXor

\* A bit is 0 or 1.
LEMMA BitOK ==
    ASSUME NEW data \in Seq(Bytes), NEW i \in 1 .. 8 * Len(data)
    PROVE  Bit(data, i) \in 0 .. 1
<1>1. Len(data) \in Nat /\ i \in Int /\ 1 <= i /\ i <= 8 * Len(data)
    OBVIOUS
<1>2. (i + 7) \div 8 \in 1 .. Len(data)
    BY <1>1
<1>3. PICK b \in Nat : b = data[(i + 7) \div 8]
    BY <1>2 DEF Bytes
<1>4. (i - 1) % 8 \in 0 .. 7
    BY <1>1
<1>5. PICK k \in Nat \ {0} : k = <<128, 64, 32, 16, 8, 4, 2, 1>>[((i - 1) % 8) + 1]
    BY <1>4
<1>6. b \div k \in Nat
    BY HalfQuotient, Zenon
<1>7. (b \div k) % 2 \in 0 .. 1
    BY <1>6
<1> QED
    BY <1>3, <1>5, <1>7 DEF Bit

\* The division, bit by bit, runs through words.
LEMMA BitsRun ==
    ASSUME NEW data \in Seq(Bytes)
    PROVE  \E register :
               /\ register \in [0 .. 8 * Len(data) -> Words]
               /\ register[0] = 65535
               /\ \A i \in 1 .. 8 * Len(data) : register[i] = ShiftIn(register[i - 1], Bit(data, i))
               /\ Remainder(data) = register[8 * Len(data)]
<1> DEFINE N == 8 * Len(data)
           step == [i \in 1 .. N |-> [w \in Words |-> ShiftIn(w, Bit(data, i))]]
           register == CHOOSE r : AfterBits(data, r)
<1>1. \A i \in 1 .. N : Bit(data, i) \in 0 .. 1
    BY BitOK
<1>2. \A i \in 1 .. N, w \in Words : ShiftIn(w, Bit(data, i)) \in Words
    BY <1>1, ShiftInWord
<1>3. StepsWithin(step, N, Words) /\ N \in Nat /\ 65535 \in Words
    BY <1>2 DEF StepsWithin, Words
<1>4. PICK g : Follows(g, N, Words, 65535, step)
    <2> HIDE DEF step, N
    <2> QED
        BY <1>3, Recursion
<1>5. g \in [0 .. N -> Words] /\ g[0] = 65535
    BY <1>4 DEF Follows
<1>6. \A i \in 1 .. N : g[i] = ShiftIn(g[i - 1], Bit(data, i))
    <2> SUFFICES ASSUME NEW i \in 1 .. N PROVE g[i] = ShiftIn(g[i - 1], Bit(data, i))
        OBVIOUS
    <2>1. i - 1 \in 0 .. N
        OBVIOUS
    <2>2. g[i - 1] \in Words
        BY <1>5, <2>1
    <2> QED
        BY <1>4, <2>2 DEF Follows
<1>7. AfterBits(data, g)
    BY <1>5, <1>6 DEF AfterBits
<1>8. AfterBits(data, register)
    BY <1>7
<1>9. Remainder(data) = register[N]
    BY DEF Remainder, AfterBits
<1> HIDE DEF register
<1>10. \A i \in 0 .. N :
           register[i] = IF i = 0 THEN 65535 ELSE ShiftIn(register[i - 1], Bit(data, i))
    BY <1>8, SMTT(30) DEF AfterBits
<1>11. \A i \in 0 .. N : register[i] = g[i]
    <2> DEFINE P == {i \in 0 .. N : register[i] = g[i]}
    <2>1. 0 \in P
        BY <1>3, <1>5, <1>10
    <2>2. ASSUME NEW n \in 0 .. N - 1, n \in P PROVE n + 1 \in P
        BY <1>3, <1>6, <1>10, <2>2
    <2>3. N \in Nat
        BY <1>3
    <2>4. \A n \in 0 .. N : n \in P
        <3> HIDE DEF P, N
        <3> QED
            BY <2>1, <2>2, <2>3, Induction
    <2> QED
        BY <2>4
<1>12. N \in 0 .. N
    BY <1>3
<1>13. Remainder(data) = g[N]
    BY <1>9, <1>11, <1>12, Zenon
<1> WITNESS g
<1> QED
    BY <1>5, <1>6, <1>13

\* The loop over the table is the division, bit by bit.
LEMMA LoopIsDivision ==
    ASSUME NEW data \in Seq(Bytes)
    PROVE  crc16(65535, data) = Remainder(data) /\ Remainder(data) \in Words
<1>1. Len(data) \in Nat /\ 65535 \in Words
    BY DEF Words
<1>2. PICK crc : /\ crc \in [0 .. Len(data) -> Words]
                 /\ crc[0] = 65535
                 /\ \A n \in 1 .. Len(data) : crc[n] = crc16step(crc[n - 1], data[n])
                 /\ crc16(65535, data) = crc[Len(data)]
    BY <1>1, BytesRun
<1>3. PICK register :
               /\ register \in [0 .. 8 * Len(data) -> Words]
               /\ register[0] = 65535
               /\ \A i \in 1 .. 8 * Len(data) : register[i] = ShiftIn(register[i - 1], Bit(data, i))
               /\ Remainder(data) = register[8 * Len(data)]
    BY BitsRun
<1>4. ASSUME NEW n \in 1 .. Len(data)
      PROVE  register[8 * n] = Eight(register[8 * (n - 1)], data[n])
    <2>1. ASSUME NEW k \in 0 .. 7
          PROVE  register[8 * n - k] = ShiftIn(register[8 * n - k - 1], Bit(data, 8 * n - k))
        BY <1>1, <1>3
    <2>2. /\ register[8 * n] = ShiftIn(register[8 * n - 1], Bit(data, 8 * n))
          /\ register[8 * n - 1] = ShiftIn(register[8 * n - 2], Bit(data, 8 * n - 1))
          /\ register[8 * n - 2] = ShiftIn(register[8 * n - 3], Bit(data, 8 * n - 2))
          /\ register[8 * n - 3] = ShiftIn(register[8 * n - 4], Bit(data, 8 * n - 3))
          /\ register[8 * n - 4] = ShiftIn(register[8 * n - 5], Bit(data, 8 * n - 4))
          /\ register[8 * n - 5] = ShiftIn(register[8 * n - 6], Bit(data, 8 * n - 5))
          /\ register[8 * n - 6] = ShiftIn(register[8 * n - 7], Bit(data, 8 * n - 6))
          /\ register[8 * n - 7] = ShiftIn(register[8 * n - 8], Bit(data, 8 * n - 7))
        BY <2>1
    <2>3. 8 * n - 8 = 8 * (n - 1)
        OBVIOUS
    <2>4. n \in Nat \ {0}
        BY <1>1
    <2>5. /\ Bit(data, 8 * n - 7) = (data[n] \div 128) % 2
          /\ Bit(data, 8 * n - 6) = (data[n] \div 64) % 2
          /\ Bit(data, 8 * n - 5) = (data[n] \div 32) % 2
          /\ Bit(data, 8 * n - 4) = (data[n] \div 16) % 2
          /\ Bit(data, 8 * n - 3) = (data[n] \div 8) % 2
          /\ Bit(data, 8 * n - 2) = (data[n] \div 4) % 2
          /\ Bit(data, 8 * n - 1) = (data[n] \div 2) % 2
          /\ Bit(data, 8 * n) = (data[n] \div 1) % 2
        BY <2>4, BitsOfData
    <2> QED
        BY <2>2, <2>3, <2>5 DEF Eight
<1>5. \A n \in 0 .. Len(data) : register[8 * n] = crc[n]
    <2> DEFINE P == {n \in 0 .. Len(data) : register[8 * n] = crc[n]}
    <2>1. 0 \in P
        BY <1>1, <1>2, <1>3
    <2>2. ASSUME NEW n \in 0 .. Len(data) - 1, n \in P PROVE n + 1 \in P
        <3>1. n + 1 \in 1 .. Len(data) /\ (n + 1) - 1 = n
            BY <1>1
        <3>2. register[8 * (n + 1)] = Eight(crc[n], data[n + 1])
            BY <1>4, <2>2, <3>1
        <3>3. crc[n] \in Words /\ data[n + 1] \in Bytes
            BY <1>1, <1>2, <3>1
        <3>4. crc[n + 1] = crc16step(crc[n], data[n + 1])
            BY <1>2, <3>1
        <3> QED
            BY <3>1, <3>2, <3>3, <3>4, StepIsEight
    <2>3. Len(data) \in Nat
        OBVIOUS
    <2>4. \A n \in 0 .. Len(data) : n \in P
        <3> HIDE DEF P
        <3> QED
            BY <2>1, <2>2, <2>3, Induction
    <2> QED
        BY <2>4
<1>6. register[8 * Len(data)] = crc[Len(data)]
    BY <1>1, <1>5
<1> QED
    BY <1>1, <1>2, <1>3, <1>6

\* A sequence with two elements added.
LEMMA TwoMore ==
    ASSUME NEW s \in Seq(Nat), NEW a \in Nat, NEW b \in Nat, NEW t, t = s \o <<a, b>>
    PROVE  /\ Len(t) = Len(s) + 2 /\ Len(s) \in Nat
           /\ t[Len(s) + 1] = a /\ t[Len(s) + 2] = b
           /\ SubSeq(t, 1, Len(s)) = s
<1>1. Len(<<a, b>>) = 2 /\ <<a, b>> \in Seq(Nat) /\ <<a, b>>[1] = a /\ <<a, b>>[2] = b
    OBVIOUS
<1> DEFINE u == <<a, b>>
<1> HIDE DEF u
<1>2. t \in Seq(Nat) /\ Len(t) = Len(s) + 2 /\ Len(s) \in Nat
    BY <1>1 DEF u
<1>3. t[Len(s) + 1] = a
    BY <1>1, <1>2 DEF u
<1>4. t[Len(s) + 2] = b
    BY <1>1, <1>2 DEF u
<1>5. \A i \in 1 .. Len(s) : t[i] = s[i]
    BY <1>1, <1>2 DEF u
<1>6. SubSeq(t, 1, Len(s)) = s
    BY <1>2, <1>5
<1> QED
    BY <1>2, <1>3, <1>4, <1>6

\* What is appended, and what is checked, for a given text.
LEMMA AppendedCRC ==
    ASSUME NEW data, NEW c, c = 65535 - crc16(65535, data)
    PROVE  AppendCRC(data) = data \o <<c \div 256, c % 256>>
BY DEF AppendCRC

LEMMA CheckedCRC ==
    ASSUME NEW dg, NEW n, NEW text, Len(dg) - 2 = n, SubSeq(dg, 1, n) = text,
           65535 - Remainder(text) = 256 * dg[n + 1] + dg[n + 2]
    PROVE  CheckCRC(dg)
<1> DEFINE k == Len(dg) - 2
           part == SubSeq(dg, 1, k)
           sum == 256 * dg[k + 1] + dg[k + 2]
           rest == 65535 - Remainder(part)
<1>1. CheckCRC(dg) <=> rest = sum
    BY SMT DEF CheckCRC
<1>2. k = n
    OBVIOUS
<1> HIDE DEF k
<1>3. part = text
    BY <1>2
<1> HIDE DEF part
<1>4. rest = 256 * dg[n + 1] + dg[n + 2]
    BY <1>3
<1>5. sum = 256 * dg[n + 1] + dg[n + 2]
    BY <1>2
<1> HIDE DEF sum, rest
<1> QED
    BY <1>1, <1>4, <1>5

\* What a receiver makes of a text with its CRC.
LEMMA ReceiverAccepts ==
    ASSUME NEW data \in Seq(Bytes)
    PROVE  CheckCRC(AppendCRC(data))
<1>1. PICK w \in Nat : w = Remainder(data) /\ w < 65536 /\ crc16(65535, data) = w
    BY LoopIsDivision DEF Words
<1>2. PICK c \in Nat : c = 65535 - w
    BY <1>1
<1>3. PICK hi \in Int, lo \in Int : hi = c \div 256 /\ lo = c % 256
    OBVIOUS
<1>4. c = 256 * hi + lo /\ hi \in Nat /\ lo \in Nat
    BY <1>3
<1>5. c = 65535 - crc16(65535, data)
    BY <1>1, <1>2
<1>6. AppendCRC(data) = data \o <<hi, lo>>
    BY <1>3, <1>5, AppendedCRC, SMTT(30)
<1> DEFINE dg == data \o <<hi, lo>>
           n == Len(data)
<1>7. data \in Seq(Nat)
    BY DEF Bytes
<1>8. Len(dg) = n + 2 /\ n \in Nat /\ dg[n + 1] = hi /\ dg[n + 2] = lo /\ SubSeq(dg, 1, n) = data
    BY <1>4, <1>7, TwoMore
<1> HIDE DEF dg, n
<1>9. Len(dg) - 2 = n
    BY <1>8
<1>10. 65535 - Remainder(data) = 256 * dg[n + 1] + dg[n + 2]
    BY <1>1, <1>2, <1>4, <1>8
<1>11. CheckCRC(dg)
    BY <1>8, <1>9, <1>10, CheckedCRC
<1>12. AppendCRC(data) = dg
    BY <1>6 DEF dg
<1> QED
    BY <1>11, <1>12

-----------------------------------------------------------------------------
(***************************************************************************)
(* Characters, in the table and in a line.                                 *)
(***************************************************************************)
-----------------------------------------------------------------------------
\* Where a character is found in the table, it is at the index that is sent.
LEMMA CharacterOrBlank ==
    ASSUME NEW cp
    PROVE  IF Contains(m_conversion_table, cp)
           THEN ebu_char(cp) \in 1 .. 255 /\ m_conversion_table[ebu_char(cp)] = cp
           ELSE m_conversion_table[ebu_char(cp)] = 32
<1> DEFINE I == {i \in 1 .. Len(m_conversion_table) : m_conversion_table[i] = cp}
<1>1. CASE Contains(m_conversion_table, cp)
    <2>1. I # {}
        BY <1>1 DEF Contains
    <2>2. ebu_char(cp) = Min(I)
        BY <1>1, <2>1 DEF ebu_char, SelectInSeq
    <2>3. I \in SUBSET Nat
        BY TableLength
    <2>4. \E x \in I : \A y \in I : x <= y
        <3> HIDE DEF I
        <3> QED
            BY <2>1, <2>3, Smallest
    <2>5. Min(I) \in I
        BY <2>4 DEF Min
    <2>6. \A i \in I : i \in 1 .. 255 /\ m_conversion_table[i] = cp
        BY TableLength
    <2> HIDE DEF I
    <2> QED
        BY <1>1, <2>2, <2>5, <2>6
<1>2. CASE ~Contains(m_conversion_table, cp)
    BY <1>2, TableBlank DEF ebu_char
<1> QED
    BY <1>1, <1>2

-----------------------------------------------------------------------------
\* The lead bytes, and the trail bytes.
LEMMA LeadBytes ==
    ASSUME NEW a \in Bytes
    PROVE  /\ sequence_length(a) = (IF a < 128 THEN 1 ELSE IF a < 192 THEN 0 ELSE IF a < 224 THEN 2
                                    ELSE IF a < 240 THEN 3 ELSE IF a < 248 THEN 4 ELSE 0)
           /\ is_trail(a) <=> a >= 128 /\ a < 192
<1>1. a \in Nat /\ a < 256
    BY DEF Bytes
<1>2. a \div 32 = 6 <=> a >= 192 /\ a < 224
    BY <1>1
<1>3. a \div 16 = 14 <=> a >= 224 /\ a < 240
    BY <1>1
<1>4. a \div 8 = 30 <=> a >= 240 /\ a < 248
    BY <1>1
<1>5. is_trail(a) <=> a >= 128 /\ a < 192
    BY <1>1 DEF is_trail
<1> QED
    BY <1>1, <1>2, <1>3, <1>4, <1>5 DEF sequence_length

\* What code_point takes of the bytes, without the remainders.
LEMMA TrailBits ==
    ASSUME NEW a \in Bytes, a >= 128, a < 192
    PROVE  /\ a % 64 = a - 128
           /\ (a * 64) % 4096 = 64 * (a - 128)
           /\ (a * 4096) % 262144 = 4096 * (a - 128)
<1>1. a \in Nat
    BY DEF Bytes
<1> QED
    BY <1>1

LEMMA LeadBits ==
    ASSUME NEW a \in Bytes
    PROVE  /\ a >= 192 /\ a < 224 => (a * 64) % 2048 = 64 * (a - 192)
           /\ a >= 224 /\ a < 240 => (a * 4096) % 65536 = 4096 * (a - 224)
           /\ a >= 240 /\ a < 248 => (a * 262144) % 2097152 = 262144 * (a - 240)
<1>1. a \in Nat
    BY DEF Bytes
<1>2. a >= 192 /\ a < 224 => (a * 64) % 2048 = 64 * (a - 192)
    BY <1>1
<1>3. a >= 224 /\ a < 240 => (a * 4096) % 65536 = 4096 * (a - 224)
    BY <1>1
<1>4. a >= 240 /\ a < 248 => (a * 262144) % 2097152 = 262144 * (a - 240)
    BY <1>1
<1> QED
    BY <1>2, <1>3, <1>4

\* The checks of the decoder, for the characters of each length.
Accepted(cp, n) == is_code_point_valid(cp) /\ ~is_overlong_sequence(cp, n)

\* The code points that pass the checks.
LEMMA AcceptedRanges ==
    ASSUME NEW cp \in Nat, NEW n \in 1 .. 4
    PROVE  Accepted(cp, n) <=>
               /\ cp <= 1114111 /\ ~(55296 <= cp /\ cp <= 57343)
               /\ cp < 128 => n = 1
               /\ 128 <= cp /\ cp < 2048 => n = 2
               /\ 2048 <= cp /\ cp < 65536 => n = 3
<1>1. cp \in 55296 .. 57343 <=> 55296 <= cp /\ cp <= 57343
    OBVIOUS
<1>2. cp \in 128 .. 2047 <=> 128 <= cp /\ cp < 2048
    BY SMTT(30)
<1>3. cp \in 2048 .. 65535 <=> 2048 <= cp /\ cp < 65536
    BY SMTT(30)
<1>4. is_code_point_valid(cp) <=> cp <= 1114111 /\ ~(55296 <= cp /\ cp <= 57343)
    BY SMTT(30) DEF is_code_point_valid, CODE_POINT_MAX
<1>5. is_overlong_sequence(cp, n) <=>
          \/ cp < 128 /\ n # 1
          \/ 128 <= cp /\ cp < 2048 /\ n # 2
          \/ 2048 <= cp /\ cp < 65536 /\ n # 3
    BY SMTT(30) DEF is_overlong_sequence
<1> QED
    BY <1>4, <1>5 DEF Accepted

\* Of the sequences of two, three and four bytes these pass.
LEMMA TwoBytesOK ==
    ASSUME NEW a \in Bytes, NEW b \in Bytes, a >= 192, a < 224, b >= 128, b < 192
    PROVE  LET cp == ((a * 64) % 2048) + (b % 64)
           IN  cp \in Nat /\ (Accepted(cp, 2) <=> a >= 194)
<1>1. a \in Nat /\ b \in Nat
    BY DEF Bytes
<1>2. PICK cp \in Nat : cp = 64 * (a - 192) + (b - 128)
    BY <1>1
<1>3. ((a * 64) % 2048) + (b % 64) = cp
    BY <1>2, LeadBits, TrailBits
<1>4. Accepted(cp, 2) <=> a >= 194
    BY <1>1, <1>2, AcceptedRanges
<1> QED
    BY <1>3, <1>4

LEMMA ThreeBytesOK ==
    ASSUME NEW a \in Bytes, NEW b \in Bytes, NEW c \in Bytes, a >= 224, a < 240,
           b >= 128, b < 192, c >= 128, c < 192
    PROVE  LET cp == ((a * 4096) % 65536) + ((b * 64) % 4096) + (c % 64)
           IN  /\ cp \in Nat
               /\ Accepted(cp, 3) <=> (a = 224 => b >= 160) /\ (a = 237 => b < 160)
<1>1. a \in Nat /\ b \in Nat /\ c \in Nat
    BY DEF Bytes
<1>2. PICK cp \in Nat : cp = 4096 * (a - 224) + 64 * (b - 128) + (c - 128)
    BY <1>1
<1>3. ((a * 4096) % 65536) + ((b * 64) % 4096) + (c % 64) = cp
    BY <1>2, LeadBits, TrailBits
<1>4. Accepted(cp, 3) <=> (a = 224 => b >= 160) /\ (a = 237 => b < 160)
    BY <1>1, <1>2, AcceptedRanges
<1> QED
    BY <1>3, <1>4

LEMMA FourBytesOK ==
    ASSUME NEW a \in Bytes, NEW b \in Bytes, NEW c \in Bytes, NEW d \in Bytes, a >= 240, a < 248,
           b >= 128, b < 192, c >= 128, c < 192, d >= 128, d < 192
    PROVE  LET cp == ((a * 262144) % 2097152) + ((b * 4096) % 262144) + ((c * 64) % 4096) + (d % 64)
           IN  /\ cp \in Nat
               /\ Accepted(cp, 4) <=> a < 245 /\ (a = 240 => b >= 144) /\ (a = 244 => b < 144)
<1>1. a \in Nat /\ b \in Nat /\ c \in Nat /\ d \in Nat
    BY DEF Bytes
<1>2. PICK cp \in Nat : cp = 262144 * (a - 240) + 4096 * (b - 128) + 64 * (c - 128) + (d - 128)
    BY <1>1
<1>3. ((a * 262144) % 2097152) + ((b * 4096) % 262144) + ((c * 64) % 4096) + (d % 64) = cp
    BY <1>2, LeadBits, TrailBits
<1>4. Accepted(cp, 4) <=> a < 245 /\ (a = 240 => b >= 144) /\ (a = 244 => b < 144)
    BY <1>1, <1>2, AcceptedRanges
<1> QED
    BY <1>3, <1>4

\* validate_next returns the length of what passes all its checks.
LEMMA ValidateNext ==
    ASSUME NEW s \in Seq(Bytes), NEW i \in 1 .. Len(s)
    PROVE  /\ validate_next(s, i) \in 0 .. 4
           /\ \A n \in 1 .. 4 :
                  validate_next(s, i) = n <=>
                      /\ sequence_length(s[i]) = n
                      /\ i + n - 1 <= Len(s)
                      /\ \A k \in i + 1 .. i + n - 1 : is_trail(s[k])
                      /\ Accepted(code_point(s, i, n), n)
<1>1. s[i] \in Bytes
    OBVIOUS
<1>2. PICK m \in 0 .. 4 : m = sequence_length(s[i])
    BY <1>1, LeadBytes
<1> DEFINE ok == /\ i + m - 1 <= Len(s)
                 /\ \A k \in i + 1 .. i + m - 1 : is_trail(s[k])
                 /\ Accepted(code_point(s, i, m), m)
<1>3. validate_next(s, i) = IF m # 0 /\ ok THEN m ELSE 0
    BY <1>2, Zenon DEF validate_next, Accepted
<1>4. validate_next(s, i) \in 0 .. 4
    <2> HIDE DEF ok
    <2> QED
        BY <1>3
<1>5. ASSUME NEW n \in 1 .. 4
      PROVE  validate_next(s, i) = n <=> (m = n /\ ok)
    <2> HIDE DEF ok
    <2> QED
        BY <1>3
<1>6. ASSUME NEW n \in 1 .. 4
      PROVE  m = n /\ ok <=> /\ sequence_length(s[i]) = n
                             /\ i + n - 1 <= Len(s)
                             /\ \A k \in i + 1 .. i + n - 1 : is_trail(s[k])
                             /\ Accepted(code_point(s, i, n), n)
    BY <1>2, Zenon
<1> QED
    BY <1>4, <1>5, <1>6, Zenon

\* The part of a line that may be a character.
LEMMA Part ==
    ASSUME NEW s \in Seq(Bytes), NEW i \in 1 .. Len(s), NEW n \in 1 .. 4, i + n - 1 <= Len(s),
           NEW c, c = SubSeq(s, i, i + n - 1)
    PROVE  Len(c) = n /\ \A k \in 1 .. n : c[k] = s[i + k - 1] /\ c[k] \in Bytes
<1>1. Len(s) \in Nat /\ s \in [1 .. Len(s) -> Bytes]
    OBVIOUS
<1>2. Len(c) = n /\ \A k \in 1 .. n : c[k] = s[i + k - 1]
    BY <1>1
<1>3. \A k \in 1 .. n : i + k - 1 \in 1 .. Len(s)
    BY <1>1
<1> QED
    BY <1>1, <1>2, <1>3

\* The standard's ranges, for the characters of each length.
LEMMA WellFormedOne ==
    ASSUME NEW p, Len(p) = 1, NEW a \in Nat, p[1] = a
    PROVE  WellFormed(p) <=> a < 128
<1>1. WellFormed(p) <=> p[1] \in 0 .. 127
    BY DEF WellFormed
<1> QED
    BY <1>1

LEMMA WellFormedTwo ==
    ASSUME NEW p, Len(p) = 2, NEW a \in Nat, p[1] = a, NEW b \in Nat, p[2] = b
    PROVE  WellFormed(p) <=> a >= 194 /\ a < 224 /\ b >= 128 /\ b < 192
<1>1. WellFormed(p) <=> p[1] \in 194 .. 223 /\ \A k \in 2 .. 2 : p[k] \in 128 .. 191
    BY DEF WellFormed
<1>2. (\A k \in 2 .. 2 : p[k] \in 128 .. 191) <=> b >= 128 /\ b < 192
    OBVIOUS
<1>3. p[1] \in 194 .. 223 <=> a >= 194 /\ a < 224
    OBVIOUS
<1> QED
    BY <1>1, <1>2, <1>3, Zenon

LEMMA WellFormedThree ==
    ASSUME NEW p, Len(p) = 3, NEW a \in Nat, p[1] = a, NEW b \in Nat, p[2] = b,
           NEW c \in Nat, p[3] = c
    PROVE  WellFormed(p) <=> /\ a >= 224 /\ a < 240
                             /\ b >= 128 /\ b < 192 /\ c >= 128 /\ c < 192
                             /\ (a = 224 => b >= 160) /\ (a = 237 => b < 160)
<1>1. WellFormed(p) <=> /\ p[1] \in 224 .. 239
                        /\ p[2] \in (IF p[1] = 224 THEN 160 ELSE 128)
                                    .. (IF p[1] = 237 THEN 159 ELSE 191)
                        /\ \A k \in 3 .. 3 : p[k] \in 128 .. 191
    BY DEF WellFormed
<1>2. (\A k \in 3 .. 3 : p[k] \in 128 .. 191) <=> c >= 128 /\ c < 192
    OBVIOUS
<1>3. p[1] \in 224 .. 239 <=> a >= 224 /\ a < 240
    OBVIOUS
<1>4. p[2] \in (IF p[1] = 224 THEN 160 ELSE 128) .. (IF p[1] = 237 THEN 159 ELSE 191)
      <=> b >= 128 /\ b < 192 /\ (a = 224 => b >= 160) /\ (a = 237 => b < 160)
    OBVIOUS
<1> QED
    BY <1>1, <1>2, <1>3, <1>4, Zenon

LEMMA WellFormedFour ==
    ASSUME NEW p, Len(p) = 4, NEW a \in Nat, p[1] = a, NEW b \in Nat, p[2] = b,
           NEW c \in Nat, p[3] = c, NEW d \in Nat, p[4] = d
    PROVE  WellFormed(p) <=> /\ a >= 240 /\ a < 245
                             /\ b >= 128 /\ b < 192 /\ c >= 128 /\ c < 192 /\ d >= 128 /\ d < 192
                             /\ (a = 240 => b >= 144) /\ (a = 244 => b < 144)
<1>1. WellFormed(p) <=> /\ p[1] \in 240 .. 244
                        /\ p[2] \in (IF p[1] = 240 THEN 144 ELSE 128)
                                    .. (IF p[1] = 244 THEN 143 ELSE 191)
                        /\ \A k \in 3 .. 4 : p[k] \in 128 .. 191
    BY DEF WellFormed
<1>2. (\A k \in 3 .. 4 : p[k] \in 128 .. 191) <=> c >= 128 /\ c < 192 /\ d >= 128 /\ d < 192
    OBVIOUS
<1>3. p[1] \in 240 .. 244 <=> a >= 240 /\ a < 245
    OBVIOUS
<1>4. p[2] \in (IF p[1] = 240 THEN 144 ELSE 128) .. (IF p[1] = 244 THEN 143 ELSE 191)
      <=> b >= 128 /\ b < 192 /\ (a = 240 => b >= 144) /\ (a = 244 => b < 144)
    OBVIOUS
<1> QED
    BY <1>1, <1>2, <1>3, <1>4, ZenonT(40)

\* The standard and the code agree, for the characters of each length.
LEMMA OneByteCharacter ==
    ASSUME NEW s \in Seq(Bytes), NEW i \in 1 .. Len(s)
    PROVE  /\ WellFormed(SubSeq(s, i, i + 1 - 1)) <=> validate_next(s, i) = 1
           /\ validate_next(s, i) = 1 => code_point(s, i, 1) \in Nat
<1> DEFINE c == SubSeq(s, i, i + 1 - 1)
<1>1. Len(c) = 1 /\ \A k \in 1 .. 1 : c[k] = s[i + k - 1] /\ c[k] \in Bytes
    BY Part
<1> HIDE DEF c
<1>2. PICK a \in Bytes : a = c[1] /\ a = s[i]
    BY <1>1
<1>3. a \in Nat /\ a < 256
    BY DEF Bytes
<1>4. WellFormed(c) <=> a < 128
    BY <1>1, <1>2, <1>3, WellFormedOne
<1>5. code_point(s, i, 1) = a
    BY <1>2 DEF code_point
<1>6. sequence_length(a) = 1 <=> a < 128
    BY <1>3, LeadBytes
<1>7. a < 128 => Accepted(a, 1)
    BY <1>3, AcceptedRanges
<1>8. validate_next(s, i) = 1 <=>
          /\ sequence_length(a) = 1
          /\ i + 1 - 1 <= Len(s)
          /\ \A k \in i + 1 .. i + 1 - 1 : is_trail(s[k])
          /\ Accepted(a, 1)
    BY <1>2, <1>5, ValidateNext
<1> QED
    BY <1>3, <1>4, <1>5, <1>6, <1>7, <1>8 DEF c

LEMMA TwoByteCharacter ==
    ASSUME NEW s \in Seq(Bytes), NEW i \in 1 .. Len(s), i + 2 - 1 <= Len(s)
    PROVE  /\ WellFormed(SubSeq(s, i, i + 2 - 1)) <=> validate_next(s, i) = 2
           /\ validate_next(s, i) = 2 => code_point(s, i, 2) \in Nat
<1> DEFINE p == SubSeq(s, i, i + 2 - 1)
<1>1. Len(p) = 2 /\ \A k \in 1 .. 2 : p[k] = s[i + k - 1] /\ p[k] \in Bytes
    BY Part
<1> HIDE DEF p
<1>2. PICK a \in Bytes, b \in Bytes : a = p[1] /\ a = s[i] /\ b = p[2] /\ b = s[i + 1]
    BY <1>1
<1>3. a \in Nat /\ a < 256 /\ b \in Nat /\ b < 256
    BY DEF Bytes
<1> DEFINE trails == b >= 128 /\ b < 192
<1>4. WellFormed(p) <=> a >= 194 /\ a < 224 /\ trails
    BY <1>1, <1>2, <1>3, WellFormedTwo
<1> DEFINE cp == ((a * 64) % 2048) + (b % 64)
<1>5. code_point(s, i, 2) = cp
    BY <1>2 DEF code_point
<1>6. sequence_length(a) = 2 <=> a >= 192 /\ a < 224
    BY <1>3, LeadBytes
<1>7. is_trail(b) <=> trails
    BY LeadBytes
<1>8. a >= 192 /\ a < 224 /\ trails => cp \in Nat /\ (Accepted(cp, 2) <=> a >= 194)
    BY TwoBytesOK
<1> HIDE DEF cp
<1>9. validate_next(s, i) = 2 <=>
          /\ sequence_length(a) = 2
          /\ i + 2 - 1 <= Len(s)
          /\ \A k \in i + 1 .. i + 2 - 1 : is_trail(s[k])
          /\ Accepted(cp, 2)
    BY <1>2, <1>5, ValidateNext
<1>10. (\A k \in i + 1 .. i + 2 - 1 : is_trail(s[k])) <=> trails
    BY <1>2, <1>7
<1> HIDE DEF trails
<1> QED
    BY <1>3, <1>4, <1>5, <1>6, <1>8, <1>9, <1>10 DEF p

LEMMA ThreeByteCharacter ==
    ASSUME NEW s \in Seq(Bytes), NEW i \in 1 .. Len(s), i + 3 - 1 <= Len(s)
    PROVE  /\ WellFormed(SubSeq(s, i, i + 3 - 1)) <=> validate_next(s, i) = 3
           /\ validate_next(s, i) = 3 => code_point(s, i, 3) \in Nat
<1> DEFINE p == SubSeq(s, i, i + 3 - 1)
<1>1. Len(p) = 3 /\ \A k \in 1 .. 3 : p[k] = s[i + k - 1] /\ p[k] \in Bytes
    BY Part
<1> HIDE DEF p
<1>2. PICK a \in Bytes, b \in Bytes, c \in Bytes :
          a = p[1] /\ a = s[i] /\ b = p[2] /\ b = s[i + 1] /\ c = p[3] /\ c = s[i + 2]
    BY <1>1
<1>3. a \in Nat /\ a < 256 /\ b \in Nat /\ b < 256 /\ c \in Nat /\ c < 256
    BY DEF Bytes
<1> DEFINE trails == b >= 128 /\ b < 192 /\ c >= 128 /\ c < 192
           good == (a = 224 => b >= 160) /\ (a = 237 => b < 160)
<1>4. WellFormed(p) <=> a >= 224 /\ a < 240 /\ trails /\ good
    <2>1. p[1] = a /\ p[2] = b /\ p[3] = c /\ Len(p) = 3
        BY <1>1, <1>2
    <2>2. WellFormed(p) <=> /\ a >= 224 /\ a < 240
                            /\ b >= 128 /\ b < 192 /\ c >= 128 /\ c < 192
                            /\ (a = 224 => b >= 160) /\ (a = 237 => b < 160)
        BY <1>3, <2>1, WellFormedThree
    <2> QED
        BY <2>2
<1> DEFINE cp == ((a * 4096) % 65536) + ((b * 64) % 4096) + (c % 64)
<1>5. code_point(s, i, 3) = cp
    BY <1>2 DEF code_point
<1>6. sequence_length(a) = 3 <=> a >= 224 /\ a < 240
    BY <1>3, LeadBytes
<1>7. is_trail(b) /\ is_trail(c) <=> trails
    BY LeadBytes
<1>8. a >= 224 /\ a < 240 /\ trails => cp \in Nat /\ (Accepted(cp, 3) <=> good)
    BY ThreeBytesOK
<1> HIDE DEF cp
<1>9. validate_next(s, i) = 3 <=>
          /\ sequence_length(a) = 3
          /\ i + 3 - 1 <= Len(s)
          /\ \A k \in i + 1 .. i + 3 - 1 : is_trail(s[k])
          /\ Accepted(cp, 3)
    BY <1>2, <1>5, ValidateNext
<1>10. (\A k \in i + 1 .. i + 3 - 1 : is_trail(s[k])) <=> trails
    BY <1>2, <1>7
<1> HIDE DEF trails, good
<1> QED
    BY <1>3, <1>4, <1>5, <1>6, <1>8, <1>9, <1>10 DEF p

LEMMA FourByteCharacter ==
    ASSUME NEW s \in Seq(Bytes), NEW i \in 1 .. Len(s), i + 4 - 1 <= Len(s)
    PROVE  /\ WellFormed(SubSeq(s, i, i + 4 - 1)) <=> validate_next(s, i) = 4
           /\ validate_next(s, i) = 4 => code_point(s, i, 4) \in Nat
<1> DEFINE p == SubSeq(s, i, i + 4 - 1)
<1>1. Len(p) = 4 /\ \A k \in 1 .. 4 : p[k] = s[i + k - 1] /\ p[k] \in Bytes
    BY Part
<1> HIDE DEF p
<1>2. PICK a \in Bytes, b \in Bytes, c \in Bytes, d \in Bytes :
          a = p[1] /\ a = s[i] /\ b = p[2] /\ b = s[i + 1] /\ c = p[3] /\ c = s[i + 2]
          /\ d = p[4] /\ d = s[i + 3]
    BY <1>1
<1>3. /\ a \in Nat /\ a < 256 /\ b \in Nat /\ b < 256
      /\ c \in Nat /\ c < 256 /\ d \in Nat /\ d < 256
    BY DEF Bytes
<1> DEFINE trails == b >= 128 /\ b < 192 /\ c >= 128 /\ c < 192 /\ d >= 128 /\ d < 192
           good == a < 245 /\ (a = 240 => b >= 144) /\ (a = 244 => b < 144)
<1>4. WellFormed(p) <=> a >= 240 /\ a < 248 /\ trails /\ good
    <2>1. p[1] = a /\ p[2] = b /\ p[3] = c /\ p[4] = d /\ Len(p) = 4
        BY <1>1, <1>2
    <2>2. WellFormed(p) <=> /\ a >= 240 /\ a < 245
                            /\ b >= 128 /\ b < 192 /\ c >= 128 /\ c < 192 /\ d >= 128 /\ d < 192
                            /\ (a = 240 => b >= 144) /\ (a = 244 => b < 144)
        BY <1>3, <2>1, WellFormedFour
    <2> QED
        BY <1>3, <2>2
<1> DEFINE cp == ((a * 262144) % 2097152) + ((b * 4096) % 262144) + ((c * 64) % 4096) + (d % 64)
<1>5. code_point(s, i, 4) = cp
    BY <1>2 DEF code_point
<1>6. sequence_length(a) = 4 <=> a >= 240 /\ a < 248
    BY <1>3, LeadBytes
<1>7. is_trail(b) /\ is_trail(c) /\ is_trail(d) <=> trails
    BY LeadBytes
<1>8. a >= 240 /\ a < 248 /\ trails => cp \in Nat /\ (Accepted(cp, 4) <=> good)
    BY FourBytesOK
<1> HIDE DEF cp
<1>9. validate_next(s, i) = 4 <=>
          /\ sequence_length(a) = 4
          /\ i + 4 - 1 <= Len(s)
          /\ \A k \in i + 1 .. i + 4 - 1 : is_trail(s[k])
          /\ Accepted(cp, 4)
    BY <1>2, <1>5, ValidateNext
<1>10. (\A k \in i + 1 .. i + 4 - 1 : is_trail(s[k])) <=> trails
    BY <1>2, <1>7
<1> HIDE DEF trails, good
<1> QED
    BY <1>3, <1>4, <1>5, <1>6, <1>8, <1>9, <1>10 DEF p

\* What utf8::internal::validate_next takes for a character is one by the standard, and
\* nothing else.
LEMMA CharacterOK ==
    ASSUME NEW s \in Seq(Bytes), NEW i \in 1 .. Len(s)
    PROVE  /\ validate_next(s, i) \in 0 .. 4
           /\ validate_next(s, i) # 0 => /\ i + validate_next(s, i) <= Len(s) + 1
                                         /\ code_point(s, i, validate_next(s, i)) \in Nat
           /\ \A n \in 1 .. 4 : i + n - 1 <= Len(s) =>
                  (WellFormed(SubSeq(s, i, i + n - 1)) <=> validate_next(s, i) = n)
<1>1. validate_next(s, i) \in 0 .. 4
    BY ValidateNext
<1>2. \A n \in 1 .. 4 : validate_next(s, i) = n => i + n - 1 <= Len(s)
    BY ValidateNext
<1>3. ASSUME NEW n \in 1 .. 4, i + n - 1 <= Len(s)
      PROVE  /\ WellFormed(SubSeq(s, i, i + n - 1)) <=> validate_next(s, i) = n
             /\ validate_next(s, i) = n => code_point(s, i, n) \in Nat
    <2>1. CASE n = 1
        BY <2>1, OneByteCharacter
    <2>2. CASE n = 2
        BY <1>3, <2>2, TwoByteCharacter
    <2>3. CASE n = 3
        BY <1>3, <2>3, ThreeByteCharacter
    <2>4. CASE n = 4
        BY <1>3, <2>4, FourByteCharacter
    <2> QED
        BY <2>1, <2>2, <2>3, <2>4
<1>4. PICK v \in 0 .. 4 : v = validate_next(s, i)
    BY <1>1
<1>5. v # 0 => i + v <= Len(s) + 1 /\ code_point(s, i, v) \in Nat
    BY <1>2, <1>3, <1>4
<1> QED
    BY <1>1, <1>3, <1>4, <1>5

-----------------------------------------------------------------------------
\* What is defined from some place further back, or from nothing, is defined everywhere.
Reaches(f, N, V, base, back, stop, step) ==
    /\ f \in [0 .. N -> V]
    /\ f[0] = base
    /\ \A n \in 1 .. N : f[n] = IF back[n] = 0 THEN stop[n] ELSE step[n][f[n - back[n]]]

LEMMA BackRecursion ==
    ASSUME NEW N \in Nat, NEW V, NEW base \in V, NEW back \in [1 .. N -> Nat],
           \A n \in 1 .. N : back[n] <= n,
           NEW stop \in [1 .. N -> V], NEW step, StepsWithin(step, N, V)
    PROVE  \E f : Reaches(f, N, V, base, back, stop, step)
<1> DEFINE next(f, n) == IF back[n] = 0 THEN stop[n] ELSE step[n][f[n - back[n]]]
           Good(f, n) == f[0] = base /\ \A m \in 1 .. n : f[m] = next(f, m)
           P == {n \in 0 .. N : \E f \in [0 .. n -> V] : Good(f, n)}
<1>1. 0 \in P
    <2> DEFINE z == [m \in 0 .. 0 |-> base]
    <2>1. z \in [0 .. 0 -> V] /\ z[0] = base
        OBVIOUS
    <2> HIDE DEF z
    <2>2. Good(z, 0)
        BY <2>1
    <2> QED
        BY <2>1, <2>2
<1>2. ASSUME NEW n \in 0 .. N - 1, n \in P PROVE n + 1 \in P
    <2>1. PICK f \in [0 .. n -> V] : Good(f, n)
        <3> HIDE DEF Good
        <3> QED
            BY <1>2
    <2> DEFINE new == next(f, n + 1)
               g == [m \in 0 .. n + 1 |-> IF m = n + 1 THEN new ELSE f[m]]
    <2>2. n + 1 \in 1 .. N /\ back[n + 1] \in Nat /\ back[n + 1] <= n + 1
        OBVIOUS
    <2>3. new \in V
        <3>1. CASE back[n + 1] = 0
            BY <2>2, <3>1
        <3>2. CASE back[n + 1] # 0
            <4>1. f[(n + 1) - back[n + 1]] \in V
                BY <2>2, <3>2
            <4>2. step[n + 1][f[(n + 1) - back[n + 1]]] \in V
                BY <2>2, <4>1 DEF StepsWithin
            <4> QED
                BY <3>2, <4>2
        <3> QED
            BY <3>1, <3>2
    <2> HIDE DEF new
    <2>4. g \in [0 .. n + 1 -> V] /\ g[0] = base /\ \A m \in 0 .. n : g[m] = f[m]
        BY <2>1, <2>3
    <2>5. ASSUME NEW m \in 1 .. n + 1 PROVE g[m] = next(g, m)
        <3>1. m \in 1 .. N /\ back[m] \in Nat /\ back[m] <= m
            OBVIOUS
        <3>2. next(g, m) = next(f, m)
            <4>1. back[m] # 0 => m - back[m] \in 0 .. n
                BY <3>1
            <4> HIDE DEF g
            <4> QED
                BY <2>4, <4>1, SMTT(30)
        <3>3. CASE m = n + 1
            BY <3>2, <3>3 DEF new
        <3>4. CASE m # n + 1
            <4>1. m \in 1 .. n
                BY <3>4
            <4> QED
                BY <2>1, <2>4, <3>2, <4>1
        <3> QED
            BY <3>3, <3>4
    <2>6. Good(g, n + 1)
        <3> HIDE DEF g, next
        <3> QED
            BY <2>4, <2>5
    <2> HIDE DEF g, Good
    <2> QED
        BY <2>4, <2>6
<1>3. \A n \in 0 .. N : n \in P
    <2> HIDE DEF P
    <2> QED
        BY <1>1, <1>2, Induction, Zenon
<1> QED
    BY <1>3, SMTT(30) DEF Reaches

\* The same, from a place further on.
Leads(f, N, V, base, jump, stop, step) ==
    /\ f \in [1 .. N + 1 -> V]
    /\ f[N + 1] = base
    /\ \A i \in 1 .. N : f[i] = IF jump[i] = 0 THEN stop[i] ELSE step[i][f[i + jump[i]]]

LEMMA JumpRecursion ==
    ASSUME NEW N \in Nat, NEW V, NEW base \in V, NEW jump \in [1 .. N -> Nat],
           \A i \in 1 .. N : i + jump[i] <= N + 1,
           NEW stop \in [1 .. N -> V], NEW step, StepsWithin(step, N, V)
    PROVE  \E f : Leads(f, N, V, base, jump, stop, step)
<1> DEFINE back == [n \in 1 .. N |-> jump[N + 1 - n]]
           stop2 == [n \in 1 .. N |-> stop[N + 1 - n]]
           step2 == [n \in 1 .. N |-> step[N + 1 - n]]
<1>1. \A n \in 1 .. N : N + 1 - n \in 1 .. N
    OBVIOUS
<1>2. back \in [1 .. N -> Nat] /\ stop2 \in [1 .. N -> V] /\ \A n \in 1 .. N : back[n] <= n
    BY <1>1
<1>3. StepsWithin(step2, N, V)
    BY <1>1 DEF StepsWithin
<1>4. PICK g : Reaches(g, N, V, base, back, stop2, step2)
    <2> HIDE DEF back, stop2, step2
    <2> QED
        BY <1>2, <1>3, BackRecursion, Zenon
<1>5. /\ g \in [0 .. N -> V] /\ g[0] = base
      /\ \A n \in 1 .. N : g[n] = IF back[n] = 0 THEN stop2[n] ELSE step2[n][g[n - back[n]]]
    BY <1>4 DEF Reaches
<1> DEFINE f == [i \in 1 .. N + 1 |-> g[N + 1 - i]]
<1>6. f \in [1 .. N + 1 -> V] /\ f[N + 1] = base
    BY <1>5
<1>7. ASSUME NEW i \in 1 .. N
      PROVE  f[i] = IF jump[i] = 0 THEN stop[i] ELSE step[i][f[i + jump[i]]]
    <2>1. PICK n \in 1 .. N : n = N + 1 - i /\ i = N + 1 - n
        OBVIOUS
    <2>2. f[i] = g[n] /\ back[n] = jump[i] /\ stop2[n] = stop[i] /\ step2[n] = step[i]
        BY <2>1
    <2>3. i + jump[i] \in 1 .. N + 1 /\ N + 1 - (i + jump[i]) = n - jump[i]
        BY <2>1
    <2>4. f[i + jump[i]] = g[n - jump[i]]
        BY <2>3, SMTT(30)
    <2>5. g[n] = IF back[n] = 0 THEN stop2[n] ELSE step2[n][g[n - back[n]]]
        BY <1>5
    <2> HIDE DEF f, back, stop2, step2
    <2> QED
        BY <2>2, <2>4, <2>5, Zenon
<1> HIDE DEF f
<1>8. Leads(f, N, V, base, jump, stop, step)
    BY <1>6, <1>7 DEF Leads
<1> QED
    BY <1>8

-----------------------------------------------------------------------------
\* The first position behind the characters that begin at each position.
Afters(s, after) ==
    after = [i \in 1 .. Len(s) + 1 |->
                IF i > Len(s) THEN i
                ELSE IF validate_next(s, i) = 0 THEN i
                ELSE after[i + validate_next(s, i)]]

After(s) == CHOOSE after : Afters(s, after)

\* The positions find_invalid goes through.
LEMMA AfterOK ==
    ASSUME NEW s \in Seq(Bytes)
    PROVE  /\ find_invalid(s) = After(s)[1]
           /\ After(s)[Len(s) + 1] = Len(s) + 1
           /\ \A i \in 1 .. Len(s) :
                  After(s)[i] = IF validate_next(s, i) = 0 THEN i
                                ELSE After(s)[i + validate_next(s, i)]
<1> DEFINE N == Len(s)
           jump == [i \in 1 .. N |-> validate_next(s, i)]
           stop == [i \in 1 .. N |-> i]
           step == [i \in 1 .. N |-> [q \in Nat |-> q]]
<1>1. N \in Nat
    OBVIOUS
<1>2. \A i \in 1 .. N : /\ validate_next(s, i) \in Nat
                        /\ i + validate_next(s, i) \in 1 .. N + 1
                        /\ i + validate_next(s, i) <= N + 1
    <2> SUFFICES ASSUME NEW i \in 1 .. N
                 PROVE  /\ validate_next(s, i) \in Nat
                        /\ i + validate_next(s, i) \in 1 .. N + 1
                        /\ i + validate_next(s, i) <= N + 1
        OBVIOUS
    <2> QED
        BY CharacterOK
<1>3. /\ jump \in [1 .. N -> Nat] /\ stop \in [1 .. N -> Nat]
      /\ \A i \in 1 .. N : i + jump[i] <= N + 1
    BY <1>2
<1>4. StepsWithin(step, N, Nat)
    BY DEF StepsWithin
<1>5. PICK f : Leads(f, N, Nat, N + 1, jump, stop, step)
    <2>1. N + 1 \in Nat
        BY <1>1
    <2> HIDE DEF N, jump, stop, step
    <2> QED
        BY <1>1, <1>3, <1>4, <2>1, JumpRecursion, Zenon
<1>6. f \in [1 .. N + 1 -> Nat] /\ f[N + 1] = N + 1
    BY <1>5 DEF Leads
<1>7. \A i \in 1 .. N :
          f[i] = IF validate_next(s, i) = 0 THEN i ELSE f[i + validate_next(s, i)]
    <2> SUFFICES ASSUME NEW i \in 1 .. N
                 PROVE  f[i] = IF validate_next(s, i) = 0 THEN i ELSE f[i + validate_next(s, i)]
        OBVIOUS
    <2>1. f[i + validate_next(s, i)] \in Nat
        BY <1>2, <1>6
    <2>2. jump[i] = validate_next(s, i) /\ stop[i] = i
          /\ step[i][f[i + validate_next(s, i)]] = f[i + validate_next(s, i)]
        BY <2>1
    <2> HIDE DEF jump, stop, step
    <2> QED
        BY <1>5, <2>2 DEF Leads
<1>8. \A i \in 1 .. N + 1 : i > N <=> i = N + 1
    BY <1>1
<1>9. Afters(s, f)
    <2>1. f = [i \in 1 .. N + 1 |-> f[i]]
        BY <1>6
    <2>2. \A i \in 1 .. N + 1 :
              f[i] = IF i > N THEN i
                     ELSE IF validate_next(s, i) = 0 THEN i ELSE f[i + validate_next(s, i)]
        BY <1>1, <1>6, <1>7, <1>8
    <2> DEFINE body(i) == IF i > N THEN i
                          ELSE IF validate_next(s, i) = 0 THEN i ELSE f[i + validate_next(s, i)]
    <2>3. f = [i \in 1 .. N + 1 |-> body(i)]
        <3> HIDE DEF body
        <3>1. \A i \in 1 .. N + 1 : f[i] = body(i)
            BY <2>2 DEF body
        <3> QED
            BY <2>1, <3>1
    <2> QED
        BY <2>3, Zenon DEF Afters
<1>10. Afters(s, After(s))
    BY <1>9 DEF After
<1>11. find_invalid(s) = After(s)[1]
    BY DEF find_invalid, After, Afters
<1>12. \A i \in 1 .. N + 1 :
          After(s)[i] = IF i > N THEN i
                        ELSE IF validate_next(s, i) = 0 THEN i
                        ELSE After(s)[i + validate_next(s, i)]
    BY <1>10 DEF Afters
<1> QED
    BY <1>1, <1>8, <1>11, <1>12

\* The code points from each position on.
Froms(s, from) ==
    from = [i \in 1 .. Len(s) + 1 |->
               IF i > Len(s) THEN <<>>
               ELSE LET n == validate_next(s, i)
                    IN  IF n = 0 THEN <<EXCEPTION>> ELSE <<code_point(s, i, n)>> \o from[i + n]]

From(s) == CHOOSE from : Froms(s, from)

\* The code points utf8to32 goes through.
LEMMA FromOK ==
    ASSUME NEW s \in Seq(Bytes)
    PROVE  /\ utf8to32(s) = From(s)[1]
           /\ From(s)[Len(s) + 1] = <<>>
           /\ \A i \in 1 .. Len(s) + 1 : From(s)[i] \in Seq(Int)
           /\ \A i \in 1 .. Len(s) :
                  validate_next(s, i) # 0 =>
                      From(s)[i] = <<code_point(s, i, validate_next(s, i))>>
                                   \o From(s)[i + validate_next(s, i)]
<1> DEFINE N == Len(s)
           v(i) == validate_next(s, i)
           cp(i) == code_point(s, i, v(i))
           jump == [i \in 1 .. N |-> v(i)]
           stop == [i \in 1 .. N |-> <<EXCEPTION>>]
           step == [i \in 1 .. N |-> [q \in Seq(Int) |-> IF v(i) = 0 THEN q ELSE <<cp(i)>> \o q]]
<1>1. N \in Nat
    OBVIOUS
<1>2. ASSUME NEW i \in 1 .. N
      PROVE  /\ v(i) \in Nat /\ i + v(i) \in 1 .. N + 1 /\ i + v(i) <= N + 1
             /\ v(i) # 0 => <<cp(i)>> \in Seq(Int)
    BY CharacterOK, SMTT(30)
<1>3. /\ jump \in [1 .. N -> Nat]
      /\ \A i \in 1 .. N : i + jump[i] <= N + 1
    BY <1>2
<1>4. stop \in [1 .. N -> Seq(Int)]
    BY DEF EXCEPTION
<1>5. StepsWithin(step, N, Seq(Int))
    <2>1. ASSUME NEW i \in 1 .. N, NEW q \in Seq(Int)
          PROVE  (IF v(i) = 0 THEN q ELSE <<cp(i)>> \o q) \in Seq(Int)
        <3>1. CASE v(i) = 0
            BY <3>1
        <3>2. CASE v(i) # 0
            <4>1. <<cp(i)>> \in Seq(Int)
                BY <1>2, <3>2
            <4> HIDE DEF cp
            <4>2. <<cp(i)>> \o q \in Seq(Int)
                BY <4>1, ConcatProperties, Zenon
            <4> QED
                BY <3>2, <4>2
        <3> QED
            BY <3>1, <3>2
    <2> HIDE DEF v, cp
    <2> QED
        BY <2>1 DEF StepsWithin
<1>6. PICK f : Leads(f, N, Seq(Int), <<>>, jump, stop, step)
    <2>1. <<>> \in Seq(Int)
        OBVIOUS
    <2> HIDE DEF N, jump, stop, step
    <2> QED
        BY <1>1, <1>3, <1>4, <1>5, <2>1, JumpRecursion, Zenon
<1>7. f \in [1 .. N + 1 -> Seq(Int)] /\ f[N + 1] = <<>>
    BY <1>6 DEF Leads
<1>8. \A i \in 1 .. N : f[i] = IF v(i) = 0 THEN <<EXCEPTION>> ELSE <<cp(i)>> \o f[i + v(i)]
    <2> SUFFICES ASSUME NEW i \in 1 .. N
                 PROVE  f[i] = IF v(i) = 0 THEN <<EXCEPTION>> ELSE <<cp(i)>> \o f[i + v(i)]
        OBVIOUS
    <2>1. f[i + v(i)] \in Seq(Int)
        BY <1>2, <1>7
    <2> HIDE DEF v, cp
    <2>2. /\ jump[i] = v(i) /\ stop[i] = <<EXCEPTION>>
          /\ v(i) # 0 => step[i][f[i + v(i)]] = <<cp(i)>> \o f[i + v(i)]
        BY <2>1
    <2> HIDE DEF jump, stop, step
    <2>3. f[i] = IF jump[i] = 0 THEN stop[i] ELSE step[i][f[i + jump[i]]]
        BY <1>6, Zenon DEF Leads
    <2> QED
        BY <2>2, <2>3, Zenon
<1>9. \A i \in 1 .. N + 1 : i > N <=> i = N + 1
    BY <1>1
<1> DEFINE body(g, i) == IF i > N THEN <<>>
                         ELSE IF v(i) = 0 THEN <<EXCEPTION>> ELSE <<cp(i)>> \o g[i + v(i)]
<1>10. \A g : Froms(s, g) <=> g = [i \in 1 .. N + 1 |-> body(g, i)]
    BY Zenon DEF Froms
<1>11. Froms(s, f)
    <2>1. \A i \in 1 .. N + 1 : f[i] = body(f, i)
        <3> SUFFICES ASSUME NEW i \in 1 .. N + 1 PROVE f[i] = body(f, i)
            OBVIOUS
        <3>1. CASE i = N + 1
            <4>1. i > N
                BY <1>1, <3>1
            <4> QED
                BY <1>7, <3>1, <4>1, Zenon
        <3>2. CASE i # N + 1
            <4>1. i \in 1 .. N /\ ~(i > N)
                BY <1>1, <3>2
            <4> QED
                BY <1>8, <4>1, Zenon
        <3> QED
            BY <3>1, <3>2
    <2> HIDE DEF body
    <2>2. f = [i \in 1 .. N + 1 |-> body(f, i)]
        BY <1>7, <2>1
    <2> QED
        BY <1>10, <2>2, Zenon
<1>12. Froms(s, From(s))
    BY <1>11, Zenon DEF From
<1>13. utf8to32(s) = From(s)[1]
    BY Zenon DEF utf8to32, From, Froms
<1>14. PICK h : h = From(s)
    OBVIOUS
<1>15. \A i \in 1 .. N + 1 : h[i] = body(h, i)
    <2>1. h = [i \in 1 .. N + 1 |-> body(h, i)]
        BY <1>10, <1>12, <1>14, Zenon
    <2> HIDE DEF body
    <2> QED
        BY <2>1
<1>16. h[N + 1] = <<>>
    <2>1. N + 1 \in 1 .. N + 1 /\ N + 1 > N
        BY <1>1
    <2> QED
        BY <1>15, <2>1, Zenon
<1>17. \A i \in 1 .. N : h[i] = IF v(i) = 0 THEN <<EXCEPTION>> ELSE <<cp(i)>> \o h[i + v(i)]
    <2> SUFFICES ASSUME NEW i \in 1 .. N
                 PROVE  h[i] = IF v(i) = 0 THEN <<EXCEPTION>> ELSE <<cp(i)>> \o h[i + v(i)]
        OBVIOUS
    <2>1. i \in 1 .. N + 1 /\ ~(i > N)
        BY <1>1
    <2> QED
        BY <1>15, <2>1, Zenon
<1>18. \A i \in 1 .. N + 1 : h[i] = f[i]
    <2> DEFINE Bad == {n \in 0 .. N : h[N + 1 - n] # f[N + 1 - n]}
    <2>1. Bad = {}
        <3> SUFFICES ASSUME Bad # {} PROVE FALSE
            OBVIOUS
        <3>1. Bad \in SUBSET Nat
            BY <1>1
        <3>2. PICK n \in Bad : \A m \in Bad : n <= m
            <4> HIDE DEF Bad
            <4> QED
                BY <3>1, Smallest
        <3>3. n \in 0 .. N /\ n # 0 /\ h[N + 1 - n] # f[N + 1 - n]
            BY <1>1, <1>7, <1>16, <3>2
        <3>4. PICK i \in 1 .. N : i = N + 1 - n
            BY <1>1, <3>3
        <3>5. CASE v(i) = 0
            BY <1>8, <1>17, <3>3, <3>4, <3>5, Zenon
        <3>6. CASE v(i) # 0
            <4>1. PICK j \in Nat : j = v(i) /\ i + j <= N + 1 /\ j # 0
                BY <1>2, <3>6
            <4>2. n - j \in 0 .. N /\ n - j < n /\ N + 1 - (n - j) = i + j
                BY <1>1, <3>3, <3>4, <4>1, SMTT(30)
            <4>3. n - j \notin Bad
                BY <3>2, <3>3, <4>2
            <4>4. h[i + j] = f[i + j]
                BY <4>2, <4>3
            <4>5. h[i] = f[i]
                BY <1>8, <1>17, <3>6, <4>1, <4>4, Zenon
            <4> QED
                BY <3>3, <3>4, <4>5
        <3> QED
            BY <3>5, <3>6
    <2>2. ASSUME NEW i \in 1 .. N + 1 PROVE h[i] = f[i]
        <3>1. N + 1 - i \in 0 .. N /\ N + 1 - (N + 1 - i) = i
            BY <1>1
        <3>2. N + 1 - i \notin Bad
            <4> HIDE DEF Bad
            <4> QED
                BY <2>1
        <3> QED
            BY <3>1, <3>2
    <2> QED
        BY <2>2
<1>19. \A i \in 1 .. N + 1 : h[i] \in Seq(Int)
    BY <1>7, <1>18
<1> QED
    BY <1>13, <1>14, <1>16, <1>17, <1>19, Zenon

\* The smallest of one number.
LEMMA MinOfOne == ASSUME NEW S, NEW b \in Nat, S = {b} PROVE Min(S) = b
BY DEF Min

\* At most one character ends at a position.
LEMMA OneEnd ==
    ASSUME NEW s \in Seq(Bytes), NEW n \in 1 .. Len(s), NEW a \in 1 .. 4, NEW b \in 1 .. 4,
           a <= n, b <= n, a < b,
           validate_next(s, n - a + 1) = a, validate_next(s, n - b + 1) = b
    PROVE  FALSE
<1>1. PICK i \in 1 .. Len(s), j \in 1 .. Len(s) :
          i = n - a + 1 /\ j = n - b + 1 /\ i \in j + 1 .. j + b - 1
    OBVIOUS
<1>2. sequence_length(s[i]) = a /\ s[i] \in Bytes
    BY <1>1, ValidateNext
<1>3. \A k \in j + 1 .. j + b - 1 : is_trail(s[k])
    BY <1>1, ValidateNext, SMTT(30)
<1>4. is_trail(s[i])
    BY <1>1, <1>3
<1>5. PICK x \in Bytes : x = s[i]
    BY <1>2
<1>6. x >= 128 /\ x < 192
    BY <1>4, <1>5, LeadBytes
<1>7. x \in Nat
    BY DEF Bytes
<1> QED
    BY <1>2, <1>5, <1>6, <1>7, LeadBytes

\* The characters that may end at position n.
Ends(s, n) == {i \in 1 .. 4 : i <= n /\ validate_next(s, n - i + 1) = i}

\* At most one is there, and it is one by the standard.
LEMMA EndsOK ==
    ASSUME NEW s \in Seq(Bytes), NEW n \in 1 .. Len(s)
    PROVE  /\ Ends(s, n) = {i \in 1 .. 4 : i <= n /\ WellFormed(SubSeq(s, n - i + 1, n))}
           /\ Ends(s, n) = {} \/ \E b \in 1 .. n : b <= 4 /\ Ends(s, n) = {b}
<1>1. ASSUME NEW i \in 1 .. 4, i <= n
      PROVE  WellFormed(SubSeq(s, n - i + 1, n)) <=> validate_next(s, n - i + 1) = i
    <2>1. PICK j \in 1 .. Len(s) : j = n - i + 1 /\ j + i - 1 = n
        BY <1>1
    <2>2. j + i - 1 <= Len(s)
        BY <2>1
    <2>3. WellFormed(SubSeq(s, j, j + i - 1)) <=> validate_next(s, j) = i
        BY <2>2, CharacterOK, SMTT(30)
    <2> QED
        BY <2>1, <2>3, Zenon
<1>2. \A i \in 1 .. 4 : (i <= n /\ validate_next(s, n - i + 1) = i)
                        <=> (i <= n /\ WellFormed(SubSeq(s, n - i + 1, n)))
    BY <1>1, Zenon
<1>3. Ends(s, n) = {i \in 1 .. 4 : i <= n /\ WellFormed(SubSeq(s, n - i + 1, n))}
    BY <1>2, Zenon DEF Ends
<1>4. \A a, b \in Ends(s, n) : ~(a < b)
    BY OneEnd DEF Ends
<1>5. \A a \in Ends(s, n) : a \in 1 .. n /\ a <= 4 /\ a \in Int
    BY DEF Ends
<1>6. \A a, b \in Ends(s, n) : a = b
    BY <1>4, <1>5
<1> QED
    BY <1>3, <1>5, <1>6

\* How many characters the first n bytes are.
Counts(s, count) ==
    count = [n \in 0 .. Len(s) |->
                IF n = 0 THEN 0
                ELSE LET k == {i \in 1 .. 4 : /\ i <= n
                                              /\ count[n - i] >= 0
                                              /\ WellFormed(SubSeq(s, n - i + 1, n))}
                     IN  IF k = {} THEN -1 ELSE count[n - Min(k)] + 1]

\* A position is counted exactly when a character ends there that begins behind a counted one.
LEMMA CountOK ==
    ASSUME NEW s \in Seq(Bytes)
    PROVE  LET count == Characters(s)
           IN  /\ count[0] = 0
               /\ \A n \in 0 .. Len(s) : count[n] \in Int
               /\ \A n \in 1 .. Len(s), b \in 1 .. 4 :
                      b <= n /\ count[n - b] >= 0 /\ validate_next(s, n - b + 1) = b
                          => count[n] = count[n - b] + 1
               /\ \A n \in 1 .. Len(s) : count[n] >= 0 =>
                      \E b \in 1 .. 4 :
                          /\ b <= n /\ count[n - b] >= 0 /\ validate_next(s, n - b + 1) = b
                          /\ count[n] = count[n - b] + 1
<1> DEFINE N == Len(s)
           back == [n \in 1 .. N |-> IF Ends(s, n) = {} THEN 0 ELSE Min(Ends(s, n))]
           stop == [n \in 1 .. N |-> -1]
           step == [n \in 1 .. N |-> [q \in Int |-> IF q >= 0 THEN q + 1 ELSE -1]]
<1>1. N \in Nat
    OBVIOUS
<1>2. ASSUME NEW n \in 1 .. N
      PROVE  /\ back[n] \in Nat /\ back[n] <= n /\ n - back[n] \in 0 .. N
             /\ back[n] = 0 => Ends(s, n) = {}
             /\ back[n] # 0 => Ends(s, n) = {back[n]}
    <2>1. CASE Ends(s, n) = {}
        BY <2>1
    <2>2. CASE Ends(s, n) # {}
        <3>1. PICK b \in 1 .. n : b <= 4 /\ Ends(s, n) = {b}
            BY <2>2, EndsOK
        <3>2. Min(Ends(s, n)) = b
            BY <3>1, MinOfOne
        <3>3. back[n] = b
            BY <2>2, <3>2
        <3> HIDE DEF back
        <3> QED
            BY <3>1, <3>3
    <2> QED
        BY <2>1, <2>2
<1>3. back \in [1 .. N -> Nat] /\ \A n \in 1 .. N : back[n] <= n
    BY <1>2
<1>4. stop \in [1 .. N -> Int]
    OBVIOUS
<1>5. StepsWithin(step, N, Int)
    BY DEF StepsWithin
<1>6. PICK f : Reaches(f, N, Int, 0, back, stop, step)
    <2>1. 0 \in Int
        OBVIOUS
    <2> HIDE DEF N, back, stop, step
    <2> QED
        BY <1>1, <1>3, <1>4, <1>5, <2>1, BackRecursion, Zenon
<1>7. f \in [0 .. N -> Int] /\ f[0] = 0
    BY <1>6 DEF Reaches
<1>8. ASSUME NEW n \in 1 .. N
      PROVE  f[n] = IF back[n] = 0 \/ f[n - back[n]] < 0 THEN -1 ELSE f[n - back[n]] + 1
    <2>1. f[n - back[n]] \in Int
        BY <1>2, <1>7
    <2>2. f[n] = IF back[n] = 0 THEN stop[n] ELSE step[n][f[n - back[n]]]
        BY <1>6, Zenon DEF Reaches
    <2>3. PICK q \in Int : q = f[n - back[n]]
        BY <2>1
    <2>4. stop[n] = -1 /\ step[n][q] = IF q >= 0 THEN q + 1 ELSE -1
        OBVIOUS
    <2> HIDE DEF back, stop, step
    <2> QED
        BY <2>2, <2>3, <2>4
<1> DEFINE k(g, n) == {i \in 1 .. 4 : /\ i <= n
                                      /\ g[n - i] >= 0
                                      /\ WellFormed(SubSeq(s, n - i + 1, n))}
           body(g, n) == IF n = 0 THEN 0 ELSE IF k(g, n) = {} THEN -1 ELSE g[n - Min(k(g, n))] + 1
<1>9. \A g : Counts(s, g) <=> g = [n \in 0 .. N |-> body(g, n)]
    BY Zenon DEF Counts
<1>10. ASSUME NEW g, NEW n \in 1 .. N
       PROVE  /\ k(g, n) = {i \in Ends(s, n) : g[n - i] >= 0}
              /\ (back[n] = 0 \/ ~(g[n - back[n]] >= 0)) => k(g, n) = {}
              /\ (back[n] # 0 /\ g[n - back[n]] >= 0)
                     => k(g, n) = {back[n]} /\ Min(k(g, n)) = back[n]
    <2>1. k(g, n) = {i \in Ends(s, n) : g[n - i] >= 0}
        BY EndsOK
    <2> HIDE DEF k, back
    <2>2. (back[n] = 0 \/ ~(g[n - back[n]] >= 0)) => k(g, n) = {}
        BY <1>2, <2>1, Zenon
    <2>3. (back[n] # 0 /\ g[n - back[n]] >= 0) => k(g, n) = {back[n]}
        BY <1>2, <2>1, Zenon
    <2>4. back[n] \in Nat
        BY <1>2
    <2> QED
        BY <2>1, <2>2, <2>3, <2>4, MinOfOne, Zenon
<1> HIDE DEF k
<1>11. Counts(s, f)
    <2>1. ASSUME NEW n \in 0 .. N PROVE f[n] = body(f, n)
        <3>1. CASE n = 0
            BY <1>7, <3>1
        <3>2. CASE n # 0
            <4>1. n \in 1 .. N
                BY <1>1, <3>2
            <4>2. PICK m \in Nat : m = back[n] /\ n - m \in 0 .. N
                BY <1>2, <4>1
            <4>3. f[n - m] \in Int
                BY <1>7, <4>2
            <4>4. CASE m = 0 \/ f[n - m] < 0
                <5>1. m = 0 \/ ~(f[n - m] >= 0)
                    BY <4>3, <4>4
                <5>2. k(f, n) = {}
                    BY <1>10, <4>1, <4>2, <5>1, Zenon
                <5>3. f[n] = -1
                    BY <1>8, <4>1, <4>2, <4>4, Zenon
                <5> QED
                    BY <3>2, <5>2, <5>3, Zenon
            <4>5. CASE ~(m = 0 \/ f[n - m] < 0)
                <5>1. m # 0 /\ f[n - m] >= 0
                    BY <4>3, <4>5
                <5>2. k(f, n) = {m} /\ Min(k(f, n)) = m
                    BY <1>10, <4>1, <4>2, <5>1, Zenon
                <5>3. f[n] = f[n - m] + 1
                    BY <1>8, <4>1, <4>2, <4>5, Zenon
                <5>4. k(f, n) # {}
                    BY <5>2, Zenon
                <5> QED
                    BY <3>2, <5>2, <5>3, <5>4, Zenon
            <4> QED
                BY <4>4, <4>5
        <3> QED
            BY <3>1, <3>2
    <2> HIDE DEF body
    <2>2. f = [n \in 0 .. N |-> body(f, n)]
        BY <1>7, <2>1
    <2> QED
        BY <1>9, <2>2, Zenon
<1>12. Counts(s, CHOOSE g : Counts(s, g))
    BY <1>11, Zenon
<1>13. Characters(s) = CHOOSE g : Counts(s, g)
    BY Zenon DEF Characters, Counts
<1>14. PICK c : c = Characters(s)
    OBVIOUS
<1>15. \A n \in 0 .. N : c[n] = body(c, n)
    <2>1. c = [n \in 0 .. N |-> body(c, n)]
        BY <1>9, <1>12, <1>13, <1>14, Zenon
    <2> HIDE DEF body
    <2> QED
        BY <2>1
<1>16. c[0] = 0
    BY <1>1, <1>15
<1>17. ASSUME NEW n \in 1 .. N
       PROVE  /\ (back[n] = 0 \/ ~(c[n - back[n]] >= 0)) => c[n] = -1
              /\ (back[n] # 0 /\ c[n - back[n]] >= 0) => c[n] = c[n - back[n]] + 1
    <2>1. n \in 0 .. N /\ n # 0
        BY <1>1
    <2>2. c[n] = IF k(c, n) = {} THEN -1 ELSE c[n - Min(k(c, n))] + 1
        BY <1>15, <2>1, Zenon
    <2> QED
        BY <1>10, <2>2, Zenon
<1> HIDE DEF back, N
<1>18. \A n \in 0 .. N : c[n] \in Int
    <2> DEFINE Bad == {n \in 0 .. N : c[n] \notin Int}
    <2> SUFFICES ASSUME Bad # {} PROVE FALSE
        OBVIOUS
    <2>1. Bad \in SUBSET Nat
        OBVIOUS
    <2>2. PICK n \in Bad : \A m \in Bad : n <= m
        <3> HIDE DEF Bad
        <3> QED
            BY <2>1, Smallest
    <2>3. n \in 1 .. N /\ c[n] \notin Int
        BY <1>1, <1>16, <2>2
    <2>4. CASE back[n] = 0 \/ ~(c[n - back[n]] >= 0)
        BY <1>17, <2>3, <2>4
    <2>5. CASE back[n] # 0 /\ c[n - back[n]] >= 0
        <3>1. n - back[n] \in 0 .. N /\ n - back[n] < n
            BY <1>2, <2>3, <2>5
        <3>2. n - back[n] \notin Bad
            BY <2>2, <2>3, <3>1
        <3>3. c[n - back[n]] \in Int
            BY <3>1, <3>2
        <3> QED
            BY <1>17, <2>3, <2>5, <3>3
    <2> QED
        BY <2>4, <2>5
<1>19. ASSUME NEW n \in 1 .. N, NEW b \in 1 .. 4,
              b <= n, c[n - b] >= 0, validate_next(s, n - b + 1) = b
       PROVE  c[n] = c[n - b] + 1
    <2>1. b \in Ends(s, n)
        BY <1>19 DEF Ends
    <2>2. back[n] = b /\ b # 0
        BY <1>2, <2>1
    <2> QED
        BY <1>17, <1>19, <2>2
<1>20. ASSUME NEW n \in 1 .. N, c[n] >= 0
       PROVE  \E b \in 1 .. 4 : /\ b <= n /\ c[n - b] >= 0 /\ validate_next(s, n - b + 1) = b
                                /\ c[n] = c[n - b] + 1
    <2>1. back[n] # 0 /\ c[n - back[n]] >= 0
        BY <1>17, <1>20
    <2>2. back[n] \in Ends(s, n)
        BY <1>2, <2>1
    <2>3. back[n] \in 1 .. 4 /\ back[n] <= n /\ validate_next(s, n - back[n] + 1) = back[n]
        BY <2>2 DEF Ends
    <2> QED
        BY <1>17, <2>1, <2>3
<1> QED
    BY <1>14, <1>16, <1>18, <1>19, <1>20 DEF N

\* A set of numbers up to a limit has a largest one.
LEMMA Largest ==
    ASSUME NEW N \in Nat, NEW S \in SUBSET (0 .. N), S # {}
    PROVE  Max(S) \in S /\ \A n \in S : n <= Max(S)
<1> DEFINE T == {N - n : n \in S}
<1>1. T \in SUBSET Nat /\ T # {}
    <2>1. ASSUME NEW n \in S PROVE N - n \in Nat
        <3>1. n \in 0 .. N
            OBVIOUS
        <3> QED
            BY <3>1
    <2>2. PICK n : n \in S
        BY Zenon
    <2>3. N - n \in T
        BY <2>2, Zenon
    <2> QED
        BY <2>1, <2>3
<1>2. PICK y \in T : \A z \in T : y <= z
    <2> HIDE DEF T
    <2> QED
        BY <1>1, Smallest
<1>3. PICK x \in S : y = N - x
    BY <1>2
<1>4. ASSUME NEW n \in S PROVE x >= n
    <2>1. N - n \in T
        OBVIOUS
    <2>2. y <= N - n
        BY <1>2, <2>1
    <2> QED
        BY <1>3, <2>2
<1>5. Max(S) \in S /\ \A n \in S : Max(S) >= n
    BY <1>4, Zenon DEF Max
<1>6. \A n \in S : n \in Int
    OBVIOUS
<1> QED
    BY <1>5, <1>6

\* The end of the longest text at the beginning of s.
Text(s) == Max({n \in 0 .. Len(s) : Characters(s)[n] >= 0})

\* It is the last position that is counted.
LEMMA TextOK ==
    ASSUME NEW s \in Seq(Bytes)
    PROVE  /\ Text(s) \in 0 .. Len(s) /\ Characters(s)[Text(s)] >= 0
           /\ \A n \in 0 .. Len(s) : Characters(s)[n] >= 0 => n <= Text(s)
<1> DEFINE S == {n \in 0 .. Len(s) : Characters(s)[n] >= 0}
<1>1. Len(s) \in Nat /\ 0 \in 0 .. Len(s)
    OBVIOUS
<1>2. Characters(s)[0] = 0
    BY CountOK
<1>3. S \in SUBSET (0 .. Len(s)) /\ 0 \in S
    BY <1>1, <1>2
<1>4. Max(S) \in S /\ \A n \in S : n <= Max(S)
    <2> HIDE DEF S
    <2> QED
        BY <1>1, <1>3, Largest, Zenon
<1> QED
    BY <1>4 DEF Text

\* What is counted has been gone through, character by character.
LEMMA GoneThrough ==
    ASSUME NEW s \in Seq(Bytes)
    PROVE  \A n \in 0 .. Len(s) : Characters(s)[n] >= 0 => After(s)[1] = After(s)[n + 1]
<1> DEFINE N == Len(s)
           count == Characters(s)
           Bad == {n \in 0 .. N : count[n] >= 0 /\ After(s)[1] # After(s)[n + 1]}
<1>1. N \in Nat
    OBVIOUS
<1> HIDE DEF count
<1>2. Bad = {}
    <2> SUFFICES ASSUME Bad # {} PROVE FALSE
        OBVIOUS
    <2>1. Bad \in SUBSET Nat
        OBVIOUS
    <2>2. PICK n \in Bad : \A m \in Bad : n <= m
        <3> HIDE DEF Bad
        <3> QED
            BY <2>1, Smallest
    <2>3. n \in 1 .. N /\ count[n] >= 0 /\ After(s)[1] # After(s)[n + 1]
        BY <2>2
    <2>4. PICK b \in 1 .. 4 : b <= n /\ count[n - b] >= 0 /\ validate_next(s, n - b + 1) = b
        BY <2>3, CountOK, Zenon DEF count
    <2>5. n - b \in 0 .. N /\ n - b < n /\ n - b + 1 \in 1 .. N /\ (n - b + 1) + b = n + 1 /\ b # 0
        BY <2>3, <2>4
    <2>6. n - b \notin Bad
        BY <2>2, <2>3, <2>5
    <2>7. After(s)[1] = After(s)[n - b + 1]
        BY <2>4, <2>5, <2>6
    <2>8. After(s)[n - b + 1] = After(s)[n + 1]
        BY <2>4, <2>5, AfterOK
    <2> QED
        BY <2>3, <2>7, <2>8
<1> QED
    BY <1>2 DEF count

\* find_invalid stops where the longest text ends.
LEMMA InvalidBehindText ==
    ASSUME NEW s \in Seq(Bytes)
    PROVE  find_invalid(s) = Text(s) + 1
<1> DEFINE N == Len(s)
<1>1. N \in Nat
    OBVIOUS
<1>2. PICK t \in 0 .. N : /\ t = Text(s) /\ Characters(s)[t] >= 0
                          /\ \A n \in 0 .. N : Characters(s)[n] >= 0 => n <= t
    BY TextOK
<1>3. find_invalid(s) = After(s)[t + 1]
    BY <1>2, GoneThrough, AfterOK
<1>4. CASE t = N
    BY <1>2, <1>3, <1>4, AfterOK
<1>5. CASE t # N
    <2>1. PICK i \in 1 .. N : i = t + 1
        BY <1>1, <1>5
    <2>2. validate_next(s, i) = 0
        <3> SUFFICES ASSUME validate_next(s, i) # 0 PROVE FALSE
            OBVIOUS
        <3>1. PICK b \in 1 .. 4 : b = validate_next(s, i) /\ i + b <= N + 1
            BY CharacterOK
        <3> DEFINE n == t + b
        <3>2. n \in 1 .. N /\ n = t + b /\ n - b = t /\ n - b + 1 = i /\ b <= n
            BY <1>1, <2>1, <3>1
        <3> HIDE DEF n
        <3>3. Characters(s)[n] = Characters(s)[n - b] + 1
            <4>1. Characters(s)[n - b] >= 0 /\ validate_next(s, n - b + 1) = b
                BY <1>2, <3>1, <3>2, Zenon
            <4> QED
                BY <3>2, <4>1, CountOK, Zenon
        <3>4. Characters(s)[t] \in Int
            BY CountOK
        <3>5. Characters(s)[n] >= 0 /\ n \in 0 .. N
            BY <1>2, <3>2, <3>3, <3>4, SMTT(30)
        <3>6. n <= t
            BY <1>2, <3>5
        <3> QED
            BY <3>2, <3>6
    <2> QED
        BY <1>2, <1>3, <2>1, <2>2, AfterOK
<1> QED
    BY <1>4, <1>5

-----------------------------------------------------------------------------
\* A character is the same in every line that has its bytes.
Agree(w, s, n) == Len(w) >= n /\ \A j \in 1 .. n : w[j] = s[j]

LEMMA SameCharacter ==
    ASSUME NEW s \in Seq(Bytes), NEW w \in Seq(Bytes), NEW n \in 0 .. Len(s), Agree(w, s, n),
           NEW i \in 1 .. n, NEW b \in 1 .. 4, i + b - 1 <= n, validate_next(s, i) = b
    PROVE  /\ i \in 1 .. Len(w) /\ validate_next(w, i) = b
           /\ code_point(w, i, b) = code_point(s, i, b)
<1>1. Len(w) \in Nat /\ Len(s) \in Nat /\ n <= Len(w) /\ n <= Len(s)
    BY DEF Agree
<1>2. i \in 1 .. Len(w) /\ i \in 1 .. Len(s) /\ i + b - 1 <= Len(w)
    BY <1>1
<1>3. \A j \in i .. i + b - 1 : w[j] = s[j]
    BY <1>1 DEF Agree
<1>4. w[i] = s[i]
    BY <1>3
<1>5. code_point(w, i, b) = code_point(s, i, b)
    <2>1. CASE b = 1
        BY <1>4, <2>1 DEF code_point
    <2>2. CASE b = 2
        <3>1. w[i + 1] = s[i + 1]
            BY <1>3, <2>2
        <3> QED
            BY <1>4, <2>2, <3>1 DEF code_point
    <2>3. CASE b = 3
        <3>1. w[i + 1] = s[i + 1] /\ w[i + 2] = s[i + 2]
            BY <1>3, <2>3
        <3> QED
            BY <1>4, <2>3, <3>1 DEF code_point
    <2>4. CASE b = 4
        <3>1. w[i + 1] = s[i + 1] /\ w[i + 2] = s[i + 2] /\ w[i + 3] = s[i + 3]
            BY <1>3, <2>4
        <3> QED
            BY <1>4, <2>4, <3>1 DEF code_point
    <2> QED
        BY <2>1, <2>2, <2>3, <2>4
<1>6. /\ sequence_length(s[i]) = b
      /\ \A k \in i + 1 .. i + b - 1 : is_trail(s[k])
      /\ Accepted(code_point(s, i, b), b)
    BY <1>2, ValidateNext
<1>7. \A k \in i + 1 .. i + b - 1 : is_trail(w[k])
    BY <1>3, <1>6
<1>8. validate_next(w, i) = b
    BY <1>2, <1>4, <1>5, <1>6, <1>7, ValidateNext
<1> QED
    BY <1>2, <1>5, <1>8

\* Three sequences may be joined in either order.
LEMMA Regroup ==
    ASSUME NEW a \in Seq(Int), NEW b \in Seq(Int), NEW c \in Seq(Int)
    PROVE  a \o (b \o c) = (a \o b) \o c
BY SMTT(30)

LEMMA Joined == \A a, b, c \in Seq(Int) : a \o (b \o c) = (a \o b) \o c
BY Regroup, Zenon

\* The code points of the first n bytes of s begin those of every line that begins so.
Begins(s, n, cps) ==
    /\ cps \in Seq(Nat)
    /\ Len(cps) = Characters(s)[n]
    /\ \A w \in Seq(Bytes) : Agree(w, s, n) => utf8to32(w) = cps \o From(w)[n + 1]

LEMMA BeginningDecoded ==
    ASSUME NEW s \in Seq(Bytes)
    PROVE  \A n \in 0 .. Len(s) : Characters(s)[n] >= 0 => \E cps : Begins(s, n, cps)
<1> DEFINE N == Len(s)
           count == Characters(s)
           Bad == {n \in 0 .. N : count[n] >= 0 /\ ~(\E cps : Begins(s, n, cps))}
<1>1. N \in Nat
    OBVIOUS
<1>2. \E cps : Begins(s, 0, cps)
    <2>1. <<>> \in Seq(Nat) /\ Len(<<>>) = 0
        OBVIOUS
    <2>2. count[0] = 0
        BY CountOK
    <2>3. ASSUME NEW w \in Seq(Bytes) PROVE utf8to32(w) = <<>> \o From(w)[0 + 1]
        <3>1. utf8to32(w) = From(w)[1]
            BY FromOK
        <3>2. 1 \in 1 .. Len(w) + 1
            OBVIOUS
        <3>3. From(w)[1] \in Seq(Int)
            BY <3>2, FromOK
        <3>4. <<>> \o From(w)[1] = From(w)[1]
            BY <3>3, ConcatEmptySeq
        <3> QED
            BY <3>1, <3>4
    <2>4. Begins(s, 0, <<>>)
        BY <2>1, <2>2, <2>3 DEF Begins
    <2> QED
        BY <2>4
<1> HIDE DEF count
<1>3. Bad = {}
    <2> SUFFICES ASSUME Bad # {} PROVE FALSE
        OBVIOUS
    <2>1. Bad \in SUBSET Nat
        OBVIOUS
    <2>2. PICK n \in Bad : \A m \in Bad : n <= m
        <3> HIDE DEF Bad
        <3> QED
            BY <2>1, Smallest
    <2>3. n \in 0 .. N /\ count[n] >= 0 /\ ~(\E cps : Begins(s, n, cps))
        BY <2>2
    <2>4. n \in 1 .. N
        BY <1>1, <1>2, <2>3
    <2>5. PICK b \in 1 .. 4 : /\ b <= n /\ count[n - b] >= 0 /\ validate_next(s, n - b + 1) = b
                              /\ count[n] = count[n - b] + 1
        BY <2>3, <2>4, CountOK, Zenon DEF count
    <2>6. PICK m \in 0 .. N, i \in 1 .. n :
              /\ m = n - b /\ m < n /\ i = m + 1 /\ i + b = n + 1
              /\ i + b - 1 <= n /\ i \in 1 .. N /\ b # 0
        BY <1>1, <2>4, <2>5
    <2>7. m \notin Bad
        BY <2>2, <2>3, <2>6
    <2>8. PICK cps : Begins(s, m, cps)
        BY <2>5, <2>6, <2>7
    <2>9. cps \in Seq(Nat) /\ Len(cps) = count[m]
        BY <2>8 DEF Begins, count
    <2>10. PICK cp \in Nat : cp = code_point(s, i, b)
        <3>1. validate_next(s, i) = b
            BY <2>5, <2>6
        <3> QED
            BY <2>6, <3>1, CharacterOK
    <2> DEFINE more == cps \o <<cp>>
    <2>11. more \in Seq(Nat) /\ Len(more) = count[n]
        BY <2>5, <2>6, <2>9, <2>10
    <2>12. ASSUME NEW w \in Seq(Bytes), Agree(w, s, n)
           PROVE  utf8to32(w) = more \o From(w)[n + 1]
        <3>1. Agree(w, s, m)
            <4>1. \A j \in 1 .. m : j \in 1 .. n
                BY <2>6
            <4>2. Len(w) \in Nat /\ Len(w) >= n /\ m < n /\ \A j \in 1 .. n : w[j] = s[j]
                BY <2>6, <2>12 DEF Agree
            <4>3. Len(w) >= m
                BY <2>4, <2>6, <4>2, SMTT(30)
            <4> QED
                BY <4>1, <4>2, <4>3 DEF Agree
        <3>2. utf8to32(w) = cps \o From(w)[i]
            BY <2>6, <2>8, <3>1 DEF Begins
        <3>3. i \in 1 .. Len(w) /\ validate_next(w, i) = b /\ code_point(w, i, b) = cp
            <4>1. validate_next(s, i) = b
                BY <2>5, <2>6
            <4> QED
                BY <2>3, <2>6, <2>10, <2>12, <4>1, SameCharacter
        <3>4. From(w)[i] = <<cp>> \o From(w)[n + 1]
            BY <2>6, <3>3, FromOK, Zenon
        <3>5. n + 1 \in 1 .. Len(w) + 1
            BY <2>4, <2>12 DEF Agree
        <3>6. From(w)[n + 1] \in Seq(Int)
            BY <3>5, FromOK
        <3>7. cps \in Seq(Int) /\ cp \in Int
            BY <2>9, <2>10
        <3> DEFINE one == <<cp>>
        <3>8. one \in Seq(Int) /\ more = cps \o one /\ From(w)[i] = one \o From(w)[n + 1]
            BY <3>4, <3>7
        <3> HIDE DEF Bad, more, one
        <3>9. cps \o (one \o From(w)[n + 1]) = (cps \o one) \o From(w)[n + 1]
            BY <3>6, <3>7, <3>8, Joined, Zenon
        <3> QED
            BY <3>2, <3>8, <3>9, Zenon
    <2> HIDE DEF more
    <2>13. Begins(s, n, more)
        BY <2>11, <2>12 DEF Begins, count
    <2> QED
        BY <2>3, <2>13
<1> QED
    BY <1>3 DEF count

\* What convert works on: the code points of the longest text.
LEMMA Converted ==
    ASSUME NEW s \in Seq(Bytes), NEW cps, Begins(s, Text(s), cps)
    PROVE  utf32line(s) = cps
<1>1. Text(s) \in 0 .. Len(s) /\ Len(s) \in Nat
    BY TextOK
<1>2. PICK t \in 0 .. Len(s) : t = Text(s)
    BY <1>1
<1>3. find_invalid(s) - 1 = t
    BY <1>2, InvalidBehindText
<1> DEFINE w == SubSeq(s, 1, t)
<1>4. w \in Seq(Bytes) /\ Len(w) = t /\ \A j \in 1 .. t : w[j] = s[j]
    BY <1>1
<1>5. utf32line(s) = utf8to32(w)
    BY <1>3, Zenon DEF utf32line
<1> HIDE DEF w
<1>6. Agree(w, s, t)
    BY <1>4 DEF Agree
<1>7. utf8to32(w) = cps \o From(w)[t + 1]
    BY <1>2, <1>4, <1>6 DEF Begins
<1>8. From(w)[t + 1] = <<>>
    BY <1>4, FromOK
<1>9. cps \o <<>> = cps
    BY ConcatEmptySeq DEF Begins
<1> QED
    BY <1>5, <1>7, <1>8, <1>9

-----------------------------------------------------------------------------
(***************************************************************************)
(* The line.                                                               *)
(***************************************************************************)
\* The line holds bytes.
LineType == line \in Seq(Bytes)

\* Whatever is written is a byte.
LEMMA WrittenIsBytes ==
    LineNext /\ LineType => LineType' /\ \E byte \in Bytes : line' = Append(line, byte)
<1> SUFFICES ASSUME LineNext, LineType
             PROVE  LineType' /\ \E byte \in Bytes : line' = Append(line, byte)
    OBVIOUS
<1>1. PICK byte \in TextBytes : line' = Append(line, byte)
    BY DEF LineNext, WriteByte
<1>2. byte \in Bytes
    BY <1>1, TextBytesAssumption DEF Bytes
<1> QED
    BY <1>1, <1>2 DEF LineType

\* A line is always a sequence of bytes: the invariant of all the theorems below.
THEOREM LineIsBytes == LineSpec => []LineType
<1>1. LineInit => LineType
    BY DEF LineInit, LineType
<1>2. LineType /\ [LineNext]_line => LineType'
    <2>1. CASE LineNext
        BY <2>1, WrittenIsBytes
    <2>2. CASE UNCHANGED line
        BY <2>2 DEF LineType
    <2> QED
        BY <2>1, <2>2
<1> QED
    BY <1>1, <1>2, PTL DEF LineSpec

\* convert replaces the code points one by one.
LEMMA ConvertIs ==
    ASSUME NEW s, NEW cps \in Seq(Nat), utf32line(s) = cps
    PROVE  convert(s) = [i \in 1 .. Len(cps) |-> ebu_char(cps[i])]
BY Zenon DEF convert

\* What is converted of a line of bytes is the longest text at its beginning.
LEMMA LongestText == LineType => LongestTextConverted
<1> SUFFICES ASSUME LineType PROVE LongestTextConverted
    OBVIOUS
<1>1. line \in Seq(Bytes)
    BY DEF LineType
<1> DEFINE count == Characters(line)
           text == Text(line)
<1>2. text \in 0 .. Len(line) /\ count[text] >= 0
    BY <1>1, TextOK
<1>3. find_invalid(line) = text + 1
    BY <1>1, InvalidBehindText
<1>4. PICK cps : Begins(line, text, cps)
    BY <1>1, <1>2, BeginningDecoded
<1>5. cps \in Seq(Nat) /\ Len(cps) = count[text]
    BY <1>4 DEF Begins
<1>6. utf32line(line) = cps
    BY <1>1, <1>4, Converted
<1>7. Len(convert(line)) = count[text]
    <2>1. convert(line) = [i \in 1 .. Len(cps) |-> ebu_char(cps[i])]
        BY <1>5, <1>6, ConvertIs
    <2>2. Len(cps) \in Nat
        BY <1>5
    <2>3. Len(convert(line)) = Len(cps)
        BY <2>1, <2>2
    <2> QED
        BY <1>5, <2>3
<1>8. ~Contains(cps, EXCEPTION)
    BY <1>5 DEF Contains, EXCEPTION
<1> QED
    BY <1>3, <1>6, <1>7, <1>8, Zenon DEF LongestTextConverted, Text

\* Of every line, whatever bytes it is made of, exactly the longest text at its
\* beginning is converted.
THEOREM LongestConverted == LineSpec => []LongestTextConverted
BY LineIsBytes, LongestText, PTL

\* A character is sent as its place in the table, or as a blank.
LEMMA PlaceFound ==
    ASSUME NEW a \in 1 .. 255
    PROVE  ebu_char(m_conversion_table[a]) = a
<1> DEFINE cp == m_conversion_table[a]
<1>1. Contains(m_conversion_table, cp)
    BY TableLength DEF Contains
<1>2. ebu_char(cp) \in 1 .. 255 /\ m_conversion_table[ebu_char(cp)] = cp
    BY <1>1, CharacterOrBlank
<1> QED
    BY <1>2, TableDistinct

LEMMA NoPlace ==
    ASSUME NEW cp, \A a \in 1 .. 255 : m_conversion_table[a] # cp
    PROVE  ebu_char(cp) = 32
<1>1. ~Contains(m_conversion_table, cp)
    BY TableLength DEF Contains
<1> QED
    BY <1>1 DEF ebu_char

\* Every character is sent as it should be.
LEMMA CharacterInPlace ==
    ASSUME NEW cp
    PROVE  /\ cp \in LikeASCII => ebu_char(cp) = cp
           /\ cp \in RegularCapitals => ebu_char(SmallLetter(cp)) = PlaceOfSmall(ebu_char(cp))
           /\ \A place \in (1 .. 255) \ {ebu_char(cp)} : m_conversion_table[place] # cp
<1>1. cp \in LikeASCII => ebu_char(cp) = cp
    BY TableLikeASCII, PlaceFound
<1>2. \A place \in 1 .. 255 : m_conversion_table[place] = cp => place = ebu_char(cp)
    BY PlaceFound
<1>3. ASSUME cp \in RegularCapitals PROVE ebu_char(SmallLetter(cp)) = PlaceOfSmall(ebu_char(cp))
    <2>1. CASE \E a \in 1 .. 255 : m_conversion_table[a] = cp
        <3>1. PICK a \in 1 .. 255 : m_conversion_table[a] = cp
            BY <2>1
        <3>2. PlaceOfSmall(a) \in 1 .. 255 /\ m_conversion_table[PlaceOfSmall(a)] = SmallLetter(cp)
            BY <1>3, <3>1, TableSmall
        <3>3. ebu_char(SmallLetter(cp)) = PlaceOfSmall(a)
            BY <3>2, PlaceFound
        <3> QED
            BY <1>2, <3>1, <3>3
    <2>2. CASE \A a \in 1 .. 255 : m_conversion_table[a] # cp
        <3>1. \A a \in 1 .. 255 : m_conversion_table[a] # SmallLetter(cp)
            BY <1>3, <2>2, TableCapital, SmallOfCapital
        <3>2. ebu_char(cp) = 32 /\ ebu_char(SmallLetter(cp)) = 32
            BY <2>2, <3>1, NoPlace
        <3> QED
            BY <3>2 DEF PlaceOfSmall
    <2> QED
        BY <2>1, <2>2
<1> QED
    BY <1>1, <1>2, <1>3

LEMMA LineInPlace == LineType => CharactersInPlace
<1> SUFFICES ASSUME LineType PROVE CharactersInPlace
    OBVIOUS
<1>1. line \in Seq(Bytes)
    BY DEF LineType
<1>2. Text(line) \in 0 .. Len(line) /\ Characters(line)[Text(line)] >= 0
    BY <1>1, TextOK
<1>3. PICK cps : Begins(line, Text(line), cps)
    BY <1>1, <1>2, BeginningDecoded
<1>4. cps \in Seq(Nat) /\ utf32line(line) = cps
    BY <1>1, <1>3, Converted DEF Begins
<1>5. convert(line) = [i \in 1 .. Len(cps) |-> ebu_char(cps[i])]
    BY <1>4, ConvertIs
<1>6. ASSUME NEW i \in 1 .. Len(cps)
      PROVE  /\ cps[i] \in LikeASCII => convert(line)[i] = cps[i]
             /\ cps[i] \in RegularCapitals
                    => ebu_char(SmallLetter(cps[i])) = PlaceOfSmall(convert(line)[i])
             /\ \A place \in (1 .. 255) \ {convert(line)[i]} : m_conversion_table[place] # cps[i]
    <2>1. convert(line)[i] = ebu_char(cps[i])
        BY <1>5
    <2> QED
        BY <2>1, CharacterInPlace, Zenon
<1> QED
    BY <1>4, <1>6, Zenon DEF CharactersInPlace

\* No character of a line is sent in a wrong place: the table is like ASCII where EBU Latin
\* is, capital and small letters are at their distances, and each character is in it once
\* (CharsetConverter's table and convert).
THEOREM EachInPlace == LineSpec => []CharactersInPlace
BY LineIsBytes, LineInPlace, PTL

\* What has been counted stays counted when a byte is added.
LEMMA CountKept ==
    ASSUME NEW s \in Seq(Bytes), NEW byte \in Bytes
    PROVE  \A n \in 0 .. Len(s) :
               Characters(s)[n] >= 0 => Characters(Append(s, byte))[n] >= 0
<1> DEFINE w == Append(s, byte)
           N == Len(s)
           a == Characters(s)
           c == Characters(w)
           Bad == {n \in 0 .. N : a[n] >= 0 /\ ~(c[n] >= 0)}
<1>1. w \in Seq(Bytes) /\ Len(w) = N + 1 /\ N \in Nat /\ \A j \in 1 .. N : w[j] = s[j]
    OBVIOUS
<1> HIDE DEF w
<1>2. c[0] = 0
    BY <1>1, CountOK
<1>3. \A n \in 0 .. N : c[n] \in Int
    <2>1. \A n \in 0 .. N : n \in 0 .. Len(w)
        BY <1>1
    <2> QED
        BY <1>1, <2>1, CountOK
<1> HIDE DEF a, c
<1>4. Bad = {}
    <2> SUFFICES ASSUME Bad # {} PROVE FALSE
        OBVIOUS
    <2>1. Bad \in SUBSET Nat
        OBVIOUS
    <2>2. PICK n \in Bad : \A m \in Bad : n <= m
        <3> HIDE DEF Bad
        <3> QED
            BY <2>1, Smallest
    <2>3. n \in 1 .. N /\ a[n] >= 0 /\ ~(c[n] >= 0)
        BY <1>2, <2>2
    <2>4. PICK b \in 1 .. 4 : b <= n /\ a[n - b] >= 0 /\ validate_next(s, n - b + 1) = b
        BY <2>3, CountOK, Zenon DEF a
    <2>5. n - b \in 0 .. N /\ n - b < n
        BY <2>3, <2>4
    <2>6. n - b \notin Bad
        BY <2>2, <2>3, <2>5
    <2>7. c[n - b] >= 0
        BY <2>4, <2>5, <2>6
    <2>8. PICK i \in 1 .. n : i = n - b + 1 /\ i + b - 1 <= n
        BY <2>3, <2>4
    <2>9. n \in 0 .. Len(s) /\ n \in 1 .. Len(w)
        BY <1>1, <2>3
    <2>10. Agree(w, s, n)
        BY <1>1, <2>3 DEF Agree
    <2>11. validate_next(w, i) = b
        <3>1. validate_next(s, i) = b
            BY <2>4, <2>8
        <3> QED
            BY <1>1, <2>8, <2>9, <2>10, <3>1, SameCharacter
    <2>12. c[n] = c[n - b] + 1
        <3>1. validate_next(w, n - b + 1) = b
            BY <2>8, <2>11
        <3> QED
            BY <1>1, <2>4, <2>7, <2>9, <3>1, CountOK, Zenon DEF c
    <2> QED
        BY <1>3, <2>3, <2>5, <2>7, <2>12
<1> QED
    BY <1>4 DEF a, c, w

\* One byte more does not change what was converted before.
LEMMA PrefixKept ==
    ASSUME NEW s \in Seq(Bytes), NEW byte \in Bytes
    PROVE  IsPrefix(convert(s), convert(Append(s, byte)))
<1> DEFINE w == Append(s, byte)
           t == Text(s)
           u == Text(w)
<1>1. /\ w \in Seq(Bytes) /\ Len(w) = Len(s) + 1 /\ Len(s) \in Nat
      /\ \A j \in 1 .. Len(s) : w[j] = s[j]
    OBVIOUS
<1> HIDE DEF w
<1>2. t \in 0 .. Len(s) /\ Characters(s)[t] >= 0
    BY TextOK
<1>3. /\ u \in 0 .. Len(w) /\ Characters(w)[u] >= 0
      /\ \A n \in 0 .. Len(w) : Characters(w)[n] >= 0 => n <= u
    BY <1>1, TextOK
<1>4. t <= u
    <2>1. Characters(w)[t] >= 0
        BY <1>2, CountKept DEF w
    <2>2. t \in 0 .. Len(w)
        BY <1>1, <1>2
    <2> QED
        BY <1>3, <2>1, <2>2
<1>5. PICK p : Begins(s, t, p)
    BY <1>2, BeginningDecoded
<1>6. PICK q : Begins(w, u, q)
    BY <1>1, <1>3, BeginningDecoded
<1>7. utf32line(s) = p /\ utf32line(w) = q
    BY <1>1, <1>5, <1>6, Converted
<1>8. p \in Seq(Nat) /\ q \in Seq(Nat)
    BY <1>5, <1>6 DEF Begins
<1> HIDE DEF t, u
<1> DEFINE x == SubSeq(w, 1, u)
<1>9. x \in Seq(Bytes) /\ Len(x) = u /\ \A j \in 1 .. u : x[j] = w[j]
    BY <1>1, <1>3
<1> HIDE DEF x
<1>10. Agree(x, s, t) /\ Agree(x, w, u)
    BY <1>1, <1>2, <1>3, <1>4, <1>9 DEF Agree
<1>11. PICK rest \in Seq(Int) : rest = From(x)[t + 1]
    <2>1. t + 1 \in 1 .. Len(x) + 1
        BY <1>2, <1>3, <1>4, <1>9
    <2> QED
        BY <1>9, <2>1, FromOK
<1>12. utf8to32(x) = p \o rest
    BY <1>5, <1>9, <1>10, <1>11, Zenon DEF Begins
<1>13. utf8to32(x) = q
    <2>1. utf8to32(x) = q \o From(x)[u + 1]
        BY <1>6, <1>9, <1>10, Zenon DEF Begins
    <2>2. From(x)[u + 1] = <<>>
        BY <1>9, FromOK
    <2>3. q \o <<>> = q
        BY <1>8, ConcatEmptySeq
    <2> QED
        BY <2>1, <2>2, <2>3, Zenon
<1>14. q = p \o rest
    BY <1>12, <1>13
<1>15. p \in Seq(Int)
    BY <1>8
<1>16. Len(p) \in Nat /\ Len(q) \in Nat /\ Len(p) <= Len(q) /\ \A i \in 1 .. Len(p) : q[i] = p[i]
    BY <1>8, <1>11, <1>14, <1>15
<1> DEFINE a == [i \in 1 .. Len(p) |-> ebu_char(p[i])]
           b == [i \in 1 .. Len(q) |-> ebu_char(q[i])]
<1>17. convert(s) = a /\ convert(w) = b
    BY <1>7, <1>8, ConvertIs
<1>18. Len(a) = Len(p) /\ Len(b) = Len(q)
    BY <1>16
<1>19. \A i \in 1 .. Len(p) : a[i] = b[i]
    BY <1>16
<1> HIDE DEF a, b
<1>20. SubSeq(a, 1, Len(a)) = SubSeq(b, 1, Len(a))
    BY <1>16, <1>18, <1>19
<1>21. IsPrefix(a, b)
    BY <1>16, <1>18, <1>20 DEF IsPrefix
<1> QED
    BY <1>17, <1>21 DEF w

\* However a line is written, what a reader converts of it is the beginning of what it will be.
THEOREM CutLinePrefix == LineSpec => CutLineIsPrefix
<1>1. LineType /\ [LineNext]_line => [IsPrefix(convert(line), convert(line'))]_line
    <2> SUFFICES ASSUME LineType, LineNext PROVE IsPrefix(convert(line), convert(line'))
        OBVIOUS
    <2>1. PICK byte \in Bytes : line' = Append(line, byte)
        BY WrittenIsBytes
    <2> QED
        BY <2>1, PrefixKept DEF LineType
<1> QED
    BY <1>1, LineIsBytes, PTL DEF LineSpec, CutLineIsPrefix

\* Of every line, whatever bytes it is made of, the receiver accepts the CRC.
THEOREM CRCRemainder == LineSpec => []CRCIsRemainder
<1>1. LineType => CRCIsRemainder
    BY ReceiverAccepts DEF LineType, CRCIsRemainder
<1> QED
    BY <1>1, LineIsBytes, PTL
=============================================================================
