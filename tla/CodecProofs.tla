----------------------------- MODULE CodecProofs -----------------------------
(***************************************************************************)
(* The codecs for byte strings of every length: each decoder accepts the   *)
(* spellings of a byte string and nothing else, and returns that string.   *)
(***************************************************************************)
EXTENDS Codecs, WellFoundedInduction, TLAPS

\* A function on 1 .. n is a sequence.
LEMMA IsText ==
    ASSUME NEW S, NEW n \in Nat, NEW F, F = [i \in 1 .. n |-> F[i]],
           \A i \in 1 .. n : F[i] \in S
    PROVE  F \in Seq(S) /\ Len(F) = n
OBVIOUS

\* A sequence is a function on its places.
LEMMA TextIs ==
    ASSUME NEW S, NEW s \in Seq(S), NEW n, n = Len(s)
    PROVE  /\ n \in Nat /\ DOMAIN s = 1 .. n /\ \A i \in 1 .. n : s[i] \in S
           /\ s = [i \in 1 .. n |-> s[i]]
<1>1. n \in Nat /\ DOMAIN s = 1 .. n /\ \A i \in 1 .. n : s[i] \in S
  OBVIOUS
<1>2. s = [i \in 1 .. n |-> s[i]]
  BY <1>1
<1> QED BY <1>1, <1>2

\* Sequences of one length with the same elements are equal.
LEMMA SameText ==
    ASSUME NEW S, NEW T, NEW s \in Seq(S), NEW t \in Seq(T), Len(s) = Len(t),
           \A i \in 1 .. Len(s) : s[i] = t[i]
    PROVE  s = t
OBVIOUS

\* The elements of two sequences that are joined.
LEMMA Joined ==
    ASSUME NEW S, NEW s \in Seq(S), NEW t \in Seq(S)
    PROVE  /\ s \o t \in Seq(S) /\ Len(s \o t) = Len(s) + Len(t)
           /\ \A i \in 1 .. Len(s) : (s \o t)[i] = s[i]
           /\ \A i \in Len(s) + 1 .. Len(s) + Len(t) : (s \o t)[i] = t[i - Len(s)]
OBVIOUS

\* Texts with the same places have the same length.
LEMMA SameLength ==
    ASSUME NEW m \in Nat, NEW n \in Nat, 1 .. m = 1 .. n
    PROVE  m = n
<1>1. CASE m < n
  <2>1. n \in 1 .. n /\ n \notin 1 .. m
    BY <1>1
  <2> QED BY <2>1
<1>2. CASE n < m
  <2>1. m \in 1 .. m /\ m \notin 1 .. n
    BY <1>2
  <2> QED BY <2>1
<1> QED BY <1>1, <1>2

\* No byte string is Rejected.
LEMMA RejectedIsNoBytes == Rejected \notin Seq(Bytes)
BY DEF Rejected, Bytes

-----------------------------------------------------------------------------
(* hex.cpp *)

\* A byte is two nibbles.
LEMMA NibbleParts ==
    ASSUME NEW v \in Bytes
    PROVE  /\ v \div 16 \in 0 .. 15 /\ v % 16 \in 0 .. 15
           /\ (v \div 16) * 16 + (v % 16) = v
BY DEF Bytes

\* Two nibbles are a byte.
LEMMA NibblesJoined ==
    ASSUME NEW h \in 0 .. 15, NEW l \in 0 .. 15
    PROVE  h * 16 + l \in Bytes /\ (h * 16 + l) \div 16 = h /\ (h * 16 + l) % 16 = l
BY DEF Bytes

\* A nibble is read from the digit that is written for it.
LEMMA NibbleRead ==
    ASSUME NEW v \in 0 .. 15
    PROVE  DecodeNibble(EncodeNibble(v)) = v /\ EncodeNibble(v) \in Bytes
BY DEF DecodeNibble, EncodeNibble, Digits, Bytes

\* A digit in lower case.
Lowered(ch) == IF ch \in 65 .. 70 THEN ch + 32 ELSE ch

\* A nibble has two spellings, which differ in their case only.
LEMMA NibbleSpelled ==
    ASSUME NEW ch \in Bytes, DecodeNibble(ch) >= 0
    PROVE  DecodeNibble(ch) \in 0 .. 15 /\ EncodeNibble(DecodeNibble(ch)) = Lowered(ch)
BY DEF DecodeNibble, EncodeNibble, Digits, Bytes, Lowered

\* A character that is a digit in lower case is a digit.
LEMMA NibbleLowered ==
    ASSUME NEW ch \in Bytes, NEW v \in 0 .. 15, Lowered(ch) = EncodeNibble(v)
    PROVE  DecodeNibble(ch) = v
BY DEF DecodeNibble, EncodeNibble, Digits, Bytes, Lowered

\* The places of the two digits of a byte.
LEMMA DigitPlaces ==
    ASSUME NEW n \in Nat, NEW i \in 1 .. n
    PROVE  /\ 2 * i - 1 \in 1 .. 2 * n /\ 2 * i \in 1 .. 2 * n
           /\ (2 * i - 1) % 2 = 1 /\ (2 * i) % 2 = 0
           /\ ((2 * i - 1) + 1) \div 2 = i /\ (2 * i) \div 2 = i
OBVIOUS

\* The byte that a digit belongs to.
LEMMA DigitPlace ==
    ASSUME NEW n \in Nat, NEW k \in 1 .. 2 * n
    PROVE  \/ k % 2 = 1 /\ (k + 1) \div 2 \in 1 .. n /\ 2 * ((k + 1) \div 2) - 1 = k
           \/ k % 2 = 0 /\ k \div 2 \in 1 .. n /\ 2 * (k \div 2) = k
OBVIOUS

\* Every digit is the first or the second of a byte.
LEMMA DigitOwner ==
    ASSUME NEW n \in Nat, NEW k \in 1 .. 2 * n
    PROVE  \E i \in 1 .. n : k = 2 * i - 1 \/ k = 2 * i
<1>1. CASE k % 2 = 1 /\ (k + 1) \div 2 \in 1 .. n /\ 2 * ((k + 1) \div 2) - 1 = k
  BY <1>1
<1>2. CASE k % 2 = 0 /\ k \div 2 \in 1 .. n /\ 2 * (k \div 2) = k
  BY <1>2
<1> QED BY <1>1, <1>2, DigitPlace

\* A text of an even length is made of pairs.
LEMMA Halves ==
    ASSUME NEW n \in Nat, n % 2 = 0
    PROVE  n \div 2 \in Nat /\ 2 * (n \div 2) = n
OBVIOUS

\* What hex_encode writes.
LEMMA HexWritten ==
    ASSUME NEW b \in Seq(Bytes)
    PROVE  /\ HexEncode(b) \in Seq(Bytes) /\ Len(HexEncode(b)) = 2 * Len(b)
           /\ \A i \in 1 .. Len(b) :
                 /\ HexEncode(b)[2 * i - 1] = EncodeNibble(b[i] \div 16)
                 /\ HexEncode(b)[2 * i] = EncodeNibble(b[i] % 16)
<1> DEFINE F == HexEncode(b)
           n == Len(b)
           Digit(k) == EncodeNibble(IF k % 2 = 1 THEN b[(k + 1) \div 2] \div 16 ELSE b[k \div 2] % 16)
<1>1. n \in Nat /\ 2 * n \in Nat
  OBVIOUS
<1>2. F = [k \in 1 .. 2 * n |-> Digit(k)]
  BY DEF HexEncode
<1>3. ASSUME NEW k \in 1 .. 2 * n PROVE Digit(k) \in Bytes
  <2>1. CASE k % 2 = 1 /\ (k + 1) \div 2 \in 1 .. n
    <3> DEFINE v == b[(k + 1) \div 2]
    <3>1. v \in Bytes
      BY <2>1
    <3>2. Digit(k) = EncodeNibble(v \div 16)
      BY <2>1
    <3> HIDE DEF v, Digit
    <3>3. v \div 16 \in 0 .. 15
      BY <3>1, NibbleParts
    <3> QED BY <3>2, <3>3, NibbleRead
  <2>2. CASE k % 2 = 0 /\ k \div 2 \in 1 .. n
    <3> DEFINE v == b[k \div 2]
    <3>1. v \in Bytes
      BY <2>2
    <3>2. Digit(k) = EncodeNibble(v % 16)
      BY <2>2
    <3> HIDE DEF v, Digit
    <3>3. v % 16 \in 0 .. 15
      BY <3>1, NibbleParts
    <3> QED BY <3>2, <3>3, NibbleRead
  <2> QED BY <1>1, <2>1, <2>2, DigitPlace
<1>4. \A i \in 1 .. n : /\ 2 * i - 1 \in 1 .. 2 * n /\ Digit(2 * i - 1) = EncodeNibble(b[i] \div 16)
                        /\ 2 * i \in 1 .. 2 * n /\ Digit(2 * i) = EncodeNibble(b[i] % 16)
  BY <1>1, DigitPlaces
<1> HIDE DEF F, Digit, n
<1>5. F \in Seq(Bytes) /\ Len(F) = 2 * n
  BY <1>1, <1>2, <1>3, IsText
<1>6. \A i \in 1 .. n : F[2 * i - 1] = EncodeNibble(b[i] \div 16) /\ F[2 * i] = EncodeNibble(b[i] % 16)
  BY <1>2, <1>4
<1> QED BY <1>5, <1>6 DEF F, n

\* What hex_decode reads of a text that it accepts.
LEMMA HexRead ==
    ASSUME NEW s \in Seq(Bytes), Len(s) % 2 = 0, \A i \in 1 .. Len(s) : DecodeNibble(s[i]) >= 0
    PROVE  /\ HexDecode(s) \in Seq(Bytes) /\ Len(HexDecode(s)) = Len(s) \div 2
           /\ \A i \in 1 .. Len(s) \div 2 :
                 HexDecode(s)[i] = DecodeNibble(s[2 * i - 1]) * 16 + DecodeNibble(s[2 * i])
<1> DEFINE n == Len(s) \div 2
           Byte(i) == DecodeNibble(s[2 * i - 1]) * 16 + DecodeNibble(s[2 * i])
<1>1. n \in Nat /\ 2 * n = Len(s)
  OBVIOUS
<1>2. HexDecode(s) = [i \in 1 .. n |-> Byte(i)]
  BY DEF HexDecode
<1>3. ASSUME NEW i \in 1 .. n PROVE Byte(i) \in Bytes
  <2>1. s[2 * i - 1] \in Bytes /\ s[2 * i] \in Bytes /\ 2 * i - 1 \in 1 .. Len(s) /\ 2 * i \in 1 .. Len(s)
    BY <1>1, DigitPlaces
  <2>2. DecodeNibble(s[2 * i - 1]) \in 0 .. 15 /\ DecodeNibble(s[2 * i]) \in 0 .. 15
    BY <2>1, NibbleSpelled
  <2> QED BY <2>2, NibblesJoined
<1> HIDE DEF Byte, n
<1>4. HexDecode(s) \in Seq(Bytes) /\ Len(HexDecode(s)) = n
  BY <1>1, <1>2, <1>3, IsText
<1> QED BY <1>2, <1>4 DEF Byte, n

\* hex_decode accepts a text of a byte string, in upper or lower case, and nothing else.
THEOREM HexIsStrict ==
    ASSUME NEW s \in Seq(Bytes), NEW b \in Seq(Bytes)
    PROVE  HexDecode(s) = b <=> [i \in DOMAIN s |-> Lowered(s[i])] = HexEncode(b)
<1> DEFINE low == [i \in DOMAIN s |-> Lowered(s[i])]
<1>0. /\ DOMAIN s = 1 .. Len(s) /\ Len(s) \in Nat /\ Len(b) \in Nat /\ DOMAIN low = 1 .. Len(s)
      /\ \A i \in 1 .. Len(s) : low[i] = Lowered(s[i]) /\ s[i] \in Bytes
      /\ \A i \in 1 .. Len(b) : b[i] \in Bytes
  OBVIOUS
<1>1. ASSUME HexDecode(s) = b PROVE low = HexEncode(b)
  <2>1. Len(s) % 2 = 0 /\ \A i \in 1 .. Len(s) : DecodeNibble(s[i]) >= 0
    BY <1>0, <1>1, RejectedIsNoBytes DEF HexDecode
  <2>2. /\ Len(b) = Len(s) \div 2
        /\ \A i \in 1 .. Len(b) : b[i] = DecodeNibble(s[2 * i - 1]) * 16 + DecodeNibble(s[2 * i])
    BY <1>1, <2>1, HexRead
  <2>3. 2 * Len(b) = Len(s)
    BY <1>0, <2>1, <2>2, Halves
  <2>4. ASSUME NEW i \in 1 .. Len(b)
        PROVE  low[2 * i - 1] = HexEncode(b)[2 * i - 1] /\ low[2 * i] = HexEncode(b)[2 * i]
    <3>1. 2 * i - 1 \in 1 .. Len(s) /\ 2 * i \in 1 .. Len(s)
      BY <1>0, <2>3
    <3> DEFINE h == DecodeNibble(s[2 * i - 1])
               l == DecodeNibble(s[2 * i])
    <3>2. /\ h \in 0 .. 15 /\ EncodeNibble(h) = low[2 * i - 1]
          /\ l \in 0 .. 15 /\ EncodeNibble(l) = low[2 * i]
      BY <1>0, <2>1, <3>1, NibbleSpelled
    <3>3. b[i] = h * 16 + l
      BY <2>2
    <3> HIDE DEF h, l
    <3>4. b[i] \div 16 = h /\ b[i] % 16 = l
      BY <3>2, <3>3, NibblesJoined
    <3> QED BY <3>2, <3>4, HexWritten
  <2>5. ASSUME NEW k \in 1 .. Len(s) PROVE low[k] = HexEncode(b)[k]
    <3>1. \E i \in 1 .. Len(b) : k = 2 * i - 1 \/ k = 2 * i
      BY <1>0, <2>3, DigitOwner
    <3> QED BY <2>4, <3>1
  <2>6. HexEncode(b) \in Seq(Bytes) /\ Len(HexEncode(b)) = Len(s)
    BY <2>3, HexWritten
  <2>7. low \in Seq(Range(low)) /\ Len(low) = Len(s)
    <3> HIDE DEF low
    <3> QED BY <1>0, IsText DEF low, Range
  <2> HIDE DEF low
  <2> QED BY <2>5, <2>6, <2>7, SameText
<1>2. ASSUME low = HexEncode(b) PROVE HexDecode(s) = b
  <2>1. /\ Len(s) = 2 * Len(b)
        /\ \A i \in 1 .. Len(b) : /\ Lowered(s[2 * i - 1]) = EncodeNibble(b[i] \div 16)
                                  /\ Lowered(s[2 * i]) = EncodeNibble(b[i] % 16)
    <3>0. HexEncode(b) \in Seq(Bytes) /\ Len(HexEncode(b)) = 2 * Len(b)
      BY HexWritten
    <3>1. DOMAIN HexEncode(b) = 1 .. 2 * Len(b) /\ 2 * Len(b) \in Nat
      BY <1>0, <3>0
    <3>2. Len(s) = 2 * Len(b)
      <4>1. 1 .. Len(s) = 1 .. 2 * Len(b)
        BY <1>0, <1>2, <3>1
      <4> QED BY <1>0, <3>1, <4>1, SameLength
    <3>3. \A i \in 1 .. Len(b) : 2 * i - 1 \in 1 .. Len(s) /\ 2 * i \in 1 .. Len(s)
      BY <1>0, <3>2
    <3> HIDE DEF low
    <3> QED BY <1>0, <1>2, <3>2, <3>3, HexWritten
  <2>2. ASSUME NEW i \in 1 .. Len(b)
        PROVE  /\ DecodeNibble(s[2 * i - 1]) \in 0 .. 15 /\ DecodeNibble(s[2 * i]) \in 0 .. 15
               /\ DecodeNibble(s[2 * i - 1]) * 16 + DecodeNibble(s[2 * i]) = b[i]
    <3> DEFINE h == b[i] \div 16
               l == b[i] % 16
    <3>0. 2 * i - 1 \in 1 .. Len(s) /\ 2 * i \in 1 .. Len(s)
      BY <1>0, <2>1
    <3>1. h \in 0 .. 15 /\ l \in 0 .. 15 /\ h * 16 + l = b[i]
      BY <1>0, NibbleParts
    <3>2. Lowered(s[2 * i - 1]) = EncodeNibble(h) /\ Lowered(s[2 * i]) = EncodeNibble(l)
      BY <2>1
    <3> HIDE DEF h, l
    <3>3. s[2 * i - 1] \in Bytes /\ s[2 * i] \in Bytes
      BY <1>0, <3>0
    <3>4. DecodeNibble(s[2 * i - 1]) = h
      BY <3>1, <3>2, <3>3, NibbleLowered
    <3>5. DecodeNibble(s[2 * i]) = l
      BY <3>1, <3>2, <3>3, NibbleLowered
    <3> QED BY <3>1, <3>4, <3>5
  <2>3. Len(s) % 2 = 0 /\ Len(s) \div 2 = Len(b)
    <3> DEFINE m == Len(b)
    <3>1. m \in Nat /\ Len(s) = 2 * m
      BY <1>0, <2>1
    <3> HIDE DEF m
    <3>2. (2 * m) % 2 = 0 /\ (2 * m) \div 2 = m
      BY <3>1
    <3> QED BY <3>1, <3>2 DEF m
  <2>4. ASSUME NEW k \in 1 .. Len(s) PROVE DecodeNibble(s[k]) >= 0
    <3>0. Len(b) \in Nat /\ k \in 1 .. 2 * Len(b)
      BY <1>0, <2>1
    <3>1. PICK i \in 1 .. Len(b) : k = 2 * i - 1 \/ k = 2 * i
      BY <3>0, DigitOwner
    <3>2. DecodeNibble(s[k]) \in 0 .. 15
      BY <2>2, <3>1
    <3> QED BY <3>2
  <2>5. /\ HexDecode(s) \in Seq(Bytes) /\ Len(HexDecode(s)) = Len(b)
        /\ \A i \in 1 .. Len(b) : HexDecode(s)[i] = b[i]
    BY <2>2, <2>3, <2>4, HexRead
  <2> QED BY <2>5, SameText
<1> QED BY <1>1, <1>2

\* hex_decode reads what hex_encode has written.
THEOREM HexRoundTrip ==
    ASSUME NEW b \in Seq(Bytes)
    PROVE  HexDecode(HexEncode(b)) = b
<1>1. HexEncode(b) \in Seq(Bytes) /\ Len(HexEncode(b)) = 2 * Len(b)
  BY HexWritten
<1>2. ASSUME NEW k \in 1 .. 2 * Len(b) PROVE Lowered(HexEncode(b)[k]) = HexEncode(b)[k]
  <2>1. \E v \in 0 .. 15 : HexEncode(b)[k] = EncodeNibble(v)
    <3>1. PICK i \in 1 .. Len(b) : k = 2 * i - 1 \/ k = 2 * i
      <4>1. Len(b) \in Nat
        OBVIOUS
      <4> QED BY <4>1, DigitOwner
    <3>2. b[i] \div 16 \in 0 .. 15 /\ b[i] % 16 \in 0 .. 15
      BY NibbleParts
    <3> QED BY <3>1, <3>2, HexWritten
  <2> QED BY <2>1 DEF EncodeNibble, Lowered
<1>3. [k \in DOMAIN HexEncode(b) |-> Lowered(HexEncode(b)[k])] = HexEncode(b)
  BY <1>1, <1>2
<1> QED BY <1>1, <1>3, HexIsStrict

-----------------------------------------------------------------------------
(* base64.cpp *)

\* The characters of the alphabet, and what each is read as.
LEMMA CharRead ==
    ASSUME NEW v \in 0 .. 63
    PROVE  /\ Alphabet[v] \in Uppers \cup Lowers \cup Digits \cup {Plus, Slash}
           /\ DecodeChar(Alphabet[v]) = v
<1>1. CASE v < 26
  <2>1. Alphabet[v] = 65 + v
    BY <1>1 DEF Alphabet
  <2> QED BY <1>1, <2>1 DEF DecodeChar, Uppers, Lowers, Digits, Plus, Slash
<1>2. CASE v \in 26 .. 51
  <2>1. Alphabet[v] = 97 + v - 26
    BY <1>2 DEF Alphabet
  <2> QED BY <1>2, <2>1 DEF DecodeChar, Uppers, Lowers, Digits, Plus, Slash
<1>3. CASE v \in 52 .. 61
  <2>1. Alphabet[v] = 48 + v - 52
    BY <1>3 DEF Alphabet
  <2> QED BY <1>3, <2>1 DEF DecodeChar, Uppers, Lowers, Digits, Plus, Slash
<1>4. CASE v = 62
  <2>1. Alphabet[v] = Plus
    BY <1>4 DEF Alphabet
  <2> QED BY <1>4, <2>1 DEF DecodeChar, Uppers, Lowers, Digits, Plus, Slash
<1>5. CASE v = 63
  <2>1. Alphabet[v] = Slash
    BY <1>5 DEF Alphabet
  <2> QED BY <1>5, <2>1 DEF DecodeChar, Uppers, Lowers, Digits, Plus, Slash
<1> QED BY <1>1, <1>2, <1>3, <1>4, <1>5

\* No character of the alphabet is padding or one that base64url writes instead.
LEMMA CharsDiffer ==
    ASSUME NEW ch \in Uppers \cup Lowers \cup Digits \cup {Plus, Slash}
    PROVE  ch \in Bytes /\ ch # Equals /\ ch # Minus /\ ch # Underscore
BY DEF Uppers, Lowers, Digits, Plus, Slash, Equals, Minus, Underscore, Bytes

\* Three bytes are cut into four parts of six bits, and the parts make them up.
LEMMA SixBits ==
    ASSUME NEW x \in Bytes, NEW y \in Bytes, NEW z \in Bytes
    PROVE  LET c0 == x \div 4
               c1 == (x % 4) * 16 + (y \div 16)
               c2 == (y % 16) * 4 + (z \div 64)
               c3 == z % 64
           IN /\ c0 \in 0 .. 63 /\ c1 \in 0 .. 63 /\ c2 \in 0 .. 63 /\ c3 \in 0 .. 63
              /\ c0 * 4 + (c1 \div 16) = x
              /\ (c1 % 16) * 16 + (c2 \div 4) = y
              /\ (c2 % 4) * 64 + c3 = z
BY DEF Bytes

\* The groups of a byte string: how many, and the padding of the last.
LEMMA GroupCount ==
    ASSUME NEW n \in Nat
    PROVE  LET G == (n + 2) \div 3 IN
           /\ G \in Nat /\ 3 * G - n \in 0 .. 2
           /\ (4 * G) % 4 = 0 /\ (4 * G) \div 4 = G
OBVIOUS

\* The group of a character, and its place in it.
LEMMA CharPlace ==
    ASSUME NEW G \in Nat, NEW k \in 1 .. 4 * G
    PROVE  LET g == ((k - 1) \div 4) + 1 IN
           /\ g \in 1 .. G /\ 3 * ((k - 1) \div 4) + 1 = 3 * g - 2
           /\ \/ k = 4 * g - 3 /\ (k - 1) % 4 = 0
              \/ k = 4 * g - 2 /\ (k - 1) % 4 = 1
              \/ k = 4 * g - 1 /\ (k - 1) % 4 = 2
              \/ k = 4 * g /\ (k - 1) % 4 = 3
OBVIOUS

\* The group of a byte, and its place in it.
LEMMA BytePlace ==
    ASSUME NEW n \in Nat, NEW k \in 1 .. n
    PROVE  LET g == ((k - 1) \div 3) + 1 IN
           /\ g \in 1 .. (n + 2) \div 3 /\ 4 * ((k - 1) \div 3) + 1 = 4 * g - 3
           /\ \/ k = 3 * g - 2 /\ (k - 1) % 3 = 0
              \/ k = 3 * g - 1 /\ (k - 1) % 3 = 1
              \/ k = 3 * g /\ (k - 1) % 3 = 2
OBVIOUS

\* The bytes of a group; those that are missing are read as zero.
LEMMA AtIsByte ==
    ASSUME NEW b \in Seq(Bytes), NEW i \in Int
    PROVE  At(b, i) \in Bytes /\ (i \in 1 .. Len(b) => At(b, i) = b[i]) /\ (i \notin 1 .. Len(b) => At(b, i) = 0)
BY DEF At, Bytes

\* What base64_encode writes: the four characters of each group.
LEMMA Base64Written ==
    ASSUME NEW b \in Seq(Bytes)
    PROVE  LET G == (Len(b) + 2) \div 3
               E == Base64Encode(b)
           IN /\ G \in Nat /\ E \in Seq(Bytes) /\ Len(E) = 4 * G
              /\ \A g \in 1 .. G :
                    LET x == At(b, 3 * g - 2)
                        y == At(b, 3 * g - 1)
                        z == At(b, 3 * g)
                    IN /\ E[4 * g - 3] = Alphabet[x \div 4]
                       /\ E[4 * g - 2] = Alphabet[(x % 4) * 16 + (y \div 16)]
                       /\ E[4 * g - 1] = IF 3 * g - 1 <= Len(b) THEN Alphabet[(y % 16) * 4 + (z \div 64)] ELSE Equals
                       /\ E[4 * g] = IF 3 * g <= Len(b) THEN Alphabet[z % 64] ELSE Equals
<1> DEFINE n == Len(b)
           G == (n + 2) \div 3
           E == Base64Encode(b)
           Char(k) == EncodeGroup(b, 3 * ((k - 1) \div 4) + 1)[((k - 1) % 4) + 1]
           x(g) == At(b, 3 * g - 2)
           y(g) == At(b, 3 * g - 1)
           z(g) == At(b, 3 * g)
           C0(g) == Alphabet[x(g) \div 4]
           C1(g) == Alphabet[(x(g) % 4) * 16 + (y(g) \div 16)]
           C2(g) == IF 3 * g - 1 <= n THEN Alphabet[(y(g) % 16) * 4 + (z(g) \div 64)] ELSE Equals
           C3(g) == IF 3 * g <= n THEN Alphabet[z(g) % 64] ELSE Equals
<1>1. n \in Nat /\ G \in Nat /\ 4 * G \in Nat /\ 3 * G >= n /\ 3 * G <= n + 2
  BY GroupCount
<1>2. E = [k \in 1 .. 4 * G |-> Char(k)]
  BY DEF Base64Encode
<1>3. ASSUME NEW g \in 1 .. G
      PROVE  EncodeGroup(b, 3 * g - 2) = <<C0(g), C1(g), C2(g), C3(g)>>
  <2>1. 3 * g - 2 \in 1 .. n
    BY <1>1
  <2>2. /\ (3 * g - 2) + 1 = 3 * g - 1 /\ (3 * g - 2) + 2 = 3 * g
        /\ b[3 * g - 2] = x(g)
        /\ 3 * g - 1 <= n => b[3 * g - 1] = y(g)
        /\ 3 * g <= n => b[3 * g] = z(g)
    BY <2>1 DEF At
  <2> HIDE DEF x, y, z
  <2> QED BY <2>2 DEF EncodeGroup, x, y, z
<1>4. ASSUME NEW g \in 1 .. G
      PROVE  /\ C0(g) \in Bytes /\ C1(g) \in Bytes /\ C2(g) \in Bytes /\ C3(g) \in Bytes
  <2>1. x(g) \in Bytes /\ y(g) \in Bytes /\ z(g) \in Bytes
    BY AtIsByte
  <2>2. \A v \in 0 .. 63 : Alphabet[v] \in Bytes
    BY CharRead, CharsDiffer
  <2>3. Equals \in Bytes
    BY DEF Equals, Bytes
  <2> HIDE DEF x, y, z
  <2>4. /\ x(g) \div 4 \in 0 .. 63 /\ (x(g) % 4) * 16 + (y(g) \div 16) \in 0 .. 63
        /\ (y(g) % 16) * 4 + (z(g) \div 64) \in 0 .. 63 /\ z(g) % 64 \in 0 .. 63
    BY <2>1, SixBits
  <2> QED BY <2>2, <2>3, <2>4
<1>5. ASSUME NEW k \in 1 .. 4 * G
      PROVE  \E g \in 1 .. G : \/ k = 4 * g - 3 /\ Char(k) = C0(g)
                               \/ k = 4 * g - 2 /\ Char(k) = C1(g)
                               \/ k = 4 * g - 1 /\ Char(k) = C2(g)
                               \/ k = 4 * g /\ Char(k) = C3(g)
  <2> DEFINE g == ((k - 1) \div 4) + 1
  <2>1. /\ g \in 1 .. G /\ 3 * ((k - 1) \div 4) + 1 = 3 * g - 2
        /\ \/ k = 4 * g - 3 /\ (k - 1) % 4 = 0
           \/ k = 4 * g - 2 /\ (k - 1) % 4 = 1
           \/ k = 4 * g - 1 /\ (k - 1) % 4 = 2
           \/ k = 4 * g /\ (k - 1) % 4 = 3
    BY <1>1, CharPlace
  <2>2. Char(k) = <<C0(g), C1(g), C2(g), C3(g)>>[((k - 1) % 4) + 1]
    BY <1>3, <2>1
  <2> HIDE DEF g, C0, C1, C2, C3, Char
  <2> QED BY <2>1, <2>2
<1> HIDE DEF Char, C0, C1, C2, C3, E, G, n
<1>6. \A k \in 1 .. 4 * G : Char(k) \in Bytes
  BY <1>4, <1>5
<1>7. E \in Seq(Bytes) /\ Len(E) = 4 * G
  BY <1>1, <1>2, <1>6, IsText
<1>8. ASSUME NEW g \in 1 .. G
      PROVE  E[4 * g - 3] = C0(g) /\ E[4 * g - 2] = C1(g) /\ E[4 * g - 1] = C2(g) /\ E[4 * g] = C3(g)
  <2>2. /\ 4 * g - 3 \in 1 .. 4 * G /\ 4 * g - 2 \in 1 .. 4 * G /\ 4 * g - 1 \in 1 .. 4 * G /\ 4 * g \in 1 .. 4 * G
    BY <1>1
  <2>3. Char(4 * g - 3) = C0(g) /\ Char(4 * g - 2) = C1(g) /\ Char(4 * g - 1) = C2(g) /\ Char(4 * g) = C3(g)
    <3>2. Char(4 * g - 3) = C0(g)
      BY <1>1, <1>5, <2>2
    <3>3. Char(4 * g - 2) = C1(g)
      BY <1>1, <1>5, <2>2
    <3>4. Char(4 * g - 1) = C2(g)
      BY <1>1, <1>5, <2>2
    <3>5. Char(4 * g) = C3(g)
      BY <1>1, <1>5, <2>2
    <3> QED BY <3>2, <3>3, <3>4, <3>5
  <2> QED BY <1>2, <2>2, <2>3
<1> QED BY <1>1, <1>7, <1>8 DEF E, G, n, C0, C1, C2, C3

\* The characters of base64: padding fills the end of the last group and is nowhere else.
LEMMA Base64Characters ==
    ASSUME NEW b \in Seq(Bytes)
    PROVE  LET E == Base64Encode(b)
               G == (Len(b) + 2) \div 3
           IN \A k \in 1 .. 4 * G :
                 IF k <= G + Len(b)
                 THEN E[k] \in Uppers \cup Lowers \cup Digits \cup {Plus, Slash} /\ DecodeChar(E[k]) \in 0 .. 63
                 ELSE E[k] = Equals
<1> DEFINE n == Len(b)
           G == (n + 2) \div 3
           E == Base64Encode(b)
           Coded(ch) == ch \in Uppers \cup Lowers \cup Digits \cup {Plus, Slash} /\ DecodeChar(ch) \in 0 .. 63
<1>1. n \in Nat /\ G \in Nat /\ 3 * G >= n /\ 3 * G <= n + 2
  BY GroupCount
<1> SUFFICES ASSUME NEW k \in 1 .. 4 * G PROVE IF k <= G + n THEN Coded(E[k]) ELSE E[k] = Equals
  OBVIOUS
<1>2. PICK g \in 1 .. G : k \in {4 * g - 3, 4 * g - 2, 4 * g - 1, 4 * g}
  BY <1>1, CharPlace
<1> DEFINE x == At(b, 3 * g - 2)
           y == At(b, 3 * g - 1)
           z == At(b, 3 * g)
<1>3. /\ E[4 * g - 3] = Alphabet[x \div 4]
      /\ E[4 * g - 2] = Alphabet[(x % 4) * 16 + (y \div 16)]
      /\ E[4 * g - 1] = IF 3 * g - 1 <= n THEN Alphabet[(y % 16) * 4 + (z \div 64)] ELSE Equals
      /\ E[4 * g] = IF 3 * g <= n THEN Alphabet[z % 64] ELSE Equals
  BY Base64Written
<1>4. /\ x \div 4 \in 0 .. 63 /\ (x % 4) * 16 + (y \div 16) \in 0 .. 63
      /\ (y % 16) * 4 + (z \div 64) \in 0 .. 63 /\ z % 64 \in 0 .. 63
  <2>1. x \in Bytes /\ y \in Bytes /\ z \in Bytes
    BY AtIsByte
  <2> HIDE DEF x, y, z
  <2> QED BY <2>1, SixBits
<1>5. \A v \in 0 .. 63 : Coded(Alphabet[v])
  BY CharRead
<1> HIDE DEF Coded, E, x, y, z
<1>6. /\ 4 * g - 3 <= G + n /\ 4 * g - 2 <= G + n
      /\ 4 * g - 1 <= G + n <=> 3 * g - 1 <= n
      /\ 4 * g <= G + n <=> 3 * g <= n
  <2> HIDE DEF n, G
  <2>1. g \in Nat /\ g >= 1 /\ g <= G
    BY <1>1
  <2> QED BY ONLY <1>1, <2>1
<1>7. /\ Coded(E[4 * g - 3]) /\ Coded(E[4 * g - 2])
      /\ IF 3 * g - 1 <= n THEN Coded(E[4 * g - 1]) ELSE E[4 * g - 1] = Equals
      /\ IF 3 * g <= n THEN Coded(E[4 * g]) ELSE E[4 * g] = Equals
  BY <1>3, <1>4, <1>5
<1> HIDE DEF G, n
<1> QED BY ONLY <1>2, <1>6, <1>7

\* How many characters of padding a base64 text has.
LEMMA Base64Padding ==
    ASSUME NEW b \in Seq(Bytes)
    PROVE  /\ ValidBase64(Base64Encode(b))
           /\ Padding(Base64Encode(b)) = 3 * ((Len(b) + 2) \div 3) - Len(b)
<1> DEFINE n == Len(b)
           G == (n + 2) \div 3
           E == Base64Encode(b)
<1>1. n \in Nat /\ G \in Nat /\ 3 * G - n \in 0 .. 2 /\ (4 * G) % 4 = 0
  BY GroupCount
<1>2. E \in Seq(Bytes) /\ Len(E) = 4 * G /\ DOMAIN E = 1 .. 4 * G
  BY Base64Written
<1>3. \A k \in 1 .. 4 * G : IF k <= G + n THEN E[k] # Equals /\ DecodeChar(E[k]) >= 0 ELSE E[k] = Equals
  <2>1. ASSUME NEW k \in 1 .. 4 * G
        PROVE  IF k <= G + n
               THEN E[k] \in Uppers \cup Lowers \cup Digits \cup {Plus, Slash} /\ DecodeChar(E[k]) \in 0 .. 63
               ELSE E[k] = Equals
    BY Base64Characters
  <2>2. \A ch \in Uppers \cup Lowers \cup Digits \cup {Plus, Slash} : ch # Equals
    BY CharsDiffer
  <2>3. \A i \in 0 .. 63 : i >= 0
    OBVIOUS
  <2> HIDE DEF E, G, n
  <2> QED BY <2>1, <2>2, <2>3
<1> HIDE DEF E, G, n
<1>4. G + n <= 4 * G /\ G + n >= 4 * G - 2 /\ (G > 0 => G + n >= 2)
  BY <1>1
<1>5. ASSUME NEW p \in 1 .. 2 PROVE EndsIn(E, p) <=> G > 0 /\ G + n <= 4 * G - p
  BY <1>1, <1>2, <1>3, <1>4 DEF EndsIn
<1>6. Padding(E) = 3 * G - n
  BY <1>1, <1>4, <1>5 DEF Padding
<1>7. ValidBase64(E)
  BY <1>1, <1>2, <1>3, <1>4 DEF ValidBase64
<1> QED BY <1>6, <1>7 DEF E, G, n

\* A group that base64_encode wrote is read as the bytes that it was made of.
LEMMA GroupRead ==
    ASSUME NEW b \in Seq(Bytes), NEW g \in 1 .. (Len(b) + 2) \div 3
    PROVE  DecodeGroup(Base64Encode(b), 4 * g - 3) = <<At(b, 3 * g - 2), At(b, 3 * g - 1), At(b, 3 * g)>>
<1> DEFINE n == Len(b)
           E == Base64Encode(b)
           x == At(b, 3 * g - 2)
           y == At(b, 3 * g - 1)
           z == At(b, 3 * g)
           c0 == x \div 4
           c1 == (x % 4) * 16 + (y \div 16)
           c2 == (y % 16) * 4 + (z \div 64)
           c3 == z % 64
           C(k) == IF E[k] = Equals THEN 0 ELSE DecodeChar(E[k])
<1>1. n \in Nat /\ g \in Nat \ {0}
  BY GroupCount
<1>2. /\ E[4 * g - 3] = Alphabet[c0]
      /\ E[4 * g - 2] = Alphabet[c1]
      /\ E[4 * g - 1] = IF 3 * g - 1 <= n THEN Alphabet[c2] ELSE Equals
      /\ E[4 * g] = IF 3 * g <= n THEN Alphabet[c3] ELSE Equals
  BY Base64Written
<1>3. /\ x \in Bytes /\ y \in Bytes /\ z \in Bytes
      /\ ~(3 * g - 1 <= n) => y = 0 /\ z = 0
      /\ ~(3 * g <= n) => z = 0
  BY <1>1, AtIsByte
<1>4. /\ c0 \in 0 .. 63 /\ c1 \in 0 .. 63 /\ c2 \in 0 .. 63 /\ c3 \in 0 .. 63
      /\ c0 * 4 + (c1 \div 16) = x
      /\ (c1 % 16) * 16 + (c2 \div 4) = y
      /\ (c2 % 4) * 64 + c3 = z
  <2> HIDE DEF x, y, z
  <2> QED BY <1>3, SixBits
<1>5. /\ ~(3 * g - 1 <= n) => c2 = 0
      /\ ~(3 * g <= n) => c3 = 0
  <2> HIDE DEF x, y, z
  <2> QED BY <1>3
<1>6. \A v \in 0 .. 63 : Alphabet[v] # Equals /\ DecodeChar(Alphabet[v]) = v
  BY CharRead, CharsDiffer
<1>7. C(4 * g - 3) = c0 /\ C(4 * g - 2) = c1 /\ C(4 * g - 1) = c2 /\ C(4 * g) = c3
  <2> HIDE DEF c0, c1, c2, c3, E, n
  <2> QED BY <1>2, <1>4, <1>5, <1>6
<1>8. (4 * g - 3) + 1 = 4 * g - 2 /\ (4 * g - 3) + 2 = 4 * g - 1 /\ (4 * g - 3) + 3 = 4 * g
  BY <1>1
<1>9. DecodeGroup(E, 4 * g - 3)
        = <<C(4 * g - 3) * 4 + (C(4 * g - 2) \div 16),
            (C(4 * g - 2) % 16) * 16 + (C(4 * g - 1) \div 4),
            (C(4 * g - 1) % 4) * 64 + C(4 * g)>>
  <2> HIDE DEF E
  <2> QED BY <1>8 DEF DecodeGroup
<1> HIDE DEF C, c0, c1, c2, c3, E
<1> QED BY <1>4, <1>7, <1>9 DEF E

\* base64_decode reads what base64_encode has written.
THEOREM Base64RoundTrip ==
    ASSUME NEW b \in Seq(Bytes)
    PROVE  Base64Decode(Base64Encode(b)) = b
<1> DEFINE n == Len(b)
           G == (n + 2) \div 3
           E == Base64Encode(b)
           Read(k) == DecodeGroup(E, 4 * ((k - 1) \div 3) + 1)[((k - 1) % 3) + 1]
<1>1. n \in Nat /\ G \in Nat /\ (4 * G) \div 4 = G /\ 3 * G - (3 * G - n) = n
  BY GroupCount
<1>2. ValidBase64(E) /\ Padding(E) = 3 * G - n /\ Len(E) = 4 * G
  BY Base64Padding, Base64Written
<1>3. DecodeGroups(E) = [k \in 1 .. n |-> Read(k)]
  <2>1. 3 * (Len(E) \div 4) - Padding(E) = n
    BY <1>1, <1>2
  <2> QED BY <2>1 DEF DecodeGroups
<1>4. ASSUME NEW k \in 1 .. n PROVE Read(k) = b[k] /\ b[k] \in Bytes
  <2> DEFINE g == ((k - 1) \div 3) + 1
  <2>1. /\ g \in 1 .. G /\ 4 * ((k - 1) \div 3) + 1 = 4 * g - 3
        /\ \/ k = 3 * g - 2 /\ (k - 1) % 3 = 0
           \/ k = 3 * g - 1 /\ (k - 1) % 3 = 1
           \/ k = 3 * g /\ (k - 1) % 3 = 2
    BY <1>1, BytePlace
  <2>2. DecodeGroup(E, 4 * g - 3) = <<At(b, 3 * g - 2), At(b, 3 * g - 1), At(b, 3 * g)>>
    BY <2>1, GroupRead
  <2>3. Read(k) = <<At(b, 3 * g - 2), At(b, 3 * g - 1), At(b, 3 * g)>>[((k - 1) % 3) + 1]
    BY <2>1, <2>2
  <2> HIDE DEF Read, g
  <2>4. Read(k) = At(b, k)
    BY <2>1, <2>3
  <2> QED BY <2>4, AtIsByte
<1> HIDE DEF Read, E
<1>5. DecodeGroups(E) = b
  BY <1>1, <1>3, <1>4
<1> QED BY <1>2, <1>5 DEF Base64Decode, E

\* base64_decode accepts the one text that base64_encode writes for a byte string, and
\* nothing else.
THEOREM Base64IsStrict ==
    ASSUME NEW s, NEW b \in Seq(Bytes)
    PROVE  Base64Decode(s) = b <=> s = Base64Encode(b)
<1>1. ASSUME Base64Decode(s) = b PROVE s = Base64Encode(b)
  BY <1>1, RejectedIsNoBytes DEF Base64Decode
<1> QED BY <1>1, Base64RoundTrip

\* What four digits of six bits make are bytes.
LEMMA BytesJoined ==
    ASSUME NEW t \in 0 .. 63, NEW u \in 0 .. 63
    PROVE  t * 4 + (u \div 16) \in Bytes /\ (t % 16) * 16 + (u \div 4) \in Bytes /\ (t % 4) * 64 + u \in Bytes
<1>1. t * 4 + (u \div 16) \in 0 .. 255
  OBVIOUS
<1>2. (t % 16) * 16 + (u \div 4) \in 0 .. 255
  OBVIOUS
<1>3. (t % 4) * 64 + u \in 0 .. 255
  OBVIOUS
<1> QED BY <1>1, <1>2, <1>3 DEF Bytes

\* A character is read as a digit or is none.
LEMMA CharType ==
    ASSUME NEW ch \in Bytes
    PROVE  DecodeChar(ch) \in -1 .. 63
<1>1. CASE ch \in Uppers
  BY <1>1 DEF DecodeChar, Uppers, Lowers, Digits, Plus, Slash
<1>2. CASE ch \in Lowers
  BY <1>2 DEF DecodeChar, Uppers, Lowers, Digits, Plus, Slash
<1>3. CASE ch \in Digits
  BY <1>3 DEF DecodeChar, Uppers, Lowers, Digits, Plus, Slash
<1>4. CASE ch = Plus
  BY <1>4 DEF DecodeChar, Uppers, Lowers, Digits, Plus, Slash
<1>5. CASE ch = Slash
  BY <1>5 DEF DecodeChar, Uppers, Lowers, Digits, Plus, Slash
<1>6. CASE ch \notin Uppers \cup Lowers \cup Digits \cup {Plus, Slash}
  BY <1>6 DEF DecodeChar
<1> QED BY <1>1, <1>2, <1>3, <1>4, <1>5, <1>6

\* base64_decode returns a byte string or throws.
LEMMA Base64DecodeType ==
    ASSUME NEW s \in Seq(Bytes)
    PROVE  Base64Decode(s) \in Seq(Bytes) \cup {Rejected}
<1> SUFFICES ASSUME ValidBase64(s) PROVE DecodeGroups(s) \in Seq(Bytes)
  BY DEF Base64Decode
<1> DEFINE q == Len(s) \div 4
           n == 3 * q - Padding(s)
           Group(k) == DecodeGroup(s, 4 * ((k - 1) \div 3) + 1)
           Byte(k) == Group(k)[((k - 1) % 3) + 1]
           C(k) == IF s[k] = Equals THEN 0 ELSE DecodeChar(s[k])
<1>1. q \in Nat /\ Len(s) = 4 * q
  BY DEF ValidBase64
<1>2. n \in Nat /\ n <= 3 * q
  BY <1>1 DEF Padding, EndsIn
<1>3. ASSUME NEW k \in 1 .. 4 * q PROVE C(k) \in 0 .. 63
  <2>1. k \in DOMAIN s /\ s[k] \in Bytes
    BY <1>1
  <2>2. s[k] # Equals => DecodeChar(s[k]) >= 0
    BY <2>1 DEF ValidBase64
  <2> DEFINE c == DecodeChar(s[k])
  <2>3. c \in -1 .. 63
    BY <2>1, CharType
  <2>4. C(k) = 0 \/ (C(k) = c /\ c >= 0)
    BY <2>2
  <2> HIDE DEF c, C
  <2>5. c >= 0 => c \in 0 .. 63
    BY <2>3
  <2>6. 0 \in 0 .. 63
    OBVIOUS
  <2> QED BY <2>4, <2>5, <2>6, Zenon
<1>4. ASSUME NEW k \in 1 .. n PROVE Byte(k) \in Bytes
  <2> DEFINE g == ((k - 1) \div 3) + 1
             t == C(4 * g - 3)
             u == C(4 * g - 2)
             v == C(4 * g - 1)
             w == C(4 * g)
  <2>1. g \in 1 .. q /\ 4 * ((k - 1) \div 3) + 1 = 4 * g - 3 /\ (k - 1) % 3 \in 0 .. 2
    BY <1>1, <1>2
  <2>2. t \in 0 .. 63 /\ u \in 0 .. 63 /\ v \in 0 .. 63 /\ w \in 0 .. 63
    <3>1. 4 * g - 3 \in 1 .. 4 * q /\ 4 * g - 2 \in 1 .. 4 * q /\ 4 * g - 1 \in 1 .. 4 * q /\ 4 * g \in 1 .. 4 * q
      BY <1>1, <2>1
    <3> HIDE DEF C, g, q
    <3> QED BY <1>3, <3>1
  <2>3. Group(k) = <<t * 4 + (u \div 16), (u % 16) * 16 + (v \div 4), (v % 4) * 64 + w>>
    <3>1. g \in Int /\ (4 * g - 3) + 1 = 4 * g - 2 /\ (4 * g - 3) + 2 = 4 * g - 1 /\ (4 * g - 3) + 3 = 4 * g
      BY <2>1
    <3>2. Group(k) = DecodeGroup(s, 4 * g - 3)
      BY <2>1
    <3> HIDE DEF g, Group
    <3> QED BY <3>1, <3>2 DEF DecodeGroup
  <2> HIDE DEF t, u, v, w, Group
  <2>4. /\ t * 4 + (u \div 16) \in Bytes /\ (u % 16) * 16 + (v \div 4) \in Bytes /\ (v % 4) * 64 + w \in Bytes
    BY <2>2, BytesJoined
  <2> HIDE DEF g
  <2> QED BY <2>1, <2>3, <2>4
<1>5. DecodeGroups(s) = [k \in 1 .. n |-> Byte(k)]
  BY DEF DecodeGroups
<1> HIDE DEF n, Byte
<1>6. DecodeGroups(s) = [k \in 1 .. n |-> DecodeGroups(s)[k]] /\ \A k \in 1 .. n : DecodeGroups(s)[k] \in Bytes
  BY <1>4, <1>5
<1> QED BY <1>2, <1>6, IsText

-----------------------------------------------------------------------------
(* base64url is base64 with two other characters and no padding.           *)

\* The characters that base64url writes for those of base64.
UrlText(s) == ReplaceAll(ReplaceAll(s, Plus, Minus), Slash, Underscore)

\* What base64url_decode makes of them.
PlainText(s) == ReplaceAll(ReplaceAll(s, Minus, Plus), Underscore, Slash)

\* Characters are replaced in their places, and back.
LEMMA UrlReplaces ==
    ASSUME NEW s \in Seq(Bytes)
    PROVE  /\ UrlText(s) \in Seq(Bytes) /\ Len(UrlText(s)) = Len(s)
           /\ \A i \in 1 .. Len(s) :
                 UrlText(s)[i] = IF s[i] = Plus THEN Minus ELSE IF s[i] = Slash THEN Underscore ELSE s[i]
           /\ PlainText(s) \in Seq(Bytes) /\ Len(PlainText(s)) = Len(s)
           /\ \A i \in 1 .. Len(s) :
                 PlainText(s)[i] = IF s[i] = Minus THEN Plus ELSE IF s[i] = Underscore THEN Slash ELSE s[i]
<1>1. ASSUME NEW t \in Seq(Bytes), NEW old \in Bytes, NEW new \in Bytes
      PROVE  /\ ReplaceAll(t, old, new) \in Seq(Bytes) /\ Len(ReplaceAll(t, old, new)) = Len(t)
             /\ \A i \in 1 .. Len(t) : ReplaceAll(t, old, new)[i] = IF t[i] = old THEN new ELSE t[i]
  <2> DEFINE At1(i) == IF t[i] = old THEN new ELSE t[i]
  <2>1. Len(t) \in Nat /\ \A i \in 1 .. Len(t) : At1(i) \in Bytes
    OBVIOUS
  <2>2. ReplaceAll(t, old, new) = [i \in 1 .. Len(t) |-> At1(i)]
    BY DEF ReplaceAll
  <2> HIDE DEF At1
  <2>3. ReplaceAll(t, old, new) \in Seq(Bytes) /\ Len(ReplaceAll(t, old, new)) = Len(t)
    BY <2>1, <2>2, IsText
  <2> QED BY <2>2, <2>3 DEF At1
<1>2. Plus \in Bytes /\ Minus \in Bytes /\ Slash \in Bytes /\ Underscore \in Bytes
  BY DEF Plus, Minus, Slash, Underscore, Bytes
<1>3. Minus # Slash /\ Plus # Underscore
  BY DEF Plus, Minus, Slash, Underscore
<1>4. /\ ReplaceAll(s, Plus, Minus) \in Seq(Bytes) /\ Len(ReplaceAll(s, Plus, Minus)) = Len(s)
      /\ \A i \in 1 .. Len(s) : ReplaceAll(s, Plus, Minus)[i] = IF s[i] = Plus THEN Minus ELSE s[i]
  BY <1>1, <1>2
<1>5. /\ ReplaceAll(s, Minus, Plus) \in Seq(Bytes) /\ Len(ReplaceAll(s, Minus, Plus)) = Len(s)
      /\ \A i \in 1 .. Len(s) : ReplaceAll(s, Minus, Plus)[i] = IF s[i] = Minus THEN Plus ELSE s[i]
  BY <1>1, <1>2
<1>6. /\ UrlText(s) \in Seq(Bytes) /\ Len(UrlText(s)) = Len(s)
      /\ \A i \in 1 .. Len(s) :
            UrlText(s)[i] = IF ReplaceAll(s, Plus, Minus)[i] = Slash THEN Underscore ELSE ReplaceAll(s, Plus, Minus)[i]
  BY <1>1, <1>2, <1>4 DEF UrlText
<1>7. /\ PlainText(s) \in Seq(Bytes) /\ Len(PlainText(s)) = Len(s)
      /\ \A i \in 1 .. Len(s) :
            PlainText(s)[i] = IF ReplaceAll(s, Minus, Plus)[i] = Underscore THEN Slash ELSE ReplaceAll(s, Minus, Plus)[i]
  BY <1>1, <1>2, <1>5 DEF PlainText
<1> QED BY <1>3, <1>4, <1>5, <1>6, <1>7

\* What base64url_encode writes.
LEMMA Base64UrlWritten ==
    ASSUME NEW b \in Seq(Bytes)
    PROVE  LET U == Base64UrlEncode(b)
               E == Base64Encode(b)
               m == (Len(b) + 2) \div 3 + Len(b)
           IN /\ U \in Seq(Bytes) /\ Len(U) = m
              /\ \A i \in 1 .. m : U[i] = IF E[i] = Plus THEN Minus ELSE IF E[i] = Slash THEN Underscore ELSE E[i]
<1> DEFINE n == Len(b)
           G == (n + 2) \div 3
           m == G + n
           E == Base64Encode(b)
           T == UrlText(E)
<1>1. n \in Nat /\ G \in Nat /\ m \in Nat /\ 4 * G \in Nat /\ 3 * G - n \in 0 .. 2 /\ m <= 4 * G
  BY GroupCount
<1>2. E \in Seq(Bytes) /\ Len(E) = 4 * G
  BY Base64Written
<1>3. /\ T \in Seq(Bytes) /\ Len(T) = 4 * G
      /\ \A i \in 1 .. 4 * G :
            T[i] = IF E[i] = Plus THEN Minus ELSE IF E[i] = Slash THEN Underscore ELSE E[i]
  <2> HIDE DEF T, E
  <2> QED BY <1>2, UrlReplaces DEF T
<1>4. Padding(E) = 3 * G - n
  BY Base64Padding
<1>5. Padding(T) = Padding(E)
  <2>1. \A i \in 1 .. 4 * G : T[i] = Equals <=> E[i] = Equals
    BY <1>3 DEF Plus, Minus, Slash, Underscore, Equals
  <2>2. \A p \in 1 .. 2 : EndsIn(T, p) <=> EndsIn(E, p)
    <3> HIDE DEF T, E, G
    <3> QED BY <1>1, <1>2, <1>3, <2>1 DEF EndsIn
  <2> HIDE DEF T, E
  <2> QED BY <2>2 DEF Padding
<1>6. Base64UrlEncode(b) = SubSeq(T, 1, m)
  <2>1. Base64UrlEncode(b) = SubSeq(T, 1, Len(T) - Padding(T))
    BY DEF Base64UrlEncode, Unpadded, UrlText
  <2>2. Len(T) - Padding(T) = m
    <3> HIDE DEF T, E, G, n
    <3> QED BY <1>1, <1>3, <1>4, <1>5 DEF m
  <2> QED BY <2>1, <2>2
<1> HIDE DEF T, E, G, n, m
<1>7. SubSeq(T, 1, m) \in Seq(Bytes) /\ Len(SubSeq(T, 1, m)) = m /\ \A i \in 1 .. m : SubSeq(T, 1, m)[i] = T[i]
  BY <1>1, <1>3
<1>8. \A i \in 1 .. m : i \in 1 .. 4 * G
  BY <1>1
<1> QED BY <1>3, <1>6, <1>7, <1>8 DEF E, m, G, n

\* How many characters of padding a text without them has lost.
LEMMA PaddingLost ==
    ASSUME NEW n \in Nat
    PROVE  LET G == (n + 2) \div 3
               m == G + n
           IN /\ m \in Nat /\ m <= 4 * G /\ m % 4 # 1
              /\ (4 - (m % 4)) % 4 = 4 * G - m
OBVIOUS

\* base64url_decode gets the base64 text back.
LEMMA UrlPadded ==
    ASSUME NEW b \in Seq(Bytes)
    PROVE  Padded(PlainText(Base64UrlEncode(b))) = Base64Encode(b) /\ ValidBase64Url(Base64UrlEncode(b))
<1> DEFINE n == Len(b)
           G == (n + 2) \div 3
           m == G + n
           E == Base64Encode(b)
           U == Base64UrlEncode(b)
           P == PlainText(U)
           Pad == [i \in 1 .. 4 * G - m |-> Equals]
<1>1. n \in Nat /\ G \in Nat /\ m \in Nat /\ m <= 4 * G /\ m % 4 # 1 /\ (4 - (m % 4)) % 4 = 4 * G - m
  <2>1. n \in Nat
    OBVIOUS
  <2> HIDE DEF n
  <2> QED BY <2>1, GroupCount, PaddingLost
<1>2. E \in Seq(Bytes) /\ Len(E) = 4 * G
  BY Base64Written
<1>3. \A k \in 1 .. 4 * G :
         IF k <= m THEN E[k] \in Uppers \cup Lowers \cup Digits \cup {Plus, Slash} ELSE E[k] = Equals
  BY Base64Characters
<1>4. /\ U \in Seq(Bytes) /\ Len(U) = m
      /\ \A i \in 1 .. m : U[i] = IF E[i] = Plus THEN Minus ELSE IF E[i] = Slash THEN Underscore ELSE E[i]
  BY Base64UrlWritten
<1> HIDE DEF U, E
<1>5. /\ P \in Seq(Bytes) /\ Len(P) = m
      /\ \A i \in 1 .. m : P[i] = IF U[i] = Minus THEN Plus ELSE IF U[i] = Underscore THEN Slash ELSE U[i]
  BY <1>4, UrlReplaces
<1> HIDE DEF n, G, m, P
<1>6. \A i \in 1 .. m : i \in 1 .. 4 * G /\ i <= m
  BY <1>1
<1>7. ASSUME NEW i \in 1 .. m PROVE P[i] = E[i]
  <2>1. E[i] # Minus /\ E[i] # Underscore
    BY <1>3, <1>6, CharsDiffer
  <2> QED BY <1>4, <1>5, <2>1 DEF Plus, Minus, Slash, Underscore
<1>8. Pad \in Seq(Bytes) /\ Len(Pad) = 4 * G - m /\ \A i \in 1 .. 4 * G - m : Pad[i] = Equals
  <2>1. 4 * G - m \in Nat /\ Equals \in Bytes
    BY <1>1 DEF Equals, Bytes
  <2> QED BY <2>1
<1>9. Padded(P) = P \o Pad
  BY <1>1, <1>5 DEF Padded
<1> HIDE DEF Pad
<1>10. /\ P \o Pad \in Seq(Bytes) /\ Len(P \o Pad) = 4 * G
       /\ \A i \in 1 .. m : (P \o Pad)[i] = P[i]
       /\ \A i \in m + 1 .. 4 * G : (P \o Pad)[i] = Pad[i - m]
  <2>1. /\ P \o Pad \in Seq(Bytes) /\ Len(P \o Pad) = Len(P) + Len(Pad)
        /\ \A i \in 1 .. Len(P) : (P \o Pad)[i] = P[i]
        /\ \A i \in Len(P) + 1 .. Len(P) + Len(Pad) : (P \o Pad)[i] = Pad[i - Len(P)]
    BY <1>5, <1>8, Joined
  <2>2. Len(P) = m /\ Len(P) + Len(Pad) = 4 * G
    BY <1>1, <1>5, <1>8
  <2> QED BY <2>1, <2>2
<1>11. \A i \in 1 .. 4 * G : (P \o Pad)[i] = E[i]
  <2>1. ASSUME NEW i \in m + 1 .. 4 * G PROVE (P \o Pad)[i] = E[i]
    <3>1. i - m \in 1 .. 4 * G - m /\ i \in 1 .. 4 * G /\ ~(i <= m)
      BY <1>1
    <3> QED BY <1>3, <1>8, <1>10, <3>1
  <2>2. \A i \in 1 .. 4 * G : i \in 1 .. m \/ i \in m + 1 .. 4 * G
    BY <1>1
  <2> QED BY <1>7, <1>10, <2>1, <2>2
<1>12. Padded(P) = E
  BY <1>2, <1>9, <1>10, <1>11, SameText
<1>13. ASSUME NEW i \in 1 .. m PROVE U[i] \in Uppers \cup Lowers \cup Digits \cup {Minus, Underscore}
  <2>1. E[i] \in Uppers \cup Lowers \cup Digits \cup {Plus, Slash}
    BY <1>3, <1>6
  <2> QED BY <1>4, <2>1
<1>14. ValidBase64Url(U)
  BY <1>1, <1>4, <1>13 DEF ValidBase64Url
<1> QED BY <1>12, <1>14 DEF P, E, U

\* base64url_decode reads what base64url_encode has written.
THEOREM Base64UrlRoundTrip ==
    ASSUME NEW b \in Seq(Bytes)
    PROVE  Base64UrlDecode(Base64UrlEncode(b)) = b
<1>1. Base64Decode(Padded(PlainText(Base64UrlEncode(b)))) = b
  BY UrlPadded, Base64RoundTrip
<1>2. b # Rejected
  BY RejectedIsNoBytes
<1> QED BY <1>1, <1>2, UrlPadded DEF Base64UrlDecode, PlainText

\* base64url_decode accepts the one text that base64url_encode writes for a byte string,
\* and nothing else.
THEOREM Base64UrlIsStrict ==
    ASSUME NEW s, NEW b \in Seq(Bytes)
    PROVE  Base64UrlDecode(s) = b <=> s = Base64UrlEncode(b)
<1>1. ASSUME Base64UrlDecode(s) = b PROVE s = Base64UrlEncode(b)
  BY <1>1, RejectedIsNoBytes DEF Base64UrlDecode
<1> QED BY <1>1, Base64UrlRoundTrip

\* base64url_decode returns a byte string or throws.
LEMMA Base64UrlDecodeType ==
    ASSUME NEW s \in Seq(Bytes)
    PROVE  Base64UrlDecode(s) \in Seq(Bytes) \cup {Rejected}
<1> DEFINE P == PlainText(s)
<1>1. P \in Seq(Bytes) /\ Len(P) = Len(s)
  BY UrlReplaces
<1> HIDE DEF P
<1>2. Padded(P) \in Seq(Bytes)
  <2> DEFINE Pad == [i \in 1 .. ((4 - (Len(P) % 4)) % 4) |-> Equals]
  <2>1. Pad \in Seq(Bytes)
    <3>1. (4 - (Len(P) % 4)) % 4 \in Nat /\ Equals \in Bytes
      BY <1>1 DEF Equals, Bytes
    <3> QED BY <3>1
  <2>2. Padded(P) = P \o Pad
    BY DEF Padded
  <2> HIDE DEF Pad
  <2> QED BY <1>1, <2>1, <2>2
<1>3. Base64UrlDecode(s) \in {Base64Decode(Padded(P)), Rejected}
  BY DEF Base64UrlDecode, P, PlainText
<1> QED BY <1>2, <1>3, Base64DecodeType

-----------------------------------------------------------------------------
(* compare.cpp *)

\* The difference of two words is empty when they are the same.
LEMMA XorEmpty ==
    ASSUME NEW m \in Bytes \cup 0 .. MaxSize, NEW n \in Bytes \cup 0 .. MaxSize
    PROVE  Xor(Word(m), Word(n)) = {} <=> m = n
<1>1. Xor(Word(m), Word(n)) = {} <=> Word(m) = Word(n)
  BY DEF Xor
<1> QED BY <1>1, CodecsAssumption

\* constant_time_equal is equality: no difference in length or content is lost and none
\* cancels another.
THEOREM ComparesExactly ==
    ASSUME NEW left \in Seq(Bytes), NEW right \in Seq(Bytes), Len(left) <= MaxSize, Len(right) <= MaxSize
    PROVE  ConstantTimeEqual(left, right) <=> left = right
<1> DEFINE common == Min({Len(left), Len(right)})
           D(i) == Xor(Word(left[i]), Word(right[i]))
<1>1. ConstantTimeEqual(left, right) <=>
         Xor(Word(Len(left)), Word(Len(right))) = {} /\ \A i \in 1 .. common : D(i) = {}
  BY DEF ConstantTimeEqual
<1>2. Len(left) \in 0 .. MaxSize /\ Len(right) \in 0 .. MaxSize
  BY CodecsAssumption
<1>3. Xor(Word(Len(left)), Word(Len(right))) = {} <=> Len(left) = Len(right)
  BY <1>2, XorEmpty
<1>4. Len(left) = Len(right) => common = Len(left)
  BY DEF Min
<1>5. ASSUME NEW i \in 1 .. Len(left), Len(left) = Len(right) PROVE D(i) = {} <=> left[i] = right[i]
  BY <1>5, XorEmpty
<1> HIDE DEF common, D
<1> QED BY <1>1, <1>3, <1>4, <1>5, SameText

\* Byte strings of different lengths compare different, whatever they are made of.
LEMMA LengthTold ==
    ASSUME NEW left, NEW right, Len(left) \in 0 .. MaxSize, Len(right) \in 0 .. MaxSize, Len(left) # Len(right)
    PROVE  ~ConstantTimeEqual(left, right)
<1>1. Word(Len(left)) # Word(Len(right))
  BY CodecsAssumption
<1>2. Xor(Word(Len(left)), Word(Len(right))) # {}
  BY <1>1, XorEmpty
<1> QED BY <1>2 DEF ConstantTimeEqual

\* A text with another character in one place.
Changed(t, i, b) == [t EXCEPT ![i] = b]

\* A text compares equal to none that is longer by a character or differs in one.
LEMMA OthersDiffer ==
    ASSUME NEW t \in Seq(Bytes), Len(t) < MaxSize
    PROVE  /\ \A b : ConstantTimeEqual(Append(t, b), t) <=> Append(t, b) = t
           /\ \A i \in DOMAIN t : \A b \in Bytes : ConstantTimeEqual(Changed(t, i, b), t) <=> Changed(t, i, b) = t
<1>0. Len(t) \in Nat /\ MaxSize \in Nat
  BY CodecsAssumption
<1>1. ASSUME NEW b PROVE ConstantTimeEqual(Append(t, b), t) <=> Append(t, b) = t
  <2>1. Len(Append(t, b)) = Len(t) + 1
    OBVIOUS
  <2>2. Len(t) \in 0 .. MaxSize /\ Len(Append(t, b)) \in 0 .. MaxSize
    BY <1>0, <2>1
  <2>3. Len(t) # Len(Append(t, b))
    BY <1>0, <2>1
  <2>4. ~ConstantTimeEqual(Append(t, b), t)
    BY <2>2, <2>3, LengthTold
  <2> QED BY <2>3, <2>4
<1>2. ASSUME NEW i \in DOMAIN t, NEW b \in Bytes
      PROVE  ConstantTimeEqual(Changed(t, i, b), t) <=> Changed(t, i, b) = t
  <2> DEFINE other == Changed(t, i, b)
             n == Len(t)
  <2>1. /\ DOMAIN t = 1 .. n /\ n \in Nat /\ other = [k \in 1 .. n |-> other[k]]
        /\ \A k \in 1 .. n : other[k] \in Bytes
    BY <1>0 DEF Changed
  <2> HIDE DEF other
  <2>2. other \in Seq(Bytes) /\ Len(other) = n
    BY <2>1, IsText
  <2>3. ConstantTimeEqual(other, t) <=> other = t
    BY <1>0, <2>2, ComparesExactly
  <2> QED BY <2>3 DEF other
<1> QED BY <1>1, <1>2

-----------------------------------------------------------------------------
(* Sizes.  A number is read digit by digit: what holds of it is shown by   *)
(* induction on the digits, from the well-foundedness of the naturals.     *)

\* A set of natural numbers has a least one.
LEMMA LeastNumber ==
    ASSUME NEW T \in SUBSET Nat, T # {}
    PROVE  \E x \in T : \A y \in T : x <= y
<1>1. PICK x \in T : \A y \in T : <<y, x>> \notin OpToRel(<, Nat)
  BY NatLessThanWellFounded, WFMin
<1>2. \A y \in T : ~(y < x)
  BY <1>1 DEF OpToRel
<1> QED BY <1>2

\* Induction on the places of a text.
LEMMA Induction ==
    ASSUME NEW m \in Nat, NEW S, 0 \in S, \A i \in 0 .. m - 1 : i \in S => i + 1 \in S
    PROVE  \A i \in 0 .. m : i \in S
<1> DEFINE T == {i \in 0 .. m : i \notin S}
<1> SUFFICES ASSUME T # {} PROVE FALSE
  OBVIOUS
<1>1. PICK x \in T : \A y \in T : x <= y
  <2>1. T \in SUBSET Nat
    OBVIOUS
  <2> HIDE DEF T
  <2> QED BY <2>1, LeastNumber
<1>2. x # 0 /\ x \in 1 .. m
  OBVIOUS
<1>3. x - 1 \in 0 .. m - 1 /\ x - 1 \notin T
  BY <1>1, <1>2
<1>4. x - 1 \in S /\ (x - 1) + 1 = x
  BY <1>2, <1>3
<1> QED BY <1>3, <1>4

\* Numbers that are defined by recursion on the places of a text exist.
LEMMA Recursion ==
    ASSUME NEW n \in Nat, NEW step \in [1 .. n -> [Nat -> Nat]]
    PROVE  \E f \in [0 .. n -> Nat] : f[0] = 0 /\ \A i \in 1 .. n : f[i] = step[i][f[i - 1]]
<1> DEFINE Upto(m, f) == f[0] = 0 /\ \A i \in 1 .. m : f[i] = step[i][f[i - 1]]
           T == {m \in Nat : \E f \in [0 .. m -> Nat] : Upto(m, f)}
<1>1. 0 \in T
  <2>1. [i \in 0 .. 0 |-> 0] \in [0 .. 0 -> Nat] /\ Upto(0, [i \in 0 .. 0 |-> 0])
    OBVIOUS
  <2> QED BY <2>1
<1>2. ASSUME NEW m \in 0 .. n - 1, m \in T PROVE m + 1 \in T
  <2>1. PICK f \in [0 .. m -> Nat] : Upto(m, f)
    BY <1>2
  <2> DEFINE next == step[m + 1][f[m]]
             g == [i \in 0 .. m + 1 |-> IF i = m + 1 THEN next ELSE f[i]]
  <2>2. m \in 0 .. m /\ m + 1 \in 1 .. n
    OBVIOUS
  <2>3. f[m] \in Nat
    BY <2>1, <2>2
  <2>4. next \in Nat
    BY <2>2, <2>3
  <2> HIDE DEF next
  <2>5. g \in [0 .. m + 1 -> Nat] /\ g[0] = 0
    <3>1. ASSUME NEW i \in 0 .. m + 1 PROVE g[i] \in Nat
      <4> HIDE DEF Upto, T
      <4>1. CASE i = m + 1
        BY <2>4, <4>1
      <4>2. CASE i \in 0 .. m
        <5>1. g[i] = f[i] /\ f[i] \in Nat
          BY <4>2
        <5> QED BY <5>1
      <4> QED BY <4>1, <4>2
    <3>2. 0 \in 0 .. m + 1 /\ 0 # m + 1 /\ f[0] = 0
      BY <2>1
    <3> QED BY <3>1, <3>2
  <2>6. ASSUME NEW i \in 1 .. m + 1 PROVE g[i] = step[i][g[i - 1]]
    <3>1. CASE i = m + 1
      BY <3>1 DEF next
    <3>2. CASE i \in 1 .. m
      <4>1. /\ i \in 0 .. m + 1 /\ i # m + 1
            /\ i - 1 \in 0 .. m + 1 /\ i - 1 # m + 1
        BY <3>2
      <4>2. g[i] = f[i] /\ g[i - 1] = f[i - 1]
        BY <4>1
      <4> QED BY <2>1, <3>2, <4>2
    <3> QED BY <3>1, <3>2
  <2> HIDE DEF g
  <2>7. Upto(m + 1, g)
    BY <2>5, <2>6
  <2>8. m + 1 \in Nat
    OBVIOUS
  <2> HIDE DEF Upto
  <2>9. \E h \in [0 .. m + 1 -> Nat] : Upto(m + 1, h)
    BY <2>5, <2>7
  <2> QED BY <2>8, <2>9
<1> HIDE DEF T
<1>3. n \in T
  <2>1. \A m \in 0 .. n : m \in T
    BY <1>1, <1>2, Induction
  <2> QED BY <2>1
<1> QED BY <1>3 DEF T

\* The number that the first digits spell, one more digit at a time.
IsNumber(text, f) == f = [i \in 0 .. Len(text) |-> IF i = 0 THEN 0 ELSE f[i - 1] * 10 + text[i] - 48]

\* One step of std::from_chars, and what it makes of the first digits.
NextValue(text, value, i) == Min({value * 10 + text[i] - 48, MaxSize + 1})
IsValue(text, f) == f = [i \in 0 .. Len(text) |-> IF i = 0 THEN 0 ELSE NextValue(text, f[i - 1], i)]

\* A step keeps the value in its range.
LEMMA NextValueType ==
    ASSUME NEW text \in Seq(Digits), NEW i \in 1 .. Len(text), NEW v \in Nat
    PROVE  /\ v * 10 + text[i] - 48 \in Nat
           /\ NextValue(text, v, i) \in Nat
           /\ NextValue(text, v, i) = IF v * 10 + text[i] - 48 <= MaxSize THEN v * 10 + text[i] - 48 ELSE MaxSize + 1
<1>1. MaxSize \in Nat /\ text[i] \in 48 .. 57
  BY CodecsAssumption DEF Digits
<1> DEFINE x == v * 10 + text[i] - 48
           y == MaxSize + 1
<1>2. x \in Nat /\ y \in Nat
  BY <1>1
<1> HIDE DEF x, y
<1>3. Min({x, y}) = IF x <= y THEN x ELSE y
  BY <1>2 DEF Min
<1> QED BY <1>1, <1>2, <1>3 DEF NextValue, x, y

\* Every number has its digits' value, and its value as std::from_chars tells it.
LEMMA NumberExists ==
    ASSUME NEW text \in Seq(Digits)
    PROVE  (\E f : IsNumber(text, f)) /\ (\E f : IsValue(text, f))
<1> DEFINE n == Len(text)
           number == [i \in 1 .. n |-> [v \in Nat |-> v * 10 + text[i] - 48]]
           value == [i \in 1 .. n |-> [v \in Nat |-> NextValue(text, v, i)]]
<1>0. n \in Nat /\ 0 \in Nat
  OBVIOUS
<1>1. /\ number \in [1 .. n -> [Nat -> Nat]] /\ value \in [1 .. n -> [Nat -> Nat]]
      /\ \A i \in 1 .. n, v \in Nat : number[i][v] = v * 10 + text[i] - 48 /\ value[i][v] = NextValue(text, v, i)
  BY NextValueType
<1> HIDE DEF number, value, n
<1>2. PICK f \in [0 .. n -> Nat] : f[0] = 0 /\ \A i \in 1 .. n : f[i] = number[i][f[i - 1]]
  <2>1. n \in Nat /\ 0 \in Nat /\ number \in [1 .. n -> [Nat -> Nat]]
    BY <1>0, <1>1
  <2> QED BY <2>1, Recursion
<1>3. PICK g \in [0 .. n -> Nat] : g[0] = 0 /\ \A i \in 1 .. n : g[i] = value[i][g[i - 1]]
  <2>1. n \in Nat /\ 0 \in Nat /\ value \in [1 .. n -> [Nat -> Nat]]
    BY <1>0, <1>1
  <2> QED BY <2>1, Recursion
<1>4. \A i \in 1 .. n : f[i - 1] \in Nat /\ g[i - 1] \in Nat
  BY <1>0
<1>5. f = [i \in 0 .. n |-> IF i = 0 THEN 0 ELSE f[i - 1] * 10 + text[i] - 48]
  <2>1. f = [i \in 0 .. n |-> f[i]]
    OBVIOUS
  <2>2. ASSUME NEW i \in 0 .. n PROVE f[i] = IF i = 0 THEN 0 ELSE f[i - 1] * 10 + text[i] - 48
    <3>1. CASE i = 0
      BY <1>2, <3>1
    <3>2. CASE i \in 1 .. n
      <4>1. f[i] = number[i][f[i - 1]] /\ f[i - 1] \in Nat /\ i # 0
        BY <1>0, <1>2, <1>4, <3>2
      <4>2. number[i][f[i - 1]] = f[i - 1] * 10 + text[i] - 48
        BY <1>1, <3>2, <4>1
      <4> QED BY <4>1, <4>2
    <3> QED BY <1>0, <3>1, <3>2
  <2> QED BY <2>1, <2>2
<1>6. g = [i \in 0 .. n |-> IF i = 0 THEN 0 ELSE NextValue(text, g[i - 1], i)]
  <2>1. g = [i \in 0 .. n |-> g[i]]
    OBVIOUS
  <2>2. ASSUME NEW i \in 0 .. n PROVE g[i] = IF i = 0 THEN 0 ELSE NextValue(text, g[i - 1], i)
    <3>1. CASE i = 0
      BY <1>3, <3>1
    <3>2. CASE i \in 1 .. n
      <4>1. g[i] = value[i][g[i - 1]] /\ g[i - 1] \in Nat /\ i # 0
        BY <1>0, <1>3, <1>4, <3>2
      <4>2. value[i][g[i - 1]] = NextValue(text, g[i - 1], i)
        BY <1>1, <3>2, <4>1
      <4> QED BY <4>1, <4>2
    <3> QED BY <1>0, <3>1, <3>2
  <2> QED BY <2>1, <2>2
<1> QED BY <1>5, <1>6 DEF IsNumber, IsValue, n

\* Digit by digit, std::from_chars tells the number or that it is too large.
LEMMA ValueIsNumber ==
    ASSUME NEW text \in Seq(Digits), NEW f, NEW g, IsNumber(text, f), IsValue(text, g)
    PROVE  \A i \in 0 .. Len(text) : f[i] \in Nat /\ g[i] = IF f[i] <= MaxSize THEN f[i] ELSE MaxSize + 1
<1> DEFINE n == Len(text)
           Told(i) == f[i] \in Nat /\ g[i] = IF f[i] <= MaxSize THEN f[i] ELSE MaxSize + 1
           S == {i \in 0 .. n : Told(i)}
<1>0. n \in Nat /\ MaxSize \in Nat
  BY CodecsAssumption
<1>1. /\ f[0] = 0 /\ \A i \in 1 .. n : f[i] = f[i - 1] * 10 + text[i] - 48
      /\ g[0] = 0 /\ \A i \in 1 .. n : g[i] = NextValue(text, g[i - 1], i)
  <2>1. \A i \in 0 .. n : f[i] = IF i = 0 THEN 0 ELSE f[i - 1] * 10 + text[i] - 48
    BY DEF IsNumber
  <2>2. \A i \in 0 .. n : g[i] = IF i = 0 THEN 0 ELSE NextValue(text, g[i - 1], i)
    BY DEF IsValue
  <2> QED BY <1>0, <2>1, <2>2
<1>2. 0 \in S
  BY <1>0, <1>1
<1>3. ASSUME NEW i \in 0 .. n - 1, i \in S PROVE i + 1 \in S
  <2>1. i + 1 \in 1 .. n /\ (i + 1) - 1 = i
    BY <1>0
  <2>2. f[i + 1] = f[i] * 10 + text[i + 1] - 48 /\ g[i + 1] = NextValue(text, g[i], i + 1)
    BY <1>1, <2>1
  <2>3. f[i] \in Nat /\ g[i] \in Nat /\ g[i] = IF f[i] <= MaxSize THEN f[i] ELSE MaxSize + 1
    BY <1>0, <1>3
  <2>4. f[i] * 10 + text[i + 1] - 48 \in Nat
    BY <2>1, <2>3, NextValueType
  <2>5. g[i + 1] = IF g[i] * 10 + text[i + 1] - 48 <= MaxSize THEN g[i] * 10 + text[i + 1] - 48 ELSE MaxSize + 1
    BY <2>1, <2>2, <2>3, NextValueType
  <2>6. text[i + 1] \in 48 .. 57
    BY <2>1 DEF Digits
  <2>7. g[i + 1] = IF f[i + 1] <= MaxSize THEN f[i + 1] ELSE MaxSize + 1
    <3>1. CASE f[i] <= MaxSize
      BY <2>2, <2>3, <2>5, <3>1
    <3>2. CASE ~(f[i] <= MaxSize)
      <4> DEFINE x == f[i]
                 y == g[i]
                 d == text[i + 1]
      <4>1. x \in Nat /\ d \in 48 .. 57 /\ y = MaxSize + 1 /\ x > MaxSize /\ MaxSize \in Nat
        BY <1>0, <2>3, <2>6, <3>2
      <4> HIDE DEF x, y, d
      <4>2. ~(x * 10 + d - 48 <= MaxSize) /\ ~(y * 10 + d - 48 <= MaxSize)
        BY <4>1
      <4> QED BY <2>2, <2>5, <4>2 DEF x, y, d
    <3> QED BY <3>1, <3>2
  <2> QED BY <2>1, <2>2, <2>4, <2>7
<1> HIDE DEF S
<1>4. \A i \in 0 .. n : i \in S
  BY <1>0, <1>2, <1>3, Induction
<1> QED BY <1>4 DEF S

\* The value that std::from_chars tells.
LEMMA DecimalDefined ==
    ASSUME NEW text \in Seq(Digits)
    PROVE  \E g : IsValue(text, g) /\ DecimalValue(text) = g[Len(text)]
<1> DEFINE g == CHOOSE g : IsValue(text, g)
<1>1. IsValue(text, g)
  BY NumberExists
<1>2. DecimalValue(text) = g[Len(text)]
  BY DEF DecimalValue, IsValue, NextValue
<1> HIDE DEF g
<1> QED BY <1>1, <1>2

\* parse_size returns the number that a text of digits spells when it fits a std::size_t,
\* however many digits it has, and fails for every other text.
THEOREM SizeIsNumber ==
    ASSUME NEW text \in Seq(Bytes), NEW f, IsNumber(text, f)
    PROVE  ParseSize(text) = IF /\ text # <<>>
                                /\ \A i \in DOMAIN text : text[i] \in Digits
                                /\ f[Len(text)] <= MaxSize
                             THEN f[Len(text)] ELSE 0
<1>0. MaxSize \in Nat
  BY CodecsAssumption
<1>1. ASSUME \A i \in DOMAIN text : text[i] \in Digits
      PROVE  f[Len(text)] \in Nat /\ DecimalValue(text) = IF f[Len(text)] <= MaxSize THEN f[Len(text)] ELSE MaxSize + 1
  <2>1. text \in Seq(Digits) /\ Len(text) \in 0 .. Len(text)
    BY <1>1
  <2>2. PICK g : IsValue(text, g) /\ DecimalValue(text) = g[Len(text)]
    BY <2>1, DecimalDefined
  <2>3. \A i \in 0 .. Len(text) : f[i] \in Nat /\ g[i] = IF f[i] <= MaxSize THEN f[i] ELSE MaxSize + 1
    BY <2>1, <2>2, ValueIsNumber
  <2> QED BY <2>1, <2>2, <2>3
<1> QED BY <1>0, <1>1 DEF ParseSize

\* What parse_size returns fits a std::size_t.
LEMMA SizeFits ==
    ASSUME NEW text \in Seq(Bytes)
    PROVE  ParseSize(text) \in 0 .. MaxSize
<1>0. MaxSize \in Nat
  BY CodecsAssumption
<1>1. ASSUME \A i \in DOMAIN text : text[i] \in Digits PROVE DecimalValue(text) \in Nat
  <2>1. text \in Seq(Digits) /\ Len(text) \in 0 .. Len(text)
    BY <1>1
  <2>2. PICK g : IsValue(text, g) /\ DecimalValue(text) = g[Len(text)]
    BY <2>1, DecimalDefined
  <2>3. PICK f : IsNumber(text, f)
    BY <2>1, NumberExists
  <2>4. \A i \in 0 .. Len(text) : f[i] \in Nat /\ g[i] = IF f[i] <= MaxSize THEN f[i] ELSE MaxSize + 1
    BY <2>1, <2>2, <2>3, ValueIsNumber
  <2> QED BY <1>0, <2>1, <2>2, <2>4
<1> QED BY <1>0, <1>1 DEF ParseSize

-----------------------------------------------------------------------------
(* Keys: what is left of a text without the spaces around it.             *)

\* No hexadecimal digit is a space.
LEMMA DigitIsNoSpace ==
    ASSUME NEW ch, DecodeNibble(ch) >= 0
    PROVE  ch \notin Spaces
BY DEF DecodeNibble, Digits, Spaces

\* What stands between spaces is what is kept.
LEMMA Trimmed ==
    ASSUME NEW text \in Seq(Bytes), NEW a \in DOMAIN text, NEW z \in DOMAIN text, a <= z,
           text[a] \notin Spaces, text[z] \notin Spaces,
           \A i \in DOMAIN text : i \notin a .. z => text[i] \in Spaces
    PROVE  Trim(text) = SubSeq(text, a, z)
<1> DEFINE kept == {i \in DOMAIN text : text[i] \notin Spaces}
<1>1. a \in kept /\ z \in kept /\ \A i \in kept : i \in Int /\ a <= i /\ i <= z
  OBVIOUS
<1> HIDE DEF kept
<1>2. Min(kept) = a /\ Max(kept) = z
  BY <1>1 DEF Min, Max
<1> QED BY <1>1, <1>2 DEF Trim, kept

\* A key file holds a key.
THEOREM KeyFileRoundTrip ==
    ASSUME NEW key \in Seq(Bytes), Len(key) = KeySize
    PROVE  KeyFromFile(KeyFile(key)) = key
<1> DEFINE h == HexEncode(key)
           n == 2 * KeySize
           s == KeyFile(key)
<1>0. KeySize \in Nat \ {0} /\ n \in Nat /\ n > 0
  BY CodecsAssumption
<1>1. h \in Seq(Bytes) /\ Len(h) = n
  BY HexWritten
<1>2. \A i \in 1 .. n : h[i] \notin Spaces
  <2>1. HexDecode(h) # Rejected
    BY HexRoundTrip, RejectedIsNoBytes
  <2>2. \A i \in DOMAIN h : DecodeNibble(h[i]) >= 0
    BY <2>1 DEF HexDecode
  <2> QED BY <1>1, <2>2, DigitIsNoSpace
<1>3. s \in Seq(Bytes) /\ Len(s) = n + 1 /\ s[n + 1] \in Spaces /\ \A i \in 1 .. n : s[i] = h[i]
  <2>1. s = h \o <<10>> /\ 10 \in Bytes /\ 10 \in Spaces
    BY DEF KeyFile, Newline, Bytes, Spaces
  <2> HIDE DEF s, h
  <2>2. <<10>> \in Seq(Bytes) /\ Len(<<10>>) = 1 /\ <<10>>[1] = 10
    BY <2>1
  <2>3. /\ s \in Seq(Bytes) /\ Len(s) = Len(h) + 1
        /\ \A i \in 1 .. Len(h) : s[i] = h[i]
        /\ \A i \in Len(h) + 1 .. Len(h) + 1 : s[i] = <<10>>[i - Len(h)]
    BY <1>1, <2>1, <2>2, Joined
  <2>4. s[n + 1] = 10
    <3>1. n + 1 \in Len(h) + 1 .. Len(h) + 1 /\ (n + 1) - Len(h) = 1
      BY <1>0, <1>1
    <3> QED BY <2>2, <2>3, <3>1
  <2> QED BY <1>1, <2>1, <2>3, <2>4
<1> HIDE DEF s, h, n
<1>4. Trim(s) = SubSeq(s, 1, n)
  <2>1. 1 \in DOMAIN s /\ n \in DOMAIN s /\ 1 <= n
    BY <1>0, <1>3
  <2>2. s[1] \notin Spaces /\ s[n] \notin Spaces
    BY <1>0, <1>2, <1>3
  <2>3. \A i \in DOMAIN s : i \notin 1 .. n => i = n + 1
    BY <1>0, <1>3
  <2>4. \A i \in DOMAIN s : i \notin 1 .. n => s[i] \in Spaces
    BY <1>3, <2>3
  <2> QED BY <1>3, <2>1, <2>2, <2>4, Trimmed
<1>5. SubSeq(s, 1, n) = h
  BY <1>0, <1>1, <1>3
<1>6. KeyFromHex(h) = key
  BY <1>1, HexRoundTrip DEF KeyFromHex, h, n
<1> QED BY <1>4, <1>5, <1>6 DEF KeyFromFile, s

\* A set of places has a last one.
LEMMA LastPlace ==
    ASSUME NEW n \in Nat, NEW T \in SUBSET (1 .. n), T # {}
    PROVE  \E x \in T : \A y \in T : y <= x
<1> DEFINE R == {n - y : y \in T}
<1>1. R \in SUBSET Nat /\ R # {}
  <2>1. ASSUME NEW y \in T PROVE n - y \in Nat
    <3>1. y \in 1 .. n
      OBVIOUS
    <3> QED BY <3>1
  <2>2. R \in SUBSET Nat
    BY <2>1
  <2>3. R # {}
    OBVIOUS
  <2> QED BY <2>2, <2>3
<1> HIDE DEF R
<1>2. PICK r \in R : \A q \in R : r <= q
  BY <1>1, LeastNumber
<1>3. PICK x \in T : r = n - x
  BY <1>2 DEF R
<1>4. ASSUME NEW y \in T PROVE y <= x
  <2>1. n - y \in R /\ x \in Int /\ y \in Int
    BY DEF R
  <2>2. n - x <= n - y
    BY <1>2, <1>3, <2>1
  <2> QED BY <2>1, <2>2
<1> QED BY <1>4

\* What is kept of a text stands between spaces.
LEMMA TrimmedFrom ==
    ASSUME NEW s \in Seq(Bytes), Len(Trim(s)) # 0
    PROVE  \E a \in DOMAIN s : \E z \in DOMAIN s :
              /\ a <= z /\ Trim(s) = SubSeq(s, a, z)
              /\ \A i \in DOMAIN s : i \notin a .. z => s[i] \in Spaces
<1> DEFINE kept == {i \in DOMAIN s : s[i] \notin Spaces}
           n == Len(s)
<1>1. n \in Nat /\ DOMAIN s = 1 .. n /\ kept \subseteq 1 .. n /\ kept # {}
  BY DEF Trim
<1>2. \A i \in DOMAIN s : i \in kept <=> s[i] \notin Spaces
  OBVIOUS
<1> HIDE DEF kept
<1>3. PICK a \in kept : \A i \in kept : a <= i
  BY <1>1, LeastNumber
<1>4. PICK z \in kept : \A i \in kept : i <= z
  BY <1>1, LastPlace
<1>5. a \in DOMAIN s /\ z \in DOMAIN s /\ a <= z /\ s[a] \notin Spaces /\ s[z] \notin Spaces
  BY <1>1, <1>2, <1>3, <1>4
<1>6. ASSUME NEW i \in DOMAIN s, i \notin a .. z PROVE s[i] \in Spaces
  <2>1. i \notin kept
    BY <1>1, <1>3, <1>4, <1>5, <1>6
  <2> QED BY <1>2, <2>1
<1>7. Trim(s) = SubSeq(s, a, z)
  BY <1>5, <1>6, Trimmed
<1> QED BY <1>5, <1>6, <1>7

-----------------------------------------------------------------------------
(* The bits of digits, and what groups of digits spell.                     *)

\* The bits of a sextet, from the left.
LEMMA SextetBits ==
    ASSUME NEW v \in 0 .. 63
    PROVE  /\ v = 32 * ((v \div 32) % 2) + 16 * ((v \div 16) % 2) + 8 * ((v \div 8) % 2)
                  + 4 * ((v \div 4) % 2) + 2 * ((v \div 2) % 2) + ((v \div 1) % 2)
           /\ v \div 16 = 2 * ((v \div 32) % 2) + ((v \div 16) % 2)
           /\ v % 16 = 8 * ((v \div 8) % 2) + 4 * ((v \div 4) % 2) + 2 * ((v \div 2) % 2) + ((v \div 1) % 2)
           /\ v \div 4 = 8 * ((v \div 32) % 2) + 4 * ((v \div 16) % 2) + 2 * ((v \div 8) % 2) + ((v \div 4) % 2)
           /\ v % 4 = 2 * ((v \div 2) % 2) + ((v \div 1) % 2)
OBVIOUS

\* A bit is zero or one.
LEMMA BitRange ==
    ASSUME NEW v \in 0 .. 63
    PROVE  /\ (v \div 32) % 2 \in 0 .. 1 /\ (v \div 16) % 2 \in 0 .. 1
           /\ (v \div 8) % 2 \in 0 .. 1 /\ (v \div 4) % 2 \in 0 .. 1
           /\ (v \div 2) % 2 \in 0 .. 1 /\ (v \div 1) % 2 \in 0 .. 1
OBVIOUS

\* A bit of a text of digits.
BitOf(digits, width, j) == (digits[((j - 1) \div width) + 1] \div 2 ^ (width - 1 - ((j - 1) % width))) % 2
ByteOf(digits, width, i) ==
    128 * BitOf(digits, width, 8 * i - 7) + 64 * BitOf(digits, width, 8 * i - 6)
    + 32 * BitOf(digits, width, 8 * i - 5) + 16 * BitOf(digits, width, 8 * i - 4)
    + 8 * BitOf(digits, width, 8 * i - 3) + 4 * BitOf(digits, width, 8 * i - 2)
    + 2 * BitOf(digits, width, 8 * i - 1) + BitOf(digits, width, 8 * i)

\* What digits spell, in these words.
LEMMA SpelledBits ==
    ASSUME NEW digits, NEW width
    PROVE  LET total == width * Len(digits)
               size == total \div 8
           IN Spelled(digits, width) =
                 IF total - 8 * size < width /\ \A j \in 8 * size + 1 .. total : BitOf(digits, width, j) = 0
                 THEN [i \in 1 .. size |-> ByteOf(digits, width, i)]
                 ELSE Rejected
BY DEF Spelled, BitOf, ByteOf

\* The bits of one digit of six.
LEMMA BitsOfSextet ==
    ASSUME NEW d, NEW k \in Nat
    PROVE  /\ BitOf(d, 6, 6 * k + 1) = (d[k + 1] \div 32) % 2
           /\ BitOf(d, 6, 6 * k + 2) = (d[k + 1] \div 16) % 2
           /\ BitOf(d, 6, 6 * k + 3) = (d[k + 1] \div 8) % 2
           /\ BitOf(d, 6, 6 * k + 4) = (d[k + 1] \div 4) % 2
           /\ BitOf(d, 6, 6 * k + 5) = (d[k + 1] \div 2) % 2
           /\ BitOf(d, 6, 6 * k + 6) = (d[k + 1] \div 1) % 2
<1>0. 2 ^ 5 = 32 /\ 2 ^ 4 = 16 /\ 2 ^ 3 = 8 /\ 2 ^ 2 = 4 /\ 2 ^ 1 = 2 /\ 2 ^ 0 = 1
  OBVIOUS
<1>1. BitOf(d, 6, 6 * k + 1) = (d[k + 1] \div 32) % 2
  <2>1. ((6 * k + 1) - 1) \div 6 = k /\ 6 - 1 - (((6 * k + 1) - 1) % 6) = 5
    OBVIOUS
  <2> QED BY <1>0, <2>1 DEF BitOf
<1>2. BitOf(d, 6, 6 * k + 2) = (d[k + 1] \div 16) % 2
  <2>1. ((6 * k + 2) - 1) \div 6 = k /\ 6 - 1 - (((6 * k + 2) - 1) % 6) = 4
    OBVIOUS
  <2> QED BY <1>0, <2>1 DEF BitOf
<1>3. BitOf(d, 6, 6 * k + 3) = (d[k + 1] \div 8) % 2
  <2>1. ((6 * k + 3) - 1) \div 6 = k /\ 6 - 1 - (((6 * k + 3) - 1) % 6) = 3
    OBVIOUS
  <2> QED BY <1>0, <2>1 DEF BitOf
<1>4. BitOf(d, 6, 6 * k + 4) = (d[k + 1] \div 4) % 2
  <2>1. ((6 * k + 4) - 1) \div 6 = k /\ 6 - 1 - (((6 * k + 4) - 1) % 6) = 2
    OBVIOUS
  <2> QED BY <1>0, <2>1 DEF BitOf
<1>5. BitOf(d, 6, 6 * k + 5) = (d[k + 1] \div 2) % 2
  <2>1. ((6 * k + 5) - 1) \div 6 = k /\ 6 - 1 - (((6 * k + 5) - 1) % 6) = 1
    OBVIOUS
  <2> QED BY <1>0, <2>1 DEF BitOf
<1>6. BitOf(d, 6, 6 * k + 6) = (d[k + 1] \div 1) % 2
  <2>1. ((6 * k + 6) - 1) \div 6 = k /\ 6 - 1 - (((6 * k + 6) - 1) % 6) = 0
    OBVIOUS
  <2> QED BY <1>0, <2>1 DEF BitOf
<1> QED BY <1>1, <1>2, <1>3, <1>4, <1>5, <1>6

\* The bits of one digit of four.
LEMMA BitsOfNibble ==
    ASSUME NEW d, NEW k \in Nat
    PROVE  /\ BitOf(d, 4, 4 * k + 1) = (d[k + 1] \div 8) % 2
           /\ BitOf(d, 4, 4 * k + 2) = (d[k + 1] \div 4) % 2
           /\ BitOf(d, 4, 4 * k + 3) = (d[k + 1] \div 2) % 2
           /\ BitOf(d, 4, 4 * k + 4) = (d[k + 1] \div 1) % 2
<1>0. 2 ^ 3 = 8 /\ 2 ^ 2 = 4 /\ 2 ^ 1 = 2 /\ 2 ^ 0 = 1
  OBVIOUS
<1>1. BitOf(d, 4, 4 * k + 1) = (d[k + 1] \div 8) % 2
  <2>1. ((4 * k + 1) - 1) \div 4 = k /\ 4 - 1 - (((4 * k + 1) - 1) % 4) = 3
    OBVIOUS
  <2> QED BY <1>0, <2>1 DEF BitOf
<1>2. BitOf(d, 4, 4 * k + 2) = (d[k + 1] \div 4) % 2
  <2>1. ((4 * k + 2) - 1) \div 4 = k /\ 4 - 1 - (((4 * k + 2) - 1) % 4) = 2
    OBVIOUS
  <2> QED BY <1>0, <2>1 DEF BitOf
<1>3. BitOf(d, 4, 4 * k + 3) = (d[k + 1] \div 2) % 2
  <2>1. ((4 * k + 3) - 1) \div 4 = k /\ 4 - 1 - (((4 * k + 3) - 1) % 4) = 1
    OBVIOUS
  <2> QED BY <1>0, <2>1 DEF BitOf
<1>4. BitOf(d, 4, 4 * k + 4) = (d[k + 1] \div 1) % 2
  <2>1. ((4 * k + 4) - 1) \div 4 = k /\ 4 - 1 - (((4 * k + 4) - 1) % 4) = 0
    OBVIOUS
  <2> QED BY <1>0, <2>1 DEF BitOf
<1> QED BY <1>1, <1>2, <1>3, <1>4

\* Two digits of four bits are a byte.
LEMMA NibblesSpelled ==
    ASSUME NEW d, NEW i \in Nat \ {0}, d[2 * i - 1] \in 0 .. 15, d[2 * i] \in 0 .. 15
    PROVE  ByteOf(d, 4, i) = d[2 * i - 1] * 16 + d[2 * i]
<1> DEFINE k == 2 * i - 2
           u == d[2 * i - 1]
           v == d[2 * i]
<1>1. /\ k \in Nat /\ k + 1 \in Nat /\ k + 1 = 2 * i - 1 /\ (k + 1) + 1 = 2 * i
      /\ 8 * i - 7 = 4 * k + 1 /\ 8 * i - 6 = 4 * k + 2 /\ 8 * i - 5 = 4 * k + 3 /\ 8 * i - 4 = 4 * k + 4
      /\ 8 * i - 3 = 4 * (k + 1) + 1 /\ 8 * i - 2 = 4 * (k + 1) + 2 /\ 8 * i - 1 = 4 * (k + 1) + 3
      /\ 8 * i = 4 * (k + 1) + 4
  OBVIOUS
<1> HIDE DEF k
<1>2. /\ BitOf(d, 4, 8 * i - 7) = (u \div 8) % 2 /\ BitOf(d, 4, 8 * i - 6) = (u \div 4) % 2
      /\ BitOf(d, 4, 8 * i - 5) = (u \div 2) % 2 /\ BitOf(d, 4, 8 * i - 4) = (u \div 1) % 2
  <2>1. k \in Nat /\ u = d[k + 1]
    BY <1>1
  <2> HIDE DEF u
  <2> QED BY <1>1, <2>1, BitsOfNibble
<1>3. /\ BitOf(d, 4, 8 * i - 3) = (v \div 8) % 2 /\ BitOf(d, 4, 8 * i - 2) = (v \div 4) % 2
      /\ BitOf(d, 4, 8 * i - 1) = (v \div 2) % 2 /\ BitOf(d, 4, 8 * i) = (v \div 1) % 2
  <2> DEFINE l == k + 1
  <2>1. l \in Nat /\ v = d[l + 1]
    BY <1>1
  <2>2. /\ 8 * i - 3 = 4 * l + 1 /\ 8 * i - 2 = 4 * l + 2 /\ 8 * i - 1 = 4 * l + 3 /\ 8 * i = 4 * l + 4
    BY <1>1
  <2> HIDE DEF v, l
  <2> QED BY <2>1, <2>2, BitsOfNibble
<1>4. u \in 0 .. 15 /\ v \in 0 .. 15
  OBVIOUS
<1>5. ByteOf(d, 4, i) = 128 * ((u \div 8) % 2) + 64 * ((u \div 4) % 2) + 32 * ((u \div 2) % 2) + 16 * ((u \div 1) % 2)
                        + 8 * ((v \div 8) % 2) + 4 * ((v \div 4) % 2) + 2 * ((v \div 2) % 2) + ((v \div 1) % 2)
  BY <1>2, <1>3 DEF ByteOf
<1> HIDE DEF u, v
<1>6. 128 * ((u \div 8) % 2) + 64 * ((u \div 4) % 2) + 32 * ((u \div 2) % 2) + 16 * ((u \div 1) % 2)
      + 8 * ((v \div 8) % 2) + 4 * ((v \div 4) % 2) + 2 * ((v \div 2) % 2) + ((v \div 1) % 2) = u * 16 + v
  BY <1>4
<1> QED BY <1>5, <1>6 DEF u, v

\* Four digits of six bits are three bytes.
LEMMA SextetsSpelled ==
    ASSUME NEW d, NEW g \in Nat \ {0}
    PROVE  /\ d[4 * g - 3] \in 0 .. 63 /\ d[4 * g - 2] \in 0 .. 63 =>
                 ByteOf(d, 6, 3 * g - 2) = d[4 * g - 3] * 4 + (d[4 * g - 2] \div 16)
           /\ d[4 * g - 2] \in 0 .. 63 /\ d[4 * g - 1] \in 0 .. 63 =>
                 ByteOf(d, 6, 3 * g - 1) = (d[4 * g - 2] % 16) * 16 + (d[4 * g - 1] \div 4)
           /\ d[4 * g - 1] \in 0 .. 63 /\ d[4 * g] \in 0 .. 63 =>
                 ByteOf(d, 6, 3 * g) = (d[4 * g - 1] % 4) * 64 + d[4 * g]
<1> DEFINE k == 4 * g - 4
           t == d[4 * g - 3]
           u == d[4 * g - 2]
           v == d[4 * g - 1]
           w == d[4 * g]
           l == k + 1
           m == k + 2
           n == k + 3
           x == 3 * g - 2
           y == 3 * g - 1
           z == 3 * g
<1>1. /\ k \in Nat /\ l \in Nat /\ m \in Nat /\ n \in Nat
      /\ k + 1 = 4 * g - 3 /\ l + 1 = 4 * g - 2 /\ m + 1 = 4 * g - 1 /\ n + 1 = 4 * g
  OBVIOUS
<1>2. /\ 8 * x - 7 = 6 * k + 1 /\ 8 * x - 6 = 6 * k + 2 /\ 8 * x - 5 = 6 * k + 3 /\ 8 * x - 4 = 6 * k + 4
      /\ 8 * x - 3 = 6 * k + 5 /\ 8 * x - 2 = 6 * k + 6 /\ 8 * x - 1 = 6 * l + 1 /\ 8 * x = 6 * l + 2
  OBVIOUS
<1>3. /\ 8 * y - 7 = 6 * l + 3 /\ 8 * y - 6 = 6 * l + 4 /\ 8 * y - 5 = 6 * l + 5
      /\ 8 * y - 4 = 6 * l + 6 /\ 8 * y - 3 = 6 * m + 1 /\ 8 * y - 2 = 6 * m + 2
      /\ 8 * y - 1 = 6 * m + 3 /\ 8 * y = 6 * m + 4
  OBVIOUS
<1>4. /\ 8 * z - 7 = 6 * m + 5 /\ 8 * z - 6 = 6 * m + 6 /\ 8 * z - 5 = 6 * n + 1
      /\ 8 * z - 4 = 6 * n + 2 /\ 8 * z - 3 = 6 * n + 3 /\ 8 * z - 2 = 6 * n + 4
      /\ 8 * z - 1 = 6 * n + 5 /\ 8 * z = 6 * n + 6
  OBVIOUS
<1> HIDE DEF k, l, m, n, x, y, z
<1>t. /\ BitOf(d, 6, 6 * k + 1) = (t \div 32) % 2 /\ BitOf(d, 6, 6 * k + 2) = (t \div 16) % 2
      /\ BitOf(d, 6, 6 * k + 3) = (t \div 8) % 2 /\ BitOf(d, 6, 6 * k + 4) = (t \div 4) % 2
      /\ BitOf(d, 6, 6 * k + 5) = (t \div 2) % 2 /\ BitOf(d, 6, 6 * k + 6) = (t \div 1) % 2
  <2>1. k \in Nat /\ t = d[k + 1]
    BY <1>1
  <2> HIDE DEF t
  <2> QED BY <2>1, BitsOfSextet
<1>u. /\ BitOf(d, 6, 6 * l + 1) = (u \div 32) % 2 /\ BitOf(d, 6, 6 * l + 2) = (u \div 16) % 2
      /\ BitOf(d, 6, 6 * l + 3) = (u \div 8) % 2 /\ BitOf(d, 6, 6 * l + 4) = (u \div 4) % 2
      /\ BitOf(d, 6, 6 * l + 5) = (u \div 2) % 2 /\ BitOf(d, 6, 6 * l + 6) = (u \div 1) % 2
  <2>1. l \in Nat /\ u = d[l + 1]
    BY <1>1
  <2> HIDE DEF u
  <2> QED BY <2>1, BitsOfSextet
<1>v. /\ BitOf(d, 6, 6 * m + 1) = (v \div 32) % 2 /\ BitOf(d, 6, 6 * m + 2) = (v \div 16) % 2
      /\ BitOf(d, 6, 6 * m + 3) = (v \div 8) % 2 /\ BitOf(d, 6, 6 * m + 4) = (v \div 4) % 2
      /\ BitOf(d, 6, 6 * m + 5) = (v \div 2) % 2 /\ BitOf(d, 6, 6 * m + 6) = (v \div 1) % 2
  <2>1. m \in Nat /\ v = d[m + 1]
    BY <1>1
  <2> HIDE DEF v
  <2> QED BY <2>1, BitsOfSextet
<1>w. /\ BitOf(d, 6, 6 * n + 1) = (w \div 32) % 2 /\ BitOf(d, 6, 6 * n + 2) = (w \div 16) % 2
      /\ BitOf(d, 6, 6 * n + 3) = (w \div 8) % 2 /\ BitOf(d, 6, 6 * n + 4) = (w \div 4) % 2
      /\ BitOf(d, 6, 6 * n + 5) = (w \div 2) % 2 /\ BitOf(d, 6, 6 * n + 6) = (w \div 1) % 2
  <2>1. n \in Nat /\ w = d[n + 1]
    BY <1>1
  <2> HIDE DEF w
  <2> QED BY <2>1, BitsOfSextet
<1> HIDE DEF t, u, v, w
<1>5. ByteOf(d, 6, x) = 128 * ((t \div 32) % 2) + 64 * ((t \div 16) % 2) + 32 * ((t \div 8) % 2) + 16 * ((t \div 4) % 2)
                        + 8 * ((t \div 2) % 2) + 4 * ((t \div 1) % 2) + 2 * ((u \div 32) % 2) + ((u \div 16) % 2)
  BY <1>2, <1>t, <1>u DEF ByteOf
<1>6. ByteOf(d, 6, y) = 128 * ((u \div 8) % 2) + 64 * ((u \div 4) % 2) + 32 * ((u \div 2) % 2) + 16 * ((u \div 1) % 2)
                        + 8 * ((v \div 32) % 2) + 4 * ((v \div 16) % 2) + 2 * ((v \div 8) % 2) + ((v \div 4) % 2)
  BY <1>3, <1>u, <1>v DEF ByteOf
<1>7. ByteOf(d, 6, z) = 128 * ((v \div 2) % 2) + 64 * ((v \div 1) % 2) + 32 * ((w \div 32) % 2) + 16 * ((w \div 16) % 2)
                        + 8 * ((w \div 8) % 2) + 4 * ((w \div 4) % 2) + 2 * ((w \div 2) % 2) + ((w \div 1) % 2)
  BY <1>4, <1>v, <1>w DEF ByteOf
<1>8. ASSUME t \in 0 .. 63, u \in 0 .. 63 PROVE ByteOf(d, 6, x) = t * 4 + (u \div 16)
  BY <1>5, <1>8, SextetBits
<1>9. ASSUME u \in 0 .. 63, v \in 0 .. 63 PROVE ByteOf(d, 6, y) = (u % 16) * 16 + (v \div 4)
  <2>1. u % 16 = 8 * ((u \div 8) % 2) + 4 * ((u \div 4) % 2) + 2 * ((u \div 2) % 2) + ((u \div 1) % 2)
    BY <1>9, SextetBits
  <2>2. v \div 4 = 8 * ((v \div 32) % 2) + 4 * ((v \div 16) % 2) + 2 * ((v \div 8) % 2) + ((v \div 4) % 2)
    BY <1>9, SextetBits
  <2> DEFINE u8 == (u \div 8) % 2
             u4 == (u \div 4) % 2
             u2 == (u \div 2) % 2
             u1 == (u \div 1) % 2
             v32 == (v \div 32) % 2
             v16 == (v \div 16) % 2
             v8 == (v \div 8) % 2
             v4 == (v \div 4) % 2
  <2>3. /\ u8 \in Int /\ u4 \in Int /\ u2 \in Int /\ u1 \in Int
        /\ v32 \in Int /\ v16 \in Int /\ v8 \in Int /\ v4 \in Int
    BY <1>9, BitRange
  <2>4. /\ ByteOf(d, 6, y) = 128 * u8 + 64 * u4 + 32 * u2 + 16 * u1 + 8 * v32 + 4 * v16 + 2 * v8 + v4
        /\ u % 16 = 8 * u8 + 4 * u4 + 2 * u2 + u1 /\ v \div 4 = 8 * v32 + 4 * v16 + 2 * v8 + v4
    BY <1>6, <2>1, <2>2
  <2> HIDE DEF u8, u4, u2, u1, v32, v16, v8, v4
  <2> QED BY <2>3, <2>4
<1>10. ASSUME v \in 0 .. 63, w \in 0 .. 63 PROVE ByteOf(d, 6, z) = (v % 4) * 64 + w
  <2>1. v % 4 = 2 * ((v \div 2) % 2) + ((v \div 1) % 2)
    BY <1>10, SextetBits
  <2>2. w = 32 * ((w \div 32) % 2) + 16 * ((w \div 16) % 2) + 8 * ((w \div 8) % 2) + 4 * ((w \div 4) % 2)
            + 2 * ((w \div 2) % 2) + ((w \div 1) % 2)
    BY <1>10, SextetBits
  <2> DEFINE v2 == (v \div 2) % 2
             v1 == (v \div 1) % 2
             w32 == (w \div 32) % 2
             w16 == (w \div 16) % 2
             w8 == (w \div 8) % 2
             w4 == (w \div 4) % 2
             w2 == (w \div 2) % 2
             w1 == (w \div 1) % 2
  <2>3. /\ v2 \in Int /\ v1 \in Int /\ w32 \in Int /\ w16 \in Int
        /\ w8 \in Int /\ w4 \in Int /\ w2 \in Int /\ w1 \in Int
    BY <1>10, BitRange
  <2>4. /\ ByteOf(d, 6, z) = 128 * v2 + 64 * v1 + 32 * w32 + 16 * w16 + 8 * w8 + 4 * w4 + 2 * w2 + w1
        /\ v % 4 = 2 * v2 + v1 /\ w = 32 * w32 + 16 * w16 + 8 * w8 + 4 * w4 + 2 * w2 + w1
    BY <1>7, <2>1, <2>2
  <2> HIDE DEF v2, v1, w32, w16, w8, w4, w2, w1
  <2> DEFINE r == v % 4
  <2>5. r = 2 * v2 + v1
    BY <2>4
  <2> HIDE DEF r
  <2>6. ByteOf(d, 6, z) = r * 64 + w
    BY <2>3, <2>4, <2>5
  <2> QED BY <2>6 DEF r
<1> QED BY <1>8, <1>9, <1>10 DEF t, u, v, w, x, y, z

-----------------------------------------------------------------------------
(* Hexadecimal digits, read bit by bit.                                    *)

\* A digit is a spelling of what it is read as, and of nothing else.
LEMMA HexSpelling ==
    ASSUME NEW ch \in Bytes
    PROVE  /\ DecodeNibble(ch) \in -1 .. 15
           /\ \A v \in 0 .. 15 : ch \in HexDigit(v) <=> DecodeNibble(ch) = v
BY DEF HexDigit, EncodeNibble, DecodeNibble, Digits, Bytes

\* A text of hexadecimal digits, read bit by bit.
LEMMA HexReads ==
    ASSUME NEW s \in Seq(Bytes)
    PROVE  Reads(s, HexDigit, 4) =
              IF \A i \in DOMAIN s : DecodeNibble(s[i]) >= 0
              THEN Spelled([i \in DOMAIN s |-> DecodeNibble(s[i])], 4)
              ELSE Rejected
<1> DEFINE values == 0 .. 2 ^ 4 - 1
           digits == [i \in DOMAIN s |-> CHOOSE v \in values : s[i] \in HexDigit(v)]
<1>0. values = 0 .. 15
  OBVIOUS
<1>1. Reads(s, HexDigit, 4) =
         IF Range(s) \subseteq UNION {HexDigit(v) : v \in values} THEN Spelled(digits, 4) ELSE Rejected
  BY DEF Reads
<1> HIDE DEF values
<1>2. Range(s) \subseteq UNION {HexDigit(v) : v \in values} <=> \A i \in DOMAIN s : DecodeNibble(s[i]) >= 0
  <2>1. ASSUME NEW i \in DOMAIN s
        PROVE  s[i] \in UNION {HexDigit(v) : v \in values} <=> DecodeNibble(s[i]) >= 0
    BY <1>0, HexSpelling
  <2> QED BY <2>1 DEF Range
<1>3. ASSUME \A i \in DOMAIN s : DecodeNibble(s[i]) >= 0
      PROVE  digits = [i \in DOMAIN s |-> DecodeNibble(s[i])]
  <2>1. ASSUME NEW i \in DOMAIN s PROVE (CHOOSE v \in values : s[i] \in HexDigit(v)) = DecodeNibble(s[i])
    <3>1. DecodeNibble(s[i]) \in values /\ \A v \in values : s[i] \in HexDigit(v) <=> DecodeNibble(s[i]) = v
      BY <1>0, <1>3, HexSpelling
    <3> QED BY <3>1
  <2> QED BY <2>1
<1> HIDE DEF digits
<1> QED BY <1>1, <1>2, <1>3

\* A text of digits of four bits spells the bytes of its pairs.
LEMMA SpelledNibbles ==
    ASSUME NEW d \in Seq(0 .. 15)
    PROVE  Spelled(d, 4) = IF Len(d) % 2 = 0
                           THEN [i \in 1 .. Len(d) \div 2 |-> d[2 * i - 1] * 16 + d[2 * i]]
                           ELSE Rejected
<1> DEFINE n == Len(d)
           size == (4 * n) \div 8
<1>0. n \in Nat
  OBVIOUS
<1>1. Spelled(d, 4) = IF 4 * n - 8 * size < 4 /\ \A j \in 8 * size + 1 .. 4 * n : BitOf(d, 4, j) = 0
                      THEN [i \in 1 .. size |-> ByteOf(d, 4, i)]
                      ELSE Rejected
  BY SpelledBits
<1>2. CASE n % 2 = 0
  <2>1. size = n \div 2 /\ 4 * n - 8 * size = 0 /\ 8 * size + 1 .. 4 * n = {}
    BY <1>0, <1>2
  <2>2. ASSUME NEW i \in 1 .. n \div 2 PROVE ByteOf(d, 4, i) = d[2 * i - 1] * 16 + d[2 * i]
    <3>1. i \in Nat \ {0} /\ 2 * i - 1 \in 1 .. n /\ 2 * i \in 1 .. n
      BY <1>0, <1>2
    <3> DEFINE S == 0 .. 15
    <3>a. d \in Seq(S)
      OBVIOUS
    <3> HIDE DEF S
    <3>b. \A j \in 1 .. n : d[j] \in S
      BY <3>a, TextIs
    <3>2. d[2 * i - 1] \in 0 .. 15 /\ d[2 * i] \in 0 .. 15
      BY <3>1, <3>b DEF S
    <3> QED BY <3>1, <3>2, NibblesSpelled
  <2> HIDE DEF n, size
  <2>3. [i \in 1 .. size |-> ByteOf(d, 4, i)] = [i \in 1 .. n \div 2 |-> d[2 * i - 1] * 16 + d[2 * i]]
    BY <2>1, <2>2
  <2>4. Spelled(d, 4) = [i \in 1 .. size |-> ByteOf(d, 4, i)]
    BY <1>1, <2>1
  <2> QED BY <1>2, <2>3, <2>4 DEF n
<1>3. CASE n % 2 # 0
  <2>1. ~(4 * n - 8 * size < 4)
    BY <1>0, <1>3
  <2> HIDE DEF size
  <2> QED BY <1>1, <1>3, <2>1
<1> QED BY <1>2, <1>3

\* hex_decode reads the bits of the digits.
LEMMA HexDecoded ==
    ASSUME NEW s \in Seq(Bytes)
    PROVE  HexDecode(s) = Reads(s, HexDigit, 4)
<1>1. CASE \A i \in DOMAIN s : DecodeNibble(s[i]) >= 0
  <2> DEFINE d == [i \in DOMAIN s |-> DecodeNibble(s[i])]
             n == Len(s)
  <2>1. /\ DOMAIN s = 1 .. n /\ n \in Nat /\ d = [i \in 1 .. n |-> d[i]]
        /\ \A i \in 1 .. n : d[i] = DecodeNibble(s[i]) /\ d[i] \in 0 .. 15
    BY <1>1, HexSpelling
  <2>2. Reads(s, HexDigit, 4) = Spelled(d, 4)
    BY <1>1, HexReads
  <2> HIDE DEF d
  <2>3. d \in Seq(0 .. 15) /\ Len(d) = n
    BY <2>1, IsText
  <2>4. Spelled(d, 4) = IF n % 2 = 0 THEN [i \in 1 .. n \div 2 |-> d[2 * i - 1] * 16 + d[2 * i]] ELSE Rejected
    BY <2>3, SpelledNibbles
  <2>5. ASSUME n % 2 = 0, NEW i \in 1 .. n \div 2
        PROVE  d[2 * i - 1] = DecodeNibble(s[2 * i - 1]) /\ d[2 * i] = DecodeNibble(s[2 * i])
    <3>1. 2 * i - 1 \in 1 .. n /\ 2 * i \in 1 .. n
      BY <2>1, <2>5
    <3> QED BY <2>1, <3>1
  <2>6. HexDecode(s) = IF n % 2 = 0
                       THEN [i \in 1 .. n \div 2 |-> DecodeNibble(s[2 * i - 1]) * 16 + DecodeNibble(s[2 * i])]
                       ELSE Rejected
    BY <1>1 DEF HexDecode
  <2> HIDE DEF n
  <2> QED BY <2>2, <2>4, <2>5, <2>6
<1>2. CASE ~ \A i \in DOMAIN s : DecodeNibble(s[i]) >= 0
  BY <1>2, HexReads DEF HexDecode
<1> QED BY <1>1, <1>2

-----------------------------------------------------------------------------
(* The digits of base64: those that base64_encode looks up spell the bytes,*)
(* and no others do.                                                       *)

\* The digits of six bits that make a byte string: what base64_encode looks up.
Sextets(b) == [k \in 1 .. (Len(b) + 2) \div 3 + Len(b) |-> DecodeChar(Base64Encode(b)[k])]

\* The digits of one group that are there.
SextetsOfGroup(d, b, g) ==
    LET x == At(b, 3 * g - 2)
        y == At(b, 3 * g - 1)
        z == At(b, 3 * g)
    IN /\ d[4 * g - 3] = x \div 4
       /\ d[4 * g - 2] = (x % 4) * 16 + (y \div 16)
       /\ 3 * g - 1 <= Len(b) => d[4 * g - 1] = (y % 16) * 4 + (z \div 64)
       /\ 3 * g <= Len(b) => d[4 * g] = z % 64

\* n bytes in G groups make m digits: how many bits they have, and where the last group ends.
Grouped(n, G, m) ==
    /\ G \in Nat /\ m \in Nat /\ (6 * m) \div 8 = n /\ 6 * m - 8 * n < 6
    /\ \/ n = 3 * G /\ m = 4 * G
       \/ n = 3 * G - 1 /\ m = 4 * G - 1 /\ G > 0
       \/ n = 3 * G - 2 /\ m = 4 * G - 2 /\ G > 0

\* How many digits a byte string has, and where the last group ends.
LEMMA SextetCount ==
    ASSUME NEW n \in Nat, NEW G, G = (n + 2) \div 3, NEW m, m = G + n
    PROVE  Grouped(n, G, m)
<1>1. G \in Nat /\ m = G + n /\ (n = 3 * G \/ n = 3 * G - 1 \/ n = 3 * G - 2)
  OBVIOUS
<1>2. ASSUME n = 3 * G PROVE n = 3 * G /\ m = 4 * G
  BY <1>1, <1>2
<1>3. ASSUME n = 3 * G - 1 PROVE n = 3 * G - 1 /\ m = 4 * G - 1 /\ G > 0
  BY <1>1, <1>3
<1>4. ASSUME n = 3 * G - 2 PROVE n = 3 * G - 2 /\ m = 4 * G - 2 /\ G > 0
  BY <1>1, <1>4
<1>5. \/ n = 3 * G /\ m = 4 * G
      \/ n = 3 * G - 1 /\ m = 4 * G - 1 /\ G > 0
      \/ n = 3 * G - 2 /\ m = 4 * G - 2 /\ G > 0
  BY <1>1, <1>2, <1>3, <1>4
<1>6. m \in Nat
  BY <1>1
<1>7. (6 * m) \div 8 = n /\ 6 * m - 8 * n < 6
  BY <1>1, <1>5, <1>6
<1> QED BY <1>1, <1>5, <1>6, <1>7 DEF Grouped

\* The alphabet writes what it reads.
LEMMA AlphabetRead ==
    ASSUME NEW ch \in Uppers \cup Lowers \cup Digits \cup {Plus, Slash}
    PROVE  Alphabet[DecodeChar(ch)] = ch
<1>1. DecodeChar(ch) \in 0 .. 63
  BY DEF DecodeChar, Uppers, Lowers, Digits, Plus, Slash
<1> QED BY <1>1 DEF Alphabet, DecodeChar, Uppers, Lowers, Digits, Plus, Slash

\* The digits are digits, the alphabet writes them, and they are made of the bytes.
LEMMA SextetsMade ==
    ASSUME NEW b \in Seq(Bytes)
    PROVE  LET n == Len(b)
               G == (n + 2) \div 3
               m == G + n
               d == Sextets(b)
           IN /\ d \in Seq(0 .. 63) /\ Len(d) = m
              /\ \A k \in 1 .. m : Base64Encode(b)[k] = Alphabet[d[k]]
              /\ \A g \in 1 .. G : SextetsOfGroup(d, b, g)
<1> DEFINE n == Len(b)
           G == (n + 2) \div 3
           m == G + n
           d == Sextets(b)
           E == Base64Encode(b)
           X(g) == At(b, 3 * g - 2)
           Y(g) == At(b, 3 * g - 1)
           Z(g) == At(b, 3 * g)
<1>0. n \in Nat /\ G \in Nat /\ m \in Nat /\ m <= 4 * G /\ 3 * G - 2 <= n
  BY GroupCount
<1>1. \A k \in 1 .. m : E[k] \in Uppers \cup Lowers \cup Digits \cup {Plus, Slash} /\ DecodeChar(E[k]) \in 0 .. 63
  BY <1>0, Base64Characters
<1>2. d = [k \in 1 .. m |-> d[k]] /\ \A k \in 1 .. m : d[k] = DecodeChar(E[k])
  BY DEF Sextets
<1>3. ASSUME NEW g \in 1 .. G
      PROVE  /\ E[4 * g - 3] = Alphabet[X(g) \div 4]
             /\ E[4 * g - 2] = Alphabet[(X(g) % 4) * 16 + (Y(g) \div 16)]
             /\ E[4 * g - 1] = IF 3 * g - 1 <= n THEN Alphabet[(Y(g) % 16) * 4 + (Z(g) \div 64)] ELSE Equals
             /\ E[4 * g] = IF 3 * g <= n THEN Alphabet[Z(g) % 64] ELSE Equals
  BY Base64Written
<1> HIDE DEF d, E, X, Y, Z, m, G, n
<1>4. d \in Seq(0 .. 63) /\ Len(d) = m
  <2>1. ASSUME NEW k \in 1 .. m PROVE d[k] \in 0 .. 63
    <3>1. d[k] = DecodeChar(E[k])
      BY <1>2
    <3>2. DecodeChar(E[k]) \in 0 .. 63
      BY <1>1
    <3> QED BY <3>1, <3>2
  <2>2. m \in Nat /\ d = [k \in 1 .. m |-> d[k]]
    BY <1>0, <1>2
  <2> DEFINE S == 0 .. 63
  <2>3. \A k \in 1 .. m : d[k] \in S
    BY <2>1
  <2> HIDE DEF S
  <2>4. d \in Seq(S) /\ Len(d) = m
    BY <2>2, <2>3, IsText
  <2> QED BY <2>4 DEF S
<1>5. \A k \in 1 .. m : E[k] = Alphabet[d[k]]
  BY <1>1, <1>2, AlphabetRead
<1>6. ASSUME NEW g \in 1 .. G PROVE SextetsOfGroup(d, b, g)
  <2>1. X(g) \in Bytes /\ Y(g) \in Bytes /\ Z(g) \in Bytes
    BY AtIsByte, <1>0 DEF X, Y, Z
  <2>2. /\ X(g) \div 4 \in 0 .. 63 /\ (X(g) % 4) * 16 + (Y(g) \div 16) \in 0 .. 63
        /\ (Y(g) % 16) * 4 + (Z(g) \div 64) \in 0 .. 63 /\ Z(g) % 64 \in 0 .. 63
    BY <2>1, SixBits
  <2>3. /\ 4 * g - 3 \in 1 .. m /\ 4 * g - 2 \in 1 .. m
        /\ 3 * g - 1 <= n => 4 * g - 1 \in 1 .. m
        /\ 3 * g <= n => 4 * g \in 1 .. m
    BY <1>0 DEF m
  <2> DEFINE p == X(g) \div 4
             q == (X(g) % 4) * 16 + (Y(g) \div 16)
             r == (Y(g) % 16) * 4 + (Z(g) \div 64)
             s == Z(g) % 64
             i == 4 * g - 3
             j == 4 * g - 2
             k == 4 * g - 1
             l == 4 * g
  <2>a. /\ E[i] = Alphabet[p] /\ E[j] = Alphabet[q]
        /\ 3 * g - 1 <= n => E[k] = Alphabet[r]
        /\ 3 * g <= n => E[l] = Alphabet[s]
    BY <1>3
  <2> HIDE DEF p, q, r, s, i, j, k, l
  <2>b. \A c \in 0 .. 63 : DecodeChar(Alphabet[c]) = c
    BY CharRead
  <2>c. p \in 0 .. 63 /\ q \in 0 .. 63 /\ r \in 0 .. 63 /\ s \in 0 .. 63
    BY <2>2 DEF p, q, r, s
  <2>d. i \in 1 .. m /\ j \in 1 .. m /\ (3 * g - 1 <= n => k \in 1 .. m) /\ (3 * g <= n => l \in 1 .. m)
    BY <2>3 DEF i, j, k, l
  <2>4. d[i] = p
    BY <1>2, <2>a, <2>b, <2>c, <2>d
  <2>5. d[j] = q
    BY <1>2, <2>a, <2>b, <2>c, <2>d
  <2>6. 3 * g - 1 <= n => d[k] = r
    BY <1>2, <2>a, <2>b, <2>c, <2>d
  <2>7. 3 * g <= n => d[l] = s
    BY <1>2, <2>a, <2>b, <2>c, <2>d
  <2> QED BY <2>4, <2>5, <2>6, <2>7 DEF SextetsOfGroup, X, Y, Z, n, p, q, r, s, i, j, k, l
<1> QED BY <1>4, <1>5, <1>6 DEF d, E, m, G, n

\* Three bytes are what four digits make, and the digits are what the bytes are cut into.
Joins(t, u, v, w, x, y, z) ==
    x = t * 4 + (u \div 16) /\ y = (u % 16) * 16 + (v \div 4) /\ z = (v % 4) * 64 + w
Cuts(t, u, v, w, x, y, z) ==
    t = x \div 4 /\ u = (x % 4) * 16 + (y \div 16) /\ v = (y % 16) * 4 + (z \div 64) /\ w = z % 64

\* Four digits and the three bytes that they make, both ways.
LEMMA WholeGroup ==
    ASSUME NEW t \in 0 .. 63, NEW u \in 0 .. 63, NEW v \in 0 .. 63, NEW w \in 0 .. 63,
           NEW x \in 0 .. 255, NEW y \in 0 .. 255, NEW z \in 0 .. 255
    PROVE  Joins(t, u, v, w, x, y, z) <=> Cuts(t, u, v, w, x, y, z)
<1>1. ASSUME Joins(t, u, v, w, x, y, z) PROVE Cuts(t, u, v, w, x, y, z)
  BY <1>1 DEF Joins, Cuts
<1>2. ASSUME Cuts(t, u, v, w, x, y, z) PROVE Joins(t, u, v, w, x, y, z)
  BY <1>2 DEF Joins, Cuts
<1> QED BY <1>1, <1>2

\* Two bytes are what three digits make, and the two bits that are left over are zero.
JoinsTwo(t, u, v, x, y) == x = t * 4 + (u \div 16) /\ y = (u % 16) * 16 + (v \div 4) /\ v % 4 = 0
CutsTwo(t, u, v, x, y) == t = x \div 4 /\ u = (x % 4) * 16 + (y \div 16) /\ v = (y % 16) * 4

\* Three digits and two bytes: two bits are left over.
LEMMA GroupOfTwo ==
    ASSUME NEW t \in 0 .. 63, NEW u \in 0 .. 63, NEW v \in 0 .. 63, NEW x \in 0 .. 255, NEW y \in 0 .. 255
    PROVE  JoinsTwo(t, u, v, x, y) <=> CutsTwo(t, u, v, x, y)
BY DEF JoinsTwo, CutsTwo

\* One byte is what two digits make, and the four bits that are left over are zero.
JoinsOne(t, u, x) == x = t * 4 + (u \div 16) /\ u % 16 = 0
CutsOne(t, u, x) == t = x \div 4 /\ u = (x % 4) * 16

\* Two digits and one byte: four bits are left over.
LEMMA GroupOfOne ==
    ASSUME NEW t \in 0 .. 63, NEW u \in 0 .. 63, NEW x \in 0 .. 255
    PROVE  JoinsOne(t, u, x) <=> CutsOne(t, u, x)
BY DEF JoinsOne, CutsOne

\* How many digits leave less than a digit over.
LEMMA LeftOver ==
    ASSUME NEW m \in Nat, NEW n, n = (6 * m) \div 8, 6 * m - 8 * n < 6
    PROVE  n \in Nat /\ m = ((n + 2) \div 3) + n
<1>1. n \in Nat /\ 6 * m - 8 * n >= 0
  OBVIOUS
<1>2. \E q \in Nat : m \in {4 * q, 4 * q + 1, 4 * q + 2, 4 * q + 3}
  <2>1. m \div 4 \in Nat /\ m \in {4 * (m \div 4), 4 * (m \div 4) + 1, 4 * (m \div 4) + 2, 4 * (m \div 4) + 3}
    OBVIOUS
  <2> QED BY <2>1
<1>3. PICK q \in Nat : m \in {4 * q, 4 * q + 1, 4 * q + 2, 4 * q + 3}
  BY <1>2
<1>4. CASE m = 4 * q
  <2>1. n = 3 * q
    BY <1>4
  <2> QED BY <1>1, <1>4, <2>1
<1>5. CASE m = 4 * q + 1
  <2>1. n = 3 * q
    BY <1>5
  <2> QED BY <1>5, <2>1
<1>6. CASE m = 4 * q + 2
  <2>1. n = 3 * q + 1
    BY <1>6
  <2> QED BY <1>1, <1>6, <2>1
<1>7. CASE m = 4 * q + 3
  <2>1. n = 3 * q + 2
    BY <1>7
  <2> QED BY <1>1, <1>7, <2>1
<1> QED BY <1>3, <1>4, <1>5, <1>6, <1>7

\* The bits at the end of the last digit that are part of no byte are zero.
NoneLeft(d, n, G) ==
    /\ n = 3 * G - 1 => d[4 * G - 1] % 4 = 0
    /\ n = 3 * G - 2 => d[4 * G - 2] % 16 = 0

\* The bytes of a group are those that the digits make.
BytesTold(d, b, g) == \A i \in {3 * g - 2, 3 * g - 1, 3 * g} : i <= Len(b) => b[i] = ByteOf(d, 6, i)

\* The bits that are left over are those at the end of the last digit.
LEMMA BitsLeftOver ==
    ASSUME NEW d \in Seq(0 .. 63), NEW n \in Nat, NEW G, G = (n + 2) \div 3, Len(d) = G + n
    PROVE  (\A j \in 8 * n + 1 .. 6 * (G + n) : BitOf(d, 6, j) = 0)
              <=> NoneLeft(d, n, G)
<1> DEFINE m == G + n
<1>0. /\ G \in Nat /\ m \in Nat
      /\ \/ n = 3 * G /\ m = 4 * G
         \/ n = 3 * G - 1 /\ m = 4 * G - 1 /\ G > 0
         \/ n = 3 * G - 2 /\ m = 4 * G - 2 /\ G > 0
  <2>1. m = G + n /\ n \in Nat /\ G = (n + 2) \div 3
    OBVIOUS
  <2> HIDE DEF m
  <2>2. Grouped(n, G, m)
    BY <2>1, SextetCount
  <2> QED BY <2>2 DEF Grouped
<1> HIDE DEF m
<1>1. CASE n = 3 * G
  <2>1. 8 * n + 1 .. 6 * m = {} /\ n # 3 * G - 1 /\ n # 3 * G - 2
    BY <1>0, <1>1
  <2> QED BY <2>1 DEF m, NoneLeft
<1>2. CASE n = 3 * G - 1
  <2> DEFINE k == 4 * G - 2
             v == d[4 * G - 1]
  <2>1. k \in Nat /\ k + 1 = 4 * G - 1 /\ k + 1 \in 1 .. Len(d) /\ n # 3 * G - 2
    BY <1>0, <1>2 DEF m
  <2>2. 8 * n + 1 .. 6 * m = {6 * k + 5, 6 * k + 6}
    <3> DEFINE a == 6 * k + 5
    <3>1. a \in Int /\ 8 * n + 1 = a /\ 6 * m = a + 1 /\ 6 * k + 6 = a + 1
      BY <1>0, <1>2, <2>1
    <3>2. 6 * k + 5 = a
      OBVIOUS
    <3> HIDE DEF a
    <3>3. a .. a + 1 = {a, a + 1}
      BY <3>1
    <3> DEFINE places == 8 * n + 1 .. 6 * m
               bits == {6 * k + 5, 6 * k + 6}
    <3>4. places = a .. a + 1
      BY <3>1
    <3>5. bits = {a, a + 1}
      BY <3>1, <3>2
    <3> HIDE DEF places, bits
    <3>6. places = bits
      BY <3>3, <3>4, <3>5
    <3> QED BY <3>6 DEF places, bits
  <2>3. v \in 0 .. 63 /\ v = d[k + 1]
    <3> DEFINE S == 0 .. 63
    <3>1. d \in Seq(S)
      OBVIOUS
    <3> HIDE DEF S
    <3>2. d[k + 1] \in S
      BY <2>1, <3>1
    <3>3. k + 1 \in Int /\ v = d[k + 1]
      BY <2>1
    <3> QED BY <3>2, <3>3 DEF S
  <2> HIDE DEF k, v
  <2>4. BitOf(d, 6, 6 * k + 5) = (v \div 2) % 2 /\ BitOf(d, 6, 6 * k + 6) = (v \div 1) % 2
    BY <2>1, <2>3, BitsOfSextet
  <2>5. v % 4 = 0 <=> (v \div 2) % 2 = 0 /\ (v \div 1) % 2 = 0
    <3>1. v % 4 = 2 * ((v \div 2) % 2) + ((v \div 1) % 2)
      BY <2>3, SextetBits
    <3> QED BY <2>3, <3>1
  <2> QED BY <1>2, <2>1, <2>2, <2>4, <2>5 DEF m, v, NoneLeft
<1>3. CASE n = 3 * G - 2
  <2> DEFINE k == 4 * G - 3
             v == d[4 * G - 2]
  <2>1. k \in Nat /\ k + 1 = 4 * G - 2 /\ k + 1 \in 1 .. Len(d) /\ n # 3 * G - 1
    BY <1>0, <1>3 DEF m
  <2>2. 8 * n + 1 .. 6 * m = {6 * k + 3, 6 * k + 4, 6 * k + 5, 6 * k + 6}
    <3> DEFINE a == 6 * k + 3
    <3>1. /\ a \in Int /\ 8 * n + 1 = a /\ 6 * m = a + 3
          /\ 6 * k + 4 = a + 1 /\ 6 * k + 5 = a + 2 /\ 6 * k + 6 = a + 3
      BY <1>0, <1>3, <2>1
    <3>2. 6 * k + 3 = a
      OBVIOUS
    <3> HIDE DEF a
    <3>3. a .. a + 3 = {a, a + 1, a + 2, a + 3}
      BY <3>1
    <3> DEFINE places == 8 * n + 1 .. 6 * m
               bits == {6 * k + 3, 6 * k + 4, 6 * k + 5, 6 * k + 6}
    <3>4. places = a .. a + 3
      BY <3>1
    <3>5. bits = {a, a + 1, a + 2, a + 3}
      BY <3>1, <3>2
    <3> HIDE DEF places, bits
    <3>6. places = bits
      BY <3>3, <3>4, <3>5
    <3> QED BY <3>6 DEF places, bits
  <2>3. v \in 0 .. 63 /\ v = d[k + 1]
    <3> DEFINE S == 0 .. 63
    <3>1. d \in Seq(S)
      OBVIOUS
    <3> HIDE DEF S
    <3>2. d[k + 1] \in S
      BY <2>1, <3>1
    <3>3. k + 1 \in Int /\ v = d[k + 1]
      BY <2>1
    <3> QED BY <3>2, <3>3 DEF S
  <2> HIDE DEF k, v
  <2>4. /\ BitOf(d, 6, 6 * k + 3) = (v \div 8) % 2 /\ BitOf(d, 6, 6 * k + 4) = (v \div 4) % 2
        /\ BitOf(d, 6, 6 * k + 5) = (v \div 2) % 2 /\ BitOf(d, 6, 6 * k + 6) = (v \div 1) % 2
    BY <2>1, <2>3, BitsOfSextet
  <2>5. v % 16 = 0 <=> (v \div 8) % 2 = 0 /\ (v \div 4) % 2 = 0 /\ (v \div 2) % 2 = 0 /\ (v \div 1) % 2 = 0
    <3> DEFINE p == (v \div 8) % 2
               q == (v \div 4) % 2
               r == (v \div 2) % 2
               s == (v \div 1) % 2
    <3>1. v % 16 = 8 * p + 4 * q + 2 * r + s
      BY <2>3, SextetBits
    <3>4. p \in 0 .. 1 /\ q \in 0 .. 1 /\ r \in 0 .. 1 /\ s \in 0 .. 1
      BY <2>3, BitRange
    <3> HIDE DEF p, q, r, s
    <3>5. v % 16 = 0 <=> p = 0 /\ q = 0 /\ r = 0 /\ s = 0
      BY <3>1, <3>4
    <3> QED BY <3>5 DEF p, q, r, s
  <2> QED BY <1>3, <2>1, <2>2, <2>4, <2>5 DEF m, v, NoneLeft
<1> QED BY <1>0, <1>1, <1>2, <1>3

\* What the bits of a group are, when none but zeros are left over.
LEMMA GroupSpelled ==
    ASSUME NEW d \in Seq(0 .. 63), NEW b \in Seq(Bytes), NEW n, n = Len(b), NEW G, G = (n + 2) \div 3,
           Len(d) = G + n, NEW g \in 1 .. G
    PROVE  /\ NoneLeft(d, n, G) => (SextetsOfGroup(d, b, g) <=> BytesTold(d, b, g))
           /\ g = G /\ SextetsOfGroup(d, b, g) => NoneLeft(d, n, G)
<1> DEFINE i == 3 * g - 2
           j == 3 * g - 1
           k == 3 * g
           t == d[4 * g - 3]
           u == d[4 * g - 2]
           v == d[4 * g - 1]
           w == d[4 * g]
           x == At(b, i)
           y == At(b, j)
           z == At(b, k)
           Said == BytesTold(d, b, g)
           Left == NoneLeft(d, n, G)
<1>0. /\ n \in Nat /\ G \in Nat /\ Len(d) \in Nat /\ g \in Nat \ {0} /\ g <= G
      /\ \/ n = 3 * G /\ Len(d) = 4 * G
         \/ n = 3 * G - 1 /\ Len(d) = 4 * G - 1
         \/ n = 3 * G - 2 /\ Len(d) = 4 * G - 2
  <2> DEFINE m == Len(d)
  <2>1. n \in Nat /\ m = G + n
    OBVIOUS
  <2> HIDE DEF m
  <2>2. Grouped(n, G, m)
    BY <2>1, SextetCount
  <2>3. /\ G \in Nat /\ m \in Nat
        /\ \/ n = 3 * G /\ m = 4 * G
           \/ n = 3 * G - 1 /\ m = 4 * G - 1 /\ G > 0
           \/ n = 3 * G - 2 /\ m = 4 * G - 2 /\ G > 0
    BY <2>2 DEF Grouped
  <2>4. g \in Nat \ {0} /\ g <= G
    BY <2>3
  <2>5. m = Len(d)
    BY DEF m
  <2> QED BY ONLY <2>1, <2>3, <2>4, <2>5
<1>1. x \in 0 .. 255 /\ y \in 0 .. 255 /\ z \in 0 .. 255
  BY <1>0, AtIsByte DEF Bytes
<1>2. /\ i \in 1 .. n /\ x = b[i]
      /\ IF j <= n THEN j \in 1 .. n /\ y = b[j] ELSE y = 0
      /\ IF k <= n THEN k \in 1 .. n /\ z = b[k] ELSE z = 0
  <2>1. i \in 1 .. n /\ (j <= n => j \in 1 .. n) /\ (k <= n => k \in 1 .. n)
    BY <1>0
  <2>2. \A a \in Int : /\ a \in 1 .. n => At(b, a) = b[a]
                       /\ a \notin 1 .. n => At(b, a) = 0
    BY AtIsByte
  <2>3. i \in Int /\ j \in Int /\ k \in Int
    BY <1>0
  <2> HIDE DEF i, j, k
  <2> QED BY <1>0, <2>1, <2>2, <2>3
<1>3. /\ t \in 0 .. 63 /\ u \in 0 .. 63 /\ (j <= n => v \in 0 .. 63) /\ (k <= n => w \in 0 .. 63)
  <2>1. /\ 4 * g - 3 \in 1 .. Len(d) /\ 4 * g - 2 \in 1 .. Len(d)
        /\ j <= n => 4 * g - 1 \in 1 .. Len(d)
        /\ k <= n => 4 * g \in 1 .. Len(d)
    BY <1>0
  <2> DEFINE S == 0 .. 63
  <2>a. d \in Seq(S)
    OBVIOUS
  <2> HIDE DEF S
  <2>2. \A a \in 1 .. Len(d) : d[a] \in S
    BY <2>a
  <2>3. t \in S /\ u \in S /\ (j <= n => v \in S) /\ (k <= n => w \in S)
    BY <2>1, <2>2
  <2> QED BY <2>3 DEF S
<1>4. /\ ByteOf(d, 6, i) = t * 4 + (u \div 16)
      /\ j <= n => ByteOf(d, 6, j) = (u % 16) * 16 + (v \div 4)
      /\ k <= n => ByteOf(d, 6, k) = (v % 4) * 64 + w
  <2>1. k <= n => j <= n
    BY <1>0
  <2> QED BY <1>0, <1>3, <2>1, SextetsSpelled
<1>5. SextetsOfGroup(d, b, g) <=> /\ t = x \div 4 /\ u = (x % 4) * 16 + (y \div 16)
                                  /\ j <= n => v = (y % 16) * 4 + (z \div 64)
                                  /\ k <= n => w = z % 64
  BY DEF SextetsOfGroup
<1>6. Said <=> /\ i <= n => b[i] = ByteOf(d, 6, i)
               /\ j <= n => b[j] = ByteOf(d, 6, j)
               /\ k <= n => b[k] = ByteOf(d, 6, k)
  BY DEF BytesTold
<1>7. i <= n /\ (k <= n => j <= n) /\ (j <= n /\ ~(k <= n) => n = 3 * G - 1 /\ g = G) /\ (~(j <= n) => n = 3 * G - 2 /\ g = G)
      /\ (g = G /\ n = 3 * G - 1 => j <= n /\ ~(k <= n)) /\ (g = G /\ n = 3 * G - 2 => ~(j <= n))
      /\ ~(n = 3 * G - 1 /\ n = 3 * G - 2)
  BY <1>0
<1>8. g = G => v = d[4 * G - 1] /\ u = d[4 * G - 2]
  OBVIOUS
<1> HIDE DEF i, j, k, t, u, v, w, x, y, z, Said, Left
<1>9. CASE k <= n
  <2>0. t \in 0 .. 63 /\ u \in 0 .. 63 /\ v \in 0 .. 63 /\ w \in 0 .. 63
    BY <1>3, <1>7, <1>9
  <2>a. Said <=> x = t * 4 + (u \div 16) /\ y = (u % 16) * 16 + (v \div 4) /\ z = (v % 4) * 64 + w
    BY <1>2, <1>4, <1>6, <1>7, <1>9
  <2>b. SextetsOfGroup(d, b, g) <=> /\ t = x \div 4 /\ u = (x % 4) * 16 + (y \div 16)
                                    /\ v = (y % 16) * 4 + (z \div 64) /\ w = z % 64
    BY <1>5, <1>7, <1>9
  <2>c. Joins(t, u, v, w, x, y, z) <=> Cuts(t, u, v, w, x, y, z)
    BY <1>1, <2>0, WholeGroup
  <2>1. SextetsOfGroup(d, b, g) <=> Said
    BY <2>a, <2>b, <2>c DEF Joins, Cuts
  <2>2. g = G => Left
    BY <1>7, <1>9 DEF Left, NoneLeft
  <2> QED BY <2>1, <2>2 DEF Said, Left
<1>10. CASE j <= n /\ ~(k <= n)
  <2>1. Left <=> v % 4 = 0
    BY <1>7, <1>8, <1>10 DEF Left, NoneLeft
  <2>2. z = 0 /\ (y % 16) * 4 + (z \div 64) = (y % 16) * 4
    BY <1>1, <1>2, <1>10
  <2>3. SextetsOfGroup(d, b, g) <=> t = x \div 4 /\ u = (x % 4) * 16 + (y \div 16) /\ v = (y % 16) * 4
    BY <1>5, <1>10, <2>2
  <2>4. Said <=> x = t * 4 + (u \div 16) /\ y = (u % 16) * 16 + (v \div 4)
    <3>1. x = b[i] /\ y = b[j] /\ i <= n
      BY <1>2, <1>7, <1>10
    <3>2. ByteOf(d, 6, i) = t * 4 + (u \div 16) /\ ByteOf(d, 6, j) = (u % 16) * 16 + (v \div 4)
      BY <1>4, <1>10
    <3>3. Said <=> b[i] = ByteOf(d, 6, i) /\ b[j] = ByteOf(d, 6, j)
      BY <1>6, <1>7, <1>10
    <3> QED BY <3>1, <3>2, <3>3
  <2>5. t \in 0 .. 63 /\ u \in 0 .. 63 /\ v \in 0 .. 63
    BY <1>3, <1>10
  <2>6. JoinsTwo(t, u, v, x, y) <=> CutsTwo(t, u, v, x, y)
    BY <1>1, <2>5, GroupOfTwo
  <2>7. Said /\ v % 4 = 0 <=> SextetsOfGroup(d, b, g)
    BY <2>3, <2>4, <2>6 DEF JoinsTwo, CutsTwo
  <2> QED BY <2>1, <2>7 DEF Said, Left
<1>11. CASE ~(j <= n)
  <2>1. Left <=> u % 16 = 0
    BY <1>7, <1>8, <1>11 DEF Left, NoneLeft
  <2>2. y = 0 /\ (x % 4) * 16 + (y \div 16) = (x % 4) * 16
    BY <1>1, <1>2, <1>11
  <2>3. SextetsOfGroup(d, b, g) <=> t = x \div 4 /\ u = (x % 4) * 16
    BY <1>5, <1>7, <1>11, <2>2
  <2>4. Said <=> x = t * 4 + (u \div 16)
    BY <1>2, <1>4, <1>6, <1>7, <1>11
  <2>6. JoinsOne(t, u, x) <=> CutsOne(t, u, x)
    BY <1>1, <1>3, GroupOfOne
  <2>5. Said /\ u % 16 = 0 <=> SextetsOfGroup(d, b, g)
    BY <2>3, <2>4, <2>6 DEF JoinsOne, CutsOne
  <2> QED BY <2>1, <2>5 DEF Said, Left
<1> QED BY <1>7, <1>9, <1>10, <1>11

\* The group of a digit, and that it is one of those that are there.
LEMMA SextetPlace ==
    ASSUME NEW n \in Nat, NEW G, G = (n + 2) \div 3, NEW k \in 1 .. G + n
    PROVE  \E g \in 1 .. G : \/ k = 4 * g - 3
                             \/ k = 4 * g - 2
                             \/ k = 4 * g - 1 /\ 3 * g - 1 <= n
                             \/ k = 4 * g /\ 3 * g <= n
<1>1. /\ G \in Nat
      /\ \/ n = 3 * G
         \/ n = 3 * G - 1
         \/ n = 3 * G - 2
  <2>1. Grouped(n, G, G + n)
    BY SextetCount
  <2> QED BY <2>1 DEF Grouped
<1>2. k \in 1 .. 4 * G
  BY <1>1
<1> DEFINE g == ((k - 1) \div 4) + 1
<1>3. g \in 1 .. G /\ (k = 4 * g - 3 \/ k = 4 * g - 2 \/ k = 4 * g - 1 \/ k = 4 * g)
  BY <1>1, <1>2, CharPlace
<1> HIDE DEF g
<1>4. (k = 4 * g - 1 => 3 * g - 1 <= n) /\ (k = 4 * g => 3 * g <= n)
  BY <1>1, <1>3
<1> QED BY <1>3, <1>4

\* The bytes of a byte string fix its digits.
LEMMA GroupsAgree ==
    ASSUME NEW b \in Seq(Bytes), NEW d \in Seq(0 .. 63), NEW e \in Seq(0 .. 63), NEW n, n = Len(b),
           NEW G, G = (n + 2) \div 3, Len(d) = G + n, Len(e) = G + n,
           \A g \in 1 .. G : SextetsOfGroup(d, b, g) /\ SextetsOfGroup(e, b, g)
    PROVE  d = e
<1>1. n \in Nat
  OBVIOUS
<1>2. ASSUME NEW k \in 1 .. G + n PROVE d[k] = e[k]
  <2>1. PICK g \in 1 .. G : \/ k = 4 * g - 3
                            \/ k = 4 * g - 2
                            \/ k = 4 * g - 1 /\ 3 * g - 1 <= n
                            \/ k = 4 * g /\ 3 * g <= n
    BY <1>1, SextetPlace
  <2>2. SextetsOfGroup(d, b, g) /\ SextetsOfGroup(e, b, g)
    OBVIOUS
  <2>3. /\ d[4 * g - 3] = e[4 * g - 3] /\ d[4 * g - 2] = e[4 * g - 2]
        /\ 3 * g - 1 <= Len(b) => d[4 * g - 1] = e[4 * g - 1]
        /\ 3 * g <= Len(b) => d[4 * g] = e[4 * g]
    BY ONLY <2>2, Zenon DEF SextetsOfGroup
  <2> QED BY <2>1, <2>3
<1> DEFINE S == 0 .. 63
<1>3. d \in Seq(S) /\ e \in Seq(S)
  OBVIOUS
<1> HIDE DEF S
<1> QED BY <1>2, <1>3, SameText

\* What the digits spell: the bits that are left over are zero, and each group makes its bytes.
LEMMA SextetsSpell ==
    ASSUME NEW d \in Seq(0 .. 63), NEW b \in Seq(Bytes), NEW n, n = Len(b), NEW G, G = (n + 2) \div 3,
           Len(d) = G + n
    PROVE  Spelled(d, 6) = b <=> \A g \in 1 .. G : SextetsOfGroup(d, b, g)
<1> DEFINE m == G + n
           Left == NoneLeft(d, n, G)
           bytes == [i \in 1 .. n |-> ByteOf(d, 6, i)]
<1>0. /\ n \in Nat /\ G \in Nat /\ (6 * m) \div 8 = n /\ 6 * m - 8 * n < 6
      /\ (n = 3 * G - 1 \/ n = 3 * G - 2 => G > 0)
  <2>1. n \in Nat /\ m = G + n
    OBVIOUS
  <2> HIDE DEF m
  <2>2. Grouped(n, G, m)
    BY <2>1, SextetCount
  <2>3. /\ G \in Nat /\ (6 * m) \div 8 = n /\ 6 * m - 8 * n < 6
        /\ (n = 3 * G - 1 \/ n = 3 * G - 2 => G > 0)
    BY <2>2 DEF Grouped
  <2> QED BY <2>1, <2>3
<1>1. Spelled(d, 6) = IF Left THEN bytes ELSE Rejected
  <2> DEFINE Zeros == \A j \in 8 * n + 1 .. 6 * m : BitOf(d, 6, j) = 0
  <2>1. Zeros <=> Left
    BY <1>0, BitsLeftOver
  <2>2. Spelled(d, 6) = IF 6 * Len(d) - 8 * ((6 * Len(d)) \div 8) < 6
                           /\ \A j \in 8 * ((6 * Len(d)) \div 8) + 1 .. 6 * Len(d) : BitOf(d, 6, j) = 0
                        THEN [i \in 1 .. (6 * Len(d)) \div 8 |-> ByteOf(d, 6, i)]
                        ELSE Rejected
    BY SpelledBits
  <2>3. Spelled(d, 6) = IF Zeros THEN bytes ELSE Rejected
    BY <1>0, <2>2
  <2> HIDE DEF Zeros, Left, bytes
  <2> QED BY <2>1, <2>3
<1>2. \A g \in 1 .. G : /\ Left => (SextetsOfGroup(d, b, g) <=> BytesTold(d, b, g))
                        /\ g = G /\ SextetsOfGroup(d, b, g) => Left
  BY GroupSpelled
<1>3. b = bytes <=> \A g \in 1 .. G : BytesTold(d, b, g)
  <2>1. b = [i \in 1 .. n |-> b[i]]
    OBVIOUS
  <2>2. b = bytes <=> \A i \in 1 .. n : b[i] = ByteOf(d, 6, i)
    BY <2>1
  <2>3. ASSUME \A i \in 1 .. n : b[i] = ByteOf(d, 6, i), NEW g \in 1 .. G PROVE BytesTold(d, b, g)
    <3>1. \A i \in {3 * g - 2, 3 * g - 1, 3 * g} : i <= n => i \in 1 .. n
      BY <1>0
    <3> QED BY <2>3, <3>1 DEF BytesTold
  <2>4. ASSUME \A g \in 1 .. G : BytesTold(d, b, g), NEW i \in 1 .. n PROVE b[i] = ByteOf(d, 6, i)
    <3> DEFINE g == ((i - 1) \div 3) + 1
    <3>1. g \in 1 .. G /\ i \in {3 * g - 2, 3 * g - 1, 3 * g} /\ i <= n
      BY <1>0, BytePlace
    <3> HIDE DEF g
    <3> QED BY <2>4, <3>1 DEF BytesTold
  <2> HIDE DEF bytes
  <2> QED BY <2>2, <2>3, <2>4
<1>4. b # Rejected
  BY RejectedIsNoBytes
<1>5. (\A g \in 1 .. G : SextetsOfGroup(d, b, g)) => Left
  <2>1. G > 0 => G \in 1 .. G
    BY <1>0
  <2>2. ~(G > 0) => Left
    BY <1>0 DEF NoneLeft
  <2> HIDE DEF Left
  <2> QED BY <1>2, <2>1, <2>2
<1> HIDE DEF Left, bytes
<1> QED BY <1>1, <1>2, <1>3, <1>4, <1>5

\* The digits that spell a byte string are the ones that base64_encode looks up.
LEMMA SpelledExactly ==
    ASSUME NEW d \in Seq(0 .. 63), NEW b \in Seq(Bytes)
    PROVE  Spelled(d, 6) = b <=> d = Sextets(b)
<1> DEFINE n == Len(b)
           G == (n + 2) \div 3
           e == Sextets(b)
           m == Len(d)
           size == (6 * m) \div 8
<1>1. /\ e \in Seq(0 .. 63) /\ Len(e) = G + n
      /\ \A g \in 1 .. G : SextetsOfGroup(e, b, g)
  BY SextetsMade
<1>2. ASSUME Len(d) = G + n PROVE Spelled(d, 6) = b <=> d = e
  <2>1. n = Len(b) /\ G = (n + 2) \div 3
    OBVIOUS
  <2> HIDE DEF n, G, e
  <2>2. Spelled(d, 6) = b <=> \A g \in 1 .. G : SextetsOfGroup(d, b, g)
    BY <1>2, <2>1, SextetsSpell
  <2>3. (\A g \in 1 .. G : SextetsOfGroup(d, b, g)) => d = e
    BY <1>1, <1>2, <2>1, GroupsAgree
  <2> QED BY <1>1, <2>2, <2>3
<1>3. ASSUME Len(d) # G + n PROVE Spelled(d, 6) # b
  <2>1. SUFFICES ASSUME Spelled(d, 6) = b PROVE FALSE
    OBVIOUS
  <2>2. b # Rejected
    BY RejectedIsNoBytes
  <2>3. 6 * m - 8 * size < 6 /\ b = [i \in 1 .. size |-> ByteOf(d, 6, i)]
    BY <2>1, <2>2, SpelledBits
  <2>4. m \in Nat /\ size \in Nat /\ n \in Nat
    OBVIOUS
  <2>5. n = size
    <3>1. DOMAIN b = 1 .. size /\ DOMAIN b = 1 .. n
      BY <2>3
    <3> HIDE DEF n, size
    <3> QED BY <2>4, <3>1, SameLength
  <2>6. m = G + n
    <3>1. size = (6 * m) \div 8
      OBVIOUS
    <3> HIDE DEF m, size
    <3>2. m = ((size + 2) \div 3) + size
      BY <2>3, <2>4, <3>1, LeftOver
    <3> QED BY <2>5, <3>2
  <2> QED BY <1>3, <2>6
<1> QED BY <1>1, <1>2, <1>3

\* The bytes that digits spell are bytes.
LEMMA SpelledType ==
    ASSUME NEW d \in Seq(0 .. 63)
    PROVE  Spelled(d, 6) \in Seq(Bytes) \cup {Rejected}
<1> DEFINE m == Len(d)
           size == (6 * m) \div 8
<1>0. m \in Nat /\ size \in Nat /\ 8 * size <= 6 * m
  OBVIOUS
<1>1. ASSUME NEW i \in 1 .. size PROVE ByteOf(d, 6, i) \in Bytes
  <2> DEFINE g == ((i - 1) \div 3) + 1
             t == d[4 * g - 3]
             u == d[4 * g - 2]
             v == d[4 * g - 1]
             w == d[4 * g]
             S == 0 .. 63
  <2>1. g \in Nat \ {0} /\ (i = 3 * g - 2 \/ i = 3 * g - 1 \/ i = 3 * g)
    BY <1>0
  <2>2. d \in Seq(S)
    OBVIOUS
  <2> HIDE DEF S, size, g
  <2>3. \A k \in 1 .. m : d[k] \in S
    BY <2>2
  <2> HIDE DEF m
  <2>4. CASE i = 3 * g - 2
    <3>1. 4 * g - 3 \in 1 .. m /\ 4 * g - 2 \in 1 .. m
      BY <1>0, <2>1, <2>4
    <3>2. t \in 0 .. 63 /\ u \in 0 .. 63
      BY <2>3, <3>1 DEF S
    <3>a. ByteOf(d, 6, 3 * g - 2) = t * 4 + (u \div 16)
      BY <2>1, <3>2, SextetsSpelled
    <3>3. ByteOf(d, 6, i) = t * 4 + (u \div 16)
      BY <2>4, <3>a
    <3> HIDE DEF t, u
    <3> QED BY <3>2, <3>3, BytesJoined
  <2>5. CASE i = 3 * g - 1
    <3>1. 4 * g - 2 \in 1 .. m /\ 4 * g - 1 \in 1 .. m
      BY <1>0, <2>1, <2>5
    <3>2. u \in 0 .. 63 /\ v \in 0 .. 63
      BY <2>3, <3>1 DEF S
    <3>a. ByteOf(d, 6, 3 * g - 1) = (u % 16) * 16 + (v \div 4)
      BY <2>1, <3>2, SextetsSpelled
    <3>3. ByteOf(d, 6, i) = (u % 16) * 16 + (v \div 4)
      BY <2>5, <3>a
    <3> HIDE DEF u, v
    <3> QED BY <3>2, <3>3, BytesJoined
  <2>6. CASE i = 3 * g
    <3>1. 4 * g - 1 \in 1 .. m /\ 4 * g \in 1 .. m
      BY <1>0, <2>1, <2>6
    <3>2. v \in 0 .. 63 /\ w \in 0 .. 63
      BY <2>3, <3>1 DEF S
    <3>a. ByteOf(d, 6, 3 * g) = (v % 4) * 64 + w
      BY <2>1, <3>2, SextetsSpelled
    <3>3. ByteOf(d, 6, i) = (v % 4) * 64 + w
      BY <2>6, <3>a
    <3> HIDE DEF v, w
    <3> QED BY <3>2, <3>3, BytesJoined
  <2> QED BY <2>1, <2>4, <2>5, <2>6
<1> DEFINE bytes == [i \in 1 .. size |-> ByteOf(d, 6, i)]
<1>2. Spelled(d, 6) \in {bytes, Rejected}
  BY SpelledBits
<1>3. bytes = [i \in 1 .. size |-> bytes[i]] /\ \A i \in 1 .. size : bytes[i] \in Bytes
  BY <1>1
<1> HIDE DEF bytes, size
<1>4. bytes \in Seq(Bytes)
  BY <1>0, <1>3, IsText
<1> QED BY <1>2, <1>4

-----------------------------------------------------------------------------
(* Alphabets and padding: base64 and base64url, read bit by bit.           *)

\* What digits of six bits are read as, when C writes them.
ReadsBy(s, C) ==
    IF Range(s) \subseteq {C[v] : v \in 0 .. 63}
    THEN Spelled([i \in DOMAIN s |-> CHOOSE v \in 0 .. 63 : s[i] = C[v]], 6)
    ELSE Rejected

\* What C writes for the digits of a byte string.
WritesBy(b, C) == [k \in 1 .. (Len(b) + 2) \div 3 + Len(b) |-> C[Sextets(b)[k]]]

\* Reading and writing are the same, whatever alphabet is used for both.
LEMMA ReadsAsWritten ==
    ASSUME NEW s \in Seq(Bytes), NEW C, \A u, v \in 0 .. 63 : C[u] = C[v] => u = v
    PROVE  /\ ReadsBy(s, C) \in Seq(Bytes) \cup {Rejected}
           /\ \A b \in Seq(Bytes) : ReadsBy(s, C) = b <=> s = WritesBy(b, C)
<1> DEFINE S == 0 .. 63
           d == [i \in DOMAIN s |-> CHOOSE v \in S : s[i] = C[v]]
           n == Len(s)
<1>0. n \in Nat /\ DOMAIN s = 1 .. n /\ s = [i \in 1 .. n |-> s[i]]
  BY TextIs
<1>1. \A u, v \in S : C[u] = C[v] => u = v
  OBVIOUS
<1>2. ReadsBy(s, C) = IF Range(s) \subseteq {C[v] : v \in S} THEN Spelled(d, 6) ELSE Rejected
  BY DEF ReadsBy
<1>e. \A b \in Seq(Bytes) : LET m == (Len(b) + 2) \div 3 + Len(b)
                                e == Sextets(b)
                            IN m \in Nat /\ e \in Seq(S) /\ Len(e) = m /\ \A k \in 1 .. m : e[k] \in S
  <2> TAKE b \in Seq(Bytes)
  <2> DEFINE m == (Len(b) + 2) \div 3 + Len(b)
             e == Sextets(b)
  <2>1. e \in Seq(S) /\ Len(e) = m
    BY SextetsMade
  <2> HIDE DEF m, e, S
  <2>2. m \in Nat /\ \A k \in 1 .. m : e[k] \in S
    BY <2>1, TextIs
  <2> QED BY <2>1, <2>2 DEF m, e
<1>s. \A d1 \in Seq(S) : /\ Spelled(d1, 6) \in Seq(Bytes) \cup {Rejected}
                         /\ \A b \in Seq(Bytes) : Spelled(d1, 6) = b <=> d1 = Sextets(b)
  BY SpelledType, SpelledExactly
<1>w. \A b \in Seq(Bytes) : Sextets(b) = [k \in 1 .. (Len(b) + 2) \div 3 + Len(b) |-> Sextets(b)[k]]
  BY DEF Sextets
<1> HIDE DEF S
<1>3. CASE Range(s) \subseteq {C[v] : v \in S}
  <2>1. \A i \in 1 .. n : s[i] \in {C[v] : v \in S}
    BY <1>0, <1>3 DEF Range
  <2>2. ASSUME NEW i \in 1 .. n PROVE d[i] \in S /\ s[i] = C[d[i]]
    <3>1. \E v \in S : s[i] = C[v]
      BY <2>1
    <3>2. d[i] = CHOOSE v \in S : s[i] = C[v]
      BY <1>0
    <3> HIDE DEF d
    <3> QED BY <3>1, <3>2
  <2>3. d = [i \in 1 .. n |-> d[i]]
    <3> DEFINE D(i) == CHOOSE v \in S : s[i] = C[v]
    <3>1. d = [i \in 1 .. n |-> D(i)]
      BY <1>0
    <3> HIDE DEF d, D
    <3> QED BY <3>1
  <2> HIDE DEF d
  <2>4. d \in Seq(S) /\ Len(d) = n
    BY <1>0, <2>2, <2>3, IsText
  <2>5. ASSUME NEW b \in Seq(Bytes) PROVE d = Sextets(b) <=> s = WritesBy(b, C)
    <3> DEFINE m == (Len(b) + 2) \div 3 + Len(b)
               e == Sextets(b)
    <3>1. m \in Nat /\ e \in Seq(S) /\ Len(e) = m /\ (\A k \in 1 .. m : e[k] \in S) /\ e = [k \in 1 .. m |-> e[k]]
      BY <1>e, <1>w
    <3>2. WritesBy(b, C) = [k \in 1 .. m |-> C[e[k]]]
      BY DEF WritesBy
    <3> HIDE DEF m, e
    <3>3. ASSUME d = e PROVE s = WritesBy(b, C)
      <4>1. n = m
        BY <2>4, <3>1, <3>3
      <4>2. \A i \in 1 .. n : s[i] = C[e[i]]
        BY <2>2, <3>3
      <4> QED BY <1>0, <3>2, <4>1, <4>2
    <3>4. ASSUME s = WritesBy(b, C) PROVE d = e
      <4>1. n = m
        <5>1. 1 .. n = 1 .. m
          BY <1>0, <3>2, <3>4
        <5> HIDE DEF n
        <5> QED BY <1>0, <3>1, <5>1, SameLength
      <4>2. ASSUME NEW i \in 1 .. n PROVE d[i] = e[i]
        <5>1. s[i] = C[e[i]]
          BY <3>2, <3>4, <4>1
        <5>2. e[i] \in S
          BY <3>1, <4>1
        <5>3. d[i] \in S /\ C[d[i]] = C[e[i]]
          BY <2>2, <5>1
        <5> QED BY <1>1, <5>2, <5>3
      <4>3. Len(d) = Len(e) /\ Len(d) = n
        BY <2>4, <3>1, <4>1
      <4> QED BY <2>4, <3>1, <4>2, <4>3, SameText
    <3> QED BY <3>3, <3>4 DEF e
  <2>6. ReadsBy(s, C) = Spelled(d, 6)
    BY <1>2, <1>3
  <2>7. /\ Spelled(d, 6) \in Seq(Bytes) \cup {Rejected}
        /\ \A b \in Seq(Bytes) : Spelled(d, 6) = b <=> d = Sextets(b)
    BY <1>s, <2>4
  <2> QED BY <2>5, <2>6, <2>7
<1>4. CASE ~(Range(s) \subseteq {C[v] : v \in S})
  <2>1. ASSUME NEW b \in Seq(Bytes), s = WritesBy(b, C) PROVE FALSE
    <3> DEFINE m == (Len(b) + 2) \div 3 + Len(b)
               e == Sextets(b)
    <3>1. \A k \in 1 .. m : e[k] \in S
      BY <1>e
    <3>2. s = [k \in 1 .. m |-> C[e[k]]]
      BY <2>1 DEF WritesBy
    <3> HIDE DEF m, e
    <3>3. Range(s) \subseteq {C[v] : v \in S}
      BY <3>1, <3>2 DEF Range
    <3> QED BY <1>4, <3>3
  <2> QED BY <1>2, <1>4, <2>1, RejectedIsNoBytes
<1> QED BY <1>3, <1>4

\* The alphabet of base64url.
UrlAlphabet == [v \in 0 .. 63 |-> CASE v = 62 -> Minus [] v = 63 -> Underscore [] OTHER -> Alphabet[v]]

\* No two digits are written in one way.
LEMMA AlphabetsDiffer ==
    /\ \A u, v \in 0 .. 63 : Alphabet[u] = Alphabet[v] => u = v
    /\ \A u, v \in 0 .. 63 : UrlAlphabet[u] = UrlAlphabet[v] => u = v
    /\ \A u \in 0 .. 63 : UrlAlphabet[u] = IF u = 62 THEN Minus ELSE IF u = 63 THEN Underscore ELSE Alphabet[u]
<1>1. \A u \in 0 .. 63 : DecodeChar(Alphabet[u]) = u /\ Alphabet[u] # Minus /\ Alphabet[u] # Underscore
  BY CharRead, CharsDiffer
<1>2. \A u \in 0 .. 63 : UrlAlphabet[u] = IF u = 62 THEN Minus ELSE IF u = 63 THEN Underscore ELSE Alphabet[u]
  BY DEF UrlAlphabet
<1>3. Minus # Underscore
  BY DEF Minus, Underscore
<1>4. ASSUME NEW u \in 0 .. 63, NEW v \in 0 .. 63, Alphabet[u] = Alphabet[v] PROVE u = v
  BY <1>1, <1>4
<1>5. ASSUME NEW u \in 0 .. 63, NEW v \in 0 .. 63, UrlAlphabet[u] = UrlAlphabet[v] PROVE u = v
  BY <1>1, <1>2, <1>3, <1>5
<1> QED BY <1>2, <1>4, <1>5

\* The digits of base64, as the reference reads them.
LEMMA Base64ReadsBy ==
    ASSUME NEW s
    PROVE  /\ Reads(s, Base64Digit, 6) = ReadsBy(s, Alphabet)
           /\ Reads(s, Base64UrlDigit, 6) = ReadsBy(s, UrlAlphabet)
<1> DEFINE values == 0 .. 2 ^ 6 - 1
           S == 0 .. 63
<1>0. values = S
  OBVIOUS
<1>1. Reads(s, Base64Digit, 6) =
         IF Range(s) \subseteq UNION {Base64Digit(v) : v \in values}
         THEN Spelled([i \in DOMAIN s |-> CHOOSE v \in values : s[i] \in Base64Digit(v)], 6)
         ELSE Rejected
  BY DEF Reads
<1>2. Reads(s, Base64UrlDigit, 6) =
         IF Range(s) \subseteq UNION {Base64UrlDigit(v) : v \in values}
         THEN Spelled([i \in DOMAIN s |-> CHOOSE v \in values : s[i] \in Base64UrlDigit(v)], 6)
         ELSE Rejected
  BY DEF Reads
<1>3. ASSUME NEW C
      PROVE  ReadsBy(s, C) = IF Range(s) \subseteq {C[v] : v \in S}
                             THEN Spelled([i \in DOMAIN s |-> CHOOSE v \in S : s[i] = C[v]], 6)
                             ELSE Rejected
  BY DEF ReadsBy
<1>4. \A v \in S : Base64Digit(v) = {Alphabet[v]} /\ Base64UrlDigit(v) = {UrlAlphabet[v]}
  BY DEF Base64Digit, Base64UrlDigit, UrlAlphabet
<1> HIDE DEF values, S
<1>5. Reads(s, Base64Digit, 6) = ReadsBy(s, Alphabet)
  <2>1. UNION {Base64Digit(v) : v \in values} = {Alphabet[v] : v \in S}
    BY <1>0, <1>4
  <2>2. ASSUME NEW i \in DOMAIN s
        PROVE (CHOOSE v \in values : s[i] \in Base64Digit(v)) = (CHOOSE v \in S : s[i] = Alphabet[v])
    <3>1. \A v : v \in values /\ s[i] \in Base64Digit(v) <=> v \in S /\ s[i] = Alphabet[v]
      BY <1>0, <1>4
    <3> QED BY <3>1
  <2> DEFINE A(i) == CHOOSE v \in values : s[i] \in Base64Digit(v)
             B(i) == CHOOSE v \in S : s[i] = Alphabet[v]
  <2>3. \A i \in DOMAIN s : A(i) = B(i)
    BY <2>2
  <2>4. Reads(s, Base64Digit, 6) =
           IF Range(s) \subseteq {Alphabet[v] : v \in S} THEN Spelled([i \in DOMAIN s |-> A(i)], 6) ELSE Rejected
    BY <1>1, <2>1
  <2>5. ReadsBy(s, Alphabet) =
           IF Range(s) \subseteq {Alphabet[v] : v \in S} THEN Spelled([i \in DOMAIN s |-> B(i)], 6) ELSE Rejected
    BY <1>3
  <2> HIDE DEF A, B
  <2>6. [i \in DOMAIN s |-> A(i)] = [i \in DOMAIN s |-> B(i)]
    BY <2>3
  <2> QED BY <2>4, <2>5, <2>6
<1>6. Reads(s, Base64UrlDigit, 6) = ReadsBy(s, UrlAlphabet)
  <2>1. UNION {Base64UrlDigit(v) : v \in values} = {UrlAlphabet[v] : v \in S}
    BY <1>0, <1>4
  <2>2. ASSUME NEW i \in DOMAIN s
        PROVE (CHOOSE v \in values : s[i] \in Base64UrlDigit(v)) = (CHOOSE v \in S : s[i] = UrlAlphabet[v])
    <3>1. \A v : v \in values /\ s[i] \in Base64UrlDigit(v) <=> v \in S /\ s[i] = UrlAlphabet[v]
      BY <1>0, <1>4
    <3> QED BY <3>1
  <2> DEFINE A(i) == CHOOSE v \in values : s[i] \in Base64UrlDigit(v)
             B(i) == CHOOSE v \in S : s[i] = UrlAlphabet[v]
  <2>3. \A i \in DOMAIN s : A(i) = B(i)
    BY <2>2
  <2>4. Reads(s, Base64UrlDigit, 6) =
           IF Range(s) \subseteq {UrlAlphabet[v] : v \in S} THEN Spelled([i \in DOMAIN s |-> A(i)], 6) ELSE Rejected
    BY <1>2, <2>1
  <2>5. ReadsBy(s, UrlAlphabet) =
           IF Range(s) \subseteq {UrlAlphabet[v] : v \in S} THEN Spelled([i \in DOMAIN s |-> B(i)], 6) ELSE Rejected
    BY <1>3
  <2> HIDE DEF A, B
  <2>6. [i \in DOMAIN s |-> A(i)] = [i \in DOMAIN s |-> B(i)]
    BY <2>3
  <2> QED BY <2>4, <2>5, <2>6
<1> QED BY <1>5, <1>6

\* base64url_encode writes the digits of a byte string.
LEMMA UrlWrites ==
    ASSUME NEW b \in Seq(Bytes)
    PROVE  Base64UrlEncode(b) = WritesBy(b, UrlAlphabet)
<1> DEFINE m == (Len(b) + 2) \div 3 + Len(b)
           e == Sextets(b)
           U == Base64UrlEncode(b)
           E == Base64Encode(b)
           S == 0 .. 63
<1>1. e \in Seq(S) /\ Len(e) = m /\ \A k \in 1 .. m : E[k] = Alphabet[e[k]]
  BY SextetsMade
<1>2. /\ U \in Seq(Bytes) /\ Len(U) = m
      /\ \A k \in 1 .. m : U[k] = IF E[k] = Plus THEN Minus ELSE IF E[k] = Slash THEN Underscore ELSE E[k]
  BY Base64UrlWritten
<1>3. \A v \in S : UrlAlphabet[v] = IF Alphabet[v] = Plus THEN Minus
                                    ELSE IF Alphabet[v] = Slash THEN Underscore ELSE Alphabet[v]
  <2>1. Alphabet[62] = Plus /\ Alphabet[63] = Slash /\ 62 \in S /\ 63 \in S
    BY DEF Alphabet
  <2>2. \A u, v \in S : Alphabet[u] = Alphabet[v] => u = v
    BY AlphabetsDiffer
  <2>3. Plus # Slash
    BY DEF Plus, Slash
  <2>4. \A v \in S : UrlAlphabet[v] = IF v = 62 THEN Minus ELSE IF v = 63 THEN Underscore ELSE Alphabet[v]
    BY AlphabetsDiffer
  <2> HIDE DEF S
  <2> QED BY <2>1, <2>2, <2>3, <2>4
<1>4. WritesBy(b, UrlAlphabet) = [k \in 1 .. m |-> UrlAlphabet[e[k]]]
  BY DEF WritesBy
<1> HIDE DEF m, e, U, E, S
<1>5. m \in Nat /\ (\A k \in 1 .. m : e[k] \in S) /\ U = [k \in 1 .. m |-> U[k]]
  BY <1>1, <1>2, TextIs
<1>6. ASSUME NEW k \in 1 .. m PROVE U[k] = UrlAlphabet[e[k]]
  BY <1>1, <1>2, <1>3, <1>5
<1> QED BY <1>4, <1>5, <1>6 DEF U

\* What base64 reads of a text whose padding begins after its first m characters.
LEMMA PaddingBegins ==
    ASSUME NEW s \in Seq(Bytes), NEW m \in 0 .. Len(s),
           \A i \in m + 1 .. Len(s) : s[i] = Equals, m = 0 \/ s[m] # Equals
    PROVE  Base64Reads(s) = IF Len(s) % 4 = 0 /\ Len(s) - m <= 2
                            THEN Reads(SubSeq(s, 1, m), Base64Digit, 6)
                            ELSE Rejected
<1> DEFINE T == {n \in 0 .. Len(s) : \A i \in n + 1 .. Len(s) : s[i] = Equals}
<1>1. m \in T
  OBVIOUS
<1>2. ASSUME NEW n \in T PROVE m <= n
  <2>1. SUFFICES ASSUME n < m PROVE FALSE
    OBVIOUS
  <2>2. m \in n + 1 .. Len(s) /\ m # 0
    BY <2>1
  <2> QED BY <2>2
<1>3. T \subseteq Int
  OBVIOUS
<1>4. Base64Reads(s) = IF Len(s) % 4 = 0 /\ Len(s) - Min(T) <= 2
                       THEN Reads(SubSeq(s, 1, Min(T)), Base64Digit, 6)
                       ELSE Rejected
  BY DEF Base64Reads
<1>a. m \in T /\ \A n \in T : n \in Int /\ m <= n
  BY <1>1, <1>2, <1>3
<1> HIDE DEF T
<1>5. Min(T) = m
  <2>1. ASSUME NEW x \in T, \A y \in T : x <= y PROVE x = m
    <3>1. x <= m /\ m <= x /\ x \in Int /\ m \in Int
      BY <1>a, <2>1
    <3> QED BY <3>1
  <2>2. \A y \in T : m <= y
    BY <1>a
  <2> QED BY <1>a, <2>1, <2>2 DEF Min
<1> QED BY <1>4, <1>5

\* Base64 reads what base64_encode writes, and nothing else.
LEMMA Base64ReadsExactly ==
    ASSUME NEW s \in Seq(Bytes)
    PROVE  /\ Base64Reads(s) \in Seq(Bytes) \cup {Rejected}
           /\ \A b \in Seq(Bytes) : Base64Reads(s) = b <=> s = Base64Encode(b)
<1> DEFINE T == {n \in 0 .. Len(s) : \A i \in n + 1 .. Len(s) : s[i] = Equals}
<1>1. PICK m \in 0 .. Len(s) : (\A i \in m + 1 .. Len(s) : s[i] = Equals) /\ (m = 0 \/ s[m] # Equals)
  <2>1. Len(s) \in T /\ T \in SUBSET Nat
    OBVIOUS
  <2>2. PICK m \in T : \A n \in T : m <= n
    <3> HIDE DEF T
    <3> QED BY <2>1, LeastNumber
  <2>3. m \in 0 .. Len(s) /\ \A i \in m + 1 .. Len(s) : s[i] = Equals
    OBVIOUS
  <2>4. ASSUME m # 0, s[m] = Equals PROVE FALSE
    <3>1. m - 1 \in 0 .. Len(s) /\ \A i \in (m - 1) + 1 .. Len(s) : i = m \/ i \in m + 1 .. Len(s)
      BY <2>3, <2>4
    <3>2. m - 1 \in T
      BY <2>3, <2>4, <3>1
    <3>3. ~(m <= m - 1)
      BY <2>3
    <3> HIDE DEF T
    <3> QED BY <2>2, <3>2, <3>3
  <2> QED BY <2>3, <2>4
<1> DEFINE p == SubSeq(s, 1, m)
           Fits == Len(s) % 4 = 0 /\ Len(s) - m <= 2
<1>2. Base64Reads(s) = IF Fits THEN Reads(p, Base64Digit, 6) ELSE Rejected
  BY <1>1, PaddingBegins
<1>3. p \in Seq(Bytes) /\ Len(p) = m /\ (\A i \in 1 .. m : p[i] = s[i]) /\ m \in Nat
  OBVIOUS
<1>4. /\ Reads(p, Base64Digit, 6) \in Seq(Bytes) \cup {Rejected}
      /\ \A b \in Seq(Bytes) : Reads(p, Base64Digit, 6) = b <=> p = WritesBy(b, Alphabet)
  <2> HIDE DEF p
  <2>1. Reads(p, Base64Digit, 6) = ReadsBy(p, Alphabet)
    BY Base64ReadsBy
  <2>2. \A u, v \in 0 .. 63 : Alphabet[u] = Alphabet[v] => u = v
    BY AlphabetsDiffer
  <2>3. /\ ReadsBy(p, Alphabet) \in Seq(Bytes) \cup {Rejected}
        /\ \A b \in Seq(Bytes) : ReadsBy(p, Alphabet) = b <=> p = WritesBy(b, Alphabet)
    BY <1>3, <2>2, ReadsAsWritten
  <2> QED BY <2>1, <2>3
<1>5. ASSUME NEW b \in Seq(Bytes) PROVE Fits /\ p = WritesBy(b, Alphabet) <=> s = Base64Encode(b)
  <2> DEFINE n == Len(b)
             G == (n + 2) \div 3
             E == Base64Encode(b)
             e == Sextets(b)
             k == G + n
  <2>1. n \in Nat /\ G \in Nat /\ k \in Nat /\ 3 * G - n \in 0 .. 2 /\ k <= 4 * G /\ (n > 0 => k > 0)
    BY GroupCount
  <2>2. E \in Seq(Bytes) /\ Len(E) = 4 * G
    BY Base64Written
  <2>3. \A i \in 1 .. 4 * G : IF i <= k THEN E[i] # Equals ELSE E[i] = Equals
    BY Base64Characters, CharsDiffer
  <2>4. WritesBy(b, Alphabet) = [i \in 1 .. k |-> Alphabet[e[i]]]
    BY DEF WritesBy
  <2>5. \A i \in 1 .. k : E[i] = Alphabet[e[i]]
    BY SextetsMade
  <2> HIDE DEF E, e, n, G
  <2>6. WritesBy(b, Alphabet) = [i \in 1 .. k |-> E[i]]
    BY <2>4, <2>5
  <2>7. ASSUME Fits, p = WritesBy(b, Alphabet) PROVE s = E
    <3>1. m = k
      <4>1. 1 .. m = 1 .. k
        BY <1>3, <2>6, <2>7
      <4> HIDE DEF k
      <4> QED BY <1>3, <2>1, <4>1, SameLength
    <3>2. Len(s) = 4 * G
      <4>1. Len(s) \in Nat /\ Len(s) % 4 = 0 /\ Len(s) >= k /\ Len(s) - k <= 2
        BY <1>1, <2>7, <3>1
      <4>2. 4 * G \in Nat /\ 4 * G >= k /\ 4 * G - k <= 2
        BY <2>1
      <4> DEFINE l == Len(s)
      <4> HIDE DEF k, l
      <4>3. l = 4 * G
        BY <2>1, <4>1, <4>2 DEF l
      <4> QED BY <4>3 DEF l
    <3>3. ASSUME NEW i \in 1 .. Len(s) PROVE s[i] = E[i]
      <4>1. CASE i <= k
        <5>1. i \in 1 .. k
          BY <4>1
        <5> QED BY <1>3, <2>6, <2>7, <3>1, <5>1
      <4>2. CASE ~(i <= k)
        <5>1. i \in m + 1 .. Len(s) /\ i \in 1 .. 4 * G
          BY <3>1, <3>2, <4>2
        <5> QED BY <1>1, <2>3, <4>2, <5>1
      <4> QED BY <4>1, <4>2
    <3> QED BY <2>2, <3>2, <3>3, SameText
  <2>8. ASSUME s = E PROVE Fits /\ p = WritesBy(b, Alphabet)
    <3>1. m = k
      <4>1. ASSUME m < k PROVE FALSE
        <5>1. k \in m + 1 .. Len(s) /\ k \in 1 .. 4 * G
          BY <1>3, <2>1, <2>2, <2>8, <4>1
        <5> QED BY <1>1, <2>3, <2>8, <5>1
      <4>2. ASSUME k < m PROVE FALSE
        <5>1. m # 0 /\ m \in 1 .. 4 * G /\ ~(m <= k)
          BY <1>1, <2>1, <2>2, <2>8, <4>2
        <5> QED BY <1>1, <2>3, <2>8, <5>1
      <4> HIDE DEF k
      <4> QED BY <1>3, <2>1, <4>1, <4>2
    <3>2. Fits
      BY <2>1, <2>2, <2>8, <3>1
    <3>3. p = [i \in 1 .. m |-> p[i]]
      <4> HIDE DEF p
      <4> QED BY <1>3, TextIs
    <3> HIDE DEF p, k
    <3> QED BY <1>3, <2>6, <2>8, <3>1, <3>2, <3>3
  <2> QED BY <2>7, <2>8 DEF E
<1> HIDE DEF p, Fits
<1>6. Base64Reads(s) \in Seq(Bytes) \cup {Rejected}
  BY <1>2, <1>4
<1>7. ASSUME NEW b \in Seq(Bytes) PROVE Base64Reads(s) = b <=> s = Base64Encode(b)
  <2>1. b # Rejected
    BY RejectedIsNoBytes
  <2> QED BY <1>2, <1>4, <1>5, <2>1
<1> QED BY <1>6, <1>7

\* What returns the same byte strings and throws otherwise is the same.
LEMMA SameDecoder ==
    ASSUME NEW x \in Seq(Bytes) \cup {Rejected}, NEW y \in Seq(Bytes) \cup {Rejected},
           \A b \in Seq(Bytes) : x = b <=> y = b
    PROVE  x = y
OBVIOUS

\* base64_decode and base64url_decode read the bits of the digits.
LEMMA Base64Decoded ==
    ASSUME NEW s \in Seq(Bytes)
    PROVE  /\ Base64Decode(s) = Base64Reads(s)
           /\ Base64UrlDecode(s) = Reads(s, Base64UrlDigit, 6)
<1>1. Base64Decode(s) = Base64Reads(s)
  <2>1. \A b \in Seq(Bytes) : Base64Decode(s) = b <=> Base64Reads(s) = b
    BY Base64IsStrict, Base64ReadsExactly
  <2> QED BY <2>1, Base64DecodeType, Base64ReadsExactly, SameDecoder
<1>2. Base64UrlDecode(s) = Reads(s, Base64UrlDigit, 6)
  <2> DEFINE R == Reads(s, Base64UrlDigit, 6)
  <2>1. R = ReadsBy(s, UrlAlphabet)
    BY Base64ReadsBy
  <2> HIDE DEF R
  <2>a. \A u, v \in 0 .. 63 : UrlAlphabet[u] = UrlAlphabet[v] => u = v
    BY AlphabetsDiffer
  <2>b. /\ ReadsBy(s, UrlAlphabet) \in Seq(Bytes) \cup {Rejected}
        /\ \A b \in Seq(Bytes) : ReadsBy(s, UrlAlphabet) = b <=> s = WritesBy(b, UrlAlphabet)
    BY <2>a, ReadsAsWritten
  <2>2. R \in Seq(Bytes) \cup {Rejected} /\ \A b \in Seq(Bytes) : R = b <=> s = WritesBy(b, UrlAlphabet)
    BY <2>1, <2>b
  <2>3. \A b \in Seq(Bytes) : Base64UrlDecode(s) = b <=> R = b
    BY <2>2, Base64UrlIsStrict, UrlWrites
  <2>4. Base64UrlDecode(s) = R
    BY <2>2, <2>3, Base64UrlDecodeType, SameDecoder
  <2> QED BY <2>4 DEF R
<1> QED BY <1>1, <1>2

-----------------------------------------------------------------------------
(* Keys and sizes, read digit by digit.                                    *)

\* Where a key stands, if it is the only thing but spaces.
Places(s) ==
    {i \in 1 .. Len(s) - 2 * KeySize + 1 :
        \A j \in DOMAIN s : j \notin i .. (i + 2 * KeySize - 1) => s[j] \in Spaces}

\* What stands there.
PartAt(s, i) == SubSeq(s, i, i + 2 * KeySize - 1)

\* What is read at a place where a key stands is what is read of the trimmed text.
LEMMA PlaceIsTrimmed ==
    ASSUME NEW s \in Seq(Bytes), NEW i \in Places(s), HexDecode(PartAt(s, i)) # Rejected
    PROVE  Trim(s) = PartAt(s, i) /\ Len(Trim(s)) = 2 * KeySize
<1> DEFINE K == 2 * KeySize
           z == i + K - 1
           p == PartAt(s, i)
           n == Len(s)
<1>0. K \in Nat /\ K > 0
  BY CodecsAssumption
<1>1. n \in Nat /\ DOMAIN s = 1 .. n /\ i \in 1 .. n - K + 1
  BY DEF Places
<1>2. \A j \in DOMAIN s : j \notin i .. z => s[j] \in Spaces
  BY DEF Places
<1> HIDE DEF K, n
<1>3. i \in 1 .. n /\ z \in 1 .. n /\ i <= z /\ i \in Int /\ K = z - i + 1
  BY <1>0, <1>1
<1>4. p = SubSeq(s, i, z)
  BY DEF PartAt, K
<1>5. p \in Seq(Bytes) /\ Len(p) = K /\ \A j \in 1 .. K : p[j] = s[i + j - 1]
  BY <1>1, <1>3, <1>4 DEF n
<1>6. \A j \in DOMAIN p : DecodeNibble(p[j]) >= 0
  BY DEF HexDecode
<1> HIDE DEF p
<1>7. s[i] \notin Spaces /\ s[z] \notin Spaces
  <2>1. 1 \in 1 .. K /\ K \in 1 .. K /\ i + 1 - 1 = i /\ i + K - 1 = z
    BY <1>0, <1>3
  <2>2. p[1] = s[i] /\ p[K] = s[z]
    BY <1>5, <2>1
  <2>3. 1 \in DOMAIN p /\ K \in DOMAIN p
    BY <1>5, <2>1
  <2>4. p[1] \notin Spaces /\ p[K] \notin Spaces
    BY <1>6, <2>3, DigitIsNoSpace
  <2> QED BY <2>2, <2>4
<1> HIDE DEF z
<1>8. Trim(s) = SubSeq(s, i, z)
  BY <1>1, <1>2, <1>3, <1>7, Trimmed
<1> QED BY <1>4, <1>5, <1>8 DEF p, K

\* A trimmed text of the size of a key stands at one of the places.
LEMMA TrimmedIsPlace ==
    ASSUME NEW s \in Seq(Bytes), Len(Trim(s)) = 2 * KeySize
    PROVE  \E i \in Places(s) : PartAt(s, i) = Trim(s)
<1> DEFINE K == 2 * KeySize
           n == Len(s)
<1>0. K \in Nat /\ K > 0
  BY CodecsAssumption
<1>1. n \in Nat /\ DOMAIN s = 1 .. n
  OBVIOUS
<1>2. PICK a \in DOMAIN s : \E z \in DOMAIN s :
              /\ a <= z /\ Trim(s) = SubSeq(s, a, z)
              /\ \A i \in DOMAIN s : i \notin a .. z => s[i] \in Spaces
  <2>1. Len(Trim(s)) # 0
    BY <1>0
  <2> QED BY <2>1, TrimmedFrom
<1>3. PICK z \in DOMAIN s : /\ a <= z /\ Trim(s) = SubSeq(s, a, z)
                            /\ \A i \in DOMAIN s : i \notin a .. z => s[i] \in Spaces
  BY <1>2
<1>4. Len(SubSeq(s, a, z)) = z - a + 1
  BY <1>1, <1>3
<1>5. z = a + K - 1 /\ a \in 1 .. n - K + 1
  <2>1. z - a + 1 = K
    BY <1>3, <1>4
  <2>2. a \in 1 .. n /\ z \in 1 .. n
    BY <1>1
  <2> HIDE DEF K, n
  <2> QED BY <1>0, <1>1, <2>1, <2>2
<1>6. a \in Places(s)
  BY <1>3, <1>5 DEF Places
<1>7. PartAt(s, a) = Trim(s)
  BY <1>3, <1>5 DEF PartAt
<1> QED BY <1>6, <1>7

\* A key file is read wherever its key stands.
LEMMA KeyDecoded ==
    ASSUME NEW s \in Seq(Bytes)
    PROVE  KeyFromFile(s) = KeyReads(s)
<1> DEFINE keys == {Reads(PartAt(s, i), HexDigit, 4) : i \in Places(s)} \ {Rejected}
           k == KeyFromFile(s)
<1>1. KeyReads(s) = IF keys = {} THEN Rejected ELSE CHOOSE key \in keys : TRUE
  BY DEF KeyReads, Places, PartAt
<1>2. ASSUME NEW i \in Places(s) PROVE Reads(PartAt(s, i), HexDigit, 4) = HexDecode(PartAt(s, i))
  <2>1. i \in 1 .. Len(s) - 2 * KeySize + 1 /\ KeySize \in Nat \ {0}
    BY CodecsAssumption DEF Places
  <2>2. i \in 1 .. Len(s) /\ i + 2 * KeySize - 1 \in 1 .. Len(s)
    BY <2>1
  <2>3. PartAt(s, i) \in Seq(Bytes)
    BY <2>2 DEF PartAt
  <2> QED BY <2>3, HexDecoded
<1>3. k = IF Len(Trim(s)) = 2 * KeySize THEN HexDecode(Trim(s)) ELSE Rejected
  BY DEF KeyFromFile, KeyFromHex
<1>4. \A key \in keys : key = k
  <2> SUFFICES ASSUME NEW i \in Places(s), Reads(PartAt(s, i), HexDigit, 4) # Rejected
               PROVE  Reads(PartAt(s, i), HexDigit, 4) = k
    OBVIOUS
  <2>1. HexDecode(PartAt(s, i)) # Rejected
    BY <1>2
  <2>2. Trim(s) = PartAt(s, i) /\ Len(Trim(s)) = 2 * KeySize
    BY <2>1, PlaceIsTrimmed
  <2> QED BY <1>2, <1>3, <2>2
<1>5. k # Rejected => k \in keys
  <2> SUFFICES ASSUME k # Rejected PROVE k \in keys
    OBVIOUS
  <2>1. Len(Trim(s)) = 2 * KeySize /\ k = HexDecode(Trim(s))
    BY <1>3
  <2>2. PICK i \in Places(s) : PartAt(s, i) = Trim(s)
    BY <2>1, TrimmedIsPlace
  <2>3. Reads(PartAt(s, i), HexDigit, 4) = k
    BY <1>2, <2>1, <2>2
  <2> QED BY <2>3
<1> HIDE DEF keys, k
<1> QED BY <1>1, <1>4, <1>5 DEF k

\* A size is the number that the digits spell.
LEMMA SizeDecoded ==
    ASSUME NEW s \in Seq(Bytes)
    PROVE  ParseSize(s) = IF s # <<>> /\ Range(s) \subseteq Digits /\ Number(s) <= MaxSize THEN Number(s) ELSE 0
<1>1. Range(s) \subseteq Digits <=> \A i \in DOMAIN s : s[i] \in Digits
  BY DEF Range
<1>2. CASE \A i \in DOMAIN s : s[i] \in Digits
  <2> DEFINE f == CHOOSE f : IsNumber(s, f)
  <2>1. s \in Seq(Digits)
    BY <1>2
  <2>2. IsNumber(s, f)
    BY <2>1, NumberExists
  <2>3. Number(s) = f[Len(s)]
    BY DEF Number, IsNumber
  <2> HIDE DEF f
  <2> QED BY <1>1, <1>2, <2>2, <2>3, SizeIsNumber
<1>3. CASE ~ \A i \in DOMAIN s : s[i] \in Digits
  BY <1>1, <1>3 DEF ParseSize
<1> QED BY <1>2, <1>3
=============================================================================
