------------------------------- MODULE Codecs -------------------------------
(***************************************************************************)
(* The pure functions between text and bytes: base64, base64url and hex,   *)
(* the key and size parsers of the command line, and the comparison of     *)
(* byte strings.  Characters and bytes are their codes, texts and byte     *)
(* strings are sequences of them; a thrown invalid_encoding is Rejected.   *)
(***************************************************************************)
EXTENDS Integers, Sequences, SequencesExt, FiniteSetsExt

CONSTANTS
    KeySize,        \* the bytes of a key256
    MaxSize,        \* the largest std::size_t
    WordBits        \* the bits of a std::size_t

Bytes == 0 .. 255

\* An unsigned number as the set of its bits.
Word(n) == {k \in 0 .. WordBits - 1 : (n \div 2 ^ k) % 2 = 1}

ASSUME CodecsAssumption ==
    /\ KeySize \in Nat \ {0} /\ MaxSize \in Nat /\ WordBits \in Nat
    /\ \A m, n \in Bytes \cup 0 .. MaxSize : Word(m) = Word(n) => m = n

Rejected == <<256>>     \* no byte string

Uppers == 65 .. 90
Lowers == 97 .. 122
Digits == 48 .. 57
Plus == 43
Slash == 47
Minus == 45
Underscore == 95
Equals == 61
Newline == 10
Spaces == {32} \cup 9 .. 13

At(s, i) == IF i \in DOMAIN s THEN s[i] ELSE 0

-----------------------------------------------------------------------------
(* base64.cpp *)

Alphabet == [v \in 0 .. 63 |->
    CASE v < 26 -> 65 + v
      [] v \in 26 .. 51 -> 97 + v - 26
      [] v \in 52 .. 61 -> 48 + v - 52
      [] v = 62 -> Plus
      [] v = 63 -> Slash]

DecodeChar(ch) ==
    CASE ch \in Uppers -> ch - 65
      [] ch \in Lowers -> ch - 97 + 26
      [] ch \in Digits -> ch - 48 + 52
      [] ch = Plus -> 62
      [] ch = Slash -> 63
      [] OTHER -> -1

\* Three bytes make four characters; what is missing of the last three is padding.
EncodeGroup(b, i) ==
    << Alphabet[b[i] \div 4],
       Alphabet[(b[i] % 4) * 16 + At(b, i + 1) \div 16],
       IF i + 1 <= Len(b) THEN Alphabet[(b[i + 1] % 16) * 4 + At(b, i + 2) \div 64] ELSE Equals,
       IF i + 2 <= Len(b) THEN Alphabet[b[i + 2] % 64] ELSE Equals >>

Base64Encode(b) ==
    [i \in 1 .. 4 * ((Len(b) + 2) \div 3) |-> EncodeGroup(b, 3 * ((i - 1) \div 4) + 1)[((i - 1) % 4) + 1]]

EndsIn(s, pad) == pad <= Len(s) /\ \A i \in Len(s) - pad + 1 .. Len(s) : s[i] = Equals

Padding(s) == IF EndsIn(s, 2) THEN 2 ELSE IF EndsIn(s, 1) THEN 1 ELSE 0

\* What reject_invalid_base64 lets pass: padding is at the end, and at most two characters.
ValidBase64(s) ==
    /\ Len(s) % 4 = 0
    /\ \A i \in DOMAIN s : s[i] = Equals => i > Len(s) - 2 /\ s[Len(s)] = Equals
    /\ \A i \in DOMAIN s : s[i] # Equals => DecodeChar(s[i]) >= 0

\* Four characters make three bytes; padding stands for no bits.
DecodeGroup(s, i) ==
    LET C(k) == IF s[k] = Equals THEN 0 ELSE DecodeChar(s[k]) IN
    << C(i) * 4 + C(i + 1) \div 16,
       (C(i + 1) % 16) * 16 + C(i + 2) \div 4,
       (C(i + 2) % 4) * 64 + C(i + 3) >>

DecodeGroups(s) ==
    [i \in 1 .. 3 * (Len(s) \div 4) - Padding(s) |-> DecodeGroup(s, 4 * ((i - 1) \div 3) + 1)[((i - 1) % 3) + 1]]

\* (Mutant.) The bits that the last character has to spare may be anything.
Base64DecodeLax(s) == IF ValidBase64(s) THEN DecodeGroups(s) ELSE Rejected

\* Only what base64_encode would have made of the result is accepted.
Base64Decode(s) ==
    IF ValidBase64(s) /\ Base64Encode(DecodeGroups(s)) = s THEN DecodeGroups(s) ELSE Rejected

Unpadded(s) == SubSeq(s, 1, Len(s) - Padding(s))

Base64UrlEncode(b) == Unpadded(ReplaceAll(ReplaceAll(Base64Encode(b), Plus, Minus), Slash, Underscore))

ValidBase64Url(s) ==
    /\ Len(s) % 4 # 1
    /\ \A i \in DOMAIN s : s[i] \in Uppers \cup Lowers \cup Digits \cup {Minus, Underscore}

\* (Mutant.) One character of padding, however many are missing.
PaddedByOne(s) == IF Len(s) % 4 = 0 THEN s ELSE Append(s, Equals)

Padded(s) == s \o [i \in 1 .. ((4 - (Len(s) % 4)) % 4) |-> Equals]

Base64UrlDecode(s) ==
    LET out == Base64Decode(Padded(ReplaceAll(ReplaceAll(s, Minus, Plus), Underscore, Slash))) IN
    IF ValidBase64Url(s) /\ out # Rejected /\ Base64UrlEncode(out) = s THEN out ELSE Rejected

-----------------------------------------------------------------------------
(* hex.cpp *)

EncodeNibble(v) == IF v < 10 THEN 48 + v ELSE 97 + v - 10

DecodeNibble(ch) ==
    CASE ch \in Digits -> ch - 48
      [] ch \in 97 .. 102 -> ch - 97 + 10
      [] ch \in 65 .. 70 -> ch - 65 + 10
      [] OTHER -> -1

HexEncode(b) ==
    [i \in 1 .. 2 * Len(b) |-> EncodeNibble(IF i % 2 = 1 THEN b[(i + 1) \div 2] \div 16 ELSE b[i \div 2] % 16)]

HexDecode(s) ==
    IF Len(s) % 2 = 0 /\ \A i \in DOMAIN s : DecodeNibble(s[i]) >= 0
    THEN [i \in 1 .. Len(s) \div 2 |-> DecodeNibble(s[2 * i - 1]) * 16 + DecodeNibble(s[2 * i])]
    ELSE Rejected

-----------------------------------------------------------------------------
(* compare.cpp: all differences are collected before one is looked at.     *)

Xor(word, other) == (word \ other) \cup (other \ word)

ConstantTimeEqual(left, right) ==
    LET common == Min({Len(left), Len(right)})
        diff == Xor(Word(Len(left)), Word(Len(right)))
                \cup UNION {Xor(Word(left[i]), Word(right[i])) : i \in 1 .. common}
    IN diff = {}

-----------------------------------------------------------------------------
(* Keys and sizes on the command line (commands.cpp).                      *)

KeyFromHex(text) == IF Len(text) = 2 * KeySize THEN HexDecode(text) ELSE Rejected

Trim(text) ==
    LET kept == {i \in DOMAIN text : text[i] \notin Spaces} IN
    IF kept = {} THEN <<>> ELSE SubSeq(text, Min(kept), Max(kept))

KeyFromFile(text) == KeyFromHex(Trim(text))

\* What write_key_file writes.
KeyFile(key) == HexEncode(key) \o <<Newline>>

\* std::from_chars: the value of decimal digits, or more than MaxSize.
DecimalValue(text) ==
    LET value[i \in 0 .. Len(text)] ==
            IF i = 0 THEN 0 ELSE Min({value[i - 1] * 10 + text[i] - 48, MaxSize + 1})
    IN value[Len(text)]

\* (Mutant.) result_out_of_range is not looked at.
ParseSizeOfAnyRange(text) ==
    IF text # <<>> /\ \A i \in DOMAIN text : text[i] \in Digits THEN DecimalValue(text) ELSE 0

\* parse_size; 0 stands for the exception.
ParseSize(text) ==
    IF /\ text # <<>>
       /\ \A i \in DOMAIN text : text[i] \in Digits
       /\ DecimalValue(text) <= MaxSize
    THEN DecimalValue(text)
    ELSE 0

-----------------------------------------------------------------------------
(* What the texts mean, digit by digit and bit by bit: the reference that  *)
(* the decoders are compared with.                                         *)

\* The bytes that digits of some bits spell: what is left over is less than a digit, and zero.
Spelled(digits, width) ==
    LET total == width * Len(digits)
        size == total \div 8
        Bit(j) == (digits[((j - 1) \div width) + 1] \div 2 ^ (width - 1 - ((j - 1) % width))) % 2
        Byte(i) == 128 * Bit(8 * i - 7) + 64 * Bit(8 * i - 6) + 32 * Bit(8 * i - 5) + 16 * Bit(8 * i - 4)
                   + 8 * Bit(8 * i - 3) + 4 * Bit(8 * i - 2) + 2 * Bit(8 * i - 1) + Bit(8 * i)
    IN IF total - 8 * size < width /\ \A j \in 8 * size + 1 .. total : Bit(j) = 0
       THEN [i \in 1 .. size |-> Byte(i)]
       ELSE Rejected

\* The bytes of a text whose digits are written as Spellings says.
Reads(s, Spellings(_), width) ==
    LET values == 0 .. 2 ^ width - 1 IN
    IF Range(s) \subseteq UNION {Spellings(v) : v \in values}
    THEN Spelled([i \in DOMAIN s |-> CHOOSE v \in values : s[i] \in Spellings(v)], width)
    ELSE Rejected

HexDigit(v) == {EncodeNibble(v), IF v < 10 THEN 48 + v ELSE 55 + v}
Base64Digit(v) == {Alphabet[v]}
Base64UrlDigit(v) == CASE v = 62 -> {Minus} [] v = 63 -> {Underscore} [] OTHER -> {Alphabet[v]}

\* Base64 fills the last group of four with at most two characters of padding.
Base64Reads(s) ==
    LET size == Min({n \in 0 .. Len(s) : \A i \in n + 1 .. Len(s) : s[i] = Equals}) IN
    IF Len(s) % 4 = 0 /\ Len(s) - size <= 2
    THEN Reads(SubSeq(s, 1, size), Base64Digit, 6)
    ELSE Rejected

\* The key between spaces: any place for it will do, no two give different keys.
KeyReads(s) ==
    LET last(i) == i + 2 * KeySize - 1
        places == {i \in 1 .. Len(s) - 2 * KeySize + 1 :
                      \A j \in DOMAIN s : j \notin i .. last(i) => s[j] \in Spaces}
        keys == {Reads(SubSeq(s, i, last(i)), HexDigit, 4) : i \in places} \ {Rejected}
    IN IF keys = {} THEN Rejected ELSE CHOOSE key \in keys : TRUE

\* A decimal number, however large.
Number(s) ==
    LET value[i \in 0 .. Len(s)] == IF i = 0 THEN 0 ELSE value[i - 1] * 10 + s[i] - 48
    IN value[Len(s)]
=============================================================================
