--------------------------- MODULE OneShotProofs ---------------------------
(***************************************************************************)
(* Proofs about OneShotPackets for any sizes, messages, secrets, number of *)
(* packets and faults: what was rejected is wiped, and the calls implement *)
(* the closed box.                                                         *)
(***************************************************************************)
EXTENDS OneShotPackets, FiniteSetTheorems, TLAPS

\* Sequences with the same elements are the same.
LEMMA SameElements ==
    ASSUME NEW S, NEW s \in Seq(S), NEW t \in Seq(S), Len(s) = Len(t), \A i \in 1 .. Len(s) : s[i] = t[i]
    PROVE  s = t
OBVIOUS

\* A sequence is the function of its elements.
LEMMA SequenceFunction ==
    ASSUME NEW S, NEW s \in Seq(S)
    PROVE  s = [i \in 1 .. Len(s) |-> s[i]] /\ DOMAIN s = 1 .. Len(s)
OBVIOUS

\* A packet is three sequences in a row.
LEMMA Join ==
    ASSUME NEW S, NEW a \in Seq(S), NEW b \in Seq(S), NEW c \in Seq(S)
    PROVE  /\ a \o b \o c \in Seq(S)
           /\ Len(a \o b \o c) = Len(a) + Len(b) + Len(c)
           /\ \A i \in 1 .. Len(a) : (a \o b \o c)[i] = a[i]
           /\ \A i \in 1 .. Len(b) : (a \o b \o c)[Len(a) + i] = b[i]
           /\ \A i \in 1 .. Len(c) : (a \o b \o c)[Len(a) + Len(b) + i] = c[i]
OBVIOUS

\* Cutting what was joined gives the parts.
LEMMA CutJoined ==
    ASSUME NEW S, NEW a \in Seq(S), NEW b \in Seq(S), NEW c \in Seq(S)
    PROVE  /\ SubSeq(a \o b \o c, 1, Len(a)) = a
           /\ SubSeq(a \o b \o c, Len(a) + 1, Len(a) + Len(b)) = b
           /\ SubSeq(a \o b \o c, Len(a) + Len(b) + 1, Len(a \o b \o c)) = c
BY Join

\* Joining what was cut gives the whole.
LEMMA JoinCut ==
    ASSUME NEW S, NEW s \in Seq(S), NEW m \in Nat, NEW n \in Nat, m <= n, n <= Len(s)
    PROVE  SubSeq(s, 1, m) \o SubSeq(s, m + 1, n) \o SubSeq(s, n + 1, Len(s)) = s
<1> DEFINE a == SubSeq(s, 1, m)
           b == SubSeq(s, m + 1, n)
           c == SubSeq(s, n + 1, Len(s))
<1>1. /\ a \in Seq(S) /\ Len(a) = m /\ \A i \in 1 .. m : a[i] = s[i]
      /\ b \in Seq(S) /\ Len(b) = n - m /\ \A i \in 1 .. n - m : b[i] = s[m + i]
      /\ c \in Seq(S) /\ Len(c) = Len(s) - n /\ \A i \in 1 .. Len(s) - n : c[i] = s[n + i]
  OBVIOUS
<1> HIDE DEF a, b, c
<1>2. /\ a \o b \o c \in Seq(S) /\ Len(a \o b \o c) = Len(s)
      /\ \A i \in 1 .. m : (a \o b \o c)[i] = s[i]
      /\ \A i \in 1 .. n - m : (a \o b \o c)[m + i] = s[m + i]
      /\ \A i \in 1 .. Len(s) - n : (a \o b \o c)[n + i] = s[n + i]
  <2>0. a \in Seq(S) /\ b \in Seq(S) /\ c \in Seq(S)
    BY <1>1
  <2>4. Len(a) = m /\ Len(b) = n - m /\ Len(c) = Len(s) - n
    BY <1>1
  <2>1. Len(s) \in Nat /\ m + (n - m) = n /\ n + (Len(s) - n) = Len(s)
    OBVIOUS
  <2>2. /\ a \o b \o c \in Seq(S)
        /\ Len(a \o b \o c) = Len(a) + Len(b) + Len(c)
        /\ \A i \in 1 .. Len(a) : (a \o b \o c)[i] = a[i]
        /\ \A i \in 1 .. Len(b) : (a \o b \o c)[Len(a) + i] = b[i]
        /\ \A i \in 1 .. Len(c) : (a \o b \o c)[Len(a) + Len(b) + i] = c[i]
    BY <2>0, Join
  <2>3. /\ Len(a \o b \o c) = Len(s)
        /\ \A i \in 1 .. m : (a \o b \o c)[i] = a[i]
        /\ \A i \in 1 .. n - m : (a \o b \o c)[m + i] = b[i]
        /\ \A i \in 1 .. Len(s) - n : (a \o b \o c)[n + i] = c[i]
    BY <2>1, <2>2, <2>4
  <2>5. \A i \in 1 .. m : (a \o b \o c)[i] = s[i]
    BY <1>1, <2>3
  <2>6. \A i \in 1 .. n - m : (a \o b \o c)[m + i] = s[m + i]
    BY <1>1, <2>3
  <2>7. \A i \in 1 .. Len(s) - n : (a \o b \o c)[n + i] = s[n + i]
    BY <1>1, <2>3
  <2>8. a \o b \o c \in Seq(S) /\ Len(a \o b \o c) = Len(s)
    BY <2>2, <2>3
  <2> QED BY <2>5, <2>6, <2>7, <2>8
<1>3. ASSUME NEW i \in 1 .. Len(s) PROVE (a \o b \o c)[i] = s[i]
  <2>1. CASE i <= m
    BY <1>2, <2>1
  <2>0. Len(s) \in Nat /\ i \in Nat /\ i >= 1 /\ i <= Len(s)
    OBVIOUS
  <2>2. CASE i > m /\ i <= n
    <3>1. i - m \in 1 .. n - m /\ m + (i - m) = i
      BY <2>0, <2>2
    <3> QED BY <1>2, <3>1
  <2>3. CASE i > n
    <3>1. i - n \in 1 .. Len(s) - n /\ n + (i - n) = i
      BY <2>0, <2>3
    <3> QED BY <1>2, <3>1
  <2>4. i <= m \/ (i > m /\ i <= n) \/ i > n
    BY <2>0
  <2> QED BY <2>1, <2>2, <2>3, <2>4
<1>4. a \o b \o c = s
  BY <1>2, <1>3, SameElements
<1> QED BY <1>4 DEF a, b, c

\* A function on 1 .. n is a sequence of its values.
LEMMA IsSequence ==
    ASSUME NEW n \in Nat, NEW F, F = [i \in 1 .. n |-> F[i]]
    PROVE  F \in Seq(Range(F)) /\ Len(F) = n
BY DEF Range

\* The kinds of cells have no cell in common.
LEMMA CellsDiffer ==
    ASSUME NEW r, NEW k
    PROVE  /\ \A x : [field |-> x] # [sealed |-> r, at |-> k]
           /\ \A x, i : [nonce |-> x, at |-> i] # [sealed |-> r, at |-> k]
           /\ \A x, s, n, i : [symbol |-> x, secret |-> s, nonce |-> n, at |-> i] # [sealed |-> r, at |-> k]
OBVIOUS

-----------------------------------------------------------------------------
(* Packets.                                                                *)

\* The packet that sealing a message with the n-th nonce makes.
NthPrefix(n) == Header \o Nonce(n)
Body(secret, message, n) == Encrypted(message, secret, Nonce(n))
Packet(secret, message, n) ==
    NthPrefix(n) \o Body(secret, message, n) \o Tag(secret, NthPrefix(n), Body(secret, message, n))

\* The header and the nonce make up the prefix.
LEMMA PrefixParts ==
    ASSUME NEW n \in Nat
    PROVE  /\ NthPrefix(n) \in Seq(Range(NthPrefix(n))) /\ Len(NthPrefix(n)) = PrefixSize
           /\ PrefixSize \in Nat /\ Len(Header) = 2 /\ PrefixSize = 2 + NonceSize
           /\ SubSeq(NthPrefix(n), 1, Len(Header)) = Header
           /\ SubSeq(NthPrefix(n), Len(Header) + 1, PrefixSize) = Nonce(n)
           /\ \A i \in 1 .. 2 : \E x : NthPrefix(n)[i] = [field |-> x]
           /\ \A i \in 1 .. NonceSize : NthPrefix(n)[2 + i] = [nonce |-> n, at |-> i]
<1> DEFINE S == {Header[1], Header[2]} \cup Range(Nonce(n))
<1>1. Header \in Seq(S) /\ Len(Header) = 2 /\ \A i \in 1 .. 2 : \E x : Header[i] = [field |-> x]
  <2>1. Header[1] = [field |-> "magic"] /\ Header[2] = [field |-> "version"]
    BY DEF Header
  <2>2. Len(Header) = 2
    BY DEF Header
  <2>3. Header \in Seq({Header[1], Header[2]})
    BY DEF Header
  <2>4. Header \in Seq(S)
    BY <2>3
  <2>5. \A i \in 1 .. 2 : i = 1 \/ i = 2
    OBVIOUS
  <2>6. \A i \in 1 .. 2 : \E x : Header[i] = [field |-> x]
    BY <2>1, <2>5
  <2> QED BY <2>2, <2>4, <2>6
<1>2. Nonce(n) \in Seq(S) /\ Len(Nonce(n)) = NonceSize
  <2>1. Nonce(n) \in Seq(Range(Nonce(n))) /\ Len(Nonce(n)) = NonceSize
    BY IsSequence, SizesAssumption DEF Nonce
  <2> QED BY <2>1
<1>3. PrefixSize = 2 + NonceSize /\ PrefixSize \in Nat
  BY <1>1, SizesAssumption DEF PrefixSize
<1> HIDE DEF S
<1>4. /\ NthPrefix(n) \in Seq(S) /\ Len(NthPrefix(n)) = 2 + NonceSize
      /\ \A i \in 1 .. 2 : NthPrefix(n)[i] = Header[i]
      /\ \A i \in 1 .. NonceSize : NthPrefix(n)[2 + i] = Nonce(n)[i]
  <2>1. NonceSize \in Nat
    BY SizesAssumption
  <2>2. /\ Header \o Nonce(n) \in Seq(S)
        /\ Len(Header \o Nonce(n)) = Len(Header) + Len(Nonce(n))
        /\ \A i \in 1 .. Len(Header) : (Header \o Nonce(n))[i] = Header[i]
        /\ \A i \in 1 .. Len(Nonce(n)) : (Header \o Nonce(n))[Len(Header) + i] = Nonce(n)[i]
    <3>1. Header \in Seq(S) /\ Nonce(n) \in Seq(S)
      BY <1>1, <1>2
    <3> QED BY <3>1
  <2> QED BY <1>1, <1>2, <2>1, <2>2 DEF NthPrefix
<1>5. NthPrefix(n) \in Seq(Range(NthPrefix(n)))
  BY <1>4 DEF Range
<1>6. SubSeq(NthPrefix(n), 1, 2) = Header /\ SubSeq(NthPrefix(n), 3, 2 + NonceSize) = Nonce(n)
  <2>1. NonceSize \in Nat
    BY SizesAssumption
  <2>2. /\ SubSeq(NthPrefix(n), 1, 2) \in Seq(S) /\ Len(SubSeq(NthPrefix(n), 1, 2)) = 2
        /\ \A i \in 1 .. 2 : SubSeq(NthPrefix(n), 1, 2)[i] = Header[i]
    BY <1>4, <2>1
  <2>3. /\ SubSeq(NthPrefix(n), 3, 2 + NonceSize) \in Seq(S)
        /\ Len(SubSeq(NthPrefix(n), 3, 2 + NonceSize)) = NonceSize
        /\ \A i \in 1 .. NonceSize : SubSeq(NthPrefix(n), 3, 2 + NonceSize)[i] = Nonce(n)[i]
    BY <1>4, <2>1
  <2>4. SubSeq(NthPrefix(n), 1, 2) = Header
    BY <1>1, <2>2, SameElements
  <2>5. SubSeq(NthPrefix(n), 3, 2 + NonceSize) = Nonce(n)
    BY <1>2, <2>3, SameElements
  <2> QED BY <2>4, <2>5
<1>7. \A i \in 1 .. NonceSize : Nonce(n)[i] = [nonce |-> n, at |-> i]
  BY DEF Nonce
<1>8. \A i \in 1 .. NonceSize : NthPrefix(n)[2 + i] = [nonce |-> n, at |-> i]
  BY <1>4, <1>7
<1>9. \A i \in 1 .. 2 : \E x : NthPrefix(n)[i] = [field |-> x]
  BY <1>1, <1>4
<1>10. Len(NthPrefix(n)) = PrefixSize /\ Len(Header) + 1 = 3
  BY <1>1, <1>3, <1>4
<1> QED BY <1>1, <1>3, <1>5, <1>6, <1>8, <1>9, <1>10

\* What a packet is made of, how it is cut, and what can be read off it.
MadeOfParts(secret, message, n) ==
    LET p == Packet(secret, message, n)
        body == Body(secret, message, n)
        last == Tag(secret, NthPrefix(n), body)
    IN
    /\ p \in Seq(Range(p)) /\ Len(p) = PrefixSize + Len(message) + TagSize
    /\ Len(message) \in Nat /\ Len(body) = Len(message) /\ Len(last) = TagSize
    /\ SubSeq(p, 1, PrefixSize) = NthPrefix(n)
    /\ SubSeq(p, 1, Len(Header)) = Header
    /\ SubSeq(p, PrefixSize + 1, PrefixSize + Len(message)) = body
    /\ SubSeq(p, PrefixSize + Len(message) + 1, Len(p)) = last
    /\ \A i \in 1 .. PrefixSize : p[i] = NthPrefix(n)[i]
    /\ \A i \in 1 .. Len(message) : p[PrefixSize + i] = body[i]
    /\ \A i \in 1 .. TagSize : p[PrefixSize + Len(message) + i] = last[i]

\* Every packet that is sealed is made so.
LEMMA PacketParts ==
    ASSUME NEW secret, NEW message \in Messages, NEW n \in Nat
    PROVE  MadeOfParts(secret, message, n)
<1> DEFINE p == Packet(secret, message, n)
           body == Body(secret, message, n)
           last == Tag(secret, NthPrefix(n), body)
           S == Range(NthPrefix(n)) \cup Range(body) \cup Range(last)
<1>1. /\ NthPrefix(n) \in Seq(Range(NthPrefix(n))) /\ Len(NthPrefix(n)) = PrefixSize /\ PrefixSize \in Nat
      /\ Len(Header) = 2 /\ PrefixSize = 2 + NonceSize
      /\ SubSeq(NthPrefix(n), 1, Len(Header)) = Header
  BY PrefixParts
<1>2. Len(message) \in Nat /\ DOMAIN message = 1 .. Len(message)
  BY MessagesAssumption
<1>3. body \in Seq(Range(body)) /\ Len(body) = Len(message)
  BY <1>2, IsSequence DEF Body, Encrypted
<1>4. last \in Seq(Range(last)) /\ Len(last) = TagSize
  BY IsSequence, SizesAssumption DEF Tag
<1>5. NthPrefix(n) \in Seq(S) /\ body \in Seq(S) /\ last \in Seq(S)
  BY <1>1, <1>3, <1>4
<1>6. p = NthPrefix(n) \o body \o last
  BY DEF Packet
<1> HIDE DEF p, body, last, S
<1>7. /\ p \in Seq(S) /\ Len(p) = PrefixSize + Len(message) + TagSize
      /\ \A i \in 1 .. PrefixSize : p[i] = NthPrefix(n)[i]
      /\ \A i \in 1 .. Len(message) : p[PrefixSize + i] = body[i]
      /\ \A i \in 1 .. TagSize : p[PrefixSize + Len(message) + i] = last[i]
  <2>1. /\ NthPrefix(n) \o body \o last \in Seq(S)
        /\ Len(NthPrefix(n) \o body \o last) = Len(NthPrefix(n)) + Len(body) + Len(last)
        /\ \A i \in 1 .. Len(NthPrefix(n)) : (NthPrefix(n) \o body \o last)[i] = NthPrefix(n)[i]
        /\ \A i \in 1 .. Len(body) : (NthPrefix(n) \o body \o last)[Len(NthPrefix(n)) + i] = body[i]
        /\ \A i \in 1 .. Len(last) : (NthPrefix(n) \o body \o last)[Len(NthPrefix(n)) + Len(body) + i] = last[i]
    BY <1>5, Join
  <2> QED BY <1>1, <1>3, <1>4, <1>6, <2>1
<1>8. /\ SubSeq(p, 1, PrefixSize) = NthPrefix(n)
      /\ SubSeq(p, PrefixSize + 1, PrefixSize + Len(message)) = body
      /\ SubSeq(p, PrefixSize + Len(message) + 1, Len(p)) = last
  <2>1. /\ SubSeq(NthPrefix(n) \o body \o last, 1, Len(NthPrefix(n))) = NthPrefix(n)
        /\ SubSeq(NthPrefix(n) \o body \o last, Len(NthPrefix(n)) + 1, Len(NthPrefix(n)) + Len(body)) = body
        /\ SubSeq(NthPrefix(n) \o body \o last, Len(NthPrefix(n)) + Len(body) + 1, Len(NthPrefix(n) \o body \o last)) = last
    BY <1>5, CutJoined
  <2> QED BY <1>1, <1>3, <1>6, <2>1
<1>9. p \in Seq(Range(p))
  BY <1>7 DEF Range
<1>10. SubSeq(p, 1, Len(Header)) = Header
  <2>0. NonceSize \in Nat /\ TagSize \in Nat
    BY SizesAssumption
  <2>1. PrefixSize \in Nat /\ 2 <= PrefixSize /\ Len(p) \in Nat /\ PrefixSize <= Len(p)
    <3>1. /\ PrefixSize \in Nat /\ PrefixSize = 2 + NonceSize /\ Len(message) \in Nat
          /\ Len(p) = PrefixSize + Len(message) + TagSize
      BY <1>1, <1>2, <1>7
    <3> QED BY <2>0, <3>1
  <2>2. SubSeq(p, 1, 2) = SubSeq(SubSeq(p, 1, PrefixSize), 1, 2)
    BY <1>9, <2>1
  <2>3. SubSeq(p, 1, 2) = SubSeq(NthPrefix(n), 1, 2)
    BY <1>8, <2>2
  <2> QED BY <1>1, <2>3
<1> QED
  BY <1>1, <1>2, <1>3, <1>4, <1>7, <1>8, <1>9, <1>10 DEF p, body, last, MadeOfParts

\* The length of a packet.
LEMMA PacketLength ==
    ASSUME NEW secret, NEW message \in Messages, NEW n \in Nat
    PROVE  Len(Packet(secret, message, n)) = PrefixSize + Len(message) + TagSize
<1>1. MadeOfParts(secret, message, n)
  BY PacketParts
<1> QED BY <1>1 DEF MadeOfParts

\* The first cell of the nonce tells which packet it is.
LEMMA PacketNonce ==
    ASSUME NEW secret, NEW message \in Messages, NEW n \in Nat
    PROVE  Packet(secret, message, n)[3] = [nonce |-> n, at |-> 1]
<1>1. \A i \in 1 .. PrefixSize : Packet(secret, message, n)[i] = NthPrefix(n)[i]
  <2>1. MadeOfParts(secret, message, n)
    BY PacketParts
  <2> QED BY <2>1 DEF MadeOfParts
<1>2. \A i \in 1 .. NonceSize : NthPrefix(n)[2 + i] = [nonce |-> n, at |-> i]
  BY PrefixParts
<1>3. PrefixSize = 2 + NonceSize /\ NonceSize \in Nat /\ NonceSize >= 1
  BY PrefixParts, SizesAssumption
<1>4. 3 \in 1 .. PrefixSize /\ 1 \in 1 .. NonceSize /\ 2 + 1 = 3
  BY <1>3
<1>5. NthPrefix(n)[2 + 1] = [nonce |-> n, at |-> 1]
  BY <1>2, <1>4
<1> QED BY <1>1, <1>4, <1>5

-----------------------------------------------------------------------------
(* The invariant.                                                          *)

\* What a call has at each statement, whatever it is for.
Control ==
    /\ pc = "idle" => request = None
    /\ pc # "idle" => request.op \in Seals \cup Opens
    /\ pc # "done" => answer = NoAnswer /\ freed = <<>>
    /\ pc = "done" => answer # NoAnswer
    /\ pc = "assemble" => request.op \in Seals
    /\ pc \in {"cut", "copy"} => request.op \in Opens
    /\ pc = "copy" => request.op = "unwrap_key"

\* The parts that a sealing call has made, with a nonce that no packet has.
Sealing ==
    pc \notin {"idle", "done"} /\ request.op \in Seals =>
        /\ request.secret \in Secrets /\ request.input \in Messages
        /\ Cardinality(issued) < MaxPackets
        /\ pc # "construct" =>
              request.secret \notin LargeSecrets /\ prefix = NthPrefix(Cardinality(issued))
        /\ pc \in {"finalize", "assemble"} =>
              /\ Len(request.input) <= IntMax
              /\ ciphertext = Body(request.secret, request.input, Cardinality(issued))
        /\ pc = "assemble" => tag = Tag(request.secret, prefix, ciphertext)

\* The parts that an opening call has cut from a valid packet, and what it recovered.
Recovered == Decrypted(ciphertext, request.secret, SubSeq(prefix, Len(Header) + 1, PrefixSize))

Opening ==
    pc \notin {"idle", "done"} /\ request.op \in Opens =>
        /\ request.input \in Seq(Cells)
        /\ pc # "cut" =>
              /\ ValidPacket(request.input)
              /\ prefix = SubSeq(request.input, 1, PrefixSize)
              /\ ciphertext = CiphertextOf(request.input)
              /\ tag = SubSeq(request.input, Len(request.input) - TagSize + 1, Len(request.input))
        /\ pc \in {"update", "finalize", "copy"} => request.secret \notin LargeSecrets
        /\ pc \in {"finalize", "copy"} => Len(ciphertext) <= IntMax /\ plaintext = Recovered
        /\ pc = "copy" => Authentic

\* Every packet was sealed within the limits, with a nonce of its own.
WellFormed(p, bound) ==
    \E secret \in Secrets \ LargeSecrets, message \in Messages, n \in Nat :
        n < bound /\ Len(message) <= IntMax /\ p = Packet(secret, message, n)

Issued ==
    /\ IsFiniteSet(issued) /\ Cardinality(issued) <= MaxPackets
    /\ \A p \in issued : WellFormed(p, Cardinality(issued))

OneShotInvariant == TypeOK /\ Control /\ Sealing /\ Opening /\ Issued

\* The sizes, and what they add up to.
LEMMA SizesAreCounts ==
    /\ NonceSize \in Nat /\ NonceSize >= 1 /\ TagSize \in Nat /\ TagSize >= 1 /\ IntMax \in Nat
    /\ MaxPackets \in Nat /\ Len(Header) = 2 /\ PrefixSize = 2 + NonceSize /\ PrefixSize \in Nat
    /\ Overhead = PrefixSize + TagSize
<1>1. NonceSize \in Nat /\ NonceSize >= 1 /\ TagSize \in Nat /\ TagSize >= 1 /\ IntMax \in Nat /\ MaxPackets \in Nat
  BY SizesAssumption
<1>2. Len(Header) = 2 /\ PrefixSize = 2 + NonceSize /\ PrefixSize \in Nat
  BY PrefixParts
<1> QED BY <1>1, <1>2 DEF Overhead

\* There are no packets, and no call runs.
LEMMA OneShotInit == Init => OneShotInvariant
<1> SUFFICES ASSUME Init PROVE OneShotInvariant
  OBVIOUS
<1>1. IsFiniteSet(issued) /\ Cardinality(issued) = 0
  BY FS_EmptySet DEF Init
<1>2. Issued
  BY <1>1, SizesAreCounts DEF Init, Issued
<1>3. TypeOK
  BY <1>1, SizesAreCounts DEF Init, TypeOK, None, NoAnswer, Range
<1> QED BY <1>2, <1>3 DEF Init, OneShotInvariant, Control, Sealing, Opening

\* The invariant reads the variables, and nothing else.
LEMMA OneShotStutters ==
    ASSUME OneShotInvariant, UNCHANGED vars
    PROVE  OneShotInvariant'
BY DEF OneShotInvariant, TypeOK, Control, Sealing, Opening, Issued, Recovered, Authentic, Cells, parts, vars

\* Steps that make no packet leave the packets as they are.
LEMMA IssuedKept ==
    ASSUME Issued, UNCHANGED issued
    PROVE  Issued' /\ Cells' = Cells
BY DEF Issued, Cells

-----------------------------------------------------------------------------
(* The steps of sealing.                                                   *)

\* A tag has its size, whatever it is for.
LEMMA SealTail ==
    ASSUME NEW secret, NEW head, NEW body
    PROVE  Len(Tag(secret, head, body)) = TagSize
<1>1. Tag(secret, head, body) \in Seq(Range(Tag(secret, head, body))) /\ Len(Tag(secret, head, body)) = TagSize
  BY IsSequence, SizesAreCounts DEF Tag
<1> QED BY <1>1

\* The steps up to the tag: each makes its part of the packet, or refuses what is too large.
LEMMA SealStep ==
    ASSUME OneShotInvariant, CallSeal \/ BeginSeal \/ UpdateSeal \/ FinalizeSeal
    PROVE  OneShotInvariant'
<1> USE DEF Seals, Opens, Returns, Throws, NoAnswer, None, parts
<1>i. Issued' /\ Cells' = Cells
  BY IssuedKept DEF OneShotInvariant, CallSeal, BeginSeal, UpdateSeal, FinalizeSeal
<1>c. Cardinality(issued) \in Nat
  BY FS_CardinalityType DEF OneShotInvariant, Issued
<1>1. CASE CallSeal
  BY <1>1, <1>i DEF CallSeal, OneShotInvariant, TypeOK, Control, Sealing, Opening
<1>2. CASE BeginSeal
  <2>1. Len(NthPrefix(Cardinality(issued))) = PrefixSize
    BY <1>c, PrefixParts
  <2>2. Header \o Nonce(Cardinality(issued)) = NthPrefix(Cardinality(issued))
    BY DEF NthPrefix
  <2>3. issued' = issued /\ Cardinality(issued') = Cardinality(issued)
    BY <1>2 DEF BeginSeal
  <2>4. CASE request.secret \in LargeSecrets
    BY <1>2, <1>i, <2>3, <2>4 DEF BeginSeal, OneShotInvariant, TypeOK, Control, Sealing, Opening
  <2>5. CASE request.secret \notin LargeSecrets
    <3>1. prefix' = NthPrefix(Cardinality(issued)) /\ pc' = "update"
      BY <1>2, <2>2, <2>5 DEF BeginSeal
    <3> QED
      BY <1>2, <1>i, <2>1, <2>3, <2>5, <3>1 DEF BeginSeal, OneShotInvariant, TypeOK, Control, Sealing, Opening
  <2> QED BY <2>4, <2>5
<1>3. CASE UpdateSeal
  <2>1. SubSeq(NthPrefix(Cardinality(issued)), Len(Header) + 1, PrefixSize) = Nonce(Cardinality(issued))
    BY <1>c, PrefixParts
  <2>3. issued' = issued /\ Cardinality(issued') = Cardinality(issued)
    BY <1>3 DEF UpdateSeal
  <2>4. CASE ~WithinLimit(request.input)
    BY <1>3, <1>i, <2>3, <2>4 DEF UpdateSeal, OneShotInvariant, TypeOK, Control, Sealing, Opening
  <2>5. CASE WithinLimit(request.input)
    <3>1. /\ ciphertext' = Body(request.secret, request.input, Cardinality(issued))
          /\ pc' = "finalize" /\ Len(request.input) <= IntMax
      BY <1>3, <2>1, <2>5 DEF UpdateSeal, WithinLimit, Body, OneShotInvariant, Control, Sealing
    <3> QED
      BY <1>3, <1>i, <2>3, <2>5, <3>1 DEF UpdateSeal, OneShotInvariant, TypeOK, Control, Sealing, Opening
  <2> QED BY <2>4, <2>5
<1>4. CASE FinalizeSeal
  <2>1. Len(tag') = TagSize
    BY <1>4, SealTail DEF FinalizeSeal
  <2> QED
    BY <1>4, <1>i, <2>1 DEF FinalizeSeal, OneShotInvariant, TypeOK, Control, Sealing, Opening
<1> QED BY <1>1, <1>2, <1>3, <1>4

\* A packet that is put together is new, and well-formed.
LEMMA AssembledIsNew ==
    ASSUME OneShotInvariant, Assemble
    PROVE  /\ answer'.value = Packet(request.secret, request.input, Cardinality(issued))
           /\ request.secret \in Secrets \ LargeSecrets /\ request.input \in Messages
           /\ Len(request.input) <= IntMax
           /\ answer'.value \notin issued
           /\ Cardinality(issued) \in Nat
<1> DEFINE new == Packet(request.secret, request.input, Cardinality(issued))
<1>1. Cardinality(issued) \in Nat
  BY FS_CardinalityType DEF OneShotInvariant, Issued
<1>2. /\ request.secret \in Secrets \ LargeSecrets /\ request.input \in Messages
      /\ Len(request.input) <= IntMax
      /\ prefix = NthPrefix(Cardinality(issued))
      /\ ciphertext = Body(request.secret, request.input, Cardinality(issued))
      /\ tag = Tag(request.secret, prefix, ciphertext)
      /\ answer'.value = prefix \o ciphertext \o tag
  BY DEF Assemble, Returns, OneShotInvariant, Control, Sealing, Seals
<1>3. answer'.value = new
  BY <1>2 DEF Packet
<1>4. ASSUME NEW p \in issued PROVE p # new
  <2>1. PICK secret \in Secrets, message \in Messages, n \in Nat :
            n < Cardinality(issued) /\ p = Packet(secret, message, n)
    BY DEF OneShotInvariant, Issued, WellFormed
  <2>2. p[3] = [nonce |-> n, at |-> 1]
    BY <2>1, PacketNonce
  <2>3. new[3] = [nonce |-> Cardinality(issued), at |-> 1]
    BY <1>1, <1>2, PacketNonce
  <2>4. p[3].nonce # new[3].nonce
    BY <1>1, <2>1, <2>2, <2>3
  <2> QED BY <2>4
<1> QED BY <1>1, <1>2, <1>3, <1>4

\* The packet that is returned joins those that were issued, and uses up its nonce.
LEMMA AssembleStep ==
    ASSUME OneShotInvariant, Assemble
    PROVE  OneShotInvariant'
<1>1. /\ answer'.value = Packet(request.secret, request.input, Cardinality(issued))
      /\ request.secret \in Secrets \ LargeSecrets /\ request.input \in Messages
      /\ Len(request.input) <= IntMax
      /\ answer'.value \notin issued
      /\ Cardinality(issued) \in Nat
  BY AssembledIsNew
<1>2. issued' = issued \cup {answer'.value} /\ IsFiniteSet(issued)
  BY DEF Assemble, OneShotInvariant, Issued
<1>3. IsFiniteSet(issued') /\ Cardinality(issued') = Cardinality(issued) + 1
  BY <1>1, <1>2, FS_AddElement
<1>4. Cardinality(issued) < MaxPackets
  BY DEF Assemble, OneShotInvariant, Control, Sealing
<1>5. ASSUME NEW p \in issued' PROVE WellFormed(p, Cardinality(issued'))
  <2>1. CASE p \in issued
    <3>1. PICK secret \in Secrets \ LargeSecrets, message \in Messages, n \in Nat :
              n < Cardinality(issued) /\ Len(message) <= IntMax /\ p = Packet(secret, message, n)
      BY <2>1 DEF OneShotInvariant, Issued, WellFormed
    <3>2. n < Cardinality(issued')
      BY <1>1, <1>3, <3>1
    <3> QED BY <3>1, <3>2 DEF WellFormed
  <2>2. CASE p = answer'.value
    <3>1. Cardinality(issued) < Cardinality(issued')
      BY <1>1, <1>3
    <3> QED BY <1>1, <2>2, <3>1 DEF WellFormed
  <2> QED BY <1>2, <2>1, <2>2
<1>6. Issued'
  <2>1. Cardinality(issued') <= MaxPackets
    BY <1>1, <1>3, <1>4, SizesAreCounts
  <2> QED BY <1>3, <1>5, <2>1 DEF Issued
<1>7. Control' /\ Sealing' /\ Opening' /\ TypeOK'
  BY <1>6 DEF Assemble, Returns, NoAnswer, OneShotInvariant, TypeOK, Control, Sealing, Opening, Issued, parts, Seals, Opens
<1> QED BY <1>6, <1>7 DEF OneShotInvariant

-----------------------------------------------------------------------------
(* The steps of opening.                                                   *)

\* Packets, damaged or not, are made of the cells of packets.
LEMMA DamagedCells ==
    ASSUME OneShotInvariant, NEW input \in issued \cup Damaged
    PROVE  input \in Seq(Cells)
<1>1. ASSUME NEW p \in issued PROVE p \in Seq(Cells)
  <2>1. PICK secret \in Secrets, message \in Messages, n \in Nat : p = Packet(secret, message, n)
    BY DEF OneShotInvariant, Issued, WellFormed
  <2>2. p \in Seq(Range(p))
    <3>1. MadeOfParts(secret, message, n)
      BY PacketParts
    <3> QED BY <2>1, <3>1 DEF MadeOfParts
  <2>3. Range(p) \subseteq Cells
    BY DEF Cells
  <2> QED BY <2>2, <2>3
<1>2. ASSUME NEW p \in issued, NEW i \in DOMAIN p, input = RemoveAt(p, i) PROVE input \in Seq(Cells)
  BY <1>1, <1>2 DEF RemoveAt
<1>3. ASSUME NEW p \in issued, NEW i \in DOMAIN p, NEW c \in Cells, input = ReplaceAt(p, i, c) PROVE input \in Seq(Cells)
  BY <1>1, <1>3 DEF ReplaceAt
<1>4. ASSUME NEW p \in issued, NEW i \in DOMAIN p, NEW c \in Cells, input = InsertAt(p, i, c) PROVE input \in Seq(Cells)
  BY <1>1, <1>4 DEF InsertAt
<1>6. ASSUME NEW p \in issued, input \in Altered(p) PROVE input \in Seq(Cells)
  <2>1. CASE input \in {RemoveAt(p, i) : i \in DOMAIN p}
    BY <1>2, <2>1
  <2>2. CASE input \in {ReplaceAt(p, i, c) : i \in DOMAIN p, c \in Cells}
    BY <1>3, <2>2
  <2>3. CASE input \in {InsertAt(p, i, c) : i \in DOMAIN p, c \in Cells}
    BY <1>4, <2>3
  <2> QED BY <1>6, <2>1, <2>2, <2>3 DEF Altered
<1>5. ASSUME NEW p \in issued, NEW r \in issued, input \in Recombined(p, r) PROVE input \in Seq(Cells)
  <2>1. \A i \in DOMAIN p, j \in DOMAIN r : Spliced(p, i, r, j) \in Seq(Cells)
    BY <1>1 DEF Spliced
  <2> QED BY <1>5, <2>1 DEF Recombined
<1> QED BY <1>1, <1>5, <1>6 DEF Damaged

\* A cell of a tag is in a packet only where that packet's own tag is.
LEMMA TagCells ==
    ASSUME NEW secret, NEW message \in Messages, NEW n \in Nat, NEW r, NEW k,
           NEW j \in DOMAIN Packet(secret, message, n),
           Packet(secret, message, n)[j] = [sealed |-> r, at |-> k]
    PROVE  r = [secret |-> secret, prefix |-> NthPrefix(n), text |-> Body(secret, message, n)]
<1> DEFINE p == Packet(secret, message, n)
           body == Body(secret, message, n)
           last == Tag(secret, NthPrefix(n), body)
<1>1. /\ p \in Seq(Range(p)) /\ Len(p) = PrefixSize + Len(message) + TagSize
      /\ Len(message) \in Nat
      /\ \A i \in 1 .. PrefixSize : p[i] = NthPrefix(n)[i]
      /\ \A i \in 1 .. Len(message) : p[PrefixSize + i] = body[i]
      /\ \A i \in 1 .. TagSize : p[PrefixSize + Len(message) + i] = last[i]
  <2>1. MadeOfParts(secret, message, n)
    BY PacketParts
  <2> QED BY <2>1 DEF MadeOfParts
<1>2. DOMAIN message = 1 .. Len(message)
  BY MessagesAssumption
<1>3. j \in 1 .. Len(p)
  BY <1>1
<1>4. ASSUME j <= 2 PROVE FALSE
  <2>1. j \in 1 .. 2 /\ j \in 1 .. PrefixSize
    BY <1>3, <1>4, SizesAreCounts
  <2>2. \E x : NthPrefix(n)[j] = [field |-> x]
    BY <2>1, PrefixParts
  <2>3. \E x : p[j] = [field |-> x]
    BY <1>1, <2>1, <2>2
  <2> QED BY <2>3, CellsDiffer
<1>5. ASSUME j > 2, j <= PrefixSize PROVE FALSE
  <2>1. j - 2 \in 1 .. NonceSize /\ j \in 1 .. PrefixSize /\ 2 + (j - 2) = j
    BY <1>3, <1>5, SizesAreCounts
  <2>2. NthPrefix(n)[2 + (j - 2)] = [nonce |-> n, at |-> j - 2]
    BY <2>1, PrefixParts
  <2>3. p[j] = [nonce |-> n, at |-> j - 2]
    BY <1>1, <2>1, <2>2
  <2> QED BY <2>3, CellsDiffer
<1>6. ASSUME j > PrefixSize, j <= PrefixSize + Len(message) PROVE FALSE
  <2>1. j - PrefixSize \in 1 .. Len(message) /\ PrefixSize + (j - PrefixSize) = j
    BY <1>1, <1>3, <1>6, SizesAreCounts
  <2>2. p[j] = body[j - PrefixSize]
    BY <1>1, <2>1
  <2>3. body[j - PrefixSize] = [symbol |-> message[j - PrefixSize], secret |-> secret, nonce |-> Nonce(n), at |-> j - PrefixSize]
    BY <1>2, <2>1 DEF Body, Encrypted
  <2> QED BY <2>2, <2>3, CellsDiffer
<1>7. CASE j > PrefixSize + Len(message)
  <2> DEFINE i == j - (PrefixSize + Len(message))
  <2>1. i \in 1 .. TagSize /\ PrefixSize + Len(message) + i = j
    BY <1>1, <1>3, <1>7, SizesAreCounts
  <2>2. last[i] = [sealed |-> [secret |-> secret, prefix |-> NthPrefix(n), text |-> body], at |-> i]
    BY <2>1 DEF Tag
  <2>3. p[j] = last[i]
    BY <1>1, <2>1
  <2> QED BY <2>2, <2>3
<1>8. j <= 2 \/ (j > 2 /\ j <= PrefixSize) \/ (j > PrefixSize /\ j <= PrefixSize + Len(message)) \/ j > PrefixSize + Len(message)
  BY <1>1, <1>3, SizesAreCounts
<1> QED BY <1>4, <1>5, <1>6, <1>7, <1>8

\* The parts that were cut from a valid packet make it up.
LEMMA PartsMakeUp ==
    ASSUME NEW S, NEW p \in Seq(S), ValidPacket(p)
    PROVE  LET last == SubSeq(p, Len(p) - TagSize + 1, Len(p)) IN
           /\ SubSeq(p, 1, PrefixSize) \o CiphertextOf(p) \o last = p
           /\ Len(SubSeq(p, 1, PrefixSize)) = PrefixSize
           /\ CiphertextOf(p) \in Seq(S) /\ Len(CiphertextOf(p)) = Len(p) - Overhead
           /\ Len(last) = TagSize /\ last[TagSize] = p[Len(p)] /\ Len(p) \in DOMAIN p
<1> DEFINE m == PrefixSize
           n == Len(p) - TagSize
<1>1. m \in Nat /\ n \in Nat /\ m <= n /\ n <= Len(p) /\ Len(p) \in Nat /\ n + TagSize = Len(p)
  BY SizesAreCounts DEF ValidPacket
<1>2. SubSeq(p, 1, m) \o SubSeq(p, m + 1, n) \o SubSeq(p, n + 1, Len(p)) = p
  <2> HIDE DEF m, n
  <2> QED BY <1>1, JoinCut
<1>3. /\ Len(SubSeq(p, 1, m)) = m
      /\ SubSeq(p, m + 1, n) \in Seq(S) /\ Len(SubSeq(p, m + 1, n)) = n - m
      /\ Len(SubSeq(p, n + 1, Len(p))) = TagSize
      /\ SubSeq(p, n + 1, Len(p))[TagSize] = p[Len(p)] /\ Len(p) \in DOMAIN p
  <2>1. TagSize \in Nat /\ TagSize >= 1
    BY SizesAreCounts
  <2> HIDE DEF m, n
  <2> QED BY <1>1, <2>1
<1>4. n - m = Len(p) - Overhead
  BY <1>1, SizesAreCounts
<1> QED BY <1>2, <1>3, <1>4 DEF CiphertextOf

\* Decrypting what was encrypted gives the message.
LEMMA DecryptEncrypted ==
    ASSUME NEW secret, NEW message \in Messages, NEW n \in Nat
    PROVE  Decrypted(Body(secret, message, n), secret, Nonce(n)) = message
<1> DEFINE body == Body(secret, message, n)
<1>1. message = [i \in 1 .. Len(message) |-> message[i]] /\ DOMAIN message = 1 .. Len(message)
  <2>1. message \in Seq(UNION {Range(m) : m \in Messages})
    BY MessagesAssumption
  <2> QED BY <2>1, SequenceFunction
<1>2. \A i \in DOMAIN message : message[i] \in Symbols
  BY DEF Symbols, Range
<1>3. DOMAIN body = DOMAIN message
  BY DEF Body, Encrypted
<1>4. \A i \in DOMAIN message :
          body[i] = [symbol |-> message[i], secret |-> secret, nonce |-> Nonce(n), at |-> i]
  BY DEF Body, Encrypted
<1> HIDE DEF body
<1>5. ASSUME NEW i \in DOMAIN message PROVE body[i].symbol = message[i]
  <2>1. body[i] = [symbol |-> message[i], secret |-> secret, nonce |-> Nonce(n), at |-> i]
    BY <1>4
  <2> QED BY <2>1
<1>6. Decrypted(body, secret, Nonce(n)) = [i \in DOMAIN message |-> message[i]]
  BY <1>2, <1>3, <1>4, <1>5 DEF Decrypted
<1> QED BY <1>1, <1>6 DEF body

\* How one who opens a packet cuts it, and what can be read off it.
LEMMA PacketRead ==
    ASSUME NEW secret, NEW message \in Messages, NEW n \in Nat
    PROVE  LET p == Packet(secret, message, n) IN
           /\ ValidPacket(p)
           /\ SubSeq(p, 1, PrefixSize) = NthPrefix(n)
           /\ CiphertextOf(p) = Body(secret, message, n)
           /\ Len(CiphertextOf(p)) = Len(message)
           /\ SubSeq(p, Len(p) - TagSize + 1, Len(p)) = Tag(secret, NthPrefix(n), Body(secret, message, n))
           /\ Content(p) = [packet |-> p, secret |-> secret, message |-> message]
<1> DEFINE p == Packet(secret, message, n)
           body == Body(secret, message, n)
           last == Tag(secret, NthPrefix(n), body)
<1>2. /\ Len(p) = PrefixSize + Len(message) + TagSize
      /\ Len(message) \in Nat /\ Len(body) = Len(message)
      /\ SubSeq(p, 1, PrefixSize) = NthPrefix(n) /\ SubSeq(p, 1, Len(Header)) = Header
      /\ SubSeq(p, PrefixSize + 1, PrefixSize + Len(message)) = body
      /\ SubSeq(p, PrefixSize + Len(message) + 1, Len(p)) = last
      /\ \A i \in 1 .. TagSize : p[PrefixSize + Len(message) + i] = last[i]
  <2>1. MadeOfParts(secret, message, n)
    BY PacketParts
  <2> QED BY <2>1 DEF MadeOfParts
<1> HIDE DEF p
<1>3. Len(p) - TagSize = PrefixSize + Len(message) /\ Len(p) >= Overhead /\ TagSize \in 1 .. TagSize
  <2>1. Len(p) = PrefixSize + Len(message) + TagSize /\ Len(message) \in Nat
    BY <1>2
  <2>2. PrefixSize \in Nat /\ TagSize \in Nat /\ TagSize >= 1 /\ Overhead = PrefixSize + TagSize
    BY SizesAreCounts
  <2> QED BY <2>1, <2>2
<1>4. ValidPacket(p) /\ CiphertextOf(p) = body /\ SubSeq(p, Len(p) - TagSize + 1, Len(p)) = last
  BY <1>2, <1>3 DEF ValidPacket, CiphertextOf
<1>5. Last(p).sealed = [secret |-> secret, prefix |-> NthPrefix(n), text |-> body]
  <2>1. last[TagSize] = [sealed |-> [secret |-> secret, prefix |-> NthPrefix(n), text |-> body], at |-> TagSize]
    BY <1>3 DEF Tag
  <2>2. Last(p) = last[TagSize]
    BY <1>2, <1>3 DEF Last
  <2> QED BY <2>1, <2>2
<1>6. [i \in DOMAIN body |-> body[i].symbol] = message
  <2>1. message = [i \in 1 .. Len(message) |-> message[i]] /\ DOMAIN message = 1 .. Len(message)
    <3>1. message \in Seq(UNION {Range(m) : m \in Messages})
      BY MessagesAssumption
    <3> QED BY <3>1, SequenceFunction
  <2>2. DOMAIN body = DOMAIN message
    BY DEF Body, Encrypted
  <2>3. \A i \in DOMAIN message : body[i].symbol = message[i]
    BY DEF Body, Encrypted
  <2> QED BY <2>1, <2>2, <2>3
<1> HIDE DEF body, last
<1>7. Content(p) = [packet |-> p, secret |-> secret, message |-> message]
  BY <1>5, <1>6 DEF Content
<1>8. Len(CiphertextOf(p)) = Len(message)
  BY <1>2, <1>4
<1>9. SubSeq(p, 1, PrefixSize) = NthPrefix(n)
  BY <1>2
<1> QED BY <1>4, <1>7, <1>8, <1>9 DEF p, body, last

\* Every packet that there is was put together like this.
LEMMA IssuedPackets ==
    ASSUME OneShotInvariant, NEW p \in issued
    PROVE  \E secret \in Secrets \ LargeSecrets, message \in Messages, n \in Nat :
              /\ p = Packet(secret, message, n)
              /\ ValidPacket(p)
              /\ SubSeq(p, 1, PrefixSize) = NthPrefix(n)
              /\ CiphertextOf(p) = Body(secret, message, n)
              /\ Len(CiphertextOf(p)) <= IntMax
              /\ SubSeq(p, Len(p) - TagSize + 1, Len(p)) = Tag(secret, NthPrefix(n), Body(secret, message, n))
              /\ Content(p) = [packet |-> p, secret |-> secret, message |-> message]
<1>1. PICK secret \in Secrets \ LargeSecrets, message \in Messages, n \in Nat :
          Len(message) <= IntMax /\ p = Packet(secret, message, n)
  BY DEF OneShotInvariant, Issued, WellFormed
<1> QED BY <1>1, PacketRead

\* A tag that verifies belongs to the very packet that was sealed with this secret.
LEMMA AuthenticIsIssued ==
    ASSUME OneShotInvariant, pc \in {"finalize", "copy"}, request.op \in Opens, Authentic
    PROVE  /\ request.input \in issued
           /\ Content(request.input) = [packet |-> request.input, secret |-> request.secret, message |-> plaintext]
<1>1. /\ request.input \in Seq(Cells) /\ ValidPacket(request.input)
      /\ prefix = SubSeq(request.input, 1, PrefixSize)
      /\ ciphertext = CiphertextOf(request.input)
      /\ tag = SubSeq(request.input, Len(request.input) - TagSize + 1, Len(request.input))
      /\ plaintext = Recovered
  BY DEF OneShotInvariant, Opening
<1>2. /\ request.input = prefix \o ciphertext \o tag
      /\ tag[TagSize] = request.input[Len(request.input)] /\ Len(request.input) \in DOMAIN request.input
  BY <1>1, PartsMakeUp
<1>3. TagSize \in 1 .. TagSize
  BY SizesAreCounts
<1> DEFINE r == [secret |-> request.secret, prefix |-> prefix, text |-> ciphertext]
           cell == [sealed |-> r, at |-> TagSize]
<1>4. tag[TagSize] = cell
  <2>1. tag = Tag(request.secret, prefix, ciphertext)
    BY DEF Authentic
  <2>2. Tag(request.secret, prefix, ciphertext)[TagSize] = cell
    BY <1>3 DEF Tag
  <2> QED BY <2>1, <2>2
<1>5. cell \in Cells
  <2>1. request.input \in Seq(Cells) /\ Len(request.input) \in DOMAIN request.input
    BY <1>1, <1>2
  <2>2. request.input[Len(request.input)] \in Cells
    BY <2>1
  <2> QED BY <1>2, <1>4, <2>2
<1>6. PICK p \in issued : cell \in Range(p)
  BY <1>5 DEF Cells
<1>7. PICK j \in DOMAIN p : p[j] = cell
  BY <1>6 DEF Range
<1>8. PICK secret \in Secrets \ LargeSecrets, message \in Messages, n \in Nat :
              /\ p = Packet(secret, message, n)
              /\ Content(p) = [packet |-> p, secret |-> secret, message |-> message]
  BY IssuedPackets
<1>9. r = [secret |-> secret, prefix |-> NthPrefix(n), text |-> Body(secret, message, n)]
  BY <1>7, <1>8, TagCells
<1>10. request.secret = secret /\ prefix = NthPrefix(n) /\ ciphertext = Body(secret, message, n)
  BY <1>9
<1>11. request.input = p
  BY <1>2, <1>8, <1>10 DEF Authentic, Packet
<1>12. plaintext = message
  <2>1. SubSeq(prefix, Len(Header) + 1, PrefixSize) = Nonce(n)
    BY <1>10, PrefixParts
  <2>2. Recovered = Decrypted(Body(secret, message, n), secret, Nonce(n))
    BY <1>10, <2>1 DEF Recovered
  <2>3. Decrypted(Body(secret, message, n), secret, Nonce(n)) = message
    BY DecryptEncrypted
  <2>4. plaintext = Recovered
    BY <1>1
  <2> QED BY <2>2, <2>3, <2>4
<1> QED BY <1>8, <1>10, <1>11, <1>12

\* A packet that was sealed with this secret has a tag that verifies.
LEMMA IssuedIsAuthentic ==
    ASSUME OneShotInvariant, pc \in {"finalize", "copy"}, request.op \in Opens,
           request.input \in issued, Content(request.input).secret = request.secret
    PROVE  Authentic
<1>1. PICK secret \in Secrets \ LargeSecrets, message \in Messages, n \in Nat :
              /\ SubSeq(request.input, 1, PrefixSize) = NthPrefix(n)
              /\ CiphertextOf(request.input) = Body(secret, message, n)
              /\ SubSeq(request.input, Len(request.input) - TagSize + 1, Len(request.input))
                    = Tag(secret, NthPrefix(n), Body(secret, message, n))
              /\ Content(request.input) = [packet |-> request.input, secret |-> secret, message |-> message]
  BY IssuedPackets
<1>2. secret = request.secret
  BY <1>1
<1>3. /\ prefix = SubSeq(request.input, 1, PrefixSize)
      /\ ciphertext = CiphertextOf(request.input)
      /\ tag = SubSeq(request.input, Len(request.input) - TagSize + 1, Len(request.input))
  BY DEF OneShotInvariant, Opening
<1> QED BY <1>1, <1>2, <1>3 DEF Authentic

\* What comes out of the cipher is as long as what went in.
LEMMA DecryptedTypes ==
    ASSUME NEW S, NEW body \in Seq(S), NEW secret, NEW nonce
    PROVE  /\ Len(Decrypted(body, secret, nonce)) = Len(body)
           /\ Range(Decrypted(body, secret, nonce)) \subseteq Symbols \cup {Garbage}
<1> DEFINE out == Decrypted(body, secret, nonce)
<1>1. DOMAIN out = 1 .. Len(body) /\ Len(body) \in Nat
  BY DEF Decrypted
<1>2. out = [i \in 1 .. Len(body) |-> out[i]]
  BY DEF Decrypted
<1>3. ASSUME NEW i \in DOMAIN out PROVE out[i] \in Symbols \cup {Garbage}
  <2>1. CASE \E s \in Symbols : body[i] = [symbol |-> s, secret |-> secret, nonce |-> nonce, at |-> i]
    <3>1. PICK s \in Symbols : body[i] = [symbol |-> s, secret |-> secret, nonce |-> nonce, at |-> i]
      BY <2>1
    <3>2. body[i].symbol = s
      BY <3>1
    <3>3. out[i] = body[i].symbol
      BY <1>1, <1>3, <2>1 DEF Decrypted
    <3> QED BY <3>2, <3>3
  <2>2. CASE ~\E s \in Symbols : body[i] = [symbol |-> s, secret |-> secret, nonce |-> nonce, at |-> i]
    BY <1>1, <1>3, <2>2 DEF Decrypted
  <2> QED BY <2>1, <2>2
<1> HIDE DEF out
<1>4. Len(out) = Len(body)
  BY <1>1, <1>2, IsSequence
<1>5. Range(out) \subseteq Symbols \cup {Garbage}
  BY <1>3 DEF Range
<1> QED BY <1>4, <1>5 DEF out

\* The calls up to what they recover.
LEMMA OpenStep ==
    ASSUME OneShotInvariant, CallOpen \/ CutPacket \/ BeginOpen \/ UpdateOpen
    PROVE  OneShotInvariant'
<1> USE DEF Seals, Opens, Returns, Throws, NoAnswer, parts
<1>i. Issued' /\ Cells' = Cells /\ issued' = issued
  BY IssuedKept DEF OneShotInvariant, CallOpen, CutPacket, BeginOpen, UpdateOpen
<1>1. CASE CallOpen
  <2>1. request'.input \in Seq(Cells)
    BY <1>1, DamagedCells DEF CallOpen
  <2> QED
    BY <1>1, <1>i, <2>1 DEF CallOpen, OneShotInvariant, TypeOK, Control, Sealing, Opening
<1>2. CASE CutPacket
  <2>1. request.input \in Seq(Cells)
    BY <1>2 DEF CutPacket, OneShotInvariant, Opening, Control
  <2>2. CASE ValidPacket(request.input)
    <3>1. Len(prefix') = PrefixSize /\ Len(tag') = TagSize
      BY <1>2, <2>1, <2>2, PartsMakeUp DEF CutPacket
    <3> QED
      BY <1>2, <1>i, <2>2, <3>1 DEF CutPacket, OneShotInvariant, TypeOK, Control, Sealing, Opening
  <2>3. CASE ~ValidPacket(request.input)
    BY <1>2, <1>i, <2>3 DEF CutPacket, OneShotInvariant, TypeOK, Control, Sealing, Opening
  <2> QED BY <2>2, <2>3
<1>3. CASE BeginOpen
  BY <1>3, <1>i DEF BeginOpen, OneShotInvariant, TypeOK, Control, Sealing, Opening
<1>4. CASE UpdateOpen
  <2>1. ciphertext \in Seq(Cells)
    <3>1. request.input \in Seq(Cells) /\ ValidPacket(request.input) /\ ciphertext = CiphertextOf(request.input)
      BY <1>4 DEF UpdateOpen, OneShotInvariant, Opening
    <3> QED BY <3>1, PartsMakeUp
  <2>2. CASE ~WithinLimit(ciphertext)
    BY <1>4, <1>i, <2>2 DEF UpdateOpen, OneShotInvariant, TypeOK, Control, Sealing, Opening
  <2>3. CASE WithinLimit(ciphertext)
    <3>1. plaintext' = Recovered /\ pc' = "finalize" /\ Len(ciphertext) <= IntMax
      BY <1>4, <2>3 DEF UpdateOpen, WithinLimit, Recovered
    <3>2. Len(Recovered) <= IntMax /\ Range(Recovered) \subseteq Symbols \cup {Garbage}
      BY <2>1, <3>1, DecryptedTypes DEF Recovered
    <3>3. Recovered' = Recovered
      BY <1>4 DEF UpdateOpen, Recovered
    <3> HIDE DEF Recovered
    <3> QED
      BY <1>4, <1>i, <3>1, <3>2, <3>3 DEF UpdateOpen, OneShotInvariant, TypeOK, Control, Sealing, Opening
  <2> QED BY <2>2, <2>3
<1> QED BY <1>1, <1>2, <1>3, <1>4

\* The ends of the calls.
LEMMA EndStep ==
    ASSUME OneShotInvariant,
           FinalizeOpen \/ RejectOpen \/ RejectOpenPasses \/ CopyKey \/ Fails \/ Leave
    PROVE  OneShotInvariant'
<1> USE DEF Seals, Opens, Returns, Throws, Release, NoAnswer, parts
<1>i. Issued' /\ Cells' = Cells /\ issued' = issued
  BY IssuedKept DEF OneShotInvariant, FinalizeOpen, RejectOpen, RejectOpenPasses, CopyKey, Fails, Leave
<1>e. Len(<<>>) = 0 /\ Range(<<>>) = {} /\ IntMax \in Nat
  BY SizesAreCounts DEF Range
<1>1. CASE FinalizeOpen
  BY <1>1, <1>i, <1>e DEF FinalizeOpen, OneShotInvariant, TypeOK, Control, Sealing, Opening, Authentic, Recovered
<1>2. CASE RejectOpen
  BY <1>2, <1>i, <1>e DEF RejectOpen, OneShotInvariant, TypeOK, Control, Sealing, Opening
<1>3. CASE RejectOpenPasses
  BY <1>3, <1>i, <1>e DEF RejectOpenPasses, OneShotInvariant, TypeOK, Control, Sealing, Opening
<1>4. CASE CopyKey
  BY <1>4, <1>i, <1>e DEF CopyKey, OneShotInvariant, TypeOK, Control, Sealing, Opening
<1>5. CASE Fails
  BY <1>5, <1>i DEF Fails, OneShotInvariant, TypeOK, Control, Sealing, Opening
<1>6. CASE Leave
  BY <1>6, <1>i, <1>e DEF Leave, None, OneShotInvariant, TypeOK, Control, Sealing, Opening
<1> QED BY <1>1, <1>2, <1>3, <1>4, <1>5, <1>6

-----------------------------------------------------------------------------
(* The theorems.                                                           *)

\* In every run of the one-shot calls the invariant holds: every packet was sealed with
\* a nonce of its own, and a call has the parts of the packet it says it has.
THEOREM OneShotInvariantHolds == Spec => []OneShotInvariant
<1>1. ASSUME OneShotInvariant, [Next]_vars PROVE OneShotInvariant'
  BY <1>1, SealStep, AssembleStep, OpenStep, EndStep, OneShotStutters DEF Next
<1> QED BY <1>1, OneShotInit, PTL DEF Spec

\* The variables of the one-shot calls have the types of TypeOK, whatever the constants.
THEOREM OneShotTypes == Spec => []TypeOK
<1>1. OneShotInvariant => TypeOK
  BY DEF OneShotInvariant
<1> QED BY <1>1, OneShotInvariantHolds, PTL

\* When a call has ended, what it had recovered from a packet that failed authentication
\* is nowhere in memory, and after unwrap_key neither is the key.
THEOREM RejectedIsWipedAlways == Spec => []RejectedIsWiped
<1>1. Init => RejectedIsWiped
  BY DEF Init, RejectedIsWiped
<1>2. ASSUME OneShotInvariant, RejectedIsWiped, [Next]_vars PROVE RejectedIsWiped'
  <2> USE DEF RejectedIsWiped, Returns, Throws, Release, Seals, Opens
  <2>w. \A buffer : Range(Wiped(buffer)) \subseteq {Zero}
    BY DEF Wiped, Range
  <2>e. Range(<<>>) = {}
    BY DEF Range
  <2>c. pc # "done" => freed = <<>>
    BY <1>2 DEF OneShotInvariant, Control
  <2>1. CASE CallSeal \/ BeginSeal \/ UpdateSeal \/ FinalizeSeal \/ Assemble
    BY <1>2, <2>1, <2>e, <2>c
       DEF CallSeal, BeginSeal, UpdateSeal, FinalizeSeal, Assemble, OneShotInvariant, Control
  <2>2. CASE CallOpen \/ CutPacket \/ BeginOpen \/ UpdateOpen
    BY <2>2, <2>e, <2>c DEF CallOpen, CutPacket, BeginOpen, UpdateOpen
  <2>3. CASE FinalizeOpen
    BY <2>3, <2>e DEF FinalizeOpen
  <2>4. CASE RejectOpen
    BY <2>4, <2>w DEF RejectOpen, LeftByHandler
  <2>5. CASE RejectOpenPasses
    BY <2>5 DEF RejectOpenPasses
  <2>6. CASE CopyKey
    BY <2>6, <2>w DEF CopyKey
  <2>7. CASE Fails
    BY <2>7 DEF Fails
  <2>8. CASE Leave
    BY <2>8 DEF Leave
  <2>9. CASE UNCHANGED vars
    BY <1>2, <2>9 DEF vars, parts
  <2> QED BY <1>2, <2>1, <2>2, <2>3, <2>4, <2>5, <2>6, <2>7, <2>8, <2>9 DEF Next
<1> QED BY <1>1, <1>2, OneShotInvariantHolds, PTL DEF Spec

-----------------------------------------------------------------------------
(* The calls implement the closed box.                                     *)

\* The packets there are, with what is in them, as PacketBox sees them.
Contents == {Content(packet) : packet \in issued}

\* The packets that a request opens are those that were issued for its secret.
LEMMA OpenedPackets ==
    ASSUME OneShotInvariant
    PROVE  /\ \A e \in Contents : e.packet \in issued /\ e = Content(e.packet)
           /\ \A p \in issued : Content(p).packet = p
           /\ \A e \in Box!Opened :
                  request.input \in issued /\ e = Content(request.input) /\ e.secret = request.secret
<1>1. ASSUME NEW p \in issued PROVE Content(p).packet = p
  BY DEF Content
<1>2. ASSUME NEW e \in Contents PROVE e.packet \in issued /\ e = Content(e.packet)
  BY <1>1 DEF Contents
<1>3. ASSUME NEW e \in Box!Opened
      PROVE  request.input \in issued /\ e = Content(request.input) /\ e.secret = request.secret
  <2>1. e \in Contents /\ e.packet = request.input /\ e.secret = request.secret
    BY DEF Box!Opened, Contents
  <2> QED BY <1>2, <2>1
<1> QED BY <1>1, <1>2, <1>3

\* Steps that begin or refuse a sealing, or make the packet.
LEMMA SealImplements ==
    ASSUME OneShotInvariant,
           CallSeal \/ BeginSeal \/ UpdateSeal \/ FinalizeSeal \/ Assemble
    PROVE  [Box!Next]_Box!vars
<1> USE DEF Seals, Opens, Returns, Throws, NoAnswer, None, Box!vars, Box!Seals, Box!Opens, Box!None, Box!NoAnswer
<1>k. Cardinality(issued) \in Nat
  BY FS_CardinalityType DEF OneShotInvariant, Issued
<1>1. CASE CallSeal
  <2>1. Box!Call
    BY <1>1 DEF CallSeal, Box!Call, OneShotInvariant, Control
  <2> QED BY <2>1 DEF Box!Next
<1>2. CASE BeginSeal
  <2>1. CASE request.secret \in LargeSecrets
    <3>1. Box!Refuse
      BY <1>2, <2>1 DEF BeginSeal, Box!Refuse, Box!Running, Box!TooLarge, Box!Error, OneShotInvariant, Control
    <3> QED BY <3>1 DEF Box!Next
  <2>2. CASE request.secret \notin LargeSecrets
    BY <1>2, <2>2 DEF BeginSeal
  <2> QED BY <2>1, <2>2
<1>3. CASE UpdateSeal
  <2>1. CASE ~WithinLimit(request.input)
    <3>1. Len(request.input) > IntMax
      <4>1. Len(request.input) \in Nat
        BY <1>3, MessagesAssumption DEF UpdateSeal, OneShotInvariant, Sealing
      <4> QED BY <2>1, <4>1, SizesAreCounts DEF WithinLimit
    <3>2. Box!Refuse
      BY <1>3, <2>1, <3>1 DEF UpdateSeal, Box!Refuse, Box!Running, Box!TooLarge, Box!Error, OneShotInvariant, Control
    <3> QED BY <3>2 DEF Box!Next
  <2>2. CASE WithinLimit(request.input)
    BY <1>3, <2>2 DEF UpdateSeal
  <2> QED BY <2>1, <2>2
<1>4. CASE FinalizeSeal
  BY <1>4 DEF FinalizeSeal
<1>5. CASE Assemble
  <2>1. /\ answer'.value = Packet(request.secret, request.input, Cardinality(issued))
        /\ request.secret \in Secrets \ LargeSecrets /\ request.input \in Messages
        /\ Len(request.input) <= IntMax
        /\ answer'.value \notin issued
    BY <1>5, AssembledIsNew
  <2>2. issued' = issued \cup {answer'.value} /\ OneShotInvariant'
    BY <1>5, AssembleStep DEF Assemble
  <2>3. Content(answer'.value) = [packet |-> answer'.value, secret |-> request.secret, message |-> request.input]
    BY <1>k, <2>1, PacketRead
  <2>4. Contents' = Contents \cup {Content(answer'.value)}
    BY <2>2 DEF Contents
  <2>5. answer'.value \notin {e.packet : e \in Contents}
    BY <2>1, OpenedPackets
  <2>6. ~Box!TooLarge
    <3>1. Len(request.input) \in Nat
      BY <2>1, MessagesAssumption
    <3> QED BY <2>1, <3>1, SizesAreCounts DEF Box!TooLarge
  <2>7. Box!Put
    <3>1. answer' = [kind |-> "packet", value |-> prefix \o ciphertext \o tag]
      BY <1>5 DEF Assemble
    <3>2. answer'.kind = "packet"
      BY <3>1
    <3>3. Box!Running /\ request.op \in Box!Seals /\ request' = request
      BY <1>5 DEF Assemble, Box!Running, OneShotInvariant, Control
    <3> QED BY <2>3, <2>4, <2>5, <2>6, <3>2, <3>3 DEF Box!Put, Contents
  <2> QED BY <2>7 DEF Box!Next
<1> QED BY <1>1, <1>2, <1>3, <1>4, <1>5

\* Steps that begin, refuse or end an opening.
LEMMA OpenImplements ==
    ASSUME OneShotInvariant,
           CallOpen \/ CutPacket \/ BeginOpen \/ UpdateOpen \/ FinalizeOpen
             \/ RejectOpen \/ RejectOpenPasses \/ CopyKey
    PROVE  [Box!Next]_Box!vars
<1> USE DEF Seals, Opens, Returns, Throws, NoAnswer, None, Box!vars, Box!Seals, Box!Opens, Box!None, Box!NoAnswer
<1>r. ASSUME pc # "idle", pc # "done" PROVE Box!Running
  BY <1>r DEF Box!Running, OneShotInvariant, Control
<1>n. ASSUME pc # "idle", pc # "done", request.op \in Opens, Box!Opened = {}, UNCHANGED <<issued, request>>,
             \/ Throws("invalid_packet") \/ Throws("authentication_failed") \/ Throws("invalid_input")
      PROVE  Box!Next
  BY <1>r, <1>n DEF Box!Next, Box!Reject, Box!Error
<1>f. ASSUME pc # "idle", pc # "done", UNCHANGED <<issued, request>>,
             Throws("backend_failure") \/ Throws("bad_alloc")
      PROVE  Box!Next
  BY <1>r, <1>f DEF Box!Next, Box!Fail, Box!Error
<1>o. ASSUME NEW e \in Box!Opened
      PROVE  /\ request.input \in issued /\ e = Content(request.input) /\ e.secret = request.secret
             /\ ValidPacket(request.input) /\ request.secret \notin LargeSecrets
             /\ Len(CiphertextOf(request.input)) <= IntMax
  <2>1. request.input \in issued /\ e = Content(request.input) /\ e.secret = request.secret
    BY OpenedPackets
  <2>2. PICK secret \in Secrets \ LargeSecrets, message \in Messages, n \in Nat :
            /\ ValidPacket(request.input) /\ Len(CiphertextOf(request.input)) <= IntMax
            /\ Content(request.input) = [packet |-> request.input, secret |-> secret, message |-> message]
    BY <2>1, IssuedPackets
  <2>3. Content(request.input).secret = secret
    BY <2>2
  <2> QED BY <2>1, <2>2, <2>3
<1>1. CASE CallOpen
  <2>1. Box!Call
    BY <1>1 DEF CallOpen, Box!Call, OneShotInvariant, Control
  <2> QED BY <2>1 DEF Box!Next
<1>2. CASE CutPacket
  <2>1. CASE ~ValidPacket(request.input)
    <3>1. Box!Opened = {}
      BY <1>o, <2>1
    <3> QED BY <1>2, <1>n, <2>1, <3>1 DEF CutPacket, OneShotInvariant, Control
  <2>2. CASE ValidPacket(request.input)
    BY <1>2, <2>2 DEF CutPacket
  <2> QED BY <2>1, <2>2
<1>3. CASE BeginOpen
  <2>1. CASE request.secret \in LargeSecrets
    <3>1. Box!Opened = {}
      BY <1>o, <2>1
    <3> QED BY <1>3, <1>n, <2>1, <3>1 DEF BeginOpen
  <2>2. CASE request.secret \notin LargeSecrets
    BY <1>3, <2>2 DEF BeginOpen
  <2> QED BY <2>1, <2>2
<1>4. CASE UpdateOpen
  <2>1. CASE ~WithinLimit(ciphertext)
    <3>1. ciphertext = CiphertextOf(request.input)
      BY <1>4 DEF UpdateOpen, OneShotInvariant, Opening
    <3>2. Box!Opened = {}
      BY <1>o, <2>1, <3>1 DEF WithinLimit
    <3> QED BY <1>4, <1>n, <2>1, <3>2 DEF UpdateOpen
  <2>2. CASE WithinLimit(ciphertext)
    BY <1>4, <2>2 DEF UpdateOpen
  <2> QED BY <2>1, <2>2
<1>5. CASE FinalizeOpen
  <2>1. CASE request.op = "decrypt"
    <3>1. /\ request.input \in issued
          /\ Content(request.input) = [packet |-> request.input, secret |-> request.secret, message |-> plaintext]
      BY <1>5, AuthenticIsIssued DEF FinalizeOpen
    <3>2. Content(request.input) \in Box!Opened
      BY <3>1 DEF Box!Opened
    <3>3. Content(request.input).message = plaintext
      BY <3>1
    <3>4. Box!Take
      BY <1>5, <1>r, <2>1, <3>2, <3>3 DEF FinalizeOpen, Box!Take
    <3> QED BY <3>4 DEF Box!Next
  <2>2. CASE request.op # "decrypt"
    BY <1>5, <2>2 DEF FinalizeOpen
  <2> QED BY <2>1, <2>2
<1>6. CASE RejectOpen
  <2>1. CASE ~Authentic /\ Throws("authentication_failed")
    <3>1. Box!Opened = {}
      BY <1>6, <1>o, <2>1, IssuedIsAuthentic DEF RejectOpen
    <3> QED BY <1>6, <1>n, <2>1, <3>1 DEF RejectOpen
  <2>2. CASE Throws("backend_failure")
    BY <1>6, <1>f, <2>2 DEF RejectOpen
  <2> QED BY <1>6, <2>1, <2>2 DEF RejectOpen
<1>7. CASE RejectOpenPasses
  BY <1>7, <1>f DEF RejectOpenPasses
<1>8. CASE CopyKey
  <2>1. request.op = "unwrap_key" /\ Authentic
    BY <1>8 DEF CopyKey, OneShotInvariant, Control, Opening
  <2>2. /\ request.input \in issued
        /\ Content(request.input) = [packet |-> request.input, secret |-> request.secret, message |-> plaintext]
    BY <1>8, <2>1, AuthenticIsIssued DEF CopyKey
  <2>3. Content(request.input) \in Box!Opened
    BY <2>2 DEF Box!Opened
  <2>4. Content(request.input).message = plaintext
    BY <2>2
  <2>5. Box!Take
    BY <1>8, <1>r, <2>1, <2>3, <2>4 DEF CopyKey, Box!Take, Box!Error
  <2> QED BY <2>5 DEF Box!Next
<1> QED BY <1>1, <1>2, <1>3, <1>4, <1>5, <1>6, <1>7, <1>8

\* However packets were damaged or put together from others, and wherever a call fails:
\* the one-shot calls are a run of the closed box.
THEOREM CallsKeepTheBox == Spec => KeepsBoxPromise
<1>1. Init => Box!Init
  BY DEF Init, None, NoAnswer, Box!Init, Box!None, Box!NoAnswer
<1>2. ASSUME OneShotInvariant, [Next]_vars PROVE [Box!Next]_Box!vars
  <2>1. CASE Fails
    <3>1. Box!Fail
      BY <1>2, <2>1
         DEF Fails, Throws, Returns, Box!Fail, Box!Running, Box!Error, Box!None, Box!NoAnswer,
             OneShotInvariant, Control, NoAnswer, Seals, Opens
    <3> QED BY <3>1 DEF Box!Next
  <2>2. CASE Leave
    <3>1. Box!Leave
      BY <1>2, <2>2 DEF Leave, None, NoAnswer, Box!Leave, Box!None, Box!NoAnswer, OneShotInvariant, Control
    <3> QED BY <3>1 DEF Box!Next
  <2>3. CASE UNCHANGED vars
    BY <2>3 DEF vars, Box!vars
  <2> QED BY <1>2, <2>1, <2>2, <2>3, SealImplements, OpenImplements DEF Next
<1> QED BY <1>1, <1>2, OneShotInvariantHolds, PTL DEF Spec, KeepsBoxPromise, Box!Spec
=============================================================================
