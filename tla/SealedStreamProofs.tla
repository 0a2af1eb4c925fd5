------------------------- MODULE SealedStreamProofs -------------------------
(***************************************************************************)
(* Proofs about the sealed stream for every chunk size, every width of the *)
(* record index, every length of the files and any amount of damage.       *)
(***************************************************************************)
EXTENDS SealedStream, SequenceTheorems, TLAPS

-----------------------------------------------------------------------------
(* The format, chunk by chunk.                                             *)

Positions == Files \X Nat
Bodies == Seq(Positions)

\* The k-th chunk of a file, whether it is the last one, and its record.
Begins(f, k) == k * ChunkSize < LengthOf(f) \/ k = 0
Last(f, k) == LengthOf(f) <= (k + 1) * ChunkSize
Piece(f, k) == SubSeq(Text(f), k * ChunkSize + 1, Smaller((k + 1) * ChunkSize, LengthOf(f)))
Genuine(f, k) == Record(Header(f), k, Piece(f, k), Last(f, k))

\* Below its limit the index does not wrap.
LEMMA NoWrap ==
    ASSUME NEW m \in Nat, NEW i \in 0 .. m, i # m
    PROVE  (i + 1) % (m + 1) = i + 1
OBVIOUS

\* Multiples of the chunk size.
LEMMA Multiples ==
    ASSUME NEW k \in Nat
    PROVE  /\ k * ChunkSize \in Nat /\ (k + 1) * ChunkSize = k * ChunkSize + ChunkSize
           /\ \A j \in Nat : j < k => (j + 1) * ChunkSize <= k * ChunkSize
BY SizeAssumption

\* A file is a sequence of positions.
LEMMA TextType ==
    ASSUME length \in Nat, NEW f \in Files
    PROVE  LengthOf(f) \in Nat /\ Text(f) \in Bodies /\ Len(Text(f)) = LengthOf(f)
<1>1. LengthOf(f) \in Nat
  BY LengthAssumption DEF LengthOf
<1>2. Text(f) \in [1 .. LengthOf(f) -> Positions]
  BY <1>1 DEF Text, Positions
<1> QED BY <1>1, <1>2, SeqDef, LenProperties DEF Bodies

\* How long a chunk is.
LEMMA PieceLength ==
    ASSUME length \in Nat, NEW f \in Files, NEW k \in Nat, Begins(f, k)
    PROVE  /\ Piece(f, k) \in Bodies
           /\ Len(Piece(f, k)) \in 0 .. ChunkSize
           /\ ~Last(f, k) => Len(Piece(f, k)) = ChunkSize
           /\ Last(f, k) => k * ChunkSize + Len(Piece(f, k)) = LengthOf(f)
<1> DEFINE m == k * ChunkSize   n == Smaller((k + 1) * ChunkSize, LengthOf(f))
<1>1. m \in Nat /\ (k + 1) * ChunkSize = m + ChunkSize /\ LengthOf(f) \in Nat /\ ChunkSize \in Nat \ {0}
  BY Multiples, TextType, SizeAssumption
<1>2. n \in Nat /\ n <= LengthOf(f) /\ n <= m + ChunkSize /\ m <= n
      /\ (Last(f, k) => n = LengthOf(f)) /\ (~Last(f, k) => n = m + ChunkSize)
  BY <1>1 DEF Smaller, Begins, Last
<1>3. Piece(f, k) = SubSeq(Text(f), m + 1, n)
  BY DEF Piece
<1> HIDE DEF m, n
<1>4. \A i \in m + 1 .. n : Text(f)[i] \in Positions
  BY <1>1, <1>2, TextType, ElementOfSeq DEF Bodies
<1>5. /\ SubSeq(Text(f), m + 1, n) \in Seq(Positions)
      /\ Len(SubSeq(Text(f), m + 1, n)) = IF m + 1 <= n THEN n - (m + 1) + 1 ELSE 0
  BY <1>1, <1>2, <1>4, SubSeqProperties
<1>6. Len(Piece(f, k)) = n - m
  BY <1>1, <1>2, <1>3, <1>5
<1> QED BY <1>1, <1>2, <1>3, <1>5, <1>6 DEF m, Bodies

\* A chunk continues what the chunks before it have given.
LEMMA PieceContinues ==
    ASSUME length \in Nat, NEW f \in Files, NEW k \in Nat, Begins(f, k)
    PROVE  SubSeq(Text(f), 1, k * ChunkSize) \o Piece(f, k)
               = SubSeq(Text(f), 1, Smaller((k + 1) * ChunkSize, LengthOf(f)))
<1> DEFINE m == k * ChunkSize   n == Smaller((k + 1) * ChunkSize, LengthOf(f))
<1>1. m \in Nat /\ (k + 1) * ChunkSize = m + ChunkSize /\ LengthOf(f) \in Nat /\ ChunkSize \in Nat \ {0}
  BY Multiples, TextType, SizeAssumption
<1>2. n \in Nat /\ n <= LengthOf(f) /\ m <= n
  BY <1>1 DEF Smaller, Begins
<1>3. Piece(f, k) = SubSeq(Text(f), m + 1, n) /\ Text(f) \in Seq(Positions) /\ Len(Text(f)) = LengthOf(f)
  BY TextType DEF Piece, Bodies
<1> HIDE DEF m, n
<1>4. SubSeq(Text(f), 1, m) \o SubSeq(Text(f), m + 1, n) = SubSeq(Text(f), 1, n)
  <2>1. 1 \in 1 .. Len(Text(f)) + 1 /\ m \in 1 - 1 .. Len(Text(f)) /\ n \in m .. Len(Text(f))
    BY <1>1, <1>2, <1>3
  <2> QED BY <2>1, <1>3, ConcatAdjacentSubSeq
<1> QED BY <1>3, <1>4 DEF m, n

\* The number of chunks: the last one is the first that reaches the end of the file.
LEMMA ChunkCount ==
    ASSUME length \in Nat, NEW f \in Files
    PROVE  /\ Chunks(LengthOf(f)) \in Nat \ {0}
           /\ \A k \in Nat : k < Chunks(LengthOf(f)) <=> Begins(f, k)
           /\ \A k \in Nat : Begins(f, k) => (Last(f, k) <=> k + 1 = Chunks(LengthOf(f)))
<1> DEFINE n == LengthOf(f)   q == (n + ChunkSize - 1) \div ChunkSize
<1>1. n \in Nat /\ ChunkSize \in Nat \ {0}
  BY TextType, SizeAssumption
<1>2. CASE n = 0
  <2>1. Chunks(n) = 1 /\ \A k \in Nat : k * ChunkSize >= 0
    BY <1>1, <1>2, Multiples DEF Chunks
  <2> QED BY <1>2, <2>1, <1>1, Multiples DEF Begins, Last
<1>3. CASE n # 0
  <2>1. q \in Nat /\ q * ChunkSize <= n + ChunkSize - 1 /\ n + ChunkSize - 1 < (q + 1) * ChunkSize
    BY <1>1
  <2>2. Chunks(n) = q
    BY <1>3 DEF Chunks
  <2> HIDE DEF q
  <2>3. q # 0 /\ n <= q * ChunkSize /\ q * ChunkSize < n + ChunkSize
    BY <1>1, <1>3, <2>1, Multiples
  <2>4. ASSUME NEW k \in Nat PROVE k < q <=> k * ChunkSize < n
    <3>1. k < q => (k + 1) * ChunkSize <= q * ChunkSize
      BY <2>1, Multiples
    <3>2. ~(k < q) => q * ChunkSize <= k * ChunkSize
      BY <2>1, Multiples, SizeAssumption
    <3> QED BY <1>1, <2>1, <2>3, <3>1, <3>2, Multiples
  <2>5. ASSUME NEW k \in Nat, k < q PROVE n <= (k + 1) * ChunkSize <=> k + 1 = q
    <3>1. k + 1 < q <=> (k + 1) * ChunkSize < n
      BY <2>4
    <3> QED BY <1>1, <2>1, <2>5, <3>1, Multiples
  <2> QED BY <1>1, <1>3, <2>1, <2>2, <2>3, <2>4, <2>5, Multiples DEF Begins, Last
<1> QED BY <1>2, <1>3

\* The container of a file is the sequence of the records of its chunks.
LEMMA ContainerRecords ==
    ASSUME length \in Nat, NEW f \in Files
    PROVE  /\ DOMAIN Container(f) = 1 .. Chunks(LengthOf(f))
           /\ \A k \in 1 .. Chunks(LengthOf(f)) : Container(f)[k] = Genuine(f, k - 1)
<1>1. Chunks(LengthOf(f)) \in Nat /\ ChunkSize \in Nat
  BY ChunkCount, SizeAssumption
<1>2. ASSUME NEW k \in 1 .. Chunks(LengthOf(f))
      PROVE  Container(f)[k] = Genuine(f, k - 1)
  <2>1. k - 1 \in Nat /\ (k - 1) + 1 = k /\ k - 1 < Chunks(LengthOf(f))
    BY <1>1
  <2>2. Last(f, k - 1) <=> k = Chunks(LengthOf(f))
    BY <2>1, ChunkCount
  <2>3. Last(f, k - 1) = (k = Chunks(LengthOf(f)))
    BY <2>2 DEF Last
  <2> QED BY <2>1, <2>3 DEF Container, Genuine, Piece
<1> QED BY <1>2 DEF Container

-----------------------------------------------------------------------------
(* What the channel can carry.                                             *)

Headers ==
    [type : {"header"}, magic : Kinds \cup {"damaged"}, salt : Files, prefix : {"prefix", "damaged"}]

Tags ==
    [key : BOOLEAN \X Kinds \X Files, nonce : {"prefix"} \X Nat,
     aad : Headers \X Nat \X Nat \X BOOLEAN \X BOOLEAN, text : Bodies]

Records ==
    [type : {"record"}, index : Nat, size : Nat, final : BOOLEAN, body : Bodies, tag : Tags]

\* The tag of a record is that of a chunk of some file, or was altered so that it is
\* longer than the record; the last record of the sealed file exists only when the
\* sealing call has returned ok.
Bound(r) ==
    \E f \in Files, k \in Nat :
        /\ Begins(f, k)
        /\ f = Sealed /\ Last(f, k) => sresult = "ok"
        /\ Len(r.body) = Len(Piece(f, k))
        /\ r.tag.key = FileKey(TRUE, Header(f)) /\ r.tag.nonce = Nonce(Header(f), k)
        /\ r.tag.aad = ChunkAad(Header(f), k, Len(Piece(f, k)), Last(f, k), TRUE)
        /\ r.tag.text = Piece(f, k) \/ Len(r.tag.text) > Len(r.body)

BoundRecords == {r \in Records : Bound(r)}

Units == Headers \cup BoundRecords \cup {Fragment}

\* What each kind of unit is.
LEMMA UnitKinds ==
    /\ Fragment.type = "fragment"
    /\ \A h \in Headers : h.type = "header"
    /\ \A r \in Records : r.type = "record"
    /\ \A u \in Units : /\ u.type = "header" => u \in Headers
                        /\ u.type = "record" => u \in BoundRecords
                        /\ u.type = "fragment" => u = Fragment
BY DEF Units, BoundRecords, Records, Headers, Fragment

\* The record of a chunk.
LEMMA GenuineRecord ==
    ASSUME length \in Nat, kind \in Kinds, NEW f \in Files, NEW k \in Nat, Begins(f, k)
    PROVE  /\ Header(f) \in Headers /\ Genuine(f, k) \in Records
           /\ Genuine(f, k).body = Piece(f, k) /\ Genuine(f, k).tag.text = Piece(f, k)
           /\ Genuine(f, k).tag.key = FileKey(TRUE, Header(f))
           /\ Genuine(f, k).tag.nonce = Nonce(Header(f), k)
           /\ Genuine(f, k).tag.aad = ChunkAad(Header(f), k, Len(Piece(f, k)), Last(f, k), TRUE)
<1>1. Header(f) \in Headers
  BY DEF Header, Headers
<1>2. Piece(f, k) \in Bodies /\ Len(Piece(f, k)) \in Nat /\ Last(f, k) \in BOOLEAN
  BY PieceLength, SizeAssumption DEF Last
<1>3. /\ FileKey(TRUE, Header(f)) \in BOOLEAN \X Kinds \X Files
      /\ Nonce(Header(f), k) \in {"prefix"} \X Nat
      /\ ChunkAad(Header(f), k, Len(Piece(f, k)), Last(f, k), TRUE)
             \in Headers \X Nat \X Nat \X BOOLEAN \X BOOLEAN
  BY <1>1, <1>2 DEF FileKey, Nonce, ChunkAad, Header
<1> DEFINE t == Tag(TRUE, Header(f), k, Len(Piece(f, k)), Last(f, k), Piece(f, k))
<1>4. /\ t \in Tags /\ t.key = FileKey(TRUE, Header(f)) /\ t.nonce = Nonce(Header(f), k)
      /\ t.aad = ChunkAad(Header(f), k, Len(Piece(f, k)), Last(f, k), TRUE) /\ t.text = Piece(f, k)
  BY <1>2, <1>3 DEF Tag, Tags
<1>5. Genuine(f, k) = [type |-> "record", index |-> k, size |-> Len(Piece(f, k)), final |-> Last(f, k),
                       body |-> Piece(f, k), tag |-> t]
  BY DEF Genuine, Record, t
<1> HIDE DEF t
<1>6. Genuine(f, k) \in Records /\ Genuine(f, k).body = Piece(f, k) /\ Genuine(f, k).tag = t
  BY <1>2, <1>4, <1>5 DEF Records
<1> QED BY <1>1, <1>4, <1>6

\* The header and the records of a file are such units.
LEMMA GenuineUnits ==
    ASSUME length \in Nat, kind \in Kinds, NEW f \in Files
    PROVE  /\ Header(f) \in Units
           /\ \A k \in Nat : Begins(f, k) /\ (f = Sealed /\ Last(f, k) => sresult = "ok")
                                => Genuine(f, k) \in Units
<1>1. Header(f) \in Headers
  BY DEF Header, Headers
<1>2. ASSUME NEW k \in Nat, Begins(f, k), f = Sealed /\ Last(f, k) => sresult = "ok"
      PROVE  Genuine(f, k) \in BoundRecords
  BY <1>2, GenuineRecord DEF BoundRecords, Bound
<1> QED BY <1>1, <1>2 DEF Units

\* Units of other files, and units with a field changed, are such units.
LEMMA OtherUnitsAreUnits ==
    ASSUME length \in Nat, kind \in Kinds
    PROVE  OtherUnits \subseteq Units
<1> SUFFICES ASSUME NEW u \in OtherUnits PROVE u \in Units
  OBVIOUS
<1>1. CASE u \in {Header(f) : f \in Files \ {Sealed}}
  BY <1>1, GenuineUnits
<1>2. ASSUME NEW f \in Files \ {Sealed}, NEW k \in DOMAIN Container(f), u = Container(f)[k]
      PROVE  u \in Units
  <2>1. k \in 1 .. Chunks(LengthOf(f)) /\ u = Genuine(f, k - 1) /\ Chunks(LengthOf(f)) \in Nat
    BY <1>2, ContainerRecords, ChunkCount
  <2>2. k - 1 \in Nat /\ Begins(f, k - 1)
    BY <2>1, ChunkCount
  <2> QED BY <2>1, <2>2, GenuineUnits
<1> QED BY <1>1, <1>2 DEF OtherUnits

LEMMA AlteredUnitsAreUnits ==
    ASSUME NEW u \in Units
    PROVE  Altered(u) \subseteq Units
<1>1. CASE u.type = "header"
  <2>1. u \in Headers
    BY <1>1, UnitKinds
  <2>2. \A v \in AlteredHeader(u) : v \in Headers
    BY <2>1 DEF AlteredHeader, Headers
  <2>3. Altered(u) = AlteredHeader(u)
    BY <1>1 DEF Altered
  <2> QED BY <2>2, <2>3 DEF Units
<1>2. CASE u.type = "record"
  <2>1. u \in Records /\ Bound(u)
    BY <1>2, UnitKinds DEF BoundRecords
  <2>2. Altered(u) = AlteredRecord(u)
    BY <1>2 DEF Altered
  <2>p. <<Sealed, 0>> \in Positions
    BY FilesAssumption DEF Positions
  <2>3. ASSUME NEW v \in AlteredRecord(u) PROVE v \in BoundRecords
    <3>1. ASSUME v \in Records, v.tag = u.tag, Len(v.body) = Len(u.body) PROVE v \in BoundRecords
      BY <2>1, <3>1 DEF BoundRecords, Bound
    <3>2. ASSUME NEW i \in Nat, v = [u EXCEPT !.index = i] PROVE v \in BoundRecords
      BY <2>1, <3>1, <3>2 DEF Records
    <3>3. ASSUME NEW i \in Nat, v = [u EXCEPT !.size = i] PROVE v \in BoundRecords
      BY <2>1, <3>1, <3>3 DEF Records
    <3>4. ASSUME v = [u EXCEPT !.final = ~@] PROVE v \in BoundRecords
      BY <2>1, <3>1, <3>4 DEF Records
    <3>5. ASSUME NEW k \in DOMAIN u.body, v = [u EXCEPT !.body[k] = <<Sealed, 0>>] PROVE v \in BoundRecords
      <4> DEFINE b == [u.body EXCEPT ![k] = <<Sealed, 0>>]
      <4>1. u.body \in Seq(Positions) /\ k \in 1 .. Len(u.body)
        BY <2>1, <3>5 DEF Records, Bodies
      <4>2. b \in Seq(Positions) /\ Len(b) = Len(u.body)
        BY <4>1, <2>p, ExceptSeq
      <4>3. v = [u EXCEPT !.body = b]
        BY <3>5
      <4> HIDE DEF b
      <4> QED BY <2>1, <3>1, <4>2, <4>3 DEF Records, Bodies
    <3>6. ASSUME v = [u EXCEPT !.tag.text = Append(@, <<Sealed, 0>>)] PROVE v \in BoundRecords
      <4> DEFINE t == [u.tag EXCEPT !.text = Append(u.tag.text, <<Sealed, 0>>)]
      <4>1. u.tag \in Tags /\ u.tag.text \in Seq(Positions)
        BY <2>1 DEF Records, Tags, Bodies
      <4>2. /\ Append(u.tag.text, <<Sealed, 0>>) \in Seq(Positions)
            /\ Len(Append(u.tag.text, <<Sealed, 0>>)) = Len(u.tag.text) + 1 /\ Len(u.tag.text) \in Nat
        BY <4>1, <2>p, AppendProperties
      <4>3. /\ t \in Tags /\ t.key = u.tag.key /\ t.nonce = u.tag.nonce /\ t.aad = u.tag.aad
            /\ Len(t.text) = Len(u.tag.text) + 1
        BY <4>1, <4>2 DEF Tags, Bodies
      <4>4. v = [u EXCEPT !.tag = t]
        BY <3>6
      <4> HIDE DEF t
      <4>5. v \in Records /\ v.tag = t /\ v.body = u.body /\ Len(u.body) \in Nat
        BY <2>1, <4>3, <4>4 DEF Records, Bodies
      <4>6. u.tag.text \in Bodies /\ Len(u.tag.text) >= Len(u.body)
        BY <2>1, <4>1, <4>2, <4>5 DEF Bound, Bodies
      <4>7. Len(v.tag.text) > Len(v.body)
        BY <4>2, <4>3, <4>5, <4>6
      <4> QED BY <2>1, <4>3, <4>5, <4>7 DEF BoundRecords, Bound
    <3> QED BY <3>2, <3>3, <3>4, <3>5, <3>6, SizeAssumption DEF AlteredRecord
  <2> QED BY <2>2, <2>3 DEF Units
<1>3. CASE u.type # "header" /\ u.type # "record"
  BY <1>3 DEF Altered
<1> QED BY <1>1, <1>2, <1>3

\* Losing, repeating, moving, inserting and replacing leaves a sequence of such units.
LEMMA DamagedWires ==
    ASSUME length \in Nat, kind \in Kinds, wire \in Seq(Units), NEW i \in DOMAIN wire, NEW w \in Damaged(i)
    PROVE  w \in Seq(Units)
<1>1. /\ i \in 1 .. Len(wire) /\ Len(wire) \in Nat /\ wire[i] \in Units
      /\ \A j \in 1 .. Len(wire) : wire[j] \in Units
  BY ElementOfSeq
<1>2. \A m, n \in Int : 1 <= m /\ n <= Len(wire) => SubSeq(wire, m, n) \in Seq(Units)
  <2> SUFFICES ASSUME NEW m \in Int, NEW n \in Int, 1 <= m, n <= Len(wire)
               PROVE  SubSeq(wire, m, n) \in Seq(Units)
    OBVIOUS
  <2>1. \A j \in m .. n : wire[j] \in Units
    BY <1>1
  <2> QED BY <2>1, SubSeqProperties
<1>3. \A s, t \in Seq(Units) : s \o t \in Seq(Units)
  BY ConcatProperties
<1>4. \A u \in Units : <<u>> \in Seq(Units)
  OBVIOUS
<1>5. Fragment \in Units /\ OtherUnits \subseteq Units /\ Altered(wire[i]) \subseteq Units
  BY <1>1, OtherUnitsAreUnits, AlteredUnitsAreUnits DEF Units
<1>6. /\ SubSeq(wire, 1, i - 1) \in Seq(Units) /\ SubSeq(wire, i + 1, Len(wire)) \in Seq(Units)
      /\ SubSeq(wire, i, Len(wire)) \in Seq(Units) /\ SubSeq(wire, 1, i) \in Seq(Units)
  BY <1>1, <1>2
<1>7. Without(wire, i) \in Seq(Units) /\ \A u \in Units : With(wire, i, u) \in Seq(Units)
  BY <1>3, <1>4, <1>6 DEF Without, With
<1>8. \A u \in Units : [wire EXCEPT ![i] = u] \in Seq(Units)
  BY <1>1, ExceptSeq
<1>9. Append(Without(wire, i), wire[i]) \in Seq(Units) /\ SubSeq(wire, 1, i - 1) \o <<Fragment>> \in Seq(Units)
  BY <1>1, <1>3, <1>4, <1>5, <1>6, <1>7, AppendProperties
<1>a. CASE w \in {Without(wire, i), SubSeq(wire, 1, i), SubSeq(wire, 1, i - 1) \o <<Fragment>>,
                  With(wire, i, wire[i]), Append(Without(wire, i), wire[i])}
  BY <1>1, <1>6, <1>7, <1>9, <1>a
<1>b. CASE w \in {With(wire, i, u) : u \in OtherUnits \cup {Fragment}}
  BY <1>5, <1>7, <1>b
<1>c. CASE w \in {[wire EXCEPT ![i] = u] : u \in OtherUnits \cup Altered(wire[i])}
  BY <1>5, <1>8, <1>c
<1> QED BY <1>a, <1>b, <1>c DEF Damaged

-----------------------------------------------------------------------------
(* Types, and the two calls.                                               *)

\* The channel carries units; the record that the opening call works on is one of them.
Carries ==
    /\ length \in Nat /\ kind \in Kinds
    /\ wire \in Seq(Units)
    /\ sent \in Seq(Records)
    /\ plain \in Bodies
    /\ current \in BoundRecords \cup {Fragment}

\* The sealing call has written the records of the chunks it has read, in their order.
Seals ==
    /\ \A k \in 1 .. Len(sent) : sent[k] = Genuine(Sealed, k - 1)
    /\ Len(sent) <= MaxIndex + 1
    /\ spc \in {"header", "read"} =>
          /\ sresult = "none" /\ ~closed
          /\ index = Len(sent) /\ taken = index * ChunkSize /\ Begins(Sealed, index)
    /\ closed => spc = "done"
    /\ sresult = "ok" => spc = "done" /\ Len(sent) = Chunks(length)
    /\ sresult = "invalid_input" => length > Capacity
    /\ sresult \notin {"ok", "invalid_input"} => Len(sent) < Chunks(length)

\* The opening call has written the chunks that it has counted, of the file whose header
\* it has parsed, and decrypts a final record only at the end of the stream.
Opens ==
    /\ opc # "done" => oresult = "none"
    /\ opc = "header" => plain = <<>> /\ expected = 0
    /\ opc \in {"record", "trailing", "decrypt"} =>
          /\ header.magic = expects
          /\ \/ plain = <<>> /\ expected = 0
             \/ /\ secret
                /\ \E f \in Files : /\ header = Header(f) /\ Begins(f, expected)
                                    /\ plain = SubSeq(Text(f), 1, expected * ChunkSize)
    /\ opc \in {"trailing", "decrypt"} =>
          current \in BoundRecords /\ current.index = expected /\ current.size = Len(current.body)
    /\ opc = "trailing" => current.final
    /\ opc = "decrypt" => (current.final => AtEnd)

\* One step leaves the format of every file as it is.
LEMMA FormatStays ==
    ASSUME UNCHANGED <<kind, length>>
    PROVE  /\ \A f \in Files : /\ Header(f)' = Header(f) /\ Text(f)' = Text(f) /\ LengthOf(f)' = LengthOf(f)
                               /\ \A k \in Nat : /\ Piece(f, k)' = Piece(f, k) /\ Genuine(f, k)' = Genuine(f, k)
                                                 /\ Begins(f, k)' = Begins(f, k) /\ Last(f, k)' = Last(f, k)
<1>1. ASSUME NEW f \in Files
      PROVE  Header(f)' = Header(f) /\ Text(f)' = Text(f) /\ LengthOf(f)' = LengthOf(f)
  BY DEF Header, Text, LengthOf
<1>2. ASSUME NEW f \in Files, NEW k \in Nat
      PROVE  /\ Piece(f, k)' = Piece(f, k)
             /\ Begins(f, k)' = Begins(f, k) /\ Last(f, k)' = Last(f, k)
  BY <1>1 DEF Piece, Begins, Last
<1>3. ASSUME NEW f \in Files, NEW k \in Nat PROVE Genuine(f, k)' = Genuine(f, k)
  BY <1>1, <1>2 DEF Genuine, Record, Tag, FileKey, Nonce, ChunkAad
<1> QED BY <1>1, <1>2, <1>3

\* What the channel may carry stays what it may carry.
LEMMA UnitsStay ==
    ASSUME UNCHANGED <<kind, length>>, sresult = "ok" => sresult' = "ok"
    PROVE  BoundRecords \subseteq BoundRecords' /\ Units \subseteq Units'
<1>1. ASSUME NEW r \in Records, Bound(r) PROVE Bound(r)'
  <2>1. PICK f \in Files, k \in Nat :
            /\ Begins(f, k)
            /\ f = Sealed /\ Last(f, k) => sresult = "ok"
            /\ Len(r.body) = Len(Piece(f, k))
            /\ r.tag.key = FileKey(TRUE, Header(f)) /\ r.tag.nonce = Nonce(Header(f), k)
            /\ r.tag.aad = ChunkAad(Header(f), k, Len(Piece(f, k)), Last(f, k), TRUE)
            /\ r.tag.text = Piece(f, k) \/ Len(r.tag.text) > Len(r.body)
    BY <1>1 DEF Bound
  <2>2. /\ Header(f)' = Header(f) /\ Piece(f, k)' = Piece(f, k)
        /\ Begins(f, k)' = Begins(f, k) /\ Last(f, k)' = Last(f, k)
    BY FormatStays
  <2>3. /\ FileKey(TRUE, Header(f))' = FileKey(TRUE, Header(f))
        /\ Nonce(Header(f), k)' = Nonce(Header(f), k)
        /\ ChunkAad(Header(f), k, Len(Piece(f, k)), Last(f, k), TRUE)'
               = ChunkAad(Header(f), k, Len(Piece(f, k)), Last(f, k), TRUE)
    BY <2>2 DEF FileKey, Nonce, ChunkAad
  <2> QED BY <2>1, <2>2, <2>3 DEF Bound
<1> QED BY <1>1 DEF BoundRecords, Units

\* The record of a chunk may be on the channel after the step that writes it.
LEMMA NewRecord ==
    ASSUME length \in Nat, kind \in Kinds, UNCHANGED <<kind, length>>,
           NEW f \in Files, NEW k \in Nat, Begins(f, k), f = Sealed /\ Last(f, k) => sresult' = "ok"
    PROVE  Genuine(f, k) \in BoundRecords' /\ Genuine(f, k) \in Units'
<1>1. /\ Header(f)' = Header(f) /\ Piece(f, k)' = Piece(f, k) /\ Genuine(f, k)' = Genuine(f, k)
      /\ Begins(f, k)' = Begins(f, k) /\ Last(f, k)' = Last(f, k)
  BY FormatStays
<1> DEFINE r == Genuine(f, k)
<1>2. /\ r \in Records /\ r.body = Piece(f, k) /\ r.tag.text = Piece(f, k)
      /\ r.tag.key = FileKey(TRUE, Header(f)) /\ r.tag.nonce = Nonce(Header(f), k)
      /\ r.tag.aad = ChunkAad(Header(f), k, Len(Piece(f, k)), Last(f, k), TRUE)
  BY GenuineRecord
<1>3. r' = r
  BY <1>1
<1> HIDE DEF r
<1>4. /\ FileKey(TRUE, Header(f))' = FileKey(TRUE, Header(f))
      /\ Nonce(Header(f), k)' = Nonce(Header(f), k)
      /\ ChunkAad(Header(f), k, Len(Piece(f, k)), Last(f, k), TRUE)'
             = ChunkAad(Header(f), k, Len(Piece(f, k)), Last(f, k), TRUE)
  BY <1>1 DEF FileKey, Nonce, ChunkAad
<1>5. Bound(r)'
  BY <1>1, <1>2, <1>3, <1>4 DEF Bound
<1>6. r \in BoundRecords'
  BY <1>2, <1>3, <1>5 DEF BoundRecords
<1> QED BY <1>6 DEF Units, r

\* The strengthening of the properties, inductive together with them.
StreamInvariant == TypeOK /\ Carries /\ Seals /\ Opens /\ WritesOnlyPrefixes /\ OkIsWhole

\* No call has begun.
LEMMA StreamInit == Init => StreamInvariant
<1> SUFFICES ASSUME Init PROVE StreamInvariant
  OBVIOUS
<1> USE DEF Init
<1>0. length \in Nat /\ MaxIndex \in Nat /\ ChunkSize \in Nat \ {0} /\ (MaxIndex + 1) * ChunkSize \in Nat
  <2>1. MaxIndex + 1 \in Nat
    BY SizeAssumption
  <2> QED BY <2>1, LengthAssumption, SizeAssumption, Multiples
<1>1. TypeOK
  <2>1. Capacity \in Nat /\ Len(sent) = 0 /\ Len(plain) = 0
    BY <1>0 DEF Capacity
  <2>2. taken \in 0 .. length /\ index \in 0 .. MaxIndex /\ expected \in 0 .. MaxIndex /\ edits \in 0 .. MaxEdits[length]
    <3>1. MaxEdits[length] \in Nat
      BY EditsAssumption
    <3> QED BY <1>0, <3>1
  <2>3. Len(sent) \in 0 .. MaxIndex + 1 /\ Len(plain) \in 0 .. Capacity
    BY <1>0, <2>1
  <2>4. sresult \in Results /\ oresult \in Results /\ closed \in BOOLEAN
    BY DEF Results, Errors
  <2> QED BY <2>2, <2>3, <2>4 DEF TypeOK
<1>2. Carries
  BY <1>0 DEF Carries, Bodies
<1>3. Seals
  <2>1. 0 * ChunkSize = 0 /\ 0 < Chunks(length)
    BY <1>0, ChunkCount, FilesAssumption DEF LengthOf
  <2> QED BY <1>0, <2>1 DEF Seals, Begins
<1>4. Opens
  BY DEF Opens
<1> QED BY <1>1, <1>2, <1>3, <1>4 DEF StreamInvariant, WritesOnlyPrefixes, OkIsWhole

\* What the opener has is not disturbed by a step of the sealer.
LEMMA OpenerUndisturbed ==
    ASSUME StreamInvariant, UNCHANGED call, UNCHANGED opener, sresult = "ok" => sresult' = "ok",
           AtEnd => AtEnd'
    PROVE  Opens' /\ WritesOnlyPrefixes' /\ OkIsWhole'
<1> USE FormatStays DEF StreamInvariant, call, opener
<1>1. BoundRecords \subseteq BoundRecords'
  BY UnitsStay
<1>2. Opens'
  <2>1. expected \in Nat
    BY SizeAssumption DEF TypeOK
  <2> QED BY <1>1, <2>1 DEF Opens
<1>3. WritesOnlyPrefixes'
  BY DEF WritesOnlyPrefixes, IsPrefixOf
<1>4. OkIsWhole'
  BY DEF OkIsWhole
<1> QED BY <1>2, <1>3, <1>4

\* The chunk that the sealing call reads is the next one of the file.
LEMMA NextChunk ==
    ASSUME StreamInvariant, spc = "read"
    PROVE  /\ ChunkRead = Piece(Sealed, index)
           /\ IsFinal(ChunkRead) = Last(Sealed, index)
           /\ Record(Header(Sealed), index, ChunkRead, IsFinal(ChunkRead)) = Genuine(Sealed, index)
<1>1. /\ index \in Nat /\ taken = index * ChunkSize /\ Begins(Sealed, index) /\ Sealed \in Files
      /\ length \in Nat /\ LengthOf(Sealed) = length /\ ChunkSize \in Nat \ {0}
      /\ (index + 1) * ChunkSize = taken + ChunkSize /\ taken \in Nat
  BY FilesAssumption, SizeAssumption, Multiples DEF StreamInvariant, TypeOK, Carries, Seals, LengthOf
<1>2. ChunkRead = Piece(Sealed, index)
  BY <1>1 DEF ChunkRead, Piece
<1>3. IsFinal(ChunkRead) <=> Last(Sealed, index)
  BY <1>1, <1>2, PieceLength DEF IsFinal, Last
<1>4. IsFinal(ChunkRead) = Last(Sealed, index)
  BY <1>3 DEF IsFinal, Last
<1> QED BY <1>2, <1>4 DEF Genuine

\* A step of the sealing call.
LEMMA SealStep ==
    ASSUME StreamInvariant,
           SealHeader \/ SealHeaderFails \/ SealChunk \/ SealChunkFails \/ CloseStream
    PROVE  StreamInvariant'
<1>0. /\ length \in Nat /\ kind \in Kinds /\ MaxIndex \in Nat /\ ChunkSize \in Nat \ {0}
      /\ index \in 0 .. MaxIndex /\ taken \in 0 .. length /\ LengthOf(Sealed) = length /\ Sealed \in Files
      /\ wire \in Seq(Units) /\ sent \in Seq(Records) /\ Fragment \in Units
  BY SizeAssumption, FilesAssumption DEF StreamInvariant, TypeOK, Carries, LengthOf, Units
<1>1. UNCHANGED call /\ UNCHANGED opener /\ edits' = edits
  <2>1. CASE SealHeader
    BY <2>1 DEF SealHeader
  <2>2. CASE SealHeaderFails \/ SealChunkFails
    BY <2>2 DEF SealHeaderFails, SealChunkFails
  <2>3. CASE SealChunk
    BY <2>3 DEF SealChunk
  <2>4. CASE CloseStream
    BY <2>4 DEF CloseStream
  <2> QED BY <2>1, <2>2, <2>3, <2>4
<1>2. sresult = "ok" => sresult' = "ok"
  BY DEF StreamInvariant, Seals, SealHeader, SealHeaderFails, SealChunk, SealChunkFails, CloseStream, sealer
<1>3. ~AtEnd
  BY DEF StreamInvariant, Seals, AtEnd, SealHeader, SealHeaderFails, SealChunk, SealChunkFails, CloseStream
<1>4. Opens' /\ WritesOnlyPrefixes' /\ OkIsWhole'
  BY <1>1, <1>2, <1>3, OpenerUndisturbed
<1>5. BoundRecords \subseteq BoundRecords' /\ Units \subseteq Units'
  BY <1>1, <1>2, UnitsStay DEF call
<1>6. Seq(Units) \subseteq Seq(Units')
  BY <1>5, SeqMonotonic
<1> USE DEF StreamInvariant
<1>7. CASE SealHeader
  <2>1. Header(Sealed) \in Units
    BY <1>0, GenuineUnits
  <2>2. wire' \in Seq(Units)
    BY <1>0, <1>7, <2>1, AppendProperties DEF SealHeader
  <2>3. TypeOK' /\ Carries'
    BY <1>0, <1>1, <1>5, <1>6, <1>7, <2>2 DEF SealHeader, TypeOK, Carries, call, opener
  <2>4. Seals'
    BY <1>0, <1>1, <1>7, FormatStays DEF SealHeader, Seals, call
  <2> QED BY <1>4, <2>3, <2>4
<1>8. CASE SealHeaderFails \/ SealChunkFails
  <2>0. Append(wire, Fragment) \in Seq(Units)
    BY <1>0, AppendProperties
  <2>1. wire' \in Seq(Units)
    BY <1>0, <1>8, <2>0 DEF SealHeaderFails, SealChunkFails
  <2>2. TypeOK' /\ Carries'
    BY <1>0, <1>1, <1>5, <1>6, <1>8, <2>1
       DEF SealHeaderFails, SealChunkFails, SealReturns, TypeOK, Carries, call, opener, Results, Errors
  <2>3. Seals'
    BY <1>0, <1>1, <1>8, FormatStays DEF SealHeaderFails, SealChunkFails, SealReturns, Seals, call
  <2> QED BY <1>4, <2>2, <2>3
<1>9. CASE CloseStream
  <2>1. TypeOK' /\ Carries'
    BY <1>0, <1>1, <1>5, <1>6, <1>9 DEF CloseStream, TypeOK, Carries, call, opener, sealer
  <2>2. Seals'
    BY <1>0, <1>1, <1>9, FormatStays DEF CloseStream, Seals, call, sealer
  <2> QED BY <1>4, <2>1, <2>2
<1>a. CASE SealChunk
  <2> DEFINE r == Genuine(Sealed, index)
  <2>1. /\ spc = "read" /\ ChunkRead = Piece(Sealed, index) /\ IsFinal(ChunkRead) = Last(Sealed, index)
        /\ wire' = Append(wire, r) /\ sent' = Append(sent, r)
    BY <1>a, NextChunk DEF SealChunk
  <2>2. /\ index = Len(sent) /\ taken = index * ChunkSize /\ Begins(Sealed, index) /\ sresult = "none" /\ ~closed
        /\ index \in Nat
    BY <1>0, <2>1 DEF Seals
  <2>3. /\ taken' = taken + Len(Piece(Sealed, index)) /\ index' = (index + 1) % (MaxIndex + 1)
        /\ closed' = closed
        /\ \/ Last(Sealed, index) /\ spc' = "done" /\ sresult' = "ok"
           \/ ~Last(Sealed, index) /\ index = MaxIndex /\ spc' = "done" /\ sresult' = "invalid_input"
           \/ ~Last(Sealed, index) /\ index # MaxIndex /\ spc' = spc /\ sresult' = sresult
    BY <1>a, <2>1 DEF SealChunk, SealReturns, TooLarge
  <2>4. r \in Records /\ r \in BoundRecords' /\ r \in Units'
    <3>1. Sealed = Sealed /\ Last(Sealed, index) => sresult' = "ok"
      BY <2>3
    <3> QED BY <1>0, <1>1, <2>2, <3>1, GenuineRecord, NewRecord DEF call
  <2>5. wire' \in Seq(Units') /\ sent' \in Seq(Records) /\ Len(sent') = Len(sent) + 1
        /\ (\A k \in 1 .. Len(sent) : sent'[k] = sent[k]) /\ sent'[Len(sent) + 1] = r
    <3>1. wire \in Seq(Units')
      BY <1>0, <1>6
    <3> HIDE DEF r
    <3> QED BY <1>0, <2>1, <2>4, <3>1, AppendProperties
  <2>6. /\ Len(Piece(Sealed, index)) \in Nat /\ (index + 1) * ChunkSize = taken + ChunkSize
        /\ Last(Sealed, index) <=> length <= (index + 1) * ChunkSize
        /\ Last(Sealed, index) => taken + Len(Piece(Sealed, index)) = length
        /\ ~Last(Sealed, index) => Len(Piece(Sealed, index)) = ChunkSize
    <3>1. /\ Len(Piece(Sealed, index)) \in 0 .. ChunkSize
          /\ Last(Sealed, index) => index * ChunkSize + Len(Piece(Sealed, index)) = LengthOf(Sealed)
          /\ ~Last(Sealed, index) => Len(Piece(Sealed, index)) = ChunkSize
      BY <1>0, <2>2, PieceLength
    <3>2. (index + 1) * ChunkSize = index * ChunkSize + ChunkSize
      BY <2>2, Multiples
    <3>3. Last(Sealed, index) <=> length <= (index + 1) * ChunkSize
      BY <1>0 DEF Last
    <3>4. Len(Piece(Sealed, index)) \in Nat /\ Len(Piece(Sealed, index)) <= ChunkSize
      BY <1>0, <3>1, SizeAssumption
    <3>5. index * ChunkSize = taken /\ LengthOf(Sealed) = length
      BY <1>0, <2>2
    <3>6. (index + 1) * ChunkSize = taken + ChunkSize
      BY <3>2, <3>5
    <3>7. /\ Last(Sealed, index) => taken + Len(Piece(Sealed, index)) = length
          /\ ~Last(Sealed, index) => Len(Piece(Sealed, index)) = ChunkSize
      BY <3>1, <3>5
    <3> QED BY <3>3, <3>4, <3>6, <3>7
  <2>7. index # MaxIndex => index' = index + 1
    <3>1. MaxIndex \in Nat /\ index \in 0 .. MaxIndex
      BY <1>0, SizeAssumption
    <3>2. index # MaxIndex => (index + 1) % (MaxIndex + 1) = index + 1
      BY <3>1, NoWrap
    <3> QED BY <2>3, <3>2
  <2>8. index' \in 0 .. MaxIndex /\ taken' \in 0 .. length
    BY <1>0, <2>3, <2>6
  <2>9. TypeOK'
    <3>1. Len(sent') \in 0 .. MaxIndex + 1
      BY <1>0, <2>2, <2>5
    <3>2. UNCHANGED <<kind, length, secret, expects, closed, edits, opc, oresult, expected, plain>>
          /\ spc' \in {"read", "done"} /\ sresult' \in Results
      BY <1>1, <2>1, <2>2, <2>3 DEF call, opener, Results, Errors
    <3> QED BY <2>8, <3>1, <3>2 DEF TypeOK, Capacity
  <2>a. Carries'
    BY <1>1, <1>5, <2>5 DEF Carries, call, opener
  <2>b. Seals'
    <3>1. ASSUME NEW k \in 1 .. Len(sent') PROVE sent'[k] = Genuine(Sealed, k - 1)'
      <4>1. k - 1 \in Nat /\ Genuine(Sealed, k - 1)' = Genuine(Sealed, k - 1)
        <5>1. k - 1 \in Nat
          BY <1>0, <2>5
        <5>2. \A j \in Nat : Genuine(Sealed, j)' = Genuine(Sealed, j)
          BY <1>0, <1>1, FormatStays DEF call
        <5> QED BY <5>1, <5>2
      <4>2. CASE k <= Len(sent)
        BY <1>0, <2>5, <4>1, <4>2 DEF Seals
      <4>3. CASE k = Len(sent) + 1
        <5>1. k - 1 = index
          BY <1>0, <2>2, <4>3
        <5> QED BY <2>5, <4>1, <4>3, <5>1
      <4> QED BY <1>0, <2>5, <4>2, <4>3
    <3>2. Len(sent') <= MaxIndex + 1
      BY <1>0, <2>2, <2>5
    <3>3. CASE Last(Sealed, index)
      <4>1. Len(sent') = Chunks(length)
        BY <1>0, <2>2, <2>5, <3>3, ChunkCount
      <4> QED BY <1>1, <2>3, <3>1, <3>2, <3>3, <4>1 DEF Seals, call, Chunks
    <3>4. CASE ~Last(Sealed, index)
      <4>1. (index + 1) * ChunkSize < length
        BY <1>0, <2>6, <3>4
      <4>2. Begins(Sealed, index + 1) /\ index + 1 < Chunks(length)
        BY <1>0, <4>1, ChunkCount DEF Begins
      <4>3. index = MaxIndex => length > Capacity
        BY <4>1 DEF Capacity
      <4>4. index # MaxIndex => index' = Len(sent') /\ taken' = index' * ChunkSize /\ Begins(Sealed, index')
        BY <1>0, <2>2, <2>3, <2>5, <2>6, <2>7, <3>4, <4>2
      <4>5. index # MaxIndex => Begins(Sealed, index)'
        BY <1>1, <4>4 DEF Begins, LengthOf, call
      <4>6. Chunks(length)' = Chunks(length) /\ Capacity' = Capacity /\ length' = length
        BY <1>1 DEF Chunks, Capacity, call
      <4>7. CASE index = MaxIndex
        BY <2>2, <2>3, <3>1, <3>2, <3>4, <4>3, <4>6, <4>7 DEF Seals
      <4>8. CASE index # MaxIndex
        BY <1>0, <2>1, <2>2, <2>3, <2>5, <3>1, <3>2, <3>4, <4>2, <4>4, <4>5, <4>6, <4>8 DEF Seals
      <4> QED BY <4>7, <4>8
    <3> QED BY <3>3, <3>4
  <2> QED BY <1>4, <2>9, <2>a, <2>b
<1> QED BY <1>7, <1>8, <1>9, <1>a

\* What a step of the opener or of the channel leaves of the sealer's part.
LEMMA SealerUndisturbed ==
    ASSUME StreamInvariant, UNCHANGED call, UNCHANGED sealer, UNCHANGED closed
    PROVE  /\ Seals' /\ BoundRecords \subseteq BoundRecords' /\ Units \subseteq Units'
           /\ Seq(Units) \subseteq Seq(Units')
<1> USE DEF StreamInvariant, call, sealer
<1>1. BoundRecords \subseteq BoundRecords' /\ Units \subseteq Units'
  BY UnitsStay
<1>2. Seals'
  <2>1. \A k \in 1 .. Len(sent) : k - 1 \in Nat
    BY DEF TypeOK
  <2>2. Sealed \in Files /\ index \in Nat
    BY FilesAssumption, SizeAssumption DEF TypeOK
  <2>3. /\ \A k \in 1 .. Len(sent) : Genuine(Sealed, k - 1)' = Genuine(Sealed, k - 1)
        /\ Begins(Sealed, index)' = Begins(Sealed, index)
    BY <2>1, <2>2, FormatStays
  <2>4. Chunks(length)' = Chunks(length) /\ Capacity' = Capacity
    BY DEF Chunks, Capacity
  <2> QED BY <2>3, <2>4 DEF Seals
<1> QED BY <1>1, <1>2, SeqMonotonic

\* A failure of the opening call, or the end of its reading, changes what it has not.
LEMMA OpenGivesUp ==
    ASSUME StreamInvariant, NEW result \in Errors, OpenReturns(result), opc # "done",
           UNCHANGED <<call, sealer, closed, edits, header, expected, current, plain>>,
           wire' \in Seq(Units)
    PROVE  StreamInvariant'
<1> USE DEF StreamInvariant
<1>1. Seals' /\ BoundRecords \subseteq BoundRecords' /\ Seq(Units) \subseteq Seq(Units')
  BY SealerUndisturbed
<1>2. result # "ok" /\ result \in Results /\ opc' = "done" /\ oresult' = result /\ oresult = "none"
  BY DEF Errors, Results, OpenReturns, Opens
<1>3. UNCHANGED <<kind, length, secret, expects, spc, sresult, taken, index, sent>>
  BY DEF call, sealer
<1>4. TypeOK'
  BY <1>2, <1>3 DEF TypeOK, Capacity
<1>5. Carries'
  BY <1>1, <1>3 DEF Carries
<1>6. Opens'
  BY <1>2 DEF Opens
<1>7. WritesOnlyPrefixes'
  BY <1>2, <1>3, FormatStays DEF WritesOnlyPrefixes, IsPrefixOf
<1>8. OkIsWhole'
  BY <1>2 DEF OkIsWhole
<1> QED BY <1>1, <1>4, <1>5, <1>6, <1>7, <1>8

\* The opening call reads a header or a record, or looks for the end of the stream.
LEMMA ReadStep ==
    ASSUME StreamInvariant,
           ReadHeader \/ ReadEnds \/ ReadRecord \/ RejectTrailing \/ RejectChunk \/ OpenFails
    PROVE  StreamInvariant'
<1>0. wire \in Seq(Units) /\ (wire # <<>> => Tail(wire) \in Seq(Units) /\ Head(wire) \in Units)
  BY HeadTailProperties DEF StreamInvariant, Carries
<1>1. ASSUME NEW result \in Errors, OpenReturns(result), opc # "done",
             UNCHANGED <<call, sealer, closed, edits, header, expected, current, plain>>,
             wire' \in Seq(Units)
      PROVE  StreamInvariant'
  BY <1>1, OpenGivesUp
<1>2. ASSUME opc \in {"header", "record", "trailing"}, UNCHANGED <<call, sealer, closed, edits>>,
             wire' \in Seq(Units), UNCHANGED <<oresult, expected, plain>>, Opens',
             current' \in BoundRecords \cup {Fragment},
             opc' \in {"record", "trailing", "decrypt"},
             header' = header \/ plain = <<>>
      PROVE  StreamInvariant'
  <2> USE DEF StreamInvariant
  <2>1. Seals' /\ BoundRecords \subseteq BoundRecords' /\ Seq(Units) \subseteq Seq(Units')
    BY <1>2, SealerUndisturbed
  <2>2. UNCHANGED <<kind, length, secret, expects, spc, sresult, taken, index, sent>> /\ oresult = "none"
    BY <1>2 DEF call, sealer, Opens
  <2>3. TypeOK'
    BY <1>2, <2>2 DEF TypeOK, Capacity
  <2>4. Carries'
    BY <1>2, <2>1, <2>2 DEF Carries
  <2>5. WritesOnlyPrefixes'
    BY <1>2, <2>2, FormatStays DEF WritesOnlyPrefixes, IsPrefixOf
  <2>6. OkIsWhole'
    BY <1>2, <2>2 DEF OkIsWhole
  <2> QED BY <1>2, <2>1, <2>3, <2>4, <2>5, <2>6
<1>s. "invalid_packet" \in Errors /\ "authentication_failed" \in Errors /\ "backend_failure" \in Errors
  BY DEF Errors
<1>c. current \in BoundRecords \cup {Fragment}
  BY DEF StreamInvariant, Carries
<1>o. ASSUME UNCHANGED call, UNCHANGED sealer
      PROVE  /\ BoundRecords \subseteq BoundRecords'
             /\ \A f \in Files : /\ Header(f)' = Header(f) /\ Text(f)' = Text(f)
                                 /\ Begins(f, expected)' = Begins(f, expected')
  <2>1. BoundRecords \subseteq BoundRecords'
    BY <1>o, UnitsStay DEF call, sealer
  <2>2. UNCHANGED <<kind, length>>
    BY <1>o DEF call
  <2> QED BY <2>1, <2>2, FormatStays DEF Begins, LengthOf
<1>3. CASE ReadHeader
  <2>1. CASE Head(wire).type = "header" /\ Head(wire).magic = expects
    <3>1. Opens'
      BY <1>3, <2>1 DEF ReadHeader, StreamInvariant, Opens, call
    <3>2. plain = <<>> /\ opc = "header" /\ opc' = "record"
      BY <1>3, <2>1 DEF ReadHeader, StreamInvariant, Opens
    <3> QED BY <1>0, <1>2, <1>3, <1>c, <2>1, <3>1, <3>2 DEF ReadHeader
  <2>2. CASE ~(Head(wire).type = "header" /\ Head(wire).magic = expects)
    BY <1>0, <1>1, <1>3, <1>s, <2>2 DEF ReadHeader
  <2> QED BY <2>1, <2>2
<1>4. CASE ReadEnds \/ RejectChunk \/ OpenFails
  BY <1>0, <1>1, <1>4, <1>s DEF ReadEnds, RejectChunk, OpenFails, channel
<1>5. CASE ReadRecord
  <2> DEFINE r == Head(wire)
  <2>0. opc = "record" /\ wire # <<>> /\ wire' = Tail(wire) /\ r \in Units
        /\ UNCHANGED <<call, sealer, closed, edits, header, expected, plain>>
    BY <1>0, <1>5 DEF ReadRecord
  <2>1. CASE r.type = "record" /\ ~Malformed(r) /\ ~Misaligned(r)
    <3>1. /\ current' = r /\ UNCHANGED oresult /\ r \in BoundRecords
          /\ opc' = IF r.final THEN "trailing" ELSE "decrypt"
          /\ r.index = expected /\ r.size = Len(r.body)
      BY <1>5, <2>0, <2>1, UnitKinds DEF ReadRecord, AfterFinal, Malformed, GoodOrder, Misaligned
    <3> HIDE DEF r
    <3>2. opc' \in {"trailing", "decrypt"} /\ (opc' = "trailing" => r.final) /\ (opc' = "decrypt" => ~r.final)
      BY <3>1
    <3>3. Opens'
      <4>1. /\ header' = header /\ expected' = expected /\ plain' = plain
            /\ secret' = secret /\ expects' = expects /\ oresult' = oresult /\ oresult = "none"
            /\ header.magic = expects
            /\ \/ plain = <<>> /\ expected = 0
               \/ /\ secret
                  /\ \E f \in Files : /\ header = Header(f) /\ Begins(f, expected)
                                      /\ plain = SubSeq(Text(f), 1, expected * ChunkSize)
        BY <2>0, <3>1 DEF StreamInvariant, Opens, call
      <4>2. /\ BoundRecords \subseteq BoundRecords'
            /\ \A f \in Files : /\ Header(f)' = Header(f) /\ Text(f)' = Text(f)
                                /\ Begins(f, expected)' = Begins(f, expected')
        BY <1>o, <2>0
      <4> QED BY <3>1, <3>2, <4>1, <4>2 DEF Opens
    <3> QED BY <1>0, <1>2, <2>0, <3>1, <3>2, <3>3
  <2>2. CASE ~(r.type = "record" /\ ~Malformed(r) /\ ~Misaligned(r))
    <3>1. UNCHANGED current /\ (OpenReturns("invalid_packet") \/ OpenReturns("authentication_failed"))
      BY <1>5, <2>2 DEF ReadRecord
    <3> QED BY <1>0, <1>1, <1>s, <2>0, <3>1
  <2> QED BY <2>1, <2>2
<1>6. CASE RejectTrailing
  <2>0. opc = "trailing" /\ UNCHANGED <<call, sealer, wire, closed, edits, header, expected, current, plain>>
    BY <1>6 DEF RejectTrailing, channel
  <2>1. CASE OpenReturns("invalid_packet")
    BY <1>0, <1>1, <1>s, <2>0, <2>1
  <2>2. CASE AtEnd /\ opc' = "decrypt" /\ UNCHANGED oresult
    <3>1. /\ header' = header /\ expected' = expected /\ plain' = plain /\ current' = current
          /\ secret' = secret /\ expects' = expects /\ AtEnd'
      BY <2>0, <2>2 DEF call, AtEnd
    <3>2. Opens'
      BY <1>o, <2>0, <2>2, <3>1 DEF StreamInvariant, Opens
    <3> QED BY <1>0, <1>2, <1>c, <2>0, <2>2, <3>2
  <2> QED BY <1>6, <2>1, <2>2 DEF RejectTrailing
<1> QED BY <1>3, <1>4, <1>5, <1>6

\* A record that authenticates is the next chunk of the file whose header was parsed: its
\* tag binds the key, the header, the index, the final flag and the text.
LEMMA AuthenticIsNext ==
    ASSUME StreamInvariant, opc = "decrypt", Authentic(current)
    PROVE  /\ secret /\ header.magic = expects
           /\ \E f \in Files :
                 /\ header = Header(f) /\ Begins(f, expected)
                 /\ current.final = Last(f, expected)
                 /\ f = Sealed /\ Last(f, expected) => sresult = "ok"
                 /\ plain \o current.body
                        = SubSeq(Text(f), 1, Smaller((expected + 1) * ChunkSize, LengthOf(f)))
<1> USE DEF StreamInvariant
<1>1. /\ current \in Records /\ Bound(current) /\ current.index = expected
      /\ header.magic = expects /\ length \in Nat /\ expected \in Nat /\ ChunkSize \in Nat
  BY SizeAssumption DEF Opens, BoundRecords, Carries, TypeOK
<1>2. PICK f \in Files, k \in Nat :
          /\ Begins(f, k)
          /\ f = Sealed /\ Last(f, k) => sresult = "ok"
          /\ Len(current.body) = Len(Piece(f, k))
          /\ current.tag.key = FileKey(TRUE, Header(f)) /\ current.tag.nonce = Nonce(Header(f), k)
          /\ current.tag.aad = ChunkAad(Header(f), k, Len(Piece(f, k)), Last(f, k), TRUE)
          /\ current.tag.text = Piece(f, k) \/ Len(current.tag.text) > Len(current.body)
  BY <1>1 DEF Bound
<1>3. /\ FileKey(secret, header) = FileKey(TRUE, Header(f))
      /\ ChunkAad(header, current.index, current.size, current.final, secret)
             = ChunkAad(Header(f), k, Len(Piece(f, k)), Last(f, k), TRUE)
      /\ current.tag.text = current.body
  <2> DEFINE t == Tag(secret, header, current.index, current.size, current.final, current.body)
  <2>1. /\ t.key = FileKey(secret, header) /\ t.text = current.body
        /\ t.aad = ChunkAad(header, current.index, current.size, current.final, secret)
    BY DEF Tag
  <2>2. current.tag = t
    BY DEF Authentic
  <2> HIDE DEF t
  <2> QED BY <1>2, <2>1, <2>2
<1>4. secret /\ header = Header(f) /\ current.index = k /\ current.final = Last(f, k)
  BY <1>3 DEF FileKey, ChunkAad
<1>5. current.body = Piece(f, expected) /\ k = expected
  <2>1. Len(current.body) \in Nat
    BY <1>1 DEF Records, Bodies
  <2> QED BY <1>1, <1>2, <1>3, <1>4, <2>1
<1>6. plain = SubSeq(Text(f), 1, expected * ChunkSize)
  <2>1. CASE plain = <<>> /\ expected = 0
    <3>1. 0 * ChunkSize = 0
      BY <1>1
    <3> QED BY <2>1, <3>1, SubSeqEmpty
  <2>2. ASSUME NEW g \in Files, header = Header(g), plain = SubSeq(Text(g), 1, expected * ChunkSize)
        PROVE  plain = SubSeq(Text(f), 1, expected * ChunkSize)
    <3>1. g = f
      BY <1>4, <2>2 DEF Header
    <3> QED BY <2>2, <3>1
  <2> QED BY <2>1, <2>2 DEF Opens
<1>7. plain \o current.body = SubSeq(Text(f), 1, Smaller((expected + 1) * ChunkSize, LengthOf(f)))
  BY <1>1, <1>2, <1>5, <1>6, PieceContinues
<1> QED BY <1>1, <1>2, <1>4, <1>5, <1>7

\* A prefix of a file.
LEMMA PrefixLength ==
    ASSUME length \in Nat, NEW f \in Files, NEW n \in Nat, n <= LengthOf(f)
    PROVE  /\ SubSeq(Text(f), 1, n) \in Bodies /\ Len(SubSeq(Text(f), 1, n)) = n
           /\ n = LengthOf(f) => SubSeq(Text(f), 1, n) = Text(f)
<1>1. Text(f) \in Seq(Positions) /\ Len(Text(f)) = LengthOf(f) /\ LengthOf(f) \in Nat
  BY TextType DEF Bodies
<1>2. \A i \in 1 .. n : Text(f)[i] \in Positions
  BY <1>1, ElementOfSeq
<1>3. /\ SubSeq(Text(f), 1, n) \in Seq(Positions)
      /\ Len(SubSeq(Text(f), 1, n)) = IF 1 <= n THEN n - 1 + 1 ELSE 0
  BY <1>2, SubSeqProperties
<1> QED BY <1>1, <1>3, SubSeqFull DEF Bodies

\* What the opener has when it has decrypted a chunk.
LEMMA DecryptedChunk ==
    ASSUME StreamInvariant, DecryptChunk
    PROVE  /\ secret /\ header.magic = expects /\ AtEnd' = AtEnd
           /\ \E f \in Files :
                 /\ header = Header(f) /\ plain' \in Bodies
                 /\ \/ /\ current.final /\ AtEnd /\ opc' = "done" /\ oresult' = "ok"
                       /\ plain' = Text(f) /\ Len(plain') = LengthOf(f)
                       /\ LengthOf(f) <= (expected + 1) * ChunkSize
                       /\ f = Sealed => sresult = "ok"
                    \/ /\ ~current.final /\ (expected + 1) * ChunkSize < LengthOf(f)
                       /\ plain' = SubSeq(Text(f), 1, (expected + 1) * ChunkSize)
                       /\ Len(plain') = (expected + 1) * ChunkSize
                       /\ \/ expected = MaxIndex /\ opc' = "done" /\ oresult' = "invalid_packet"
                          \/ expected # MaxIndex /\ opc' = "record" /\ oresult' = oresult
<1>0. /\ opc = "decrypt" /\ Authentic(current) /\ plain' = plain \o current.body
      /\ wire' = wire /\ closed' = closed
      /\ IF current.final THEN OpenReturns("ok")
         ELSE IF expected = MaxIndex THEN OpenReturns("invalid_packet")
         ELSE opc' = "record" /\ UNCHANGED oresult
      /\ current.final => AtEnd
  BY DEF DecryptChunk, channel, StreamInvariant, Opens
<1>1. PICK f \in Files :
          /\ header = Header(f) /\ Begins(f, expected)
          /\ current.final = Last(f, expected)
          /\ f = Sealed /\ Last(f, expected) => sresult = "ok"
          /\ plain \o current.body
                 = SubSeq(Text(f), 1, Smaller((expected + 1) * ChunkSize, LengthOf(f)))
  BY <1>0, AuthenticIsNext
<1>2. length \in Nat /\ expected + 1 \in Nat /\ (expected + 1) * ChunkSize \in Nat /\ LengthOf(f) \in Nat
  <2>1. expected + 1 \in Nat /\ length \in Nat
    BY SizeAssumption DEF StreamInvariant, TypeOK, Carries
  <2> QED BY <2>1, Multiples, TextType
<1> DEFINE m == (expected + 1) * ChunkSize
<1>3. CASE current.final
  <2>0. Last(f, expected)
    BY <1>1, <1>3
  <2>1. LengthOf(f) <= m /\ Smaller(m, LengthOf(f)) = LengthOf(f)
    BY <1>2, <2>0 DEF Last, Smaller
  <2> HIDE DEF m
  <2>2. plain' = Text(f) /\ plain' \in Bodies /\ Len(plain') = LengthOf(f)
    BY <1>0, <1>1, <1>2, <2>1, PrefixLength DEF m
  <2>3. f = Sealed => sresult = "ok"
    BY <1>1, <1>3
  <2> QED BY <1>0, <1>1, <1>3, <2>1, <2>2, <2>3, AuthenticIsNext DEF OpenReturns, AtEnd, m
<1>4. CASE ~current.final
  <2>0. ~Last(f, expected)
    BY <1>1, <1>4
  <2>1. m < LengthOf(f) /\ Smaller(m, LengthOf(f)) = m
    BY <1>2, <2>0 DEF Last, Smaller
  <2>2. plain' = SubSeq(Text(f), 1, m)
    BY <1>0, <1>1, <2>1
  <2>3. plain' \in Bodies /\ Len(plain') = m
    BY <1>2, <2>1, <2>2, PrefixLength
  <2> QED BY <1>0, <1>1, <1>4, <2>1, <2>2, <2>3, AuthenticIsNext DEF OpenReturns, AtEnd
<1> QED BY <1>3, <1>4

\* The opening call writes a chunk.
LEMMA DecryptStep ==
    ASSUME StreamInvariant, DecryptChunk
    PROVE  StreamInvariant'
<1>0. /\ UNCHANGED call /\ UNCHANGED sealer /\ UNCHANGED channel /\ UNCHANGED <<header, current>>
      /\ expected' = (expected + 1) % (MaxIndex + 1) /\ opc = "decrypt"
  BY DEF DecryptChunk
<1>1. UNCHANGED <<kind, length, secret, expects, spc, sresult, taken, index, sent, wire, closed, edits>>
  BY <1>0 DEF call, sealer, channel
<1>2. /\ length \in Nat /\ MaxIndex \in Nat /\ ChunkSize \in Nat \ {0} /\ expected \in 0 .. MaxIndex
      /\ (expected + 1) * ChunkSize \in Nat /\ (MaxIndex + 1) * ChunkSize \in Nat
      /\ (expected + 1) * ChunkSize <= (MaxIndex + 1) * ChunkSize
      /\ ((expected + 1) * ChunkSize) % ChunkSize = 0
      /\ oresult = "none"
  <2>1. length \in Nat /\ MaxIndex \in Nat /\ ChunkSize \in Nat \ {0} /\ expected \in 0 .. MaxIndex /\ oresult = "none"
    BY <1>0, SizeAssumption DEF StreamInvariant, TypeOK, Carries, Opens
  <2>2. expected + 1 \in Nat /\ MaxIndex + 1 \in Nat /\ expected + 1 <= MaxIndex + 1
    BY <2>1
  <2>3. \A a, b \in Nat : a <= b => a * ChunkSize <= b * ChunkSize
    BY <2>1
  <2>4. \A a \in Nat : (a * ChunkSize) % ChunkSize = 0
    BY <2>1
  <2> QED BY <2>1, <2>2, <2>3, <2>4, Multiples
<1>3. Seals' /\ BoundRecords \subseteq BoundRecords' /\ Seq(Units) \subseteq Seq(Units')
  BY <1>0, <1>1, SealerUndisturbed DEF StreamInvariant
<1>4. PICK f \in Files :
          /\ header = Header(f) /\ plain' \in Bodies
          /\ \/ /\ current.final /\ AtEnd /\ opc' = "done" /\ oresult' = "ok"
                /\ plain' = Text(f) /\ Len(plain') = LengthOf(f)
                /\ LengthOf(f) <= (expected + 1) * ChunkSize
                /\ f = Sealed => sresult = "ok"
             \/ /\ ~current.final /\ (expected + 1) * ChunkSize < LengthOf(f)
                /\ plain' = SubSeq(Text(f), 1, (expected + 1) * ChunkSize)
                /\ Len(plain') = (expected + 1) * ChunkSize
                /\ \/ expected = MaxIndex /\ opc' = "done" /\ oresult' = "invalid_packet"
                   \/ expected # MaxIndex /\ opc' = "record" /\ oresult' = oresult
  BY DecryptedChunk
<1>5. secret /\ header.magic = expects /\ AtEnd' = AtEnd
  BY DecryptedChunk
<1>6. /\ Header(f)' = Header(f) /\ Text(f)' = Text(f) /\ LengthOf(f)' = LengthOf(f)
      /\ Text(f) \in Bodies /\ Len(Text(f)) = LengthOf(f) /\ LengthOf(f) \in Nat
      /\ SubSeq(Text(f), 1, LengthOf(f)) = Text(f)
  BY <1>1, <1>2, FormatStays, TextType, PrefixLength
<1>7. expected' \in 0 .. MaxIndex /\ (expected # MaxIndex => expected' = expected + 1)
  BY <1>0, <1>2
<1>8. TypeOK'
  <2>1. Len(plain') \in 0 .. Capacity
    <3> DEFINE m == (expected + 1) * ChunkSize
    <3>1. m \in Nat /\ m <= Capacity /\ Capacity \in Nat
      BY <1>2 DEF Capacity
    <3>2. Len(plain') = m \/ (Len(plain') = LengthOf(f) /\ LengthOf(f) <= m)
      BY <1>4
    <3> HIDE DEF m
    <3> QED BY <1>6, <3>1, <3>2
  <2>2. opc' \in {"record", "done"} /\ oresult' \in Results
    BY <1>2, <1>4 DEF Results, Errors
  <2> QED BY <1>1, <1>7, <2>1, <2>2 DEF StreamInvariant, TypeOK, Capacity
<1>9. Carries'
  BY <1>0, <1>1, <1>3, <1>4 DEF StreamInvariant, Carries
<1>a. Opens'
  <2>1. CASE opc' = "done"
    BY <2>1 DEF Opens
  <2>2. CASE opc' = "record"
    <3>1. /\ (expected + 1) * ChunkSize < LengthOf(f) /\ expected' = expected + 1 /\ oresult' = "none"
          /\ plain' = SubSeq(Text(f), 1, (expected + 1) * ChunkSize)
      BY <1>2, <1>4, <1>7, <2>2
    <3>2. Begins(f, expected)'
      BY <1>6, <3>1 DEF Begins
    <3>3. /\ header' = Header(f)' /\ plain' = SubSeq(Text(f)', 1, expected' * ChunkSize) /\ secret'
          /\ header'.magic = expects'
      BY <1>0, <1>1, <1>4, <1>5, <1>6, <3>1
    <3> QED BY <2>2, <3>1, <3>2, <3>3 DEF Opens
  <2> QED BY <1>4, <2>1, <2>2
<1>b. WritesOnlyPrefixes'
  <2>1. /\ Len(plain') <= Len(Text(f)) /\ plain' = SubSeq(Text(f), 1, Len(plain'))
        /\ Len(plain') % ChunkSize = 0 \/ (oresult' = "ok" /\ plain' = Text(f))
    <3> DEFINE m == (expected + 1) * ChunkSize
    <3>1. m \in Nat /\ m % ChunkSize = 0
      BY <1>2
    <3>2. \/ oresult' = "ok" /\ plain' = Text(f) /\ Len(plain') = LengthOf(f)
          \/ m < LengthOf(f) /\ plain' = SubSeq(Text(f), 1, m) /\ Len(plain') = m
      BY <1>4
    <3> HIDE DEF m
    <3> QED BY <1>6, <3>1, <3>2
  <2> QED BY <1>0, <1>1, <1>4, <1>5, <1>6, <2>1 DEF WritesOnlyPrefixes, IsPrefixOf
<1>c. OkIsWhole'
  <2>1. CASE oresult' = "ok"
    <3>1. plain' = Text(f) /\ AtEnd /\ (f = Sealed => sresult = "ok")
      BY <1>2, <1>4, <2>1
    <3>2. expects = kind
      BY <1>4, <1>5 DEF Header
    <3> QED BY <1>0, <1>1, <1>4, <1>5, <1>6, <3>1, <3>2 DEF OkIsWhole
  <2> QED BY <2>1 DEF OkIsWhole
<1> QED BY <1>3, <1>8, <1>9, <1>a, <1>b, <1>c DEF StreamInvariant

\* A part of what a chunk adds to what was written before is a prefix of the same file.
LEMMA PartOfPrefix ==
    ASSUME length \in Nat, NEW f \in Files, NEW s \in Bodies, NEW t \in Bodies,
           NEW q \in Nat, q <= LengthOf(f), s \o t = SubSeq(Text(f), 1, q), NEW n \in 0 .. Len(t)
    PROVE  LET w == s \o SubSeq(t, 1, n)
           IN  w \in Bodies /\ Len(w) \in Nat /\ Len(w) <= q /\ w = SubSeq(Text(f), 1, Len(w))
<1> DEFINE u == SubSeq(t, 1, n)   w == s \o u   whole == SubSeq(Text(f), 1, q)
<1>1. /\ Text(f) \in Seq(Positions) /\ Len(Text(f)) = LengthOf(f) /\ LengthOf(f) \in Nat
      /\ s \in Seq(Positions) /\ t \in Seq(Positions) /\ Len(s) \in Nat /\ Len(t) \in Nat /\ n \in Nat
  BY TextType DEF Bodies
<1>2. \A i \in 1 .. n : t[i] \in Positions
  BY <1>1, ElementOfSeq
<1>3. u \in Seq(Positions) /\ Len(u) = n /\ \A i \in 1 .. n : u[i] = t[i]
  <2>1. /\ u \in Seq(Positions) /\ Len(u) = IF 1 <= n THEN n - 1 + 1 ELSE 0
        /\ \A i \in 1 .. n - 1 + 1 : u[i] = t[1 + i - 1]
    BY <1>1, <1>2, SubSeqProperties
  <2> HIDE DEF u
  <2> QED BY <1>1, <2>1
<1> HIDE DEF u
<1>4. /\ w \in Seq(Positions) /\ Len(w) = Len(s) + n
      /\ \A i \in 1 .. Len(s) + n : w[i] = IF i <= Len(s) THEN s[i] ELSE u[i - Len(s)]
  BY <1>1, <1>3, ConcatProperties
<1> HIDE DEF w
<1>5. /\ Len(s \o t) = Len(s) + Len(t)
      /\ \A i \in 1 .. Len(s) + Len(t) : (s \o t)[i] = IF i <= Len(s) THEN s[i] ELSE t[i - Len(s)]
  BY <1>1, ConcatProperties
<1>6. /\ Len(whole) = q
      /\ \A i \in 1 .. q : whole[i] = Text(f)[i]
  <2>1. \A i \in 1 .. q : Text(f)[i] \in Positions
    BY <1>1, ElementOfSeq
  <2>2. /\ Len(whole) = IF 1 <= q THEN q - 1 + 1 ELSE 0
        /\ \A i \in 1 .. q - 1 + 1 : whole[i] = Text(f)[1 + i - 1]
    BY <2>1, SubSeqProperties
  <2> HIDE DEF whole
  <2> QED BY <2>2
<1>7. s \o t = whole
  OBVIOUS
<1> HIDE DEF whole
<1>8. Len(s) + Len(t) = q /\ Len(w) \in Nat /\ Len(w) <= q
  BY <1>1, <1>4, <1>5, <1>6, <1>7
<1>9. ASSUME NEW i \in 1 .. Len(w) PROVE w[i] = Text(f)[i]
  <2>1. i \in 1 .. q /\ i \in 1 .. Len(s) + n /\ i \in 1 .. Len(s) + Len(t)
    BY <1>1, <1>4, <1>8
  <2>2. whole[i] = IF i <= Len(s) THEN s[i] ELSE t[i - Len(s)]
    BY <1>5, <1>7, <2>1
  <2>3. ~(i <= Len(s)) => u[i - Len(s)] = t[i - Len(s)]
    BY <1>1, <1>3, <2>1
  <2> QED BY <1>4, <1>6, <2>1, <2>2, <2>3
<1>a. /\ SubSeq(Text(f), 1, Len(w)) \in Seq(Positions)
      /\ Len(SubSeq(Text(f), 1, Len(w))) = Len(w)
      /\ \A i \in 1 .. Len(w) : SubSeq(Text(f), 1, Len(w))[i] = Text(f)[i]
  <2> DEFINE k == Len(w)   v == SubSeq(Text(f), 1, k)
  <2>1. \A i \in 1 .. k : Text(f)[i] \in Positions
    BY <1>1, <1>8, ElementOfSeq
  <2>2. k \in Nat
    BY <1>8
  <2> HIDE DEF k
  <2>3. /\ v \in Seq(Positions) /\ Len(v) = IF 1 <= k THEN k - 1 + 1 ELSE 0
        /\ \A i \in 1 .. k - 1 + 1 : v[i] = Text(f)[1 + i - 1]
    BY <2>1, <2>2, SubSeqProperties
  <2> HIDE DEF v
  <2>4. v \in Seq(Positions) /\ Len(v) = k /\ \A i \in 1 .. k : v[i] = Text(f)[i]
    BY <2>2, <2>3
  <2> QED BY <2>4 DEF v, k
<1>b. w = SubSeq(Text(f), 1, Len(w))
  BY <1>4, <1>9, <1>a, SeqEqual
<1> QED BY <1>4, <1>8, <1>b DEF Bodies, w, u

\* What the opener has when the write of a chunk has failed: a part of the chunk, of the
\* last one only at the end of the stream.
LEMMA WrittenPart ==
    ASSUME StreamInvariant, WriteFails
    PROVE  /\ secret /\ plain' \in Bodies /\ Len(plain') \in Nat
           /\ \E f \in Files :
                 /\ header = Header(f) /\ plain' = SubSeq(Text(f), 1, Len(plain'))
                 /\ Len(plain') <= (expected + 1) * ChunkSize /\ Len(plain') <= LengthOf(f)
                 /\ \/ AtEnd
                    \/ (expected + 1) * ChunkSize < LengthOf(f)
<1>0. opc = "decrypt" /\ Authentic(current) /\ (current.final => AtEnd)
  BY DEF WriteFails, StreamInvariant, Opens
<1>1. PICK n \in 0 .. Len(current.body) : plain' = plain \o SubSeq(current.body, 1, n)
  BY DEF WriteFails
<1>2. PICK f \in Files :
          /\ header = Header(f)
          /\ current.final = Last(f, expected)
          /\ plain \o current.body
                 = SubSeq(Text(f), 1, Smaller((expected + 1) * ChunkSize, LengthOf(f)))
  BY <1>0, AuthenticIsNext
<1> DEFINE m == (expected + 1) * ChunkSize   q == Smaller(m, LengthOf(f))
<1>3. length \in Nat /\ m \in Nat /\ LengthOf(f) \in Nat /\ plain \in Bodies /\ current.body \in Bodies
  <2>1. expected + 1 \in Nat /\ length \in Nat /\ plain \in Bodies
    BY SizeAssumption DEF StreamInvariant, TypeOK, Carries
  <2>2. current.body \in Bodies
    BY <1>0 DEF StreamInvariant, Opens, BoundRecords, Records
  <2> QED BY <2>1, <2>2, Multiples, TextType
<1>4. Last(f, expected) <=> LengthOf(f) <= m
  BY DEF Last
<1> HIDE DEF m
<1>5. q \in Nat /\ q <= m /\ q <= LengthOf(f) /\ plain \o current.body = SubSeq(Text(f), 1, q)
  BY <1>2, <1>3 DEF Smaller, m
<1> HIDE DEF q
<1>6. plain' \in Bodies /\ Len(plain') \in Nat /\ Len(plain') <= q /\ plain' = SubSeq(Text(f), 1, Len(plain'))
  <2> DEFINE w == plain \o SubSeq(current.body, 1, n)
  <2>1. w \in Bodies /\ Len(w) \in Nat /\ Len(w) <= q /\ w = SubSeq(Text(f), 1, Len(w))
    BY <1>1, <1>3, <1>5, PartOfPrefix
  <2>2. plain' = w
    BY <1>1
  <2> HIDE DEF w
  <2> QED BY <2>1, <2>2
<1>7. Len(plain') <= m /\ Len(plain') <= LengthOf(f) /\ (AtEnd \/ m < LengthOf(f))
  BY <1>0, <1>2, <1>3, <1>4, <1>5, <1>6
<1> QED BY <1>0, <1>2, <1>6, <1>7, AuthenticIsNext DEF m

\* The opening call fails in the write of a chunk.
LEMMA WriteStep ==
    ASSUME StreamInvariant, WriteFails
    PROVE  StreamInvariant'
<1>0. /\ UNCHANGED call /\ UNCHANGED sealer /\ UNCHANGED channel /\ UNCHANGED <<header, expected, current>>
      /\ opc' = "done" /\ oresult' = "backend_failure"
  BY DEF WriteFails, OpenReturns
<1>1. UNCHANGED <<kind, length, secret, expects, spc, sresult, taken, index, sent, wire, closed, edits>>
  BY <1>0 DEF call, sealer, channel
<1>2. Seals' /\ BoundRecords \subseteq BoundRecords' /\ Seq(Units) \subseteq Seq(Units')
  BY <1>0, <1>1, SealerUndisturbed DEF StreamInvariant
<1>3. PICK f \in Files :
          /\ header = Header(f) /\ plain' = SubSeq(Text(f), 1, Len(plain'))
          /\ Len(plain') <= (expected + 1) * ChunkSize /\ Len(plain') <= LengthOf(f)
  BY WrittenPart
<1>4. secret /\ plain' \in Bodies /\ Len(plain') \in Nat
  BY WrittenPart
<1>5. length \in Nat /\ LengthOf(f) \in Nat /\ Len(Text(f)) = LengthOf(f)
      /\ Header(f)' = Header(f) /\ Text(f)' = Text(f)
  BY <1>1, FormatStays, TextType DEF StreamInvariant, Carries
<1>6. TypeOK'
  <2>1. (expected + 1) * ChunkSize <= Capacity /\ (expected + 1) * ChunkSize \in Nat /\ Capacity \in Nat
    <3>1. expected + 1 \in Nat /\ MaxIndex + 1 \in Nat /\ expected + 1 <= MaxIndex + 1 /\ ChunkSize \in Nat
      BY SizeAssumption DEF StreamInvariant, TypeOK
    <3>2. \A a, b \in Nat : a <= b => a * ChunkSize <= b * ChunkSize /\ a * ChunkSize \in Nat /\ b * ChunkSize \in Nat
      BY <3>1
    <3> QED BY <3>1, <3>2 DEF Capacity
  <2>2. Len(plain') \in 0 .. Capacity
    <3> DEFINE m == (expected + 1) * ChunkSize
    <3>1. m \in Nat /\ m <= Capacity /\ Len(plain') <= m
      BY <1>3, <2>1
    <3> HIDE DEF m
    <3> QED BY <1>4, <2>1, <3>1
  <2> QED BY <1>0, <1>1, <2>2 DEF StreamInvariant, TypeOK, Capacity, Results, Errors
<1>7. Carries'
  BY <1>0, <1>1, <1>2, <1>4 DEF StreamInvariant, Carries
<1>8. Opens'
  BY <1>0 DEF Opens
<1>9. WritesOnlyPrefixes'
  BY <1>0, <1>1, <1>3, <1>4, <1>5 DEF WritesOnlyPrefixes, IsPrefixOf
<1>a. OkIsWhole'
  BY <1>0 DEF OkIsWhole
<1> QED BY <1>2, <1>6, <1>7, <1>8, <1>9, <1>a DEF StreamInvariant

\* The channel is damaged.
LEMMA DamageStep ==
    ASSUME StreamInvariant, Damage
    PROVE  StreamInvariant'
<1>0. /\ UNCHANGED call /\ UNCHANGED sealer /\ UNCHANGED closed /\ UNCHANGED opener /\ ~AtEnd
      /\ edits < MaxEdits[length] /\ edits' = edits + 1
  BY DEF Damage
<1>1. UNCHANGED <<kind, length, secret, expects, spc, sresult, taken, index, sent, closed>>
      /\ UNCHANGED <<opc, oresult, header, expected, current, plain>>
  BY <1>0 DEF call, sealer, opener
<1>2. Seals' /\ BoundRecords \subseteq BoundRecords' /\ Seq(Units) \subseteq Seq(Units')
  BY <1>0, SealerUndisturbed
<1>3. Opens' /\ WritesOnlyPrefixes' /\ OkIsWhole'
  BY <1>0, <1>1, OpenerUndisturbed
<1>4. wire' \in Seq(Units)
  <2>1. length \in Nat /\ kind \in Kinds /\ wire \in Seq(Units)
    BY DEF StreamInvariant, Carries
  <2>2. CASE \E i \in DOMAIN wire : wire' \in Damaged(i)
    BY <2>1, <2>2, DamagedWires
  <2>3. ASSUME NEW u \in OtherUnits \cup {Fragment}, wire' = Append(wire, u) PROVE wire' \in Seq(Units)
    <3>1. u \in Units
      BY <2>1, OtherUnitsAreUnits DEF Units
    <3> QED BY <2>1, <2>3, <3>1, AppendProperties
  <2> QED BY <2>2, <2>3 DEF Damage
<1>5. TypeOK'
  <2>1. MaxEdits[length] \in Nat /\ edits' \in 0 .. MaxEdits[length]
    BY <1>0, EditsAssumption DEF StreamInvariant, TypeOK
  <2> QED BY <1>0, <1>1, <2>1 DEF StreamInvariant, TypeOK, Capacity
<1>6. Carries'
  BY <1>1, <1>2, <1>4 DEF StreamInvariant, Carries
<1> QED BY <1>2, <1>3, <1>5, <1>6 DEF StreamInvariant

\* The invariant holds in every reachable state, whatever the channel does.
THEOREM StreamInvariantHolds == Spec => []StreamInvariant
<1>1. StreamInvariant /\ [Next]_vars => StreamInvariant'
  <2> SUFFICES ASSUME StreamInvariant, [Next]_vars PROVE StreamInvariant'
    OBVIOUS
  <2>1. CASE Seal \/ SealHeaderFails \/ SealChunkFails
    BY <2>1, SealStep DEF Seal
  <2>2. CASE Open \/ OpenFails
    BY <2>2, ReadStep, DecryptStep DEF Open
  <2>w. CASE WriteFails
    BY <2>w, WriteStep
  <2>3. CASE Damage
    BY <2>3, DamageStep
  <2>4. CASE UNCHANGED vars
    <3>1. /\ UNCHANGED call /\ UNCHANGED opener /\ UNCHANGED sealer /\ UNCHANGED channel
          /\ UNCHANGED <<kind, length, secret, expects, spc, sresult, taken, index, sent, wire, closed, edits>>
          /\ UNCHANGED <<opc, oresult, header, expected, current, plain>>
      BY <2>4 DEF vars, call, opener, sealer, channel
    <3>2. Opens' /\ WritesOnlyPrefixes' /\ OkIsWhole'
      BY <3>1, OpenerUndisturbed DEF AtEnd
    <3>3. Seals' /\ BoundRecords \subseteq BoundRecords' /\ Seq(Units) \subseteq Seq(Units')
      BY <3>1, SealerUndisturbed
    <3>4. TypeOK' /\ Carries'
      BY <3>1, <3>3 DEF StreamInvariant, TypeOK, Carries, Capacity
    <3> QED BY <3>2, <3>3, <3>4 DEF StreamInvariant
  <2> QED BY <2>1, <2>2, <2>w, <2>3, <2>4 DEF Next, Fail, Finished
<1> QED BY <1>1, StreamInit, PTL DEF Spec

\* The variables of both calls and of the channel keep their types.
THEOREM StreamTypes == Spec => []TypeOK
BY StreamInvariantHolds, PTL DEF StreamInvariant

\* Whatever the channel does and whatever fails, what the opening call has written is a
\* prefix of the one file that its header belongs to; a part of a chunk is left only by a
\* call that failed.
THEOREM OnlyPrefixesAreWritten == Spec => []WritesOnlyPrefixes
BY StreamInvariantHolds, PTL DEF StreamInvariant

\* An opening call that returns ok has written a whole file.
THEOREM OkMeansWhole == Spec => []OkIsWhole
BY StreamInvariantHolds, PTL DEF StreamInvariant

\* The sealing loop writes the container that the format defines.
THEOREM TheFormatIsSealed == Spec => []SealsTheFormat
<1>1. StreamInvariant => SealsTheFormat
  <2> SUFFICES ASSUME StreamInvariant PROVE SealsTheFormat
    OBVIOUS
  <2> DEFINE whole == Container(Sealed)   n == Chunks(length)
  <2>1. /\ n \in Nat \ {0} /\ DOMAIN whole = 1 .. n
        /\ \A k \in 1 .. n : whole[k] = Genuine(Sealed, k - 1) /\ whole[k] \in Records
    <3>1. length \in Nat /\ kind \in Kinds /\ Sealed \in Files /\ LengthOf(Sealed) = length
      BY FilesAssumption DEF StreamInvariant, Carries, LengthOf
    <3>2. n \in Nat \ {0} /\ DOMAIN whole = 1 .. n /\ \A k \in 1 .. n : whole[k] = Genuine(Sealed, k - 1)
      BY <3>1, ChunkCount, ContainerRecords
    <3>3. ASSUME NEW k \in 1 .. n PROVE Genuine(Sealed, k - 1) \in Records
      <4>1. k - 1 \in Nat /\ k - 1 < n
        BY <3>2
      <4> QED BY <3>1, <4>1, ChunkCount, GenuineRecord
    <3> QED BY <3>2, <3>3
  <2>2. whole \in Seq(Records) /\ Len(whole) = n
    <3>1. whole \in [1 .. n -> Records]
      BY <2>1 DEF Container
    <3> HIDE DEF whole, n
    <3> QED BY <2>1, <3>1, SeqDef, LenProperties
  <2>3. /\ sent \in Seq(Records) /\ Len(sent) \in Nat
        /\ \A k \in 1 .. Len(sent) : sent[k] = Genuine(Sealed, k - 1)
        /\ sresult = "ok" => spc = "done" /\ Len(sent) = n
        /\ sresult = "invalid_input" => length > Capacity
        /\ sresult \notin {"ok", "invalid_input"} => Len(sent) < n
        /\ length \in Nat /\ Capacity \in Nat
    BY SizeAssumption, Multiples DEF StreamInvariant, Carries, Seals, Capacity
  <2> HIDE DEF whole, n
  <2>4. CASE sresult = "ok"
    BY <2>1, <2>2, <2>3, <2>4, SeqEqual DEF SealsTheFormat, whole
  <2>5. CASE sresult # "ok" /\ length <= Capacity
    <3>1. Len(sent) < n
      BY <2>3, <2>5
    <3>2. SubSeq(whole, 1, Len(sent)) \in Seq(Records) /\ Len(SubSeq(whole, 1, Len(sent))) = Len(sent)
          /\ \A i \in 1 .. Len(sent) : SubSeq(whole, 1, Len(sent))[i] = whole[i]
      <4>1. \A i \in 1 .. Len(sent) : whole[i] \in Records
        BY <2>1, <2>3, <3>1
      <4> QED BY <2>3, <4>1, SubSeqProperties
    <3>3. \A i \in 1 .. Len(sent) : sent[i] = SubSeq(whole, 1, Len(sent))[i]
      BY <2>1, <2>3, <3>1, <3>2
    <3>4. sent = SubSeq(whole, 1, Len(sent))
      BY <2>3, <3>2, <3>3, SeqEqual
    <3>5. IsPrefixOf(sent, whole) /\ sent # whole
      <4>1. Len(sent) <= Len(whole) /\ Len(sent) # Len(whole)
        BY <2>1, <2>2, <2>3, <3>1
      <4>2. sent # whole
        BY <4>1
      <4> QED BY <3>4, <4>1, <4>2 DEF IsPrefixOf
    <3> QED BY <2>5, <3>5 DEF SealsTheFormat, whole
  <2>6. CASE sresult # "ok" /\ ~(length <= Capacity)
    BY <2>6 DEF SealsTheFormat
  <2> QED BY <2>4, <2>5, <2>6
<1> QED BY <1>1, StreamInvariantHolds, PTL

\* No two records of a file share a nonce, and only a file with more chunks than indexes
\* is refused.
THEOREM NoncesAreUnique == Spec => []OneNoncePerRecord
<1>1. StreamInvariant => OneNoncePerRecord
  <2> SUFFICES ASSUME StreamInvariant PROVE OneNoncePerRecord
    OBVIOUS
  <2>1. ASSUME NEW i \in 1 .. Len(sent) PROVE sent[i].tag.nonce = <<"prefix", i - 1>>
    <3>1. sent[i] = Genuine(Sealed, i - 1)
      BY DEF StreamInvariant, Seals
    <3>2. \A k : Genuine(Sealed, k).tag.nonce = <<"prefix", k>>
      BY DEF Genuine, Record, Tag, Nonce, Header
    <3> QED BY <3>1, <3>2
  <2>2. DOMAIN sent = 1 .. Len(sent) /\ Len(sent) \in Nat
    BY DEF StreamInvariant, Carries
  <2>3. ASSUME NEW i \in DOMAIN sent, NEW j \in DOMAIN sent, i # j
        PROVE  sent[i].tag.nonce # sent[j].tag.nonce
    <3>1. <<"prefix", i - 1>> # <<"prefix", j - 1>>
      BY <2>2, <2>3
    <3> QED BY <2>1, <2>2, <3>1
  <2>4. sresult = "invalid_input" => length > Capacity
    BY DEF StreamInvariant, Seals
  <2> QED BY <2>3, <2>4 DEF OneNoncePerRecord
<1> QED BY <1>1, StreamInvariantHolds, PTL

\* Nothing of the last chunk of a file is written before the end of the container was seen,
\* and the call that writes it returns ok unless that write fails.
THEOREM LastChunksCommit == Spec => LastChunkCommits
<1>1. StreamInvariant /\ [Next]_vars =>
        \A f \in Files :
          /\ header = Header(f)
          /\ plain # plain'
          /\ Len(plain') > (Chunks(LengthOf(f)) - 1) * ChunkSize
          => /\ AtEnd
             /\ \/ oresult' = "ok" /\ plain' = Text(f)
                \/ oresult' = "backend_failure"
  <2> SUFFICES ASSUME StreamInvariant, [Next]_vars, NEW f \in Files,
                      header = Header(f), plain # plain',
                      Len(plain') > (Chunks(LengthOf(f)) - 1) * ChunkSize
               PROVE  /\ AtEnd
                      /\ \/ oresult' = "ok" /\ plain' = Text(f)
                         \/ oresult' = "backend_failure"
    OBVIOUS
  <2> DEFINE m == (expected + 1) * ChunkSize
  <2>1. DecryptChunk \/ WriteFails
    BY DEF Next, Seal, Open, Fail, Finished, vars, Damage, opener, SealHeader, SealHeaderFails, SealChunk,
           SealChunkFails, CloseStream, ReadHeader, ReadEnds, ReadRecord, RejectTrailing, RejectChunk, OpenFails
  <2>2. \A g \in Files : header = Header(g) => g = f
    BY DEF Header
  <2>3. m \in Nat /\ (m < LengthOf(f) => ~(Len(plain') \in Nat /\ Len(plain') <= m))
    <3>1. expected \in Nat /\ expected + 1 \in Nat /\ length \in Nat
      BY SizeAssumption DEF StreamInvariant, TypeOK, Carries
    <3>2. m \in Nat /\ Chunks(LengthOf(f)) \in Nat \ {0}
      BY <3>1, Multiples, ChunkCount
    <3>3. ASSUME m < LengthOf(f) PROVE m <= (Chunks(LengthOf(f)) - 1) * ChunkSize
      <4>1. expected + 1 < Chunks(LengthOf(f))
        BY <3>1, <3>3, ChunkCount DEF Begins
      <4>2. \A a, b \in Nat : a <= b => a * ChunkSize <= b * ChunkSize
        BY SizeAssumption
      <4> QED BY <3>1, <3>2, <4>1, <4>2
    <3>4. (Chunks(LengthOf(f)) - 1) * ChunkSize \in Nat
      <4>1. Chunks(LengthOf(f)) - 1 \in Nat
        BY <3>2
      <4> QED BY <4>1, Multiples
    <3> DEFINE n == (Chunks(LengthOf(f)) - 1) * ChunkSize
    <3>5. Len(plain') > n /\ n \in Nat /\ (m < LengthOf(f) => m <= n)
      BY <3>3, <3>4
    <3> HIDE DEF n, m
    <3> QED BY <3>2, <3>5
  <2>4. CASE DecryptChunk
    <3>1. PICK g \in Files :
              /\ header = Header(g)
              /\ \/ AtEnd /\ oresult' = "ok" /\ plain' = Text(g)
                 \/ m < LengthOf(g) /\ Len(plain') = m
      BY <2>4, DecryptedChunk
    <3>2. g = f
      BY <2>2, <3>1
    <3> HIDE DEF m
    <3> QED BY <2>3, <3>1, <3>2
  <2>5. CASE WriteFails
    <3>1. oresult' = "backend_failure"
      BY <2>5 DEF WriteFails, OpenReturns
    <3>2. PICK g \in Files : header = Header(g) /\ Len(plain') <= m /\ (AtEnd \/ m < LengthOf(g))
      BY <2>5, WrittenPart
    <3>3. Len(plain') \in Nat /\ g = f
      BY <2>2, <2>5, <3>2, WrittenPart
    <3> HIDE DEF m
    <3> QED BY <2>3, <3>1, <3>2, <3>3
  <2> QED BY <2>1, <2>4, <2>5
<1>2. StreamInvariant /\ [Next]_vars =>
        [\A f \in Files :
          /\ header = Header(f)
          /\ plain # plain'
          /\ Len(plain') > (Chunks(LengthOf(f)) - 1) * ChunkSize
          => /\ AtEnd
             /\ \/ oresult' = "ok" /\ plain' = Text(f)
                \/ oresult' = "backend_failure"]_vars
  BY <1>1
<1> QED BY <1>2, StreamInvariantHolds, PTL DEF Spec, LastChunkCommits
=============================================================================
