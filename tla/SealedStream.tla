---------------------------- MODULE SealedStream ----------------------------
(***************************************************************************)
(* The sealed file container (SKF1 and SKP1) as a stream: one call seals a *)
(* file record by record, a channel carries the container and may damage   *)
(* it, another call opens it record by record.  A stored file is the       *)
(* channel whose two ends take turns; the stream overloads may also run at *)
(* both ends of a pipe.                                                    *)
(*                                                                         *)
(* Plaintext is a sequence of positions of a file.  Encryption is ideal: a *)
(* tag is the record of everything that went into it, so it verifies only  *)
(* for the same file key, nonce, associated data and text.                 *)
(***************************************************************************)
EXTENDS Integers, Sequences

CONSTANTS
    Files,          \* the files that were sealed
    Sealed,         \* the one that this behaviour seals
    ChunkSize,      \* kChunkSize
    MaxIndex,       \* the largest std::uint32_t
    Lengths,        \* the lengths the sealed file may have
    OtherLength,    \* the length of every other file
    MaxEdits,       \* bound on the damage to the channel, by length
    Faults          \* what may go wrong in a call

ASSUME FilesAssumption == Sealed \in Files
ASSUME SizeAssumption == ChunkSize \in Nat \ {0} /\ MaxIndex \in Nat
ASSUME LengthAssumption == Lengths \subseteq Nat /\ OtherLength \in Nat
ASSUME EditsAssumption == MaxEdits \in [Lengths -> Nat]

Kinds == {"SKF1", "SKP1"}
Errors == {"invalid_input", "invalid_packet", "authentication_failed", "backend_failure"}
Results == Errors \cup {"none", "ok"}

VARIABLES
    kind,      \* the kind of the container that is sealed
    length,    \* the length of the file that is sealed
    secret,    \* the opener's key or password and associated data are the sealer's
    expects,   \* the kind of container the opener was called for
    \* the sealing call
    spc, sresult,
    taken,     \* how much of the file it has read
    index,     \* chunk_index
    sent,      \* the records it has written
    \* the channel
    wire,      \* what the opener has not read yet
    closed,    \* no more will come
    edits,     \* how often the channel was damaged
    \* the opening call
    opc, oresult,
    header,    \* the header it has parsed
    expected,  \* expected_index
    current,   \* the record it is about to decrypt
    plain      \* what it has written

call == <<kind, length, secret, expects>>
sealer == <<spc, sresult, taken, index, sent>>
channel == <<wire, closed, edits>>
opener == <<opc, oresult, header, expected, current, plain>>
vars == <<kind, length, secret, expects, spc, sresult, taken, index, sent, wire, closed, edits,
          opc, oresult, header, expected, current, plain>>

May(fault) == fault \in Faults

-----------------------------------------------------------------------------
(* The format.                                                             *)

LengthOf(f) == IF f = Sealed THEN length ELSE OtherLength
Text(f) == [i \in 1 .. LengthOf(f) |-> <<f, i>>]

\* make_header, make_password_header: every file has a salt of its own.  The
\* nonce prefixes are shorter and may repeat, so they all do here.
Header(f) == [type |-> "header", magic |-> kind, salt |-> f, prefix |-> "prefix"]

\* derive_file_key, derive_password_file_key.
FileKey(good, h) == <<good, h.magic, h.salt>>

\* make_nonce.
Nonce(h, i) == <<h.prefix, i>>

\* (Mutant.) The record header is not authenticated.
AadWithoutRecord(h, i, size, final, good) == <<h, good>>

\* make_chunk_aad: the header, the record header and the caller's data.
ChunkAad(h, i, size, final, good) == <<h, i, size, final, good>>

Tag(good, h, i, size, final, text) ==
    [key |-> FileKey(good, h), nonce |-> Nonce(h, i),
     aad |-> ChunkAad(h, i, size, final, good), text |-> text]

Record(h, i, text, final) ==
    [type |-> "record", index |-> i, size |-> Len(text), final |-> final,
     body |-> text, tag |-> Tag(TRUE, h, i, Len(text), final, text)]

\* A record of which only a part was written.
Fragment == [type |-> "fragment"]

\* The container of a file, as the format defines it: full chunks and a final
\* one, which is short or ends the file, or is all there is of an empty file.
Chunks(n) == IF n = 0 THEN 1 ELSE (n + ChunkSize - 1) \div ChunkSize

Capacity == (MaxIndex + 1) * ChunkSize

Smaller(a, b) == IF a < b THEN a ELSE b

Container(f) ==
    [k \in 1 .. Chunks(LengthOf(f)) |->
        Record(Header(f), k - 1,
               SubSeq(Text(f), (k - 1) * ChunkSize + 1, Smaller(k * ChunkSize, LengthOf(f))),
               k = Chunks(LengthOf(f)))]

-----------------------------------------------------------------------------

Init ==
    /\ kind \in Kinds
    /\ length \in Lengths
    /\ secret \in BOOLEAN
    /\ expects \in Kinds
    /\ spc = "header" /\ sresult = "none"
    /\ taken = 0 /\ index = 0 /\ sent = <<>>
    /\ wire = <<>> /\ closed = FALSE /\ edits = 0
    /\ opc = "header" /\ oresult = "none"
    /\ header = Header(Sealed) /\ expected = 0 /\ current = Fragment /\ plain = <<>>

(* The sealing call.                                                       *)

SealReturns(result) == spc' = "done" /\ sresult' = result

\* make_header, the derivation of the file key and the write of the header; a
\* failed write leaves a part of the header behind.
SealHeader ==
    /\ spc = "header"
    /\ wire' = Append(wire, Header(Sealed))
    /\ spc' = "read"
    /\ UNCHANGED <<call, sresult, taken, index, sent, closed, edits, opener>>

SealHeaderFails ==
    /\ spc = "header"
    /\ May("seal")
    /\ wire' \in {wire, Append(wire, Fragment)}
    /\ SealReturns("backend_failure")
    /\ UNCHANGED <<call, taken, index, sent, closed, edits, opener>>

\* in.read fills the buffer or reaches the end of the file.
ChunkRead == SubSeq(Text(Sealed), taken + 1, Smaller(taken + ChunkSize, length))

\* (Mutant.) A full buffer is never final: an empty chunk would have to follow.
FinalIfShort(chunk) == Len(chunk) < ChunkSize

\* A full chunk is final when peek finds the end of the file behind it.
IsFinal(chunk) == Len(chunk) < ChunkSize \/ taken + Len(chunk) = length

\* (Mutant.) The index wraps around.
NeverTooLarge(chunk) == FALSE

TooLarge(chunk) == index = MaxIndex /\ ~IsFinal(chunk)

SealChunk ==
    /\ spc = "read"
    /\ LET record == Record(Header(Sealed), index, ChunkRead, IsFinal(ChunkRead))
       IN  wire' = Append(wire, record) /\ sent' = Append(sent, record)
    /\ taken' = taken + Len(ChunkRead)
    /\ index' = (index + 1) % (MaxIndex + 1)
    /\ IF IsFinal(ChunkRead) THEN SealReturns("ok")
       ELSE IF TooLarge(ChunkRead) THEN SealReturns("invalid_input")
       ELSE UNCHANGED <<spc, sresult>>
    /\ UNCHANGED <<call, closed, edits, opener>>

\* Reading, the cipher or one of the three writes fails.
SealChunkFails ==
    /\ spc = "read"
    /\ May("seal")
    /\ wire' \in {wire, Append(wire, Fragment)}
    /\ SealReturns("backend_failure")
    /\ UNCHANGED <<call, taken, index, sent, closed, edits, opener>>

\* The caller closes the stream when the call has returned.
CloseStream ==
    /\ spc = "done"
    /\ ~closed
    /\ closed' = TRUE
    /\ UNCHANGED <<call, sealer, wire, edits, opener>>

-----------------------------------------------------------------------------
(* The opening call.                                                       *)

OpenReturns(result) == opc' = "done" /\ oresult' = result

AtEnd == wire = <<>> /\ closed

\* read_exact, parse_header or parse_password_header, and the file key.
ReadHeader ==
    /\ opc = "header"
    /\ wire # <<>>
    /\ wire' = Tail(wire)
    /\ IF Head(wire).type = "header" /\ Head(wire).magic = expects
       THEN header' = Head(wire) /\ opc' = "record" /\ UNCHANGED oresult
       ELSE OpenReturns("invalid_packet") /\ UNCHANGED header
    /\ UNCHANGED <<call, sealer, closed, edits, expected, current, plain>>

\* (Mutant.) A read that finds the end of the stream is tried again.
ReadAgain ==
    /\ opc \in {"header", "record"}
    /\ AtEnd
    /\ UNCHANGED vars

\* The stream ends inside the header or inside a record.
ReadEnds ==
    /\ opc \in {"header", "record"}
    /\ AtEnd
    /\ OpenReturns("invalid_packet")
    /\ UNCHANGED <<call, sealer, channel, header, expected, current, plain>>

\* (Mutant.) The order is left to the authentication.
AnyOrder(r) == TRUE

\* The records come in the order of their indexes.
GoodOrder(r) == r.index = expected

\* parse_record_header and the checks of the loop.
Malformed(r) ==
    \/ r.size > ChunkSize
    \/ ~GoodOrder(r)
    \/ ~r.final /\ r.size # ChunkSize

\* A record header that gives another size than the record has: the bytes that
\* follow are read as something else, and how that ends depends on them.
Misaligned(r) == r.size # Len(r.body)

\* (Mutant.) Nothing is looked for behind the final record.
TrailingIgnored == "decrypt"

AfterFinal == "trailing"

ReadRecord ==
    /\ opc = "record"
    /\ wire # <<>>
    /\ wire' = Tail(wire)
    /\ LET r == Head(wire) IN
       IF r.type = "record" /\ ~Malformed(r) /\ ~Misaligned(r)
       THEN /\ current' = r
            /\ opc' = IF r.final THEN AfterFinal ELSE "decrypt"
            /\ UNCHANGED oresult
       ELSE /\ \/ OpenReturns("invalid_packet")
               \/ /\ r.type = "fragment" \/ (r.type = "record" /\ ~Malformed(r))
                  /\ OpenReturns("authentication_failed")
            /\ UNCHANGED current
    /\ UNCHANGED <<call, sealer, closed, edits, header, expected, plain>>

\* reject_trailing_data, before the final chunk is decrypted or written.
RejectTrailing ==
    /\ opc = "trailing"
    /\ \/ wire # <<>> /\ OpenReturns("invalid_packet")
       \/ AtEnd /\ opc' = "decrypt" /\ UNCHANGED oresult
    /\ UNCHANGED <<call, sealer, channel, header, expected, current, plain>>

Authentic(r) == r.tag = Tag(secret, header, r.index, r.size, r.final, r.body)

\* decrypt_chunk authenticates before it returns plaintext; then it is written.
DecryptChunk ==
    /\ opc = "decrypt"
    /\ Authentic(current)
    /\ plain' = plain \o current.body
    /\ expected' = (expected + 1) % (MaxIndex + 1)
    /\ IF current.final THEN OpenReturns("ok")
       ELSE IF expected = MaxIndex THEN OpenReturns("invalid_packet")
       ELSE opc' = "record" /\ UNCHANGED oresult
    /\ UNCHANGED <<call, sealer, channel, header, current>>

RejectChunk ==
    /\ opc = "decrypt"
    /\ ~Authentic(current)
    /\ OpenReturns("authentication_failed")
    /\ UNCHANGED <<call, sealer, channel, header, expected, current, plain>>

\* write_all fails in the middle of a chunk: the output has taken a part of it, and how
\* much the caller is not told.
WriteFails ==
    /\ May("open")
    /\ opc = "decrypt"
    /\ Authentic(current)
    /\ \E n \in 0 .. Len(current.body) : plain' = plain \o SubSeq(current.body, 1, n)
    /\ OpenReturns("backend_failure")
    /\ UNCHANGED <<call, sealer, channel, header, expected, current>>

\* A read, the key derivation or the cipher fails before anything is written.
OpenFails ==
    /\ May("open")
    /\ opc # "done"
    /\ OpenReturns("backend_failure")
    /\ UNCHANGED <<call, sealer, channel, header, expected, current, plain>>

-----------------------------------------------------------------------------
(* The channel loses, repeats, reorders and alters what it carries, and mixes  *)
(* in what other sealed files contain.                                         *)

Without(s, i) == SubSeq(s, 1, i - 1) \o SubSeq(s, i + 1, Len(s))
With(s, i, u) == SubSeq(s, 1, i - 1) \o <<u>> \o SubSeq(s, i, Len(s))

OtherUnits ==
    {Header(f) : f \in Files \ {Sealed}}
        \cup UNION {{Container(f)[k] : k \in DOMAIN Container(f)} : f \in Files \ {Sealed}}

\* The same unit with one field changed.
AlteredHeader(h) == {[h EXCEPT !.magic = "damaged"], [h EXCEPT !.prefix = "damaged"]}

AlteredRecord(r) ==
    {[r EXCEPT !.index = i] : i \in (0 .. MaxIndex) \ {r.index}}
        \cup {[r EXCEPT !.size = n] : n \in (0 .. ChunkSize + 1) \ {r.size}}
        \cup {[r EXCEPT !.body[k] = <<Sealed, 0>>] : k \in DOMAIN r.body}
        \cup {[r EXCEPT !.final = ~@], [r EXCEPT !.tag.text = Append(@, <<Sealed, 0>>)]}

Altered(u) ==
    CASE u.type = "header" -> AlteredHeader(u)
      [] u.type = "record" -> AlteredRecord(u)
      [] OTHER -> {}

Damaged(i) ==
    {Without(wire, i), SubSeq(wire, 1, i), SubSeq(wire, 1, i - 1) \o <<Fragment>>,
     With(wire, i, wire[i]), Append(Without(wire, i), wire[i])}
        \cup {With(wire, i, u) : u \in OtherUnits \cup {Fragment}}
        \cup {[wire EXCEPT ![i] = u] : u \in OtherUnits \cup Altered(wire[i])}

\* An end of the stream that can be read stays the end.
Damage ==
    /\ edits < MaxEdits[length]
    /\ ~AtEnd
    /\ edits' = edits + 1
    /\ \/ \E i \in DOMAIN wire : wire' \in Damaged(i)
       \/ \E u \in OtherUnits \cup {Fragment} : wire' = Append(wire, u)
    /\ UNCHANGED <<call, sealer, closed, opener>>

-----------------------------------------------------------------------------

Seal == SealHeader \/ SealChunk \/ CloseStream

Open == ReadHeader \/ ReadEnds \/ ReadRecord \/ RejectTrailing \/ DecryptChunk \/ RejectChunk

Fail == SealHeaderFails \/ SealChunkFails \/ WriteFails \/ OpenFails

Finished == spc = "done" /\ closed /\ opc = "done" /\ UNCHANGED vars

Next == Seal \/ Open \/ Fail \/ Damage \/ Finished

Spec == Init /\ [][Next]_vars

\* Both calls run, and need no failure to end; the caller of the sealing call closes
\* its stream.
FairSpec == Spec /\ WF_vars(Seal) /\ WF_vars(Open)

-----------------------------------------------------------------------------
(* Properties.                                                             *)

TypeOK ==
    /\ kind \in Kinds /\ length \in Lengths /\ secret \in BOOLEAN /\ expects \in Kinds
    /\ spc \in {"header", "read", "done"} /\ sresult \in Results
    /\ taken \in 0 .. length /\ index \in 0 .. MaxIndex
    /\ Len(sent) \in 0 .. MaxIndex + 1
    /\ closed \in BOOLEAN /\ edits \in 0 .. MaxEdits[length]
    /\ opc \in {"header", "record", "trailing", "decrypt", "done"} /\ oresult \in Results
    /\ expected \in 0 .. MaxIndex
    /\ Len(plain) \in 0 .. Capacity

IsPrefixOf(s, t) == Len(s) <= Len(t) /\ s = SubSeq(t, 1, Len(s))

\* What the sealing loop has written is a prefix of the container that the format
\* defines for this file, and all of it when the call returns ok.
SealsTheFormat ==
    LET whole == Container(Sealed) IN
    /\ IF spc = "done" /\ sresult = "ok" THEN sent = whole
       ELSE length <= Capacity => IsPrefixOf(sent, whole) /\ sent # whole

\* The loop refuses exactly the files that have more chunks than indexes, and
\* never reuses an index: no two records of the files share a key and a nonce.
OneNoncePerRecord ==
    LET used(r) == <<r.tag.key, r.tag.nonce>> IN
    /\ \A i, j \in DOMAIN sent : i # j => used(sent[i]) # used(sent[j])
    /\ sresult = "invalid_input" => length > Capacity

\* Whatever the channel does and whatever fails, what the opening loop has written
\* is a prefix of the one file that the header belongs to, and nothing for another
\* key, password or associated data.  It ends between two chunks unless the call
\* failed in a write: that is the only way to leave a part of a chunk behind.
WritesOnlyPrefixes ==
    plain # <<>> =>
        /\ secret
        /\ \E f \in Files :
              /\ header = Header(f)
              /\ IsPrefixOf(plain, Text(f))
              /\ \/ Len(plain) % ChunkSize = 0
                 \/ oresult = "ok" /\ plain = Text(f)
                 \/ oresult = "backend_failure"

\* An opening call that returns ok has written a whole file: it saw the end of
\* the container, and the sealing call had written all of it.
OkIsWhole ==
    oresult = "ok" =>
        /\ secret /\ expects = kind
        /\ AtEnd
        /\ \E f \in Files :
              /\ header = Header(f) /\ plain = Text(f)
              /\ f = Sealed => sresult = "ok"

\* Nothing of the last chunk of a file is written before the end of the container
\* was seen behind its record, and the call that writes it returns ok unless that
\* very write fails.
LastChunkCommits ==
    [][\A f \in Files :
          /\ header = Header(f)
          /\ plain # plain'
          /\ Len(plain') > (Chunks(LengthOf(f)) - 1) * ChunkSize
          => /\ AtEnd
             /\ \/ oresult' = "ok" /\ plain' = Text(f)
                \/ oresult' = "backend_failure"]_vars

\* Undamaged containers open again: when the secrets and the kinds agree, no call
\* fails for a reason of its own and the file has no more chunks than indexes, the
\* opening call returns the whole file.
Undisturbed ==
    /\ secret /\ kind = expects /\ length <= Capacity
    /\ [](edits = 0 /\ sresult # "backend_failure" /\ oresult # "backend_failure")

RoundTrip == Undisturbed => <>(oresult = "ok" /\ plain = Text(Sealed))

\* Neither call waits for ever, however the container was damaged.
BothReturn == <>(spc = "done" /\ opc = "done")
=============================================================================
