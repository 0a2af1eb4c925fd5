--------------------------- MODULE OneShotPackets ---------------------------
(***************************************************************************)
(* The one-shot calls encrypt, decrypt, wrap_key and unwrap_key: each      *)
(* makes an object of the packet classes (PacketStream), drives it through *)
(* begin, one update and finalize, and puts packets together or cuts them  *)
(* up by the sizes of their parts.  A packet is a sequence of cells; the   *)
(* packets that are opened were damaged on the way, or put together from   *)
(* others.                                                                 *)
(*                                                                         *)
(* Encryption is ideal: a cell of ciphertext is the symbol together with   *)
(* what it was encrypted with, the cells of a tag hold the secret, the     *)
(* prefix and the ciphertext that went into it, and no nonce is drawn      *)
(* twice.                                                                  *)
(***************************************************************************)
EXTENDS Naturals, SequencesExt

CONSTANTS
    Secrets,        \* pairs of a key and associated data
    LargeSecrets,   \* those whose associated data are longer than INT_MAX
    Messages,       \* the plaintexts, sequences of symbols
    Zero,           \* what is in a cell of memory that was wiped
    Garbage,        \* what the wrong key or nonce makes of a cell
    NonceSize, TagSize, KeySize,
    IntMax,         \* INT_MAX: the longest text that one update takes
    MaxPackets,     \* bound on the packets that are made
    Faults          \* subset of {"backend", "memory"}

ASSUME SizesAssumption ==
    {NonceSize, TagSize, KeySize, IntMax, MaxPackets} \subseteq Nat \ {0}
ASSUME MessagesAssumption == Messages \subseteq Seq(UNION {Range(m) : m \in Messages})
ASSUME FaultsAssumption == Faults \subseteq {"backend", "memory"}

VARIABLES
    pc,          \* the statement that the call is at
    request,     \* which call it is, its secret and what it was given
    answer,      \* what it returned or threw
    prefix, ciphertext, tag,    \* the parts of the packet
    plaintext,   \* the buffer of recovered plaintext
    freed,       \* what was in that buffer when an ended call gave it back
    issued       \* the packets that encrypt and wrap_key have returned

parts == <<prefix, ciphertext, tag>>
vars == <<pc, request, answer, prefix, ciphertext, tag, plaintext, freed, issued>>

Seals == {"encrypt", "wrap_key"}
Opens == {"decrypt", "unwrap_key"}
None == [op |-> "none", secret |-> "none", input |-> <<>>]
NoAnswer == [kind |-> "none", value |-> <<>>]

\* The magic, scaled down to one cell, and the version.
Header == <<[field |-> "magic"], [field |-> "version"]>>
PrefixSize == Len(Header) + NonceSize
Overhead == PrefixSize + TagSize

May(fault) == fault \in Faults

Init ==
    /\ pc = "idle"
    /\ request = None
    /\ answer = NoAnswer
    /\ prefix = <<>> /\ ciphertext = <<>> /\ tag = <<>>
    /\ plaintext = <<>>
    /\ freed = <<>>
    /\ issued = {}

Wiped(buffer) == [i \in DOMAIN buffer |-> Zero]

Returns(kind, value) == pc' = "done" /\ answer' = [kind |-> kind, value |-> value]
Throws(code) == Returns("error", code)

\* The caller has the answer; the call has left nothing else.
Leave ==
    /\ pc = "done"
    /\ pc' = "idle"
    /\ request' = None
    /\ answer' = NoAnswer
    /\ prefix' = <<>> /\ ciphertext' = <<>> /\ tag' = <<>>
    /\ plaintext' = <<>>
    /\ freed' = <<>>
    /\ UNCHANGED issued

-----------------------------------------------------------------------------
(* encrypt and wrap_key.                                                   *)

CallSeal ==
    /\ pc = "idle"
    /\ Cardinality(issued) < MaxPackets
    /\ \E op \in Seals, secret \in Secrets, message \in Messages :
          /\ op = "wrap_key" => Len(message) = KeySize
          /\ request' = [op |-> op, secret |-> secret, input |-> message]
    /\ pc' = "construct"
    /\ UNCHANGED <<answer, parts, plaintext, freed, issued>>

\* The nonce of the n-th packet.
Nonce(n) == [i \in 1 .. NonceSize |-> [nonce |-> n, at |-> i]]

\* The constructor, and begin.
BeginSeal ==
    /\ pc = "construct"
    /\ request.op \in Seals
    /\ IF request.secret \in LargeSecrets
       THEN Throws("invalid_input") /\ UNCHANGED prefix
       ELSE /\ prefix' = Header \o Nonce(Cardinality(issued))
            /\ pc' = "update"
            /\ UNCHANGED answer
    /\ UNCHANGED <<request, ciphertext, tag, plaintext, freed, issued>>

Encrypted(message, secret, nonce) ==
    [i \in DOMAIN message |-> [symbol |-> message[i], secret |-> secret, nonce |-> nonce, at |-> i]]

\* (Mutant.) One more than an int can hold.
WithinUnsigned(text) == Len(text) <= IntMax + 1

\* int_size.
WithinLimit(text) == Len(text) <= IntMax

UpdateSeal ==
    /\ pc = "update"
    /\ request.op \in Seals
    /\ IF ~WithinLimit(request.input)
       THEN Throws("invalid_input") /\ UNCHANGED ciphertext
       ELSE /\ ciphertext' = Encrypted(request.input, request.secret, SubSeq(prefix, Len(Header) + 1, PrefixSize))
            /\ pc' = "finalize"
            /\ UNCHANGED answer
    /\ UNCHANGED <<request, prefix, tag, plaintext, freed, issued>>

\* The tag for what went into a context.
Tag(secret, head, text) ==
    [i \in 1 .. TagSize |-> [sealed |-> [secret |-> secret, prefix |-> head, text |-> text], at |-> i]]

FinalizeSeal ==
    /\ pc = "finalize"
    /\ request.op \in Seals
    /\ tag' = Tag(request.secret, prefix, ciphertext)
    /\ pc' = "assemble"
    /\ UNCHANGED <<request, answer, prefix, ciphertext, plaintext, freed, issued>>

\* The two insertions at the end of the prefix.
Assemble ==
    /\ pc = "assemble"
    /\ Returns("packet", prefix \o ciphertext \o tag)
    /\ issued' = issued \cup {answer'.value}
    /\ UNCHANGED <<request, parts, plaintext, freed>>

-----------------------------------------------------------------------------
(* What becomes of packets before they are opened.                         *)

Cells == UNION {Range(p) : p \in issued}

\* One cell lost, replaced or added.
Altered(p) ==
    {RemoveAt(p, i) : i \in DOMAIN p}
    \cup {ReplaceAt(p, i, c) : i \in DOMAIN p, c \in Cells}
    \cup {InsertAt(p, i, c) : i \in DOMAIN p, c \in Cells}

\* The beginning of one packet and the end of another, or of the same.
Spliced(p, i, q, j) == SubSeq(p, 1, i) \o SubSeq(q, j, Len(q))
Recombined(p, q) == {Spliced(p, i, q, j) : i \in DOMAIN p, j \in DOMAIN q}

Damaged == UNION {Altered(p) \cup UNION {Recombined(p, q) : q \in issued} : p \in issued}

-----------------------------------------------------------------------------
(* decrypt and unwrap_key.                                                 *)

CallOpen ==
    /\ pc = "idle"
    /\ \E op \in Opens, secret \in Secrets, packet \in issued \cup Damaged :
          request' = [op |-> op, secret |-> secret, input |-> packet]
    /\ pc' = "cut"
    /\ UNCHANGED <<answer, parts, plaintext, freed, issued>>

\* require_valid_packet.
ValidPacket(packet) == Len(packet) >= Overhead /\ SubSeq(packet, 1, Len(Header)) = Header

\* (Mutant.) The count of subspan taken for an end.
CiphertextUpTo(packet) == SubSeq(packet, PrefixSize + 1, Len(packet) - Overhead)

CiphertextOf(packet) == SubSeq(packet, PrefixSize + 1, Len(packet) - TagSize)

CutPacket ==
    LET packet == request.input IN
    /\ pc = "cut"
    /\ IF ValidPacket(packet)
       THEN /\ prefix' = SubSeq(packet, 1, PrefixSize)
            /\ ciphertext' = CiphertextOf(packet)
            /\ tag' = SubSeq(packet, Len(packet) - TagSize + 1, Len(packet))
            /\ pc' = "construct"
            /\ UNCHANGED answer
       ELSE Throws("invalid_packet") /\ UNCHANGED parts
    /\ UNCHANGED <<request, plaintext, freed, issued>>

\* The constructor, and begin, which looks at the prefix again.
BeginOpen ==
    /\ pc = "construct"
    /\ request.op \in Opens
    /\ IF request.secret \in LargeSecrets
       THEN Throws("invalid_input")
       ELSE pc' = "update" /\ UNCHANGED answer
    /\ UNCHANGED <<request, parts, plaintext, freed, issued>>

Symbols == UNION {Range(m) : m \in Messages}

\* A cell of ciphertext decrypts with its key and nonce, at its place.
Decrypted(text, secret, nonce) ==
    [i \in DOMAIN text |->
        IF \E s \in Symbols : text[i] = [symbol |-> s, secret |-> secret, nonce |-> nonce, at |-> i]
        THEN text[i].symbol
        ELSE Garbage]

\* The plaintext is in the buffer before anything is known about it.
UpdateOpen ==
    /\ pc = "update"
    /\ request.op \in Opens
    /\ IF ~WithinLimit(ciphertext)
       THEN Throws("invalid_input") /\ UNCHANGED plaintext
       ELSE /\ plaintext' = Decrypted(ciphertext, request.secret, SubSeq(prefix, Len(Header) + 1, PrefixSize))
            /\ pc' = "finalize"
            /\ UNCHANGED answer
    /\ UNCHANGED <<request, parts, freed, issued>>

Release(buffer) == freed' = buffer /\ plaintext' = <<>>

Authentic == tag = Tag(request.secret, prefix, ciphertext)

\* The buffer of decrypt is what it returns; nothing is left in it.
FinalizeOpen ==
    /\ pc = "finalize"
    /\ request.op \in Opens
    /\ Authentic
    /\ IF request.op = "decrypt"
       THEN Returns("message", plaintext) /\ Release(<<>>)
       ELSE pc' = "copy" /\ UNCHANGED <<answer, plaintext, freed>>
    /\ UNCHANGED <<request, parts, issued>>

\* (Mutant.) What was rejected stays in memory.
Kept(buffer) == buffer

\* secure_wipe in the handler of decrypt.
LeftByHandler(buffer) == Wiped(buffer)

\* finalize throws: for a tag that is wrong, or because the backend failed.
RejectOpen ==
    /\ pc = "finalize"
    /\ request.op \in Opens
    /\ \/ ~Authentic /\ Throws("authentication_failed")
       \/ May("backend") /\ Throws("backend_failure")
    /\ Release(LeftByHandler(plaintext))
    /\ UNCHANGED <<request, parts, issued>>

\* The exception cannot be made: bad_alloc is not an error, and passes the handler by.
RejectOpenPasses ==
    /\ May("memory")
    /\ pc = "finalize"
    /\ request.op \in Opens
    /\ ~Authentic
    /\ Throws("bad_alloc")
    /\ Release(plaintext)
    /\ UNCHANGED <<request, parts, issued>>

\* The rest of unwrap_key; its guard wipes the buffer on both ways out.
CopyKey ==
    /\ pc = "copy"
    /\ IF Len(plaintext) = KeySize THEN Returns("message", plaintext) ELSE Throws("invalid_packet")
    /\ Release(Wiped(plaintext))
    /\ UNCHANGED <<request, parts, issued>>

-----------------------------------------------------------------------------
(* An allocation, the generator or the cipher fails, in any statement.  When  *)
(* update fails, what the cipher has recovered may be in the buffer.          *)

Fails ==
    /\ pc \notin {"idle", "cut", "copy", "done"}
    /\ request.op \in Opens => pc # "finalize"
    /\ \/ May("backend") /\ pc # "assemble" /\ Throws("backend_failure")
       \/ May("memory") /\ Throws("bad_alloc")
    /\ freed' \in
          IF request.op \in Opens /\ pc = "update" /\ answer'.value = "backend_failure"
          THEN {<<>>, Decrypted(ciphertext, request.secret, SubSeq(prefix, Len(Header) + 1, PrefixSize))}
          ELSE {<<>>}
    /\ UNCHANGED <<request, parts, plaintext, issued>>

-----------------------------------------------------------------------------

Next ==
    \/ CallSeal \/ BeginSeal \/ UpdateSeal \/ FinalizeSeal \/ Assemble
    \/ CallOpen \/ CutPacket \/ BeginOpen \/ UpdateOpen \/ FinalizeOpen
    \/ RejectOpen \/ RejectOpenPasses \/ CopyKey
    \/ Fails \/ Leave

Spec == Init /\ [][Next]_vars

-----------------------------------------------------------------------------
(* Properties.                                                             *)

TypeOK ==
    /\ pc \in {"idle", "construct", "update", "finalize", "assemble", "cut", "copy", "done"}
    /\ request.op \in Seals \cup Opens \cup {"none"}
    /\ answer.kind \in {"none", "packet", "message", "error"}
    /\ Len(prefix) \in {0, PrefixSize}
    /\ Len(tag) \in {0, TagSize}
    /\ Len(plaintext) <= IntMax /\ Range(plaintext) \subseteq Symbols \cup {Garbage}
    /\ Cardinality(issued) <= MaxPackets

\* What a packet holds can be read off its tag.
Content(packet) ==
    LET sealed == Last(packet).sealed IN
    [packet |-> packet, secret |-> sealed.secret,
     message |-> [i \in DOMAIN sealed.text |-> sealed.text[i].symbol]]

Box == INSTANCE PacketBox WITH box <- {Content(packet) : packet \in issued}

\* However a packet was damaged or put together from others, and wherever a call
\* fails: opening returns the message of the very packet that was sealed with this
\* secret, and every packet that was sealed can be opened.
KeepsBoxPromise == Box!Spec

\* When a call has ended, what it had recovered from a packet that failed
\* authentication is nowhere in memory, and after unwrap_key neither is the key, taken
\* or refused.  (Not when the backend fails, or the exception cannot be allocated.)
RejectedIsWiped ==
    /\ pc = "done"
    /\ request.op \in Opens
    /\ IF answer.kind = "error" THEN answer.value \notin {"backend_failure", "bad_alloc"}
       ELSE request.op = "unwrap_key"
    => Range(freed) \subseteq {Zero}
=============================================================================
