# A formal model of AnoSecureKit Community

AnoSecureKit is a C++ library and command line for authenticated encryption of packets and
files. This directory holds TLA+ modules that model its stateful parts, TLC configurations that
check them on small instances, and theorems that TLAPS proves for every value of the constants.
Paths below are relative to the repository root.

## 1. The system

| Component | Source | State | Operations |
| --- | --- | --- | --- |
| Path-based file calls and output commit | `src/file.cpp`, `src/file_io.cpp` | the temporary file, its name, the directory, what the disk has of both | `seal_file`, `open_file` and the password forms, `open_unique_temp_output`, `OutputFile::flush/close/discard`, `commit_temp_file`, `flush_parent_directory` |
| Sealed stream format (SKF1, SKP1) | `src/file.cpp`, `src/file_crypto.cpp` | the chunk index, what was read and written, the expected index | header, record and trailing-data handling of `seal_stream_payload` and `open_file_payload` |
| Incremental packet classes (SKT1) | `src/packet_stream.cpp`, `src/aead_internal.hpp`, the contexts in `src/backend/crypto_backend_openssl.cpp` | handle, object, `packet_stream_phase`, backend context | construct, move, `begin`, `update`, `finalize` of both classes |
| One-shot packets, key wrapping | `src/aead.cpp`, `src/key_wrap.cpp`, `src/aead_internal.hpp` | the parts of a packet, the buffer of recovered plaintext | `encrypt`, `decrypt`, `wrap_key`, `unwrap_key` |
| Codecs and compare | `src/base64.cpp`, `src/hex.cpp`, `src/compare.cpp` | none | encode, decode, constant-time comparison |
| CLI output files and streams | `src/cli/commands.cpp` (684-1122, `run`) | its own temporary file and descriptor, stdout, the exit status | `write_new_output_file`, `run_streaming_file_command`, `commit_output_file` |
| CLI options and dispatch | `src/cli/commands.cpp` (the rest), `src/random.cpp` | the options seen so far, the flags of the options record | `run`, six option parsers, key and size parsers, `random_token` |
| OpenSSL backend | `src/backend/` | cipher contexts | AES-256-GCM, HKDF, HMAC, SHA-256, scrypt, random bytes |
| Random, hash, error, version, secure wipe | `src/*.cpp`, `src/internal/` | none | forwarding, erasure |
| Headers, build, packaging, tests, docs | `include/`, `cmake/`, `tests/`, `docs/` | none | |

How they interact. A path-based call wraps a stream loop: it checks the output name, creates a
temporary file beside it with an exclusive open, runs the record loop into it, flushes, closes and
commits, and one `catch (...)` undoes everything. The loops use the backend's one-shot AES-GCM;
the packet classes use its incremental contexts, and the one-shot calls drive the packet classes. The
command line parses options, converts keys and texts, and hands its result to a library call with two
paths, to an output of its own or to stdout. Calls share nothing but the file system, so what
interleaves is system calls of several processes or threads on one directory. Sealing and opening
loops meet through a container: a file, or a pipe when the stream overloads run at both ends.

What is hard here:

- *Concurrency.* Several calls and other processes use one directory. The check that no output
  exists is far from the commit.
- *Crashes.* A process may die, and power may fail, between any two system calls. Bytes and
  directory entries reach the disk only when they are synced.
- *Partial failure.* Every system call, allocation and backend call may fail, and cleanup too.
- *Order.* Containers may be cut, repeated, reordered and spliced; the index has 32 bits.
- *Protocols of use.* Packet objects are used in any order, moved, and used again after failures.

What makes each component correct: outputs appear whole or not at all and never replace anything,
success is durable, failure leaves nothing behind (file calls); only prefixes of one sealed file
are ever written, ok means all of it, no nonce is used twice (stream format); a tag covers exactly
what the calls returned, and objects are one-shot (packet classes); decoders invert encoders and
refuse everything else (codecs); a packet opens to what was put in or not at all, and what is rejected
does not stay in memory (one-shot packets); the command lines of the usage text are accepted and no
others (CLI options); the same promises as for file calls (CLI output).

## 2. Modules

| Module | Models | Uses |
| --- | --- | --- |
| `Directory` | the names that outputs and temporary files share, on line and on the disk | |
| `AtomicOutput` | abstract: what a path-based call promises to one who sees only output names | |
| `FileCommit` | the path-based calls, statement by statement, on one directory | `Directory`, `AtomicOutput` by refinement |
| `MCFileCommit` | symmetry for TLC | `FileCommit` |
| `SealedStream` | the two record loops and the channel between them | |
| `MCSealedStream` | the number of damages for TLC | `SealedStream` |
| `PacketStream` | handles, objects and contexts of the packet classes | |
| `PacketBox` | abstract: what the one-shot calls promise | |
| `OneShotPackets` | the one-shot calls, statement by statement, and what may happen to packets between them | `PacketBox` by refinement |
| `MCOneShotPackets` | the messages for TLC | `OneShotPackets` |
| `CliOutput` | how the command line delivers a result, from the parsed options to the exit status | `Directory` |
| `Codecs` | base64, base64url, hex, compare, the key and size parsers, as operators | |
| `CliArguments` | dispatch, option parsers and text conversions of the command line | `Codecs` |
| `MCCliArguments` | the characters to be typed, for TLC | `CliArguments` |
| `FileCommitProofs`, `PromiseProofs` | theorems about `FileCommit` | `FileCommit`, TLAPS |
| `SealedStreamProofs`, `PacketStreamProofs`, `OneShotProofs`, `CliOutputProofs` | theorems about the module each is named after | that module, TLAPS |
| `CodecProofs` | theorems about the operators of `Codecs` | `Codecs`, TLAPS |
| `CliArgumentsProofs` | theorems about `CliArguments` | `CliArguments`, `CodecProofs` |

Definitions marked `(Mutant.)` are wrong variants of the definition that follows them. No
specification uses them; each shows that a property notices a plausible mistake.

### FileCommit

`pc` is the statement a call is at, `code` the error it throws or the result it returned. `dir` (of
`Directory`) is the directory as running processes see it, `disk` the set of entries that each name
may have after a power loss; `len` counts the writes a file has received, `safe` those that survive.
A file is named by the call that made it. Actions follow the code: `CheckOutput` is
`ensure_output_does_not_exist`, `OpenTemp` the attempts of `open_unique_temp_output` (`Collide` is
`EEXIST`, `DescriptorFails` the failing `fdopen`), `OpenInput`, `WritePiece` and `PayloadFails` the
body of the try block, `Flush` and `Close` the methods of `OutputFile`. The three branches of
`commit_temp_file` are `Link`, `RemoveTemp`, `SyncDirectory`; `MoveFile`; `CheckAgain`,
`RenameOver`; the variable `platform`, which never changes, selects one of the set `Platforms`.
`Throw` goes to the catch block, `Cleanup`; `ThrowLate` goes there when the directory sync has failed,
after the temporary name was given up, so that `Cleanup` removes a name the call no longer owns
(`late_cleanup`). `ForeignCreates`, `ForeignRemoves`, `Kill` and
`PowerLoss` are everything else on the machine.

Simplifications: all outputs are in one directory; bytes are counted writes; a write that fails has
written nothing; a failed `fdopen` or allocation of names is modelled, other failing allocations
are not; `std::filesystem::exists` says the truth or reports an error. Other processes create files
under any free name, the temporary name that a call has just given up included; they leave the
temporary files of running calls alone. Random names of running calls differ unless the fault
`"token"` is on. When `fsync` of the directory fails, the disk may or may not have been updated.

### AtomicOutput

An output name has a file or not; a call may create it under a free name in one step, whole, and may
return ok only afterwards. Power loss may undo what no ok has promised. `FileCommit` implements it
(`KeepsPromise`). The mapping is `CallsSeen`, `NamesSeen` and `DiskSeen`: a call is
idle, running, committed, dead or has a result, and a partly written file maps to a value that
`AtomicOutput` does not know.

### SealedStream

The sealing loop (`SealHeader`, `SealChunk`) appends units to `wire`, the opening loop
(`ReadHeader`, `ReadRecord`, `RejectTrailing`, `DecryptChunk`) consumes them; a unit is a header, a
record or a fragment of one. `Damage` removes, repeats, moves, cuts, alters and inserts units, also
those of other files sealed with the same key. `taken` and `index` are the sealing loop's progress,
`expected` and `plain` the opening loop's. Failures are `SealHeaderFails`, `SealChunkFails`,
`OpenFails` (a read, the key derivation or the cipher) and `WriteFails`, the `write_all` of the
plaintext. A failing write may have delivered a part: a fragment of a record, or the first units of a
chunk of plaintext. `MCSealedStream` says how many damages go with each length.

Simplifications: encryption is ideal (a tag verifies only for the key, nonce, associated data and
text it was made from); all nonce prefixes are equal, the worst the random draw can do, and salts
differ; a record whose size field is not its size is read as something else and fails to parse or to
authenticate. The chunk size and the largest index are constants. The refusal of an empty password
is in `FileCommit`.

### PacketStream

A handle owns an object or nothing; an object has a phase and a context. The context's record says
whether the pointer is empty, leads to a working backend context, or to one whose own pointer
`finalize` has emptied, and what went into it. `EncryptBegin`, `DecryptBegin`, `Update`,
`EncryptFinalize` and `DecryptFinalize` are the methods with their failures, `Move` the move
operations. `"backend"` faults are those of OpenSSL and of allocations before it; `"late"` faults are
the two allocations after the state has changed (the prefix in `begin`, the copy of the tag in
`finalize`). Calls refused by the phase change nothing and are not steps. After a released context
is used the behaviour is undefined and the model stops.

### CliOutput

A command has a mode: `"write"` is `write_new_output_file`, `"pipe"` and `"stdout"` are
`run_streaming_file_command` with a path and with `-` after `--out`, `"print"` is a text result. A
file command between two paths is a call of `FileCommit`. `Prepare` is everything before the output
is touched, options, keys and the one-shot operations included. `OpenTemp`, `WritePiece`, `Close`,
`Link` and `RemoveTemp` follow `open_cli_output_file`, `exclusive_output_stream` and
`commit_output_file`; `temp` is `temp_path`, which also holds a name that collided, `opened` tells
whether a stream came back, and `RemovesTemp` is the difference between the two handlers:
`write_new_output_file` looks at `temp_path`, the streaming function at `uses_temp_output`.
`printed` is what `std::cout` has accepted and `shown` what had reached stdout when the process
exited; `FlushStdout` and `PrintExit` are the ends with and without a look at the stream's state.

Simplifications: those of `FileCommit`; also, two commands never draw the same random name while
both run, and the directory is not synced because the code does not sync it. `verify-file` keeps no
state and writes nothing, and is left out. Options are abstracted to being accepted or not; which
they are, and which mode a command has, is the business of `CliArguments`.

### OneShotPackets and PacketBox

One call runs at a time, and `pc` is its statement. The sealing calls go through `BeginSeal`,
`UpdateSeal`, `FinalizeSeal` and `Assemble`, the opening calls through `CutPacket`, `BeginOpen`,
`UpdateOpen` and `FinalizeOpen` or `RejectOpen`; `CopyKey` is what `unwrap_key` does with the message of
`decrypt`. A packet is a sequence of cells, so that cutting it in the wrong place or by one cell too many
is possible: `prefix`, `ciphertext` and `tag` are its parts. `plaintext` is the buffer that `update` fills
before anything is known about the tag, `freed` what was in it when the call gave it back. `Fails` is a
failing allocation, generator or cipher in any statement; `RejectOpenPasses` is the `bad_alloc` that the
handler for `error` does not catch. `Altered` and `Recombined` make the packets that are opened from
those that were issued.

`PacketBox` knows packets and their contents. `OneShotPackets` implements it (`KeepsBoxPromise`) with the
content of a packet read off its tag (`Content`).

Simplifications: encryption is ideal, and the generator gives every packet a nonce of its own; the magic
is one cell; associated data and key are one value, `LargeSecrets` are those with data above `INT_MAX`;
a packet is damaged in one place, or recombined from two, before it is opened.

### Codecs and CliArguments

`Codecs` has one operator per function of `base64.cpp`, `hex.cpp` and `compare.cpp`, and the helpers of
`commands.cpp` that read keys and sizes; characters and bytes are their codes, `Rejected` is the thrown
`invalid_encoding`. The codecs are functions on the places of their result, so that the loops of the code,
which append, become one expression per place. `Word` and `Xor` are a `std::size_t` as the set of its bits
and the exclusive or of two of them; `ConstantTimeEqual` collects the differences as the code does. The last
section of the module is the reference for the decoders: `Spelled` reads digits as bits and knows nothing of
groups of four, padding or nibbles, `Reads`, `Base64Reads` and `KeyReads` say which texts have digits at all,
`Number` is the number that decimal digits spell, without a bound.

In `CliArguments`, `Dispatch` is the part of `run` for commands whose arguments have fixed places, with
arguments that fit or nearly fit; `Type` and `Convert` give the text commands a text. `ConvertSize`,
`FillChunk`, `FillFails` and `PrintToken` are `token` down to the rounds of `fill_random`. For the other
commands `BeginOptions` is the look at `argc`, `TakeOption` one branch of an option parser and
`EndOptions` the look at the required flags with the dispatch on standard streams; `has` are the `has_`
flags, `Groups` the branches of each parser. `Usage` restates the usage texts and is what the parsers are
compared with.

Simplifications: a path, a key or data is good, cannot be read or converted, or is `-`; the hash and
derivation commands, once their shape fits, succeed or fail; the wording of messages is left out.

## 3. Runs

| Run | Shows | Bounds |
| --- | --- | --- |
| `commit_safety` | `TypeOK`, `OutputsComplete`, the inductive `CommitInvariant`, `FailureCommitsNothing`, `OkIsDurable`, `NoOverwrite`, `ReturnRemovesTemp`, `RemovesOnlyOwn`, and `KeepsPromise` (refinement of `AtomicOutput`) under races, kills, power losses and files of other processes | POSIX and Windows; 2 calls, 1 output, 2 names, 2 writes, 2 attempts |
| `commit_collisions` | `RemovesOnlyOwn`, `Termination`, `RaceHasWinner` when every random name repeats and most steps may fail, the late directory sync included | all branches; 2 calls, 1 name; other processes remove files but create none |
| `commit_generic_race` | violation of `NoOverwrite`, see section 5 | 2 calls, no faults |
| `commit_descriptor` | violation of `ReturnRemovesTemp`, see section 5 | 2 calls |
| `stream` | `TypeOK`, `WritesOnlyPrefixes`, `OkIsWhole`, `LastChunkCommits`, `SealsTheFormat`, `OneNoncePerRecord`, `RoundTrip`, `BothReturn`, while both calls may fail, also in the middle of a write | chunks of 2, indexes 0..2, every length to 2 more than the capacity of 6; 2 damages for lengths 0, 2, 3 and 5, 1 for the others; 2 files, right and wrong secret and kind |
| `packet_lifecycle` | `TypeOK`, `TagCoversWhatWasReturned`, `AcceptedIsSealed`, `OneShot` | 2 encryptor and 1 decryptor handle, 2 objects, 2 nonces, 2 chunks |
| `packet_released` | violation of `ReleasedIsNeverUsed`, see section 5 | the same |
| `cli_output` | `TypeOK`, `OutputsComplete`, `ExitIsHonest`, `NoOverwrite`, `RemovesOnlyOwn`, `OpenedTempIsRemoved`, `Termination` | 2 commands of any mode, 1 output, 2 names, 1 write, 2 attempts |
| `cli_leftover` | violation of `ExitRemovesTemp`, see section 5 | 2 commands, only the allocation of a stream fails |
| `cli_text` | violation of `SuccessfulTextIsWritten`, see section 5 | 2 commands, only stdout fails |
| `one_shot` | `TypeOK`, `RejectedIsWiped`, `KeepsBoxPromise` (refinement of `PacketBox`) | 2 packets; nonce, tag and key of 2 cells, `INT_MAX` 3; 3 secrets, one with data that are too large; messages of 0 to 4 symbols; one alteration or recombination |
| `cli_arguments` | `TypeOK`, `AcceptedAsDocumented`, `DeliveredAsDocumented`, `TokensAreFilled`, `DecodersAreStrict`, `RoundTrips` | every command, up to 5 options; texts of up to 4 characters around every boundary, padded ones of 8; keys of 1 byte, sizes to 15 in words of 8 bits, `INT_MAX` 3 |

Why the bounds are enough. Two calls show every race of a pair, and other processes stand for more.
Two writes distinguish nothing, part and all of a file; one write, in `cli_output`, still
distinguishes a file that is not complete from one that is, which is all the code could get wrong.
Two attempts distinguish a last attempt from another. In the stream runs the files have none, one,
several, exactly full and one too many chunks; two damages are needed to shorten a file (clear or
set the final flag and cut the rest, replace a header and a record), one is not, and containers of no,
one, two and three records get two. In the packet run
one failed `begin` and one successful one use up both nonces, and a decryptor sees both. In the
one-shot run a message is empty, shorter than, as long as and longer than a key, and as long as and
longer than an update; two packets are enough to recombine, and sizes of two cells tell a part that
is cut off by one from a whole one. No command has more than four options, so that five hold every
mistake in their number; a base64 group and its neighbour have every combination of padding, and
characters are taken from both sides of every comparison in the code. `commit_safety` leaves out
other processes that remove files, which the proofs of section 4 cover. No run combines repeated
random names, a failing directory sync and other processes that create files: a call whose temporary
file was lost to the second removal of another call takes whatever file appears under that name for its
own, commits or removes it, in the code as in the model, and `RemovesOnlyOwn` does not hold. The counters `tries`,
`drawn`, `edits` (for each length) and the text lengths are bounded by the constants `MaxAttempts` (a bound of the
code), `MaxNonces`, `MaxEdits`, `MaxChunks`, `MaxPackets` and `MaxPairs`.

Deadlock is checked except in the packet runs, where callers may stop calling.

Fairness. `FileCommit!FairSpec` has weak fairness of the steps of each call that has begun: a call
waits for no other call, only for system calls that return. A call need not begin. `CliOutput` has
the same.
`SealedStream!FairSpec` has weak fairness of both loops, without their failures, and of the sealing
side closing its stream, without which the opening loop may rightly wait for ever in a read. Failures
and damage are never forced.

## 4. Proofs

Every theorem holds for any values of the constants that satisfy the modules' assumptions: any sets of
calls, names, objects, messages and secrets, any sizes and counts, every set of faults. Further
assumptions are part of a theorem and named below.

| Module | Proved |
| --- | --- |
| `FileCommitProofs` | `TypeOK` (`TypeCorrect`), `CommitInvariant` (`CommitInvariantHolds`), `OutputsComplete`, `NoOverwrite` |
| `PromiseProofs` | `ResultInvariant`, `FailureCommitsNothing`, `OkIsDurable`, `RemovesOnlyOwn`, `ReturnRemovesTemp`, and `KeepsPromise`: `FileCommit` implements `AtomicOutput` |
| `SealedStreamProofs` | `TypeOK`, `WritesOnlyPrefixes`, `OkIsWhole`, `SealsTheFormat`, `OneNoncePerRecord`, `LastChunkCommits` |
| `PacketStreamProofs` | `TypeOK`, `TagCoversWhatWasReturned`, `AcceptedIsSealed`, `OneShot` |
| `OneShotProofs` | `TypeOK`, `RejectedIsWiped`, and `KeepsBoxPromise`: `OneShotPackets` implements `PacketBox` |
| `CliOutputProofs` | `TypeOK`, `OutputsComplete`, `NoOverwrite`, `RemovesOnlyOwn`, `ExitIsHonest`, `OpenedTempIsRemoved`; `ExitRemovesTemp` where it holds |
| `CodecProofs` | for texts and byte strings of every length: `HexRoundTrip`, `Base64RoundTrip`, `Base64UrlRoundTrip`, `KeyFileRoundTrip`; `HexIsStrict`, `Base64IsStrict`, `Base64UrlIsStrict`; `ComparesExactly`; `SizeIsNumber` |
| `CliArgumentsProofs` | `ArgumentsInvariant`, `TypeOK`, `AcceptedAsDocumented`, `DeliveredAsDocumented`, `TokensAreFilled`, `RoundTrips`, `DecodersAreStrict` |

Assumptions. What `FileCommit` does with files is proved where the platform syncs
(`"generic" \notin Platforms`) and random names do not repeat (`~May("token")`). `TypeCorrect` needs
neither, `NeverOverwrites` only the first. `ReturnsRemoveTheirTemp` also excludes failing removals and the
failing `fdopen` of section 5. `RemovesOnlyOwn` allows what the code does after a failed directory
sync. In `CliOutput`, `ExitsRemoveOpenedTemps` excludes failing removals, and `ExitsRemoveTheirTemp` the
failing allocation of `cli_leftover` as well; that two running commands draw different names is part of
the module (`Draws`). The other theorems need no assumption on faults.
`CodecsAssumption` says that a word is wide enough to tell bytes and lengths apart, that is, that
`WordBits` and `MaxSize` belong together; `ArgumentsAssumption` that typed texts are byte strings shorter
than `MaxSize`, of any length below it. `TypeOK` of `CliArguments` bounds the size that is asked of the
generator by `MaxSize`, which is what the check of `result_out_of_range` is for.

The arguments.

- *`OutputsComplete`* is not inductive: before the commit nothing in it says that the file that gets the
  name is complete, and a power loss may bring back an older state. `CommitInvariant` adds who owns
  temporary names (`TempNamed`, `TempsOwned`: until the call gives it up, the name refers to the call's
  own file), that a call past its flush has synced every write (`SyncedBeforeCommit`), and that every
  state the disk may come back with is complete (`DiskComplete`). The assumption on names is needed for
  `TempsOwned` alone: with repeated names another call may remove the file. On the generic
  branch nothing is synced, so a power loss can tear an output. `NeverOverwrites` needs only that a
  call commits under a temporary name and that `rename` is reached on the generic branch alone.
- *The results of calls* follow from `ResultInvariant`: the file of a call that has not reached its commit,
  or that failed with anything but `backend_failure`, is under no output name the disk may have
  (`Unnamed`); past the directory sync it is under its name on every one of them, or another process removed it
  (`NameKept`); a running call has at most one temporary name, and none once it is ready to return
  (`OneTemp`, `TempGone`). The refinement shows from the same invariant that what each step changes in the
  mapped variables is one step of `AtomicOutput` or none (`RefinedStep` for calls, `RefinedEnvironment` for
  other processes, kills and power losses).
- *Containers.* `StreamInvariant` says what is on the wire: every
  record has the tag of one chunk of one file, bound to its index, size and final flag, or a tag that was
  altered so that it cannot verify, and the last record of the sealed file exists only after its call
  returned ok (`Carries`, `Bound`); what was
  sent is a beginning of the format (`Seals`); what was written is the text of the records up to
  `expected` of the file whose header was read (`Opens`), and after a failed write a beginning of the
  next one's. A record that verifies at index `expected` is
  then the record of that file at that index, whatever the channel did. The number of damages plays no part.
- *Packet objects.* `PacketInvariant` has who owns an object (`OneOwner`, `Unused`), that the context of an
  active object has seen what the caller has (`Tracks`), that no nonce is in two packets, finished or not
  (`NoncesOnce`), and that accepting and accepted object are finished (`BothFinished`).
- *One-shot calls.* `OneShotInvariant` says that every packet was sealed, within the limits, with a nonce
  of its own (`Issued`) and which parts a call has at each statement (`Sealing`, `Opening`). The heart of
  the refinement is `AuthenticIsIssued`: the last cell of a tag that verifies is a cell of some issued
  packet, it can only be in that packet's tag (`TagCells`), so secret, prefix and ciphertext are those of
  that packet, and the input is that packet. Conversely a packet that was issued for the secret
  verifies (`IssuedIsAuthentic`), so no call rejects it. How packets were damaged matters only in
  that they are made of cells of packets (`DamagedCells`).
- *Commands.* `CliInvariant` is what `CommitInvariant` is for calls: a command with a stream owns the file
  under its temporary name (`OpenedOwned`), no two hold one (`HeldApart`), what is linked has been
  synced (`SyncedBeforeLink`), and what is or may come back under an output name is whole
  (`DeliveredWhole`). `Counts` ties the loops to their bounds.

- *Options.* None of the properties of the option parsers is inductive, because they speak of the end of
  a command line and of its arguments, and the parsers of flags. `OptionsTaken` relates the two at every
  argument: a flag is set exactly when one argument, and only one, spells it (`Uses`), nothing was taken
  that cannot be converted, and the flags for `-` are those of the arguments. With it `TakenIsAllowed`
  counts what is left at the end, and a rejected argument leaves a command line that no further options
  can complete, the early look at `argc` included. `TokenDrawn` is the loop invariant of `fill_random`.
- *Codecs.* A round trip is arithmetic on one group, lifted to a text of any length by the place of each
  character in its group (`CharPlace`, `SextetPlace`). That nothing else is accepted follows for base64 from
  the comparison with the encoding that the code makes at its end. `DecodersAreStrict` compares with the
  bits themselves: `BitsOfSextet` says which bits a digit has, `SextetsSpelled` which three bytes four digits
  make, `BitsLeftOver` which bits belong to no byte; a group of digits makes its bytes and leaves zeros
  exactly when it is what the encoder cuts those bytes into (`JoinsTwo` and `CutsTwo`, and so on). A key file
  has one place for its key, since a key has no spaces in it.
- *Numbers.* `from_chars` stops at `MaxSize`, the reference does not. What both say of a text is shown by
  induction on its digits. The library's induction theorems take an operator, so the step is made from the
  well-foundedness of the naturals: the first digit at which the claim fails has a predecessor at which it
  holds (`NatLessThanWellFounded`, `WFMin`).

All invariants and all action properties that the runs check are proved. Only model-checked: liveness
(`Termination`, `RaceHasWinner`, `RoundTrip`, `BothReturn`), which is beyond the prover.

## 5. What the code does not do

- `commit_descriptor`: when `fdopen` fails after the exclusive open has created the temporary file
  (`src/file_io.cpp:227`), the name stays. `README.md:799-800` says that file calls and commands
  remove their temporary output after failures.
- `cli_leftover`: a streaming command whose stream cannot be allocated (`src/cli/commands.cpp:956`) leaves
  the file it has just created, because `uses_temp_output` is set afterwards
  (`src/cli/commands.cpp:1053`), against the same sentence. `write_new_output_file` removes it.
  Whatever fails later leaves nothing (`OpenedTempIsRemoved`).
- `commit_generic_race`: on platforms that are neither Windows nor Unix the commit checks and then
  renames (`src/file_io.cpp:350`), and replaces an output that appeared in between.
  `docs/SECURITY_MODEL.md:81` says that the calls refuse to overwrite.
- `packet_released`: when the copy of the tag cannot be allocated (`src/packet_stream.cpp:136`) the
  object stays active with a backend context that has been emptied, and its next call follows a null
  pointer. `README.md:692-694` says that the classes are one-shot and that invalid sequencing raises
  `invalid_input`.

- `cli_text`: a text command writes to `std::cout` and returns 0 without a flush or a look at its
  state (`src/cli/commands.cpp:1397` and the commands after it), so a result lost to a full disk or a
  closed pipe is reported as success. `docs/CLI.md:179` says that successful text commands write the
  result. The streaming commands do look (`src/cli/commands.cpp:1062`).

More facts that the models make visible without contradicting a claim:

- A call may report `backend_failure` for a failed directory sync although its output is in place. It
  then removes its temporary name a second time (`src/file.cpp:103`), and with it the file of another
  process or call that has taken the name meanwhile. `RemovesOnlyOwn` confines the loss to this step and
  does not forbid it.
- An encryptor whose `begin` fails while it puts the prefix together is active with a prefix that
  nobody has, and a later tag belongs to that prefix. `TagCoversWhatWasReturned` excuses the nonce of
  such a packet; `OneShot` shows that no other packet has it.
- When `update` fails in the backend and the caller goes on, the tag may cover a chunk that was never
  returned. `TagCoversWhatWasReturned` and `AcceptedIsSealed` excuse the text of such objects, not their
  secret, prefix, header and associated data.
- `write_new_output_file` removes the last name it tried even when it gave up because that file was
  there. `RemovesOnlyOwn` shows that, with random names that do not repeat among running commands,
  such a file never belongs to a running one.
- `open-file --out -` may have written plaintext when it exits with 1. `docs/SECURITY_MODEL.md:101`
  says so, `docs/SECURITY_MODEL.md:164` is worded more strongly.
- `decrypt` and `unwrap_key` wipe what they had recovered when authentication fails. They do not when the
  backend fails inside `update` or `finalize`, or when there is no memory for the exception
  (`src/aead.cpp:45` catches `error` alone); `RejectedIsWiped` names both cases.
- A command that exited with 0 has a complete output, but the name may not survive a power loss: only
  the library syncs the directory.

## 6. Plan and limits

Order of work, the most important behaviour first; all of it is done.

1. `FileCommit`, `AtomicOutput` and their proofs: outputs, crashes and races.
2. `SealedStream`: what a container may be turned into, and what is written of it.
3. `PacketStream`: the life of packet objects.
4. `CliOutput`, `Directory`: the command line's own temporary files, commit, stdout and exit status.
5. `OneShotPackets`, `PacketBox`: packets as they are put together and cut up.
6. `Codecs`, `CliArguments`: texts, option parsers and dispatch.
7. Proofs of every safety property and both refinements of modules 1 to 5.
8. Proofs about `Codecs` and `CliArguments`, for texts of every length.

What could follow: the digests and key derivation as state machines over their OpenSSL contexts, if they
ever keep state between calls; a composition of `SealedStream` with `CliOutput` that follows a damaged
container to the exit status of the command that opens it.

Not modelled:

- OpenSSL itself, which is ideal or fails. The backend's digest, HMAC, HKDF and scrypt functions, and its
  AES-GCM calls on chunks, are single calls that succeed or throw; the modules that use them have both
  outcomes. `fill_random`, the only loop, is in `CliArguments`.
- `hash.cpp`, which forwards to the backend; `error.cpp` and `version.cpp`, which hold constants; the
  public headers.
- The erasure of keys and associated data in destructors: the language runs them on every way out. The
  wipes that the code places by hand, in `decrypt` and `unwrap_key`, are in `OneShotPackets`.
- Messages and usage texts, other than which options they name.
- Build, packaging and release scripts, tests, fuzz targets, benchmarks, examples and documentation.
