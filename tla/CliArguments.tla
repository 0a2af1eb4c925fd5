---------------------------- MODULE CliArguments ----------------------------
(***************************************************************************)
(* What the command line makes of its arguments: which command runs, which *)
(* sequences of options each parser accepts, how a text value is converted *)
(* and where the result of an accepted command goes.  Delivery itself is   *)
(* the business of CliOutput and, between two paths, of FileCommit.        *)
(*                                                                         *)
(* Paths, keys and data of an option are abstracted to whether they can be *)
(* read and converted; the texts that the text commands are given are      *)
(* typed character by character.                                           *)
(***************************************************************************)
EXTENDS Codecs

CONSTANTS
    Letters,    \* text command -> the characters typed at each position
    IntMax,     \* INT_MAX: the most random bytes that one call can draw
    MaxPairs    \* bound on the options of a command line

VARIABLES
    pc,       \* the statement that the program is at
    command,  \* argv[1], or "none"
    argv,     \* the arguments after it, as far as they have been looked at
    left,     \* how many options are still to come
    has,      \* the has_ flags of the options record, by group
    result,   \* whether the arguments were accepted
    input,    \* what an accepted command reads
    output,   \* where its result goes
    typed,    \* the text that a text command is given
    filled,   \* the bytes of a token that the generator has drawn
    offset,   \* the generator's output pointer
    remaining \* how many bytes it has still to draw

text == <<typed, filled, offset, remaining>>
vars == <<pc, command, argv, left, has, result, input, output, typed, filled, offset, remaining>>

TextCommands == {"hex-encode", "hex-decode", "base64url-encode", "base64url-decode", "token"}
ASSUME ArgumentsAssumption ==
    /\ IntMax \in Nat \ {0} /\ MaxPairs \in Nat
    /\ Letters \in [TextCommands -> Seq(SUBSET Bytes)]
    /\ \A cmd \in TextCommands : Len(Letters[cmd]) < MaxSize

PacketCommands == {"wrap-key", "unwrap-key", "encrypt", "decrypt"}
KeyFileCommands == {"seal-file", "open-file", "verify-file"}
PasswordCommands == {"seal-file-password", "open-file-password", "verify-file-password"}
FileCommands == KeyFileCommands \cup PasswordCommands
VerifyCommands == {"verify-file", "verify-file-password"}
OptionCommands == PacketCommands \cup FileCommands
FixedCommands ==
    TextCommands \cup {"none", "version", "--version", "help", "--help", "sha256", "hmac-sha256", "hkdf-sha256", "keygen"}

Key == {"--key-hex", "--key-file"}
WrappingKey == {"--wrapping-key-hex", "--wrapping-key-file"}
Packet == {"--packet-hex", "--packet-file"}
Plaintext == {"--text", "--in"}
Aad == {"--aad-text", "--aad-hex"}
In == {"--in"}
Out == {"--out"}
Password == {"--password-file"}
Options == UNION {Key, WrappingKey, Packet, Plaintext, Aad, Out, Password}

\* The flags that a value "-" sets.
InputIsStdin == {"input_is_stdin"}
OutputIsStdout == {"output_is_stdout"}

\* The branches of the parsers: two spellings of an option set the same flag.
WrapKeyOptions == {Key, WrappingKey, Out}
UnwrapKeyOptions == {Packet, WrappingKey, Out}
EncryptOptions == {Plaintext, Key, Aad, Out}
DecryptOptions == {Packet, Key, Aad, Out}
FileOptions(cmd) == {In, Key, Aad} \cup (IF cmd # "verify-file" THEN {Out} ELSE {})
PasswordFileOptions(cmd) == {In, Password, Aad} \cup (IF cmd # "verify-file-password" THEN {Out} ELSE {})

Groups(cmd) ==
    CASE cmd = "wrap-key" -> WrapKeyOptions
      [] cmd = "unwrap-key" -> UnwrapKeyOptions
      [] cmd = "encrypt" -> EncryptOptions
      [] cmd = "decrypt" -> DecryptOptions
      [] cmd \in KeyFileCommands -> FileOptions(cmd)
      [] cmd \in PasswordCommands -> PasswordFileOptions(cmd)

\* The flags that the parser looks at when the arguments are used up.
Required(cmd) == Groups(cmd) \ (IF cmd \in FileCommands THEN {Aad} ELSE {Aad, Out})

MinPairs(cmd) == IF cmd \in FileCommands \ VerifyCommands THEN 3 ELSE 2

\* Options whose value the parser reads from a file or converts.
Converted(cmd, option) ==
    \/ option \in UNION {Key, WrappingKey, Packet, Password, {"--aad-hex"}}
    \/ cmd = "encrypt" /\ option = "--in"

\* "bad" is a value that cannot be read or converted, "-" names a standard stream.
Values(cmd, option) ==
    {"good"} \cup (IF Converted(cmd, option) THEN {"bad"} ELSE {})
             \cup (IF option \in In \cup Out THEN {"-"} ELSE {})

Init ==
    /\ pc = "dispatch"
    /\ command \in FixedCommands \cup OptionCommands \cup {"unknown"}
    /\ argv = <<>>
    /\ left = 0
    /\ has = {}
    /\ result = "none"
    /\ input = "none"
    /\ output = "none"
    /\ typed = <<>>
    /\ filled = {}
    /\ offset = 0
    /\ remaining = 0

End(outcome) == pc' = "done" /\ result' = outcome

-----------------------------------------------------------------------------
(* Commands whose arguments have fixed places.                             *)

\* print_command_help.
HelpTopics == (FixedCommands \ {"none", "--version", "help", "--help"}) \cup OptionCommands

\* The arguments of a command that run() compares one by one; "*" is any text.
Shapes(cmd) ==
    CASE cmd \in {"none", "version", "--version", "--help"} -> {<<>>}
      [] cmd = "help" -> {<<>>} \cup {<<topic>> : topic \in HelpTopics}
      [] cmd = "token" -> {<<"*">>}
      [] cmd = "sha256" -> {<<"--text", "*">>, <<"--file", "*">>}
      [] cmd = "hmac-sha256" -> {<<"--key-hex", "*", o, "*">> : o \in {"--text", "--file"}}
      [] cmd = "hkdf-sha256" ->
            {<<"--key-hex", "*", "--salt-hex", "*", o, "*", "--out-size", "*">> :
                o \in {"--info-hex", "--info-text"}}
      [] cmd = "keygen" -> {<<"--out", "*">>}
      [] OTHER -> {<<"--text", "*">>}

\* Arguments that nearly fit: one is missing, is another word, or is one too many.
Near(shape) ==
    {shape, Append(shape, "other")}
    \cup {RemoveAt(shape, i) : i \in DOMAIN shape}
    \cup {ReplaceAt(shape, i, "other") : i \in DOMAIN shape}

Fits(args, shape) ==
    Len(args) = Len(shape) /\ \A i \in DOMAIN args : shape[i] \in {"*", args[i]}

\* A shape that fits: the command runs, and its text is converted first if it has
\* one.  Any other: the usage of the command, or "unsupported command".
Dispatch ==
    /\ pc = "dispatch"
    /\ command \in FixedCommands
    /\ \E args \in UNION {Near(shape) : shape \in Shapes(command)} :
          /\ argv' = args
          /\ IF \E shape \in Shapes(command) : Fits(args, shape)
             THEN IF command \in TextCommands
                  THEN pc' = "typing" /\ UNCHANGED <<result, output>>
                  ELSE \/ End("accepted") /\ output' = IF command = "keygen" THEN "write" ELSE "print"
                       \/ command \notin {"none", "version", "--version", "help", "--help"}
                          /\ End("failed") /\ UNCHANGED output
             ELSE End("rejected") /\ UNCHANGED output
    /\ UNCHANGED <<command, left, has, input, text>>

DispatchUnknown ==
    /\ pc = "dispatch"
    /\ command = "unknown"
    /\ End("rejected")
    /\ UNCHANGED <<command, argv, left, has, input, output, text>>

\* The text of a text command is any of the bounded texts.
Type ==
    /\ pc = "typing"
    /\ Len(typed) < Len(Letters[command])
    /\ \E ch \in Letters[command][Len(typed) + 1] : typed' = Append(typed, ch)
    /\ UNCHANGED <<pc, command, argv, left, has, result, input, output, filled, offset, remaining>>

\* The conversion of the text, or the exception it throws.
Convert ==
    /\ pc = "typing"
    /\ command # "token"
    /\ \/ /\ command = "hex-decode" => HexDecode(typed) # Rejected
          /\ command = "base64url-decode" => Base64UrlDecode(typed) # Rejected
          /\ End("accepted")
          /\ output' = "print"
       \/ /\ \/ command = "hex-decode" /\ HexDecode(typed) = Rejected
             \/ command = "base64url-decode" /\ Base64UrlDecode(typed) = Rejected
          /\ End("rejected")
          /\ UNCHANGED output
    /\ UNCHANGED <<command, argv, left, has, input, text>>

\* parse_size, and a vector of that many zero bytes.
ConvertSize ==
    /\ pc = "typing"
    /\ command = "token"
    /\ IF ParseSize(typed) = 0
       THEN End("rejected") /\ UNCHANGED remaining
       ELSE pc' = "fill" /\ remaining' = ParseSize(typed) /\ UNCHANGED result
    /\ UNCHANGED <<command, argv, left, has, input, output, typed, filled, offset>>

\* (Mutant.) The output pointer stays where it is.
OffsetKept(chunk) == offset

OffsetAfter(chunk) == offset + chunk

\* One round of fill_random: RAND_bytes takes an int.
FillChunk ==
    LET chunk == Min({remaining, IntMax}) IN
    /\ pc = "fill"
    /\ filled' = filled \cup (offset + 1) .. (offset + chunk)
    /\ offset' = OffsetAfter(chunk)
    /\ remaining' = remaining - chunk
    /\ pc' = IF remaining = chunk THEN "print" ELSE "fill"
    /\ UNCHANGED <<command, argv, left, has, result, input, output, typed>>

FillFails ==
    /\ pc = "fill"
    /\ End("failed")
    /\ UNCHANGED <<command, argv, left, has, input, output, text>>

PrintToken ==
    /\ pc = "print"
    /\ End("accepted")
    /\ output' = "print"
    /\ UNCHANGED <<command, argv, left, has, input, text>>

-----------------------------------------------------------------------------
(* Commands whose options may come in any order.                           *)

\* argc and its parity are looked at before any argument.
BeginOptions ==
    /\ pc = "dispatch"
    /\ command \in OptionCommands
    /\ \E pairs \in 0 .. MaxPairs : \E lone \in BOOLEAN :
          /\ left' = pairs
          /\ argv' = IF lone THEN <<<<"lone", "good">>>> ELSE <<>>
          /\ IF lone \/ pairs < MinPairs(command)
             THEN End("rejected")
             ELSE pc' = "options" /\ UNCHANGED result
    /\ UNCHANGED <<command, has, input, output, text>>

GroupOf(option) == CHOOSE group \in Groups(command) : option \in group

\* (Mutant.) The AAD branch does not set its flag.
SetFlagsButAad(option) == {GroupOf(option)} \ {Aad}

SetFlags(option) == {GroupOf(option)}

\* input_is_stdin and output_is_stdout.
StreamFlags(option, value) ==
    CASE option = "--in" /\ value = "-" -> {InputIsStdin}
      [] option = "--out" /\ value = "-" -> {OutputIsStdout}
      [] OTHER -> {}

\* The branch of one option: unknown to this parser, its flag set before, or its
\* value converted and its flag set.
TakeOption ==
    /\ pc = "options"
    /\ left > 0
    /\ left' = left - 1
    /\ \E option \in Options : \E value \in Values(command, option) :
          /\ argv' = Append(argv, <<option, value>>)
          /\ IF \/ option \notin UNION Groups(command)
                \/ GroupOf(option) \in has
                \/ value = "bad"
             THEN End("rejected") /\ UNCHANGED has
             ELSE has' = has \cup SetFlags(option) \cup StreamFlags(option, value) /\ UNCHANGED <<pc, result>>
    /\ UNCHANGED <<command, input, output, text>>

\* (Mutant.) Only an output is looked for.
UsesStandardOutput == OutputIsStdout \in has

UsesStandardStream == InputIsStdin \in has \/ OutputIsStdout \in has

\* Where an accepted command leaves its result; "pipe" and "stdout" are the outputs
\* of run_streaming_file_command, "library" is the call with two paths.
Destination ==
    CASE command \in PacketCommands -> IF Out \in has THEN "write" ELSE "print"
      [] command \in VerifyCommands -> "discard"
      [] OTHER -> IF ~UsesStandardStream THEN "library"
                  ELSE IF OutputIsStdout \in has THEN "stdout" ELSE "pipe"

EndOptions ==
    /\ pc = "options"
    /\ left = 0
    /\ IF Required(command) \subseteq has
       THEN /\ End("accepted")
            /\ output' = Destination
            /\ input' = IF command \in FileCommands
                        THEN IF InputIsStdin \in has /\ Destination # "library" THEN "stdin" ELSE "file"
                        ELSE "none"
       ELSE End("rejected") /\ UNCHANGED <<input, output>>
    /\ UNCHANGED <<command, argv, left, has, text>>

-----------------------------------------------------------------------------

Finished == pc = "done" /\ UNCHANGED vars

Next ==
    \/ Dispatch \/ DispatchUnknown
    \/ Type \/ Convert \/ ConvertSize \/ FillChunk \/ FillFails \/ PrintToken
    \/ BeginOptions \/ TakeOption \/ EndOptions
    \/ Finished

Spec == Init /\ [][Next]_vars

-----------------------------------------------------------------------------
(* Properties.                                                             *)

TypeOK ==
    /\ pc \in {"dispatch", "typing", "fill", "print", "options", "done"}
    /\ result \in {"none", "accepted", "rejected", "failed"}
    /\ left \in 0 .. MaxPairs
    /\ has \subseteq {Key, WrappingKey, Packet, Plaintext, Aad, In, Out, Password,
                      InputIsStdin, OutputIsStdout}
    /\ input \in {"none", "stdin", "file"}
    /\ output \in {"none", "print", "write", "stdout", "pipe", "library", "discard"}
    /\ Range(typed) \subseteq Bytes
    /\ filled \subseteq 1 .. MaxSize /\ offset \in 0 .. MaxSize /\ remaining \in 0 .. MaxSize

\* The options of the usage text: of each set in "must" one is given, of each set in
\* "may" at most one.
Usage(cmd) ==
    LET file == [must |-> {In, Out, Key}, may |-> {Aad}]
        password == [must |-> {In, Out, Password}, may |-> {Aad}]
    IN CASE cmd = "wrap-key" -> [must |-> {Key, WrappingKey}, may |-> {Out}]
         [] cmd = "unwrap-key" -> [must |-> {Packet, WrappingKey}, may |-> {Out}]
         [] cmd = "encrypt" -> [must |-> {Plaintext, Key}, may |-> {Aad, Out}]
         [] cmd = "decrypt" -> [must |-> {Packet, Key}, may |-> {Aad, Out}]
         [] cmd \in {"seal-file", "open-file"} -> file
         [] cmd = "verify-file" -> [file EXCEPT !.must = @ \ {Out}]
         [] cmd \in {"seal-file-password", "open-file-password"} -> password
         [] cmd = "verify-file-password" -> [password EXCEPT !.must = @ \ {Out}]

\* The arguments so far and some choice of `left` more are a command of the usage text.
UsageAllows ==
    LET must == Usage(command).must
        may == Usage(command).may
        Uses(group) == {i \in DOMAIN argv : argv[i][1] \in group}
        Unused(groups) == Cardinality({group \in groups : Uses(group) = {}})
    IN /\ \A i \in DOMAIN argv : argv[i][1] \in UNION (must \cup may) /\ argv[i][2] # "bad"
       /\ \A group \in must \cup may : Cardinality(Uses(group)) <= 1
       /\ left \in Unused(must) .. Unused(must \cup may)

\* Every order of the documented options is accepted, and nothing else: not a
\* repeated option, not two spellings of one, and no count that the early look at argc
\* lets pass.  A rejected command line could not have been completed.
AcceptedAsDocumented ==
    command \in OptionCommands =>
        /\ result = "accepted" => UsageAllows
        /\ result = "rejected" => ~UsageAllows

Given(option, value) == \E i \in DOMAIN argv : argv[i] = <<option, value>>

\* "-" names a standard stream for the file commands and is a path for the others;
\* the call that takes two paths is never given one; verification writes nothing.
DeliveredAsDocumented ==
    result = "accepted" /\ command \in OptionCommands =>
        /\ input = "stdin" <=> command \in FileCommands /\ Given("--in", "-")
        /\ output = "stdout" <=> command \in FileCommands /\ Given("--out", "-")
        /\ output = "library" <=>
              /\ command \in FileCommands \ VerifyCommands
              /\ ~Given("--in", "-") /\ ~Given("--out", "-")
        /\ output = "write" <=> command \in PacketCommands /\ \E v \in {"good", "-"} : Given("--out", v)
        /\ output = "discard" <=> command \in VerifyCommands

\* A token is made of as many bytes as were asked for, each drawn by the generator.
TokensAreFilled ==
    command = "token" /\ result = "accepted" => filled = 1 .. ParseSize(typed)

\* Every byte string has one spelling: the decoders accept the texts that spell one,
\* digit by digit, and throw for all others.  A key file may have spaces around its
\* key and nothing else; a size is a positive decimal number that fits.
DecodersAreStrict ==
    pc = "typing" =>
    /\ HexDecode(typed) = Reads(typed, HexDigit, 4)
    /\ Base64UrlDecode(typed) = Reads(typed, Base64UrlDigit, 6)
    /\ Base64Decode(typed) = Base64Reads(typed)
    /\ KeyFromFile(typed) = KeyReads(typed)
    /\ ParseSize(typed) = IF typed # <<>> /\ Range(typed) \subseteq Digits /\ Number(typed) <= MaxSize
                          THEN Number(typed) ELSE 0

\* What was encoded is read again, also from a key file, and it compares equal to what
\* it was and to no string that differs from it in one byte or in its length.
RoundTrips ==
    pc = "typing" =>
    /\ \A back \in {HexDecode(HexEncode(typed)), Base64Decode(Base64Encode(typed)),
                      Base64UrlDecode(Base64UrlEncode(typed))}
            \cup (IF Len(typed) = KeySize THEN {KeyFromFile(KeyFile(typed))} ELSE {}) :
          back = typed /\ ConstantTimeEqual(back, typed)
    /\ \A other \in {Append(typed, b) : b \in {0, Len(typed)}}
            \cup {[typed EXCEPT ![i] = b] : i \in DOMAIN typed, b \in {0, 1, 255}} :
          ConstantTimeEqual(other, typed) <=> other = typed
=============================================================================
