------------------------- MODULE CliArgumentsProofs -------------------------
(***************************************************************************)
(* What the command line makes of its arguments, for every number of       *)
(* options and every text: the invariant that relates the flags of a       *)
(* parser to the arguments it has taken, and what follows from it.         *)
(***************************************************************************)
EXTENDS CliArguments, CodecProofs, FiniteSetTheorems, TLAPS

-----------------------------------------------------------------------------
(* The tables of the parsers.                                              *)

\* The commands fall into those with fixed places and those with options.
LEMMA CommandsApart ==
    /\ FixedCommands \cap OptionCommands = {} /\ "unknown" \notin OptionCommands
    /\ TextCommands \subseteq FixedCommands /\ PacketCommands \cap FileCommands = {}
BY DEF FixedCommands, OptionCommands, TextCommands, PacketCommands, FileCommands, KeyFileCommands,
       PasswordCommands

\* Two spellings of one flag are never spellings of two.
LEMMA GroupsApart ==
    /\ \A g, h \in {Key, WrappingKey, Packet, Aad, In, Out, Password} : \A o \in g \cap h : g = h
    /\ \A g, h \in {Plaintext, Key, WrappingKey, Packet, Aad, Out, Password} : \A o \in g \cap h : g = h
BY DEF Key, WrappingKey, Packet, Plaintext, Aad, In, Out, Password

\* No flag of an option is one of a standard stream.
LEMMA FlagsApart ==
    ASSUME NEW g \in {Key, WrappingKey, Packet, Plaintext, Aad, In, Out, Password}
    PROVE  g # InputIsStdin /\ g # OutputIsStdout /\ g # {}
BY DEF Key, WrappingKey, Packet, Plaintext, Aad, In, Out, Password, InputIsStdin, OutputIsStdout

\* The flags are different from one another.
LEMMA FlagsDiffer ==
    /\ Key # WrappingKey /\ Key # Packet /\ Key # Plaintext /\ Key # Aad /\ Key # In /\ Key # Out /\ Key # Password
    /\ WrappingKey # Packet /\ WrappingKey # Aad /\ WrappingKey # Out
    /\ Packet # Aad /\ Packet # Out /\ Plaintext # Aad /\ Plaintext # Out
    /\ Aad # In /\ Aad # Out /\ Aad # Password /\ In # Out /\ In # Password /\ Out # Password
BY DEF Key, WrappingKey, Packet, Plaintext, Aad, In, Out, Password

\* What a command must be given and what it may be given.
Table(cmd, must, may) ==
    /\ Usage(cmd).must = must /\ Usage(cmd).may = may
    /\ Required(cmd) = must /\ Groups(cmd) = must \cup may

\* The tables of the usage text are those of the parsers.
LEMMA Tables ==
    /\ Table("wrap-key", {Key, WrappingKey}, {Out})
    /\ Table("unwrap-key", {Packet, WrappingKey}, {Out})
    /\ Table("encrypt", {Plaintext, Key}, {Aad, Out})
    /\ Table("decrypt", {Packet, Key}, {Aad, Out})
    /\ Table("seal-file", {In, Out, Key}, {Aad})
    /\ Table("open-file", {In, Out, Key}, {Aad})
    /\ Table("verify-file", {In, Key}, {Aad})
    /\ Table("seal-file-password", {In, Out, Password}, {Aad})
    /\ Table("open-file-password", {In, Out, Password}, {Aad})
    /\ Table("verify-file-password", {In, Password}, {Aad})
<1> USE FlagsDiffer
    DEF Table, Usage, Required, Groups, PacketCommands, FileCommands, KeyFileCommands, PasswordCommands,
        WrapKeyOptions, UnwrapKeyOptions, EncryptOptions, DecryptOptions, FileOptions, PasswordFileOptions
<1>1. Table("wrap-key", {Key, WrappingKey}, {Out})
  OBVIOUS
<1>2. Table("unwrap-key", {Packet, WrappingKey}, {Out})
  OBVIOUS
<1>3. Table("encrypt", {Plaintext, Key}, {Aad, Out})
  OBVIOUS
<1>4. Table("decrypt", {Packet, Key}, {Aad, Out})
  OBVIOUS
<1>5. Table("seal-file", {In, Out, Key}, {Aad})
  OBVIOUS
<1>6. Table("open-file", {In, Out, Key}, {Aad})
  OBVIOUS
<1>7. Table("verify-file", {In, Key}, {Aad})
  OBVIOUS
<1>8. Table("seal-file-password", {In, Out, Password}, {Aad})
  OBVIOUS
<1>9. Table("open-file-password", {In, Out, Password}, {Aad})
  OBVIOUS
<1>10. Table("verify-file-password", {In, Password}, {Aad})
  OBVIOUS
<1> QED BY <1>1, <1>2, <1>3, <1>4, <1>5, <1>6, <1>7, <1>8, <1>9, <1>10

\* The commands with options, one by one.
LEMMA TableCases ==
    ASSUME NEW cmd \in OptionCommands
    PROVE  cmd \in {"wrap-key", "unwrap-key", "encrypt", "decrypt", "seal-file", "open-file", "verify-file",
                    "seal-file-password", "open-file-password", "verify-file-password"}
BY DEF OptionCommands, PacketCommands, FileCommands, KeyFileCommands, PasswordCommands

\* The usage text asks for the flags that the parser looks at, and names all it knows.
LEMMA UsageIsParsed ==
    ASSUME NEW cmd \in OptionCommands
    PROVE  /\ Usage(cmd).must = Required(cmd) /\ Usage(cmd).must \cup Usage(cmd).may = Groups(cmd)
           /\ Required(cmd) \subseteq Groups(cmd)
<1>1. PICK must, may : Table(cmd, must, may)
  BY Tables, TableCases
<1> QED BY <1>1 DEF Table

\* The flags of one parser.
LEMMA KnownGroups ==
    ASSUME NEW cmd \in OptionCommands
    PROVE  \/ Groups(cmd) \subseteq {Key, WrappingKey, Packet, Aad, In, Out, Password}
           \/ Groups(cmd) \subseteq {Plaintext, Key, WrappingKey, Packet, Aad, Out, Password}
<1> QED BY Tables, TableCases DEF Table

\* An option belongs to one flag of a parser.
LEMMA OneGroup ==
    ASSUME NEW cmd \in OptionCommands, NEW g \in Groups(cmd), NEW h \in Groups(cmd), NEW o, o \in g, o \in h
    PROVE  g = h
<1>1. CASE Groups(cmd) \subseteq {Key, WrappingKey, Packet, Aad, In, Out, Password}
  BY <1>1, GroupsApart
<1>2. CASE Groups(cmd) \subseteq {Plaintext, Key, WrappingKey, Packet, Aad, Out, Password}
  BY <1>2, GroupsApart
<1> QED BY <1>1, <1>2, KnownGroups

\* No flag of a parser is a flag of a standard stream.
LEMMA StreamFlagsApart ==
    ASSUME NEW cmd \in OptionCommands, NEW g \in Groups(cmd)
    PROVE  /\ g # InputIsStdin /\ g # OutputIsStdout
           /\ g \in {Key, WrappingKey, Packet, Plaintext, Aad, In, Out, Password}
<1>1. g \in {Key, WrappingKey, Packet, Plaintext, Aad, In, Out, Password}
  BY KnownGroups
<1> QED BY <1>1, FlagsApart

\* Packet commands may be given an output, verification never is.
LEMMA OutputGroup ==
    ASSUME NEW cmd \in OptionCommands
    PROVE  /\ cmd \in PacketCommands => Out \in Groups(cmd)
           /\ cmd \in VerifyCommands => "--out" \notin UNION Groups(cmd)
<1>1. cmd \in PacketCommands => Out \in Groups(cmd)
  BY Tables DEF PacketCommands, Table
<1>2. ASSUME cmd \in VerifyCommands PROVE "--out" \notin UNION Groups(cmd)
  <2>1. Groups(cmd) \subseteq {In, Key, Password, Aad}
    BY <1>2, Tables DEF VerifyCommands, Table
  <2>2. \A g \in {In, Key, Password, Aad} : "--out" \notin g
    BY DEF In, Key, Password, Aad
  <2> QED BY <2>1, <2>2
<1> QED BY <1>1, <1>2

\* A set of two.
LEMMA TwoElements ==
    ASSUME NEW x, NEW y, x # y
    PROVE  IsFiniteSet({x, y}) /\ Cardinality({x, y}) = 2
<1>1. IsFiniteSet({x}) /\ Cardinality({x}) = 1
  BY FS_Singleton
<1>2. /\ IsFiniteSet({x} \cup {y})
      /\ Cardinality({x} \cup {y}) = IF y \in {x} THEN Cardinality({x}) ELSE Cardinality({x}) + 1
  BY <1>1, FS_AddElement
<1>3. {x, y} = {x} \cup {y} /\ y \notin {x}
  OBVIOUS
<1> QED BY <1>1, <1>2, <1>3

\* A set of three.
LEMMA ThreeElements ==
    ASSUME NEW x, NEW y, NEW z, x # y, x # z, y # z
    PROVE  IsFiniteSet({x, y, z}) /\ Cardinality({x, y, z}) = 3
<1>1. IsFiniteSet({x, y}) /\ Cardinality({x, y}) = 2
  BY TwoElements
<1>2. /\ IsFiniteSet({x, y} \cup {z})
      /\ Cardinality({x, y} \cup {z}) = IF z \in {x, y} THEN Cardinality({x, y}) ELSE Cardinality({x, y}) + 1
  BY <1>1, FS_AddElement
<1>3. {x, y, z} = {x, y} \cup {z} /\ z \notin {x, y}
  OBVIOUS
<1> QED BY <1>1, <1>2, <1>3

\* The early look at argc counts the flags that are needed.
LEMMA MinPairsCount ==
    ASSUME NEW cmd \in OptionCommands
    PROVE  IsFiniteSet(Required(cmd)) /\ Cardinality(Required(cmd)) = MinPairs(cmd)
<1> USE DEF MinPairs, FileCommands, VerifyCommands, KeyFileCommands, PasswordCommands
<1>1. CASE \E x, y : x # y /\ Required(cmd) = {x, y} /\ MinPairs(cmd) = 2
  <2>1. PICK x, y : x # y /\ Required(cmd) = {x, y} /\ MinPairs(cmd) = 2
    BY <1>1
  <2> QED BY <2>1, TwoElements
<1>2. CASE \E x, y, z : x # y /\ x # z /\ y # z /\ Required(cmd) = {x, y, z} /\ MinPairs(cmd) = 3
  <2>1. PICK x, y, z : x # y /\ x # z /\ y # z /\ Required(cmd) = {x, y, z} /\ MinPairs(cmd) = 3
    BY <1>2
  <2>2. x # y /\ x # z /\ y # z
    BY <2>1
  <2>3. IsFiniteSet({x, y, z}) /\ Cardinality({x, y, z}) = 3
    BY <2>2, ThreeElements
  <2> QED BY <2>1, <2>3
<1>3. CASE cmd \in {"wrap-key", "unwrap-key", "encrypt", "decrypt"}
  <2>1. \/ Required(cmd) = {Key, WrappingKey} \/ Required(cmd) = {Packet, WrappingKey}
        \/ Required(cmd) = {Plaintext, Key} \/ Required(cmd) = {Packet, Key}
    BY <1>3, Tables DEF Table
  <2>2. MinPairs(cmd) = 2
    BY <1>3
  <2> QED BY <1>1, <2>1, <2>2, FlagsDiffer
<1>4. CASE cmd \in {"verify-file", "verify-file-password"}
  <2>1. Required(cmd) = {In, Key} \/ Required(cmd) = {In, Password}
    BY <1>4, Tables DEF Table
  <2>2. MinPairs(cmd) = 2
    BY <1>4
  <2> QED BY <1>1, <2>1, <2>2, FlagsDiffer
<1>5. CASE cmd \in {"seal-file", "open-file", "seal-file-password", "open-file-password"}
  <2>1. Required(cmd) = {In, Out, Key} \/ Required(cmd) = {In, Out, Password}
    BY <1>5, Tables DEF Table
  <2>2. MinPairs(cmd) = 3
    BY <1>5
  <2> QED BY <1>2, <2>1, <2>2, FlagsDiffer
<1> QED BY <1>3, <1>4, <1>5, TableCases

\* A parser knows few flags.
LEMMA GroupsFinite ==
    ASSUME NEW cmd \in OptionCommands
    PROVE  IsFiniteSet(Groups(cmd))
<1>1. IsFiniteSet({Aad}) /\ IsFiniteSet({Out}) /\ IsFiniteSet({Aad, Out})
  <2>1. Aad # Out
    BY FlagsDiffer
  <2> QED BY <2>1, FS_Singleton, TwoElements
<1>2. IsFiniteSet(Usage(cmd).may)
  BY <1>1, Tables, TableCases DEF Table
<1>3. IsFiniteSet(Required(cmd))
  BY MinPairsCount
<1>4. Groups(cmd) = Required(cmd) \cup Usage(cmd).may
  BY UsageIsParsed
<1> QED BY <1>2, <1>3, <1>4, FS_Union

-----------------------------------------------------------------------------
(* The invariant.                                                          *)

\* A result is there when the program is at its end, and the options are looked at by
\* the commands that have some.
ResultAtEnd ==
    /\ result = "none" <=> pc # "done"
    /\ pc = "dispatch" => argv = <<>> /\ has = {} /\ left = 0
    /\ pc = "options" => command \in OptionCommands
    /\ pc = "typing" => command \in TextCommands
    /\ pc \in {"fill", "print"} => command = "token"

\* The text is one of bytes, and shorter than the address space.
TextTyped == typed \in Seq(Bytes) /\ Len(typed) < MaxSize

\* The generator has drawn the bytes before its output pointer.
TokenDrawn ==
    /\ pc \in {"dispatch", "typing", "options"} => filled = {} /\ offset = 0 /\ remaining = 0
    /\ pc = "fill" => /\ filled = 1 .. offset
                      /\ offset + remaining = ParseSize(typed)
                      /\ remaining > 0
    /\ pc = "print" => filled = 1 .. ParseSize(typed)

\* The flags tell which options the parser has taken, and it has taken none twice.
OptionsTaken ==
    /\ argv \in Seq(Options \X {"good", "-"})
    /\ \A i \in DOMAIN argv : argv[i][1] \in UNION Groups(command)
    /\ \A i, j \in DOMAIN argv : \A g \in Groups(command) :
          argv[i][1] \in g /\ argv[j][1] \in g => i = j
    /\ \A g \in Groups(command) : g \in has <=> \E i \in DOMAIN argv : argv[i][1] \in g
    /\ InputIsStdin \in has <=> Given("--in", "-")
    /\ OutputIsStdout \in has <=> Given("--out", "-")

\* The inductive invariant.
ArgumentsInvariant ==
    /\ TypeOK
    /\ ResultAtEnd
    /\ TextTyped
    /\ TokenDrawn
    /\ pc = "options" => OptionsTaken
    /\ AcceptedAsDocumented
    /\ DeliveredAsDocumented
    /\ TokensAreFilled

-----------------------------------------------------------------------------
(* The tables of the usage text, and the arguments taken so far.           *)

\* The arguments that spell one flag.
Uses(group) == {i \in DOMAIN argv : argv[i][1] \in group}

\* What the usage text allows, in the words of the parser.
LEMMA AllowedAsParsed ==
    ASSUME command \in OptionCommands
    PROVE  UsageAllows <=>
              /\ \A i \in DOMAIN argv : argv[i][1] \in UNION Groups(command) /\ argv[i][2] # "bad"
              /\ \A g \in Groups(command) : Cardinality(Uses(g)) <= 1
              /\ left \in Cardinality({g \in Required(command) : Uses(g) = {}})
                       .. Cardinality({g \in Groups(command) : Uses(g) = {}})
BY UsageIsParsed DEF UsageAllows, Uses

\* Options that a parser has taken to the end are a command of the usage text.
LEMMA TakenIsAllowed ==
    ASSUME command \in OptionCommands, OptionsTaken, left = 0, Required(command) \subseteq has
    PROVE  UsageAllows
<1>0. IsFiniteSet(DOMAIN argv)
  BY FS_Interval DEF OptionsTaken
<1>1. ASSUME NEW i \in DOMAIN argv PROVE argv[i][1] \in UNION Groups(command) /\ argv[i][2] # "bad"
  BY DEF OptionsTaken
<1>2. ASSUME NEW g \in Groups(command) PROVE Cardinality(Uses(g)) <= 1
  <2>1. CASE Uses(g) = {}
    BY <2>1, FS_EmptySet
  <2>2. CASE \E i : Uses(g) = {i}
    <3>1. PICK i : Uses(g) = {i}
      BY <2>2
    <3>2. Cardinality({i}) = 1
      BY FS_Singleton
    <3> QED BY <3>1, <3>2
  <2>3. \A i, j \in Uses(g) : i = j
    BY DEF Uses, OptionsTaken
  <2> QED BY <2>1, <2>2, <2>3
<1>3. {g \in Required(command) : Uses(g) = {}} = {}
  BY UsageIsParsed DEF OptionsTaken, Uses
<1>4. Cardinality({g \in Groups(command) : Uses(g) = {}}) \in Nat
  <2>1. IsFiniteSet(Groups(command))
    BY GroupsFinite
  <2>2. {g \in Groups(command) : Uses(g) = {}} \in SUBSET Groups(command)
    OBVIOUS
  <2> QED BY <2>1, <2>2, FS_Subset, FS_CardinalityType
<1>5. 0 \in Cardinality({g \in Required(command) : Uses(g) = {}})
            .. Cardinality({g \in Groups(command) : Uses(g) = {}})
  BY <1>3, <1>4, FS_EmptySet
<1> QED BY <1>1, <1>2, <1>5, AllowedAsParsed

-----------------------------------------------------------------------------
(* Every step keeps the invariant.                                         *)

\* The first states.
LEMMA InitInvariant == Init => ArgumentsInvariant
<1> SUFFICES ASSUME Init PROVE ArgumentsInvariant
  OBVIOUS
<1> USE DEF Init
<1>0. MaxSize \in Nat /\ MaxPairs \in Nat /\ 0 < MaxSize
  <2>1. MaxSize \in Nat /\ MaxPairs \in Nat
    BY CodecsAssumption, ArgumentsAssumption
  <2>2. Len(Letters["token"]) < MaxSize /\ Len(Letters["token"]) \in Nat
    <3>1. "token" \in TextCommands
      BY DEF TextCommands
    <3> QED BY <3>1, ArgumentsAssumption
  <2> QED BY <2>1, <2>2
<1>1. TypeOK
  BY <1>0 DEF TypeOK, Range
<1>2. ResultAtEnd
  BY DEF ResultAtEnd
<1>3. TextTyped
  BY <1>0 DEF TextTyped
<1>4. TokenDrawn
  <2>1. 1 .. 0 = {}
    OBVIOUS
  <2> QED BY <2>1 DEF TokenDrawn
<1>5. AcceptedAsDocumented /\ DeliveredAsDocumented /\ TokensAreFilled
  BY DEF AcceptedAsDocumented, DeliveredAsDocumented, TokensAreFilled
<1> QED BY <1>1, <1>2, <1>3, <1>4, <1>5 DEF ArgumentsInvariant

\* A rejection.
LEMMA RejectedStep ==
    ASSUME ArgumentsInvariant, command' = command, command \in OptionCommands, End("rejected"),
           left' \in 0 .. MaxPairs, has' = has, UNCHANGED <<input, output, text>>, (~UsageAllows)'
    PROVE  ArgumentsInvariant'
<1> USE DEF ArgumentsInvariant, End
<1>1. TypeOK'
  BY DEF TypeOK, text
<1>2. ResultAtEnd'
  BY DEF ResultAtEnd
<1>3. TextTyped' /\ TokenDrawn'
  BY DEF TextTyped, TokenDrawn, text
<1>4. (pc = "options" => OptionsTaken)'
  OBVIOUS
<1>5. AcceptedAsDocumented' /\ DeliveredAsDocumented' /\ TokensAreFilled'
  BY DEF AcceptedAsDocumented, DeliveredAsDocumented, TokensAreFilled
<1> QED BY <1>1, <1>2, <1>3, <1>4, <1>5

\* A step of a command that has no options.
LEMMA FixedStep ==
    ASSUME ArgumentsInvariant, command' = command, command \notin OptionCommands,
           TypeOK', ResultAtEnd', TextTyped', TokenDrawn', TokensAreFilled'
    PROVE  ArgumentsInvariant'
<1>1. pc' # "options"
  BY DEF ResultAtEnd
<1>2. AcceptedAsDocumented' /\ DeliveredAsDocumented'
  BY DEF AcceptedAsDocumented, DeliveredAsDocumented
<1> QED BY <1>1, <1>2 DEF ArgumentsInvariant

\* Commands whose arguments have fixed places.
LEMMA DispatchStep ==
    ASSUME ArgumentsInvariant, Dispatch \/ DispatchUnknown
    PROVE  ArgumentsInvariant'
<1> USE DEF ArgumentsInvariant
<1>1. command' = command /\ command \notin OptionCommands /\ pc = "dispatch"
  BY CommandsApart DEF Dispatch, DispatchUnknown
<1>2. \/ pc' = "typing" /\ command \in TextCommands /\ UNCHANGED <<result, output>>
      \/ /\ \/ End("accepted") /\ command \notin TextCommands /\ output' \in {"write", "print"}
            \/ (End("failed") \/ End("rejected")) /\ UNCHANGED output
  BY DEF Dispatch, DispatchUnknown
<1>3. left' = left /\ has' = has /\ input' = input /\ text' = text
  BY DEF Dispatch, DispatchUnknown
<1>4. typed' = typed /\ filled' = filled /\ offset' = offset /\ remaining' = remaining
  BY <1>3 DEF text
<1> HIDE DEF ArgumentsInvariant
<1>5. TypeOK'
  BY <1>2, <1>3, <1>4 DEF ArgumentsInvariant, TypeOK, End
<1>6. ResultAtEnd'
  BY <1>1, <1>2, <1>3 DEF ArgumentsInvariant, ResultAtEnd, End
<1>7. TextTyped' /\ TokenDrawn'
  BY <1>1, <1>2, <1>4 DEF ArgumentsInvariant, TextTyped, TokenDrawn, End
<1>8. TokensAreFilled'
  BY <1>1, <1>2, <1>4 DEF ArgumentsInvariant, TokensAreFilled, End, ResultAtEnd, TextCommands
<1> QED BY <1>1, <1>5, <1>6, <1>7, <1>8, FixedStep

\* A character of the text.
LEMMA TypeStep ==
    ASSUME ArgumentsInvariant, Type
    PROVE  ArgumentsInvariant'
<1>1. pc = "typing" /\ command \in TextCommands /\ command \notin OptionCommands /\ result = "none"
  BY CommandsApart DEF ArgumentsInvariant, Type, ResultAtEnd
<1>2. PICK ch \in Letters[command][Len(typed) + 1] : typed' = Append(typed, ch)
  BY DEF Type
<1>3. typed \in Seq(Bytes) /\ Len(typed) \in Nat /\ Len(typed) < Len(Letters[command])
  BY DEF ArgumentsInvariant, TextTyped, Type
<1>4. Letters[command] \in Seq(SUBSET Bytes) /\ Len(Letters[command]) < MaxSize
  BY <1>1, ArgumentsAssumption
<1>5. ch \in Bytes
  <2>1. Len(typed) + 1 \in 1 .. Len(Letters[command])
    BY <1>3, <1>4
  <2> QED BY <1>4, <2>1
<1>6. typed' \in Seq(Bytes) /\ Len(typed') = Len(typed) + 1
  BY <1>2, <1>3, <1>5
<1>7. TextTyped'
  BY <1>3, <1>4, <1>6, CodecsAssumption DEF TextTyped
<1>8. Range(typed)' \subseteq Bytes
  BY <1>6 DEF Range
<1>9. TypeOK'
  BY <1>8 DEF ArgumentsInvariant, TypeOK, Type
<1>10. ResultAtEnd' /\ TokenDrawn' /\ TokensAreFilled'
  BY <1>1 DEF ArgumentsInvariant, ResultAtEnd, TokenDrawn, TokensAreFilled, Type
<1> QED BY <1>1, <1>7, <1>9, <1>10, FixedStep DEF Type

\* The text is converted, or it is not a text of that kind.
LEMMA ConvertStep ==
    ASSUME ArgumentsInvariant, Convert
    PROVE  ArgumentsInvariant'
<1>1. pc = "typing" /\ command \in TextCommands /\ command \notin OptionCommands /\ command # "token"
  BY CommandsApart DEF ArgumentsInvariant, Convert, ResultAtEnd
<1>2. pc' = "done" /\ result' \in {"accepted", "rejected"} /\ output' \in {"print", output}
  BY DEF Convert, End
<1>3. /\ command' = command /\ left' = left /\ has' = has /\ input' = input
      /\ typed' = typed /\ filled' = filled /\ offset' = offset /\ remaining' = remaining
  BY DEF Convert, text
<1>4. TypeOK'
  BY <1>2, <1>3 DEF ArgumentsInvariant, TypeOK
<1>5. ResultAtEnd' /\ TextTyped' /\ TokenDrawn' /\ TokensAreFilled'
  BY <1>1, <1>2, <1>3 DEF ArgumentsInvariant, ResultAtEnd, TextTyped, TokenDrawn, TokensAreFilled
<1> QED BY <1>1, <1>3, <1>4, <1>5, FixedStep

\* The size of a token is converted.
LEMMA ConvertSizeStep ==
    ASSUME ArgumentsInvariant, ConvertSize, ParseSize(typed) \in 0 .. MaxSize
    PROVE  ArgumentsInvariant'
<1>1. pc = "typing" /\ command = "token" /\ command \notin OptionCommands
  BY CommandsApart DEF ArgumentsInvariant, ConvertSize, TextCommands
<1>2. /\ command' = command /\ left' = left /\ has' = has /\ input' = input /\ output' = output
      /\ typed' = typed /\ filled' = filled /\ offset' = offset
  BY DEF ConvertSize
<1>3. \/ pc' = "done" /\ result' = "rejected" /\ remaining' = remaining
      \/ /\ pc' = "fill" /\ remaining' = ParseSize(typed) /\ result' = result
         /\ ParseSize(typed) # 0
  BY DEF ConvertSize, End
<1>4. TypeOK'
  BY <1>2, <1>3 DEF ArgumentsInvariant, TypeOK
<1>5. ResultAtEnd' /\ TextTyped' /\ TokensAreFilled'
  BY <1>1, <1>2, <1>3 DEF ArgumentsInvariant, ResultAtEnd, TextTyped, TokensAreFilled
<1>6. TokenDrawn'
  <2>1. filled = {} /\ offset = 0
    BY <1>1 DEF ArgumentsInvariant, TokenDrawn
  <2>2. 1 .. 0 = {} /\ CodecsAssumption
    BY CodecsAssumption
  <2> QED BY <1>2, <1>3, <2>1, <2>2 DEF TokenDrawn, CodecsAssumption
<1> QED BY <1>1, <1>2, <1>4, <1>5, <1>6, FixedStep

\* The parts of a size are sizes.
LEMMA PartsFit ==
    ASSUME NEW n \in Nat, NEW i \in Nat, NEW j \in Nat, i + j \in 0 .. n
    PROVE  i \in 0 .. n /\ j \in 0 .. n
OBVIOUS

\* One call of the generator.
LEMMA FillStep ==
    ASSUME ArgumentsInvariant, FillChunk
    PROVE  ArgumentsInvariant'
<1> DEFINE chunk == Min({remaining, IntMax})
           size == ParseSize(typed)
<1>0. pc = "fill" /\ command = "token" /\ command \notin OptionCommands
  BY CommandsApart DEF ArgumentsInvariant, FillChunk, ResultAtEnd, TextCommands
<1>1. /\ MaxSize \in Nat /\ IntMax \in Nat \ {0} /\ remaining \in 0 .. MaxSize /\ offset \in 0 .. MaxSize
      /\ filled = 1 .. offset /\ offset + remaining = size /\ remaining > 0
  BY <1>0, CodecsAssumption, ArgumentsAssumption DEF ArgumentsInvariant, TypeOK, TokenDrawn
<1>2. chunk = IF remaining <= IntMax THEN remaining ELSE IntMax
  BY <1>1 DEF Min
<1>3. /\ filled' = filled \cup (offset + 1) .. (offset + chunk) /\ offset' = offset + chunk
      /\ remaining' = remaining - chunk /\ pc' = (IF remaining = chunk THEN "print" ELSE "fill")
      /\ command' = command /\ left' = left /\ has' = has /\ result' = result /\ input' = input
      /\ output' = output /\ typed' = typed
  BY DEF FillChunk, OffsetAfter
<1> HIDE DEF chunk, size
<1>4. chunk \in 1 .. remaining
  BY <1>1, <1>2
<1>5. filled' = 1 .. offset' /\ offset' + remaining' = size
  BY <1>1, <1>3, <1>4
<1>6. size \in 0 .. MaxSize
  <2>1. typed \in Seq(Bytes)
    BY DEF ArgumentsInvariant, TextTyped
  <2>2. ParseSize(typed) \in 0 .. MaxSize
    BY <2>1, SizeFits
  <2> QED BY <2>2 DEF size
<1>7. TypeOK'
  <2>1. offset' \in Nat /\ remaining' \in Nat
    BY <1>1, <1>3, <1>4
  <2>2. offset' \in 0 .. MaxSize /\ remaining' \in 0 .. MaxSize
    <3>1. MaxSize \in Nat /\ offset' + remaining' \in 0 .. MaxSize
      BY <1>1, <1>5, <1>6
    <3> QED BY <2>1, <3>1, PartsFit
  <2>3. filled' \subseteq 1 .. MaxSize
    BY <1>5, <2>2, CodecsAssumption
  <2> QED BY <1>3, <2>2, <2>3 DEF ArgumentsInvariant, TypeOK
<1>8. TokenDrawn'
  <2>1. pc' = "print" => remaining' = 0 /\ offset' = size
    <3>1. offset' \in Nat
      BY <1>1, <1>3, <1>4
    <3> QED BY <1>1, <1>3, <1>4, <1>5, <3>1
  <2>2. pc' = "fill" => remaining' > 0
    BY <1>1, <1>3, <1>4
  <2>3. size' = size
    BY <1>3 DEF size
  <2> QED BY <1>3, <1>5, <2>1, <2>2, <2>3 DEF TokenDrawn, size
<1>9. ResultAtEnd' /\ TextTyped' /\ TokensAreFilled'
  BY <1>0, <1>3 DEF ArgumentsInvariant, ResultAtEnd, TextTyped, TokensAreFilled
<1> QED BY <1>0, <1>3, <1>7, <1>8, <1>9, FixedStep

\* The generator fails, or the token is printed.
LEMMA TokenEnds ==
    ASSUME ArgumentsInvariant, FillFails \/ PrintToken
    PROVE  ArgumentsInvariant'
<1>1. command = "token" /\ command \notin OptionCommands
  BY CommandsApart DEF ArgumentsInvariant, FillFails, PrintToken, ResultAtEnd, TextCommands
<1>2. /\ command' = command /\ left' = left /\ has' = has /\ input' = input
      /\ typed' = typed /\ filled' = filled /\ offset' = offset /\ remaining' = remaining
  BY DEF FillFails, PrintToken, text
<1>3. /\ pc' = "done" /\ output' \in {"print", output}
      /\ result' = "failed" \/ (result' = "accepted" /\ pc = "print")
  BY DEF FillFails, PrintToken, End
<1>4. TypeOK'
  BY <1>2, <1>3 DEF ArgumentsInvariant, TypeOK
<1>5. ResultAtEnd' /\ TextTyped' /\ TokenDrawn'
  BY <1>2, <1>3 DEF ArgumentsInvariant, ResultAtEnd, TextTyped, TokenDrawn
<1>6. TokensAreFilled'
  BY <1>2, <1>3 DEF ArgumentsInvariant, TokensAreFilled, TokenDrawn
<1> QED BY <1>1, <1>2, <1>4, <1>5, <1>6, FixedStep

\* The lemmas about the arguments hold of the next state too.
LEMMA AllowedNext ==
    ASSUME command' \in OptionCommands
    PROVE  UsageAllows' <=>
              /\ \A i \in DOMAIN argv' : argv'[i][1] \in UNION Groups(command') /\ argv'[i][2] # "bad"
              /\ \A g \in Groups(command') : Cardinality(Uses(g)') <= 1
              /\ left' \in Cardinality({g \in Required(command') : Uses(g)' = {}})
                       .. Cardinality({g \in Groups(command') : Uses(g)' = {}})
BY UsageIsParsed DEF UsageAllows, Uses

\* The number of the options is looked at before any of them.
LEMMA BeginStep ==
    ASSUME ArgumentsInvariant, BeginOptions
    PROVE  ArgumentsInvariant'
<1>1. PICK pairs \in 0 .. MaxPairs, lone \in BOOLEAN :
          /\ left' = pairs
          /\ argv' = IF lone THEN <<<<"lone", "good">>>> ELSE <<>>
          /\ IF lone \/ pairs < MinPairs(command)
             THEN End("rejected")
             ELSE pc' = "options" /\ UNCHANGED result
  BY DEF BeginOptions
<1>2. /\ pc = "dispatch" /\ command \in OptionCommands /\ command' = command /\ has' = has
      /\ UNCHANGED <<input, output, text>> /\ pairs \in Nat
  BY ArgumentsAssumption, <1>1 DEF BeginOptions
<1>3. has = {} /\ result = "none"
  BY <1>2 DEF ArgumentsInvariant, ResultAtEnd
<1>4. CASE lone
  <2>1. argv'[1][1] = "lone" /\ 1 \in DOMAIN argv'
    BY <1>1, <1>4
  <2>2. "lone" \notin UNION Groups(command)
    <3>1. \A g \in {Key, WrappingKey, Packet, Plaintext, Aad, In, Out, Password} : "lone" \notin g
      BY DEF Key, WrappingKey, Packet, Plaintext, Aad, In, Out, Password
    <3> QED BY <1>2, <3>1, StreamFlagsApart
  <2>3. (~UsageAllows)'
    BY <1>2, <2>1, <2>2, AllowedNext
  <2> QED BY <1>1, <1>2, <1>4, <2>3, RejectedStep
<1>5. CASE ~lone /\ pairs < MinPairs(command)
  <2>1. \A g : Uses(g)' = {}
    BY <1>1, <1>5 DEF Uses
  <2>2. {g \in Required(command) : Uses(g)' = {}} = Required(command)
    BY <2>1
  <2>3. Cardinality(Required(command)) = MinPairs(command) /\ MinPairs(command) \in Nat
    BY <1>2, MinPairsCount DEF MinPairs
  <2>4. (~UsageAllows)'
    <3>1. UsageAllows' => left' \in Cardinality(Required(command))
                                      .. Cardinality({g \in Groups(command) : Uses(g)' = {}})
      BY <1>2, <2>2, AllowedNext
    <3>2. UsageAllows' => Cardinality(Required(command)) <= left'
      BY <3>1
    <3> QED BY <1>1, <1>2, <1>5, <2>3, <3>2
  <2> QED BY <1>1, <1>2, <1>5, <2>4, RejectedStep
<1>6. CASE ~lone /\ ~(pairs < MinPairs(command))
  <2>1. argv' = <<>> /\ pc' = "options" /\ result' = result /\ left' = pairs
    BY <1>1, <1>6
  <2>2. OptionsTaken'
    <3>1. InputIsStdin \notin has' /\ OutputIsStdout \notin has'
      BY <1>2, <1>3
    <3> QED BY <1>2, <1>3, <2>1, <3>1 DEF OptionsTaken, Given
  <2>3. TypeOK' /\ ResultAtEnd' /\ TextTyped' /\ TokenDrawn'
    BY <1>2, <1>3, <2>1 DEF ArgumentsInvariant, TypeOK, ResultAtEnd, TextTyped, TokenDrawn, text
  <2>4. AcceptedAsDocumented' /\ DeliveredAsDocumented' /\ TokensAreFilled'
    BY <1>3, <2>1 DEF AcceptedAsDocumented, DeliveredAsDocumented, TokensAreFilled
  <2> QED BY <2>2, <2>3, <2>4 DEF ArgumentsInvariant
<1> QED BY <1>4, <1>5, <1>6

\* The flag of an option.
LEMMA GroupIsKnown ==
    ASSUME command \in OptionCommands, NEW option \in UNION Groups(command)
    PROVE  /\ GroupOf(option) \in Groups(command) /\ option \in GroupOf(option)
           /\ \A g \in Groups(command) : option \in g => g = GroupOf(option)
<1>1. GroupOf(option) \in Groups(command) /\ option \in GroupOf(option)
  BY DEF GroupOf
<1> QED BY <1>1, OneGroup

\* An argument that a parser does not take makes a command that is not of the usage text.
LEMMA NotTaken ==
    ASSUME command \in OptionCommands, OptionsTaken, command' = command,
           NEW option \in Options, NEW value \in {"good", "bad", "-"}, argv' = Append(argv, <<option, value>>),
           option \notin UNION Groups(command) \/ GroupOf(option) \in has \/ value = "bad"
    PROVE  (~UsageAllows)'
<1> DEFINE n == Len(argv) + 1
<1>0. argv \in Seq(Options \X {"good", "-"}) /\ Len(argv) \in Nat /\ DOMAIN argv = 1 .. Len(argv)
  BY DEF OptionsTaken
<1>1. /\ argv' \in Seq(Options \X {"good", "bad", "-"}) /\ n \in DOMAIN argv' /\ argv'[n] = <<option, value>>
      /\ \A i \in DOMAIN argv : i \in DOMAIN argv' /\ argv'[i] = argv[i] /\ i # n
  BY <1>0
<1> HIDE DEF n
<1>2. CASE option \notin UNION Groups(command) \/ value = "bad"
  BY <1>1, <1>2, AllowedNext
<1>3. CASE option \in UNION Groups(command) /\ GroupOf(option) \in has
  <2>1. PICK g \in Groups(command) : option \in g /\ g \in has
    BY <1>3, GroupIsKnown
  <2>2. PICK i \in DOMAIN argv : argv[i][1] \in g
    BY <2>1 DEF OptionsTaken
  <2>3. {i, n} \subseteq Uses(g)' /\ i # n
    BY <1>1, <2>1, <2>2 DEF Uses
  <2>4. IsFiniteSet(Uses(g)')
    <3>1. Uses(g)' \in SUBSET DOMAIN argv'
      BY DEF Uses
    <3>2. IsFiniteSet(1 .. Len(argv')) /\ DOMAIN argv' = 1 .. Len(argv')
      BY <1>1, FS_Interval
    <3> QED BY <3>1, <3>2, FS_Subset
  <2>5. Cardinality({i, n}) = 2
    BY <2>3, TwoElements
  <2>6. Cardinality({i, n}) <= Cardinality(Uses(g)') /\ Cardinality(Uses(g)') \in Nat
    BY <2>3, <2>4, FS_Subset, FS_CardinalityType
  <2>7. ~(Cardinality(Uses(g)') <= 1)
    BY <2>5, <2>6
  <2> QED BY <2>7, AllowedNext
<1> QED BY <1>2, <1>3

\* The branch of one option.
LEMMA TakeStep ==
    ASSUME ArgumentsInvariant, TakeOption
    PROVE  ArgumentsInvariant'
<1>0. /\ pc = "options" /\ command \in OptionCommands /\ command' = command /\ left' = left - 1 /\ left > 0
      /\ UNCHANGED <<input, output, text>> /\ OptionsTaken /\ result = "none" /\ left \in 0 .. MaxPairs
  BY DEF ArgumentsInvariant, ResultAtEnd, TypeOK, TakeOption
<1>1. left' \in 0 .. MaxPairs
  BY <1>0, ArgumentsAssumption
<1>2. PICK option \in Options : \E value \in Values(command, option) :
          /\ argv' = Append(argv, <<option, value>>)
          /\ IF \/ option \notin UNION Groups(command)
                \/ GroupOf(option) \in has
                \/ value = "bad"
             THEN End("rejected") /\ UNCHANGED has
             ELSE has' = has \cup SetFlags(option) \cup StreamFlags(option, value) /\ UNCHANGED <<pc, result>>
  BY DEF TakeOption
<1>3. PICK value \in {"good", "bad", "-"} :
          /\ argv' = Append(argv, <<option, value>>)
          /\ IF \/ option \notin UNION Groups(command)
                \/ GroupOf(option) \in has
                \/ value = "bad"
             THEN End("rejected") /\ UNCHANGED has
             ELSE has' = has \cup SetFlags(option) \cup StreamFlags(option, value) /\ UNCHANGED <<pc, result>>
  BY <1>2 DEF Values
<1>4. CASE option \notin UNION Groups(command) \/ GroupOf(option) \in has \/ value = "bad"
  <2>1. (~UsageAllows)'
    BY <1>0, <1>3, <1>4, NotTaken
  <2>2. End("rejected") /\ has' = has
    BY <1>3, <1>4
  <2> QED BY <1>0, <1>1, <2>1, <2>2, RejectedStep
<1>5. CASE option \in UNION Groups(command) /\ GroupOf(option) \notin has /\ value # "bad"
  <2>1. PICK group \in Groups(command) :
            /\ option \in group /\ group \notin has /\ \A g \in Groups(command) : option \in g => g = group
            /\ has' = has \cup {group} \cup StreamFlags(option, value)
    BY <1>0, <1>3, <1>5, GroupIsKnown DEF SetFlags
  <2>2. pc' = pc /\ result' = result
    BY <1>3, <1>5
  <2> DEFINE n == Len(argv) + 1
  <2>3. argv \in Seq(Options \X {"good", "-"}) /\ Len(argv) \in Nat /\ DOMAIN argv = 1 .. Len(argv)
    BY <1>0 DEF OptionsTaken
  <2>4. /\ argv' \in Seq(Options \X {"good", "-"}) /\ DOMAIN argv' = DOMAIN argv \cup {n} /\ n \notin DOMAIN argv
        /\ argv'[n] = <<option, value>> /\ \A i \in DOMAIN argv : argv'[i] = argv[i]
    BY <1>3, <1>5, <2>3
  <2> HIDE DEF n
  <2>5. OptionsTaken'
    <3>1. \A i \in DOMAIN argv' : argv'[i][1] \in UNION Groups(command)
      BY <1>0, <1>5, <2>4 DEF OptionsTaken
    <3>2. ASSUME NEW i \in DOMAIN argv', NEW j \in DOMAIN argv', NEW g \in Groups(command),
                 argv'[i][1] \in g, argv'[j][1] \in g
          PROVE  i = j
      <4>1. CASE i \in DOMAIN argv /\ j \in DOMAIN argv
        BY <1>0, <2>4, <3>2, <4>1 DEF OptionsTaken
      <4>2. CASE i = n /\ j = n
        BY <4>2
      <4>3. ASSUME NEW k \in DOMAIN argv, argv[k][1] \in g, option \in g PROVE FALSE
        <5>1. g = group /\ g \in has
          BY <1>0, <2>1, <4>3 DEF OptionsTaken
        <5> QED BY <2>1, <5>1
      <4> QED BY <2>4, <3>2, <4>1, <4>2, <4>3
    <3>3. ASSUME NEW g \in Groups(command)
          PROVE  g \in has' <=> \E i \in DOMAIN argv' : argv'[i][1] \in g
      <4>1. g # InputIsStdin /\ g # OutputIsStdout
        BY <1>0, StreamFlagsApart
      <4>2. g \in has' <=> g \in has \/ g = group
        BY <2>1, <4>1 DEF StreamFlags
      <4>3. g \in has <=> \E i \in DOMAIN argv : argv[i][1] \in g
        BY <1>0 DEF OptionsTaken
      <4>4. g = group <=> option \in g
        BY <2>1
      <4> QED BY <2>4, <4>2, <4>3, <4>4
    <3>4. group # InputIsStdin /\ group # OutputIsStdout /\ InputIsStdin # OutputIsStdout
      BY <1>0, StreamFlagsApart DEF InputIsStdin, OutputIsStdout
    <3>5. InputIsStdin \in has' <=> Given("--in", "-")'
      <4>1. InputIsStdin \in has' <=> InputIsStdin \in has \/ <<option, value>> = <<"--in", "-">>
        BY <2>1, <3>4 DEF StreamFlags
      <4>2. InputIsStdin \in has <=> \E i \in DOMAIN argv : argv[i] = <<"--in", "-">>
        BY <1>0 DEF OptionsTaken, Given
      <4> QED BY <2>4, <4>1, <4>2 DEF Given
    <3>6. OutputIsStdout \in has' <=> Given("--out", "-")'
      <4>1. OutputIsStdout \in has' <=> OutputIsStdout \in has \/ <<option, value>> = <<"--out", "-">>
        BY <2>1, <3>4 DEF StreamFlags
      <4>2. OutputIsStdout \in has <=> \E i \in DOMAIN argv : argv[i] = <<"--out", "-">>
        BY <1>0 DEF OptionsTaken, Given
      <4> QED BY <2>4, <4>1, <4>2 DEF Given
    <3> QED BY <1>0, <2>4, <3>1, <3>2, <3>3, <3>5, <3>6 DEF OptionsTaken
  <2>6. TypeOK'
    <3>1. group \in {Key, WrappingKey, Packet, Plaintext, Aad, In, Out, Password}
      BY <1>0, StreamFlagsApart
    <3>2. StreamFlags(option, value) \subseteq {InputIsStdin, OutputIsStdout}
      BY DEF StreamFlags
    <3> QED BY <1>0, <1>1, <2>1, <2>2, <3>1, <3>2 DEF ArgumentsInvariant, TypeOK, text
  <2>7. ResultAtEnd' /\ TextTyped' /\ TokenDrawn'
    BY <1>0, <2>2 DEF ArgumentsInvariant, ResultAtEnd, TextTyped, TokenDrawn, text
  <2>8. AcceptedAsDocumented' /\ DeliveredAsDocumented' /\ TokensAreFilled'
    BY <1>0, <2>2 DEF AcceptedAsDocumented, DeliveredAsDocumented, TokensAreFilled
  <2> QED BY <2>5, <2>6, <2>7, <2>8 DEF ArgumentsInvariant
<1> QED BY <1>4, <1>5

\* Where the result of a command goes, in the words of its options.
LEMMA Delivered ==
    ASSUME command \in OptionCommands, OptionsTaken
    PROVE  /\ command \in PacketCommands =>
                 (Out \in has <=> \E v \in {"good", "-"} : Given("--out", v))
           /\ command \in VerifyCommands => ~Given("--out", "-")
<1>1. ASSUME command \in PacketCommands
      PROVE  Out \in has <=> \E v \in {"good", "-"} : Given("--out", v)
  <2>1. Out \in has <=> \E i \in DOMAIN argv : argv[i][1] \in Out
    BY <1>1, OutputGroup DEF OptionsTaken
  <2>2. ASSUME NEW i \in DOMAIN argv
        PROVE  argv[i][1] \in Out <=> \E v \in {"good", "-"} : argv[i] = <<"--out", v>>
    <3>1. argv[i] \in Options \X {"good", "-"}
      BY DEF OptionsTaken
    <3> QED BY <3>1 DEF Out
  <2> QED BY <2>1, <2>2 DEF Given
<1>2. ASSUME command \in VerifyCommands PROVE ~Given("--out", "-")
  <2>1. "--out" \notin UNION Groups(command)
    BY <1>2, OutputGroup
  <2>2. \A i \in DOMAIN argv : argv[i][1] # "--out"
    BY <2>1 DEF OptionsTaken
  <2> QED BY <2>2 DEF Given
<1> QED BY <1>1, <1>2

\* The options are used up.
LEMMA EndStep ==
    ASSUME ArgumentsInvariant, EndOptions
    PROVE  ArgumentsInvariant'
<1>0. /\ pc = "options" /\ command \in OptionCommands /\ command' = command /\ left' = left /\ left = 0
      /\ UNCHANGED <<argv, has, text>> /\ OptionsTaken /\ command # "token" /\ 0 \in 0 .. MaxPairs
  BY CommandsApart, ArgumentsAssumption DEF ArgumentsInvariant, ResultAtEnd, EndOptions, TextCommands
<1>1. CASE Required(command) \subseteq has
  <2>1. /\ pc' = "done" /\ result' = "accepted" /\ output' = Destination
        /\ input' = IF command \in FileCommands
                    THEN IF InputIsStdin \in has /\ Destination # "library" THEN "stdin" ELSE "file"
                    ELSE "none"
    BY <1>1 DEF EndOptions, End
  <2>2. UsageAllows'
    <3>1. UsageAllows
      BY <1>0, <1>1, TakenIsAllowed
    <3> QED BY <1>0, <3>1 DEF UsageAllows
  <2>3. DeliveredAsDocumented'
    <3>1. /\ InputIsStdin \in has <=> Given("--in", "-")
          /\ OutputIsStdout \in has <=> Given("--out", "-")
      BY <1>0 DEF OptionsTaken
    <3>2. command \in PacketCommands \/ command \in FileCommands \ VerifyCommands \/ command \in VerifyCommands
      BY <1>0 DEF OptionCommands
    <3>3. VerifyCommands \subseteq FileCommands /\ PacketCommands \cap FileCommands = {}
      BY CommandsApart DEF VerifyCommands, FileCommands, KeyFileCommands, PasswordCommands
    <3>4. \A o, v : Given(o, v)' <=> Given(o, v)
      BY <1>0 DEF Given
    <3>5. CASE command \in PacketCommands
      <4>1. output' = (IF Out \in has THEN "write" ELSE "print") /\ input' = "none"
        BY <2>1, <3>3, <3>5 DEF Destination
      <4>2. Out \in has <=> \E v \in {"good", "-"} : Given("--out", v)
        BY <1>0, <3>5, Delivered
      <4> QED BY <1>0, <3>3, <3>4, <3>5, <4>1, <4>2 DEF DeliveredAsDocumented
    <3>6. CASE command \in VerifyCommands
      <4>1. output' = "discard" /\ input' = IF InputIsStdin \in has THEN "stdin" ELSE "file"
        BY <2>1, <3>3, <3>6 DEF Destination
      <4>2. ~Given("--out", "-")
        BY <1>0, <3>6, Delivered
      <4> QED BY <1>0, <3>1, <3>3, <3>4, <3>6, <4>1, <4>2 DEF DeliveredAsDocumented
    <3>7. CASE command \in FileCommands \ VerifyCommands
      <4>1. output' = IF InputIsStdin \notin has /\ OutputIsStdout \notin has THEN "library"
                      ELSE IF OutputIsStdout \in has THEN "stdout" ELSE "pipe"
        BY <2>1, <3>3, <3>7 DEF Destination, UsesStandardStream
      <4>2. input' = IF InputIsStdin \in has THEN "stdin" ELSE "file"
        BY <2>1, <3>7, <4>1
      <4> QED BY <1>0, <3>1, <3>3, <3>4, <3>7, <4>1, <4>2 DEF DeliveredAsDocumented
    <3> QED BY <3>2, <3>5, <3>6, <3>7
  <2>4. AcceptedAsDocumented'
    BY <1>0, <2>1, <2>2 DEF AcceptedAsDocumented
  <2>5. TypeOK'
    <3>1. output' \in {"none", "print", "write", "stdout", "pipe", "library", "discard"}
      BY <2>1 DEF Destination
    <3>2. input' \in {"none", "stdin", "file"}
      BY <2>1
    <3> QED BY <1>0, <2>1, <3>1, <3>2 DEF ArgumentsInvariant, TypeOK, text
  <2>6. ResultAtEnd' /\ TextTyped' /\ TokenDrawn' /\ TokensAreFilled'
    BY <1>0, <2>1 DEF ArgumentsInvariant, ResultAtEnd, TextTyped, TokenDrawn, TokensAreFilled, text
  <2> QED BY <2>1, <2>3, <2>4, <2>5, <2>6 DEF ArgumentsInvariant
<1>2. CASE ~(Required(command) \subseteq has)
  <2>1. End("rejected") /\ input' = input /\ output' = output
    BY <1>2 DEF EndOptions
  <2>2. PICK g \in Required(command) : g \notin has
    BY <1>2
  <2>3. Uses(g) = {}
    BY <1>0, <2>2, UsageIsParsed DEF OptionsTaken, Uses
  <2>4. ~UsageAllows
    <3> DEFINE U == {h \in Required(command) : Uses(h) = {}}
    <3>1. g \in U /\ U \in SUBSET Required(command)
      BY <2>3
    <3>2. IsFiniteSet(U)
      BY <1>0, <3>1, MinPairsCount, FS_Subset
    <3>3. Cardinality(U) \in Nat /\ Cardinality(U) # 0
      BY <3>1, <3>2, FS_CardinalityType, FS_EmptySet
    <3>4. UsageAllows => left \in Cardinality(U) .. Cardinality({h \in Groups(command) : Uses(h) = {}})
      BY <1>0, AllowedAsParsed
    <3>5. UsageAllows => Cardinality(U) <= left
      BY <3>4
    <3> HIDE DEF U
    <3> QED BY <1>0, <3>3, <3>5
  <2>5. (~UsageAllows)'
    BY <1>0, <2>4 DEF UsageAllows
  <2> QED BY <1>0, <2>1, <2>5, RejectedStep
<1> QED BY <1>1, <1>2

\* Every step of the command line.
LEMMA NextInvariant == ArgumentsInvariant /\ [Next]_vars => ArgumentsInvariant'
<1> SUFFICES ASSUME ArgumentsInvariant, [Next]_vars PROVE ArgumentsInvariant'
  OBVIOUS
<1>1. CASE Dispatch \/ DispatchUnknown
  BY <1>1, DispatchStep
<1>2. CASE Type
  BY <1>2, TypeStep
<1>3. CASE Convert
  BY <1>3, ConvertStep
<1>4. CASE ConvertSize
  <2>1. typed \in Seq(Bytes)
    BY DEF ArgumentsInvariant, TextTyped
  <2>2. ParseSize(typed) \in 0 .. MaxSize
    BY <2>1, SizeFits
  <2> QED BY <1>4, <2>2, ConvertSizeStep
<1>5. CASE FillChunk
  BY <1>5, FillStep
<1>6. CASE FillFails \/ PrintToken
  BY <1>6, TokenEnds
<1>7. CASE BeginOptions
  BY <1>7, BeginStep
<1>8. CASE TakeOption
  BY <1>8, TakeStep
<1>9. CASE EndOptions
  BY <1>9, EndStep
<1>10. CASE UNCHANGED vars
  <2>1. TypeOK' /\ ResultAtEnd' /\ TextTyped' /\ TokenDrawn' /\ TokensAreFilled'
    BY <1>10 DEF ArgumentsInvariant, vars, TypeOK, ResultAtEnd, TextTyped, TokenDrawn, TokensAreFilled
  <2>2. (pc = "options" => OptionsTaken)'
    BY <1>10 DEF ArgumentsInvariant, vars, OptionsTaken, Given
  <2>3. AcceptedAsDocumented' /\ DeliveredAsDocumented'
    BY <1>10 DEF ArgumentsInvariant, vars, AcceptedAsDocumented, DeliveredAsDocumented, UsageAllows, Given
  <2> QED BY <2>1, <2>2, <2>3 DEF ArgumentsInvariant
<1> QED BY <1>1, <1>2, <1>3, <1>4, <1>5, <1>6, <1>7, <1>8, <1>9, <1>10 DEF Next, Finished

\* What the parsers know of their arguments is so in every reachable state.
THEOREM ArgumentsInvariantHolds == Spec => []ArgumentsInvariant
<1>1. Init => ArgumentsInvariant
  BY InitInvariant
<1>2. ArgumentsInvariant /\ [Next]_vars => ArgumentsInvariant'
  BY NextInvariant
<1> QED BY <1>1, <1>2, PTL DEF Spec

\* The states of the command line have their types, the bytes of a token among them.
THEOREM ArgumentsTypeOK == Spec => []TypeOK
<1>1. ArgumentsInvariant => TypeOK
  BY DEF ArgumentsInvariant
<1> QED BY <1>1, ArgumentsInvariantHolds, PTL

\* A command line is accepted in every order of the documented options and no other, and
\* a rejected one could not have been completed.
THEOREM OptionsAreAsDocumented == Spec => []AcceptedAsDocumented
<1>1. ArgumentsInvariant => AcceptedAsDocumented
  BY DEF ArgumentsInvariant
<1> QED BY <1>1, ArgumentsInvariantHolds, PTL

\* The result of an accepted command goes where its options say, whatever their order.
THEOREM ResultsGoAsDocumented == Spec => []DeliveredAsDocumented
<1>1. ArgumentsInvariant => DeliveredAsDocumented
  BY DEF ArgumentsInvariant
<1> QED BY <1>1, ArgumentsInvariantHolds, PTL

\* However many calls of the generator a token takes, they draw all of its bytes.
THEOREM TokensAreDrawn == Spec => []TokensAreFilled
<1>1. ArgumentsInvariant => TokensAreFilled
  BY DEF ArgumentsInvariant
<1> QED BY <1>1, ArgumentsInvariantHolds, PTL

-----------------------------------------------------------------------------
(* What is typed.                                                          *)

\* Every text that can be typed is read as it was written.
LEMMA TypedRoundTrips == TextTyped => RoundTrips
<1> SUFFICES ASSUME TextTyped PROVE RoundTrips
  OBVIOUS
<1>0. typed \in Seq(Bytes) /\ Len(typed) \in Nat /\ Len(typed) < MaxSize /\ MaxSize \in Nat
  BY CodecsAssumption DEF TextTyped
<1>1. HexDecode(HexEncode(typed)) = typed /\ Base64Decode(Base64Encode(typed)) = typed
      /\ Base64UrlDecode(Base64UrlEncode(typed)) = typed
  BY <1>0, HexRoundTrip, Base64RoundTrip, Base64UrlRoundTrip
<1>2. Len(typed) = KeySize => KeyFromFile(KeyFile(typed)) = typed
  BY <1>0, KeyFileRoundTrip
<1>3. ConstantTimeEqual(typed, typed)
  BY <1>0, ComparesExactly
<1>4. \A back \in {HexDecode(HexEncode(typed)), Base64Decode(Base64Encode(typed)),
                      Base64UrlDecode(Base64UrlEncode(typed))}
            \cup (IF Len(typed) = KeySize THEN {KeyFromFile(KeyFile(typed))} ELSE {}) :
          back = typed /\ ConstantTimeEqual(back, typed)
  BY <1>1, <1>2, <1>3
<1>5. /\ \A b \in {0, Len(typed)} : ConstantTimeEqual(Append(typed, b), typed) <=> Append(typed, b) = typed
      /\ \A i \in DOMAIN typed : \A b \in {0, 1, 255} :
            ConstantTimeEqual(Changed(typed, i, b), typed) <=> Changed(typed, i, b) = typed
  <2>1. \A b \in {0, 1, 255} : b \in Bytes
    BY DEF Bytes
  <2> QED BY <1>0, <2>1, OthersDiffer
<1>6. \A other \in {Append(typed, b) : b \in {0, Len(typed)}}
            \cup {Changed(typed, i, b) : i \in DOMAIN typed, b \in {0, 1, 255}} :
          ConstantTimeEqual(other, typed) <=> other = typed
  <2> DEFINE Same(other) == ConstantTimeEqual(other, typed) <=> other = typed
  <2>1. /\ \A b \in {0, Len(typed)} : Same(Append(typed, b))
        /\ \A i \in DOMAIN typed : \A b \in {0, 1, 255} : Same(Changed(typed, i, b))
    BY <1>5
  <2> HIDE DEF Same
  <2>2. \A other \in {Append(typed, b) : b \in {0, Len(typed)}} : Same(other)
    BY <2>1
  <2>3. \A other \in {Changed(typed, i, b) : i \in DOMAIN typed, b \in {0, 1, 255}} : Same(other)
    BY <2>1
  <2> QED BY <2>2, <2>3 DEF Same
<1>7. {Changed(typed, i, b) : i \in DOMAIN typed, b \in {0, 1, 255}}
          = {[typed EXCEPT ![i] = b] : i \in DOMAIN typed, b \in {0, 1, 255}}
  BY DEF Changed
<1> QED BY <1>4, <1>6, <1>7 DEF RoundTrips

\* Whatever is typed, each decoder reads what its encoder writes of it, and it compares
\* equal to itself alone.
THEOREM TextsRoundTrip == Spec => []RoundTrips
<1>1. ArgumentsInvariant => RoundTrips
  BY TypedRoundTrips DEF ArgumentsInvariant
<1> QED BY <1>1, ArgumentsInvariantHolds, PTL

\* Whatever is typed, the decoders of hexadecimal digits, base64, base64url, key files and
\* sizes accept what spells a byte string, a key or a number, read bit by bit, and throw
\* for everything else.
THEOREM DecodersAcceptSpellings == Spec => []DecodersAreStrict
<1>1. ASSUME TextTyped PROVE DecodersAreStrict
  <2>1. typed \in Seq(Bytes)
    BY <1>1 DEF TextTyped
  <2> QED BY <2>1, HexDecoded, Base64Decoded, KeyDecoded, SizeDecoded DEF DecodersAreStrict
<1>2. ArgumentsInvariant => DecodersAreStrict
  BY <1>1 DEF ArgumentsInvariant
<1> QED BY <1>2, ArgumentsInvariantHolds, PTL
=============================================================================
