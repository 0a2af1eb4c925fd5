--------------------------- MODULE MCCliArguments ---------------------------
(***************************************************************************)
(* Texts for the text commands: at each position the characters next to    *)
(* every boundary that the code compares a character with.                 *)
(***************************************************************************)
EXTENDS CliArguments

\* Bytes with every bit of a base64 group at 0 and at 1.
MCBytes == {0, 1, 3, 4, 15, 16, 62, 63, 64, 127, 128, 192, 240, 252, 255}

\* '/' '0' '9' ':' '@' 'A' 'F' 'G' '`' 'a' 'f' 'g' space newline
MCHex == {47, 48, 57, 58, 64, 65, 70, 71, 96, 97, 102, 103, 32, 10}

\* '*' '+' ',' '-' '/' '0' '9' ':' '=' '@' 'A' 'Q' 'Z' '[' '_' '`' 'a' 'z' '{'
MCBase64 == {42, 43, 44, 45, 47, 48, 57, 58, 61, 64, 65, 81, 90, 91, 95, 96, 97, 122, 123}

\* Two base64 groups, padded anywhere: every text is read by every decoder.
MCPadded == [i \in 1 .. 8 |-> IF i = 1 THEN {65} ELSE IF i = 2 THEN {65, 81} ELSE {65, Equals}]

MCLetters == [cmd \in TextCommands |->
    CASE cmd = "hex-encode" -> MCPadded
      [] cmd = "hex-decode" -> <<MCHex, MCHex, MCHex, {48, 10}>>
      [] cmd = "base64url-encode" -> <<MCBytes, MCBytes, {0, 63, 128, 255}, {0, 255}>>
      [] cmd = "base64url-decode" ->
            <<MCBase64, {65, 66, 81, 45, 95, 61}, {65, 69, 95, 61}, {65, 95, 61}>>
      [] cmd = "token" -> <<{47, 48, 49, 58, 43}, {48, 49, 57}, {48, 53, 54}>>]
=============================================================================
