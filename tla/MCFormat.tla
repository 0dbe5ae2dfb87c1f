------------------------------ MODULE MCFormat ------------------------------
(***************************************************************************)
(* Numbers of eight bits, with both ends of their range; all formats of up *)
(* to three pieces, a piece being a character, a conversion, a doubled or  *)
(* a trailing percent sign or a letter the formatters do not know; sizes   *)
(* and buffers from nothing to more than most results need.                *)
(***************************************************************************)
EXTENDS Format

MCInts == {-128, -7, 0, 127}
MCUnsigneds == {0, 10, 255}
MCPointers == {0, 10}
MCStrings == {Null, <<>>, <<"h", "i">>}
MCChars == {"b"}
MCCharacter == OwnCharacters \cup {"h", "p", "s", "X", "z"}
MCPieces == {<<"a">>, <<"%", "d">>, <<"%", "u">>, <<"%", "x">>, <<"%", "X">>, <<"%", "p">>,
             <<"%", "s">>, <<"%", "c">>, <<"%", "%">>, <<"%", "z">>, <<"%">>}
MCFormats == {<<>>} \cup MCPieces \cup {p \o q : p, q \in MCPieces}
               \cup {p \o q \o r : p, q, r \in MCPieces}
MCSizes == 0 .. 7
MCPrefixes == {<<>>, <<"E", " ">>}
MCRowSizes == {1, 2}

=============================================================================
