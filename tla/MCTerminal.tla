----------------------------- MODULE MCTerminal -----------------------------
(***************************************************************************)
(* A screen of two rows of three columns, which one character, two tabs or *)
(* a line break fill; messages are single characters, since a longer       *)
(* string is written as its characters are, one by one.                    *)
(***************************************************************************)
EXTENDS Terminal

MCGlyphs == {"a"}
MCColors == {"light grey", "red"}
MCBanner == <<"a", "LF">>
MCMessages == {<<c>> : c \in Chars}

=============================================================================
