----------------------------- MODULE MCConsole ------------------------------
(***************************************************************************)
(* Three texts of the callers' own; strings without a line end, with bare  *)
(* line feeds and with a CR of their own; levels reach one past each end   *)
(* of the range, exceptions one past the table of names.                   *)
(***************************************************************************)
EXTENDS Console

MCTexts == OwnTexts \cup {"text", "row 1", "row 2"}
MCStrings == {<<"text">>, <<"text", LF>>, <<LF, "text", LF>>, <<"text", CR, LF, "text">>}
MCDumps == {<<>>, <<"row 1", "row 2">>}
MCLogLevels == -1 .. 6
MCExceptions == {31, 32}

=============================================================================
