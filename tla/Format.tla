------------------------------- MODULE Format -------------------------------
(***************************************************************************)
(* vsnprintf of kernel/kernel/debug.c, one step per turn of its loop, with *)
(* the callers that give it a buffer: snprintf, the debug line with prefix *)
(* and line end, debug_print, and a row of debug_hex_dump, which is put    *)
(* together by many calls.                                                 *)
(*                                                                         *)
(* A character is a string; a pointer argument is a number, 0 for NULL.    *)
(* The limits of the 32 byte digit buffers are left out: no number of the  *)
(* kernel is so long.                                                      *)
(***************************************************************************)
EXTENDS Integers, SequencesExt

CONSTANTS
  Width,             \* bits of an int (32)
  Character,         \* what texts are made of: not the terminator, "NUL", and not
                     \* "?", the mark of a byte that was never written
  Ints, Unsigneds, Pointers, Strings, Chars, \* the arguments callers pass
  Null,              \* the string argument NULL
  Formats,           \* the formats callers pass
  Sizes,             \* the sizes passed to snprintf
  LevelPrefixes,     \* level_prefix
  DEBUG_BUFFER_SIZE, \* 1024
  LineSize,          \* sizeof(line) in debug_hex_dump (128)
  BytesPerRow,       \* 16
  RowSizes           \* how many bytes of a row there are

INT_MIN == -(2 ^ (Width - 1))

(* The characters that the code itself writes. *)
OwnCharacters ==
  {"0", "1", "2", "3", "4", "5", "6", "7", "8", "9", "a", "b", "c", "d", "e", "f", "A", "B", "C",
   "D", "E", "F", "/", ".", "-", ",", "+", "*", ")", "(", "'", "x", "n", "i", "l", "u", "%", " ",
   ":", "|", "CR", "LF"}

ASSUME FormatAssumption ==
  /\ Width \in Nat \ {0} /\ Width % 4 = 0
  /\ Ints \subseteq INT_MIN .. (-INT_MIN - 1)
  /\ Unsigneds \cup Pointers \subseteq 0 .. (2 ^ Width - 1)
  /\ OwnCharacters \cup Chars \subseteq Character
  /\ Character \cap {"NUL", "?"} = {}
  /\ Strings \ {Null} \subseteq Seq(Character)
  /\ Formats \cup LevelPrefixes \subseteq Seq(Character)
  /\ Sizes \cup RowSizes \subseteq Nat
  /\ DEBUG_BUFFER_SIZE \in Nat /\ DEBUG_BUFFER_SIZE >= 3
  /\ \A p \in LevelPrefixes : Len(p) + 3 <= DEBUG_BUFFER_SIZE
  /\ LineSize \in 1 .. (2 ^ Width - 1)
  /\ BytesPerRow \in Nat

VARIABLES
  caller,   \* whose buffer it is, or "nobody"
  buf,      \* the buffer, and two bytes behind it
  at,       \* how much the caller has put there before this call
  size,     \* the arguments of vsnprintf
  format,
  output_index,
  todo,     \* the formats of the calls to come, for a row of a dump
  phase,    \* "formatting", "returned" or "done"
  full      \* what the call would have stored in an endless buffer

vars == <<caller, buf, at, size, format, output_index, todo, phase, full>>

-----------------------------------------------------------------------------
(* Conversions. *)

(* The digits of n, as the loops of % and / find them, in reading order. *)
Numeral(n, base) ==
  LET digits[m \in 0 .. n] ==
        IF m < base THEN <<m>> ELSE Append(digits[m \div base], m % base)
  IN  digits[n]

LowerDigits == <<"0", "1", "2", "3", "4", "5", "6", "7", "8", "9", "a", "b", "c", "d", "e", "f">>
UpperDigits == <<"0", "1", "2", "3", "4", "5", "6", "7", "8", "9", "A", "B", "C", "D", "E", "F">>

(* '0' + d for the digits d = 0, -1 .. -9 of a negative number. *)
BelowZero == <<"0", "/", ".", "-", ",", "+", "*", ")", "(", "'">>

In(alphabet, numeral) == [i \in DOMAIN numeral |-> alphabet[numeral[i] + 1]]

(* -value is undefined for INT_MIN: it stays negative and so do its digits, *)
(* or the compiler takes the result for the positive number it cannot be.   *)
SignedTexts(v) ==
  IF v >= 0 THEN {In(LowerDigits, Numeral(v, 10))}
  ELSE {<<"-">> \o In(alphabet, Numeral(-v, 10)) :
          alphabet \in {LowerDigits} \cup (IF v = INT_MIN THEN {BelowZero} ELSE {})}

Padded(numeral) == [i \in 1 .. (Width \div 4 - Len(numeral)) |-> 0] \o numeral

PointerText(v) ==
  IF v = 0 THEN <<"(", "n", "i", "l", ")">>
  ELSE <<"0", "x">> \o In(LowerDigits, Padded(Numeral(v, 16)))

StringText(s) == IF s = Null THEN <<"(", "n", "u", "l", "l", ")">> ELSE s

Specifiers == {"d", "i", "u", "x", "X", "p", "s", "c"}

Arguments(spec) ==
  CASE spec \in {"d", "i"} -> Ints
    [] spec \in {"u", "x", "X"} -> Unsigneds
    [] spec = "p" -> Pointers
    [] spec = "s" -> Strings
    [] spec = "c" -> Chars

Texts(spec, v) ==
  CASE spec \in {"d", "i"} -> SignedTexts(v)
    [] spec = "u" -> {In(LowerDigits, Numeral(v, 10))}
    [] spec = "x" -> {<<"0", "x">> \o In(LowerDigits, Numeral(v, 16))}
    [] spec = "X" -> {<<"0", "x">> \o In(UpperDigits, Numeral(v, 16))}
    [] spec = "p" -> {PointerText(v)}
    [] spec = "s" -> {StringText(v)}
    [] spec = "c" -> {<<v>>}

-----------------------------------------------------------------------------
(* vsnprintf. *)

RoomWithoutTerminator == size - output_index

Room == size - 1 - output_index

Store(text, from) ==
  buf' = [i \in DOMAIN buf |-> IF i - from \in 0 .. (Len(text) - 1)
                               THEN text[i - from + 1] ELSE buf[i]]

EmitsReversed(text) ==
  LET part == SubSeq(Reverse(text), 1, Min({Len(text), Room}))
  IN  /\ Store(part, at + output_index)
      /\ output_index' = output_index + Len(part)

(* Copies what there is room for. *)
Emit(text) ==
  LET part == SubSeq(text, 1, Min({Len(text), Room}))
  IN  /\ Store(part, at + output_index)
      /\ output_index' = output_index + Len(part)

(* Turn n characters of the format into what they stand for. *)
Turn(n, text) ==
  /\ phase = "formatting" /\ size > 1 /\ Room > 0
  /\ format' = SubSeq(format, n + 1, Len(format))
  /\ full' = full \o text
  /\ UNCHANGED <<caller, at, size, todo, phase>>

Literal ==
  /\ format # <<>> /\ format[1] # "%"
  /\ Emit(<<format[1]>>)
  /\ Turn(1, <<format[1]>>)

TrailingPercent ==
  /\ format = <<"%">>
  /\ Turn(1, <<>>)
  /\ UNCHANGED <<buf, output_index>>

DoublePercent ==
  /\ Len(format) >= 2 /\ format[1] = "%" /\ format[2] = "%"
  /\ Emit(<<"%">>)
  /\ Turn(2, <<"%">>)

(* "0x" is written whole or, with the number behind it, not at all. *)
NeedsTwo(spec, v) == spec \in {"x", "X"} \/ (spec = "p" /\ v # 0)

Conversion ==
  /\ Len(format) >= 2 /\ format[1] = "%" /\ format[2] \in Specifiers
  /\ \E v \in Arguments(format[2]) :
       \E text \in Texts(format[2], v) :
         /\ IF NeedsTwo(format[2], v) /\ Room < 2
            THEN UNCHANGED <<buf, output_index>> ELSE Emit(text)
         /\ Turn(2, text)

(* A width or an unknown letter: both characters are copied, and what       *)
(* follows is ordinary text.                                                *)
Unsupported ==
  /\ Len(format) >= 2 /\ format[1] = "%" /\ format[2] \notin Specifiers \cup {"%"}
  /\ Emit(SubSeq(format, 1, 2))
  /\ Turn(2, SubSeq(format, 1, 2))

LoopEnds == format = <<>> \/ size <= 1 \/ Room <= 0

(* Terminates the string; without any room there is nothing to terminate. *)
Return ==
  /\ phase = "formatting" /\ LoopEnds
  /\ IF size = 0 THEN UNCHANGED buf ELSE Store(<<"NUL">>, at + output_index)
  /\ phase' = "returned"
  /\ UNCHANGED <<caller, at, size, format, output_index, todo, full>>

WouldHaveStored == Len(full) + Len(format)

(* It answers what it has stored, not what it would have. *)
message_len == output_index

-----------------------------------------------------------------------------
(* The callers. *)

(* A buffer of n bytes that starts with before; the first call's size and   *)
(* format, and the formats of the calls after it.                           *)
Begin(who, n, before, bytes, formats) ==
  /\ caller' = who
  /\ buf' = [i \in 0 .. (n + 1) |-> IF i < Len(before) THEN before[i + 1] ELSE "?"]
  /\ at' = Len(before)
  /\ size' = bytes
  /\ format' = Head(formats)
  /\ todo' = Tail(formats)
  /\ phase' = "formatting"
  /\ UNCHANGED <<output_index, full>>

(* panicf is this with 256 bytes. *)
snprintf(n, f) == Begin("snprintf", n, <<>>, n, <<f>>)

ReservesOne(prefix) == DEBUG_BUFFER_SIZE - Len(prefix) - 1

(* Room for CR and LF. *)
MessageSize(prefix) == DEBUG_BUFFER_SIZE - Len(prefix) - 2

debug_format_and_write(prefix, f) ==
  Begin("debug_format_and_write", DEBUG_BUFFER_SIZE, prefix, MessageSize(prefix), <<f>>)

(* The line end, behind the message or at the last place for it. *)
AddLineEnd ==
  /\ caller = "debug_format_and_write" /\ phase = "returned"
  /\ Store(<<"CR", "LF", "NUL">>, Min({at + message_len, DEBUG_BUFFER_SIZE - 3}))
  /\ phase' = "done"
  /\ UNCHANGED <<caller, at, size, format, output_index, todo, full>>

debug_vprint(f) ==
  Begin("debug_vprint", DEBUG_BUFFER_SIZE, <<>>, DEBUG_BUFFER_SIZE - 1, <<f>>)

Terminate ==
  /\ caller \in {"debug_vprint", "snprintf"} /\ phase = "returned"
  /\ IF caller = "snprintf" THEN UNCHANGED buf
     ELSE Store(<<"NUL">>, Min({message_len, DEBUG_BUFFER_SIZE - 1}))
  /\ phase' = "done"
  /\ UNCHANGED <<caller, at, size, format, output_index, todo, full>>

(* The formats for a row of n bytes: the address, each byte or its blanks,  *)
(* a gap in the middle, and the characters.                                 *)
RowFormats(n, printable) ==
  LET hex(j) == IF j <= n THEN <<<<"%", "0", "2", "x", " ">>>> ELSE <<<<" ", " ", " ">>>>
      gap(j) == IF j = BytesPerRow \div 2 THEN <<<<" ">>>> ELSE <<>>
      columns == FlattenSeq([j \in 1 .. BytesPerRow |-> hex(j) \o gap(j)])
      characters == [j \in 1 .. n |-> IF printable THEN <<"%", "c">> ELSE <<".">>]
  IN  <<<<"%", "0", "8", "x", ":", " ">>>> \o columns \o <<<<"|", " ">>>>
        \o characters \o <<<<" ", "|">>>>

debug_hex_dump(n, printable) == Begin("debug_hex_dump", LineSize, <<>>, LineSize, RowFormats(n, printable))

(* line_pos += snprintf(line + line_pos, sizeof(line) - line_pos, ...), in   *)
(* unsigned arithmetic.                                                     *)
NextColumn ==
  /\ caller = "debug_hex_dump" /\ phase = "returned"
  /\ at' = at + message_len
  /\ IF todo = <<>> THEN phase' = "done" /\ UNCHANGED <<size, format, todo>>
     ELSE /\ size' = (LineSize - at') % (2 ^ Width)
          /\ format' = Head(todo)
          /\ todo' = Tail(todo)
          /\ phase' = "formatting"
  /\ output_index' = 0 /\ full' = <<>>
  /\ UNCHANGED <<caller, buf>>

-----------------------------------------------------------------------------
Init ==
  /\ caller = "nobody" /\ phase = "done"
  /\ buf = [i \in 0 .. 1 |-> "?"]
  /\ at = 0 /\ size = 0 /\ output_index = 0
  /\ format = <<>> /\ todo = <<>> /\ full = <<>>

vsnprintf ==
  \/ Literal \/ TrailingPercent \/ DoublePercent \/ Conversion \/ Unsupported \/ Return

Called ==
  \/ \E f \in Formats, n \in Sizes : snprintf(n, f)
  \/ \E f \in Formats, prefix \in LevelPrefixes : debug_format_and_write(prefix, f)
  \/ \E f \in Formats : debug_vprint(f)
  \/ \E n \in RowSizes, printable \in BOOLEAN : debug_hex_dump(n, printable)

Next ==
  \/ caller = "nobody" /\ Called
  \/ vsnprintf
  \/ AddLineEnd \/ Terminate \/ NextColumn

Spec == Init /\ [][Next]_vars

-----------------------------------------------------------------------------
Capacity == Cardinality(DOMAIN buf) - 2

(* What the last call has stored. *)
Stored == [i \in 1 .. output_index |-> buf[at + i - 1]]

(* The index stays below the size, the buffer holds characters. *)
TypeOK ==
  /\ caller \in {"nobody", "snprintf", "debug_format_and_write", "debug_vprint", "debug_hex_dump"}
  /\ phase \in {"formatting", "returned", "done"}
  /\ DOMAIN buf = 0 .. (Capacity + 1)
  /\ \A i \in DOMAIN buf : buf[i] \in Character \cup {"NUL", "?"}
  /\ output_index \in 0 .. Max({0, size - 1})
  /\ at \in Nat /\ size \in Nat

(* Nothing is stored behind the buffer, and no call is given a size that     *)
(* reaches behind it: not by the prefix and the line end that share 1024     *)
(* bytes with the message, and not by the growing line_pos of a dump's row.  *)
StaysInBuffer ==
  /\ \A i \in DOMAIN buf : i >= Capacity => buf[i] = "?"
  /\ phase = "formatting" => at + size <= Capacity

(* What the caller has added to the message, and where the string ends. *)
LineEnd == IF caller = "debug_format_and_write" THEN <<"CR", "LF">> ELSE <<>>
EndOfString == at + message_len + Len(LineEnd)

(* Whatever the format and however small the buffer, the caller is left with *)
(* a string that ends where vsnprintf says, inside the buffer; a debug line  *)
(* has its CR and LF at the end even when the message was cut.               *)
ResultIsString ==
  phase = "done" /\ Capacity > 0 =>
    /\ EndOfString < Capacity
    /\ buf[EndOfString] = "NUL"
    /\ \A i \in DOMAIN buf : i < EndOfString => buf[i] \notin {"NUL", "?"}
    /\ \A i \in DOMAIN LineEnd : buf[at + message_len + i - 1] = LineEnd[i]

(* A result is cut, never garbled: it is the start of the full text, and all *)
(* of it if it fits. Only the very last place may hold a later character, in *)
(* the place of a number whose "0x" did not fit.                             *)
CutNotGarbled ==
  phase = "returned" /\ size > 1 =>
    \/ IsPrefix(Stored, full) /\ (format = <<>> /\ Len(full) < size => Stored = full)
    \/ output_index = size - 1 /\ IsPrefix(Front(Stored), full) /\ Len(full) >= size

=============================================================================
