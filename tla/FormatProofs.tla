---------------------------- MODULE FormatProofs ----------------------------
(***************************************************************************)
(* Theorems about Format, for every format, every argument, every size of  *)
(* buffer and every width of an int.                                       *)
(***************************************************************************)
EXTENDS Format, Induction, FiniteSetTheorems

(* The buffer each caller works with, and the part of it that it passes on. *)
CallerInv ==
  /\ caller = "nobody" => phase = "done" /\ Capacity = 0 /\ output_index = 0 /\ full = <<>>
  /\ caller = "snprintf" => at = 0 /\ size = Capacity
  /\ caller = "debug_format_and_write" =>
       Capacity = DEBUG_BUFFER_SIZE /\ at + size + 2 = Capacity /\ size >= 1
  /\ caller = "debug_vprint" => Capacity = DEBUG_BUFFER_SIZE /\ at = 0 /\ size = Capacity - 1
  /\ caller = "debug_hex_dump" =>
       /\ Capacity = LineSize
       /\ phase # "done" => at + size = Capacity /\ size >= 1

(* Behind the buffer nothing has been written; what the caller and the call *)
(* have put there are characters, and a call that is over has terminated    *)
(* them.                                                                    *)
ContentInv ==
  /\ \A i \in DOMAIN buf : i >= Capacity => buf[i] = "?"
  /\ \A i \in 0 .. (at + output_index - 1) : i \in DOMAIN buf /\ buf[i] \in Character
  /\ phase = "returned" /\ size >= 1 => buf[at + output_index] = "NUL"

(* The call has stored the first n characters of the full text. *)
Shows(n) == n <= Len(full) /\ \A i \in 1 .. n : buf[at + i - 1] = full[i]

(* All of it; or as much as fits; or, after a number whose "0x" did not     *)
(* fit, all but the last place, or that and one later character.            *)
CutInv ==
  phase # "done" /\ size > 1 =>
    \/ output_index = Len(full) /\ Shows(output_index)
    \/ output_index = size - 1 /\ Shows(output_index)
    \/ output_index = size - 2 /\ Shows(output_index) /\ Len(full) >= size
    \/ output_index = size - 1 /\ Shows(output_index - 1) /\ Len(full) >= size

FormatInv ==
  /\ TypeOK
  /\ Capacity \in Nat
  /\ format \in Seq(Character) /\ todo \in Seq(Seq(Character)) /\ full \in Seq(Character)
  /\ CallerInv
  /\ ContentInv
  /\ ResultIsString
  /\ CutInv

-----------------------------------------------------------------------------
(* The lesser and the greater of two numbers. *)
LEMMA MinMax ==
  ASSUME NEW a \in Int, NEW b \in Int
  PROVE  /\ Min({a, b}) = IF a <= b THEN a ELSE b
         /\ Max({a, b}) = IF a >= b THEN a ELSE b
<1>1. \E x \in {a, b} : \A y \in {a, b} : x =< y
  OBVIOUS
<1>2. Min({a, b}) \in {a, b} /\ \A y \in {a, b} : Min({a, b}) =< y
  BY <1>1, Zenon DEF Min
<1>3. \E x \in {a, b} : \A y \in {a, b} : x >= y
  OBVIOUS
<1>4. Max({a, b}) \in {a, b} /\ \A y \in {a, b} : Max({a, b}) >= y
  BY <1>3, Zenon DEF Max
<1> QED
  BY <1>2, <1>4

(* The capacity of a buffer of n bytes is n: two more are modelled. *)
LEMMA CapacityIs ==
  ASSUME NEW n \in Nat, NEW b, DOMAIN b = 0 .. (n + 1)
  PROVE  Cardinality(DOMAIN b) - 2 = n
<1>1. Cardinality(0 .. (n + 1)) = n + 2
  BY FS_Interval
<1> QED
  BY <1>1

(* A numeral is a sequence of digits, and not empty. *)
LEMMA NumeralFacts ==
  ASSUME NEW n \in Nat, NEW base \in {10, 16}
  PROVE  Numeral(n, base) \in Seq(0 .. (base - 1)) /\ Len(Numeral(n, base)) >= 1
<1> DEFINE D == {s \in Seq(0 .. (base - 1)) : Len(s) >= 1}
           Step(g, m) == IF m < base THEN <<m>> ELSE Append(g[m \div base], m % base)
           Solves(g, m) == g \in [0 .. m -> D] /\ \A k \in 0 .. m : g[k] = Step(g, k)
           S == {m \in Nat : \E g : Solves(g, m)}
<1>1. \A m \in Nat : /\ m \div base \in Nat /\ m % base \in 0 .. (base - 1)
                     /\ m >= base => m \div base < m
  <2>1. CASE base = 10
    BY <2>1
  <2>2. CASE base = 16
    BY <2>2
  <2> QED
    BY <2>1, <2>2
<1>2. base \in Nat /\ base >= 10
  OBVIOUS
<1>3. \A m \in 0 .. (base - 1) : <<m>> \in D
  OBVIOUS
<1>4. \A s \in D : \A d \in 0 .. (base - 1) : Append(s, d) \in D
  BY AppendProperties
<1> HIDE DEF D
<1>5. 0 \in S
  <2> DEFINE g == [k \in 0 .. 0 |-> <<0>>]
  <2>1. <<0>> \in D
    BY <1>2, <1>3
  <2>2. Solves(g, 0)
    BY <1>2, <2>1
  <2> HIDE DEF g, Solves
  <2> QED
    BY <2>2
<1>6. ASSUME NEW m \in Nat, m \in S  PROVE m + 1 \in S
  <2>1. PICK f : Solves(f, m)
    BY <1>6
  <2> DEFINE g == [k \in 0 .. (m + 1) |-> IF k <= m THEN f[k] ELSE Step(f, m + 1)]
  <2>2. Step(f, m + 1) \in D
    <3>1. CASE m + 1 < base
      BY <1>2, <1>3, <3>1
    <3>2. CASE ~(m + 1 < base)
      <4>1. (m + 1) \div base \in 0 .. m /\ (m + 1) % base \in 0 .. (base - 1)
        BY <1>1, <1>2, <3>2
      <4> QED
        BY <1>4, <2>1, <3>2, <4>1
    <3> QED
      BY <3>1, <3>2
  <2>3. g \in [0 .. (m + 1) -> D]
    <3> HIDE DEF Step
    <3> QED
      BY <2>1, <2>2
  <2>4. ASSUME NEW k \in 0 .. (m + 1)  PROVE g[k] = Step(g, k)
    <3>1. g[k] = Step(f, k)
      <4> HIDE DEF Step
      <4>1. CASE k <= m
        BY <2>1, <4>1
      <4>2. CASE k = m + 1
        BY <4>2
      <4> QED
        BY <4>1, <4>2
    <3>2. ~(k < base) => k \div base \in 0 .. m
      BY <1>1, <1>2
    <3>3. ~(k < base) => g[k \div base] = f[k \div base]
      BY <3>2
    <3> HIDE DEF g
    <3> QED
      BY <3>1, <3>3
  <2>5. Solves(g, m + 1)
    <3> HIDE DEF g, Step
    <3> QED
      BY <2>3, <2>4
  <2> HIDE DEF g, Solves
  <2> QED
    BY <2>5
<1>7. n \in S
  <2> HIDE DEF S
  <2> QED
    BY <1>5, <1>6, SetInduction
<1>8. PICK f : Solves(f, n)
  BY <1>7
<1> DEFINE Equation(g) == g = [m \in 0 .. n |-> IF m < base THEN <<m>>
                                                ELSE Append(g[m \div base], m % base)]
           digits == CHOOSE g : Equation(g)
<1>9. Equation(f)
  BY <1>8
<1>10. Equation(digits)
  <2> HIDE DEF Equation
  <2> QED
    BY <1>9, Zenon
<1>11. Numeral(n, base) = digits[n]
  BY DEF Numeral
<1>12. digits = [m \in 0 .. n |-> IF m < base THEN <<m>>
                                  ELSE Append(digits[m \div base], m % base)]
  BY <1>10
<1> HIDE DEF digits, Equation
<1> DEFINE R == {m \in Nat : \A k \in 0 .. m : k <= n => digits[k] \in D}
<1>13. 0 \in R
  BY <1>2, <1>3, <1>12
<1>14. ASSUME NEW m \in Nat, m \in R  PROVE m + 1 \in R
  <2> SUFFICES ASSUME m + 1 <= n  PROVE digits[m + 1] \in D
    BY <1>14
  <2>1. CASE m + 1 < base
    BY <1>2, <1>3, <1>12, <2>1
  <2>2. CASE ~(m + 1 < base)
    <3>1. (m + 1) \div base \in 0 .. m /\ (m + 1) % base \in 0 .. (base - 1)
          /\ (m + 1) \div base <= n
      BY <1>1, <1>2, <2>2
    <3>2. digits[(m + 1) \div base] \in D
      BY <1>14, <3>1
    <3>3. digits[m + 1] = Append(digits[(m + 1) \div base], (m + 1) % base)
      <4>1. m + 1 \in 0 .. n
        OBVIOUS
      <4> QED
        BY <1>12, <2>2, <4>1, Zenon
    <3> QED
      BY <1>4, <3>1, <3>2, <3>3
  <2> QED
    BY <2>1, <2>2
<1>15. Nat \subseteq R
  <2> HIDE DEF R
  <2> QED
    BY <1>13, <1>14, SetInduction
<1>16. digits[n] \in D
  BY <1>15
<1> QED
  BY <1>11, <1>16 DEF D

(* The digits are characters. *)
LEMMA AlphabetFacts ==
  /\ \A d \in 0 .. 15 : LowerDigits[d + 1] \in Character /\ UpperDigits[d + 1] \in Character
  /\ \A d \in 0 .. 9 : BelowZero[d + 1] \in Character
<1>1. OwnCharacters \subseteq Character
  BY FormatAssumption
<1>2. LowerDigits \in Seq(OwnCharacters) /\ Len(LowerDigits) = 16
  BY DEF LowerDigits, OwnCharacters
<1>3. UpperDigits \in Seq(OwnCharacters) /\ Len(UpperDigits) = 16
  BY DEF UpperDigits, OwnCharacters
<1>4. BelowZero \in Seq(OwnCharacters) /\ Len(BelowZero) = 10
  BY DEF BelowZero, OwnCharacters
<1>5. \A d \in 0 .. 15 : d + 1 \in 1 .. 16
  OBVIOUS
<1>6. \A d \in 0 .. 9 : d + 1 \in 1 .. 10
  OBVIOUS
<1> QED
  BY <1>1, <1>2, <1>3, <1>4, <1>5, <1>6, ElementOfSeq

(* A text of the code's own characters is a text. *)
LEMMA OwnTexts ==
  ASSUME NEW text \in Seq(OwnCharacters)
  PROVE  text \in Seq(Character)
<1>1. OwnCharacters \subseteq Character
  BY FormatAssumption
<1> QED
  BY <1>1

(* A numeral is written with as many characters. *)
LEMMA InFacts ==
  ASSUME NEW top \in Nat, NEW numeral \in Seq(0 .. top), NEW alphabet,
         \A d \in 0 .. top : alphabet[d + 1] \in Character
  PROVE  In(alphabet, numeral) \in Seq(Character) /\ Len(In(alphabet, numeral)) = Len(numeral)
<1>1. Len(numeral) \in Nat /\ DOMAIN numeral = 1 .. Len(numeral)
      /\ \A i \in 1 .. Len(numeral) : numeral[i] \in 0 .. top
  BY ElementOfSeq
<1>2. In(alphabet, numeral) \in [1 .. Len(numeral) -> Character]
  BY <1>1 DEF In
<1> QED
  BY <1>1, <1>2

(* A text in two parts. *)
LEMMA TwoParts ==
  ASSUME NEW a \in Seq(Character), NEW b \in Seq(Character)
  PROVE  a \o b \in Seq(Character) /\ Len(a \o b) = Len(a) + Len(b)
BY ConcatProperties

(* Decimal and hexadecimal numbers. *)
LEMMA NumberText ==
  ASSUME NEW v \in Nat
  PROVE  /\ In(LowerDigits, Numeral(v, 10)) \in Seq(Character)
         /\ In(BelowZero, Numeral(v, 10)) \in Seq(Character)
         /\ In(LowerDigits, Numeral(v, 16)) \in Seq(Character)
         /\ In(UpperDigits, Numeral(v, 16)) \in Seq(Character)
         /\ In(LowerDigits, Padded(Numeral(v, 16))) \in Seq(Character)
<1>1. Numeral(v, 10) \in Seq(0 .. 9)
  BY NumeralFacts, 10 - 1 = 9
<1>2. Numeral(v, 16) \in Seq(0 .. 15)
  BY NumeralFacts, 16 - 1 = 15
<1>3. Padded(Numeral(v, 16)) \in Seq(0 .. 15)
  <2> DEFINE d == Numeral(v, 16)
             k == Width \div 4 - Len(d)
             zeros == [i \in 1 .. k |-> 0]
  <2>1. k \in Int
    BY <1>2, FormatAssumption
  <2> HIDE DEF k, d
  <2>2. zeros \in Seq(0 .. 15)
    <3>1. CASE k >= 0
      <4>1. zeros \in [1 .. k -> 0 .. 15]
        OBVIOUS
      <4> QED
        BY <2>1, <3>1, <4>1
    <3>2. CASE k < 0
      <4>1. 1 .. k = 1 .. 0
        BY <2>1, <3>2
      <4>2. zeros \in [1 .. 0 -> 0 .. 15]
        BY <4>1
      <4> HIDE DEF zeros
      <4> QED
        BY <4>2
    <3> QED
      BY <2>1, <3>1, <3>2
  <2>3. d \in Seq(0 .. 15)
    BY <1>2 DEF d
  <2>4. zeros \o d \in Seq(0 .. 15)
    <3> HIDE DEF zeros
    <3> QED
      BY <2>2, <2>3, ConcatProperties
  <2> QED
    BY <2>4 DEF Padded, d, k
<1>4. /\ \A d \in 0 .. 15 : LowerDigits[d + 1] \in Character
      /\ \A d \in 0 .. 15 : UpperDigits[d + 1] \in Character
      /\ \A d \in 0 .. 9 : LowerDigits[d + 1] \in Character
      /\ \A d \in 0 .. 9 : BelowZero[d + 1] \in Character
  BY AlphabetFacts
<1>5. 9 \in Nat /\ 15 \in Nat
  OBVIOUS
<1> QED
  BY <1>1, <1>2, <1>3, <1>4, <1>5, InFacts

(* What a conversion writes are characters, and at least two of them where  *)
(* vsnprintf asks for room for two.                                         *)
LEMMA TextFacts ==
  ASSUME NEW spec \in Specifiers, NEW v \in Arguments(spec), NEW text \in Texts(spec, v)
  PROVE  text \in Seq(Character) /\ (NeedsTwo(spec, v) => Len(text) >= 2)
<1> DEFINE zerox == <<"0", "x">>
<1>1. zerox \in Seq(Character) /\ Len(zerox) = 2 /\ <<"-">> \in Seq(Character)
  <2>1. zerox \in Seq(OwnCharacters) /\ Len(zerox) = 2 /\ <<"-">> \in Seq(OwnCharacters)
    BY DEF OwnCharacters
  <2> HIDE DEF zerox
  <2> QED
    BY <2>1, OwnTexts
<1>2. ASSUME NEW t \in Seq(Character)
      PROVE  zerox \o t \in Seq(Character) /\ Len(zerox \o t) >= 2
  <2> HIDE DEF zerox
  <2>1. zerox \o t \in Seq(Character) /\ Len(zerox \o t) = Len(zerox) + Len(t)
    BY <1>1, TwoParts
  <2>2. Len(t) \in Nat
    OBVIOUS
  <2> QED
    BY <1>1, <2>1, <2>2
<1>3. CASE spec \in {"d", "i"}
  <2>1. v \in Int /\ text \in SignedTexts(v) /\ ~NeedsTwo(spec, v)
    BY <1>3, FormatAssumption DEF Arguments, Texts, NeedsTwo
  <2>2. CASE v >= 0
    BY <2>1, <2>2, NumberText DEF SignedTexts
  <2>3. CASE ~(v >= 0)
    <3>1. -v \in Nat
      BY <2>1, <2>3
    <3>2. \/ text = <<"-">> \o In(LowerDigits, Numeral(-v, 10))
          \/ text = <<"-">> \o In(BelowZero, Numeral(-v, 10))
      BY <2>1, <2>3 DEF SignedTexts
    <3> QED
      BY <1>1, <2>1, <3>1, <3>2, NumberText, TwoParts
  <2> QED
    BY <2>2, <2>3
<1>4. CASE spec \in {"u", "x", "X"}
  <2>1. v \in Nat
    BY <1>4, FormatAssumption DEF Arguments
  <2>2. CASE spec = "u"
    <3>1. text = In(LowerDigits, Numeral(v, 10)) /\ ~NeedsTwo(spec, v)
      BY <2>2 DEF Texts, NeedsTwo
    <3> QED
      BY <2>1, <3>1, NumberText
  <2>3. CASE spec = "x"
    <3>1. text = zerox \o In(LowerDigits, Numeral(v, 16))
      BY <2>3 DEF Texts
    <3> QED
      BY <2>1, <3>1, <1>2, NumberText
  <2>4. CASE spec = "X"
    <3>1. text = zerox \o In(UpperDigits, Numeral(v, 16))
      BY <2>4 DEF Texts
    <3> QED
      BY <2>1, <3>1, <1>2, NumberText
  <2> QED
    BY <1>4, <2>2, <2>3, <2>4
<1>5. CASE spec = "p"
  <2>1. v \in Nat /\ text = PointerText(v)
    BY <1>5, FormatAssumption DEF Arguments, Texts
  <2>2. CASE v = 0
    <3>1. <<"(", "n", "i", "l", ")">> \in Seq(OwnCharacters)
      BY DEF OwnCharacters
    <3>2. text = <<"(", "n", "i", "l", ")">> /\ ~NeedsTwo(spec, v)
      BY <1>5, <2>1, <2>2 DEF PointerText, NeedsTwo
    <3> QED
      BY <3>1, <3>2, OwnTexts
  <2>3. CASE v # 0
    <3>1. text = zerox \o In(LowerDigits, Padded(Numeral(v, 16)))
      BY <2>1, <2>3 DEF PointerText
    <3> QED
      BY <2>1, <3>1, <1>2, NumberText
  <2> QED
    BY <2>2, <2>3
<1>6. CASE spec = "s"
  <2>1. v \in Strings /\ text = StringText(v) /\ ~NeedsTwo(spec, v)
    BY <1>6 DEF Arguments, Texts, NeedsTwo
  <2>2. CASE v = Null
    <3>1. <<"(", "n", "u", "l", "l", ")">> \in Seq(OwnCharacters)
      BY DEF OwnCharacters
    <3> QED
      BY <2>1, <2>2, <3>1, OwnTexts DEF StringText
  <2>3. CASE v # Null
    BY <2>1, <2>3, FormatAssumption DEF StringText
  <2> QED
    BY <2>2, <2>3
<1>7. CASE spec = "c"
  <2>1. v \in Character /\ text = <<v>> /\ ~NeedsTwo(spec, v)
    BY <1>7, FormatAssumption DEF Arguments, Texts, NeedsTwo
  <2> QED
    BY <2>1
<1> QED
  BY <1>3, <1>4, <1>5, <1>6, <1>7 DEF Specifiers

(* The formats of a row are formats, and there is one at least. *)
LEMMA RowFacts ==
  ASSUME NEW n \in Nat, NEW printable \in BOOLEAN
  PROVE  RowFormats(n, printable) \in Seq(Seq(Character)) /\ Len(RowFormats(n, printable)) >= 1
<1> DEFINE W == Seq(Character)
           hex(j) == IF j <= n THEN <<<<"%", "0", "2", "x", " ">>>> ELSE <<<<" ", " ", " ">>>>
           gap(j) == IF j = BytesPerRow \div 2 THEN <<<<" ">>>> ELSE <<>>
           cells == [j \in 1 .. BytesPerRow |-> hex(j) \o gap(j)]
           characters == [j \in 1 .. n |-> IF printable THEN <<"%", "c">> ELSE <<".">>]
<1>1. /\ <<"%", "0", "2", "x", " ">> \in W /\ <<" ", " ", " ">> \in W /\ <<" ">> \in W
      /\ <<"%", "c">> \in W /\ <<".">> \in W /\ <<"%", "0", "8", "x", ":", " ">> \in W
      /\ <<"|", " ">> \in W /\ <<" ", "|">> \in W
  <2> DEFINE O == Seq(OwnCharacters)
  <2>1. <<"%", "0", "2", "x", " ">> \in O /\ <<" ", " ", " ">> \in O /\ <<" ">> \in O
    BY DEF OwnCharacters
  <2>2. <<"%", "c">> \in O /\ <<".">> \in O /\ <<"%", "0", "8", "x", ":", " ">> \in O
    BY DEF OwnCharacters
  <2>3. <<"|", " ">> \in O /\ <<" ", "|">> \in O
    BY DEF OwnCharacters
  <2>4. \A t \in O : t \in W
    BY OwnTexts
  <2> HIDE DEF O, W
  <2> QED
    BY <2>1, <2>2, <2>3, <2>4
<1> HIDE DEF W
<1>0. \A t \in W : <<t>> \in Seq(W) /\ Len(<<t>>) = 1
  OBVIOUS
<1>2. \A j \in 1 .. BytesPerRow : hex(j) \in Seq(W) /\ gap(j) \in Seq(W)
  <2>1. <<>> \in Seq(W)
    OBVIOUS
  <2> QED
    BY <1>0, <1>1, <2>1, Zenon
<1>3. \A u, v \in Seq(W) : u \o v \in Seq(W)
  BY ConcatProperties
<1>4. BytesPerRow \in Nat
  BY FormatAssumption
<1>5. cells \in Seq(Seq(W)) /\ Len(cells) = BytesPerRow
  <2> HIDE DEF hex, gap
  <2>1. cells \in [1 .. BytesPerRow -> Seq(W)]
    BY <1>2, <1>3
  <2> HIDE DEF cells
  <2> QED
    BY <1>4, <2>1
<1> HIDE DEF cells
<1>6. FlattenSeq(cells) \in Seq(W)
  <2>1. CASE BytesPerRow = 0
    BY <1>5, <2>1 DEF FlattenSeq
  <2>2. CASE BytesPerRow # 0
    <3>1. Len(cells) > 0 /\ Seq(W) \in SUBSET Seq(W)
      BY <1>4, <1>5, <2>2
    <3> QED
      BY <1>3, <1>5, <3>1, FlattenClosed
  <2> QED
    BY <2>1, <2>2
<1>7. characters \in Seq(W)
  <2>1. characters \in [1 .. n -> W]
    BY <1>1
  <2> HIDE DEF characters
  <2> QED
    BY <2>1
<1> DEFINE first == <<<<"%", "0", "8", "x", ":", " ">>>>
           bar == <<<<"|", " ">>>>
           last == <<<<" ", "|">>>>
<1>8. first \in Seq(W) /\ Len(first) = 1 /\ bar \in Seq(W) /\ last \in Seq(W)
  BY <1>0, <1>1, Zenon
<1> DEFINE rest == FlattenSeq(cells)
<1>9. RowFormats(n, printable) = (((first \o rest) \o bar) \o characters) \o last
  BY DEF RowFormats, cells
<1> HIDE DEF first, bar, last, characters, rest
<1>10. /\ first \o rest \in Seq(W) /\ (first \o rest) \o bar \in Seq(W)
       /\ ((first \o rest) \o bar) \o characters \in Seq(W)
       /\ (((first \o rest) \o bar) \o characters) \o last \in Seq(W)
  BY <1>3, <1>6, <1>7, <1>8 DEF rest
<1>11. ASSUME NEW u \in Seq(W), NEW v \in Seq(W), Len(u) >= 1
       PROVE  Len(u \o v) >= 1
  <2>1. Len(u \o v) = Len(u) + Len(v) /\ Len(u) \in Nat /\ Len(v) \in Nat
    BY ConcatProperties
  <2> QED
    BY <1>11, <2>1
<1>12. /\ Len(first \o rest) >= 1 /\ Len((first \o rest) \o bar) >= 1
       /\ Len(((first \o rest) \o bar) \o characters) >= 1
       /\ Len((((first \o rest) \o bar) \o characters) \o last) >= 1
  <2>0. rest \in Seq(W) /\ Len(first) >= 1
    BY <1>6, <1>8 DEF rest
  <2>1. Len(first \o rest) >= 1
    BY <1>8, <1>11, <2>0, Zenon
  <2>2. Len((first \o rest) \o bar) >= 1
    BY <1>8, <1>10, <1>11, <2>1, Zenon
  <2>3. Len(((first \o rest) \o bar) \o characters) >= 1
    BY <1>7, <1>10, <1>11, <2>2, Zenon
  <2>4. Len((((first \o rest) \o bar) \o characters) \o last) >= 1
    BY <1>8, <1>10, <1>11, <2>3, Zenon
  <2> QED
    BY <2>1, <2>2, <2>3, <2>4
<1>13. Len(RowFormats(n, printable)) >= 1
  BY <1>9, <1>12
<1> QED
  BY <1>9, <1>10, <1>13 DEF W

-----------------------------------------------------------------------------
(* What Store changes, and what it leaves. *)
LEMMA StoreFacts ==
  ASSUME FormatInv, NEW text, Len(text) \in Nat, NEW from \in Nat, Store(text, from)
  PROVE  /\ DOMAIN buf' = DOMAIN buf /\ Capacity' = Capacity
         /\ DOMAIN buf = 0 .. (Capacity + 1)
         /\ \A i \in DOMAIN buf : i >= from /\ i < from + Len(text) =>
              buf'[i] = text[i - from + 1]
         /\ \A i \in DOMAIN buf : i < from \/ i >= from + Len(text) => buf'[i] = buf[i]
<1>1. DOMAIN buf = 0 .. (Capacity + 1) /\ Capacity \in Nat
  BY DEF FormatInv, TypeOK
<1>2. DOMAIN buf' = DOMAIN buf
  BY DEF Store
<1>3. Capacity' = Capacity
  BY <1>2 DEF Capacity
<1>4. \A i \in DOMAIN buf : buf'[i] = IF i - from \in 0 .. (Len(text) - 1)
                                      THEN text[i - from + 1] ELSE buf[i]
  BY DEF Store
<1> HIDE DEF Capacity
<1>5. \A i \in DOMAIN buf : i >= from /\ i < from + Len(text) <=>
                              i - from \in 0 .. (Len(text) - 1)
  BY <1>1
<1>6. \A i \in DOMAIN buf : i < from \/ i >= from + Len(text) =>
                              ~(i - from \in 0 .. (Len(text) - 1))
  BY <1>1
<1> QED
  BY <1>1, <1>2, <1>3, <1>4, <1>5, <1>6

(* The types of the state, and the index below the size. *)
LEMMA Typed ==
  ASSUME FormatInv
  PROVE  /\ at \in Nat /\ size \in Nat /\ output_index \in Nat /\ Capacity \in Nat
         /\ size >= 1 => output_index <= size - 1
         /\ size = 0 => output_index = 0
         /\ DOMAIN buf = 0 .. (Capacity + 1)
         /\ phase # "done" => at + size <= Capacity
<1>1. /\ at \in Nat /\ size \in Nat /\ Capacity \in Nat
      /\ DOMAIN buf = 0 .. (Capacity + 1) /\ output_index \in 0 .. Max({0, size - 1})
      /\ caller \in {"nobody", "snprintf", "debug_format_and_write", "debug_vprint",
                     "debug_hex_dump"}
  BY DEF FormatInv, TypeOK
<1>2. Max({0, size - 1}) = IF 0 >= size - 1 THEN 0 ELSE size - 1
  BY <1>1, MinMax
<1>3. phase # "done" => at + size <= Capacity
  BY <1>1, FormatAssumption DEF FormatInv, CallerInv
<1> QED
  BY <1>1, <1>2, <1>3

(* The first k characters of text have been stored. *)
Copied(text, k) ==
  /\ k <= Room
  /\ output_index' = output_index + k
  /\ DOMAIN buf' = DOMAIN buf
  /\ \A i \in 1 .. k : buf'[at + output_index + i - 1] = text[i]
  /\ \A i \in DOMAIN buf :
       i < at + output_index \/ i >= at + output_index + k => buf'[i] = buf[i]

(* Emit stores the text, or as much of it as there is room for. *)
LEMMA EmitFacts ==
  ASSUME FormatInv, phase = "formatting", size > 1, Room > 0,
         NEW text \in Seq(Character), Emit(text)
  PROVE  \E k \in 0 .. Len(text) : Copied(text, k) /\ (k = Len(text) \/ k = Room)
<1>1. /\ at \in Nat /\ size \in Nat /\ output_index \in Nat /\ Capacity \in Nat
      /\ output_index <= size - 1 /\ at + size <= Capacity
      /\ DOMAIN buf = 0 .. (Capacity + 1)
  BY Typed
<1>2. Room \in Nat /\ Room = size - 1 - output_index
  BY <1>1 DEF Room
<1> DEFINE k == Min({Len(text), Room})
           part == SubSeq(text, 1, k)
           from == at + output_index
<1>3. Len(text) \in Nat /\ k = IF Len(text) <= Room THEN Len(text) ELSE Room
  BY <1>2, MinMax
<1>4. Store(part, from) /\ output_index' = output_index + Len(part)
  BY DEF Emit
<1> HIDE DEF k
<1>5. k \in 0 .. Len(text) /\ k <= Room /\ (k = Len(text) \/ k = Room)
  BY <1>2, <1>3
<1>6. part \in Seq(Character) /\ Len(part) = k /\ \A i \in 1 .. k : part[i] = text[i]
  BY <1>3, <1>5, SubSeqProperties
<1> HIDE DEF part, from
<1>7. from \in Nat /\ from = at + output_index
  BY <1>1 DEF from
<1>8. /\ DOMAIN buf' = DOMAIN buf
      /\ \A i \in DOMAIN buf : i >= from /\ i < from + k => buf'[i] = part[i - from + 1]
      /\ \A i \in DOMAIN buf : i < from \/ i >= from + k => buf'[i] = buf[i]
  <2>1. Len(part) \in Nat
    BY <1>5, <1>6
  <2>2. /\ DOMAIN buf' = DOMAIN buf
        /\ \A i \in DOMAIN buf : i >= from /\ i < from + Len(part) =>
             buf'[i] = part[i - from + 1]
        /\ \A i \in DOMAIN buf : i < from \/ i >= from + Len(part) => buf'[i] = buf[i]
    BY <1>4, <1>7, <2>1, StoreFacts, Zenon
  <2>3. Len(part) = k
    BY <1>6
  <2> QED
    BY <2>2, <2>3, Zenon
<1>9. ASSUME NEW i \in 1 .. k  PROVE buf'[from + i - 1] = text[i]
  <2>1. /\ from + i - 1 \in DOMAIN buf /\ from + i - 1 >= from /\ from + i - 1 < from + k
        /\ (from + i - 1) - from + 1 = i
    BY <1>1, <1>2, <1>5, <1>7
  <2> QED
    BY <1>6, <1>8, <2>1
<1>10. Copied(text, k)
  BY <1>4, <1>5, <1>6, <1>7, <1>8, <1>9 DEF Copied
<1> QED
  BY <1>5, <1>10

(* One turn of the loop, whatever it converts: the buffer's part of the     *)
(* invariant.                                                               *)
LEMMA TurnContent ==
  ASSUME FormatInv, NEW n \in 1 .. Len(format), NEW text \in Seq(Character),
         Turn(n, text), NEW k \in 0 .. Len(text), Copied(text, k)
  PROVE  /\ TypeOK' /\ Capacity' \in Nat /\ CallerInv' /\ ContentInv' /\ ResultIsString'
         /\ format' \in Seq(Character) /\ todo' \in Seq(Seq(Character))
         /\ full' \in Seq(Character)
<1>1. /\ phase = "formatting" /\ size > 1 /\ Room > 0
      /\ format' = SubSeq(format, n + 1, Len(format)) /\ full' = full \o text
      /\ UNCHANGED <<caller, at, size, todo, phase>>
  BY DEF Turn
<1>2. /\ at \in Nat /\ size \in Nat /\ output_index \in Nat /\ Capacity \in Nat
      /\ output_index <= size - 1 /\ at + size <= Capacity
      /\ DOMAIN buf = 0 .. (Capacity + 1)
  BY <1>1, Typed
<1>3. /\ k <= size - 1 - output_index /\ output_index' = output_index + k
      /\ DOMAIN buf' = DOMAIN buf
      /\ \A i \in 1 .. k : buf'[at + output_index + i - 1] = text[i]
      /\ \A i \in DOMAIN buf :
           i < at + output_index \/ i >= at + output_index + k => buf'[i] = buf[i]
  BY DEF Copied, Room
<1>4. Capacity' = Capacity
  BY <1>3 DEF Capacity
<1>5. k \in Nat /\ Len(text) \in Nat /\ \A i \in 1 .. k : text[i] \in Character
  OBVIOUS
<1> HIDE DEF Capacity
<1>6. ASSUME NEW i \in DOMAIN buf
      PROVE  \/ i >= at + output_index /\ i < at + output_index + k /\ buf'[i] \in Character
             \/ (i < at + output_index \/ i >= at + output_index + k) /\ buf'[i] = buf[i]
  <2>1. CASE i < at + output_index \/ i >= at + output_index + k
    BY <1>3, <2>1
  <2>2. CASE ~(i < at + output_index \/ i >= at + output_index + k)
    <3> DEFINE j == i - (at + output_index) + 1
    <3>1. i \in Int /\ j \in 1 .. k /\ at + output_index + j - 1 = i
      BY <1>2, <1>5, <2>2
    <3>2. buf'[i] = text[j] /\ text[j] \in Character
      <4> HIDE DEF j
      <4> QED
        BY <1>3, <1>5, <3>1
    <3>3. i >= at + output_index /\ i < at + output_index + k
      BY <1>2, <1>5, <2>2, <3>1
    <3>4. buf'[i] \in Character
      BY <3>2, Zenon
    <3> QED
      BY <3>3, <3>4, Zenon
  <2> QED
    BY <2>1, <2>2
<1>7. output_index' \in 0 .. Max({0, size - 1})
  <2>0. 0 \in Int /\ size - 1 \in Int /\ size - 1 >= 0 /\ (0 >= size - 1 => size - 1 = 0)
    BY <1>1, <1>2
  <2>1. Max({0, size - 1}) = size - 1
    <3>1. Max({0, size - 1}) = IF 0 >= size - 1 THEN 0 ELSE size - 1
      BY <2>0, MinMax, Zenon
    <3> QED
      BY <2>0, <3>1, Zenon
  <2> QED
    BY <1>2, <1>3, <1>5, <2>1
<1>8. \A i \in DOMAIN buf : buf'[i] \in Character \cup {"NUL", "?"}
  BY <1>6 DEF FormatInv, TypeOK
<1>9. TypeOK'
  BY <1>1, <1>2, <1>3, <1>4, <1>7, <1>8 DEF FormatInv, TypeOK
<1>10. CallerInv'
  BY <1>1, <1>4 DEF FormatInv, CallerInv
<1>11. ContentInv'
  <2>1. ASSUME NEW i \in DOMAIN buf, i >= Capacity  PROVE buf'[i] = "?"
    <3>1. i >= at + output_index + k /\ i \in Int
      BY <1>2, <1>3, <1>5, <2>1
    <3> QED
      BY <1>3, <2>1, <3>1 DEF FormatInv, ContentInv
  <2>2. ASSUME NEW i \in 0 .. (at + output_index + k - 1)
        PROVE  i \in DOMAIN buf /\ buf'[i] \in Character
    <3>1. i \in DOMAIN buf /\ i < at + output_index + k
      BY <1>2, <1>3, <1>5
    <3>2. i < at + output_index => buf[i] \in Character
      BY <1>2, <3>1 DEF FormatInv, ContentInv
    <3> QED
      BY <1>2, <1>5, <1>6, <3>1, <3>2
  <2>3. at + output_index' - 1 = at + output_index + k - 1
    BY <1>2, <1>3, <1>5
  <2> QED
    BY <1>1, <1>3, <1>4, <2>1, <2>2, <2>3 DEF ContentInv
<1>12. ResultIsString'
  BY <1>1 DEF ResultIsString
<1>13. format' \in Seq(Character)
  <2>1. format \in Seq(Character) /\ Len(format) \in Nat
    BY DEF FormatInv
  <2> QED
    BY <1>1, <2>1, SubSeqProperties
<1>14. full' \in Seq(Character) /\ todo' \in Seq(Seq(Character))
  BY <1>1, TwoParts DEF FormatInv
<1> QED
  BY <1>2, <1>4, <1>9, <1>10, <1>11, <1>12, <1>13, <1>14

(* The same turn: the text stored is still the start of the full text, cut   *)
(* where the buffer ends or where "0x" did not fit.                          *)
LEMMA TurnCut ==
  ASSUME FormatInv, NEW n \in 1 .. Len(format), NEW text \in Seq(Character),
         Turn(n, text), NEW k \in 0 .. Len(text), Copied(text, k),
         \/ k = Len(text)
         \/ k = Room
         \/ k = 0 /\ Room < 2 /\ Len(text) >= 2
  PROVE  CutInv'
<1>1. /\ phase = "formatting" /\ size > 1 /\ Room > 0 /\ full' = full \o text
      /\ at' = at /\ size' = size
  BY DEF Turn
<1>2. /\ at \in Nat /\ size \in Nat /\ output_index \in Nat /\ Capacity \in Nat
      /\ output_index <= size - 1 /\ at + size <= Capacity
      /\ DOMAIN buf = 0 .. (Capacity + 1)
  BY <1>1, Typed
<1>3. /\ k <= size - 1 - output_index /\ output_index' = output_index + k
      /\ DOMAIN buf' = DOMAIN buf
      /\ \A i \in 1 .. k : buf'[at + output_index + i - 1] = text[i]
      /\ \A i \in DOMAIN buf :
           i < at + output_index \/ i >= at + output_index + k => buf'[i] = buf[i]
  BY DEF Copied, Room
<1>4. Room = size - 1 - output_index
  BY DEF Room
<1> HIDE DEF Capacity, Room
<1>5. full \in Seq(Character)
  BY DEF FormatInv
<1>6. /\ Len(full) \in Nat /\ Len(text) \in Nat /\ Len(full') = Len(full) + Len(text)
      /\ \A i \in 1 .. Len(full) : full'[i] = full[i]
      /\ \A i \in 1 .. Len(text) : full'[Len(full) + i] = text[i]
  <2>1. /\ Len(full) \in Nat /\ Len(text) \in Nat
        /\ Len(full \o text) = Len(full) + Len(text)
    BY <1>5, ConcatProperties
  <2>2. ASSUME NEW i \in 1 .. Len(full)  PROVE (full \o text)[i] = full[i]
    BY <1>5, <2>1, ConcatProperties
  <2>3. ASSUME NEW i \in 1 .. Len(text)  PROVE (full \o text)[Len(full) + i] = text[i]
    <3>1. /\ Len(full) + i \in 1 .. (Len(full) + Len(text)) /\ ~(Len(full) + i <= Len(full))
          /\ (Len(full) + i) - Len(full) = i
      BY <2>1
    <3> QED
      BY <1>5, <2>1, <3>1, ConcatProperties
  <2> QED
    BY <1>1, <2>1, <2>2, <2>3
<1>7. \/ output_index = Len(full) /\ Shows(output_index)
      \/ output_index = size - 2 /\ Shows(output_index) /\ Len(full) >= size
  BY <1>1, <1>2, <1>4 DEF FormatInv, CutInv
<1>8. /\ output_index <= Len(full)
      /\ \A i \in 1 .. output_index : buf[at + i - 1] = full[i]
  BY <1>7 DEF Shows
<1>9. ASSUME NEW i \in 1 .. output_index  PROVE buf'[at + i - 1] = full'[i]
  <2>1. at + i - 1 \in DOMAIN buf /\ at + i - 1 < at + output_index /\ i \in 1 .. Len(full)
    BY <1>2, <1>6, <1>8
  <2>2. buf'[at + i - 1] = buf[at + i - 1]
    BY <1>3, <2>1, Zenon
  <2> QED
    BY <1>6, <1>8, <2>1, <2>2, Zenon
<1>10. CASE output_index = Len(full)
  <2>1. ASSUME NEW i \in 1 .. (output_index + k)  PROVE buf'[at + i - 1] = full'[i]
    <3>1. CASE i <= output_index
      BY <1>2, <1>9, <3>1
    <3>2. CASE i > output_index
      <4> DEFINE j == i - output_index
      <4>1. /\ j \in 1 .. k /\ j \in 1 .. Len(text)
            /\ at + output_index + j - 1 = at + i - 1 /\ Len(full) + j = i
        BY <1>2, <1>6, <1>10, <3>2
      <4> HIDE DEF j
      <4>2. buf'[at + output_index + j - 1] = text[j] /\ full'[Len(full) + j] = text[j]
        BY <1>3, <1>6, <4>1, Zenon
      <4> QED
        BY <4>1, <4>2, Zenon
    <3> QED
      BY <1>2, <3>1, <3>2
  <2>2. output_index + k <= Len(full')
    BY <1>2, <1>6, <1>10
  <2>3. Shows(output_index)'
    BY <1>1, <1>3, <2>1, <2>2 DEF Shows
  <2>4. \/ output_index' = Len(full')
        \/ output_index' = size - 1
        \/ output_index' = size - 2 /\ Len(full') >= size
    <3>1. CASE k = Len(text)
      BY <1>3, <1>6, <1>10, <3>1
    <3>2. CASE k = Room
      <4>1. output_index' = size - 1
        BY <1>2, <1>3, <1>4, <3>2
      <4> QED
        BY <4>1
    <3>3. CASE k = 0 /\ Room < 2 /\ Len(text) >= 2
      <4>1. output_index = size - 2
        BY <1>1, <1>2, <1>4, <3>3
      <4>2. Len(full') >= size
        BY <1>2, <1>6, <1>10, <3>3, <4>1
      <4> QED
        BY <1>2, <1>3, <3>3, <4>1, <4>2
    <3> QED
      BY <3>1, <3>2, <3>3
  <2> HIDE DEF Shows
  <2> QED
    BY <1>1, <2>3, <2>4 DEF CutInv
<1>11. CASE output_index = size - 2 /\ Len(full) >= size
  <2>1. Len(full') >= size /\ output_index <= Len(full')
    BY <1>2, <1>6, <1>8, <1>11, SMTT(60)
  <2>2. CASE k = 0
    <3>1. output_index' = output_index
      BY <1>2, <1>3, <2>2
    <3>2. Shows(output_index)'
      BY <1>1, <1>9, <2>1, <3>1 DEF Shows
    <3> QED
      BY <1>1, <1>11, <2>1, <3>1, <3>2 DEF CutInv
  <2>3. CASE k # 0
    <3>1. k = 1 /\ output_index' = size - 1 /\ output_index' - 1 = output_index
      BY <1>2, <1>3, <1>11, <2>3
    <3>2. Shows(output_index - 1)'
      BY <1>1, <1>9, <2>1, <3>1 DEF Shows
    <3> QED
      BY <1>1, <2>1, <3>1, <3>2 DEF CutInv
  <2> QED
    BY <2>2, <2>3
<1> QED
  BY <1>7, <1>10, <1>11

(* A turn that emits its text keeps the invariant, and so does one that       *)
(* stores nothing: there was nothing to store, or no room for its "0x".       *)
LEMMA TurnKeeps ==
  ASSUME FormatInv, NEW n \in 1 .. Len(format), NEW text \in Seq(Character),
         Turn(n, text),
         \/ Emit(text)
         \/ /\ UNCHANGED <<buf, output_index>>
            /\ text = <<>> \/ (Room < 2 /\ Len(text) >= 2)
  PROVE  FormatInv'
<1>1. phase = "formatting" /\ size > 1 /\ Room > 0
  BY DEF Turn
<1>2. \E k \in 0 .. Len(text) :
        /\ Copied(text, k)
        /\ k = Len(text) \/ k = Room \/ (k = 0 /\ Room < 2 /\ Len(text) >= 2)
  <2>1. CASE Emit(text)
    BY <1>1, <2>1, EmitFacts
  <2>2. CASE /\ UNCHANGED <<buf, output_index>>
             /\ text = <<>> \/ (Room < 2 /\ Len(text) >= 2)
    <3>1. output_index \in Nat /\ size \in Nat
      BY Typed
    <3>2. 0 <= Room /\ output_index + 0 = output_index
      BY <1>1, <3>1 DEF Room
    <3>4. \A i \in 1 .. 0 : FALSE
      OBVIOUS
    <3>5. Copied(text, 0)
      <4>1. output_index' = output_index + 0 /\ buf' = buf
        BY <2>2, <3>2
      <4> HIDE DEF Room
      <4> QED
        BY <3>2, <3>4, <4>1, Zenon DEF Copied
    <3>3. 0 \in 0 .. Len(text) /\ (text = <<>> => Len(text) = 0)
      OBVIOUS
    <3> QED
      BY <2>2, <3>3, <3>5
  <2> QED
    BY <2>1, <2>2
<1>3. PICK k \in 0 .. Len(text) :
        /\ Copied(text, k)
        /\ k = Len(text) \/ k = Room \/ (k = 0 /\ Room < 2 /\ Len(text) >= 2)
  BY <1>2
<1>4. CutInv'
  BY <1>3, TurnCut
<1>5. /\ TypeOK' /\ Capacity' \in Nat /\ CallerInv' /\ ContentInv' /\ ResultIsString'
      /\ format' \in Seq(Character) /\ todo' \in Seq(Seq(Character)) /\ full' \in Seq(Character)
  BY <1>3, TurnContent
<1> QED
  BY <1>4, <1>5 DEF FormatInv

(* Every turn of vsnprintf's loop keeps the invariant. *)
LEMMA LoopKeeps ==
  ASSUME FormatInv,
         Literal \/ TrailingPercent \/ DoublePercent \/ Conversion \/ Unsupported
  PROVE  FormatInv'
<1>1. format \in Seq(Character) /\ Len(format) \in Nat
  BY DEF FormatInv
<1>2. \A i \in 1 .. Len(format) : format[i] \in Character
  BY <1>1
<1>3. CASE Literal
  <2>1. 1 \in 1 .. Len(format)
    BY <1>1, <1>3 DEF Literal
  <2>2. <<format[1]>> \in Seq(Character)
    BY <1>2, <2>1
  <2>3. Emit(<<format[1]>>) /\ Turn(1, <<format[1]>>)
    BY <1>3 DEF Literal
  <2> QED
    BY <2>1, <2>2, <2>3, TurnKeeps
<1>4. CASE TrailingPercent
  <2>1. 1 \in 1 .. Len(format) /\ <<>> \in Seq(Character)
    BY <1>4 DEF TrailingPercent
  <2>2. UNCHANGED <<buf, output_index>> /\ Turn(1, <<>>)
    BY <1>4 DEF TrailingPercent
  <2> QED
    BY <2>1, <2>2, TurnKeeps
<1>5. CASE DoublePercent
  <2>1. 1 \in 1 .. Len(format) /\ 2 \in 1 .. Len(format)
    BY <1>1, <1>5 DEF DoublePercent
  <2>2. <<"%">> \in Seq(Character)
    BY <1>2, <1>5, <2>1 DEF DoublePercent
  <2>3. Emit(<<"%">>) /\ Turn(2, <<"%">>)
    BY <1>5 DEF DoublePercent
  <2> QED
    BY <2>1, <2>2, <2>3, TurnKeeps
<1>6. CASE Conversion
  <2>1. 2 \in 1 .. Len(format) /\ format[2] \in Specifiers
    BY <1>1, <1>6 DEF Conversion
  <2>2. \E v \in Arguments(format[2]) : \E text \in Texts(format[2], v) :
          /\ IF NeedsTwo(format[2], v) /\ Room < 2
             THEN UNCHANGED <<buf, output_index>> ELSE Emit(text)
          /\ Turn(2, text)
    BY <1>6, Zenon DEF Conversion
  <2>3. PICK v \in Arguments(format[2]) : \E text \in Texts(format[2], v) :
          /\ IF NeedsTwo(format[2], v) /\ Room < 2
             THEN UNCHANGED <<buf, output_index>> ELSE Emit(text)
          /\ Turn(2, text)
    BY <2>2, Zenon
  <2>4. PICK text \in Texts(format[2], v) :
          /\ IF NeedsTwo(format[2], v) /\ Room < 2
             THEN UNCHANGED <<buf, output_index>> ELSE Emit(text)
          /\ Turn(2, text)
    BY <2>3, Zenon
  <2>5. text \in Seq(Character) /\ (NeedsTwo(format[2], v) => Len(text) >= 2)
    BY <2>1, TextFacts, Zenon
  <2>6. \/ Emit(text)
        \/ UNCHANGED <<buf, output_index>> /\ Room < 2 /\ Len(text) >= 2
    BY <2>4, <2>5, Zenon
  <2> QED
    BY <2>1, <2>4, <2>5, <2>6, TurnKeeps, Zenon
<1>7. CASE Unsupported
  <2>1. 2 \in 1 .. Len(format)
    BY <1>1, <1>7 DEF Unsupported
  <2>2. SubSeq(format, 1, 2) \in Seq(Character)
    BY <1>1, <2>1, SubSeqProperties
  <2>3. Emit(SubSeq(format, 1, 2)) /\ Turn(2, SubSeq(format, 1, 2))
    BY <1>7 DEF Unsupported
  <2> QED
    BY <2>1, <2>2, <2>3, TurnKeeps
<1> QED
  BY <1>3, <1>4, <1>5, <1>6, <1>7

(* A store behind the text, within the buffer, leaves the text alone. *)
LEMMA StoreBehind ==
  ASSUME FormatInv, NEW text \in Seq(Character \cup {"NUL"}), NEW from \in Nat,
         from >= at + output_index, from + Len(text) <= Capacity, Store(text, from),
         UNCHANGED <<caller, at, size, format, output_index, todo, full>>,
         phase' \in {"returned", "done"}
  PROVE  /\ TypeOK' /\ Capacity' = Capacity
         /\ format' \in Seq(Character) /\ todo' \in Seq(Seq(Character))
         /\ full' \in Seq(Character)
         /\ DOMAIN buf' = 0 .. (Capacity + 1)
         /\ \A i \in DOMAIN buf : i >= Capacity => buf'[i] = "?"
         /\ \A i \in 0 .. (at + output_index - 1) :
              i \in DOMAIN buf /\ buf'[i] = buf[i] /\ buf[i] \in Character
         /\ \A i \in 1 .. Len(text) : buf'[from + i - 1] = text[i]
<1>1. /\ at \in Nat /\ size \in Nat /\ output_index \in Nat /\ Capacity \in Nat
      /\ DOMAIN buf = 0 .. (Capacity + 1)
  BY Typed
<1>2. Len(text) \in Nat /\ \A i \in 1 .. Len(text) : text[i] \in Character \cup {"NUL"}
  OBVIOUS
<1>3. /\ DOMAIN buf' = DOMAIN buf /\ Capacity' = Capacity
      /\ \A i \in DOMAIN buf : i >= from /\ i < from + Len(text) => buf'[i] = text[i - from + 1]
      /\ \A i \in DOMAIN buf : i < from \/ i >= from + Len(text) => buf'[i] = buf[i]
  BY <1>2, StoreFacts
<1> HIDE DEF Capacity
<1>4. ASSUME NEW i \in DOMAIN buf  PROVE buf'[i] \in Character \cup {"NUL", "?"}
  <2>1. CASE i < from \/ i >= from + Len(text)
    BY <1>3, <2>1 DEF FormatInv, TypeOK
  <2>2. CASE ~(i < from \/ i >= from + Len(text))
    <3>1. i >= from /\ i < from + Len(text) /\ i - from + 1 \in 1 .. Len(text)
      BY <1>1, <1>2, <2>2
    <3>2. buf'[i] = text[i - from + 1] /\ text[i - from + 1] \in Character \cup {"NUL"}
      BY <1>2, <1>3, <3>1, Zenon
    <3> QED
      BY <3>2
  <2> QED
    BY <2>1, <2>2
<1>5. TypeOK'
  BY <1>3, <1>4 DEF FormatInv, TypeOK
<1>6. ASSUME NEW i \in DOMAIN buf, i >= Capacity  PROVE buf'[i] = "?"
  <2>1. i >= from + Len(text)
    BY <1>1, <1>2, <1>6
  <2> QED
    BY <1>3, <1>6, <2>1 DEF FormatInv, ContentInv
<1>7. ASSUME NEW i \in 0 .. (at + output_index - 1)
      PROVE  i \in DOMAIN buf /\ buf'[i] = buf[i] /\ buf[i] \in Character
  <2>1. i \in DOMAIN buf /\ buf[i] \in Character
    BY DEF FormatInv, ContentInv
  <2>2. i < from
    BY <1>1
  <2> QED
    BY <1>3, <2>1, <2>2
<1>8. ASSUME NEW i \in 1 .. Len(text)  PROVE buf'[from + i - 1] = text[i]
  <2>1. /\ from + i - 1 \in DOMAIN buf /\ from + i - 1 >= from
        /\ from + i - 1 < from + Len(text) /\ (from + i - 1) - from + 1 = i
    BY <1>1, <1>2
  <2> HIDE DEF FormatInv
  <2>2. buf'[from + i - 1] = text[(from + i - 1) - from + 1]
    BY <1>3, <2>1, Zenon
  <2> QED
    BY <2>1, <2>2, Zenon
<1>9. format' \in Seq(Character) /\ todo' \in Seq(Seq(Character)) /\ full' \in Seq(Character)
  BY DEF FormatInv
<1> QED
  BY <1>1, <1>3, <1>5, <1>6, <1>7, <1>8, <1>9

(* vsnprintf's return keeps the invariant. *)
LEMMA ReturnKeeps ==
  ASSUME FormatInv, Return
  PROVE  FormatInv'
<1>1. /\ phase = "formatting" /\ phase' = "returned"
      /\ UNCHANGED <<caller, at, size, format, output_index, todo, full>>
  BY DEF Return
<1>2. /\ at \in Nat /\ size \in Nat /\ output_index \in Nat /\ Capacity \in Nat
      /\ size >= 1 => output_index <= size - 1
      /\ at + size <= Capacity
      /\ DOMAIN buf = 0 .. (Capacity + 1)
  BY <1>1, Typed
<1>3. ResultIsString'
  BY <1>1 DEF ResultIsString
<1>4. CASE size = 0
  <2>1. buf' = buf
    BY <1>4 DEF Return
  <2>2. Capacity' = Capacity
    BY <2>1 DEF Capacity
  <2> HIDE DEF Capacity
  <2>3. TypeOK'
    BY <1>1, <2>1, <2>2 DEF FormatInv, TypeOK
  <2>4. CallerInv'
    BY <1>1, <2>1, <2>2 DEF FormatInv, CallerInv
  <2>5. ContentInv'
    BY <1>1, <1>2, <1>4, <2>1, <2>2 DEF FormatInv, ContentInv
  <2>6. CutInv'
    BY <1>1, <1>4 DEF CutInv
  <2> QED
    BY <1>1, <1>2, <1>3, <2>2, <2>3, <2>4, <2>5, <2>6 DEF FormatInv
<1>5. CASE size # 0
  <2> DEFINE text == <<"NUL">>
             from == at + output_index
  <2>1. Store(text, from)
    BY <1>5 DEF Return
  <2>2. text \in Seq(Character \cup {"NUL"}) /\ Len(text) = 1 /\ text[1] = "NUL"
    OBVIOUS
  <2>3. /\ from \in Nat /\ from >= at + output_index /\ from + 1 <= Capacity
        /\ from = at + output_index
    BY <1>2, <1>5
  <2> HIDE DEF text, from, Capacity
  <2>4. /\ TypeOK' /\ Capacity' = Capacity
        /\ format' \in Seq(Character) /\ todo' \in Seq(Seq(Character)) /\ full' \in Seq(Character)
        /\ DOMAIN buf' = 0 .. (Capacity + 1)
        /\ \A i \in DOMAIN buf : i >= Capacity => buf'[i] = "?"
        /\ \A i \in 0 .. (at + output_index - 1) :
             i \in DOMAIN buf /\ buf'[i] = buf[i] /\ buf[i] \in Character
        /\ \A i \in 1 .. Len(text) : buf'[from + i - 1] = text[i]
    BY <1>1, <2>1, <2>2, <2>3, StoreBehind
  <2>5. CallerInv'
    BY <1>1, <2>4 DEF FormatInv, CallerInv
  <2>6. buf'[at + output_index] = "NUL"
    <3>1. 1 \in 1 .. Len(text) /\ from + 1 - 1 = at + output_index
      BY <2>2, <2>3
    <3> QED
      BY <2>2, <2>4, <3>1
  <2>7. ContentInv'
    <3>1. \A i \in 0 .. (at + output_index - 1) : i \in DOMAIN buf' /\ buf'[i] \in Character
      BY <1>2, <2>4
    <3> QED
      BY <1>1, <1>2, <2>4, <2>6, <3>1 DEF ContentInv
  <2>8. CutInv'
    <3>1. ASSUME NEW n \in Int, n <= output_index, n <= Len(full),
                 \A i \in 1 .. n : buf[at + i - 1] = full[i]
          PROVE  \A i \in 1 .. n : buf'[at + i - 1] = full[i]
      <4> TAKE i \in 1 .. n
      <4>1. at + i - 1 \in 0 .. (at + output_index - 1)
        BY <1>2, <3>1
      <4>2. buf'[at + i - 1] = buf[at + i - 1]
        BY <2>4, <4>1, Zenon
      <4> QED
        BY <3>1, <4>2, Zenon
    <3>2. Shows(output_index) => Shows(output_index)'
      BY <1>1, <1>2, <3>1 DEF Shows
    <3>3. Shows(output_index - 1) => Shows(output_index - 1)'
      <4>1. output_index - 1 \in Int /\ output_index - 1 <= output_index
        BY <1>2
      <4> QED
        BY <1>1, <3>1, <4>1 DEF Shows
    <3> HIDE DEF Shows
    <3> QED
      BY <1>1, <3>2, <3>3 DEF FormatInv, CutInv
  <2> QED
    BY <1>2, <1>3, <2>4, <2>5, <2>7, <2>8 DEF FormatInv
<1> QED
  BY <1>4, <1>5

(* Without a line end, a result is a string when its text is followed by the  *)
(* terminator inside the buffer.                                              *)
LEMMA PlainResult ==
  ASSUME caller' # "debug_format_and_write", at' \in Nat, output_index' \in Nat,
         DOMAIN buf' \subseteq Nat,
         Capacity' > 0 => /\ at' + output_index' < Capacity'
                          /\ buf'[at' + output_index'] = "NUL"
                          /\ \A i \in 0 .. (at' + output_index' - 1) : buf'[i] \in Character
  PROVE  ResultIsString'
<1>1. LineEnd' = <<>>
  BY DEF LineEnd
<1>2. Len(LineEnd') = 0 /\ DOMAIN (LineEnd') = {}
  BY <1>1
<1>3. message_len' = output_index'
  BY DEF message_len
<1>4. EndOfString' = at' + output_index'
  BY <1>2, <1>3 DEF EndOfString
<1>5. \A c \in Character : c \notin {"NUL", "?"}
  BY FormatAssumption
<1>6. ASSUME Capacity' > 0  PROVE EndOfString' < Capacity'
  BY <1>4, <1>6
<1>7. ASSUME Capacity' > 0  PROVE buf'[EndOfString'] = "NUL"
  BY <1>4, <1>7
<1>8. ASSUME Capacity' > 0, NEW i \in DOMAIN buf', i < EndOfString'
      PROVE  buf'[i] \notin {"NUL", "?"}
  <2>1. i \in 0 .. (at' + output_index' - 1)
    BY <1>4, <1>8
  <2>2. buf'[i] \in Character
    BY <1>8, <2>1
  <2> QED
    BY <1>5, <2>2
<1>9. \A i \in DOMAIN (LineEnd') : buf'[at' + message_len' + i - 1] = (LineEnd')[i]
  BY <1>2
<1> QED
  BY <1>6, <1>7, <1>8, <1>9, Zenon DEF ResultIsString

(* The line end of a debug line. *)
LEMMA AddLineEndKeeps ==
  ASSUME FormatInv, AddLineEnd
  PROVE  FormatInv'
<1>1. /\ caller = "debug_format_and_write" /\ phase = "returned" /\ phase' = "done"
      /\ UNCHANGED <<caller, at, size, format, output_index, todo, full>>
  BY DEF AddLineEnd
<1>2. /\ at \in Nat /\ size \in Nat /\ output_index \in Nat /\ Capacity \in Nat
      /\ size >= 1 => output_index <= size - 1
      /\ DOMAIN buf = 0 .. (Capacity + 1)
  BY <1>1, Typed
<1>3. Capacity = DEBUG_BUFFER_SIZE /\ at + size + 2 = Capacity /\ size >= 1
  BY <1>1 DEF FormatInv, CallerInv
<1> DEFINE text == <<"CR", "LF", "NUL">>
           from == at + output_index
<1>4. Min({at + message_len, DEBUG_BUFFER_SIZE - 3}) = from
  <2>1. /\ at + output_index \in Int /\ DEBUG_BUFFER_SIZE - 3 \in Int
        /\ at + output_index <= DEBUG_BUFFER_SIZE - 3
    BY <1>2, <1>3
  <2>2. Min({at + output_index, DEBUG_BUFFER_SIZE - 3}) =
          IF at + output_index <= DEBUG_BUFFER_SIZE - 3
          THEN at + output_index ELSE DEBUG_BUFFER_SIZE - 3
    BY <2>1, MinMax, Zenon
  <2> QED
    BY <2>1, <2>2 DEF message_len
<1>5. Store(text, from)
  BY <1>4 DEF AddLineEnd
<1>6. text \in Seq(Character \cup {"NUL"}) /\ Len(text) = 3
      /\ text[1] = "CR" /\ text[2] = "LF" /\ text[3] = "NUL"
  <2>1. "CR" \in Character /\ "LF" \in Character
    BY FormatAssumption DEF OwnCharacters
  <2> QED
    BY <2>1
<1>7. /\ from \in Nat /\ from >= at + output_index /\ from + 3 <= Capacity
      /\ from = at + output_index
  BY <1>2, <1>3
<1> HIDE DEF text, from, Capacity
<1>8. /\ TypeOK' /\ Capacity' = Capacity
      /\ format' \in Seq(Character) /\ todo' \in Seq(Seq(Character)) /\ full' \in Seq(Character)
      /\ DOMAIN buf' = 0 .. (Capacity + 1)
      /\ \A i \in DOMAIN buf : i >= Capacity => buf'[i] = "?"
      /\ \A i \in 0 .. (at + output_index - 1) :
           i \in DOMAIN buf /\ buf'[i] = buf[i] /\ buf[i] \in Character
      /\ \A i \in 1 .. Len(text) : buf'[from + i - 1] = text[i]
  BY <1>1, <1>5, <1>6, <1>7, StoreBehind
<1>9. CallerInv'
  BY <1>1, <1>8 DEF FormatInv, CallerInv
<1>10. ContentInv'
  <2>1. \A i \in 0 .. (at + output_index - 1) : i \in DOMAIN buf' /\ buf'[i] \in Character
    BY <1>2, <1>8
  <2> QED
    BY <1>1, <1>2, <1>8, <2>1 DEF ContentInv
<1>11. CutInv'
  BY <1>1 DEF CutInv
<1>12. buf'[from] = "CR" /\ buf'[from + 1] = "LF" /\ buf'[from + 2] = "NUL"
  <2>1. /\ 1 \in 1 .. Len(text) /\ 2 \in 1 .. Len(text) /\ 3 \in 1 .. Len(text)
        /\ from + 1 - 1 = from /\ from + 2 - 1 = from + 1 /\ from + 3 - 1 = from + 2
    BY <1>6, <1>7
  <2> QED
    BY <1>6, <1>8, <2>1
<1>13. ResultIsString'
  <2>1. LineEnd' = <<"CR", "LF">> /\ message_len' = output_index'
    BY <1>1 DEF LineEnd, message_len
  <2>2. /\ Len(LineEnd') = 2 /\ DOMAIN (LineEnd') = {1, 2}
        /\ (LineEnd')[1] = "CR" /\ (LineEnd')[2] = "LF"
    BY <2>1
  <2>3. EndOfString' = from + 2 /\ from + 2 < Capacity
    BY <1>1, <1>2, <1>7, <2>1, <2>2 DEF EndOfString
  <2>4. ASSUME NEW i \in DOMAIN buf', i < from + 2  PROVE buf'[i] \notin {"NUL", "?"}
    <3>0. i \in Nat
      BY <1>2, <1>8
    <3>1. i \in 0 .. (at + output_index - 1) \/ i = from \/ i = from + 1
      BY <1>2, <1>7, <2>4, <3>0
    <3>2. \A c \in Character : c \notin {"NUL", "?"}
      BY FormatAssumption
    <3>3. CASE i \in 0 .. (at + output_index - 1)
      BY <1>8, <3>2, <3>3
    <3>4. CASE i = from \/ i = from + 1
      BY <1>12, <3>4
    <3> QED
      BY <3>1, <3>3, <3>4
  <2>5. \A i \in DOMAIN (LineEnd') : buf'[at' + message_len' + i - 1] = (LineEnd')[i]
    <3>1. /\ at' + message_len' + 1 - 1 = from /\ at' + message_len' + 2 - 1 = from + 1
      BY <1>1, <1>2, <1>7, <2>1
    <3> QED
      BY <1>12, <2>2, <3>1
  <2>6. /\ EndOfString' < Capacity'
        /\ buf'[EndOfString'] = "NUL"
        /\ \A i \in DOMAIN buf' : i < EndOfString' => buf'[i] \notin {"NUL", "?"}
    BY <1>8, <1>12, <2>3, <2>4, Zenon
  <2> QED
    BY <2>5, <2>6, Zenon DEF ResultIsString
<1> QED
  BY <1>2, <1>8, <1>9, <1>10, <1>11, <1>13 DEF FormatInv

(* The end of debug_vprint and of snprintf. *)
LEMMA TerminateKeeps ==
  ASSUME FormatInv, Terminate
  PROVE  FormatInv'
<1>1. /\ caller \in {"debug_vprint", "snprintf"} /\ phase = "returned" /\ phase' = "done"
      /\ UNCHANGED <<caller, at, size, format, output_index, todo, full>>
  BY DEF Terminate
<1>2. /\ at \in Nat /\ size \in Nat /\ output_index \in Nat /\ Capacity \in Nat
      /\ size >= 1 => output_index <= size - 1
      /\ size = 0 => output_index = 0
      /\ DOMAIN buf = 0 .. (Capacity + 1)
  BY <1>1, Typed
<1>3. CutInv'
  BY <1>1 DEF CutInv
<1>4. CASE caller = "snprintf"
  <2>1. buf' = buf
    BY <1>4 DEF Terminate
  <2>2. Capacity' = Capacity
    BY <2>1 DEF Capacity
  <2>3. at = 0 /\ size = Capacity
    BY <1>4 DEF FormatInv, CallerInv
  <2> HIDE DEF Capacity
  <2>4. TypeOK'
    BY <1>1, <2>1, <2>2 DEF FormatInv, TypeOK
  <2>5. CallerInv'
    BY <1>1, <2>1, <2>2 DEF FormatInv, CallerInv
  <2>6. ContentInv'
    BY <1>1, <1>2, <2>1, <2>2 DEF FormatInv, ContentInv
  <2>7. ASSUME Capacity > 0
        PROVE  /\ at + output_index < Capacity
               /\ buf[at + output_index] = "NUL"
               /\ \A i \in 0 .. (at + output_index - 1) : buf[i] \in Character
    <3>1. size >= 1 /\ at + output_index < Capacity
      BY <1>2, <2>3, <2>7
    <3> QED
      BY <1>1, <3>1 DEF FormatInv, ContentInv
  <2>8. ResultIsString'
    <3>1. DOMAIN buf' \subseteq Nat
      BY <1>2, <2>1
    <3> QED
      BY <1>1, <1>2, <1>4, <2>1, <2>2, <2>7, <3>1, PlainResult
  <2> QED
    BY <1>1, <1>2, <1>3, <2>2, <2>4, <2>5, <2>6, <2>8 DEF FormatInv
<1>5. CASE caller = "debug_vprint"
  <2> DEFINE text == <<"NUL">>
  <2>1. Capacity = DEBUG_BUFFER_SIZE /\ at = 0 /\ size = Capacity - 1 /\ Capacity >= 3
    BY <1>5, FormatAssumption DEF FormatInv, CallerInv
  <2>2. Min({message_len, DEBUG_BUFFER_SIZE - 1}) = output_index
    <3>1. /\ output_index \in Int /\ DEBUG_BUFFER_SIZE - 1 \in Int
          /\ output_index <= DEBUG_BUFFER_SIZE - 1
      BY <1>2, <2>1
    <3>2. Min({output_index, DEBUG_BUFFER_SIZE - 1}) =
            IF output_index <= DEBUG_BUFFER_SIZE - 1 THEN output_index ELSE DEBUG_BUFFER_SIZE - 1
      BY <3>1, MinMax, Zenon
    <3> QED
      BY <3>1, <3>2 DEF message_len
  <2>3. Store(text, output_index)
    BY <1>5, <2>2 DEF Terminate
  <2>4. text \in Seq(Character \cup {"NUL"}) /\ Len(text) = 1 /\ text[1] = "NUL"
    OBVIOUS
  <2>5. output_index >= at + output_index /\ output_index + 1 <= Capacity
        /\ at + output_index = output_index
    BY <1>2, <2>1
  <2> HIDE DEF text, Capacity
  <2>6. /\ TypeOK' /\ Capacity' = Capacity
        /\ format' \in Seq(Character) /\ todo' \in Seq(Seq(Character)) /\ full' \in Seq(Character)
        /\ DOMAIN buf' = 0 .. (Capacity + 1)
        /\ \A i \in DOMAIN buf : i >= Capacity => buf'[i] = "?"
        /\ \A i \in 0 .. (at + output_index - 1) :
             i \in DOMAIN buf /\ buf'[i] = buf[i] /\ buf[i] \in Character
        /\ \A i \in 1 .. Len(text) : buf'[output_index + i - 1] = text[i]
    BY <1>1, <1>2, <2>3, <2>4, <2>5, StoreBehind
  <2>7. CallerInv'
    BY <1>1, <2>6 DEF FormatInv, CallerInv
  <2>8. \A i \in 0 .. (at + output_index - 1) : i \in DOMAIN buf' /\ buf'[i] \in Character
    BY <1>2, <2>6
  <2>9. ContentInv'
    BY <1>1, <1>2, <2>6, <2>8 DEF ContentInv
  <2>10. buf'[at + output_index] = "NUL"
    <3>1. 1 \in 1 .. Len(text) /\ output_index + 1 - 1 = at + output_index
      BY <1>2, <2>4, <2>5
    <3> QED
      BY <2>4, <2>6, <3>1
  <2>11. ResultIsString'
    <3>1. DOMAIN buf' \subseteq Nat /\ at + output_index < Capacity
      BY <1>2, <2>5, <2>6
    <3> QED
      BY <1>1, <1>2, <1>5, <2>6, <2>8, <2>10, <3>1, PlainResult
  <2> QED
    BY <1>2, <1>3, <2>6, <2>7, <2>9, <2>11 DEF FormatInv
<1> QED
  BY <1>1, <1>4, <1>5

(* The next column of a dump's row, or its end: line_pos stays inside the line, *)
(* so the unsigned difference that is the next size does not wrap around.       *)
LEMMA NextColumnKeeps ==
  ASSUME FormatInv, NextColumn
  PROVE  FormatInv'
<1>1. /\ caller = "debug_hex_dump" /\ phase = "returned" /\ at' = at + output_index
      /\ output_index' = 0 /\ full' = <<>> /\ UNCHANGED <<caller, buf>>
  BY DEF NextColumn, message_len
<1>2. /\ at \in Nat /\ size \in Nat /\ output_index \in Nat /\ Capacity \in Nat
      /\ size >= 1 => output_index <= size - 1
      /\ DOMAIN buf = 0 .. (Capacity + 1)
  BY <1>1, Typed
<1>3. Capacity = LineSize /\ at + size = Capacity /\ size >= 1
  BY <1>1 DEF FormatInv, CallerInv
<1>4. Capacity' = Capacity
  BY <1>1 DEF Capacity
<1>5. at' \in Nat /\ at' < Capacity /\ at' + output_index' = at + output_index
      /\ at' + output_index' - 1 = at + output_index - 1
  BY <1>1, <1>2, <1>3
<1> HIDE DEF Capacity
<1>6. /\ buf[at + output_index] = "NUL"
      /\ \A i \in DOMAIN buf : i >= Capacity => buf[i] = "?"
      /\ \A i \in 0 .. (at + output_index - 1) : i \in DOMAIN buf /\ buf[i] \in Character
  BY <1>1, <1>3 DEF FormatInv, ContentInv
<1>7. ResultIsString'
  <2>1. DOMAIN buf' \subseteq Nat /\ at' + output_index' < Capacity
    BY <1>1, <1>2, <1>5
  <2>2. /\ buf'[at' + output_index'] = "NUL"
        /\ \A i \in 0 .. (at' + output_index' - 1) : buf'[i] \in Character
    BY <1>1, <1>5, <1>6
  <2> QED
    BY <1>1, <1>4, <1>5, <2>1, <2>2, PlainResult
<1>8. /\ size' \in Nat /\ phase' \in {"formatting", "done"}
      /\ format' \in Seq(Character) /\ todo' \in Seq(Seq(Character))
      /\ phase' # "done" => at' + size' = Capacity /\ size' >= 1
  <2>1. CASE todo = <<>>
    BY <1>2, <2>1 DEF NextColumn, FormatInv
  <2>2. CASE todo # <<>>
    <3>1. /\ size' = (LineSize - at') % (2 ^ Width) /\ format' = Head(todo)
          /\ todo' = Tail(todo) /\ phase' = "formatting"
      BY <2>2 DEF NextColumn
    <3>2. size' = LineSize - at'
      <4>1. at' \in Nat /\ at' < LineSize
        BY <1>3, <1>5
      <4>2. 2 ^ Width \in Int /\ LineSize \in 1 .. (2 ^ Width - 1)
        BY FormatAssumption
      <4>3. ASSUME NEW a \in Nat, NEW l, NEW m \in Int, l \in 1 .. (m - 1), a < l
            PROVE  (l - a) % m = l - a
        BY <4>3
      <4>4. (LineSize - at') % (2 ^ Width) = LineSize - at'
        BY <4>1, <4>2, <4>3, Zenon
      <4> QED
        BY <3>1, <4>4
    <3>3. Head(todo) \in Seq(Character) /\ Tail(todo) \in Seq(Seq(Character))
      <4> DEFINE W == Seq(Character)
      <4>1. todo \in Seq(W)
        BY DEF FormatInv
      <4> HIDE DEF W
      <4>2. Head(todo) \in W /\ Tail(todo) \in Seq(W)
        BY <2>2, <4>1, HeadTailProperties
      <4> QED
        BY <4>2 DEF W
    <3> QED
      BY <1>2, <1>3, <1>5, <3>1, <3>2, <3>3
  <2> QED
    BY <2>1, <2>2
<1>9. TypeOK'
  <2>1. 0 \in 0 .. Max({0, size' - 1})
    <3>1. 0 \in Int /\ size' - 1 \in Int
      BY <1>8
    <3>2. Max({0, size' - 1}) = IF 0 >= size' - 1 THEN 0 ELSE size' - 1
      BY <3>1, MinMax, Zenon
    <3> QED
      BY <3>1, <3>2
  <2> QED
    BY <1>1, <1>4, <1>5, <1>8, <2>1 DEF FormatInv, TypeOK
<1>10. CallerInv'
  BY <1>1, <1>3, <1>4, <1>8 DEF CallerInv
<1>11. ContentInv'
  BY <1>1, <1>4, <1>5, <1>6, <1>8 DEF ContentInv
<1>12. CutInv'
  <2>1. Len(<<>>) = 0 /\ 1 .. 0 = {}
    OBVIOUS
  <2>2. Shows(output_index)'
    BY <1>1, <2>1 DEF Shows
  <2> QED
    BY <1>1, <2>1, <2>2 DEF CutInv
<1>13. full' \in Seq(Character)
  BY <1>1
<1> QED
  BY <1>2, <1>4, <1>7, <1>8, <1>9, <1>10, <1>11, <1>12, <1>13 DEF FormatInv

(* A caller's fresh buffer. *)
LEMMA BeginFacts ==
  ASSUME FormatInv, caller = "nobody",
         NEW who \in {"snprintf", "debug_format_and_write", "debug_vprint", "debug_hex_dump"},
         NEW n \in Nat, NEW before \in Seq(Character), NEW bytes \in Nat,
         NEW formats \in Seq(Seq(Character)), Len(formats) >= 1, Len(before) <= n,
         Begin(who, n, before, bytes, formats)
  PROVE  /\ TypeOK' /\ Capacity' = n /\ ContentInv' /\ ResultIsString' /\ CutInv'
         /\ format' \in Seq(Character) /\ todo' \in Seq(Seq(Character))
         /\ full' \in Seq(Character)
         /\ caller' = who /\ phase' = "formatting" /\ at' = Len(before) /\ size' = bytes
<1>1. /\ caller' = who /\ phase' = "formatting" /\ at' = Len(before) /\ size' = bytes
      /\ format' = Head(formats) /\ todo' = Tail(formats)
      /\ output_index' = output_index /\ full' = full
      /\ buf' = [i \in 0 .. (n + 1) |-> IF i < Len(before) THEN before[i + 1] ELSE "?"]
  BY DEF Begin
<1>2. output_index = 0 /\ full = <<>>
  BY DEF FormatInv, CallerInv
<1>3. DOMAIN buf' = 0 .. (n + 1)
  BY <1>1
<1>4. Capacity' = n
  <2>1. Cardinality(DOMAIN buf') - 2 = n
    BY <1>3, CapacityIs
  <2> QED
    BY <2>1 DEF Capacity
<1> HIDE DEF Capacity
<1>5. Len(before) \in Nat /\ \A i \in 1 .. Len(before) : before[i] \in Character
  OBVIOUS
<1>6. ASSUME NEW i \in 0 .. (n + 1)
      PROVE  /\ i < Len(before) => buf'[i] \in Character
             /\ ~(i < Len(before)) => buf'[i] = "?"
  <2>1. buf'[i] = IF i < Len(before) THEN before[i + 1] ELSE "?"
    BY <1>1
  <2>2. i < Len(before) => i + 1 \in 1 .. Len(before)
    BY <1>5
  <2> QED
    BY <1>5, <2>1, <2>2
<1>7. \A i \in 0 .. (n + 1) : buf'[i] \in Character \cup {"NUL", "?"}
  BY <1>6
<1>8. TypeOK'
  <2>1. 0 \in 0 .. Max({0, bytes - 1})
    <3>1. 0 \in Int /\ bytes - 1 \in Int
      OBVIOUS
    <3>2. Max({0, bytes - 1}) = IF 0 >= bytes - 1 THEN 0 ELSE bytes - 1
      BY <3>1, MinMax, Zenon
    <3> QED
      BY <3>1, <3>2
  <2> QED
    BY <1>1, <1>2, <1>3, <1>4, <1>5, <1>7, <2>1 DEF TypeOK
<1>9. ContentInv'
  <2>1. \A i \in 0 .. (n + 1) : i >= n => buf'[i] = "?"
    BY <1>5, <1>6
  <2>2. \A i \in 0 .. (Len(before) - 1) : i \in 0 .. (n + 1) /\ buf'[i] \in Character
    BY <1>5, <1>6
  <2>3. at' + output_index' - 1 = Len(before) - 1
    BY <1>1, <1>2, <1>5
  <2> QED
    BY <1>1, <1>3, <1>4, <2>1, <2>2, <2>3 DEF ContentInv
<1>10. ResultIsString'
  BY <1>1 DEF ResultIsString
<1>11. CutInv'
  <2>1. Len(<<>>) = 0 /\ 1 .. 0 = {}
    OBVIOUS
  <2>2. Shows(output_index)'
    BY <1>1, <1>2, <2>1 DEF Shows
  <2> QED
    BY <1>1, <1>2, <2>1, <2>2 DEF CutInv
<1>12. format' \in Seq(Character) /\ todo' \in Seq(Seq(Character))
  <2> DEFINE W == Seq(Character)
  <2>1. formats \in Seq(W) /\ formats # <<>>
    OBVIOUS
  <2> HIDE DEF W
  <2>2. Head(formats) \in W /\ Tail(formats) \in Seq(W)
    BY <2>1, HeadTailProperties
  <2> QED
    BY <1>1, <2>2 DEF W
<1>13. full' \in Seq(Character)
  BY <1>1, <1>2
<1> QED
  BY <1>1, <1>4, <1>8, <1>9, <1>10, <1>11, <1>12, <1>13

(* Every call of one of the four callers starts in the invariant. *)
LEMMA CalledKeeps ==
  ASSUME FormatInv, caller = "nobody", Called
  PROVE  FormatInv'
<1>0. ASSUME NEW f \in Formats  PROVE <<f>> \in Seq(Seq(Character)) /\ Len(<<f>>) >= 1
  <2>1. f \in Seq(Character)
    BY FormatAssumption
  <2> QED
    BY <2>1
<1>1. <<>> \in Seq(Character) /\ Len(<<>>) = 0 /\ \A n \in Nat : Len(<<>>) <= n
  OBVIOUS
<1>2. ASSUME NEW f \in Formats, NEW n \in Sizes, snprintf(n, f)  PROVE FormatInv'
  <2>1. n \in Nat
    BY FormatAssumption
  <2>2. Begin("snprintf", n, <<>>, n, <<f>>)
    BY <1>2 DEF snprintf
  <2>3. /\ TypeOK' /\ Capacity' = n /\ ContentInv' /\ ResultIsString' /\ CutInv'
        /\ format' \in Seq(Character) /\ todo' \in Seq(Seq(Character)) /\ full' \in Seq(Character)
        /\ caller' = "snprintf" /\ phase' = "formatting" /\ at' = 0 /\ size' = n
    BY <1>0, <1>1, <2>1, <2>2, BeginFacts, Zenon
  <2>4. CallerInv'
    BY <2>3 DEF CallerInv
  <2> QED
    BY <2>1, <2>3, <2>4 DEF FormatInv
<1>3. ASSUME NEW f \in Formats, NEW prefix \in LevelPrefixes, debug_format_and_write(prefix, f)
      PROVE  FormatInv'
  <2> DEFINE bytes == DEBUG_BUFFER_SIZE - Len(prefix) - 2
  <2>1. /\ prefix \in Seq(Character) /\ Len(prefix) \in Nat /\ DEBUG_BUFFER_SIZE \in Nat
        /\ Len(prefix) <= DEBUG_BUFFER_SIZE /\ bytes \in Nat /\ bytes >= 1
        /\ Len(prefix) + bytes + 2 = DEBUG_BUFFER_SIZE
    BY FormatAssumption
  <2>2. Begin("debug_format_and_write", DEBUG_BUFFER_SIZE, prefix, bytes, <<f>>)
    BY <1>3 DEF debug_format_and_write, MessageSize
  <2> HIDE DEF bytes
  <2>3. /\ TypeOK' /\ Capacity' = DEBUG_BUFFER_SIZE /\ ContentInv' /\ ResultIsString' /\ CutInv'
        /\ format' \in Seq(Character) /\ todo' \in Seq(Seq(Character)) /\ full' \in Seq(Character)
        /\ caller' = "debug_format_and_write" /\ phase' = "formatting"
        /\ at' = Len(prefix) /\ size' = bytes
    BY <1>0, <2>1, <2>2, BeginFacts
  <2>4. CallerInv'
    BY <2>1, <2>3 DEF CallerInv
  <2> QED
    BY <2>1, <2>3, <2>4 DEF FormatInv
<1>4. ASSUME NEW f \in Formats, debug_vprint(f)  PROVE FormatInv'
  <2>1. DEBUG_BUFFER_SIZE \in Nat /\ DEBUG_BUFFER_SIZE - 1 \in Nat
    BY FormatAssumption
  <2>2. Begin("debug_vprint", DEBUG_BUFFER_SIZE, <<>>, DEBUG_BUFFER_SIZE - 1, <<f>>)
    BY <1>4 DEF debug_vprint
  <2>3. /\ TypeOK' /\ Capacity' = DEBUG_BUFFER_SIZE /\ ContentInv' /\ ResultIsString' /\ CutInv'
        /\ format' \in Seq(Character) /\ todo' \in Seq(Seq(Character)) /\ full' \in Seq(Character)
        /\ caller' = "debug_vprint" /\ phase' = "formatting"
        /\ at' = 0 /\ size' = DEBUG_BUFFER_SIZE - 1
    BY <1>0, <1>1, <2>1, <2>2, BeginFacts, Zenon
  <2>4. CallerInv'
    BY <2>3 DEF CallerInv
  <2> QED
    BY <2>1, <2>3, <2>4 DEF FormatInv
<1>5. ASSUME NEW n \in RowSizes, NEW printable \in BOOLEAN, debug_hex_dump(n, printable)
      PROVE  FormatInv'
  <2> DEFINE formats == RowFormats(n, printable)
  <2>1. LineSize \in Nat /\ LineSize >= 1 /\ n \in Nat
    <3>1. LineSize \in 1 .. (2 ^ Width - 1) /\ n \in Nat
      BY FormatAssumption
    <3> QED
      BY <3>1
  <2>2. Begin("debug_hex_dump", LineSize, <<>>, LineSize, formats)
    BY <1>5 DEF debug_hex_dump
  <2>3. formats \in Seq(Seq(Character)) /\ Len(formats) >= 1
    BY <2>1, RowFacts
  <2> HIDE DEF formats
  <2>4. /\ TypeOK' /\ Capacity' = LineSize /\ ContentInv' /\ ResultIsString' /\ CutInv'
        /\ format' \in Seq(Character) /\ todo' \in Seq(Seq(Character)) /\ full' \in Seq(Character)
        /\ caller' = "debug_hex_dump" /\ phase' = "formatting" /\ at' = 0 /\ size' = LineSize
    BY <1>1, <2>1, <2>2, <2>3, BeginFacts, Zenon
  <2>5. CallerInv'
    BY <2>1, <2>4 DEF CallerInv
  <2> QED
    BY <2>1, <2>4, <2>5 DEF FormatInv
<1> QED
  BY <1>2, <1>3, <1>4, <1>5 DEF Called

-----------------------------------------------------------------------------
(* The invariant holds whatever a caller formats: the index stays below the   *)
(* size, what is stored stays in the buffer and is the start of the full      *)
(* text, and vsnprintf's result is terminated.                                *)
THEOREM FormatInvariant == Spec => []FormatInv
<1>1. ASSUME Init  PROVE FormatInv
  <2>1. DOMAIN buf = 0 .. (0 + 1) /\ \A i \in DOMAIN buf : buf[i] = "?"
    BY <1>1 DEF Init
  <2>2. Capacity = 0
    BY <2>1, CapacityIs DEF Capacity
  <2> HIDE DEF Capacity
  <2>3. 0 \in 0 .. Max({0, 0 - 1})
    <3>1. 0 \in Int /\ 0 - 1 \in Int
      OBVIOUS
    <3>2. Max({0, 0 - 1}) = IF 0 >= 0 - 1 THEN 0 ELSE 0 - 1
      BY <3>1, MinMax, Zenon
    <3> QED
      BY <3>1, <3>2
  <2>4. TypeOK
    BY <1>1, <2>1, <2>2, <2>3 DEF Init, TypeOK
  <2>5. CallerInv
    BY <1>1, <2>2 DEF Init, CallerInv
  <2>6. ContentInv
    BY <1>1, <2>1, <2>2 DEF Init, ContentInv
  <2>7. ResultIsString /\ CutInv
    BY <1>1, <2>2 DEF Init, ResultIsString, CutInv
  <2>8. format \in Seq(Character) /\ todo \in Seq(Seq(Character)) /\ full \in Seq(Character)
    BY <1>1 DEF Init
  <2> QED
    BY <2>2, <2>4, <2>5, <2>6, <2>7, <2>8 DEF FormatInv
<1>2. ASSUME FormatInv, [Next]_vars  PROVE FormatInv'
  <2>1. CASE caller = "nobody" /\ Called
    BY <1>2, <2>1, CalledKeeps
  <2>2. CASE Literal \/ TrailingPercent \/ DoublePercent \/ Conversion \/ Unsupported
    BY <1>2, <2>2, LoopKeeps
  <2>3. CASE Return
    BY <1>2, <2>3, ReturnKeeps
  <2>4. CASE AddLineEnd
    BY <1>2, <2>4, AddLineEndKeeps
  <2>5. CASE Terminate
    BY <1>2, <2>5, TerminateKeeps
  <2>6. CASE NextColumn
    BY <1>2, <2>6, NextColumnKeeps
  <2>7. CASE UNCHANGED vars
    <3>1. UNCHANGED <<caller, buf, at, size, format, output_index, todo, phase, full>>
      BY <2>7 DEF vars
    <3> QED
      BY <1>2, <3>1 DEF FormatInv, TypeOK, CallerInv, ContentInv, ResultIsString, CutInv, Shows,
                        Capacity, EndOfString, LineEnd, message_len
  <2> QED
    BY <1>2, <2>1, <2>2, <2>3, <2>4, <2>5, <2>6, <2>7 DEF Next, vsnprintf
<1> QED
  BY <1>1, <1>2, PTL DEF Spec

(* vsnprintf's index never reaches the size it was given, and the buffer holds *)
(* characters only, its terminators, and bytes that nobody has written yet.    *)
THEOREM FormatTypeCorrect == Spec => []TypeOK
<1>1. FormatInv => TypeOK
  BY DEF FormatInv
<1> QED
  BY <1>1, FormatInvariant, PTL

(* For every buffer, prefix and format: nothing is stored behind the buffer,   *)
(* and no call of vsnprintf is given a size that reaches behind it.            *)
THEOREM FormatStaysInBuffer == Spec => []StaysInBuffer
<1>1. ASSUME FormatInv  PROVE StaysInBuffer
  <2>1. phase = "formatting" => at + size <= Capacity
    BY <1>1, Typed
  <2>2. \A i \in DOMAIN buf : i >= Capacity => buf[i] = "?"
    BY <1>1 DEF FormatInv, ContentInv
  <2> QED
    BY <2>1, <2>2 DEF StaysInBuffer
<1> QED
  BY <1>1, FormatInvariant, PTL

(* Every caller is left with a terminated string inside its buffer, a debug    *)
(* line with its CR and LF however much of the message was cut.                *)
THEOREM FormatResultIsString == Spec => []ResultIsString
<1>1. FormatInv => ResultIsString
  BY DEF FormatInv
<1> QED
  BY <1>1, FormatInvariant, PTL

(* The first n characters of a text, where another agrees with it. *)
LEMMA PrefixFacts ==
  ASSUME NEW s \in Seq(Character), NEW t \in Seq(Character), NEW n \in Nat,
         n <= Len(s), n <= Len(t), \A i \in 1 .. n : s[i] = t[i]
  PROVE  /\ IsPrefix(SubSeq(s, 1, n), t)
         /\ Len(s) = n => IsPrefix(s, t)
         /\ Len(s) = n /\ Len(t) = n => s = t
<1>1. \A u \in Seq(Character) : n <= Len(u) =>
        /\ SubSeq(u, 1, n) \in Seq(Character) /\ Len(SubSeq(u, 1, n)) = n
        /\ \A i \in 1 .. n : SubSeq(u, 1, n)[i] = u[i]
  <2> TAKE u \in Seq(Character)
  <2> HAVE n <= Len(u)
  <2>1. 1 \in Int /\ n \in Int /\ \A i \in 1 .. n : u[i] \in Character
    OBVIOUS
  <2>2. /\ SubSeq(u, 1, n) \in Seq(Character)
        /\ Len(SubSeq(u, 1, n)) = IF 1 <= n THEN n - 1 + 1 ELSE 0
        /\ \A i \in 1 .. (n - 1 + 1) : SubSeq(u, 1, n)[i] = u[1 + i - 1]
    BY <2>1, SubSeqProperties
  <2>3. n - 1 + 1 = n /\ \A i \in 1 .. n : 1 + i - 1 = i
    OBVIOUS
  <2>4. Len(SubSeq(u, 1, n)) = n
    BY <2>2
  <2> QED
    BY <2>2, <2>3, <2>4, Zenon
<1> DEFINE a == SubSeq(s, 1, n)
           b == SubSeq(t, 1, n)
<1>2. /\ a \in Seq(Character) /\ Len(a) = n /\ b \in Seq(Character) /\ Len(b) = n
      /\ \A i \in 1 .. n : a[i] = s[i] /\ b[i] = t[i]
  BY <1>1, Zenon
<1> HIDE DEF a, b
<1>3. a = b
  BY <1>2, SeqEqual
<1>4. SubSeq(a, 1, n) = a
  <2>1. /\ SubSeq(a, 1, n) \in Seq(Character) /\ Len(SubSeq(a, 1, n)) = n
        /\ \A i \in 1 .. n : SubSeq(a, 1, n)[i] = a[i]
    BY <1>1, <1>2
  <2> QED
    BY <1>2, <2>1, SeqEqual
<1>5. IsPrefix(a, t)
  BY <1>2, <1>3, <1>4 DEF IsPrefix, b
<1>6. ASSUME Len(s) = n  PROVE IsPrefix(s, t)
  BY <1>3, <1>6 DEF IsPrefix, a, b
<1>7. ASSUME Len(s) = n, Len(t) = n  PROVE s = t
  BY <1>7, SeqEqual
<1> QED
  BY <1>5, <1>6, <1>7 DEF a

(* What vsnprintf has stored when it returns is the start of the full text,    *)
(* and all of it if it fits; only the very last place may hold a later         *)
(* character, after a number whose "0x" did not fit.                           *)
THEOREM FormatCutNotGarbled == Spec => []CutNotGarbled
<1>1. ASSUME FormatInv  PROVE CutNotGarbled
  <2> SUFFICES ASSUME phase = "returned", size > 1
               PROVE  \/ /\ IsPrefix(Stored, full)
                         /\ format = <<>> /\ Len(full) < size => Stored = full
                      \/ /\ output_index = size - 1 /\ IsPrefix(Front(Stored), full)
                         /\ Len(full) >= size
    BY DEF CutNotGarbled
  <2>1. at \in Nat /\ size \in Nat /\ output_index \in Nat
    BY <1>1, Typed
  <2>2. full \in Seq(Character) /\ Len(full) \in Nat
    BY <1>1 DEF FormatInv
  <2>3. \A i \in 1 .. output_index : buf[at + i - 1] \in Character
    <3> TAKE i \in 1 .. output_index
    <3>1. at + i - 1 \in 0 .. (at + output_index - 1)
      BY <2>1
    <3> QED
      BY <1>1, <3>1, Zenon DEF FormatInv, ContentInv
  <2>4. Stored \in [1 .. output_index -> Character]
    BY <2>3 DEF Stored
  <2>5. Stored \in Seq(Character) /\ Len(Stored) = output_index
    BY <2>1, <2>4
  <2>6. ASSUME NEW n \in Nat, n <= output_index, Shows(n)
        PROVE  n <= Len(full) /\ \A i \in 1 .. n : Stored[i] = full[i]
    <3>1. \A i \in 1 .. n : i \in 1 .. output_index
      BY <2>1, <2>6
    <3>2. \A i \in 1 .. n : Stored[i] = buf[at + i - 1]
      BY <3>1, Zenon DEF Stored
    <3> QED
      BY <2>6, <3>2, Zenon DEF Shows
  <2>7. ASSUME Shows(output_index)
        PROVE  IsPrefix(Stored, full) /\ (Len(full) = output_index => Stored = full)
    <3>1. output_index <= output_index
      BY <2>1
    <3>2. output_index <= Len(full) /\ \A i \in 1 .. output_index : Stored[i] = full[i]
      BY <2>1, <2>6, <2>7, <3>1, Zenon
    <3>3. output_index <= Len(Stored)
      BY <2>1, <2>5
    <3> QED
      BY <2>1, <2>2, <2>5, <3>2, <3>3, PrefixFacts, Zenon
  <2>8. \/ output_index = Len(full) /\ Shows(output_index)
        \/ output_index = size - 1 /\ Shows(output_index)
        \/ output_index = size - 2 /\ Shows(output_index) /\ Len(full) >= size
        \/ output_index = size - 1 /\ Shows(output_index - 1) /\ Len(full) >= size
    BY <1>1, Zenon DEF FormatInv, CutInv
  <2>9. CASE output_index = Len(full) /\ Shows(output_index)
    BY <2>7, <2>9
  <2>10. CASE output_index = size - 1 /\ Shows(output_index)
    <3>1. output_index <= Len(full)
      BY <2>10 DEF Shows
    <3>2. Len(full) < size => Len(full) = output_index
      BY <2>1, <2>2, <2>10, <3>1
    <3> QED
      BY <2>7, <2>10, <3>2, Zenon
  <2>11. CASE output_index = size - 2 /\ Shows(output_index) /\ Len(full) >= size
    <3>1. ~(Len(full) < size)
      BY <2>1, <2>2, <2>11
    <3> QED
      BY <2>7, <2>11, <3>1, Zenon
  <2>12. CASE output_index = size - 1 /\ Shows(output_index - 1) /\ Len(full) >= size
    <3>1. output_index - 1 \in Nat /\ output_index - 1 <= output_index
          /\ output_index - 1 <= Len(Stored)
      BY <2>1, <2>5, <2>12
    <3>2. output_index - 1 <= Len(full) /\ \A i \in 1 .. (output_index - 1) : Stored[i] = full[i]
      BY <2>6, <2>12, <3>1, Zenon
    <3>3. Front(Stored) = SubSeq(Stored, 1, output_index - 1)
      BY <2>5 DEF Front
    <3>4. IsPrefix(SubSeq(Stored, 1, output_index - 1), full)
      BY <2>2, <2>5, <3>1, <3>2, PrefixFacts, Zenon
    <3> QED
      BY <2>12, <3>3, <3>4, Zenon
  <2> QED
    BY <2>8, <2>9, <2>10, <2>11, <2>12
<1> QED
  BY <1>1, FormatInvariant, PTL

=============================================================================
