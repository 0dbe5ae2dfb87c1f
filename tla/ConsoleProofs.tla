--------------------------- MODULE ConsoleProofs ----------------------------
(***************************************************************************)
(* Theorems about Console, for every set of texts, every string, every     *)
(* dump and every order of calls.                                          *)
(***************************************************************************)
EXTENDS Console, Induction, FiniteSetTheorems

(* The echo's bytes for each character, as a function. *)
Echo == [c \in ConsoleChars |-> CrLf(c)]

(* No line feed without a carriage return right before it. *)
Clean == {s \in Seq(ConsoleChars) : \A i \in 1 .. Len(s) : s[i] = LF => i > 1 /\ s[i - 1] = CR}

-----------------------------------------------------------------------------
(* Counting. *)

(* A sequence with one element more has that one more. *)
LEMMA OccurrencesAppend ==
  ASSUME NEW V, NEW s \in Seq(V), NEW e \in V, NEW x
  PROVE  /\ Occurrences(x, <<>>) = 0
         /\ Occurrences(x, s) \in Nat
         /\ Occurrences(x, Append(s, e)) = Occurrences(x, s) + (IF e = x THEN 1 ELSE 0)
<1> DEFINE n == Len(s)
           P == {i \in DOMAIN s : s[i] = x}
           Q == {i \in DOMAIN Append(s, e) : Append(s, e)[i] = x}
<1>1. n \in Nat /\ DOMAIN s = 1 .. n
  OBVIOUS
<1>2. /\ DOMAIN Append(s, e) = 1 .. (n + 1) /\ Append(s, e)[n + 1] = e
      /\ \A i \in 1 .. n : Append(s, e)[i] = s[i]
  <2>1. /\ Append(s, e) \in Seq(V) /\ Len(Append(s, e)) = n + 1
        /\ \A i \in 1 .. n : Append(s, e)[i] = s[i] /\ Append(s, e)[n + 1] = e
    BY AppendProperties
  <2> QED
    BY <2>1, AppendProperties
<1>3. IsFiniteSet(P) /\ Cardinality(P) \in Nat
  <2>1. IsFiniteSet(1 .. n)
    BY <1>1, FS_Interval
  <2>2. P \in SUBSET (1 .. n)
    BY <1>1
  <2> HIDE DEF P, n
  <2>3. IsFiniteSet(P)
    BY <2>1, <2>2, FS_Subset
  <2> QED
    BY <2>3, FS_CardinalityType
<1>4. n + 1 \notin P
  BY <1>1
<1>0. /\ Occurrences(x, <<>>) = 0
      /\ Occurrences(x, s) = Cardinality(P) /\ Occurrences(x, Append(s, e)) = Cardinality(Q)
  <2>1. {i \in DOMAIN <<>> : <<>>[i] = x} = {}
    OBVIOUS
  <2> QED
    BY <2>1, FS_EmptySet DEF Occurrences
<1>5. CASE e = x
  <2>1. Q = P \cup {n + 1}
    BY <1>1, <1>2, <1>5
  <2> HIDE DEF P, Q
  <2>2. Cardinality(Q) = Cardinality(P) + 1
    BY <1>3, <1>4, <2>1, FS_AddElement
  <2> QED
    BY <1>0, <1>3, <1>5, <2>2
<1>6. CASE e # x
  <2>1. Q = P
    BY <1>1, <1>2, <1>6
  <2> HIDE DEF P, Q
  <2> QED
    BY <1>0, <1>3, <1>6, <2>1
<1> QED
  BY <1>5, <1>6

(* The parts of a concatenation add up. *)
LEMMA OccurrencesConcat ==
  ASSUME NEW V, NEW x
  PROVE  \A a, b \in Seq(V) : /\ Occurrences(x, a) \in Nat
                              /\ Occurrences(x, a \o b) = Occurrences(x, a) + Occurrences(x, b)
<1>1. \A s \in Seq(V) : \A e \in V :
        /\ Occurrences(x, <<>>) = 0
        /\ Occurrences(x, s) \in Nat
        /\ Occurrences(x, Append(s, e)) = Occurrences(x, s) + (IF e = x THEN 1 ELSE 0)
  BY OccurrencesAppend
<1>2. Occurrences(x, <<>>) = 0
  BY FS_EmptySet DEF Occurrences
<1>3. \A s \in Seq(V) : Occurrences(x, s) \in Nat
  <2> TAKE s \in Seq(V)
  <2>1. CASE s = <<>>
    BY <1>2, <2>1
  <2>2. CASE s # <<>>
    <3>1. s[1] \in V
      BY <2>2
    <3> QED
      BY <1>1, <3>1
  <2> QED
    BY <2>1, <2>2
<1> SUFFICES ASSUME NEW a \in Seq(V)
             PROVE  \A b \in Seq(V) : Occurrences(x, a \o b) = Occurrences(x, a) + Occurrences(x, b)
  BY <1>3
<1> DEFINE S == {t \in Seq(V) : Occurrences(x, a \o t) = Occurrences(x, a) + Occurrences(x, t)}
<1>4. <<>> \in S
  <2>1. a \o <<>> = a /\ <<>> \in Seq(V)
    BY ConcatEmptySeq
  <2>2. Occurrences(x, a) + 0 = Occurrences(x, a)
    BY <1>3
  <2> QED
    BY <1>2, <2>1, <2>2, Zenon
<1>5. ASSUME NEW t \in Seq(V), NEW e \in V, t \in S  PROVE Append(t, e) \in S
  <2>1. a \o t \in Seq(V) /\ Append(t, e) \in Seq(V) /\ <<e>> \in Seq(V)
    BY ConcatProperties, AppendProperties
  <2>2. a \o Append(t, e) = Append(a \o t, e)
    <3>1. Append(t, e) = t \o <<e>> /\ Append(a \o t, e) = (a \o t) \o <<e>>
      BY <2>1, AppendIsConcat
    <3>2. (a \o t) \o <<e>> = a \o (t \o <<e>>)
      BY <2>1, ConcatAssociative
    <3> QED
      BY <3>1, <3>2
  <2> DEFINE one == IF e = x THEN 1 ELSE 0
  <2>3. one \in Nat
    OBVIOUS
  <2>4. /\ Occurrences(x, Append(t, e)) = Occurrences(x, t) + one
        /\ Occurrences(x, Append(a \o t, e)) = Occurrences(x, a \o t) + one
    BY <1>1, <2>1
  <2>5. Occurrences(x, a \o t) = Occurrences(x, a) + Occurrences(x, t)
    BY <1>5
  <2> HIDE DEF one
  <2>6. Occurrences(x, a) \in Nat /\ Occurrences(x, t) \in Nat
    BY <1>3
  <2>7. Occurrences(x, a \o Append(t, e)) = Occurrences(x, a) + Occurrences(x, Append(t, e))
    BY <2>2, <2>3, <2>4, <2>5, <2>6
  <2> QED
    BY <2>1, <2>7
<1>6. Seq(V) \subseteq S
  <2> HIDE DEF S
  <2> QED
    BY <1>4, <1>5, SequenceInduction
<1> QED
  BY <1>6

(* For x, F gives x k times; for others, never. *)
Gives(F, C, x, k) ==
  \A c \in C : (c = x => Occurrences(x, F[c]) = k) /\ (c # x => Occurrences(x, F[c]) = 0)

(* Then FlatMap has x k times as often. *)
LEMMA OccurrencesScaled ==
  ASSUME NEW C, NEW V, NEW F \in [C -> Seq(V)], NEW x, NEW k \in {0, 1, 2}, Gives(F, C, x, k)
  PROVE  \A s \in Seq(C) : Occurrences(x, FlatMap(F, s)) = k * Occurrences(x, s)
<1> DEFINE S == {t \in Seq(C) : Occurrences(x, FlatMap(F, t)) = k * Occurrences(x, t)}
<1>1. /\ FlatMap(F, <<>>) = <<>>
      /\ \A s \in Seq(C) : FlatMap(F, s) \in Seq(V)
      /\ \A s \in Seq(C) : \A e \in C : FlatMap(F, Append(s, e)) = FlatMap(F, s) \o F[e]
  <2>0. PieceByPiece(C, V, F)
    BY FlatMapUnfolds
  <2> QED
    BY <2>0 DEF PieceByPiece
<1>2. <<>> \in S
  <2>1. Occurrences(x, <<>>) = 0 /\ k * 0 = 0 /\ <<>> \in Seq(C)
    BY FS_EmptySet DEF Occurrences
  <2> QED
    BY <1>1, <2>1, Zenon
<1>3. ASSUME NEW t \in Seq(C), NEW e \in C, t \in S  PROVE Append(t, e) \in S
  <2>1. Append(t, e) \in Seq(C) /\ FlatMap(F, t) \in Seq(V) /\ F[e] \in Seq(V)
    BY <1>1, AppendProperties
  <2>2. Occurrences(x, FlatMap(F, t) \o F[e]) = Occurrences(x, FlatMap(F, t)) + Occurrences(x, F[e])
    <3>1. \A a, b \in Seq(V) : Occurrences(x, a \o b) = Occurrences(x, a) + Occurrences(x, b)
      BY OccurrencesConcat
    <3> QED
      BY <2>1, <3>1, Zenon
  <2>3. /\ Occurrences(x, t) \in Nat
        /\ Occurrences(x, Append(t, e)) = Occurrences(x, t) + (IF e = x THEN 1 ELSE 0)
    BY OccurrencesAppend
  <2>4. Occurrences(x, FlatMap(F, t)) = k * Occurrences(x, t)
    BY <1>3
  <2>5. Occurrences(x, FlatMap(F, Append(t, e))) =
          k * Occurrences(x, t) + (IF e = x THEN k ELSE 0)
    <3>1. Occurrences(x, F[e]) = IF e = x THEN k ELSE 0
      BY DEF Gives
    <3> QED
      BY <1>1, <2>2, <2>4, <3>1, Zenon
  <2>6. ASSUME NEW n \in Nat  PROVE k * n + k = k * (n + 1) /\ k * n + 0 = k * n
    BY k \in {0, 1, 2}
  <2>7. Occurrences(x, FlatMap(F, Append(t, e))) = k * Occurrences(x, Append(t, e))
    BY <2>3, <2>5, <2>6
  <2> QED
    BY <2>1, <2>7
<1>4. Seq(C) \subseteq S
  <2> HIDE DEF S
  <2> QED
    BY <1>2, <1>3, SequenceInduction
<1> QED
  BY <1>4

-----------------------------------------------------------------------------
(* What the layers send. *)

(* The characters, and the echo of each. *)
LEMMA EchoFacts ==
  /\ CR \in ConsoleChars /\ LF \in ConsoleChars /\ CR # LF
  /\ \A t \in Texts : t \in ConsoleChars /\ t # CR /\ t # LF
  /\ Echo \in [ConsoleChars -> Seq(ConsoleChars)]
  /\ Echo[LF] = <<CR, LF>>
  /\ \A c \in ConsoleChars : c # LF => Echo[c] = <<c>>
<1>1. /\ CR \in ConsoleChars /\ LF \in ConsoleChars /\ CR # LF
      /\ \A t \in Texts : t \in ConsoleChars /\ t # CR /\ t # LF
  BY ConsoleAssumption DEF ConsoleChars
<1>2. \A c \in ConsoleChars : CrLf(c) \in Seq(ConsoleChars)
  BY <1>1 DEF CrLf
<1>3. Echo \in [ConsoleChars -> Seq(ConsoleChars)]
  BY <1>2 DEF Echo
<1>4. \A c \in ConsoleChars : Echo[c] = CrLf(c)
  BY DEF Echo
<1> QED
  BY <1>1, <1>3, <1>4 DEF CrLf

(* Clean sequences, put together, are clean; an echo is. *)
LEMMA CleanFacts ==
  /\ Clean \in SUBSET Seq(ConsoleChars) /\ <<>> \in Clean
  /\ \A u, v \in Clean : u \o v \in Clean
  /\ \A c \in ConsoleChars : Echo[c] \in Clean
  /\ \A s \in Seq(ConsoleChars) : FlatMap(Echo, s) \in Clean
<1>1. Clean \in SUBSET Seq(ConsoleChars) /\ <<>> \in Clean
  BY DEF Clean
<1>2. ASSUME NEW u \in Clean, NEW v \in Clean  PROVE u \o v \in Clean
  <2>1. /\ u \in Seq(ConsoleChars) /\ v \in Seq(ConsoleChars)
        /\ Len(u) \in Nat /\ Len(v) \in Nat
        /\ \A i \in 1 .. Len(u) : u[i] = LF => i > 1 /\ u[i - 1] = CR
        /\ \A i \in 1 .. Len(v) : v[i] = LF => i > 1 /\ v[i - 1] = CR
    BY DEF Clean
  <2>2. /\ u \o v \in Seq(ConsoleChars) /\ Len(u \o v) = Len(u) + Len(v)
        /\ \A i \in 1 .. (Len(u) + Len(v)) :
             (u \o v)[i] = IF i <= Len(u) THEN u[i] ELSE v[i - Len(u)]
    BY <2>1, ConcatProperties
  <2>3. ASSUME NEW i \in 1 .. (Len(u) + Len(v)), (u \o v)[i] = LF
        PROVE  i > 1 /\ (u \o v)[i - 1] = CR
    <3>1. CASE i <= Len(u)
      <4>1. i \in 1 .. Len(u) /\ u[i] = LF
        BY <2>1, <2>2, <2>3, <3>1
      <4>2. i > 1 /\ u[i - 1] = CR
        BY <2>1, <4>1
      <4>3. i - 1 \in 1 .. (Len(u) + Len(v)) /\ i - 1 <= Len(u)
        BY <2>1, <4>1, <4>2
      <4> QED
        BY <2>2, <4>2, <4>3
    <3>2. CASE ~(i <= Len(u))
      <4> DEFINE j == i - Len(u)
      <4>1. j \in 1 .. Len(v) /\ v[j] = LF
        BY <2>1, <2>2, <2>3, <3>2
      <4>2. j > 1 /\ v[j - 1] = CR
        BY <2>1, <4>1
      <4>3. /\ i - 1 \in 1 .. (Len(u) + Len(v)) /\ ~(i - 1 <= Len(u)) /\ i > 1
            /\ (i - 1) - Len(u) = j - 1
        BY <2>1, <4>1, <4>2
      <4>4. (u \o v)[i - 1] = v[(i - 1) - Len(u)]
        BY <2>2, <4>3
      <4> QED
        BY <4>2, <4>3, <4>4
    <3> QED
      BY <3>1, <3>2
  <2> QED
    BY <2>2, <2>3 DEF Clean
<1>3. ASSUME NEW c \in ConsoleChars  PROVE Echo[c] \in Clean
  <2>1. CASE c = LF
    <3>1. Echo[c] = <<CR, LF>> /\ CR \in ConsoleChars /\ LF \in ConsoleChars /\ CR # LF
      BY <2>1, EchoFacts
    <3>2. <<CR, LF>> \in Clean
      BY <3>1 DEF Clean
    <3> QED
      BY <3>1, <3>2
  <2>2. CASE c # LF
    <3>1. Echo[c] = <<c>>
      BY <2>2, EchoFacts
    <3>2. <<c>> \in Clean
      BY <2>2 DEF Clean
    <3> QED
      BY <3>1, <3>2
  <2> QED
    BY <2>1, <2>2
<1>4. \A s \in Seq(ConsoleChars) : FlatMap(Echo, s) \in Clean
  <2>1. Echo \in [ConsoleChars -> Clean]
    BY <1>3, EchoFacts
  <2> HIDE DEF Echo
  <2> QED
    BY <1>1, <1>2, <2>1, FlatMapClosed
<1> QED
  BY <1>1, <1>2, <1>3, <1>4

(* The echo of a sequence, by recursion; it has each text as often. *)
LEMMA EchoUnfolds ==
  /\ FlatMap(Echo, <<>>) = <<>>
  /\ \A s \in Seq(ConsoleChars) : FlatMap(Echo, s) \in Seq(ConsoleChars)
  /\ \A s \in Seq(ConsoleChars) : \A e \in ConsoleChars :
       FlatMap(Echo, Append(s, e)) = FlatMap(Echo, s) \o Echo[e]
<1>1. Echo \in [ConsoleChars -> Seq(ConsoleChars)]
  BY EchoFacts
<1>2. PieceByPiece(ConsoleChars, ConsoleChars, Echo)
  BY <1>1, FlatMapUnfolds
<1> QED
  BY <1>2 DEF PieceByPiece

(* A sequence of one character. *)
LEMMA OneCharacter ==
  ASSUME NEW V, NEW c \in V, NEW x
  PROVE  Occurrences(x, <<c>>) = IF c = x THEN 1 ELSE 0
<1>1. <<>> \in Seq(V) /\ Append(<<>>, c) = <<c>>
  OBVIOUS
<1>2. /\ Occurrences(x, <<>>) = 0
      /\ Occurrences(x, Append(<<>>, c)) = Occurrences(x, <<>>) + (IF c = x THEN 1 ELSE 0)
  BY <1>1, OccurrencesAppend
<1> QED
  BY <1>1, <1>2

(* The echo has each text as often as what it echoes. *)
LEMMA EchoCounts ==
  ASSUME NEW x \in Texts
  PROVE  /\ \A c \in ConsoleChars : Occurrences(x, Echo[c]) = IF c = x THEN 1 ELSE 0
         /\ \A s \in Seq(ConsoleChars) : Occurrences(x, FlatMap(Echo, s)) = Occurrences(x, s)
<1>1. ASSUME NEW c \in ConsoleChars
      PROVE  Occurrences(x, Echo[c]) = IF c = x THEN 1 ELSE 0
  <2>1. CASE c # LF
    <3>1. Echo[c] = <<c>>
      BY <2>1, EchoFacts
    <3> QED
      BY <3>1, OneCharacter
  <2>2. CASE c = LF
    <3>1. Echo[c] = <<CR, LF>> /\ CR \in ConsoleChars /\ LF \in ConsoleChars /\ CR # x /\ LF # x
      BY <2>2, EchoFacts
    <3>2. Occurrences(x, <<CR>>) = 0
      BY <3>1, OneCharacter
    <3>3. <<CR>> \in Seq(ConsoleChars) /\ <<CR, LF>> = Append(<<CR>>, LF)
      BY <3>1
    <3>4. ASSUME NEW s \in Seq(ConsoleChars), Occurrences(x, s) = 0
          PROVE  Occurrences(x, Append(s, LF)) = 0
      <4>1. Occurrences(x, Append(s, LF)) = Occurrences(x, s) + (IF LF = x THEN 1 ELSE 0)
        BY <3>1, OccurrencesAppend
      <4> QED
        BY <3>1, <3>4, <4>1
    <3>5. Occurrences(x, Append(<<CR>>, LF)) = 0
      BY <3>2, <3>3, <3>4, Zenon
    <3> QED
      BY <2>2, <3>1, <3>3, <3>5, Zenon
  <2> QED
    BY <2>1, <2>2
<1>2. \A s \in Seq(ConsoleChars) : Occurrences(x, FlatMap(Echo, s)) = 1 * Occurrences(x, s)
  <2>1. Echo \in [ConsoleChars -> Seq(ConsoleChars)] /\ 1 \in {0, 1, 2}
    BY EchoFacts
  <2>2. Gives(Echo, ConsoleChars, x, 1)
    BY <1>1 DEF Gives
  <2> QED
    BY <2>1, <2>2, OccurrencesScaled
<1>3. \A s \in Seq(ConsoleChars) : Occurrences(x, s) \in Nat
  BY OccurrencesConcat
<1> QED
  BY <1>1, <1>2, <1>3

(* What the terminal sends to COM1 for a string: its echo, or nothing. *)
LEMMA TerminalWrite ==
  ASSUME terminal_serial_output \in BOOLEAN, NEW s \in Seq(ConsoleChars)
  PROVE  /\ terminal_serial_output => terminal_write(s) = FlatMap(Echo, s)
         /\ ~terminal_serial_output => terminal_write(s) = <<>>
<1>1. \A i \in DOMAIN s : s[i] \in ConsoleChars
  OBVIOUS
<1>2. CASE terminal_serial_output
  <2>1. terminal_write(s) = FlattenSeq([i \in DOMAIN s |-> CrLf(s[i])])
    BY <1>2 DEF terminal_write, ForEach, terminal_putchar, When
  <2>2. [i \in DOMAIN s |-> CrLf(s[i])] = [i \in DOMAIN s |-> Echo[s[i]]]
    BY <1>1 DEF Echo
  <2> QED
    BY <1>2, <2>1, <2>2 DEF FlatMap
<1>3. CASE ~terminal_serial_output
  <2> DEFINE F == [c \in ConsoleChars |-> <<>>]
  <2>1. terminal_write(s) = FlattenSeq([i \in DOMAIN s |-> <<>>])
    BY <1>3 DEF terminal_write, ForEach, terminal_putchar, When
  <2>2. [i \in DOMAIN s |-> <<>>] = [i \in DOMAIN s |-> F[s[i]]]
    BY <1>1
  <2>3. terminal_write(s) = FlatMap(F, s)
    BY <2>1, <2>2 DEF FlatMap
  <2>4. F \in [ConsoleChars -> {<<>>}] /\ {<<>>} \in SUBSET Seq(ConsoleChars) /\ <<>> \in {<<>>}
    OBVIOUS
  <2>5. \A u, v \in {<<>>} : u \o v \in {<<>>}
    OBVIOUS
  <2> HIDE DEF F
  <2> DEFINE T == {<<>>}
  <2>6. F \in [ConsoleChars -> T] /\ T \in SUBSET Seq(ConsoleChars) /\ <<>> \in T
        /\ \A u, v \in T : u \o v \in T
    BY <2>4, <2>5
  <2> HIDE DEF T
  <2>7. \A r \in Seq(ConsoleChars) : FlatMap(F, r) \in T
    BY <2>6, FlatMapClosed
  <2> QED
    BY <1>3, <2>3, <2>7 DEF T
<1> QED
  BY <1>2, <1>3

(* A debug line has each text as often as its string has it, and if the     *)
(* string is clean the line is.                                             *)
LEMMA LineFacts ==
  ASSUME NEW s \in Seq(ConsoleChars)
  PROVE  /\ DebugLine(s) \in Seq(ConsoleChars)
         /\ s \in Clean => DebugLine(s) \in Clean
         /\ \A x \in Texts : Occurrences(x, DebugLine(s)) = Occurrences(x, s)
<1> DEFINE e == Echo[LF]
<1>1. LF \in ConsoleChars /\ e \in Seq(ConsoleChars) /\ e \in Clean
  BY EchoFacts, CleanFacts
<1>2. DebugLine(s) = s \o e
  BY EchoFacts DEF DebugLine
<1>3. ASSUME NEW x \in Texts  PROVE Occurrences(x, e) = 0
  BY <1>1, EchoCounts, EchoFacts
<1> HIDE DEF e
<1>4. DebugLine(s) \in Seq(ConsoleChars)
  BY <1>1, <1>2, ConcatProperties
<1>5. s \in Clean => DebugLine(s) \in Clean
  BY <1>1, <1>2, CleanFacts, Zenon
<1>6. ASSUME NEW x \in Texts  PROVE Occurrences(x, DebugLine(s)) = Occurrences(x, s)
  <2>1. /\ Occurrences(x, s) \in Nat
        /\ Occurrences(x, s \o e) = Occurrences(x, s) + Occurrences(x, e)
    BY <1>1, OccurrencesConcat
  <2> QED
    BY <1>2, <1>3, <2>1
<1> QED
  BY <1>4, <1>5, <1>6

(* What is promised of a log: that it is clean, or only that it consists of *)
(* characters.                                                              *)
Forms == {Clean, Seq(ConsoleChars)}

(* Either way the empty log will do, and one log after another. *)
LEMMA FormFacts ==
  \A E \in Forms : /\ E \in SUBSET Seq(ConsoleChars) /\ Clean \in SUBSET E /\ <<>> \in E
                   /\ \A u, v \in E : u \o v \in E
<1>1. /\ Clean \in SUBSET Seq(ConsoleChars) /\ <<>> \in Clean
      /\ \A u, v \in Clean : u \o v \in Clean
  BY CleanFacts
<1>2. \A u, v \in Seq(ConsoleChars) : u \o v \in Seq(ConsoleChars)
  BY ConcatProperties
<1>3. <<>> \in Seq(ConsoleChars)
  OBVIOUS
<1>4. ASSUME NEW E \in Forms
      PROVE  /\ E \in SUBSET Seq(ConsoleChars) /\ Clean \in SUBSET E /\ <<>> \in E
             /\ \A u, v \in E : u \o v \in E
  <2>1. E = Clean \/ E = Seq(ConsoleChars)
    BY DEF Forms
  <2>2. CASE E = Clean
    BY <1>1, <2>2
  <2>3. CASE E = Seq(ConsoleChars)
    BY <1>1, <1>2, <1>3, <2>3
  <2> QED
    BY <2>1, <2>2, <2>3
<1> QED
  BY <1>4

(* A string of no form but its own is just characters. *)
FormOf(s) == IF s \in Clean THEN Clean ELSE Seq(ConsoleChars)

(* It is a form, and the string and its line have it. *)
LEMMA FormOfFacts ==
  ASSUME NEW s \in Seq(ConsoleChars)
  PROVE  FormOf(s) \in Forms /\ s \in FormOf(s) /\ DebugLine(s) \in FormOf(s)
BY LineFacts, Zenon DEF FormOf, Forms

(* What a call gives the devices, with the terminal's echo on or off: the   *)
(* log has the form E, and it is the echo of the screen when the terminal   *)
(* echoes.                                                                  *)
Faithful(o, echo, E) ==
  /\ o \in [Devices -> Seq(ConsoleChars)]
  /\ o[SERIAL] \in E
  /\ echo => o[SERIAL] = FlatMap(Echo, o[VGA])

(* The screen gets the texts of s, as often as s has them, and the log       *)
(* those of t.                                                               *)
Carries(o, s, t) ==
  \A x \in Texts : /\ Occurrences(x, o[VGA]) = Occurrences(x, s)
                   /\ Occurrences(x, o[SERIAL]) = Occurrences(x, t)

(* Silence is faithful and carries nothing. *)
LEMMA SilenceFacts ==
  /\ \A echo \in BOOLEAN : \A E \in Forms : Faithful(Silence, echo, E)
  /\ Carries(Silence, <<>>, <<>>)
  /\ \A x : Occurrences(x, <<>>) = 0
<1>1. \A x : Occurrences(x, <<>>) = 0
  BY FS_EmptySet DEF Occurrences
<1>2. Silence \in [Devices -> Seq(ConsoleChars)] /\ Silence[VGA] = <<>> /\ Silence[SERIAL] = <<>>
  BY DEF Silence, Devices, VGA, SERIAL
<1>3. \A E \in Forms : <<>> \in E
  BY FormFacts
<1>4. FlatMap(Echo, <<>>) = <<>>
  BY EchoUnfolds
<1>5. Carries(Silence, <<>>, <<>>)
  BY <1>2 DEF Carries
<1>6. \A echo \in BOOLEAN : \A E \in Forms : Faithful(Silence, echo, E)
  BY <1>2, <1>3, <1>4, Zenon DEF Faithful
<1> QED
  BY <1>1, <1>5, <1>6

(* Where a line goes: to the screen if it is a target, and to the log if the *)
(* screen's echo takes it there or COM1 is a target of its own.              *)
LEMMA WriteValue ==
  ASSUME terminal_serial_output \in BOOLEAN
  PROVE  \A target \in SUBSET Devices : \A s \in Seq(ConsoleChars) :
           /\ debug_write(target, s) \in [Devices -> Seq(ConsoleChars)]
           /\ VGA \in target => debug_write(target, s)[VGA] = s
           /\ VGA \notin target => debug_write(target, s)[VGA] = <<>>
           /\ terminal_serial_output /\ VGA \in target =>
                debug_write(target, s)[SERIAL] = FlatMap(Echo, s)
           /\ terminal_serial_output /\ VGA \notin target => debug_write(target, s)[SERIAL] = <<>>
           /\ ~terminal_serial_output /\ SERIAL \in target => debug_write(target, s)[SERIAL] = s
           /\ ~terminal_serial_output /\ SERIAL \notin target =>
                debug_write(target, s)[SERIAL] = <<>>
<1>0. /\ \A s \in Seq(ConsoleChars) : FlatMap(Echo, s) \in Seq(ConsoleChars)
      /\ \A s \in Seq(ConsoleChars) : terminal_serial_output => terminal_write(s) = FlatMap(Echo, s)
      /\ \A s \in Seq(ConsoleChars) : ~terminal_serial_output => terminal_write(s) = <<>>
  BY EchoUnfolds, TerminalWrite
<1>1. /\ <<>> \in Seq(ConsoleChars)
      /\ \A s \in Seq(ConsoleChars) : <<>> \o s = s /\ s \o <<>> = s
  BY ConcatEmptySeq
<1> SUFFICES ASSUME NEW target \in SUBSET Devices, NEW s \in Seq(ConsoleChars)
             PROVE  /\ debug_write(target, s) \in [Devices -> Seq(ConsoleChars)]
                    /\ VGA \in target => debug_write(target, s)[VGA] = s
                    /\ VGA \notin target => debug_write(target, s)[VGA] = <<>>
                    /\ terminal_serial_output /\ VGA \in target =>
                         debug_write(target, s)[SERIAL] = FlatMap(Echo, s)
                    /\ terminal_serial_output /\ VGA \notin target =>
                         debug_write(target, s)[SERIAL] = <<>>
                    /\ ~terminal_serial_output /\ SERIAL \in target =>
                         debug_write(target, s)[SERIAL] = s
                    /\ ~terminal_serial_output /\ SERIAL \notin target =>
                         debug_write(target, s)[SERIAL] = <<>>
  OBVIOUS
<1> DEFINE o == debug_write(target, s)
           screen == When(VGA \in target, s)
           log == When(VGA \in target, terminal_write(s))
                    \o When(SERIAL \in target /\ ~terminal_serial_output, s)
<1>2. /\ VGA \in target => screen = s
      /\ VGA \notin target => screen = <<>>
  BY DEF When
<1>3. terminal_serial_output /\ VGA \in target => log = FlatMap(Echo, s)
  <2> HAVE terminal_serial_output /\ VGA \in target
  <2>1. log = FlatMap(Echo, s) \o <<>>
    BY <1>0 DEF When
  <2> QED
    BY <1>0, <1>1, <2>1, Zenon
<1>4. terminal_serial_output /\ VGA \notin target => log = <<>>
  <2> HAVE terminal_serial_output /\ VGA \notin target
  <2>1. log = <<>> \o <<>>
    BY DEF When
  <2> QED
    BY <1>1, <2>1, Zenon
<1>5. ~terminal_serial_output /\ SERIAL \in target => log = s
  <2> HAVE ~terminal_serial_output /\ SERIAL \in target
  <2>1. log = <<>> \o s
    BY <1>0 DEF When
  <2> QED
    BY <1>1, <2>1, Zenon
<1>6. ~terminal_serial_output /\ SERIAL \notin target => log = <<>>
  <2> HAVE ~terminal_serial_output /\ SERIAL \notin target
  <2>1. log = <<>> \o <<>>
    BY <1>0 DEF When
  <2> QED
    BY <1>1, <2>1, Zenon
<1>7. o = [d \in Devices |-> IF d = VGA THEN screen ELSE log]
  BY DEF debug_write
<1> HIDE DEF screen, log, o
<1>8. screen \in Seq(ConsoleChars) /\ log \in Seq(ConsoleChars)
  BY <1>0, <1>1, <1>2, <1>3, <1>4, <1>5, <1>6, Zenon
<1>9. o \in [Devices -> Seq(ConsoleChars)] /\ o[VGA] = screen /\ o[SERIAL] = log
  BY <1>7, <1>8 DEF Devices, VGA, SERIAL
<1>10. o = debug_write(target, s)
  BY DEF o
<1> QED
  BY <1>2, <1>3, <1>4, <1>5, <1>6, <1>9, <1>10, Zenon

(* What of a string goes to the screen, and what to the log. *)
ToScreen(target, s) == IF VGA \in target THEN s ELSE <<>>
ToLog(target, echo, s) ==
  IF (echo /\ VGA \in target) \/ (~echo /\ SERIAL \in target) THEN s ELSE <<>>

(* All of it or nothing, and all of it on each if both devices are targets. *)
LEMMA TargetFacts ==
  \A echo \in BOOLEAN : \A s :
    /\ \A target : /\ ToScreen(target, s) = s \/ ToScreen(target, s) = <<>>
                   /\ ToLog(target, echo, s) = s \/ ToLog(target, echo, s) = <<>>
    /\ ToScreen(Devices, s) = s /\ ToLog(Devices, echo, s) = s
<1>1. VGA \in Devices /\ SERIAL \in Devices
  BY DEF Devices
<1>2. \A echo \in BOOLEAN : \A s : ToScreen(Devices, s) = s /\ ToLog(Devices, echo, s) = s
  BY <1>1, Zenon DEF ToScreen, ToLog
<1>3. \A echo \in BOOLEAN : \A s : \A target :
        /\ ToScreen(target, s) = s \/ ToScreen(target, s) = <<>>
        /\ ToLog(target, echo, s) = s \/ ToLog(target, echo, s) = <<>>
  BY Zenon DEF ToScreen, ToLog
<1> QED
  BY <1>2, <1>3, Zenon

(* A string that debug_write sends. *)
LEMMA WriteFacts ==
  ASSUME terminal_serial_output \in BOOLEAN
  PROVE  \A target \in SUBSET Devices : \A E \in Forms : \A l \in E :
           /\ Faithful(debug_write(target, l), terminal_serial_output, E)
           /\ Carries(debug_write(target, l),
                      ToScreen(target, l), ToLog(target, terminal_serial_output, l))
<1>1. \A target \in SUBSET Devices : \A s \in Seq(ConsoleChars) :
        /\ debug_write(target, s) \in [Devices -> Seq(ConsoleChars)]
        /\ VGA \in target => debug_write(target, s)[VGA] = s
        /\ VGA \notin target => debug_write(target, s)[VGA] = <<>>
        /\ terminal_serial_output /\ VGA \in target =>
             debug_write(target, s)[SERIAL] = FlatMap(Echo, s)
        /\ terminal_serial_output /\ VGA \notin target => debug_write(target, s)[SERIAL] = <<>>
        /\ ~terminal_serial_output /\ SERIAL \in target => debug_write(target, s)[SERIAL] = s
        /\ ~terminal_serial_output /\ SERIAL \notin target =>
             debug_write(target, s)[SERIAL] = <<>>
  BY WriteValue
<1>2. /\ FlatMap(Echo, <<>>) = <<>>
      /\ \A s \in Seq(ConsoleChars) : FlatMap(Echo, s) \in Clean
  BY CleanFacts, EchoUnfolds
<1>3. \A x \in Texts : \A s \in Seq(ConsoleChars) :
        Occurrences(x, FlatMap(Echo, s)) = Occurrences(x, s)
  BY EchoCounts
<1> SUFFICES ASSUME NEW target \in SUBSET Devices, NEW E \in Forms, NEW l \in E
             PROVE  /\ Faithful(debug_write(target, l), terminal_serial_output, E)
                    /\ Carries(debug_write(target, l),
                               ToScreen(target, l), ToLog(target, terminal_serial_output, l))
  OBVIOUS
<1> DEFINE o == debug_write(target, l)
<1>5. l \in Seq(ConsoleChars) /\ <<>> \in E /\ FlatMap(Echo, l) \in E
  BY <1>2, FormFacts, Zenon
<1>6. /\ o \in [Devices -> Seq(ConsoleChars)]
      /\ VGA \in target => o[VGA] = l
      /\ VGA \notin target => o[VGA] = <<>>
      /\ terminal_serial_output /\ VGA \in target => o[SERIAL] = FlatMap(Echo, l)
      /\ terminal_serial_output /\ VGA \notin target => o[SERIAL] = <<>>
      /\ ~terminal_serial_output /\ SERIAL \in target => o[SERIAL] = l
      /\ ~terminal_serial_output /\ SERIAL \notin target => o[SERIAL] = <<>>
  BY <1>1, <1>5, Zenon
<1> HIDE DEF o
<1>7. Faithful(o, terminal_serial_output, E)
  <2>1. o[SERIAL] \in E
    BY <1>5, <1>6, Zenon
  <2>2. terminal_serial_output => o[SERIAL] = FlatMap(Echo, o[VGA])
    BY <1>2, <1>6, Zenon
  <2> QED
    BY <1>6, <2>1, <2>2, Zenon DEF Faithful
<1>8. Carries(o, ToScreen(target, l), ToLog(target, terminal_serial_output, l))
  <2> SUFFICES ASSUME NEW x \in Texts
               PROVE  /\ Occurrences(x, o[VGA]) = Occurrences(x, ToScreen(target, l))
                      /\ Occurrences(x, o[SERIAL]) =
                           Occurrences(x, ToLog(target, terminal_serial_output, l))
    BY Zenon DEF Carries
  <2>1. Occurrences(x, FlatMap(Echo, l)) = Occurrences(x, l)
    BY <1>3, <1>5
  <2>2. o[VGA] = ToScreen(target, l)
    BY <1>6, Zenon DEF ToScreen
  <2>3. CASE terminal_serial_output /\ VGA \in target
    <3>1. ToLog(target, terminal_serial_output, l) = l /\ o[SERIAL] = FlatMap(Echo, l)
      BY <1>6, <2>3, Zenon DEF ToLog
    <3> QED
      BY <2>1, <2>2, <3>1, Zenon
  <2>4. CASE ~(terminal_serial_output /\ VGA \in target)
    <3>1. ToLog(target, terminal_serial_output, l) = o[SERIAL]
      BY <1>6, <2>4, Zenon DEF ToLog
    <3> QED
      BY <2>2, <3>1, Zenon
  <2> QED
    BY <2>3, <2>4, Zenon
<1> QED
  BY <1>7, <1>8 DEF o

(* A line: its string's texts and its string's form. *)
LEMMA LineWriteFacts ==
  ASSUME terminal_serial_output \in BOOLEAN
  PROVE  \A target \in SUBSET Devices : \A s \in Seq(ConsoleChars) :
           /\ Faithful(debug_write(target, DebugLine(s)), terminal_serial_output, FormOf(s))
           /\ Carries(debug_write(target, DebugLine(s)),
                      ToScreen(target, s), ToLog(target, terminal_serial_output, s))
<1> SUFFICES ASSUME NEW target \in SUBSET Devices, NEW s \in Seq(ConsoleChars)
             PROVE  /\ Faithful(debug_write(target, DebugLine(s)), terminal_serial_output, FormOf(s))
                    /\ Carries(debug_write(target, DebugLine(s)),
                               ToScreen(target, s), ToLog(target, terminal_serial_output, s))
  OBVIOUS
<1> DEFINE l == DebugLine(s)
           o == debug_write(target, l)
<1>1. FormOf(s) \in Forms /\ l \in FormOf(s)
  BY FormOfFacts
<1>2. \A x \in Texts : Occurrences(x, l) = Occurrences(x, s)
  BY LineFacts
<1> HIDE DEF l
<1>3. /\ Faithful(o, terminal_serial_output, FormOf(s))
      /\ Carries(o, ToScreen(target, l), ToLog(target, terminal_serial_output, l))
  BY <1>1, WriteFacts, Zenon
<1> HIDE DEF o
<1>4. ASSUME NEW x \in Texts
      PROVE  /\ Occurrences(x, o[VGA]) = Occurrences(x, ToScreen(target, s))
             /\ Occurrences(x, o[SERIAL]) =
                  Occurrences(x, ToLog(target, terminal_serial_output, s))
  <2>1. Occurrences(x, ToScreen(target, l)) = Occurrences(x, ToScreen(target, s))
    BY <1>2, Zenon DEF ToScreen
  <2>2. Occurrences(x, ToLog(target, terminal_serial_output, l)) =
          Occurrences(x, ToLog(target, terminal_serial_output, s))
    BY <1>2, Zenon DEF ToLog
  <2>3. /\ Occurrences(x, o[VGA]) = Occurrences(x, ToScreen(target, l))
        /\ Occurrences(x, o[SERIAL]) = Occurrences(x, ToLog(target, terminal_serial_output, l))
    BY <1>3, Zenon DEF Carries
  <2> QED
    BY <2>1, <2>2, <2>3, Zenon
<1>5. Carries(o, ToScreen(target, s), ToLog(target, terminal_serial_output, s))
  BY <1>4, Zenon DEF Carries
<1> QED
  BY <1>3, <1>5 DEF o, l

(* The same for a line that asks for its level first. *)
LEMMA FormatAndWriteFacts ==
  ASSUME terminal_serial_output \in BOOLEAN
  PROVE  \A target \in SUBSET Devices : \A s \in Seq(ConsoleChars) : \A level, threshold \in Int :
           /\ Faithful(debug_format_and_write(level, threshold, target, s),
                       terminal_serial_output, FormOf(s))
           /\ level > threshold =>
                /\ Faithful(debug_format_and_write(level, threshold, target, s),
                            terminal_serial_output, Clean)
                /\ Carries(debug_format_and_write(level, threshold, target, s), <<>>, <<>>)
           /\ ~(level > threshold) =>
                Carries(debug_format_and_write(level, threshold, target, s),
                        ToScreen(target, s), ToLog(target, terminal_serial_output, s))
<1>1. \A target \in SUBSET Devices : \A s \in Seq(ConsoleChars) :
        /\ Faithful(debug_write(target, DebugLine(s)), terminal_serial_output, FormOf(s))
        /\ Carries(debug_write(target, DebugLine(s)),
                   ToScreen(target, s), ToLog(target, terminal_serial_output, s))
  BY LineWriteFacts
<1>2. /\ \A E \in Forms : Faithful(Silence, terminal_serial_output, E)
      /\ Carries(Silence, <<>>, <<>>)
  BY SilenceFacts
<1>3. Clean \in Forms /\ \A s : FormOf(s) \in Forms
  BY Zenon DEF Forms, FormOf
<1>4. \A s : \A target, level, threshold :
        /\ level > threshold => debug_format_and_write(level, threshold, target, s) = Silence
        /\ ~(level > threshold) =>
             debug_format_and_write(level, threshold, target, s) = debug_write(target, DebugLine(s))
  BY Zenon DEF debug_format_and_write
<1> QED
  BY <1>1, <1>2, <1>3, <1>4, Zenon

(* The echo of a concatenation is the concatenation of the echoes. *)
LEMMA EchoConcat ==
  \A a, b \in Seq(ConsoleChars) : FlatMap(Echo, a \o b) = FlatMap(Echo, a) \o FlatMap(Echo, b)
<1>1. Echo \in [ConsoleChars -> Seq(ConsoleChars)]
  BY EchoFacts
<1>2. Distributes(ConsoleChars, ConsoleChars, Echo)
  BY <1>1, FlatMapConcat
<1> QED
  BY <1>2 DEF Distributes

(* Echoing what a function gives piece by piece is echoing each piece. *)
LEMMA EchoCompose ==
  \A D : \A G \in [D -> Seq(ConsoleChars)], K \in [D -> Seq(ConsoleChars)] :
    (\A d \in D : K[d] = FlatMap(Echo, G[d])) =>
      \A s \in Seq(D) : FlatMap(K, s) = FlatMap(Echo, FlatMap(G, s))
<1>1. Echo \in [ConsoleChars -> Seq(ConsoleChars)]
  BY EchoFacts
<1>2. Composes(ConsoleChars, ConsoleChars, Echo)
  BY <1>1, FlatMapCompose
<1> QED
  BY <1>2 DEF Composes

(* OccurrencesScaled for lines and for strings. *)
LEMMA Scaled ==
  /\ \A F \in [Texts -> Seq(ConsoleChars)] : \A x : \A k \in {0, 1, 2} : Gives(F, Texts, x, k) =>
       \A s \in Seq(Texts) : Occurrences(x, FlatMap(F, s)) = k * Occurrences(x, s)
  /\ \A F \in [ConsoleChars -> Seq(ConsoleChars)] : \A x : \A k \in {0, 1, 2} :
       Gives(F, ConsoleChars, x, k) =>
         \A s \in Seq(ConsoleChars) : Occurrences(x, FlatMap(F, s)) = k * Occurrences(x, s)
BY OccurrencesScaled

(* One output after another. *)
LEMMA BothFacts ==
  ASSUME NEW echo \in BOOLEAN, NEW E \in Forms, NEW o, NEW p,
         Faithful(o, echo, E), Faithful(p, echo, E)
  PROVE  /\ Faithful(Both(o, p), echo, E)
         /\ \A x \in Texts : \A d \in Devices :
              /\ Occurrences(x, o[d]) \in Nat /\ Occurrences(x, p[d]) \in Nat
              /\ Occurrences(x, Both(o, p)[d]) = Occurrences(x, o[d]) + Occurrences(x, p[d])
<1>1. \A u, v \in E : u \o v \in E
  BY FormFacts
<1>2. \A a, b \in Seq(ConsoleChars) : FlatMap(Echo, a \o b) = FlatMap(Echo, a) \o FlatMap(Echo, b)
  BY EchoConcat
<1>3. /\ o \in [Devices -> Seq(ConsoleChars)] /\ p \in [Devices -> Seq(ConsoleChars)]
      /\ o[SERIAL] \in E /\ p[SERIAL] \in E
      /\ echo => o[SERIAL] = FlatMap(Echo, o[VGA])
      /\ echo => p[SERIAL] = FlatMap(Echo, p[VGA])
  BY Zenon DEF Faithful
<1>4. VGA \in Devices /\ SERIAL \in Devices
  BY DEF Devices
<1>5. \A d \in Devices : /\ o[d] \in Seq(ConsoleChars) /\ p[d] \in Seq(ConsoleChars)
                         /\ o[d] \o p[d] \in Seq(ConsoleChars)
  BY <1>3, ConcatProperties
<1>6. /\ Both(o, p) \in [Devices -> Seq(ConsoleChars)]
      /\ \A d \in Devices : Both(o, p)[d] = o[d] \o p[d]
  BY <1>4, <1>5 DEF Both
<1>7. Faithful(Both(o, p), echo, E)
  <2>1. Both(o, p)[SERIAL] \in E
    BY <1>1, <1>3, <1>4, <1>6, Zenon
  <2>2. echo => Both(o, p)[SERIAL] = FlatMap(Echo, Both(o, p)[VGA])
    <3>1. o[VGA] \in Seq(ConsoleChars) /\ p[VGA] \in Seq(ConsoleChars)
      BY <1>4, <1>5, Zenon
    <3>2. FlatMap(Echo, o[VGA] \o p[VGA]) = FlatMap(Echo, o[VGA]) \o FlatMap(Echo, p[VGA])
      BY <1>2, <3>1, Zenon
    <3> QED
      BY <1>3, <1>4, <1>6, <3>2, Zenon
  <2> QED
    BY <1>6, <2>1, <2>2, Zenon DEF Faithful
<1>8. \A x : \A a, b \in Seq(ConsoleChars) :
        /\ Occurrences(x, a) \in Nat
        /\ Occurrences(x, a \o b) = Occurrences(x, a) + Occurrences(x, b)
  BY OccurrencesConcat
<1>9. ASSUME NEW x \in Texts, NEW d \in Devices
      PROVE  /\ Occurrences(x, o[d]) \in Nat /\ Occurrences(x, p[d]) \in Nat
             /\ Occurrences(x, Both(o, p)[d]) = Occurrences(x, o[d]) + Occurrences(x, p[d])
  BY <1>5, <1>6, <1>8, Zenon
<1> QED
  BY <1>7, <1>9, Zenon

(* Several lines, one after the other: L[t] is what the line t gives. *)
Lines(L, s) == [d \in Devices |-> FlatMap([t \in Texts |-> L[t][d]], s)]

(* They are faithful if each line is, and the log has each line as often as *)
(* it is among them, or none.                                               *)
LEMMA LinesFacts ==
  ASSUME NEW echo \in BOOLEAN, NEW L, NEW b \in {0, 1},
         \A t \in Texts : Faithful(L[t], echo, Clean),
         \A t, x \in Texts : Occurrences(x, L[t][SERIAL]) = IF t = x THEN b ELSE 0,
         NEW s \in Seq(Texts)
  PROVE  /\ Faithful(Lines(L, s), echo, Clean)
         /\ \A x \in Texts : Occurrences(x, Lines(L, s)[SERIAL]) = b * Occurrences(x, s)
<1> DEFINE o == Lines(L, s)
<1> DEFINE G == [t \in Texts |-> L[t][VGA]]
           K == [t \in Texts |-> L[t][SERIAL]]
<1>1. VGA \in Devices /\ SERIAL \in Devices /\ VGA # SERIAL /\ Devices = {VGA, SERIAL}
  BY DEF Devices, VGA, SERIAL
<1>2. \A t \in Texts : /\ L[t][VGA] \in Seq(ConsoleChars) /\ L[t][SERIAL] \in Clean
                       /\ L[t][SERIAL] \in Seq(ConsoleChars)
                       /\ echo => L[t][SERIAL] = FlatMap(Echo, L[t][VGA])
  <2>1. \A t \in Texts : /\ L[t] \in [Devices -> Seq(ConsoleChars)] /\ L[t][SERIAL] \in Clean
                         /\ echo => L[t][SERIAL] = FlatMap(Echo, L[t][VGA])
    BY Zenon DEF Faithful
  <2> QED
    BY <1>1, <2>1, Zenon
<1>3. /\ G \in [Texts -> Seq(ConsoleChars)] /\ K \in [Texts -> Seq(ConsoleChars)]
      /\ K \in [Texts -> Clean]
  BY <1>2
<1>4. o[VGA] = FlatMap(G, s) /\ o[SERIAL] = FlatMap(K, s) /\ DOMAIN o = Devices
      /\ o = [d \in Devices |-> o[d]]
  BY <1>1 DEF Lines
<1> HIDE DEF o
<1>5. \A x \in Texts : Gives(K, Texts, x, b)
  <2>1. \A t \in Texts : K[t] = L[t][SERIAL]
    OBVIOUS
  <2> HIDE DEF G, K
  <2>2. \A t, x \in Texts : /\ t = x => Occurrences(x, L[t][SERIAL]) = b
                            /\ t # x => Occurrences(x, L[t][SERIAL]) = 0
    OBVIOUS
  <2>3. ASSUME NEW x \in Texts, NEW c \in Texts
        PROVE  /\ c = x => Occurrences(x, K[c]) = b
               /\ c # x => Occurrences(x, K[c]) = 0
    BY <2>1, <2>2
  <2> QED
    BY <2>3 DEF Gives
<1>6. echo => \A t \in Texts : K[t] = FlatMap(Echo, G[t])
  <2>1. \A t \in Texts : G[t] = L[t][VGA] /\ K[t] = L[t][SERIAL]
    OBVIOUS
  <2> HIDE DEF G, K
  <2> QED
    BY <1>2, <2>1, Zenon
<1> HIDE DEF G, K
<1>7. FlatMap(G, s) \in Seq(ConsoleChars)
  <2>1. \A r \in Seq(Texts) : FlatMap(G, r) \in Seq(ConsoleChars)
    <3>1. PieceByPiece(Texts, ConsoleChars, G)
      BY <1>3, FlatMapUnfolds
    <3> QED
      BY <3>1 DEF PieceByPiece
  <2> QED
    BY <2>1
<1>8. FlatMap(K, s) \in Clean
  <2>1. /\ Clean \in SUBSET Seq(ConsoleChars) /\ <<>> \in Clean
        /\ \A u, v \in Clean : u \o v \in Clean
    BY CleanFacts
  <2>2. \A r \in Seq(Texts) : FlatMap(K, r) \in Clean
    BY <1>3, <2>1, FlatMapClosed
  <2> QED
    BY <2>2
<1>9. echo => FlatMap(K, s) = FlatMap(Echo, FlatMap(G, s))
  BY <1>3, <1>6, EchoCompose, Zenon
<1>10. ASSUME NEW x \in Texts
       PROVE  Occurrences(x, o[SERIAL]) = b * Occurrences(x, s)
  <2>2. b \in {0, 1, 2}
    OBVIOUS
  <2>3. Gives(K, Texts, x, b)
    BY <1>5
  <2>4. Occurrences(x, FlatMap(K, s)) = b * Occurrences(x, s)
    <3>1. \A F \in [Texts -> Seq(ConsoleChars)] : \A k \in {0, 1, 2} : Gives(F, Texts, x, k) =>
            Occurrences(x, FlatMap(F, s)) = k * Occurrences(x, s)
      BY Scaled
    <3> QED
      BY <1>3, <2>2, <2>3, <3>1, Zenon
  <2> QED
    BY <1>4, <2>4
<1>11. o \in [Devices -> Seq(ConsoleChars)]
  <2>1. FlatMap(K, s) \in Seq(ConsoleChars)
    BY <1>8 DEF Clean
  <2>2. \A d \in Devices : o[d] \in Seq(ConsoleChars)
    BY <1>1, <1>4, <1>7, <2>1
  <2> QED
    BY <1>4, <2>2
<1>12. Faithful(o, echo, Clean)
  BY <1>4, <1>8, <1>9, <1>11, Zenon DEF Faithful
<1> QED
  BY <1>10, <1>12 DEF o

Switches ==
  /\ terminal_serial_output \in BOOLEAN
  /\ putchar_serial_output \in BOOLEAN
  /\ serial_output_enabled \in BOOLEAN

(* What putchar and print send for a character: its echo once, twice or not *)
(* at all.                                                                  *)
LEMMA CharacterValue ==
  ASSUME Switches, NEW c \in ConsoleChars
  PROVE  /\ terminal_serial_output \/ putchar_serial_output => putchar_bytes(c) = Echo[c]
         /\ ~terminal_serial_output /\ ~putchar_serial_output => putchar_bytes(c) = <<>>
         /\ terminal_serial_output => print(c) = Echo[c]
         /\ ~terminal_serial_output /\ putchar_serial_output /\ serial_output_enabled =>
              print(c) = Echo[c] \o Echo[c]
         /\ ~terminal_serial_output /\ putchar_serial_output /\ ~serial_output_enabled =>
              print(c) = Echo[c]
         /\ ~terminal_serial_output /\ ~putchar_serial_output /\ serial_output_enabled =>
              print(c) = Echo[c]
         /\ ~terminal_serial_output /\ ~putchar_serial_output /\ ~serial_output_enabled =>
              print(c) = <<>>
<1>1. CrLf(c) = Echo[c]
  BY DEF Echo
<1>2. Echo[c] \in Seq(ConsoleChars)
  BY EchoFacts
<1> DEFINE e == Echo[c]
<1> HIDE DEF e
<1>3. e \o <<>> = e /\ <<>> \o e = e /\ <<>> \o <<>> = <<>>
  BY <1>2, ConcatEmptySeq DEF e
<1>4. /\ terminal_putchar(c) = When(terminal_serial_output, e)
      /\ putchar_bytes(c) = terminal_putchar(c)
                              \o When(putchar_serial_output /\ ~terminal_serial_output, e)
      /\ print(c) = putchar_bytes(c) \o When(serial_output_enabled /\ ~terminal_serial_output, e)
  BY <1>1 DEF terminal_putchar, putchar_bytes, print, e
<1>5. CASE terminal_serial_output
  <2>1. /\ terminal_putchar(c) = e
        /\ When(putchar_serial_output /\ ~terminal_serial_output, e) = <<>>
        /\ When(serial_output_enabled /\ ~terminal_serial_output, e) = <<>>
    BY <1>4, <1>5, Zenon DEF When
  <2>2. putchar_bytes(c) = e
    BY <1>3, <1>4, <2>1, Zenon
  <2>3. print(c) = e
    BY <1>3, <1>4, <2>1, <2>2, Zenon
  <2> QED
    BY <1>5, <2>2, <2>3, Zenon DEF e
<1>6. CASE ~terminal_serial_output
  <2>1. terminal_putchar(c) = <<>>
    BY <1>4, <1>6, Zenon DEF When
  <2>2. /\ putchar_serial_output => putchar_bytes(c) = e
        /\ ~putchar_serial_output => putchar_bytes(c) = <<>>
    <3>1. /\ putchar_serial_output =>
               When(putchar_serial_output /\ ~terminal_serial_output, e) = e
          /\ ~putchar_serial_output =>
               When(putchar_serial_output /\ ~terminal_serial_output, e) = <<>>
      BY <1>6, Zenon DEF When
    <3> QED
      BY <1>3, <1>4, <2>1, <3>1, Zenon
  <2>3. /\ serial_output_enabled => print(c) = putchar_bytes(c) \o e
        /\ ~serial_output_enabled => print(c) = putchar_bytes(c) \o <<>>
    <3>1. /\ serial_output_enabled =>
               When(serial_output_enabled /\ ~terminal_serial_output, e) = e
          /\ ~serial_output_enabled =>
               When(serial_output_enabled /\ ~terminal_serial_output, e) = <<>>
      BY <1>6, Zenon DEF When
    <3> QED
      BY <1>4, <3>1, Zenon
  <2>4. /\ putchar_serial_output /\ serial_output_enabled => print(c) = e \o e
        /\ putchar_serial_output /\ ~serial_output_enabled => print(c) = e
        /\ ~putchar_serial_output /\ serial_output_enabled => print(c) = e
        /\ ~putchar_serial_output /\ ~serial_output_enabled => print(c) = <<>>
    BY <1>3, <2>2, <2>3, Zenon
  <2> QED
    BY <1>6, <2>2, <2>4, Zenon DEF e
<1> QED
  BY <1>5, <1>6

(* putchar: faithful, and no text more than once. *)
LEMMA PutcharFacts ==
  ASSUME Switches, NEW c \in ConsoleChars
  PROVE  /\ Faithful(Sent(<<c>>, putchar_bytes(c)), terminal_serial_output, Clean)
         /\ \A x \in Texts :
              Occurrences(x, Sent(<<c>>, putchar_bytes(c))[SERIAL]) <= 1
<1> DEFINE o == Sent(<<c>>, putchar_bytes(c))
<1>1. /\ DOMAIN o = Devices /\ o[VGA] = <<c>> /\ o[SERIAL] = putchar_bytes(c)
      /\ o = [d \in Devices |-> o[d]]
  BY DEF Sent, Devices, VGA, SERIAL
<1> HIDE DEF o
<1>2. /\ terminal_serial_output \/ putchar_serial_output => putchar_bytes(c) = Echo[c]
      /\ ~terminal_serial_output /\ ~putchar_serial_output => putchar_bytes(c) = <<>>
  BY CharacterValue
<1>3. Echo[c] \in Clean /\ <<>> \in Clean
  BY CleanFacts
<1>4. putchar_bytes(c) \in Clean
  BY <1>2, <1>3, Zenon DEF Switches
<1>5. FlatMap(Echo, <<c>>) = Echo[c]
  <2>1. /\ <<>> \in Seq(ConsoleChars) /\ <<c>> = Append(<<>>, c)
        /\ Echo[c] \in Seq(ConsoleChars)
    BY EchoFacts
  <2>2. FlatMap(Echo, Append(<<>>, c)) = FlatMap(Echo, <<>>) \o Echo[c] /\ FlatMap(Echo, <<>>) = <<>>
    BY <2>1, EchoUnfolds, Zenon
  <2>3. <<>> \o Echo[c] = Echo[c]
    BY <2>1, ConcatEmptySeq
  <2> QED
    BY <2>1, <2>2, <2>3, Zenon
<1>6. o \in [Devices -> Seq(ConsoleChars)]
  <2>1. putchar_bytes(c) \in Seq(ConsoleChars) /\ <<c>> \in Seq(ConsoleChars)
    BY <1>4 DEF Clean
  <2>2. \A d \in Devices : o[d] \in Seq(ConsoleChars)
    BY <1>1, <2>1 DEF Devices
  <2> QED
    BY <1>1, <2>2
<1>7. Faithful(o, terminal_serial_output, Clean)
  <2>1. terminal_serial_output => o[SERIAL] = FlatMap(Echo, o[VGA])
    BY <1>1, <1>2, <1>5, Zenon
  <2> QED
    BY <1>1, <1>4, <1>6, <2>1, Zenon DEF Faithful
<1>8. ASSUME NEW x \in Texts  PROVE Occurrences(x, o[SERIAL]) <= 1
  <2>1. Occurrences(x, Echo[c]) = 0 \/ Occurrences(x, Echo[c]) = 1
    BY EchoCounts
  <2>2. Occurrences(x, <<>>) = 0
    BY SilenceFacts
  <2>3. o[SERIAL] = Echo[c] \/ o[SERIAL] = <<>>
    BY <1>1, <1>2, Zenon DEF Switches
  <2>4. Occurrences(x, o[SERIAL]) = 0 \/ Occurrences(x, o[SERIAL]) = 1
    BY <2>1, <2>2, <2>3, Zenon
  <2> QED
    BY <2>4
<1> QED
  BY <1>7, <1>8 DEF o

(* printf: faithful, and each text as often as the string has it, or twice  *)
(* as often when both of libc's switches are on and the terminal's is off.  *)
LEMMA PrintfFacts ==
  ASSUME Switches, NEW s \in Seq(ConsoleChars)
  PROVE  /\ Faithful(Sent(s, ForEach(print, s)), terminal_serial_output, Clean)
         /\ Sent(s, ForEach(print, s))[VGA] = s
         /\ \A x \in Texts :
              \/ Occurrences(x, Sent(s, ForEach(print, s))[SERIAL]) <= Occurrences(x, s)
              \/ /\ putchar_serial_output /\ serial_output_enabled /\ ~terminal_serial_output
                 /\ Occurrences(x, Sent(s, ForEach(print, s))[SERIAL]) = 2 * Occurrences(x, s)
<1> DEFINE P == [c \in ConsoleChars |-> print(c)]
           log == ForEach(print, s)
           o == Sent(s, log)
<1>1. log = FlatMap(P, s)
  <2>1. \A i \in DOMAIN s : s[i] \in ConsoleChars
    OBVIOUS
  <2>2. \A i \in DOMAIN s : P[s[i]] = print(s[i])
    BY <2>1
  <2> HIDE DEF P
  <2>3. [i \in DOMAIN s |-> print(s[i])] = [i \in DOMAIN s |-> P[s[i]]]
    BY <2>2
  <2> QED
    BY <2>3, Zenon DEF FlatMap, ForEach
<1>2. \A c \in ConsoleChars :
         /\ terminal_serial_output => P[c] = Echo[c]
         /\ ~terminal_serial_output /\ putchar_serial_output /\ serial_output_enabled =>
              P[c] = Echo[c] \o Echo[c]
         /\ ~terminal_serial_output /\ putchar_serial_output /\ ~serial_output_enabled =>
              P[c] = Echo[c]
         /\ ~terminal_serial_output /\ ~putchar_serial_output /\ serial_output_enabled =>
              P[c] = Echo[c]
         /\ ~terminal_serial_output /\ ~putchar_serial_output /\ ~serial_output_enabled =>
              P[c] = <<>>
  <2> TAKE c \in ConsoleChars
  <2>1. P[c] = print(c)
    OBVIOUS
  <2> HIDE DEF P
  <2> QED
    BY <2>1, CharacterValue, Zenon
<1>3. P = [c \in ConsoleChars |-> P[c]]
  OBVIOUS
<1> HIDE DEF P, log
<1>4. \A c \in ConsoleChars : P[c] \in Clean
  <2>1. /\ <<>> \in Clean /\ \A u, v \in Clean : u \o v \in Clean
        /\ \A c \in ConsoleChars : Echo[c] \in Clean
    BY CleanFacts
  <2> QED
    BY <1>2, <2>1, Zenon DEF Switches
<1>5. P \in [ConsoleChars -> Clean] /\ P \in [ConsoleChars -> Seq(ConsoleChars)]
  <2>1. \A c \in ConsoleChars : P[c] \in Seq(ConsoleChars)
    BY <1>4 DEF Clean
  <2> QED
    BY <1>3, <1>4, <2>1
<1>6. log \in Clean
  <2>1. /\ Clean \in SUBSET Seq(ConsoleChars) /\ <<>> \in Clean
        /\ \A u, v \in Clean : u \o v \in Clean
    BY CleanFacts
  <2>2. \A r \in Seq(ConsoleChars) : FlatMap(P, r) \in Clean
    BY <1>5, <2>1, FlatMapClosed
  <2> QED
    BY <1>1, <2>2
<1>7. terminal_serial_output => log = FlatMap(Echo, s)
  <2> HAVE terminal_serial_output
  <2>1. \A c \in ConsoleChars : P[c] = Echo[c]
    BY <1>2, Zenon
  <2>2. Echo = [c \in ConsoleChars |-> Echo[c]]
    BY EchoFacts
  <2>3. P = Echo
    BY <1>3, <2>1, <2>2
  <2> QED
    BY <1>1, <2>3
<1>8. /\ o \in [Devices -> Seq(ConsoleChars)]
      /\ o[VGA] = s /\ o[SERIAL] = log
  <2>1. log \in Seq(ConsoleChars)
    BY <1>6 DEF Clean
  <2> QED
    BY <2>1 DEF Sent, Devices, VGA, SERIAL
<1> HIDE DEF o
<1>9. Faithful(o, terminal_serial_output, Clean)
  BY <1>6, <1>7, <1>8, Zenon DEF Faithful
<1>10. ASSUME NEW x \in Texts
       PROVE  \/ Occurrences(x, o[SERIAL]) <= Occurrences(x, s)
              \/ /\ putchar_serial_output /\ serial_output_enabled /\ ~terminal_serial_output
                 /\ Occurrences(x, o[SERIAL]) = 2 * Occurrences(x, s)
  <2>1. \A F \in [ConsoleChars -> Seq(ConsoleChars)] : \A k \in {0, 1, 2} :
          Gives(F, ConsoleChars, x, k) => Occurrences(x, FlatMap(F, s)) = k * Occurrences(x, s)
    BY Scaled
  <2>2. \A c \in ConsoleChars : /\ c = x => Occurrences(x, Echo[c]) = 1
                                /\ c # x => Occurrences(x, Echo[c]) = 0
                                /\ Occurrences(x, Echo[c] \o Echo[c]) =
                                     Occurrences(x, Echo[c]) + Occurrences(x, Echo[c])
    <3>1. \A c \in ConsoleChars : Echo[c] \in Seq(ConsoleChars)
      BY EchoFacts
    <3>2. \A a, b \in Seq(ConsoleChars) :
            Occurrences(x, a \o b) = Occurrences(x, a) + Occurrences(x, b)
      BY OccurrencesConcat
    <3>3. \A c \in ConsoleChars : (c = x => Occurrences(x, Echo[c]) = 1)
                                  /\ (c # x => Occurrences(x, Echo[c]) = 0)
      BY EchoCounts
    <3> QED
      BY <3>1, <3>2, <3>3, Zenon
  <2>3. Occurrences(x, s) \in Nat /\ Occurrences(x, <<>>) = 0
    BY OccurrencesConcat, SilenceFacts
  <2>4. ASSUME ~terminal_serial_output, putchar_serial_output, serial_output_enabled
        PROVE  Occurrences(x, log) = 2 * Occurrences(x, s)
    <3>1. \A c \in ConsoleChars : P[c] = Echo[c] \o Echo[c]
      BY <1>2, <2>4, Zenon
    <3>2. Gives(P, ConsoleChars, x, 2)
      <4>1. \A c \in ConsoleChars : (c = x => Occurrences(x, Echo[c] \o Echo[c]) = 2)
                                    /\ (c # x => Occurrences(x, Echo[c] \o Echo[c]) = 0)
        BY <2>2
      <4> QED
        BY <3>1, <4>1, Zenon DEF Gives
    <3> QED
      BY <1>1, <1>5, <2>1, <3>2
  <2>5. ASSUME \A c \in ConsoleChars : P[c] = Echo[c]
        PROVE  Occurrences(x, log) = 1 * Occurrences(x, s)
    <3>1. Gives(P, ConsoleChars, x, 1)
      BY <2>2, <2>5, Zenon DEF Gives
    <3> QED
      BY <1>1, <1>5, <2>1, <3>1
  <2>6. ASSUME \A c \in ConsoleChars : P[c] = <<>>
        PROVE  Occurrences(x, log) = 0 * Occurrences(x, s)
    <3>1. Gives(P, ConsoleChars, x, 0)
      BY <2>3, <2>6, Zenon DEF Gives
    <3> QED
      BY <1>1, <1>5, <2>1, <3>1
  <2>7. \/ ~terminal_serial_output /\ putchar_serial_output /\ serial_output_enabled
        \/ \A c \in ConsoleChars : P[c] = Echo[c]
        \/ \A c \in ConsoleChars : P[c] = <<>>
    BY <1>2, Zenon DEF Switches
  <2>8. \/ /\ ~terminal_serial_output /\ putchar_serial_output /\ serial_output_enabled
           /\ Occurrences(x, log) = 2 * Occurrences(x, s)
        \/ Occurrences(x, log) = 1 * Occurrences(x, s)
        \/ Occurrences(x, log) = 0 * Occurrences(x, s)
    BY <2>4, <2>5, <2>6, <2>7, Zenon
  <2>9. ASSUME Occurrences(x, log) = 1 * Occurrences(x, s) \/ Occurrences(x, log) = 0 * Occurrences(x, s)
        PROVE  Occurrences(x, log) <= Occurrences(x, s)
    BY <2>3, <2>9
  <2> QED
    BY <1>8, <2>8, <2>9, Zenon
<1> QED
  BY <1>8, <1>9, <1>10 DEF o, log

(* A text that no character of a string is does not occur in it. *)
LEMMA Absent ==
  ASSUME NEW V, NEW s \in Seq(V), NEW x, x \notin V
  PROVE  Occurrences(x, s) = 0
<1>1. {i \in DOMAIN s : s[i] = x} = {}
  OBVIOUS
<1> QED
  BY <1>1, FS_EmptySet DEF Occurrences

(* What callers pass is made of characters, and has none of the texts that  *)
(* panic.c adds.                                                            *)
LEMMA StringFacts ==
  ASSUME NEW str \in Strings
  PROVE  /\ str \in Seq(ConsoleChars)
         /\ str \in Seq(ConsoleChars \ {"banner", "registers", "halted"})
<1>1. str \in Seq(ConsoleChars \ OwnTexts)
  BY ConsoleAssumption
<1>2. {"banner", "registers", "halted"} \subseteq OwnTexts
  BY DEF OwnTexts
<1>3. \A i \in 1 .. Len(str) : str[i] \in ConsoleChars \ {"banner", "registers", "halted"}
  BY <1>1, <1>2
<1> QED
  BY <1>1, <1>3

(* One character is a string. *)
LEMMA OneString ==
  ASSUME NEW V, NEW W, NEW c \in V \ W
  PROVE  <<c>> \in Seq(V \ W) /\ <<c>> \in Seq(V)
OBVIOUS

(* A string of one text is clean. *)
LEMMA OneClean ==
  ASSUME NEW c \in ConsoleChars, c # LF
  PROVE  <<c>> \in Clean
BY DEF Clean

-----------------------------------------------------------------------------
(* The form that the log of a call has: clean, unless a caller of debug.c   *)
(* or of panic has a bare line feed in its string.                          *)
CallForm(c) == IF c.kind \in {"debug_log", "debug_print", "panic"} THEN FormOf(c.text) ELSE Clean

(* The inductive invariant: every call leaves a faithful output, and what the *)
(* properties count.                                                          *)
ConsoleInv ==
  /\ TypeOK
  /\ Faithful(out, terminal_serial_output, CallForm(call))
  /\ NoDuplicates
  /\ BothTargetsReached
  /\ PanicReachesAll

(* A step that says nothing. *)
LEMMA QuietStep ==
  ASSUME call' = NoCall, out' = Silence, halted' = FALSE,
         (terminal_serial_output \in BOOLEAN /\ putchar_serial_output \in BOOLEAN
          /\ serial_output_enabled \in BOOLEAN)',
         (debug_level \in NONE .. TRACE)', (debug_target \subseteq Devices)',
         (debug_initialized \in BOOLEAN)'
  PROVE  ConsoleInv'
<1>1. /\ call'.kind = "none" /\ call'.text = <<>>
      /\ call' \in [kind : Kinds, text : Seq(ConsoleChars)]
  BY DEF NoCall, Kinds
<1>2. Faithful(out', terminal_serial_output', CallForm(call'))
  <2>1. \A echo \in BOOLEAN : \A E \in Forms : Faithful(Silence, echo, E)
    BY SilenceFacts
  <2>2. CallForm(call') \in Forms
    BY Zenon DEF CallForm, FormOf, Forms
  <2> QED
    BY <2>1, <2>2, Zenon
<1>3. TypeOK'
  <2>1. out' \in [Devices -> Seq(ConsoleChars)]
    BY <1>2, Zenon DEF Faithful
  <2> QED
    BY <1>1, <2>1 DEF TypeOK
<1>4. NoDuplicates'
  <2>1. out'[SERIAL] = <<>>
    BY DEF Silence, Devices
  <2>2. \A x : Occurrences(x, out'[SERIAL]) = 0
    BY <2>1, SilenceFacts, Zenon
  <2>3. \A x \in Texts : Occurrences(x, out'[SERIAL]) <= 1
    BY <2>2
  <2> QED
    BY <2>3, Zenon DEF NoDuplicates, Copies
<1>5. BothTargetsReached' /\ PanicReachesAll'
  BY <1>1 DEF BothTargetsReached, PanicReachesAll
<1> QED
  BY <1>2, <1>3, <1>4, <1>5, Zenon DEF ConsoleInv

(* A step that sends o: types and faithfulness. *)
LEMMA LoudStep ==
  ASSUME TypeOK, UNCHANGED switches, NEW kind \in Kinds, NEW text \in Seq(ConsoleChars), NEW o,
         NEW E, Says(kind, text, o), Faithful(o, terminal_serial_output, E),
         E = CallForm([kind |-> kind, text |-> text]),
         (debug_level \in NONE .. TRACE)', (debug_target \subseteq Devices)',
         (debug_initialized \in BOOLEAN)', (halted \in BOOLEAN)'
  PROVE  /\ TypeOK' /\ Faithful(out', terminal_serial_output', CallForm(call'))
         /\ out' = o /\ call'.kind = kind /\ call'.text = text
<1>1. /\ terminal_serial_output' = terminal_serial_output
      /\ putchar_serial_output' = putchar_serial_output
      /\ serial_output_enabled' = serial_output_enabled
  BY DEF switches
<1>2. /\ out' = o /\ call'.kind = kind /\ call'.text = text
      /\ call' \in [kind : Kinds, text : Seq(ConsoleChars)]
  BY DEF Says
<1>3. Faithful(out', terminal_serial_output', CallForm(call'))
  <2>1. call' = [kind |-> kind, text |-> text]
    BY DEF Says
  <2> QED
    BY <1>1, <1>2, <2>1, Zenon
<1>4. out' \in [Devices -> Seq(ConsoleChars)]
  BY <1>3, Zenon DEF Faithful
<1>5. TypeOK'
  BY <1>1, <1>2, <1>4 DEF TypeOK
<1> QED
  BY <1>2, <1>3, <1>5

(* The form by the kind of call. *)
LEMMA CallForms ==
  ASSUME NEW text
  PROVE  /\ \A kind \in {"debug_log", "debug_print", "panic"} :
              CallForm([kind |-> kind, text |-> text]) = FormOf(text)
         /\ \A kind \in {"putchar", "printf", "dropped", "debug_hex_dump", "debug_init"} :
              CallForm([kind |-> kind, text |-> text]) = Clean
<1>1. ASSUME NEW kind
      PROVE  [kind |-> kind, text |-> text].kind = kind /\ [kind |-> kind, text |-> text].text = text
  OBVIOUS
<1>2. \A kind \in {"putchar", "printf", "dropped", "debug_hex_dump", "debug_init"} :
        kind \notin {"debug_log", "debug_print", "panic"}
  OBVIOUS
<1> QED
  BY <1>1, <1>2, Zenon DEF CallForm

(* The switches and settings. *)
LEMMA SettingsStep ==
  ASSUME ConsoleInv,
         \/ \E enable \in BOOLEAN : terminal_enable_serial(enable)
         \/ \E enable \in BOOLEAN : putchar_enable_serial(enable)
         \/ \E enable \in BOOLEAN : printf_enable_serial(enable)
         \/ \E level \in LogLevels : debug_set_level(level)
         \/ \E target \in SUBSET Devices : debug_set_target(target)
  PROVE  ConsoleInv'
<1>0. TypeOK
  BY DEF ConsoleInv
<1>1. call' = NoCall /\ out' = Silence
  BY Zenon DEF terminal_enable_serial, putchar_enable_serial, printf_enable_serial,
               debug_set_level, debug_set_target
<1>2. halted' = FALSE
  BY <1>0 DEF TypeOK, terminal_enable_serial, putchar_enable_serial, printf_enable_serial,
              debug_set_level, debug_set_target
<1>3. (terminal_serial_output \in BOOLEAN /\ putchar_serial_output \in BOOLEAN
       /\ serial_output_enabled \in BOOLEAN)'
  BY <1>0 DEF TypeOK, terminal_enable_serial, putchar_enable_serial, printf_enable_serial,
              debug_set_level, debug_set_target, switches
<1>4. (debug_level \in NONE .. TRACE)'
  BY <1>0 DEF TypeOK, terminal_enable_serial, putchar_enable_serial, printf_enable_serial,
              debug_set_level, debug_set_target, debug
<1>5. (debug_target \subseteq Devices)' /\ (debug_initialized \in BOOLEAN)'
  BY <1>0 DEF TypeOK, terminal_enable_serial, putchar_enable_serial, printf_enable_serial,
              debug_set_level, debug_set_target, debug
<1> QED
  BY <1>1, <1>2, <1>3, <1>4, <1>5, QuietStep

(* putchar. *)
LEMMA PutcharStep ==
  ASSUME ConsoleInv, NEW c \in ConsoleChars, putchar(c)
  PROVE  ConsoleInv'
<1> DEFINE o == Sent(<<c>>, putchar_bytes(c))
<1>0. TypeOK /\ Switches
  BY DEF ConsoleInv, TypeOK, Switches
<1>1. /\ Faithful(o, terminal_serial_output, Clean)
      /\ \A x \in Texts : Occurrences(x, o[SERIAL]) <= 1
  BY <1>0, PutcharFacts
<1> HIDE DEF o
<1>2. /\ Says("putchar", <<c>>, o) /\ UNCHANGED switches
      /\ UNCHANGED <<debug_level, debug_target, debug_initialized, halted>> /\ ~halted
  BY DEF putchar, o, debug
<1>3. /\ "putchar" \in Kinds /\ <<c>> \in Seq(ConsoleChars)
      /\ Clean = CallForm([kind |-> "putchar", text |-> <<c>>])
  <2>1. "putchar" \in Kinds /\ <<c>> \in Seq(ConsoleChars)
    BY DEF Kinds
  <2>2. \A text : CallForm([kind |-> "putchar", text |-> text]) = Clean
    BY CallForms
  <2> QED
    BY <2>1, <2>2, Zenon
<1>4. /\ (debug_level \in NONE .. TRACE)' /\ (debug_target \subseteq Devices)'
      /\ (debug_initialized \in BOOLEAN)' /\ (halted \in BOOLEAN)'
  BY <1>0, <1>2 DEF TypeOK
<1>5. /\ TypeOK' /\ Faithful(out', terminal_serial_output', CallForm(call'))
      /\ out' = o /\ call'.kind = "putchar" /\ call'.text = <<c>>
  BY <1>0, <1>1, <1>2, <1>3, <1>4, LoudStep
<1>6. NoDuplicates'
  BY <1>1, <1>5, Zenon DEF NoDuplicates, Copies
<1>7. BothTargetsReached' /\ PanicReachesAll'
  BY <1>2, <1>5 DEF BothTargetsReached, PanicReachesAll
<1> QED
  BY <1>5, <1>6, <1>7, Zenon DEF ConsoleInv

(* printf. *)
LEMMA PrintfStep ==
  ASSUME ConsoleInv, NEW str \in Strings, printf(str)
  PROVE  ConsoleInv'
<1> DEFINE o == Sent(str, ForEach(print, str))
<1>0. TypeOK /\ Switches /\ str \in Seq(ConsoleChars)
  BY StringFacts DEF ConsoleInv, TypeOK, Switches
<1>1. /\ Faithful(o, terminal_serial_output, Clean) /\ o[VGA] = str
      /\ \A x \in Texts :
           \/ Occurrences(x, o[SERIAL]) <= Occurrences(x, str)
           \/ /\ putchar_serial_output /\ serial_output_enabled /\ ~terminal_serial_output
              /\ Occurrences(x, o[SERIAL]) = 2 * Occurrences(x, str)
  BY <1>0, PrintfFacts, Zenon
<1> HIDE DEF o
<1>2. /\ Says("printf", str, o) /\ UNCHANGED switches
      /\ UNCHANGED <<debug_level, debug_target, debug_initialized, halted>> /\ ~halted
  BY Zenon DEF printf, o, debug
<1>3. "printf" \in Kinds /\ Clean = CallForm([kind |-> "printf", text |-> str])
  BY CallForms DEF Kinds
<1>4. /\ (debug_level \in NONE .. TRACE)' /\ (debug_target \subseteq Devices)'
      /\ (debug_initialized \in BOOLEAN)' /\ (halted \in BOOLEAN)'
  BY <1>0, <1>2 DEF TypeOK
<1>5. /\ TypeOK' /\ Faithful(out', terminal_serial_output', CallForm(call'))
      /\ out' = o /\ call'.kind = "printf" /\ call'.text = str
  BY <1>0, <1>1, <1>2, <1>3, <1>4, LoudStep
<1>6. NoDuplicates'
  <2>1. /\ putchar_serial_output' = putchar_serial_output
        /\ serial_output_enabled' = serial_output_enabled
        /\ terminal_serial_output' = terminal_serial_output
    BY <1>2 DEF switches
  <2> SUFFICES ASSUME NEW x \in Texts
               PROVE  \/ Occurrences(x, out'[SERIAL]) <= 1
                      \/ Occurrences(x, out'[SERIAL]) <= Occurrences(x, call'.text)
                      \/ /\ call'.kind = "printf"
                         /\ putchar_serial_output' /\ serial_output_enabled'
                         /\ ~terminal_serial_output'
                         /\ Occurrences(x, out'[SERIAL]) = 2 * Occurrences(x, out'[VGA])
    BY Zenon DEF NoDuplicates, Copies
  <2> QED
    BY <1>1, <1>5, <2>1, Zenon
<1>7. BothTargetsReached' /\ PanicReachesAll'
  BY <1>2, <1>5 DEF BothTargetsReached, PanicReachesAll
<1> QED
  BY <1>5, <1>6, <1>7, Zenon DEF ConsoleInv

(* A string that debug.c sends, or does not: the counts of a debug_log or a *)
(* debug_print.                                                             *)
LEMMA DebugOutput ==
  ASSUME TypeOK, NEW str \in Seq(ConsoleChars), NEW o,
         UNCHANGED switches, UNCHANGED <<debug, halted>>, ~halted,
         NEW kind \in {"dropped", "debug_log", "debug_print"},
         Says(kind, str, o),
         Faithful(o, terminal_serial_output, IF kind = "dropped" THEN Clean ELSE FormOf(str)),
         \/ kind = "dropped" /\ Carries(o, <<>>, <<>>)
         \/ Carries(o, ToScreen(debug_target, str), ToLog(debug_target, terminal_serial_output, str))
  PROVE  ConsoleInv'
<1>0. /\ terminal_serial_output \in BOOLEAN /\ kind \in Kinds
      /\ UNCHANGED <<debug_level, debug_target, debug_initialized>> /\ UNCHANGED halted
  BY DEF TypeOK, Kinds, debug
<1>1. /\ (debug_level \in NONE .. TRACE)' /\ (debug_target \subseteq Devices)'
      /\ (debug_initialized \in BOOLEAN)' /\ (halted \in BOOLEAN)'
  BY <1>0 DEF TypeOK
<1> DEFINE E == IF kind = "dropped" THEN Clean ELSE FormOf(str)
<1>2. E = CallForm([kind |-> kind, text |-> str])
  <2>1. kind = "dropped" \/ (kind # "dropped" /\ kind \in {"debug_log", "debug_print", "panic"})
    OBVIOUS
  <2>2. "dropped" \in {"putchar", "printf", "dropped", "debug_hex_dump", "debug_init"}
    OBVIOUS
  <2> QED
    BY <2>1, <2>2, CallForms, Zenon
<1>3. Faithful(o, terminal_serial_output, E)
  OBVIOUS
<1> HIDE DEF E
<1>4. /\ TypeOK' /\ Faithful(out', terminal_serial_output', CallForm(call'))
      /\ out' = o /\ call'.kind = kind /\ call'.text = str
  BY <1>0, <1>1, <1>2, <1>3, LoudStep
<1>5. NoDuplicates'
  <2> SUFFICES ASSUME NEW x \in Texts
               PROVE  Occurrences(x, out'[SERIAL]) <= Occurrences(x, call'.text)
    BY Zenon DEF NoDuplicates, Copies
  <2>1. \/ ToLog(debug_target, terminal_serial_output, str) = str
        \/ ToLog(debug_target, terminal_serial_output, str) = <<>>
    BY Zenon DEF ToLog
  <2>2. \/ Occurrences(x, o[SERIAL]) = Occurrences(x, str)
        \/ Occurrences(x, o[SERIAL]) = Occurrences(x, <<>>)
    BY <2>1, Zenon DEF Carries
  <2>3. Occurrences(x, <<>>) = 0
    BY SilenceFacts
  <2>4. Occurrences(x, str) \in Nat
    BY OccurrencesConcat
  <2>5. Occurrences(x, o[SERIAL]) <= Occurrences(x, str)
    BY <2>2, <2>3, <2>4
  <2> QED
    BY <1>4, <2>5, Zenon
<1>6. BothTargetsReached'
  <2> SUFFICES ASSUME kind # "dropped", debug_target = Devices
               PROVE  \A d \in Devices, x \in Texts : Occurrences(x, o[d]) = Occurrences(x, str)
    <3>1. "dropped" \notin {"debug_log", "debug_print"} /\ debug_target' = debug_target
      BY <1>0
    <3> QED
      BY <1>4, <3>1, Zenon DEF BothTargetsReached, Copies
  <2>1. ToScreen(debug_target, str) = str /\ ToLog(debug_target, terminal_serial_output, str) = str
    BY <1>0, TargetFacts, Zenon
  <2>2. Carries(o, str, str)
    BY <2>1, Zenon
  <2> QED
    BY <2>2, Zenon DEF Carries, Devices
<1>7. PanicReachesAll'
  BY <1>0 DEF PanicReachesAll
<1> QED
  BY <1>4, <1>5, <1>6, <1>7, Zenon DEF ConsoleInv

(* debug_log. *)
LEMMA LogStep ==
  ASSUME ConsoleInv, NEW level \in LogLevels, NEW str \in Strings, debug_log(level, str)
  PROVE  ConsoleInv'
<1> DEFINE o == debug_format_and_write(level, debug_level, debug_target, str)
           kind == IF level > debug_level THEN "dropped" ELSE "debug_log"
<1>0. /\ TypeOK /\ terminal_serial_output \in BOOLEAN /\ debug_target \in SUBSET Devices
      /\ level \in Int /\ debug_level \in Int
  BY ConsoleAssumption DEF ConsoleInv, TypeOK, NONE, TRACE
<1>1. str \in Seq(ConsoleChars)
  BY StringFacts
<1>2. /\ Faithful(o, terminal_serial_output, FormOf(str))
      /\ level > debug_level =>
           Faithful(o, terminal_serial_output, Clean) /\ Carries(o, <<>>, <<>>)
      /\ ~(level > debug_level) =>
           Carries(o, ToScreen(debug_target, str), ToLog(debug_target, terminal_serial_output, str))
  BY <1>0, <1>1, FormatAndWriteFacts, Zenon
<1>3. /\ Says(kind, str, o) /\ UNCHANGED switches /\ UNCHANGED <<debug, halted>> /\ ~halted
  BY Zenon DEF debug_log
<1> HIDE DEF o
<1>4. CASE level > debug_level
  <2>1. /\ "dropped" \in {"dropped", "debug_log", "debug_print"} /\ Says("dropped", str, o)
        /\ Faithful(o, terminal_serial_output, IF "dropped" = "dropped" THEN Clean ELSE FormOf(str))
    BY <1>2, <1>3, <1>4, Zenon
  <2> QED
    BY <1>0, <1>1, <1>2, <1>3, <1>4, <2>1, DebugOutput
<1>5. CASE ~(level > debug_level)
  <2>0. "debug_log" # "dropped" /\ "debug_log" \in {"dropped", "debug_log", "debug_print"}
    OBVIOUS
  <2>1. /\ Says("debug_log", str, o)
        /\ Faithful(o, terminal_serial_output, IF "debug_log" = "dropped" THEN Clean ELSE FormOf(str))
    BY <1>2, <1>3, <1>5, <2>0, Zenon
  <2> QED
    BY <1>0, <1>1, <1>2, <1>3, <1>5, <2>0, <2>1, DebugOutput
<1> QED
  BY <1>4, <1>5

(* debug_print. *)
LEMMA DebugPrintStep ==
  ASSUME ConsoleInv, NEW str \in Strings, debug_print(str)
  PROVE  ConsoleInv'
<1> DEFINE o == debug_write(debug_target, str)
<1>0. TypeOK /\ terminal_serial_output \in BOOLEAN /\ debug_target \in SUBSET Devices
  BY DEF ConsoleInv, TypeOK
<1>1. str \in Seq(ConsoleChars)
  BY StringFacts
<1>2. FormOf(str) \in Forms /\ str \in FormOf(str)
  BY <1>1, FormOfFacts
<1>3. /\ Faithful(o, terminal_serial_output, FormOf(str))
      /\ Carries(o, ToScreen(debug_target, str), ToLog(debug_target, terminal_serial_output, str))
  BY <1>0, <1>2, WriteFacts, Zenon
<1>4. Says("debug_print", str, o) /\ UNCHANGED switches /\ UNCHANGED <<debug, halted>> /\ ~halted
  BY Zenon DEF debug_print
<1> HIDE DEF o
<1>5. "debug_print" # "dropped" /\ "debug_print" \in {"dropped", "debug_log", "debug_print"}
  OBVIOUS
<1>6. Faithful(o, terminal_serial_output, IF "debug_print" = "dropped" THEN Clean ELSE FormOf(str))
  BY <1>3, <1>5, Zenon
<1> QED
  BY <1>0, <1>1, <1>3, <1>4, <1>5, <1>6, DebugOutput

(* debug_hex_dump. *)
LEMMA HexDumpStep ==
  ASSUME ConsoleInv, NEW rows \in Dumps, debug_hex_dump(rows)
  PROVE  ConsoleInv'
<1> DEFINE Row(t) == debug_write(debug_target, DebugLine(<<t>>))
           L == [t \in Texts |-> Row(t)]
           o == Lines(L, rows)
           b == IF (terminal_serial_output /\ VGA \in debug_target)
                     \/ (~terminal_serial_output /\ SERIAL \in debug_target) THEN 1 ELSE 0
<1>0. /\ TypeOK /\ terminal_serial_output \in BOOLEAN /\ debug_target \in SUBSET Devices
      /\ rows \in Seq(Texts) /\ rows \in Seq(ConsoleChars)
  BY ConsoleAssumption DEF ConsoleInv, TypeOK, ConsoleChars
<1>1. b \in {0, 1}
  BY Zenon
<1>2. /\ Says("debug_hex_dump", rows, o) /\ UNCHANGED switches
      /\ UNCHANGED <<debug_level, debug_target, debug_initialized, halted>> /\ ~halted
  <2>1. ASSUME NEW d \in Devices
        PROVE  ForEach(LAMBDA row : Row(row)[d], rows) = FlatMap([t \in Texts |-> L[t][d]], rows)
    <3>1. \A i \in DOMAIN rows : rows[i] \in Texts
      BY <1>0
    <3>2. [i \in DOMAIN rows |-> Row(rows[i])[d]]
            = [i \in DOMAIN rows |-> [t \in Texts |-> L[t][d]][rows[i]]]
      BY <3>1
    <3> QED
      BY <3>2 DEF ForEach, FlatMap
  <2> HIDE DEF L
  <2>2. [d \in Devices |-> ForEach(LAMBDA row : Row(row)[d], rows)] = o
    BY <2>1 DEF Lines
  <2>3. /\ Says("debug_hex_dump", rows, [d \in Devices |-> ForEach(LAMBDA row : Row(row)[d], rows)])
        /\ UNCHANGED switches
        /\ UNCHANGED <<debug_level, debug_target, debug_initialized, halted>> /\ ~halted
    BY DEF debug_hex_dump, debug
  <2> QED
    BY <2>2, <2>3
<1>3. ASSUME NEW t \in Texts
      PROVE  /\ Faithful(L[t], terminal_serial_output, Clean)
             /\ \A x \in Texts : Occurrences(x, L[t][SERIAL]) = IF t = x THEN b ELSE 0
  <2>1. L[t] = debug_write(debug_target, DebugLine(<<t>>))
    OBVIOUS
  <2>2. t \in ConsoleChars /\ t # LF /\ <<t>> \in Seq(ConsoleChars)
    BY EchoFacts
  <2>3. <<t>> \in Clean
    BY <2>2, OneClean
  <2> DEFINE s == <<t>>
  <2>4. FormOf(s) = Clean
    BY <2>3, Zenon DEF FormOf
  <2>5. \A x \in Texts : Occurrences(x, s) = IF t = x THEN 1 ELSE 0
    BY <2>2, OneCharacter
  <2>6. s \in Seq(ConsoleChars)
    BY <2>2
  <2> HIDE DEF s
  <2>7. /\ Faithful(debug_write(debug_target, DebugLine(s)), terminal_serial_output, FormOf(s))
        /\ Carries(debug_write(debug_target, DebugLine(s)), ToScreen(debug_target, s),
                   ToLog(debug_target, terminal_serial_output, s))
    BY <1>0, <2>6, LineWriteFacts, Zenon
  <2>8. L[t] = debug_write(debug_target, DebugLine(s))
    BY <2>1 DEF s
  <2> HIDE DEF L, Row
  <2>9. ASSUME NEW x \in Texts  PROVE Occurrences(x, L[t][SERIAL]) = IF t = x THEN b ELSE 0
    <3>1. Occurrences(x, L[t][SERIAL]) =
            Occurrences(x, ToLog(debug_target, terminal_serial_output, s))
      BY <2>7, <2>8, Zenon DEF Carries
    <3>2. \/ b = 1 /\ ToLog(debug_target, terminal_serial_output, s) = s
          \/ b = 0 /\ ToLog(debug_target, terminal_serial_output, s) = <<>>
      BY Zenon DEF ToLog
    <3>3. Occurrences(x, <<>>) = 0
      BY SilenceFacts
    <3> HIDE DEF b
    <3> QED
      BY <2>5, <3>1, <3>2, <3>3, Zenon
  <2> QED
    BY <2>4, <2>7, <2>8, <2>9, Zenon
<1> HIDE DEF L, b
<1>4. /\ Faithful(o, terminal_serial_output, Clean)
      /\ \A x \in Texts : Occurrences(x, o[SERIAL]) = b * Occurrences(x, rows)
  BY <1>0, <1>1, <1>3, LinesFacts
<1> HIDE DEF o
<1>5. "debug_hex_dump" \in Kinds /\ Clean = CallForm([kind |-> "debug_hex_dump", text |-> rows])
  BY CallForms DEF Kinds
<1>6. /\ (debug_level \in NONE .. TRACE)' /\ (debug_target \subseteq Devices)'
      /\ (debug_initialized \in BOOLEAN)' /\ (halted \in BOOLEAN)'
  BY <1>0, <1>2 DEF TypeOK
<1>7. /\ TypeOK' /\ Faithful(out', terminal_serial_output', CallForm(call'))
      /\ out' = o /\ call'.kind = "debug_hex_dump" /\ call'.text = rows
  BY <1>0, <1>2, <1>4, <1>5, <1>6, LoudStep
<1>8. NoDuplicates'
  <2> SUFFICES ASSUME NEW x \in Texts
               PROVE  Occurrences(x, out'[SERIAL]) <= Occurrences(x, call'.text)
    BY Zenon DEF NoDuplicates, Copies
  <2>1. Occurrences(x, rows) \in Nat
    BY <1>0, OccurrencesConcat
  <2>2. Occurrences(x, o[SERIAL]) = b * Occurrences(x, rows)
    BY <1>4
  <2>3. Occurrences(x, o[SERIAL]) <= Occurrences(x, rows)
    BY <1>1, <2>1, <2>2
  <2> QED
    BY <1>7, <2>3, Zenon
<1>9. BothTargetsReached' /\ PanicReachesAll'
  BY <1>2, <1>7 DEF BothTargetsReached, PanicReachesAll
<1> QED
  BY <1>7, <1>8, <1>9, Zenon DEF ConsoleInv

(* The texts of debug.c and panic.c. *)
LEMMA OwnTextFacts ==
  /\ OwnTexts \subseteq Texts
  /\ {"initialized", "serial ok", "serial failed", "named exception", "unknown exception",
      "banner", "registers", "halted"} \subseteq Texts
  /\ "serial ok" # "initialized" /\ "serial failed" # "initialized"
<1>1. OwnTexts \subseteq Texts
  BY ConsoleAssumption
<1>2. /\ "initialized" \in OwnTexts /\ "serial ok" \in OwnTexts /\ "serial failed" \in OwnTexts
      /\ "named exception" \in OwnTexts /\ "unknown exception" \in OwnTexts
      /\ "banner" \in OwnTexts /\ "registers" \in OwnTexts /\ "halted" \in OwnTexts
  BY Zenon DEF OwnTexts
<1>3. "serial ok" # "initialized" /\ "serial failed" # "initialized"
  OBVIOUS
<1> QED
  BY <1>1, <1>2, <1>3

(* A line of one text: clean, and with that text only. *)
LEMMA OneTextLine ==
  ASSUME terminal_serial_output \in BOOLEAN, NEW target \in SUBSET Devices,
         NEW level \in Int, NEW threshold \in Int, NEW t \in Texts
  PROVE  LET o == debug_format_and_write(level, threshold, target, <<t>>)
         IN  /\ Faithful(o, terminal_serial_output, Clean)
             /\ level > threshold => Carries(o, <<>>, <<>>)
             /\ ~(level > threshold) =>
                  Carries(o, ToScreen(target, <<t>>), ToLog(target, terminal_serial_output, <<t>>))
             /\ \A x \in Texts : Occurrences(x, <<t>>) = IF t = x THEN 1 ELSE 0
<1>1. t \in ConsoleChars /\ t # LF /\ <<t>> \in Seq(ConsoleChars)
  BY EchoFacts
<1>2. <<t>> \in Clean
  BY <1>1, OneClean
<1>3. \A x \in Texts : Occurrences(x, <<t>>) = IF t = x THEN 1 ELSE 0
  BY <1>1, OneCharacter
<1> DEFINE s == <<t>>
<1>4. s \in Seq(ConsoleChars) /\ FormOf(s) = Clean
  BY <1>1, <1>2, Zenon DEF FormOf
<1> HIDE DEF s
<1>5. LET o == debug_format_and_write(level, threshold, target, s)
      IN  /\ Faithful(o, terminal_serial_output, Clean)
          /\ level > threshold => Carries(o, <<>>, <<>>)
          /\ ~(level > threshold) =>
               Carries(o, ToScreen(target, s), ToLog(target, terminal_serial_output, s))
  BY <1>4, FormatAndWriteFacts, Zenon
<1> QED
  BY <1>3, <1>5 DEF s

(* debug_init. *)
LEMMA InitStep ==
  ASSUME ConsoleInv, NEW serial_ok \in BOOLEAN, debug_init(serial_ok)
  PROVE  ConsoleInv'
<1>0. TypeOK /\ terminal_serial_output \in BOOLEAN
  BY DEF ConsoleInv, TypeOK
<1>1. PICK T \in SUBSET Devices : debug_target' = T
  BY DEF debug_init, Devices
<1>2. PICK w \in Int, t \in Texts :
        /\ t # "initialized"
        /\ Says("debug_init", <<"initialized">>,
                Both(debug_format_and_write(INFO, INFO, T, <<"initialized">>),
                     debug_format_and_write(w, INFO, T, <<t>>)))
  <2>1. /\ INFO \in Int /\ WARNING \in Int
        /\ "serial ok" \in Texts /\ "serial failed" \in Texts
        /\ "serial ok" # "initialized" /\ "serial failed" # "initialized"
    <3>1. INFO \in Int /\ WARNING \in Int
      BY DEF INFO, WARNING
    <3> QED
      BY <3>1, OwnTextFacts, Zenon
  <2>2. Says("debug_init", <<"initialized">>,
             Both(debug_format_and_write(INFO, INFO, T, <<"initialized">>),
                  IF serial_ok
                  THEN debug_format_and_write(INFO, INFO, T, <<"serial ok">>)
                  ELSE debug_format_and_write(WARNING, INFO, T, <<"serial failed">>)))
    BY <1>1 DEF debug_init
  <2>3. CASE serial_ok
    BY <2>1, <2>2, <2>3, Zenon
  <2>4. CASE ~serial_ok
    BY <2>1, <2>2, <2>4, Zenon
  <2> QED
    BY <2>3, <2>4
<1> DEFINE p == debug_format_and_write(INFO, INFO, T, <<"initialized">>)
           q == debug_format_and_write(w, INFO, T, <<t>>)
           o == Both(p, q)
<1>3. "initialized" \in Texts /\ <<"initialized">> \in Seq(ConsoleChars)
  <2>1. "initialized" \in Texts
    BY OwnTextFacts, Zenon
  <2> QED
    BY <2>1 DEF ConsoleChars
<1>4. /\ Faithful(p, terminal_serial_output, Clean) /\ Faithful(q, terminal_serial_output, Clean)
      /\ \A x \in Texts :
           /\ Occurrences(x, p[SERIAL]) \in {0, IF "initialized" = x THEN 1 ELSE 0}
           /\ Occurrences(x, q[SERIAL]) \in {0, IF t = x THEN 1 ELSE 0}
  <2>1. INFO \in Int /\ w \in Int
    BY DEF INFO
  <2>2. ASSUME NEW v \in Int, NEW u \in Texts
        PROVE  /\ Faithful(debug_format_and_write(v, INFO, T, <<u>>), terminal_serial_output, Clean)
               /\ \A x \in Texts :
                    Occurrences(x, debug_format_and_write(v, INFO, T, <<u>>)[SERIAL])
                      \in {0, IF u = x THEN 1 ELSE 0}
    <3> DEFINE r == debug_format_and_write(v, INFO, T, <<u>>)
               s == <<u>>
    <3>1. /\ Faithful(r, terminal_serial_output, Clean)
          /\ v > INFO => Carries(r, <<>>, <<>>)
          /\ ~(v > INFO) => Carries(r, ToScreen(T, s), ToLog(T, terminal_serial_output, s))
          /\ \A x \in Texts : Occurrences(x, s) = IF u = x THEN 1 ELSE 0
      BY <1>0, <2>1, OneTextLine
    <3> HIDE DEF r, s
    <3>2. ToLog(T, terminal_serial_output, s) = s \/ ToLog(T, terminal_serial_output, s) = <<>>
      BY Zenon DEF ToLog
    <3>3. ASSUME NEW x \in Texts
          PROVE  Occurrences(x, r[SERIAL]) \in {0, IF u = x THEN 1 ELSE 0}
      <4>1. Occurrences(x, r[SERIAL]) = Occurrences(x, s) \/ Occurrences(x, r[SERIAL]) = Occurrences(x, <<>>)
        BY <3>1, <3>2, Zenon DEF Carries
      <4>2. Occurrences(x, <<>>) = 0
        BY SilenceFacts
      <4> QED
        BY <3>1, <4>1, <4>2, Zenon
    <3> QED
      BY <3>1, <3>3 DEF r
  <2> QED
    BY <1>3, <2>1, <2>2, Zenon
<1>6. Says("debug_init", <<"initialized">>, o)
  BY <1>2
<1> HIDE DEF p, q
<1>7. /\ Faithful(o, terminal_serial_output, Clean)
      /\ \A x \in Texts :
              /\ Occurrences(x, p[SERIAL]) \in Nat /\ Occurrences(x, q[SERIAL]) \in Nat
              /\ Occurrences(x, o[SERIAL]) = Occurrences(x, p[SERIAL]) + Occurrences(x, q[SERIAL])
  <2>1. Clean \in Forms /\ SERIAL \in Devices
    BY DEF Forms, Devices
  <2> QED
    BY <1>0, <1>4, <2>1, BothFacts
<1> HIDE DEF o
<1>8. \A x \in Texts : Occurrences(x, o[SERIAL]) <= 1
  <2> TAKE x \in Texts
  <2>1. \/ Occurrences(x, p[SERIAL]) = 0 /\ Occurrences(x, q[SERIAL]) \in {0, 1}
        \/ Occurrences(x, p[SERIAL]) \in {0, 1} /\ Occurrences(x, q[SERIAL]) = 0
    BY <1>2, <1>4
  <2> QED
    BY <1>7, <2>1
<1>9. /\ UNCHANGED switches /\ UNCHANGED halted /\ ~halted
      /\ (debug_level \in NONE .. TRACE)' /\ (debug_target \subseteq Devices)'
      /\ (debug_initialized \in BOOLEAN)' /\ (halted \in BOOLEAN)'
  <2>1. /\ UNCHANGED switches /\ UNCHANGED halted /\ ~halted
        /\ debug_level' = INFO /\ debug_initialized' = TRUE
    BY Zenon DEF debug_init
  <2>2. (debug_level \in NONE .. TRACE)'
    BY <2>1 DEF INFO, NONE, TRACE
  <2> QED
    BY <1>0, <1>1, <2>1, <2>2 DEF TypeOK
<1>10. "debug_init" \in Kinds /\ Clean = CallForm([kind |-> "debug_init", text |-> <<"initialized">>])
  BY CallForms DEF Kinds
<1>11. /\ TypeOK' /\ Faithful(out', terminal_serial_output', CallForm(call'))
       /\ out' = o /\ call'.kind = "debug_init"
  BY <1>0, <1>3, <1>6, <1>7, <1>9, <1>10, LoudStep
<1>12. NoDuplicates'
  BY <1>8, <1>11, Zenon DEF NoDuplicates, Copies
<1>13. BothTargetsReached' /\ PanicReachesAll'
  BY <1>9, <1>11 DEF BothTargetsReached, PanicReachesAll
<1> QED
  BY <1>11, <1>12, <1>13, Zenon DEF ConsoleInv

(* The lines of a panic: the caller's string between the panic's own three  *)
(* texts, each of which comes once, or nothing at all.                      *)
LEMMA PanicOutput ==
  ASSUME terminal_serial_output \in BOOLEAN, debug_level \in Int,
         NEW str \in Seq(ConsoleChars \ {"banner", "registers", "halted"}),
         str \in Seq(ConsoleChars)
  PROVE  /\ Faithful(PanicLines(Devices, str), terminal_serial_output, FormOf(str))
         /\ \A d \in Devices, x \in Texts :
              /\ ERROR > debug_level => Occurrences(x, PanicLines(Devices, str)[d]) = 0
              /\ ~(ERROR > debug_level) =>
                   Occurrences(x, PanicLines(Devices, str)[d]) =
                     IF x \in {"banner", "registers", "halted"} THEN 1 ELSE Occurrences(x, str)
<1> DEFINE line(s) == debug_format_and_write(ERROR, debug_level, Devices, s)
           p1 == line(<<"banner">>)
           p2 == line(str)
           p3 == line(<<"registers">>)
           p4 == line(<<"halted">>)
           q3 == Both(p3, p4)
           q2 == Both(p2, q3)
           o == Both(p1, q2)
           E == FormOf(str)
           admitted == ~(ERROR > debug_level)
<1>0. PanicLines(Devices, str) = o
  BY DEF PanicLines
<1>1. /\ ERROR \in Int /\ Devices \in SUBSET Devices
      /\ "banner" \in Texts /\ "registers" \in Texts /\ "halted" \in Texts
  <2>1. "banner" \in Texts /\ "registers" \in Texts /\ "halted" \in Texts
    BY OwnTextFacts, Zenon
  <2> QED
    BY <2>1 DEF ERROR
<1>2. E \in Forms /\ Clean \in SUBSET E
  BY FormOfFacts, FormFacts
<1>3. \A x, s : /\ ToScreen(Devices, s) = s /\ ToLog(Devices, terminal_serial_output, s) = s
                /\ Occurrences(x, <<>>) = 0
  BY TargetFacts, SilenceFacts, Zenon
<1>4. ASSUME NEW t \in Texts
      PROVE  /\ Faithful(line(<<t>>), terminal_serial_output, E)
             /\ \A d \in Devices, x \in Texts :
                  /\ ~admitted => Occurrences(x, line(<<t>>)[d]) = 0
                  /\ admitted => Occurrences(x, line(<<t>>)[d]) = IF t = x THEN 1 ELSE 0
  <2> DEFINE s == <<t>>
             r == line(s)
  <2>1. /\ Faithful(r, terminal_serial_output, Clean)
        /\ ~admitted => Carries(r, <<>>, <<>>)
        /\ admitted => Carries(r, ToScreen(Devices, s), ToLog(Devices, terminal_serial_output, s))
        /\ \A x \in Texts : Occurrences(x, s) = IF t = x THEN 1 ELSE 0
    BY <1>1, OneTextLine
  <2> HIDE DEF r, s, admitted
  <2>2. Faithful(r, terminal_serial_output, E)
    BY <1>2, <2>1, Zenon DEF Faithful
  <2>3. ~admitted => \A d \in Devices, x \in Texts : Occurrences(x, r[d]) = 0
    BY <1>3, <2>1, Zenon DEF Carries, Devices
  <2>4. admitted => \A d \in Devices, x \in Texts : Occurrences(x, r[d]) = Occurrences(x, s)
    BY <1>3, <2>1, Zenon DEF Carries, Devices
  <2> QED
    BY <2>1, <2>2, <2>3, <2>4 DEF r, s
<1>5. /\ Faithful(p2, terminal_serial_output, E)
      /\ \A d \in Devices, x \in Texts :
           /\ ~admitted => Occurrences(x, p2[d]) = 0
           /\ admitted => Occurrences(x, p2[d]) = Occurrences(x, str)
  <2>1. /\ Faithful(p2, terminal_serial_output, E)
        /\ ~admitted => Carries(p2, <<>>, <<>>)
        /\ admitted => Carries(p2, ToScreen(Devices, str), ToLog(Devices, terminal_serial_output, str))
    BY <1>1, FormatAndWriteFacts, Zenon
  <2> HIDE DEF p2, admitted
  <2> QED
    BY <1>3, <2>1, Zenon DEF Carries, Devices
<1>6. /\ Faithful(p1, terminal_serial_output, E) /\ Faithful(p3, terminal_serial_output, E)
      /\ Faithful(p4, terminal_serial_output, E)
      /\ \A d \in Devices, x \in Texts :
           /\ ~admitted => /\ Occurrences(x, p1[d]) = 0 /\ Occurrences(x, p3[d]) = 0
                           /\ Occurrences(x, p4[d]) = 0
           /\ admitted => /\ Occurrences(x, p1[d]) = IF "banner" = x THEN 1 ELSE 0
                          /\ Occurrences(x, p3[d]) = IF "registers" = x THEN 1 ELSE 0
                          /\ Occurrences(x, p4[d]) = IF "halted" = x THEN 1 ELSE 0
  BY <1>1, <1>4, Zenon
<1> HIDE DEF p1, p2, p3, p4, E
<1>7. /\ Faithful(q3, terminal_serial_output, E)
      /\ \A x \in Texts, d \in Devices :
           /\ Occurrences(x, p3[d]) \in Nat /\ Occurrences(x, p4[d]) \in Nat
           /\ Occurrences(x, q3[d]) = Occurrences(x, p3[d]) + Occurrences(x, p4[d])
  BY <1>2, <1>6, BothFacts
<1> HIDE DEF q3
<1>8. /\ Faithful(q2, terminal_serial_output, E)
      /\ \A x \in Texts, d \in Devices :
           /\ Occurrences(x, p2[d]) \in Nat
           /\ Occurrences(x, q2[d]) = Occurrences(x, p2[d]) + Occurrences(x, q3[d])
  BY <1>2, <1>5, <1>7, BothFacts
<1> HIDE DEF q2
<1>9. /\ Faithful(o, terminal_serial_output, E)
      /\ \A x \in Texts, d \in Devices :
           Occurrences(x, o[d]) = Occurrences(x, p1[d]) + Occurrences(x, q2[d])
  BY <1>2, <1>6, <1>8, BothFacts
<1> HIDE DEF o, admitted
<1>10. \A x \in Texts :
         /\ Occurrences(x, str) \in Nat
         /\ x \in {"banner", "registers", "halted"} => Occurrences(x, str) = 0
  <2>1. \A x : Occurrences(x, str) \in Nat
    BY OccurrencesConcat
  <2>2. ASSUME NEW x \in {"banner", "registers", "halted"}  PROVE Occurrences(x, str) = 0
    BY Absent
  <2> QED
    BY <2>1, <2>2
<1>11. ASSUME NEW d \in Devices, NEW x \in Texts
       PROVE  /\ ~admitted => Occurrences(x, o[d]) = 0
              /\ admitted => Occurrences(x, o[d]) =
                   IF x \in {"banner", "registers", "halted"} THEN 1 ELSE Occurrences(x, str)
  <2> DEFINE n1 == Occurrences(x, p1[d])
             n2 == Occurrences(x, p2[d])
             n3 == Occurrences(x, p3[d])
             n4 == Occurrences(x, p4[d])
             k == Occurrences(x, str)
  <2>1. Occurrences(x, o[d]) = n1 + (n2 + (n3 + n4))
    BY <1>7, <1>8, <1>9
  <2>2. /\ ~admitted => n1 = 0 /\ n2 = 0 /\ n3 = 0 /\ n4 = 0
        /\ admitted => /\ n1 = IF "banner" = x THEN 1 ELSE 0
                       /\ n3 = IF "registers" = x THEN 1 ELSE 0
                       /\ n4 = IF "halted" = x THEN 1 ELSE 0
                       /\ n2 = k
    BY <1>5, <1>6, Zenon
  <2>3. k \in Nat /\ (x \in {"banner", "registers", "halted"} => k = 0)
    BY <1>10
  <2> HIDE DEF n1, n2, n3, n4, k
  <2>4. CASE ~admitted
    BY <2>1, <2>2, <2>4
  <2>5. CASE admitted
    BY <2>1, <2>2, <2>3, <2>5 DEF k
  <2> QED
    BY <2>4, <2>5
<1> QED
  BY <1>0, <1>9, <1>11 DEF E, admitted

(* panic. *)
LEMMA PanicStep ==
  ASSUME ConsoleInv, NEW str \in Seq(ConsoleChars \ {"banner", "registers", "halted"}),
         str \in Seq(ConsoleChars), panic(str)
  PROVE  ConsoleInv'
<1> DEFINE o == PanicLines(Devices, str)
<1>0. /\ TypeOK /\ terminal_serial_output \in BOOLEAN /\ ERROR \in Int /\ debug_level \in Int
  BY DEF ConsoleInv, TypeOK, ERROR, NONE, TRACE
<1>2. /\ Says("panic", str, o) /\ UNCHANGED switches /\ halted' = TRUE
      /\ debug_target' = Devices /\ UNCHANGED <<debug_level, debug_initialized>>
  BY DEF panic
<1>4. /\ Faithful(o, terminal_serial_output, FormOf(str))
      /\ \A d \in Devices, x \in Texts :
           /\ ERROR > debug_level => Occurrences(x, o[d]) = 0
           /\ ~(ERROR > debug_level) =>
                Occurrences(x, o[d]) =
                  IF x \in {"banner", "registers", "halted"} THEN 1 ELSE Occurrences(x, str)
  BY <1>0, PanicOutput
<1> HIDE DEF o
<1>5. "panic" \in Kinds /\ FormOf(str) = CallForm([kind |-> "panic", text |-> str])
  BY CallForms DEF Kinds
<1>6. /\ (debug_level \in NONE .. TRACE)' /\ (debug_target \subseteq Devices)'
      /\ (debug_initialized \in BOOLEAN)' /\ (halted \in BOOLEAN)'
  BY <1>0, <1>2 DEF TypeOK
<1>7. /\ TypeOK' /\ Faithful(out', terminal_serial_output', CallForm(call'))
      /\ out' = o /\ call'.kind = "panic" /\ call'.text = str
  BY <1>0, <1>2, <1>4, <1>5, <1>6, LoudStep
<1>8. NoDuplicates'
  <2> SUFFICES ASSUME NEW x \in Texts
               PROVE  \/ Occurrences(x, out'[SERIAL]) <= 1
                      \/ Occurrences(x, out'[SERIAL]) <= Occurrences(x, call'.text)
    BY Zenon DEF NoDuplicates, Copies
  <2>1. Occurrences(x, str) \in Nat /\ SERIAL \in Devices
    BY OccurrencesConcat DEF Devices
  <2>2. \/ Occurrences(x, o[SERIAL]) = 0 \/ Occurrences(x, o[SERIAL]) = 1
        \/ Occurrences(x, o[SERIAL]) = Occurrences(x, str)
    BY <1>4, <2>1, Zenon
  <2>3. Occurrences(x, o[SERIAL]) <= 1 \/ Occurrences(x, o[SERIAL]) <= Occurrences(x, str)
    BY <2>1, <2>2
  <2> QED
    BY <1>7, <2>3, Zenon
<1>9. BothTargetsReached'
  BY <1>7 DEF BothTargetsReached
<1>10. PanicReachesAll'
  <2> SUFFICES ASSUME debug_level >= ERROR
               PROVE  \A d \in Devices :
                        /\ \A x \in {"banner", "registers", "halted"} : Occurrences(x, o[d]) = 1
                        /\ \A x \in Texts \ {"banner", "registers", "halted"} :
                              Occurrences(x, o[d]) = Occurrences(x, str)
    <3>1. debug_level' = debug_level
      BY <1>2
    <3> QED
      BY <1>7, <3>1, Zenon DEF PanicReachesAll, Copies
  <2>1. ~(ERROR > debug_level)
    BY <1>0
  <2>2. {"banner", "registers", "halted"} \subseteq Texts
    BY OwnTextFacts
  <2> QED
    BY <1>4, <2>1, <2>2, Zenon
<1> QED
  BY <1>7, <1>8, <1>9, <1>10, Zenon DEF ConsoleInv

-----------------------------------------------------------------------------
(* Every step keeps the invariant. *)
LEMMA ConsoleStep ==
  ASSUME ConsoleInv, [Next]_vars
  PROVE  ConsoleInv'
<1>1. CASE UNCHANGED vars
  BY <1>1 DEF ConsoleInv, TypeOK, CallForm, NoDuplicates, Copies, BothTargetsReached, PanicReachesAll,
              vars, switches, debug
<1>2. CASE \/ \E enable \in BOOLEAN : terminal_enable_serial(enable)
           \/ \E enable \in BOOLEAN : putchar_enable_serial(enable)
           \/ \E enable \in BOOLEAN : printf_enable_serial(enable)
           \/ \E level \in LogLevels : debug_set_level(level)
           \/ \E target \in SUBSET Devices : debug_set_target(target)
  BY <1>2, SettingsStep
<1>3. CASE \E serial_ok \in BOOLEAN : debug_init(serial_ok)
  BY <1>3, InitStep
<1>4. CASE \E c \in ConsoleChars : putchar(c)
  BY <1>4, PutcharStep
<1>5. CASE \E str \in Strings : printf(str)
  BY <1>5, PrintfStep
<1>6. CASE \E level \in LogLevels, str \in Strings : debug_log(level, str)
  BY <1>6, LogStep
<1>10. CASE \E str \in Strings : debug_print(str)
  BY <1>10, DebugPrintStep
<1>7. CASE \E rows \in Dumps : debug_hex_dump(rows)
  BY <1>7, HexDumpStep
<1>8. CASE \E str \in Strings : panic(str)
  BY <1>8, StringFacts, PanicStep
<1>9. CASE \E n \in Exceptions : exception_handler(n)
  <2>1. PICK t \in {"named exception", "unknown exception"} : panic(<<t>>)
    BY <1>9, Zenon DEF exception_handler
  <2>2. t \in ConsoleChars \ {"banner", "registers", "halted"}
    <3>1. t \in Texts
      BY OwnTextFacts
    <3> QED
      BY <3>1 DEF ConsoleChars
  <2>3. /\ <<t>> \in Seq(ConsoleChars \ {"banner", "registers", "halted"})
        /\ <<t>> \in Seq(ConsoleChars)
    BY <2>2, OneString
  <2> DEFINE s == <<t>>
  <2>4. /\ s \in Seq(ConsoleChars \ {"banner", "registers", "halted"})
        /\ s \in Seq(ConsoleChars) /\ panic(s)
    BY <2>1, <2>3
  <2> HIDE DEF s
  <2> QED
    BY <2>4, PanicStep
<1> QED
  BY <1>1, <1>2, <1>3, <1>4, <1>5, <1>6, <1>7, <1>8, <1>9, <1>10, Zenon DEF Next

(* The clean sequences are those without bare line feeds. *)
LEMMA BareFacts ==
  ASSUME NEW s \in Seq(ConsoleChars)
  PROVE  s \in Clean <=> BareLineFeeds(s) = {}
<1>1. DOMAIN s = 1 .. Len(s) /\ Len(s) \in Nat
  OBVIOUS
<1>2. \A i \in 1 .. Len(s) : (i > 1 /\ s[i - 1] = CR) <=> ~(i = 1 \/ s[i - 1] # CR)
  OBVIOUS
<1> QED
  BY <1>1, <1>2 DEF Clean, BareLineFeeds

(* The invariant says what the properties say. *)
LEMMA ConsoleImplies ==
  ASSUME ConsoleInv
  PROVE  /\ TypeOK /\ SerialMirrorsScreen /\ NoDuplicates /\ LineFeedsAfterReturns
         /\ BothTargetsReached /\ PanicReachesAll
<1>1. /\ TypeOK /\ NoDuplicates /\ BothTargetsReached /\ PanicReachesAll
      /\ out \in [Devices -> Seq(ConsoleChars)] /\ out[SERIAL] \in CallForm(call)
      /\ terminal_serial_output => out[SERIAL] = FlatMap(Echo, out[VGA])
  BY Zenon DEF ConsoleInv, Faithful
<1>2. SerialMirrorsScreen
  <2>1. out[VGA] \in Seq(ConsoleChars)
    BY <1>1 DEF Devices
  <2>2. \A i \in DOMAIN out[VGA] : out[VGA][i] \in ConsoleChars
    BY <2>1
  <2>3. [i \in DOMAIN out[VGA] |-> CrLf(out[VGA][i])] = [i \in DOMAIN out[VGA] |-> Echo[out[VGA][i]]]
    BY <2>2 DEF Echo
  <2>4. ForEach(CrLf, out[VGA]) = FlatMap(Echo, out[VGA])
    BY <2>3, Zenon DEF ForEach, FlatMap
  <2> QED
    BY <1>1, <2>4, Zenon DEF SerialMirrorsScreen
<1>3. LineFeedsAfterReturns
  <2>1. /\ out[SERIAL] \in Seq(ConsoleChars) /\ out[VGA] \in Seq(ConsoleChars)
        /\ call.text \in Seq(ConsoleChars)
    BY <1>1 DEF Devices, TypeOK
  <2>2. ASSUME BareLineFeeds(out[SERIAL]) # {}
        PROVE  /\ ~terminal_serial_output
               /\ call.kind \in {"debug_log", "debug_print", "panic"}
               /\ BareLineFeeds(call.text) # {}
    <3>1. out[SERIAL] \notin Clean
      BY <2>1, <2>2, BareFacts
    <3>2. ~terminal_serial_output
      BY <1>1, <2>1, <3>1, CleanFacts, Zenon
    <3>3. call.kind \in {"debug_log", "debug_print", "panic"} /\ call.text \notin Clean
      BY <1>1, <3>1, Zenon DEF CallForm, FormOf
    <3> QED
      BY <2>1, <3>2, <3>3, BareFacts
  <2> QED
    BY <2>2, Zenon DEF LineFeedsAfterReturns
<1> QED
  BY <1>1, <1>2, <1>3

(* Before the first call the devices have got nothing. *)
LEMMA ConsoleStart ==
  ASSUME Init
  PROVE  ConsoleInv
<1>1. /\ call.kind = "none" /\ call \in [kind : Kinds, text : Seq(ConsoleChars)] /\ out = Silence
  BY DEF Init, NoCall, Kinds
<1>2. Faithful(out, terminal_serial_output, CallForm(call))
  <2>1. \A echo \in BOOLEAN : \A E \in Forms : Faithful(Silence, echo, E)
    BY SilenceFacts
  <2>2. CallForm(call) \in Forms
    BY Zenon DEF CallForm, FormOf, Forms
  <2> QED
    BY <1>1, <2>1, <2>2, Zenon DEF Init
<1>3. TypeOK
  <2>1. out \in [Devices -> Seq(ConsoleChars)]
    BY <1>2, Zenon DEF Faithful
  <2> QED
    <3>1. debug_level \in NONE .. TRACE
      BY DEF Init, INFO, NONE, TRACE
    <3>2. debug_target \subseteq Devices
      BY Zenon DEF Init, Devices
    <3>3. /\ terminal_serial_output \in BOOLEAN /\ putchar_serial_output \in BOOLEAN
          /\ serial_output_enabled \in BOOLEAN /\ debug_initialized \in BOOLEAN
          /\ halted \in BOOLEAN
      BY Zenon DEF Init
    <3> QED
      BY <1>1, <2>1, <3>1, <3>2, <3>3, Zenon DEF TypeOK
<1>4. NoDuplicates
  <2>1. out[SERIAL] = <<>>
    BY <1>1 DEF Silence, Devices
  <2>2. \A x : Occurrences(x, out[SERIAL]) = 0
    BY <2>1, SilenceFacts, Zenon
  <2>3. \A x \in Texts : Occurrences(x, out[SERIAL]) <= 1
    BY <2>2
  <2> QED
    BY <2>3, Zenon DEF NoDuplicates, Copies
<1>5. BothTargetsReached /\ PanicReachesAll
  BY <1>1 DEF Init, BothTargetsReached, PanicReachesAll
<1> QED
  BY <1>2, <1>3, <1>4, <1>5, Zenon DEF ConsoleInv

(* ConsoleInv holds throughout every run of the console, for every order of *)
(* switch calls and output calls.                                           *)
THEOREM ConsoleInvariant == Spec => []ConsoleInv
<1>1. Init => ConsoleInv
  BY ConsoleStart
<1>2. ConsoleInv /\ [Next]_vars => ConsoleInv'
  BY ConsoleStep
<1> QED
  BY <1>1, <1>2, PTL DEF Spec

(* The level stays in the range that debug.c's tables have, whatever level  *)
(* debug_set_level is given, and the devices get characters only.           *)
THEOREM ConsoleTypeCorrect == Spec => []TypeOK
<1>1. ConsoleInv => TypeOK
  BY ConsoleImplies
<1> QED
  BY <1>1, ConsoleInvariant, PTL

(* While the terminal echoes, COM1 has the echo of the screen and nothing   *)
(* else, for every string and every setting of the other layers' switches.  *)
THEOREM ConsoleMirrors == Spec => []SerialMirrorsScreen
<1>1. ConsoleInv => SerialMirrorsScreen
  BY ConsoleImplies
<1> QED
  BY <1>1, ConsoleInvariant, PTL

(* Only printf over putchar repeats a text, and only with both of libc's    *)
(* switches on and the terminal's off.                                      *)
THEOREM ConsoleNoDuplicates == Spec => []NoDuplicates
<1>1. ConsoleInv => NoDuplicates
  BY ConsoleImplies
<1> QED
  BY <1>1, ConsoleInvariant, PTL

(* A line feed goes to COM1 without a carriage return right before it only  *)
(* where the caller of debug_log, debug_print or panic has one so in its    *)
(* string and the terminal does not echo: libc, the echo and the line ends  *)
(* that debug.c adds never send one, whatever the strings.                  *)
THEOREM ConsoleLineFeeds == Spec => []LineFeedsAfterReturns
<1>1. ConsoleInv => LineFeedsAfterReturns
  BY ConsoleImplies
<1> QED
  BY <1>1, ConsoleInvariant, PTL

(* With both targets, what debug_log (if the level admits it) and           *)
(* debug_print are given is on each device, as often as the string has it,  *)
(* whatever the switches of the other layers are.                           *)
THEOREM ConsoleBothTargets == Spec => []BothTargetsReached
<1>1. ConsoleInv => BothTargetsReached
  BY ConsoleImplies
<1> QED
  BY <1>1, ConsoleInvariant, PTL

(* A panic's message and each of its own lines are once on each device,     *)
(* whatever the target was, if the level admits errors.                     *)
THEOREM ConsolePanicReachesAll == Spec => []PanicReachesAll
<1>1. ConsoleInv => PanicReachesAll
  BY ConsoleImplies
<1> QED
  BY <1>1, ConsoleInvariant, PTL

=============================================================================
