----------------------------- MODULE Induction ------------------------------
(***************************************************************************)
(* Induction for the proofs of this project, with sets and functions in    *)
(* the place of operators: a property is the set of the numbers that have  *)
(* it, a recursion's step is a function.                                   *)
(***************************************************************************)
EXTENDS Integers, SequencesExt, SequenceTheorems, WellFoundedInduction, TLAPS

(* A set of natural numbers that is not empty has a least element. *)
LEMMA LeastElement ==
  ASSUME NEW T, T \subseteq Nat, T # {}
  PROVE  \E x \in T : \A y \in T : x <= y
<1> DEFINE R == OpToRel(<, Nat)
<1>1. IsWellFoundedOn(R, Nat)
  BY NatLessThanWellFounded
<1>2. \E x \in T : \A y \in T : ~(<<y, x>> \in R)
  <2> HIDE DEF R
  <2> QED
    BY <1>1, WFMin, Zenon
<1>3. \A x, y \in Nat : y < x => <<y, x>> \in R
  BY DEF OpToRel
<1> HIDE DEF R
<1>4. PICK x \in T : \A y \in T : ~(<<y, x>> \in R)
  BY <1>2
<1>5. \A y \in T : ~(y < x)
  BY <1>3, <1>4
<1> QED
  BY <1>5

(* What holds of zero, and of n + 1 whenever it holds of n, holds of every  *)
(* natural number.                                                          *)
LEMMA SetInduction ==
  ASSUME NEW S, 0 \in S, \A n \in Nat : n \in S => n + 1 \in S
  PROVE  Nat \subseteq S
<1> SUFFICES ASSUME Nat \ S # {} PROVE FALSE
  OBVIOUS
<1>1. PICK x \in Nat \ S : \A y \in Nat \ S : x <= y
  BY LeastElement
<1> QED
  BY <1>1, x # 0, x - 1 \in Nat, x - 1 \in S

(* f is the sequence that starts with a and goes on with the step F. *)
Unfolds(f, V, a, F, n) ==
  /\ f \in [0 .. n -> V]
  /\ f[0] = a
  /\ \A k \in 1 .. n : f[k] = F[<<f[k - 1], k>>]

(* A recursion over 0 .. n has a solution, whatever its step. *)
LEMMA RecursiveSequence ==
  ASSUME NEW V, NEW a \in V, NEW F \in [V \X Nat -> V], NEW n \in Nat
  PROVE  \E f : Unfolds(f, V, a, F, n)
<1> DEFINE S == {m \in Nat : \E f : Unfolds(f, V, a, F, m)}
<1>1. 0 \in S
  <2> DEFINE f == [i \in 0 .. 0 |-> a]
  <2>1. Unfolds(f, V, a, F, 0)
    BY DEF Unfolds
  <2> QED
    BY <2>1
<1>2. ASSUME NEW m \in Nat, m \in S  PROVE m + 1 \in S
  <2>1. PICK f : Unfolds(f, V, a, F, m)
    BY <1>2
  <2> DEFINE g == [i \in 0 .. (m + 1) |-> IF i <= m THEN f[i] ELSE F[<<f[m], m + 1>>]]
  <2>2. \A i \in 0 .. m : f[i] \in V
    BY <2>1 DEF Unfolds
  <2>3. F[<<f[m], m + 1>>] \in V
    BY <2>2
  <2>4. g \in [0 .. (m + 1) -> V] /\ g[0] = a
    BY <2>1, <2>2, <2>3 DEF Unfolds
  <2>5. ASSUME NEW k \in 1 .. (m + 1)  PROVE g[k] = F[<<g[k - 1], k>>]
    <3>1. CASE k <= m
      <4>1. k \in 1 .. m /\ g[k] = f[k] /\ g[k - 1] = f[k - 1]
        BY <3>1
      <4> QED
        BY <2>1, <4>1 DEF Unfolds
    <3>2. CASE k = m + 1
      <4>1. g[k] = F[<<f[m], m + 1>>] /\ g[k - 1] = f[m]
        BY <3>2
      <4> QED
        BY <3>2, <4>1
    <3> QED
      BY <3>1, <3>2
  <2>6. Unfolds(g, V, a, F, m + 1)
    BY <2>4, <2>5 DEF Unfolds
  <2> HIDE DEF g
  <2> QED
    BY <2>6
<1>3. n \in S
  <2> HIDE DEF S
  <2> QED
    BY <1>1, <1>2, SetInduction
<1> QED
  BY <1>3

-----------------------------------------------------------------------------
(* FlattenSeq is the last of the concatenations of more and more sequences. *)
LEMMA FlattenUnfolds ==
  ASSUME NEW V, NEW seqs \in Seq(Seq(V)), Len(seqs) > 0
  PROVE  \E g : /\ g \in [1 .. Len(seqs) -> Seq(V)]
                /\ g[1] = seqs[1]
                /\ \A i \in 2 .. Len(seqs) : g[i] = g[i - 1] \o seqs[i]
                /\ FlattenSeq(seqs) = g[Len(seqs)]
<1> DEFINE n == Len(seqs)
           W == Seq(V)
           Equation(g) == g = [i \in 1 .. n |-> IF i = 1 THEN seqs[i] ELSE g[i - 1] \o seqs[i]]
           F == [p \in W \X Nat |->
                   IF p[2] \in 1 .. (n - 1) THEN p[1] \o seqs[p[2] + 1] ELSE p[1]]
<1>1. n \in Nat /\ n >= 1 /\ \A i \in 1 .. n : seqs[i] \in W
  BY ElementOfSeq
<1>2. F \in [W \X Nat -> W]
  <2>1. ASSUME NEW p \in W \X Nat  PROVE F[p] \in W
    <3>1. CASE p[2] \in 1 .. (n - 1)
      <4>1. p[2] + 1 \in 1 .. n /\ p[1] \in Seq(V)
        BY <1>1, <3>1
      <4>2. seqs[p[2] + 1] \in Seq(V)
        BY <1>1, <4>1
      <4> QED
        BY <3>1, <4>1, <4>2, ConcatProperties
    <3>2. CASE p[2] \notin 1 .. (n - 1)
      BY <3>2
    <3> QED
      BY <3>1, <3>2
  <2>2. F = [p \in W \X Nat |-> F[p]]
    OBVIOUS
  <2> HIDE DEF F
  <2> QED
    BY <2>1, <2>2
<1>3. PICK f : Unfolds(f, W, seqs[1], F, n - 1)
  <2>1. n - 1 \in Nat /\ seqs[1] \in W
    BY <1>1
  <2> HIDE DEF F, n, W
  <2> QED
    BY <1>2, <2>1, RecursiveSequence
<1>4. /\ f \in [0 .. (n - 1) -> W] /\ f[0] = seqs[1]
      /\ \A k \in 1 .. (n - 1) : f[k] = f[k - 1] \o seqs[k + 1]
  <2>1. /\ f \in [0 .. (n - 1) -> W] /\ f[0] = seqs[1]
        /\ \A k \in 1 .. (n - 1) : f[k] = F[<<f[k - 1], k>>]
    BY <1>3 DEF Unfolds
  <2>2. ASSUME NEW k \in 1 .. (n - 1)  PROVE F[<<f[k - 1], k>>] = f[k - 1] \o seqs[k + 1]
    <3>1. k - 1 \in 0 .. (n - 1) /\ k \in Nat
      BY <1>1
    <3>2. <<f[k - 1], k>> \in W \X Nat
      BY <2>1, <3>1
    <3> HIDE DEF W
    <3> QED
      BY <3>2
  <2> HIDE DEF F, n, W
  <2> QED
    BY <2>1, <2>2
<1> HIDE DEF F
<1> DEFINE g == [i \in 1 .. n |-> f[i - 1]]
<1>5. Equation(g)
  <2>1. ASSUME NEW i \in 1 .. n
        PROVE  g[i] = IF i = 1 THEN seqs[i] ELSE g[i - 1] \o seqs[i]
    <3>1. CASE i = 1
      BY <1>4, <3>1
    <3>2. CASE i # 1
      <4>1. i - 1 \in 1 .. (n - 1) /\ i - 1 \in 1 .. n /\ (i - 1) + 1 = i
        BY <1>1, <3>2
      <4>2. g[i] = f[i - 1] /\ g[i - 1] = f[(i - 1) - 1]
        BY <4>1
      <4>3. f[i - 1] = f[(i - 1) - 1] \o seqs[(i - 1) + 1]
        BY <1>4, <4>1
      <4> HIDE DEF g
      <4> QED
        BY <3>2, <4>1, <4>2, <4>3
    <3> QED
      BY <3>1, <3>2
  <2> QED
    BY <2>1
<1>6. FlattenSeq(seqs) = (CHOOSE h : Equation(h))[n]
  BY <1>1 DEF FlattenSeq
<1> DEFINE h == CHOOSE h : Equation(h)
<1>7. Equation(h)
  <2> HIDE DEF Equation, g
  <2> QED
    BY <1>5, Zenon
<1>8. h = [i \in 1 .. n |-> IF i = 1 THEN seqs[i] ELSE h[i - 1] \o seqs[i]]
  BY <1>7
<1>9. FlattenSeq(seqs) = h[n]
  BY <1>6
<1> HIDE DEF h, g, Equation
<1>10. h[1] = seqs[1] /\ \A i \in 2 .. n : h[i] = h[i - 1] \o seqs[i]
  <2>1. h[1] = seqs[1]
    BY <1>1, <1>8
  <2>2. ASSUME NEW i \in 2 .. n  PROVE h[i] = h[i - 1] \o seqs[i]
    <3>1. i \in 1 .. n /\ i # 1
      BY <1>1
    <3> QED
      BY <1>8, <3>1
  <2> QED
    BY <2>1, <2>2
<1> DEFINE S == {m \in Nat : m + 1 \in 1 .. n => h[m + 1] \in W}
<1>11. 0 \in S
  BY <1>1, <1>10
<1>12. ASSUME NEW m \in Nat, m \in S  PROVE m + 1 \in S
  <2> SUFFICES ASSUME (m + 1) + 1 \in 1 .. n  PROVE h[(m + 1) + 1] \in W
    OBVIOUS
  <2>1. m + 1 \in 1 .. n /\ (m + 1) + 1 \in 2 .. n /\ ((m + 1) + 1) - 1 = m + 1
    BY <1>1
  <2>2. h[m + 1] \in Seq(V) /\ seqs[(m + 1) + 1] \in Seq(V)
    BY <1>1, <1>12, <2>1
  <2>3. h[(m + 1) + 1] = h[m + 1] \o seqs[(m + 1) + 1]
    BY <1>10, <2>1
  <2> QED
    BY <2>2, <2>3, ConcatProperties
<1>13. Nat \subseteq S
  <2> HIDE DEF S
  <2> QED
    BY <1>11, <1>12, SetInduction
<1>14. \A i \in 1 .. n : h[i] \in W
  <2> TAKE i \in 1 .. n
  <2>1. i - 1 \in Nat /\ (i - 1) + 1 = i
    BY <1>1
  <2> QED
    BY <1>13, <2>1
<1>15. h \in [1 .. n -> W]
  BY <1>8, <1>14
<1> QED
  BY <1>9, <1>10, <1>15

(* What every sequence of a list has, and a concatenation has when both of  *)
(* its parts have it, FlattenSeq of the list has.                           *)
LEMMA FlattenClosed ==
  ASSUME NEW V, NEW T \in SUBSET Seq(V), \A u, v \in T : u \o v \in T,
         NEW seqs \in Seq(T), Len(seqs) > 0
  PROVE  FlattenSeq(seqs) \in T
<1> DEFINE n == Len(seqs)
<1>1. seqs \in Seq(Seq(V)) /\ n \in Nat /\ n >= 1 /\ \A i \in 1 .. n : seqs[i] \in T
  BY ElementOfSeq
<1>2. PICK g : /\ g \in [1 .. n -> Seq(V)]
               /\ g[1] = seqs[1]
               /\ \A i \in 2 .. n : g[i] = g[i - 1] \o seqs[i]
               /\ FlattenSeq(seqs) = g[n]
  BY <1>1, FlattenUnfolds
<1> DEFINE S == {m \in Nat : m + 1 \in 1 .. n => g[m + 1] \in T}
<1>3. 0 \in S
  BY <1>1, <1>2
<1>4. ASSUME NEW m \in Nat, m \in S  PROVE m + 1 \in S
  <2> SUFFICES ASSUME (m + 1) + 1 \in 1 .. n  PROVE g[(m + 1) + 1] \in T
    OBVIOUS
  <2>1. m + 1 \in 1 .. n /\ (m + 1) + 1 \in 2 .. n /\ ((m + 1) + 1) - 1 = m + 1
    BY <1>1
  <2>2. g[m + 1] \in T /\ seqs[(m + 1) + 1] \in T
    BY <1>1, <1>4, <2>1
  <2>3. g[(m + 1) + 1] = g[m + 1] \o seqs[(m + 1) + 1]
    BY <1>2, <2>1
  <2> QED
    BY <2>2, <2>3
<1>5. Nat \subseteq S
  <2> HIDE DEF S
  <2> QED
    BY <1>3, <1>4, SetInduction
<1>6. n - 1 \in Nat /\ (n - 1) + 1 = n /\ n \in 1 .. n
  BY <1>1
<1> QED
  BY <1>2, <1>5, <1>6

-----------------------------------------------------------------------------
(* What holds of the empty sequence, and of a longer one whenever it holds  *)
(* of it without its last element, holds of every sequence.                 *)
LEMMA SequenceInduction ==
  ASSUME NEW V, NEW S, <<>> \in S, \A s \in Seq(V) : \A e \in V : s \in S => Append(s, e) \in S
  PROVE  Seq(V) \subseteq S
<1> DEFINE N == {n \in Nat : \A s \in Seq(V) : Len(s) = n => s \in S}
<1>1. 0 \in N
  OBVIOUS
<1>2. ASSUME NEW n \in Nat, n \in N  PROVE n + 1 \in N
  <2> SUFFICES ASSUME NEW s \in Seq(V), Len(s) = n + 1  PROVE s \in S
    OBVIOUS
  <2>1. s # <<>>
    OBVIOUS
  <2>2. PICK t \in Seq(V), e \in V : s = Append(t, e)
    BY <2>1, SequenceEmptyOrAppend
  <2>3. Len(s) = Len(t) + 1 /\ Len(t) \in Nat
    BY <2>2, AppendProperties
  <2>4. t \in S
    BY <1>2, <2>3
  <2> QED
    BY <2>2, <2>4
<1>3. Nat \subseteq N
  <2> HIDE DEF N
  <2> QED
    BY <1>1, <1>2, SetInduction
<1> QED
  BY <1>3

(* FlattenSeq of the empty list, and of a list with one sequence more. *)
LEMMA FlattenAppend ==
  ASSUME NEW V, NEW seqs \in Seq(Seq(V)), NEW x \in Seq(V)
  PROVE  /\ FlattenSeq(<<>>) = <<>>
         /\ FlattenSeq(seqs) \in Seq(V)
         /\ FlattenSeq(Append(seqs, x)) = FlattenSeq(seqs) \o x
<1> DEFINE W == Seq(V)
           more == Append(seqs, x)
           n == Len(seqs)
<1>1. FlattenSeq(<<>>) = <<>>
  BY DEF FlattenSeq
<1>2. seqs \in Seq(W) /\ x \in W
  OBVIOUS
<1>3. /\ more \in Seq(W) /\ Len(more) = n + 1 /\ n \in Nat
      /\ \A i \in 1 .. n : more[i] = seqs[i]
      /\ more[n + 1] = x
  <2> HIDE DEF W
  <2> QED
    BY <1>2, AppendProperties
<1> HIDE DEF more
<1>4. PICK g : /\ g \in [1 .. Len(more) -> Seq(V)]
               /\ g[1] = more[1]
               /\ \A i \in 2 .. Len(more) : g[i] = g[i - 1] \o more[i]
               /\ FlattenSeq(more) = g[Len(more)]
  <2>1. Len(more) > 0
    BY <1>3
  <2> QED
    BY <1>3, <2>1, FlattenUnfolds
<1>5. CASE n = 0
  <2>1. seqs = <<>>
    BY <1>2, <1>5
  <2>2. FlattenSeq(more) = x
    BY <1>3, <1>4, <1>5
  <2>3. <<>> \o x = x
    BY ConcatEmptySeq
  <2>4. FlattenSeq(seqs) = <<>> /\ <<>> \in Seq(V)
    BY <1>1, <2>1
  <2>5. FlattenSeq(Append(seqs, x)) = x
    BY <2>2 DEF more
  <2> QED
    BY <1>1, <2>3, <2>4, <2>5, Zenon
<1>6. CASE n # 0
  <2>1. PICK f : /\ f \in [1 .. n -> Seq(V)]
                 /\ f[1] = seqs[1]
                 /\ \A i \in 2 .. n : f[i] = f[i - 1] \o seqs[i]
                 /\ FlattenSeq(seqs) = f[n]
    <3>1. n > 0
      BY <1>3, <1>6
    <3> QED
      BY <1>2, <3>1, FlattenUnfolds
  <2> DEFINE S == {m \in Nat : m + 1 \in 1 .. n => g[m + 1] = f[m + 1]}
  <2>2. 0 \in S
    BY <1>3, <1>4, <2>1
  <2>3. ASSUME NEW m \in Nat, m \in S  PROVE m + 1 \in S
    <3> SUFFICES ASSUME (m + 1) + 1 \in 1 .. n  PROVE g[(m + 1) + 1] = f[(m + 1) + 1]
      OBVIOUS
    <3>1. /\ m + 1 \in 1 .. n /\ (m + 1) + 1 \in 2 .. n /\ ((m + 1) + 1) - 1 = m + 1
          /\ (m + 1) + 1 \in 2 .. Len(more)
      BY <1>3
    <3>2. g[(m + 1) + 1] = g[m + 1] \o more[(m + 1) + 1]
      BY <1>4, <3>1
    <3>3. f[(m + 1) + 1] = f[m + 1] \o seqs[(m + 1) + 1]
      BY <2>1, <3>1
    <3>4. g[m + 1] = f[m + 1]
      BY <2>3, <3>1
    <3>5. more[(m + 1) + 1] = seqs[(m + 1) + 1]
      BY <1>3
    <3> QED
      BY <3>2, <3>3, <3>4, <3>5
  <2>4. Nat \subseteq S
    <3> HIDE DEF S
    <3> QED
      BY <2>2, <2>3, SetInduction
  <2>5. n - 1 \in Nat /\ (n - 1) + 1 = n /\ n \in 1 .. n /\ n + 1 \in 2 .. Len(more)
        /\ (n + 1) - 1 = n
    BY <1>3, <1>6
  <2>6. g[n] = f[n]
    BY <2>4, <2>5
  <2>7. g[n + 1] = g[n] \o x
    BY <1>3, <1>4, <2>5
  <2> QED
    BY <1>1, <1>3, <1>4, <2>1, <2>5, <2>6, <2>7 DEF more
<1> QED
  BY <1>5, <1>6

(* What F gives for each element of a sequence, in turn. *)
FlatMap(F, s) == FlattenSeq([i \in DOMAIN s |-> F[s[i]]])

(* The recursion of FlatMap on its sequence; what it makes of a             *)
(* concatenation; and of the result of another FlatMap.                     *)
PieceByPiece(C, V, F) ==
  /\ FlatMap(F, <<>>) = <<>>
  /\ \A s \in Seq(C) : FlatMap(F, s) \in Seq(V)
  /\ \A s \in Seq(C) : \A e \in C : FlatMap(F, Append(s, e)) = FlatMap(F, s) \o F[e]

Distributes(C, V, F) ==
  \A a, b \in Seq(C) : FlatMap(F, a \o b) = FlatMap(F, a) \o FlatMap(F, b)

Composes(C, V, H) ==
  \A D : \A G \in [D -> Seq(C)], K \in [D -> Seq(V)] :
    (\A d \in D : K[d] = FlatMap(H, G[d])) =>
      \A s \in Seq(D) : FlatMap(K, s) = FlatMap(H, FlatMap(G, s))

(* FlatMap by recursion on its sequence. *)
LEMMA FlatMapUnfolds ==
  ASSUME NEW C, NEW V, NEW F \in [C -> Seq(V)]
  PROVE  PieceByPiece(C, V, F)
<1> DEFINE W == Seq(V)
           L(s) == [i \in DOMAIN s |-> F[s[i]]]
<1>1. ASSUME NEW s \in Seq(C)  PROVE L(s) \in Seq(W) /\ Len(L(s)) = Len(s)
  <2>1. \A i \in 1 .. Len(s) : s[i] \in C
    OBVIOUS
  <2>2. \A i \in 1 .. Len(s) : F[s[i]] \in W
    BY <2>1
  <2> HIDE DEF W
  <2>3. L(s) \in [1 .. Len(s) -> W]
    BY <2>2
  <2>4. \A n \in Nat : \A l \in [1 .. n -> W] : l \in Seq(W) /\ Len(l) = n
    OBVIOUS
  <2>5. Len(s) \in Nat
    OBVIOUS
  <2> HIDE DEF L
  <2> QED
    BY <2>3, <2>4, <2>5, Zenon
<1>2. ASSUME NEW s \in Seq(C), NEW e \in C  PROVE L(Append(s, e)) = Append(L(s), F[e])
  <2> DEFINE t == Append(s, e)
             u == Append(L(s), F[e])
  <2>1. t \in Seq(C) /\ Len(t) = Len(s) + 1 /\ Len(s) \in Nat /\ t[Len(s) + 1] = e
        /\ \A i \in 1 .. Len(s) : t[i] = s[i]
    BY AppendProperties
  <2>2. L(s) \in Seq(W) /\ Len(L(s)) = Len(s) /\ L(t) \in Seq(W) /\ Len(L(t)) = Len(s) + 1
    <3> HIDE DEF t, L, W
    <3> QED
      BY <1>1, <2>1
  <2>3. F[e] \in W
    OBVIOUS
  <2>4. u \in Seq(W) /\ Len(u) = Len(s) + 1 /\ u[Len(s) + 1] = F[e]
        /\ \A i \in 1 .. Len(s) : u[i] = L(s)[i]
    <3> HIDE DEF L, W
    <3> QED
      BY <2>2, <2>3, AppendProperties
  <2>5. ASSUME NEW i \in 1 .. (Len(s) + 1)  PROVE L(t)[i] = u[i]
    <3>1. L(t)[i] = F[t[i]]
      <4> HIDE DEF t
      <4> QED
        BY <2>1
    <3>2. CASE i = Len(s) + 1
      BY <2>1, <2>4, <3>1, <3>2
    <3>3. CASE i # Len(s) + 1
      <4>1. i \in 1 .. Len(s)
        BY <2>1, <3>3
      <4>2. L(s)[i] = F[s[i]]
        BY <4>1
      <4> HIDE DEF t, u, L
      <4> QED
        BY <2>1, <2>4, <3>1, <4>1, <4>2
    <3> QED
      BY <3>2, <3>3
  <2> HIDE DEF t, u, L, W
  <2>6. L(t) = u
    BY <2>2, <2>4, <2>5, SeqEqual
  <2> QED
    BY <2>6 DEF t, u
<1>3. FlatMap(F, <<>>) = <<>>
  <2>1. [i \in DOMAIN <<>> |-> F[<<>>[i]]] = <<>>
    OBVIOUS
  <2> QED
    BY <2>1 DEF FlatMap, FlattenSeq
<1>4. \A s \in Seq(C) : FlatMap(F, s) = FlattenSeq(L(s))
  BY DEF FlatMap
<1>5. ASSUME NEW s \in Seq(C)  PROVE FlatMap(F, s) \in Seq(V)
  <2> HIDE DEF L
  <2>1. L(s) \in Seq(Seq(V))
    BY <1>1
  <2>2. <<>> \in Seq(V)
    OBVIOUS
  <2> QED
    BY <1>4, <2>1, <2>2, FlattenAppend
<1>6. ASSUME NEW s \in Seq(C), NEW e \in C
      PROVE  FlatMap(F, Append(s, e)) = FlatMap(F, s) \o F[e]
  <2> HIDE DEF L
  <2>1. Append(s, e) \in Seq(C)
    BY AppendProperties
  <2>2. L(s) \in Seq(Seq(V)) /\ F[e] \in Seq(V)
    BY <1>1
  <2>3. FlattenSeq(Append(L(s), F[e])) = FlattenSeq(L(s)) \o F[e]
    BY <2>2, FlattenAppend
  <2>4. FlatMap(F, Append(s, e)) = FlattenSeq(L(Append(s, e)))
    BY <1>4, <2>1
  <2> QED
    BY <1>2, <1>4, <2>3, <2>4
<1> QED
  BY <1>3, <1>5, <1>6 DEF PieceByPiece

(* What associativity says of concatenation. *)
Associative(V) == \A x, y, z \in Seq(V) : (x \o y) \o z = x \o (y \o z)

(* So it is for the sequences over any set. *)
LEMMA ConcatsAssociate == ASSUME NEW V  PROVE Associative(V)
BY ConcatAssociative DEF Associative

(* FlatMap of a concatenation. *)
LEMMA FlatMapConcat ==
  ASSUME NEW C, NEW V, NEW F \in [C -> Seq(V)]
  PROVE  Distributes(C, V, F)
<1>0. Associative(V)
  BY ConcatsAssociate
<1>5. Associative(C)
  BY ConcatsAssociate
<1> SUFFICES ASSUME NEW a \in Seq(C), NEW b \in Seq(C)
             PROVE  FlatMap(F, a \o b) = FlatMap(F, a) \o FlatMap(F, b)
  BY DEF Distributes
<1> DEFINE S == {t \in Seq(C) : FlatMap(F, a \o t) = FlatMap(F, a) \o FlatMap(F, t)}
<1>1. /\ FlatMap(F, <<>>) = <<>>
      /\ \A s \in Seq(C) : FlatMap(F, s) \in Seq(V)
      /\ \A s \in Seq(C) : \A e \in C : FlatMap(F, Append(s, e)) = FlatMap(F, s) \o F[e]
  <2>0. PieceByPiece(C, V, F)
    BY FlatMapUnfolds
  <2> QED
    BY <2>0 DEF PieceByPiece
<1>2. <<>> \in S
  <2>1. a \o <<>> = a /\ FlatMap(F, a) \o <<>> = FlatMap(F, a)
    BY <1>1, ConcatEmptySeq
  <2>2. <<>> \in Seq(C)
    OBVIOUS
  <2> QED
    BY <1>1, <2>1, <2>2, Zenon
<1>3. ASSUME NEW t \in Seq(C), NEW e \in C, t \in S  PROVE Append(t, e) \in S
  <2>1. a \o t \in Seq(C) /\ Append(t, e) \in Seq(C) /\ F[e] \in Seq(V) /\ <<e>> \in Seq(C)
    BY ConcatProperties, AppendProperties
  <2>2. a \o Append(t, e) = Append(a \o t, e)
    <3>1. Append(t, e) = t \o <<e>> /\ Append(a \o t, e) = (a \o t) \o <<e>>
      <4>1. Append(t, e) = t \o <<e>>
        BY AppendIsConcat
      <4>2. Append(a \o t, e) = (a \o t) \o <<e>>
        BY <2>1, AppendIsConcat
      <4> QED
        BY <4>1, <4>2
    <3>2. (a \o t) \o <<e>> = a \o (t \o <<e>>)
      <4>1. \A w \in Seq(C) : (a \o t) \o w = a \o (t \o w)
        BY <1>5, Zenon DEF Associative
      <4> QED
        BY <2>1, <4>1
    <3> QED
      BY <3>1, <3>2
  <2>3. FlatMap(F, Append(a \o t, e)) = FlatMap(F, a \o t) \o F[e]
    BY <1>1, <2>1, Zenon
  <2>4. FlatMap(F, a \o t) = FlatMap(F, a) \o FlatMap(F, t)
    BY <1>3
  <2>5. (FlatMap(F, a) \o FlatMap(F, t)) \o F[e] = FlatMap(F, a) \o (FlatMap(F, t) \o F[e])
    <3>1. FlatMap(F, a) \in Seq(V) /\ FlatMap(F, t) \in Seq(V)
      BY <1>1
    <3>2. F[e] \in Seq(V)
      BY <2>1
    <3> QED
      BY <1>0, <3>1, <3>2, Zenon DEF Associative
  <2>6. FlatMap(F, Append(t, e)) = FlatMap(F, t) \o F[e]
    BY <1>1, Zenon
  <2>7. FlatMap(F, a \o Append(t, e)) = FlatMap(F, a) \o FlatMap(F, Append(t, e))
    BY <2>2, <2>3, <2>4, <2>5, <2>6, Zenon
  <2> QED
    BY <2>1, <2>7
<1>4. Seq(C) \subseteq S
  <2> HIDE DEF S
  <2> QED
    BY <1>2, <1>3, SequenceInduction
<1> QED
  BY <1>4

(* One FlatMap after another is a FlatMap. *)
LEMMA FlatMapCompose ==
  ASSUME NEW C, NEW V, NEW H \in [C -> Seq(V)]
  PROVE  Composes(C, V, H)
<1>0. \A x, y \in Seq(C) : FlatMap(H, x \o y) = FlatMap(H, x) \o FlatMap(H, y)
  <2>1. Distributes(C, V, H)
    BY FlatMapConcat
  <2> QED
    BY <2>1 DEF Distributes
<1> SUFFICES ASSUME NEW D, NEW G \in [D -> Seq(C)], NEW K \in [D -> Seq(V)],
                    \A d \in D : K[d] = FlatMap(H, G[d])
             PROVE  \A s \in Seq(D) : FlatMap(K, s) = FlatMap(H, FlatMap(G, s))
  BY DEF Composes
<1> DEFINE S == {t \in Seq(D) : FlatMap(K, t) = FlatMap(H, FlatMap(G, t))}
<1>1. /\ FlatMap(K, <<>>) = <<>> /\ FlatMap(G, <<>>) = <<>> /\ FlatMap(H, <<>>) = <<>>
      /\ \A t \in Seq(D) : FlatMap(G, t) \in Seq(C)
      /\ \A t \in Seq(D) : \A e \in D : FlatMap(K, Append(t, e)) = FlatMap(K, t) \o K[e]
      /\ \A t \in Seq(D) : \A e \in D : FlatMap(G, Append(t, e)) = FlatMap(G, t) \o G[e]
  <2>1. PieceByPiece(D, V, K) /\ PieceByPiece(D, C, G) /\ PieceByPiece(C, V, H)
    BY FlatMapUnfolds
  <2> QED
    BY <2>1 DEF PieceByPiece
<1>2. <<>> \in S
  <2>1. <<>> \in Seq(D)
    OBVIOUS
  <2> QED
    BY <1>1, <2>1, Zenon
<1>3. ASSUME NEW t \in Seq(D), NEW e \in D, t \in S  PROVE Append(t, e) \in S
  <2>1. FlatMap(G, t) \in Seq(C) /\ G[e] \in Seq(C) /\ Append(t, e) \in Seq(D)
    BY <1>1, AppendProperties
  <2>2. FlatMap(H, FlatMap(G, t) \o G[e]) = FlatMap(H, FlatMap(G, t)) \o FlatMap(H, G[e])
    BY <1>0, <2>1, Zenon
  <2>3. FlatMap(K, t) = FlatMap(H, FlatMap(G, t)) /\ K[e] = FlatMap(H, G[e])
    BY <1>3
  <2>4. FlatMap(K, Append(t, e)) = FlatMap(H, FlatMap(G, Append(t, e)))
    BY <1>1, <2>2, <2>3, Zenon
  <2> QED
    BY <2>1, <2>4
<1>4. Seq(D) \subseteq S
  <2> HIDE DEF S
  <2> QED
    BY <1>2, <1>3, SequenceInduction
<1> QED
  BY <1>4

(* What the empty sequence and every F[c] have, and a concatenation has when *)
(* both of its parts have it, a FlatMap has.                                 *)
LEMMA FlatMapClosed ==
  ASSUME NEW C, NEW V, NEW T \in SUBSET Seq(V), <<>> \in T, \A u, v \in T : u \o v \in T,
         NEW F \in [C -> T]
  PROVE  \A s \in Seq(C) : FlatMap(F, s) \in T
<1> DEFINE S == {t \in Seq(C) : FlatMap(F, t) \in T}
<1>0. F \in [C -> Seq(V)]
  OBVIOUS
<1>1. /\ FlatMap(F, <<>>) = <<>>
      /\ \A t \in Seq(C) : \A e \in C : FlatMap(F, Append(t, e)) = FlatMap(F, t) \o F[e]
  <2>1. PieceByPiece(C, V, F)
    BY <1>0, FlatMapUnfolds
  <2> QED
    BY <2>1 DEF PieceByPiece
<1>2. <<>> \in S
  <2>1. <<>> \in Seq(C)
    OBVIOUS
  <2> QED
    BY <1>1, <2>1, Zenon
<1>3. ASSUME NEW t \in Seq(C), NEW e \in C, t \in S  PROVE Append(t, e) \in S
  <2>1. FlatMap(F, t) \in T /\ F[e] \in T /\ Append(t, e) \in Seq(C)
    BY <1>3, AppendProperties
  <2>2. FlatMap(F, Append(t, e)) \in T
    BY <1>1, <2>1, Zenon
  <2> QED
    BY <2>1, <2>2
<1>4. Seq(C) \subseteq S
  <2> HIDE DEF S
  <2> QED
    BY <1>2, <1>3, SequenceInduction
<1> QED
  BY <1>4

=============================================================================
