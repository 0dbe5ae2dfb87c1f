-------------------------- MODULE MultibootProofs ---------------------------
(***************************************************************************)
(* Theorems about Multiboot, for every information that follows the        *)
(* format: any number of tags of any sizes, memory maps of any number of   *)
(* regions, of any size too.                                               *)
(***************************************************************************)
EXTENDS Multiboot, Induction, SequenceTheorems, FiniteSetTheorems

Increasing(s) == \A i, j \in 1 .. Len(s) : i < j => s[i] < s[j]

(* The regions of the maps in the first k tags. *)
RegionsUpTo(k) == UNION {RegionsOf(i) : i \in 1 .. k}

(* The first r regions of the map in tag k. *)
FirstRegions(k, r) ==
  {Offset(info)[k] + MapHeader + j * info[k].entry_size : j \in 0 .. (r - 1)}

PrintedRegions == {printed[i] : i \in 1 .. Len(printed)}

(* The loop's head: as many tags as there were iterations are behind it,    *)
(* with all of their regions, and it is at the next one.                    *)
AtTag ==
  pc = "tag" =>
    /\ \E k \in 0 .. Len(info) :
         /\ Len(visited) = k
         /\ tag = Offset(info)[k + 1]
         /\ PrintedRegions = RegionsUpTo(k)
    /\ \A i \in 1 .. Len(printed) : printed[i] < tag

(* The inner loop's head: so many regions of this map are behind it. *)
AtRegion ==
  pc = "region" =>
    /\ \E k \in 1 .. Len(info) :
         /\ Len(visited) = k
         /\ tag = Offset(info)[k]
         /\ info[k].type = "MMAP"
         /\ \E r \in 0 .. info[k].regions :
              /\ mmap = tag + MapHeader + r * info[k].entry_size
              /\ PrintedRegions = RegionsUpTo(k - 1) \cup FirstRegions(k, r)
    /\ \A i \in 1 .. Len(printed) : printed[i] < mmap

AtEnd ==
  pc = "returned" /\ Accepts =>
    /\ Len(visited) = Len(info)
    /\ PrintedRegions = RegionsUpTo(Len(info))
    /\ total = InfoSize(info)

(* What is printed goes up in memory, so nothing is printed twice. *)
HistoryInv ==
  /\ \A i \in 1 .. Len(visited) : visited[i] = Offset(info)[i]
  /\ Increasing(printed)
  /\ pc = "called" => visited = <<>> /\ printed = <<>>

WalkInv ==
  /\ TypeOK
  /\ HistoryInv
  /\ AtTag
  /\ AtRegion
  /\ AtEnd

(* Padding: the least multiple of eight that the size fits into, and what   *)
(* (size + 7) & ~7 computes.                                                *)
LEMMA PaddedFacts ==
  ASSUME NEW size \in Nat
  PROVE  /\ Padded(size) \in Nat
         /\ Padded(size) >= size
         /\ RoundUp(size) = Padded(size)
BY DEF Padded, RoundUp

(* The sizes in a sequence of tags are numbers. *)
LEMMA TagFacts ==
  ASSUME NEW tags \in Seq(Tag), NEW i \in 1 .. Len(tags)
  PROVE  /\ tags[i].size \in Nat /\ tags[i].entry_size \in Nat /\ tags[i].regions \in Nat
         /\ Padded(tags[i].size) \in Nat
         /\ Padded(tags[i].size) >= tags[i].size
<1>1. tags[i] \in Tag
  BY ElementOfSeq
<1>2. tags[i].size \in Nat /\ tags[i].entry_size \in Nat /\ tags[i].regions \in Nat
  BY <1>1 DEF Tag
<1> QED
  BY <1>2, PaddedFacts

(* The tags follow each other. *)
LEMMA OffsetFacts ==
  ASSUME NEW tags \in Seq(Tag)
  PROVE  /\ Offset(tags) \in [1 .. (Len(tags) + 1) -> Nat]
         /\ Offset(tags)[1] = 8
         /\ \A i \in 1 .. Len(tags) :
              Offset(tags)[i + 1] = Offset(tags)[i] + Padded(tags[i].size)
<1> DEFINE n == Len(tags)
           Equation(g) == g = [i \in 1 .. (n + 1) |->
                                 IF i = 1 THEN 8 ELSE g[i - 1] + Padded(tags[i - 1].size)]
           F == [p \in Nat \X Nat |->
                   IF p[2] \in 1 .. n THEN p[1] + Padded(tags[p[2]].size) ELSE p[1]]
<1>1. n \in Nat /\ \A i \in 1 .. n : Padded(tags[i].size) \in Nat
  BY TagFacts
<1>2. F \in [Nat \X Nat -> Nat]
  BY <1>1
<1>3. PICK f : Unfolds(f, Nat, 8, F, n)
  <2>1. 8 \in Nat
    OBVIOUS
  <2> HIDE DEF F, n
  <2> QED
    BY <1>1, <1>2, <2>1, RecursiveSequence
<1>4. \A k \in 1 .. n : f[k] = f[k - 1] + Padded(tags[k].size)
  <2> TAKE k \in 1 .. n
  <2>1. k - 1 \in 0 .. n /\ k \in Nat
    BY <1>1
  <2>3. f[k - 1] \in Nat /\ <<f[k - 1], k>> \in Nat \X Nat
    BY <1>3, <2>1 DEF Unfolds
  <2>2. F[<<f[k - 1], k>>] = f[k - 1] + Padded(tags[k].size)
    BY <1>1, <2>3
  <2> QED
    BY <1>3, <2>2 DEF Unfolds
<1> DEFINE g == [i \in 1 .. (n + 1) |-> f[i - 1]]
<1>5. Equation(g)
  <2>1. ASSUME NEW i \in 1 .. (n + 1)
        PROVE  g[i] = IF i = 1 THEN 8 ELSE g[i - 1] + Padded(tags[i - 1].size)
    <3>1. CASE i = 1
      BY <1>3, <3>1 DEF Unfolds
    <3>2. CASE i # 1
      <4>1. i - 1 \in 1 .. n /\ i - 1 \in 1 .. (n + 1)
        BY <1>1, <3>2
      <4>2. g[i] = f[i - 1] /\ g[i - 1] = f[(i - 1) - 1]
        BY <4>1
      <4> QED
        BY <1>4, <3>2, <4>1, <4>2
    <3> QED
      BY <3>1, <3>2
  <2> QED
    BY <2>1
<1>6. Offset(tags) = CHOOSE h : Equation(h)
  BY DEF Offset
<1>7. Equation(Offset(tags))
  <2> HIDE DEF Equation, g
  <2> QED
    BY <1>5, <1>6, Zenon
<1> DEFINE O == Offset(tags)
<1>8. O = [i \in 1 .. (n + 1) |-> IF i = 1 THEN 8 ELSE O[i - 1] + Padded(tags[i - 1].size)]
  BY <1>7
<1> HIDE DEF O, g, F
<1>9. O[1] = 8 /\ DOMAIN O = 1 .. (n + 1)
  BY <1>1, <1>8
<1>10. \A i \in 1 .. n : O[i + 1] = O[i] + Padded(tags[i].size)
  <2> TAKE i \in 1 .. n
  <2>1. i + 1 \in 1 .. (n + 1) /\ i + 1 # 1 /\ (i + 1) - 1 = i
    BY <1>1
  <2> QED
    BY <1>8, <2>1
<1> DEFINE S == {m \in Nat : m + 1 \in 1 .. (n + 1) => O[m + 1] \in Nat}
<1>11. 0 \in S
  BY <1>9
<1>12. ASSUME NEW m \in Nat, m \in S  PROVE m + 1 \in S
  <2> SUFFICES ASSUME (m + 1) + 1 \in 1 .. (n + 1)  PROVE O[(m + 1) + 1] \in Nat
    OBVIOUS
  <2>1. m + 1 \in 1 .. n /\ m + 1 \in 1 .. (n + 1)
    BY <1>1
  <2>2. O[m + 1] \in Nat
    BY <2>1, <1>12
  <2> QED
    BY <1>1, <1>10, <2>1, <2>2
<1>13. Nat \subseteq S
  <2> HIDE DEF S
  <2> QED
    BY <1>11, <1>12, SetInduction
<1>14. \A i \in 1 .. (n + 1) : O[i] \in Nat
  <2> TAKE i \in 1 .. (n + 1)
  <2>1. i - 1 \in Nat /\ (i - 1) + 1 = i
    BY <1>1
  <2> QED
    BY <1>13, <2>1
<1>15. O \in [1 .. (n + 1) -> Nat]
  BY <1>8, <1>14
<1> QED
  BY <1>9, <1>10, <1>15 DEF O

(* A later tag starts after the bytes of an earlier one. *)
LEMMA OffsetGrows ==
  ASSUME NEW tags \in Seq(Tag), NEW i \in 1 .. Len(tags), NEW j \in 1 .. (Len(tags) + 1),
         i < j
  PROVE  Offset(tags)[i] + Padded(tags[i].size) <= Offset(tags)[j]
<1> DEFINE O == Offset(tags)
           n == Len(tags)
           next == O[i] + Padded(tags[i].size)
           S == {m \in Nat : i + 1 + m \in 1 .. (n + 1) => next <= O[i + 1 + m]}
<1>1. /\ O \in [1 .. (n + 1) -> Nat]
      /\ \A k \in 1 .. n : O[k + 1] = O[k] + Padded(tags[k].size)
  BY OffsetFacts
<1>2. n \in Nat /\ \A k \in 1 .. n : Padded(tags[k].size) \in Nat
  BY TagFacts
<1> HIDE DEF O, n
<1>3. i \in 1 .. n /\ j \in 1 .. (n + 1)
  BY DEF n
<1>4. next \in Nat /\ O[i + 1] = next
  BY <1>1, <1>2, <1>3
<1> HIDE DEF next
<1>5. 0 \in S
  BY <1>2, <1>3, <1>4
<1>6. ASSUME NEW m \in Nat, m \in S  PROVE m + 1 \in S
  <2> SUFFICES ASSUME i + 1 + (m + 1) \in 1 .. (n + 1)  PROVE next <= O[i + 1 + (m + 1)]
    OBVIOUS
  <2>1. /\ i + 1 + m \in 1 .. n /\ i + 1 + m \in 1 .. (n + 1)
        /\ i + 1 + (m + 1) = (i + 1 + m) + 1
    BY <1>2, <1>3
  <2>2. next <= O[i + 1 + m] /\ O[i + 1 + m] \in Nat
    BY <2>1, <1>1, <1>6
  <2>3. O[(i + 1 + m) + 1] = O[i + 1 + m] + Padded(tags[i + 1 + m].size)
    BY <2>1, <1>1
  <2> QED
    BY <1>2, <1>4, <2>1, <2>2, <2>3
<1>7. Nat \subseteq S
  <2> HIDE DEF S
  <2> QED
    BY <1>5, <1>6, SetInduction
<1>8. j - i - 1 \in Nat /\ i + 1 + (j - i - 1) = j
  BY <1>2, <1>3
<1> QED
  BY <1>3, <1>7, <1>8 DEF O, next

(* What the walk finds in the loader's memory. *)
LEMMA InfoFacts ==
  ASSUME info \in Infos
  PROVE  LET n == Len(info)
             O == Offset(info)
         IN  /\ info \in Seq(Tag) /\ n \in Nat /\ DOMAIN info = 1 .. n
             /\ \A k \in 1 .. (n + 1) : O[k] \in Nat /\ O[k] >= 8 /\ O[k] <= O[n + 1]
             /\ \A k \in 1 .. n : O[k + 1] = O[k] + RoundUp(info[k].size)
             /\ \A k \in 1 .. n : /\ info[k].size \in Nat /\ info[k].size >= 8
                                  /\ O[k] + info[k].size <= O[k + 1]
             /\ \A i, j \in 1 .. (n + 1) : O[i] = O[j] => i = j
             /\ InfoSize(info) = O[n + 1] + 8
<1> DEFINE n == Len(info)
           O == Offset(info)
<1>1. info \in Seq(Tag) /\ n \in Nat /\ DOMAIN info = 1 .. n
  BY MultibootAssumption
<1>2. /\ O \in [1 .. (n + 1) -> Nat] /\ O[1] = 8
      /\ \A k \in 1 .. n : O[k + 1] = O[k] + Padded(info[k].size)
  BY <1>1, OffsetFacts
<1>3. \A k \in 1 .. n : /\ info[k].size \in Nat /\ info[k].size >= 8
                        /\ Padded(info[k].size) \in Nat
                        /\ Padded(info[k].size) >= info[k].size
                        /\ RoundUp(info[k].size) = Padded(info[k].size)
  BY <1>1, TagFacts, PaddedFacts, MultibootAssumption
<1>4. \A i \in 1 .. n : \A j \in 1 .. (n + 1) : i < j => O[i] + Padded(info[i].size) <= O[j]
  BY <1>1, OffsetGrows
<1>5. InfoSize(info) = O[n + 1] + 8
  BY DEF InfoSize, EndTag
<1> HIDE DEF O, n
<1>6. \A i, j \in 1 .. (n + 1) : i < j => O[i] < O[j]
  <2> SUFFICES ASSUME NEW i \in 1 .. (n + 1), NEW j \in 1 .. (n + 1), i < j
               PROVE  O[i] < O[j]
    OBVIOUS
  <2>1. i \in 1 .. n /\ O[i] \in Nat /\ O[j] \in Nat
    BY <1>1, <1>2
  <2> QED
    BY <2>1, <1>3, <1>4
<1>7. \A k \in 1 .. (n + 1) : O[k] \in Nat /\ O[k] >= 8 /\ O[k] <= O[n + 1]
  <2> TAKE k \in 1 .. (n + 1)
  <2>1. O[k] \in Nat /\ O[1] \in Nat /\ O[n + 1] \in Nat /\ 1 \in 1 .. (n + 1)
        /\ n + 1 \in 1 .. (n + 1)
    BY <1>1, <1>2
  <2>2. k = 1 \/ O[1] < O[k]
    BY <1>1, <1>6, <2>1
  <2>3. k = n + 1 \/ O[k] < O[n + 1]
    BY <1>1, <1>6, <2>1
  <2> QED
    BY <1>2, <2>1, <2>2, <2>3
<1>8. \A i, j \in 1 .. (n + 1) : O[i] = O[j] => i = j
  <2> SUFFICES ASSUME NEW i \in 1 .. (n + 1), NEW j \in 1 .. (n + 1), O[i] = O[j], i # j
               PROVE  FALSE
    OBVIOUS
  <2>1. i < j \/ j < i
    BY <1>1
  <2> QED
    BY <1>6, <1>7, <2>1
<1>9. \A k \in 1 .. n : O[k] + info[k].size <= O[k + 1]
  <2> TAKE k \in 1 .. n
  <2>1. O[k] \in Nat
    BY <1>1, <1>7
  <2> QED
    BY <1>2, <1>3, <2>1
<1> QED
  BY <1>1, <1>2, <1>3, <1>5, <1>7, <1>8, <1>9 DEF O, n

(* At a tag's start the walk reads that tag. *)
LEMMA TagAtTag ==
  ASSUME info \in Infos, NEW k \in 1 .. Len(info)
  PROVE  TagAt(Offset(info)[k]) = info[k]
<1>1. /\ DOMAIN info = 1 .. Len(info) /\ Len(info) \in Nat
      /\ \A i, j \in 1 .. (Len(info) + 1) : Offset(info)[i] = Offset(info)[j] => i = j
  BY InfoFacts
<1>2. \E i \in DOMAIN info : Offset(info)[i] = Offset(info)[k]
  BY <1>1
<1>3. \A i \in DOMAIN info : Offset(info)[i] = Offset(info)[k] => i = k
  BY <1>1
<1>4. (CHOOSE i \in DOMAIN info : Offset(info)[i] = Offset(info)[k]) = k
  BY <1>2, <1>3, Zenon
<1> QED
  BY <1>2, <1>4 DEF TagAt

(* Behind the last tag it reads the END tag. *)
LEMMA TagAtEnd ==
  ASSUME info \in Infos
  PROVE  TagAt(Offset(info)[Len(info) + 1]) = EndTag
<1>1. /\ DOMAIN info = 1 .. Len(info) /\ Len(info) \in Nat
      /\ \A i, j \in 1 .. (Len(info) + 1) : Offset(info)[i] = Offset(info)[j] => i = j
  BY InfoFacts
<1>2. ~ \E i \in DOMAIN info : Offset(info)[i] = Offset(info)[Len(info) + 1]
  BY <1>1
<1>3. Offset(info)[Len(info) + 1] \in TagStarts
  BY <1>1 DEF TagStarts
<1> QED
  BY <1>2, <1>3 DEF TagAt

(* A memory map is as long as its regions. *)
LEMMA MapFacts ==
  ASSUME info \in Infos, NEW k \in 1 .. Len(info), info[k].type = "MMAP"
  PROVE  /\ info[k].entry_size \in Nat \ {0} /\ info[k].regions \in Nat
         /\ info[k].size = MapHeader + info[k].entry_size * info[k].regions
         /\ RegionsOf(k) = FirstRegions(k, info[k].regions)
<1>1. info[k].entry_size \in Nat /\ info[k].regions \in Nat
  BY TagFacts, MultibootAssumption
<1>2. info[k].entry_size >= 1
      /\ info[k].size = MapHeader + info[k].entry_size * info[k].regions
  BY MultibootAssumption, InfoFacts
<1> QED
  BY <1>1, <1>2 DEF RegionsOf, FirstRegions

(* The regions up to a tag are those before it and its own. *)
LEMMA RegionsStep ==
  ASSUME NEW k \in Nat
  PROVE  /\ RegionsUpTo(k + 1) = RegionsUpTo(k) \cup RegionsOf(k + 1)
         /\ RegionsUpTo(0) = {}
<1>1. 1 .. (k + 1) = (1 .. k) \cup {k + 1}
  OBVIOUS
<1>2. 1 .. 0 = {}
  OBVIOUS
<1> QED
  BY <1>1, <1>2, Zenon DEF RegionsUpTo

(* Multiples of a region's size are in the order of their factors. *)
LEMMA Multiples ==
  ASSUME NEW e \in Nat \ {0}, NEW a \in Nat, NEW b \in Nat
  PROVE  /\ a * e \in Nat
         /\ (a + 1) * e = a * e + e
         /\ a * e < e * b <=> a < b
<1>1. a * e \in Nat /\ e * b \in Nat /\ (a + 1) * e = a * e + e /\ e * b = b * e
  OBVIOUS
<1>2. ASSUME NEW x \in Nat, NEW y \in Nat, x < y  PROVE x * e < y * e
  <2> DEFINE d == y - x
  <2>1. d \in Nat /\ d >= 1 /\ y = x + d
    BY <1>2
  <2> HIDE DEF d
  <2>2. y * e = x * e + d * e
    BY <2>1
  <2>3. d * e >= e
    BY <2>1
  <2>4. x * e \in Nat /\ y * e \in Nat /\ d * e \in Nat /\ e >= 1
    BY <2>1
  <2> QED
    BY <2>2, <2>3, <2>4
<1>3. a < b => a * e < b * e
  BY <1>2
<1>4. b < a => b * e < a * e
  BY <1>2
<1>5. a < b \/ a = b \/ b < a
  OBVIOUS
<1> QED
  BY <1>1, <1>3, <1>4, <1>5

(* A sequence that goes up goes on doing so with a greater element. *)
LEMMA IncreasingAppend ==
  ASSUME NEW s \in Seq(Nat), Increasing(s), NEW x \in Nat, \A i \in 1 .. Len(s) : s[i] < x
  PROVE  /\ Append(s, x) \in Seq(Nat) /\ Increasing(Append(s, x))
         /\ \A i \in 1 .. Len(Append(s, x)) : Append(s, x)[i] <= x
         /\ {Append(s, x)[i] : i \in 1 .. Len(Append(s, x))}
              = {s[i] : i \in 1 .. Len(s)} \cup {x}
<1> DEFINE t == Append(s, x)
<1>1. /\ t \in Seq(Nat) /\ Len(t) = Len(s) + 1 /\ Len(s) \in Nat
      /\ \A i \in 1 .. Len(s) : t[i] = s[i]
      /\ t[Len(s) + 1] = x
  BY AppendProperties
<1> HIDE DEF t
<1>2. \A i \in 1 .. Len(t) : i \in 1 .. Len(s) \/ i = Len(s) + 1
  BY <1>1
<1>3. \A i \in 1 .. Len(s) : s[i] \in Nat
  OBVIOUS
<1>4. ASSUME NEW i \in 1 .. Len(t), NEW j \in 1 .. Len(t), i < j  PROVE t[i] < t[j]
  <2>1. i \in 1 .. Len(s)
    BY <1>1, <1>4
  <2>2. CASE j \in 1 .. Len(s)
    BY <1>1, <1>4, <2>1, <2>2 DEF Increasing
  <2>3. CASE j = Len(s) + 1
    BY <1>1, <2>1, <2>3
  <2> QED
    BY <1>2, <2>2, <2>3
<1>5. \A i \in 1 .. Len(t) : t[i] <= x
  BY <1>1, <1>2, <1>3
<1>6. {t[i] : i \in 1 .. Len(t)} = {s[i] : i \in 1 .. Len(s)} \cup {x}
  <2>1. 1 .. Len(t) = (1 .. Len(s)) \cup {Len(s) + 1}
    BY <1>1
  <2>2. {t[i] : i \in 1 .. Len(s)} = {s[i] : i \in 1 .. Len(s)}
    BY <1>1
  <2>3. {t[i] : i \in 1 .. Len(t)} = {t[i] : i \in 1 .. Len(s)} \cup {t[Len(s) + 1]}
    BY <2>1
  <2> QED
    BY <1>1, <2>2, <2>3
<1> QED
  BY <1>1, <1>4, <1>5, <1>6 DEF t, Increasing

(* Where a tag is, and what the walk reads there. *)
LEMMA TagPlace ==
  ASSUME info \in Infos, NEW k \in 1 .. Len(info)
  PROVE  /\ Offset(info)[k] \in Nat /\ Offset(info)[k + 1] \in Nat
         /\ info[k].size \in Nat /\ info[k].size >= 8
         /\ Offset(info)[k + 1] = Offset(info)[k] + RoundUp(info[k].size)
         /\ Offset(info)[k] + info[k].size <= Offset(info)[k + 1]
         /\ Offset(info)[k + 1] <= InfoSize(info)
         /\ InfoSize(info) \in Nat
         /\ TagAt(Offset(info)[k]) = info[k]
<1> DEFINE n == Len(info)
           O == Offset(info)
<1>1. n \in Nat /\ InfoSize(info) = O[n + 1] + 8
  BY InfoFacts
<1>2. k + 1 \in 1 .. (n + 1) /\ k \in 1 .. (n + 1) /\ n + 1 \in 1 .. (n + 1)
  BY <1>1
<1>3. \A i \in 1 .. (n + 1) : O[i] \in Nat /\ O[i] <= O[n + 1]
  BY InfoFacts
<1>4. O[k] \in Nat /\ O[k + 1] \in Nat /\ O[k + 1] <= O[n + 1] /\ O[n + 1] \in Nat
  BY <1>2, <1>3
<1>5. /\ O[k + 1] = O[k] + RoundUp(info[k].size) /\ info[k].size \in Nat
      /\ info[k].size >= 8 /\ O[k] + info[k].size <= O[k + 1]
  BY InfoFacts
<1> QED
  BY <1>1, <1>4, <1>5, TagAtTag

(* The regions are the loader's: they change with the information only. *)
LEMMA SameRegions ==
  ASSUME info' = info
  PROVE  \A k, r : RegionsUpTo(k)' = RegionsUpTo(k) /\ FirstRegions(k, r)' = FirstRegions(k, r)
BY DEF RegionsUpTo, RegionsOf, FirstRegions

-----------------------------------------------------------------------------
(* The walk has not begun. *)
LEMMA InitWalkInv == Init => WalkInv
<1> SUFFICES ASSUME Init PROVE WalkInv
  OBVIOUS
<1>1. info \in Infos /\ addr \in Nat
  BY MultibootAssumption DEF Init
<1>2. InfoSize(info) \in Nat
  BY <1>1, InfoFacts
<1>3. TypeOK
  BY <1>1, <1>2 DEF Init, TypeOK
<1> QED
  BY <1>3 DEF Init, WalkInv, HistoryInv, AtTag, AtRegion, AtEnd, Increasing

(* Nothing of the boot loader's is written. *)
LEMMA RejectWalkInv == ASSUME WalkInv, Reject  PROVE WalkInv'
<1>1. TypeOK'
  BY DEF WalkInv, Reject, TypeOK
<1>2. HistoryInv'
  BY DEF WalkInv, Reject, HistoryInv
<1>3. ~Accepts'
  BY DEF Reject, Accepts
<1> QED
  BY <1>1, <1>2, <1>3 DEF WalkInv, Reject, AtTag, AtRegion, AtEnd

(* The walk begins at the first tag. *)
LEMMA BeginWalkInv == ASSUME WalkInv, Begin  PROVE WalkInv'
<1>1. /\ pc = "called" /\ pc' = "tag" /\ tag' = 8 /\ visited = <<>> /\ printed = <<>>
      /\ info \in Infos
      /\ UNCHANGED <<info, magic, mmap, visited, printed, total>>
  BY DEF WalkInv, Begin, HistoryInv, TypeOK
<1>2. Len(info) \in Nat /\ InfoSize(info) \in Nat /\ InfoSize(info) >= 8
      /\ Offset(info)[1] = 8
  BY <1>1, InfoFacts, OffsetFacts, MultibootAssumption
<1>3. addr' \in Nat
  BY MultibootAssumption DEF WalkInv, TypeOK, Begin
<1>4. TypeOK'
  BY <1>1, <1>2, <1>3 DEF WalkInv, TypeOK
<1>5. HistoryInv'
  BY <1>1 DEF HistoryInv, Increasing
<1>6. AtTag'
  BY <1>1, <1>2, RegionsStep DEF AtTag, PrintedRegions, RegionsUpTo, RegionsOf
<1> QED
  BY <1>1, <1>4, <1>5, <1>6 DEF WalkInv, AtRegion, AtEnd

(* At a tag that is not the last one the walk reads tag Len(visited) + 1. *)
LEMMA CurrentTag ==
  ASSUME WalkInv, pc = "tag", TagAt(tag).type # "END"
  PROVE  \E k \in 1 .. Len(info) :
           /\ Len(visited) = k - 1 /\ k - 1 \in Nat
           /\ tag = Offset(info)[k] /\ TagAt(tag) = info[k]
           /\ PrintedRegions = RegionsUpTo(k - 1)
<1>1. info \in Infos
  BY DEF WalkInv, TypeOK
<1>2. PICK j \in 0 .. Len(info) : Len(visited) = j /\ tag = Offset(info)[j + 1]
                                  /\ PrintedRegions = RegionsUpTo(j)
  BY DEF WalkInv, AtTag
<1>3. Len(info) \in Nat
  BY <1>1, InfoFacts
<1>4. j # Len(info)
  BY <1>1, <1>2, TagAtEnd DEF EndTag
<1>5. j + 1 \in 1 .. Len(info) /\ (j + 1) - 1 = j /\ j \in Nat
  BY <1>3, <1>4
<1>6. TagAt(tag) = info[j + 1]
  BY <1>1, <1>2, <1>5, TagAtTag
<1> QED
  BY <1>2, <1>5, <1>6

(* A visited tag is recorded at its offset. *)
LEMMA VisitTag ==
  ASSUME WalkInv, visited' = Append(visited, tag),
         tag = Offset(info)[Len(visited) + 1], tag \in Nat
  PROVE  /\ visited' \in Seq(Nat) /\ Len(visited') = Len(visited) + 1
         /\ \A i \in 1 .. Len(visited') : visited'[i] = Offset(info)[i]
<1>1. visited \in Seq(Nat) /\ \A i \in 1 .. Len(visited) : visited[i] = Offset(info)[i]
  BY DEF WalkInv, TypeOK, HistoryInv
<1>2. /\ visited' \in Seq(Nat) /\ Len(visited') = Len(visited) + 1 /\ Len(visited) \in Nat
      /\ \A i \in 1 .. Len(visited) : visited'[i] = visited[i]
      /\ visited'[Len(visited) + 1] = tag
  BY <1>1, AppendProperties
<1>3. \A i \in 1 .. Len(visited') : i \in 1 .. Len(visited) \/ i = Len(visited) + 1
  BY <1>2
<1> QED
  BY <1>1, <1>2, <1>3

(* A tag without regions. *)
LEMMA PlainTagWalkInv == ASSUME WalkInv, PlainTag  PROVE WalkInv'
<1>1. /\ pc = "tag" /\ pc' = "tag" /\ TagAt(tag).type = "OTHER"
      /\ visited' = Append(visited, tag) /\ tag' = tag + RoundUp(TagAt(tag).size)
      /\ UNCHANGED <<info, magic, addr, mmap, printed, total>>
  BY DEF PlainTag, NextTag
<1>2. PICK k \in 1 .. Len(info) :
        /\ Len(visited) = k - 1 /\ k - 1 \in Nat
        /\ tag = Offset(info)[k] /\ TagAt(tag) = info[k]
        /\ PrintedRegions = RegionsUpTo(k - 1)
  BY <1>1, CurrentTag
<1>3. info \in Infos /\ Len(info) \in Nat
  BY InfoFacts DEF WalkInv, TypeOK
<1>4. tag \in Nat /\ tag' = Offset(info)[k + 1] /\ tag' \in 0 .. InfoSize(info) /\ tag < tag'
  <2>1. /\ Offset(info)[k] \in Nat /\ Offset(info)[k + 1] \in Nat
        /\ info[k].size \in Nat /\ info[k].size >= 8
        /\ Offset(info)[k + 1] = Offset(info)[k] + RoundUp(info[k].size)
        /\ Offset(info)[k] + info[k].size <= Offset(info)[k + 1]
        /\ Offset(info)[k + 1] <= InfoSize(info)
        /\ InfoSize(info) \in Nat
    BY <1>3, TagPlace
  <2> QED
    BY <1>1, <1>2, <2>1
<1>5. /\ visited' \in Seq(Nat) /\ Len(visited') = k
      /\ \A i \in 1 .. Len(visited') : visited'[i] = Offset(info)[i]
  BY <1>1, <1>2, <1>4, VisitTag
<1>6. TypeOK'
  BY <1>1, <1>4, <1>5 DEF WalkInv, TypeOK
<1>7. HistoryInv'
  BY <1>1, <1>5 DEF WalkInv, HistoryInv
<1>8. RegionsUpTo(k) = RegionsUpTo(k - 1)
  <2>1. RegionsUpTo((k - 1) + 1) = RegionsUpTo(k - 1) \cup RegionsOf((k - 1) + 1)
    BY <1>2, RegionsStep
  <2>2. (k - 1) + 1 = k
    OBVIOUS
  <2>3. RegionsOf(k) = {}
    BY <1>1, <1>2 DEF RegionsOf
  <2> QED
    BY <2>1, <2>2, <2>3
<1>9. PrintedRegions' = RegionsUpTo(k)'
  BY <1>1, <1>2, <1>8, SameRegions DEF PrintedRegions
<1>10. \A i \in 1 .. Len(printed) : printed[i] < tag'
  <2>1. \A i \in 1 .. Len(printed) : printed[i] < tag /\ printed[i] \in Nat
    BY <1>1 DEF WalkInv, AtTag, TypeOK
  <2> QED
    BY <1>4, <2>1
<1>11. AtTag'
  <2>1. k \in 0 .. Len(info')
    BY <1>1, <1>3
  <2> QED
    BY <1>1, <1>4, <1>5, <1>9, <1>10, <2>1 DEF AtTag
<1> QED
  BY <1>1, <1>6, <1>7, <1>11 DEF WalkInv, AtRegion, AtEnd

(* A memory map: its regions come next. *)
LEMMA MemoryMapWalkInv == ASSUME WalkInv, MemoryMap  PROVE WalkInv'
<1>1. /\ pc = "tag" /\ pc' = "region" /\ TagAt(tag).type = "MMAP"
      /\ visited' = Append(visited, tag) /\ mmap' = tag + MapHeader
      /\ UNCHANGED <<info, magic, addr, tag, printed, total>>
  BY DEF MemoryMap
<1>2. PICK k \in 1 .. Len(info) :
        /\ Len(visited) = k - 1 /\ k - 1 \in Nat
        /\ tag = Offset(info)[k] /\ TagAt(tag) = info[k]
        /\ PrintedRegions = RegionsUpTo(k - 1)
  BY <1>1, CurrentTag
<1>3. info \in Infos /\ Len(info) \in Nat
  BY InfoFacts DEF WalkInv, TypeOK
<1>4. /\ info[k].entry_size \in Nat \ {0} /\ info[k].regions \in Nat
      /\ info[k].size = MapHeader + info[k].entry_size * info[k].regions
  BY <1>1, <1>2, <1>3, MapFacts
<1>5. info[k].entry_size * info[k].regions \in Nat /\ 0 * info[k].entry_size = 0
  BY <1>4
<1>6. tag \in Nat /\ mmap' \in 0 .. InfoSize(info) /\ tag < mmap'
  <2>1. /\ Offset(info)[k] \in Nat /\ Offset(info)[k + 1] \in Nat
        /\ info[k].size \in Nat
        /\ Offset(info)[k] + info[k].size <= Offset(info)[k + 1]
        /\ Offset(info)[k + 1] <= InfoSize(info)
        /\ InfoSize(info) \in Nat
    <3>1. k \in 1 .. Len(info)
      BY <1>2
    <3> QED
      BY <1>3, <3>1, TagPlace
  <2>2. info[k].size >= MapHeader
    BY <1>4, <1>5 DEF MapHeader
  <2>3. tag = Offset(info)[k] /\ mmap' = tag + 16
    BY <1>1, <1>2 DEF MapHeader
  <2>4. info[k].size >= 16
    BY <2>2 DEF MapHeader
  <2> QED
    BY <2>1, <2>3, <2>4
<1>7. /\ visited' \in Seq(Nat) /\ Len(visited') = k
      /\ \A i \in 1 .. Len(visited') : visited'[i] = Offset(info)[i]
  BY <1>1, <1>2, <1>6, VisitTag
<1>8. TypeOK'
  BY <1>1, <1>6, <1>7 DEF WalkInv, TypeOK
<1>9. HistoryInv'
  BY <1>1, <1>7 DEF WalkInv, HistoryInv
<1>10. \A i \in 1 .. Len(printed) : printed[i] < mmap'
  <2>1. \A i \in 1 .. Len(printed) : printed[i] < tag /\ printed[i] \in Nat
    BY <1>1 DEF WalkInv, AtTag, TypeOK
  <2> QED
    BY <1>6, <2>1
<1>11. mmap' = tag' + MapHeader + 0 * info'[k].entry_size
  BY <1>1, <1>5, <1>6 DEF MapHeader
<1>12. PrintedRegions' = RegionsUpTo(k - 1)' \cup FirstRegions(k, 0)'
  <2>1. FirstRegions(k, 0) = {}
    BY DEF FirstRegions
  <2> QED
    BY <1>1, <1>2, <2>1, SameRegions DEF PrintedRegions
<1>13. AtRegion'
  <2>1. k \in 1 .. Len(info') /\ 0 \in 0 .. info'[k].regions /\ info'[k].type = "MMAP"
        /\ tag' = Offset(info')[k]
    BY <1>1, <1>2, <1>4
  <2> QED
    BY <1>1, <1>7, <1>10, <1>11, <1>12, <2>1 DEF AtRegion
<1> QED
  BY <1>1, <1>8, <1>9, <1>13 DEF WalkInv, AtTag, AtEnd

(* In a map the walk reads tag Len(visited). *)
LEMMA CurrentMap ==
  ASSUME WalkInv, pc = "region"
  PROVE  \E k \in 1 .. Len(info) : \E r \in 0 .. info[k].regions :
           /\ Len(visited) = k
           /\ tag = Offset(info)[k] /\ TagAt(tag) = info[k] /\ info[k].type = "MMAP"
           /\ mmap = tag + MapHeader + r * info[k].entry_size
           /\ PrintedRegions = RegionsUpTo(k - 1) \cup FirstRegions(k, r)
BY TagAtTag DEF WalkInv, AtRegion, TypeOK

(* One region, at its place in the map. *)
LEMMA RegionWalkInv == ASSUME WalkInv, Region  PROVE WalkInv'
<1>1. /\ pc = "region" /\ pc' = "region" /\ mmap < tag + TagAt(tag).size
      /\ printed' = Append(printed, mmap) /\ mmap' = mmap + TagAt(tag).entry_size
      /\ UNCHANGED <<info, magic, addr, tag, visited, total>>
  BY DEF Region, InsideMap
<1>2a. PICK k \in 1 .. Len(info) : \E r \in 0 .. info[k].regions :
         /\ Len(visited) = k
         /\ tag = Offset(info)[k] /\ TagAt(tag) = info[k] /\ info[k].type = "MMAP"
         /\ mmap = tag + MapHeader + r * info[k].entry_size
         /\ PrintedRegions = RegionsUpTo(k - 1) \cup FirstRegions(k, r)
  BY <1>1, CurrentMap
<1>2. PICK r \in 0 .. info[k].regions :
        /\ Len(visited) = k
        /\ tag = Offset(info)[k] /\ TagAt(tag) = info[k] /\ info[k].type = "MMAP"
        /\ mmap = tag + MapHeader + r * info[k].entry_size
        /\ PrintedRegions = RegionsUpTo(k - 1) \cup FirstRegions(k, r)
  BY <1>2a
<1> DEFINE e == info[k].entry_size
           m == info[k].regions
<1>3. info \in Infos /\ Len(info) \in Nat
  BY InfoFacts DEF WalkInv, TypeOK
<1>4. /\ e \in Nat \ {0} /\ m \in Nat /\ info[k].size = MapHeader + e * m
  BY <1>2, <1>3, MapFacts
<1>5. r \in Nat /\ r * e \in Nat /\ (r + 1) * e \in Nat /\ e * m \in Nat
  BY <1>4
<1>6. (r + 1) * e = r * e + e /\ (r * e < e * m <=> r < m)
  BY <1>4, <1>5, Multiples
<1> HIDE DEF e, m
<1>7. /\ Offset(info)[k] \in Nat /\ Offset(info)[k + 1] \in Nat
      /\ info[k].size \in Nat
      /\ Offset(info)[k] + info[k].size <= Offset(info)[k + 1]
      /\ Offset(info)[k + 1] <= InfoSize(info)
      /\ InfoSize(info) \in Nat
  BY <1>3, TagPlace
<1>8. tag \in Nat /\ mmap \in Nat /\ r < m
  <2>1. /\ mmap = tag + 16 + r * e /\ info[k].size = 16 + e * m
        /\ mmap < tag + info[k].size /\ tag \in Nat
    BY <1>1, <1>2, <1>4, <1>7 DEF MapHeader, e
  <2> QED
    BY <1>5, <1>6, <2>1
<1>9. (r + 1) * e <= e * m
  <2>1. r + 1 = m \/ r + 1 < m
    BY <1>4, <1>5, <1>8
  <2>2. r + 1 < m => (r + 1) * e < e * m
    BY <1>4, <1>5, Multiples
  <2>3. m * e = e * m
    BY <1>4
  <2> QED
    BY <1>4, <1>5, <2>1, <2>2, <2>3
<1>10. mmap' = tag + MapHeader + (r + 1) * e /\ mmap' <= tag + info[k].size /\ mmap < mmap'
       /\ mmap' \in Nat
  <2>1. mmap' = mmap + e /\ mmap = tag + 16 + r * e
    BY <1>1, <1>2 DEF e, MapHeader
  <2>2. mmap' = tag + 16 + (r + 1) * e
    BY <2>1, <1>4, <1>5, <1>6, <1>8
  <2>3. info[k].size = 16 + e * m
    BY <1>4 DEF MapHeader
  <2>4. mmap' <= tag + info[k].size /\ mmap' \in Nat
    BY <2>2, <2>3, <1>5, <1>8, <1>9
  <2> QED
    BY <2>1, <2>2, <2>4, <1>4, <1>8 DEF MapHeader
<1>11. mmap' \in 0 .. InfoSize(info)
  BY <1>2, <1>7, <1>10
<1>12. /\ printed' \in Seq(Nat) /\ Increasing(printed')
       /\ \A i \in 1 .. Len(printed') : printed'[i] <= mmap
       /\ {printed'[i] : i \in 1 .. Len(printed')} = PrintedRegions \cup {mmap}
  <2>1. /\ printed \in Seq(Nat) /\ Increasing(printed)
        /\ \A i \in 1 .. Len(printed) : printed[i] < mmap
    BY <1>1 DEF WalkInv, TypeOK, HistoryInv, AtRegion
  <2> DEFINE p == Append(printed, mmap)
  <2>2. /\ p \in Seq(Nat) /\ Increasing(p)
        /\ \A i \in 1 .. Len(p) : p[i] <= mmap
        /\ {p[i] : i \in 1 .. Len(p)} = {printed[i] : i \in 1 .. Len(printed)} \cup {mmap}
    BY <1>8, <2>1, IncreasingAppend
  <2>3. printed' = p
    BY <1>1
  <2> HIDE DEF p
  <2> QED
    BY <2>2, <2>3 DEF PrintedRegions
<1>13. TypeOK'
  BY <1>1, <1>11, <1>12 DEF WalkInv, TypeOK
<1>14. HistoryInv'
  BY <1>1, <1>12 DEF WalkInv, HistoryInv
<1>15. FirstRegions(k, r + 1) = FirstRegions(k, r) \cup {mmap}
  <2>1. 0 .. ((r + 1) - 1) = (0 .. (r - 1)) \cup {r}
    BY <1>5
  <2> QED
    BY <2>1, <1>2, Zenon DEF FirstRegions
<1>16. PrintedRegions' = RegionsUpTo(k - 1)' \cup FirstRegions(k, r + 1)'
  <2>1. PrintedRegions' = PrintedRegions \cup {mmap}
    BY <1>12 DEF PrintedRegions
  <2>2. PrintedRegions' = RegionsUpTo(k - 1) \cup FirstRegions(k, r + 1)
    BY <1>2, <1>15, <2>1
  <2> QED
    BY <1>1, <2>2, SameRegions
<1>17. \A i \in 1 .. Len(printed') : printed'[i] < mmap'
  <2>1. \A i \in 1 .. Len(printed') : printed'[i] \in Nat
    BY <1>12
  <2> QED
    BY <2>1, <1>8, <1>10, <1>12
<1>18. AtRegion'
  <2>1. /\ k \in 1 .. Len(info') /\ r + 1 \in 0 .. info'[k].regions
        /\ info'[k].type = "MMAP" /\ tag' = Offset(info')[k] /\ Len(visited') = k
        /\ mmap' = tag' + MapHeader + (r + 1) * info'[k].entry_size
    BY <1>1, <1>2, <1>4, <1>5, <1>8, <1>10 DEF e, m
  <2> QED
    BY <1>1, <1>16, <1>17, <2>1 DEF AtRegion
<1> QED
  BY <1>1, <1>13, <1>14, <1>18 DEF WalkInv, AtTag, AtEnd

(* The map ends where its last region does, and the walk goes on behind it. *)
LEMMA EndOfMapWalkInv == ASSUME WalkInv, EndOfMap  PROVE WalkInv'
<1>1. /\ pc = "region" /\ pc' = "tag" /\ ~(mmap < tag + TagAt(tag).size)
      /\ tag' = tag + RoundUp(TagAt(tag).size)
      /\ UNCHANGED <<info, magic, addr, mmap, visited, printed, total>>
  BY DEF EndOfMap, InsideMap, NextTag
<1>2a. PICK k \in 1 .. Len(info) : \E r \in 0 .. info[k].regions :
         /\ Len(visited) = k
         /\ tag = Offset(info)[k] /\ TagAt(tag) = info[k] /\ info[k].type = "MMAP"
         /\ mmap = tag + MapHeader + r * info[k].entry_size
         /\ PrintedRegions = RegionsUpTo(k - 1) \cup FirstRegions(k, r)
  BY <1>1, CurrentMap
<1>2. PICK r \in 0 .. info[k].regions :
        /\ Len(visited) = k
        /\ tag = Offset(info)[k] /\ TagAt(tag) = info[k] /\ info[k].type = "MMAP"
        /\ mmap = tag + MapHeader + r * info[k].entry_size
        /\ PrintedRegions = RegionsUpTo(k - 1) \cup FirstRegions(k, r)
  BY <1>2a
<1> DEFINE e == info[k].entry_size
           m == info[k].regions
<1>3. info \in Infos /\ Len(info) \in Nat
  BY InfoFacts DEF WalkInv, TypeOK
<1>4. /\ e \in Nat \ {0} /\ m \in Nat /\ info[k].size = MapHeader + e * m
      /\ RegionsOf(k) = FirstRegions(k, m)
  BY <1>2, <1>3, MapFacts
<1>5. r \in Nat /\ r * e \in Nat /\ e * m \in Nat /\ m * e = e * m
  BY <1>4
<1>6. r * e < e * m <=> r < m
  BY <1>4, <1>5, Multiples
<1> HIDE DEF e, m
<1>7. /\ Offset(info)[k] \in Nat /\ Offset(info)[k + 1] \in Nat
      /\ info[k].size \in Nat
      /\ Offset(info)[k + 1] = Offset(info)[k] + RoundUp(info[k].size)
      /\ Offset(info)[k] + info[k].size <= Offset(info)[k + 1]
      /\ Offset(info)[k + 1] <= InfoSize(info)
      /\ InfoSize(info) \in Nat
  BY <1>3, TagPlace
<1>8. tag \in Nat /\ mmap \in Nat /\ r = m
  <2>1. mmap = tag + 16 + r * e /\ info[k].size = 16 + e * m
        /\ ~(mmap < tag + info[k].size) /\ tag \in Nat
    BY <1>1, <1>2, <1>4, <1>7 DEF MapHeader, e
  <2>2. ~(r < m)
    BY <1>5, <1>6, <2>1
  <2>3. r <= m
    BY DEF m
  <2> QED
    BY <1>4, <1>5, <2>1, <2>2, <2>3
<1>9. mmap = tag + info[k].size
  <2>1. mmap = tag + 16 + r * e /\ info[k].size = 16 + e * m
    BY <1>2, <1>4 DEF MapHeader, e
  <2> QED
    BY <1>5, <1>8, <2>1
<1>10. tag' = Offset(info)[k + 1] /\ tag' \in 0 .. InfoSize(info) /\ mmap <= tag'
  BY <1>1, <1>2, <1>7, <1>9
<1>11. TypeOK'
  BY <1>1, <1>10 DEF WalkInv, TypeOK
<1>12. HistoryInv'
  BY <1>1 DEF WalkInv, HistoryInv
<1>13. RegionsUpTo(k) = RegionsUpTo(k - 1) \cup RegionsOf(k)
  <2>1. k - 1 \in Nat /\ (k - 1) + 1 = k
    BY <1>3
  <2> QED
    BY <2>1, RegionsStep
<1>14. PrintedRegions' = RegionsUpTo(k)'
  BY <1>1, <1>2, <1>4, <1>8, <1>13, SameRegions DEF PrintedRegions
<1>15. \A i \in 1 .. Len(printed) : printed[i] < tag'
  <2>1. \A i \in 1 .. Len(printed) : printed[i] < mmap
    BY <1>1 DEF WalkInv, AtRegion
  <2>2. \A i \in 1 .. Len(printed) : printed[i] \in Nat
    BY DEF WalkInv, TypeOK
  <2> QED
    BY <1>8, <1>10, <2>1, <2>2
<1>16. AtTag'
  <2>1. k \in 0 .. Len(info') /\ Len(visited') = k
    BY <1>1, <1>2, <1>3
  <2> QED
    BY <1>1, <1>10, <1>14, <1>15, <2>1 DEF AtTag
<1> QED
  BY <1>1, <1>11, <1>12, <1>16 DEF WalkInv, AtRegion, AtEnd

(* The END tag is behind the last one, and the eight bytes of it are all    *)
(* that is left of the announced size.                                      *)
LEMMA FinishWalkInv == ASSUME WalkInv, Finish  PROVE WalkInv'
<1>1. /\ pc = "tag" /\ pc' = "returned" /\ TagAt(tag).type = "END"
      /\ tag' = tag + RoundUp(TagAt(tag).size) /\ total' = tag'
      /\ UNCHANGED <<info, magic, addr, mmap, visited, printed>>
  BY DEF Finish, NextTag
<1>2. info \in Infos /\ Len(info) \in Nat
  BY InfoFacts DEF WalkInv, TypeOK
<1>3. PICK j \in 0 .. Len(info) : Len(visited) = j /\ tag = Offset(info)[j + 1]
                                  /\ PrintedRegions = RegionsUpTo(j)
  BY <1>1 DEF WalkInv, AtTag
<1>4. j = Len(info)
  <2> SUFFICES ASSUME j # Len(info)  PROVE FALSE
    OBVIOUS
  <2>1. j + 1 \in 1 .. Len(info)
    BY <1>2
  <2>2. TagAt(tag) = info[j + 1]
    BY <1>2, <1>3, <2>1, TagAtTag
  <2>3. info[j + 1].type \in {"MMAP", "OTHER"}
    BY <1>2, <2>1, MultibootAssumption
  <2> QED
    BY <1>1, <2>2, <2>3
<1>5. TagAt(tag) = EndTag
  BY <1>2, <1>3, <1>4, TagAtEnd
<1>6. RoundUp(EndTag.size) = 8
  BY DEF EndTag, RoundUp
<1>7. InfoSize(info) = Offset(info)[Len(info) + 1] + 8 /\ InfoSize(info) \in Nat
  BY <1>2, InfoFacts
<1>8. total' = InfoSize(info) /\ tag' = InfoSize(info)
  BY <1>1, <1>3, <1>4, <1>5, <1>6, <1>7
<1>9. TypeOK'
  BY <1>1, <1>7, <1>8 DEF WalkInv, TypeOK
<1>10. HistoryInv'
  BY <1>1 DEF WalkInv, HistoryInv
<1>11. PrintedRegions' = RegionsUpTo(j)'
  BY <1>1, <1>3, SameRegions DEF PrintedRegions
<1>12. AtEnd'
  <2>1. RegionsUpTo(j)' = RegionsUpTo(Len(info))'
    BY <1>1, <1>4 DEF RegionsUpTo, RegionsOf
  <2> QED
    BY <1>1, <1>3, <1>4, <1>8, <1>11, <2>1 DEF AtEnd
<1> QED
  BY <1>1, <1>9, <1>10, <1>12 DEF WalkInv, AtRegion, AtTag

-----------------------------------------------------------------------------
(* The walk of validate_boot, with the positions of its two loops, follows  *)
(* every information a loader may leave.                                    *)
THEOREM MultibootInvariant == Spec => []WalkInv
<1>1. WalkInv /\ [Next]_vars => WalkInv'
  <2> SUFFICES ASSUME WalkInv, [Next]_vars  PROVE WalkInv'
    OBVIOUS
  <2>1. CASE Reject
    BY <2>1, RejectWalkInv
  <2>2. CASE Begin
    BY <2>2, BeginWalkInv
  <2>3. CASE PlainTag
    BY <2>3, PlainTagWalkInv
  <2>4. CASE MemoryMap
    BY <2>4, MemoryMapWalkInv
  <2>5. CASE Region
    BY <2>5, RegionWalkInv
  <2>6. CASE EndOfMap
    BY <2>6, EndOfMapWalkInv
  <2>7. CASE Finish
    BY <2>7, FinishWalkInv
  <2>8. CASE UNCHANGED vars
    <3>1. UNCHANGED <<info, magic, addr, pc, tag, mmap, visited, printed, total>>
      BY <2>8 DEF vars
    <3>2. TypeOK' /\ HistoryInv'
      BY <3>1 DEF WalkInv, TypeOK, HistoryInv, Increasing
    <3>3. PrintedRegions' = PrintedRegions
      BY <3>1 DEF PrintedRegions
    <3>4. \A k, r : RegionsUpTo(k)' = RegionsUpTo(k) /\ FirstRegions(k, r)' = FirstRegions(k, r)
      BY <3>1, SameRegions
    <3>5. AtTag'
      BY <3>1, <3>3, <3>4 DEF WalkInv, AtTag
    <3>6. AtRegion'
      BY <3>1, <3>3, <3>4 DEF WalkInv, AtRegion
    <3>7. AtEnd'
      <4>1. RegionsUpTo(Len(info))' = RegionsUpTo(Len(info)) /\ InfoSize(info)' = InfoSize(info)
        BY <3>1 DEF RegionsUpTo, RegionsOf
      <4>2. Accepts' = Accepts
        BY <3>1 DEF Accepts
      <4> QED
        BY <3>1, <3>3, <4>1, <4>2 DEF WalkInv, AtEnd
    <3> QED
      BY <3>2, <3>5, <3>6, <3>7 DEF WalkInv
  <2> QED
    BY <2>1, <2>2, <2>3, <2>4, <2>5, <2>6, <2>7, <2>8 DEF Next
<1> QED
  BY <1>1, InitWalkInv, PTL DEF Spec

(* The pointers of validate_boot stay within the announced size. *)
THEOREM MultibootTypeCorrect == Spec => []TypeOK
<1>1. WalkInv => TypeOK
  BY DEF WalkInv
<1> QED
  BY <1>1, MultibootInvariant, PTL

(* validate_boot dereferences its pointer only at tags, whatever the sizes: *)
(* (size + 7) & ~7 leads from tag to tag (multiboot.c:43-45), and the       *)
(* region pointer is inside its map (multiboot.c:84-86).                    *)
THEOREM MultibootStaysOnTags == Spec => []WalkStaysOnTags
<1>1. WalkInv => WalkStaysOnTags
  <2> SUFFICES ASSUME WalkInv  PROVE WalkStaysOnTags
    OBVIOUS
  <2>1. info \in Infos /\ Len(info) \in Nat
    BY InfoFacts DEF WalkInv, TypeOK
  <2>2. ASSUME pc = "tag"  PROVE tag \in TagStarts
    <3>1. PICK j \in 0 .. Len(info) : tag = Offset(info)[j + 1]
      BY <2>2 DEF WalkInv, AtTag
    <3> QED
      BY <2>1, <3>1 DEF TagStarts
  <2>3. ASSUME pc = "region"  PROVE tag \in TagStarts /\ mmap <= tag + TagAt(tag).size
    <3>1. PICK k \in 1 .. Len(info) : \E r \in 0 .. info[k].regions :
            /\ tag = Offset(info)[k] /\ TagAt(tag) = info[k] /\ info[k].type = "MMAP"
            /\ mmap = tag + MapHeader + r * info[k].entry_size
      BY <2>3, CurrentMap
    <3>2. PICK r \in 0 .. info[k].regions : mmap = tag + MapHeader + r * info[k].entry_size
      BY <3>1
    <3> DEFINE e == info[k].entry_size
               m == info[k].regions
    <3>3. e \in Nat \ {0} /\ m \in Nat /\ info[k].size = MapHeader + e * m
      BY <2>1, <3>1, MapFacts
    <3>4. r \in Nat /\ r * e \in Nat /\ e * m \in Nat /\ m * e = e * m
          /\ (r * e < e * m <=> r < m)
      BY <3>3, Multiples
    <3>5. r = m \/ r < m
      BY <3>3
    <3> HIDE DEF e, m
    <3>6. r * e <= e * m
      BY <3>3, <3>4, <3>5
    <3>7. tag \in Nat
      BY <2>1, <3>1, TagPlace
    <3>8. tag \in TagStarts
      BY <2>1, <3>1 DEF TagStarts
    <3>9. mmap = tag + 16 + r * e /\ TagAt(tag).size = 16 + e * m
      BY <3>1, <3>2, <3>3 DEF e, MapHeader
    <3> QED
      BY <3>4, <3>6, <3>7, <3>8, <3>9
  <2> QED
    BY <2>2, <2>3 DEF WalkStaysOnTags
<1> QED
  BY <1>1, MultibootInvariant, PTL

(* A sequence that goes up has as many elements as it is long. *)
LEMMA IncreasingCardinality ==
  ASSUME NEW s \in Seq(Nat), Increasing(s)
  PROVE  Cardinality({s[i] : i \in 1 .. Len(s)}) = Len(s)
<1> DEFINE T == {s[i] : i \in 1 .. Len(s)}
<1>1. Len(s) \in Nat /\ \A i \in 1 .. Len(s) : s[i] \in Nat
  OBVIOUS
<1>2. ASSUME NEW i \in 1 .. Len(s), NEW j \in 1 .. Len(s), s[i] = s[j]  PROVE i = j
  <2>1. i = j \/ i < j \/ j < i
    BY <1>1
  <2> QED
    BY <1>1, <1>2, <2>1 DEF Increasing
<1>3. s \in [1 .. Len(s) -> T] /\ \A t \in T : \E i \in 1 .. Len(s) : s[i] = t
  OBVIOUS
<1>4. s \in Bijection(1 .. Len(s), T)
  BY <1>2, <1>3 DEF Bijection, Injection, Surjection, IsInjective
<1>5. IsFiniteSet(1 .. Len(s)) /\ Cardinality(1 .. Len(s)) = Len(s)
  BY <1>1, FS_Interval
<1> QED
  BY <1>4, <1>5, FS_Bijection DEF ExistsBijection

(* When validate_boot returns from information it accepted, it has printed  *)
(* each tag and each region once, in the order of memory, and reports the   *)
(* size that the loader announced.                                          *)
THEOREM MultibootComplete == Spec => []WalkIsComplete
<1>1. WalkInv => WalkIsComplete
  <2> SUFFICES ASSUME WalkInv, pc = "returned", Accepts
               PROVE  /\ visited = [i \in DOMAIN info |-> Offset(info)[i]]
                      /\ {printed[i] : i \in DOMAIN printed} = AllRegions
                      /\ Len(printed) = Cardinality(AllRegions)
                      /\ total = InfoSize(info)
    BY DEF WalkIsComplete
  <2>1. info \in Infos /\ DOMAIN info = 1 .. Len(info)
    BY InfoFacts DEF WalkInv, TypeOK
  <2>2. /\ Len(visited) = Len(info) /\ PrintedRegions = RegionsUpTo(Len(info))
        /\ total = InfoSize(info)
    BY DEF WalkInv, AtEnd
  <2>3. visited \in Seq(Nat) /\ printed \in Seq(Nat) /\ Increasing(printed)
        /\ \A i \in 1 .. Len(visited) : visited[i] = Offset(info)[i]
    BY DEF WalkInv, TypeOK, HistoryInv
  <2>4. visited = [i \in DOMAIN info |-> Offset(info)[i]]
    BY <2>1, <2>2, <2>3
  <2>5. RegionsUpTo(Len(info)) = AllRegions
    BY <2>1 DEF RegionsUpTo, AllRegions
  <2>6. {printed[i] : i \in DOMAIN printed} = PrintedRegions
    BY <2>3 DEF PrintedRegions
  <2>7. Cardinality(PrintedRegions) = Len(printed)
    BY <2>3, IncreasingCardinality DEF PrintedRegions
  <2> QED
    BY <2>2, <2>4, <2>5, <2>6, <2>7
<1> QED
  BY <1>1, MultibootInvariant, PTL

=============================================================================
