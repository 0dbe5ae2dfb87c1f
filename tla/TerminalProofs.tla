--------------------------- MODULE TerminalProofs ---------------------------
(***************************************************************************)
(* Proofs about Terminal, for every size of screen, tab width, banner and  *)
(* set of messages.                                                        *)
(***************************************************************************)
EXTENDS Terminal, TLAPS

(* What holds between two characters: the cursor is on the screen, the      *)
(* history has room for what is still to be written, and nothing has        *)
(* scrolled off a screen that does not exist yet.                           *)
TerminalInv ==
  /\ TypeOK
  /\ terminal_row \in Row
  /\ terminal_column \in Column
  /\ terminal_buffer = "NULL" => scrolled = <<>>
  /\ Len(scrolled) + (IF terminal_buffer = "NULL" THEN 0 ELSE Len(pending)) <= MaxScrolled

-----------------------------------------------------------------------------
(* Rows of w cells: a later row starts where an earlier one has ended. *)
LEMMA RowsInOrder ==
  ASSUME NEW w \in Nat, NEW a \in Nat, NEW b \in Nat, a < b
  PROVE  a * w + w <= b * w
<1>1. PICK d \in Nat : b = a + 1 + d
  <2>1. b - a - 1 \in Nat /\ b = a + 1 + (b - a - 1)
    OBVIOUS
  <2>2. QED
    BY <2>1
<1>2. b * w = a * w + w + d * w
  BY <1>1
<1>3. a * w \in Nat /\ d * w \in Nat
  BY <1>1
<1>4. QED
  BY <1>2, <1>3

(* Index is a bijection between positions on the screen and cells: distinct *)
(* positions are distinct cells, and the cell below is VGA_WIDTH further on.*)
LEMMA IndexFacts ==
  ASSUME NEW x \in Column, NEW y \in Row
  PROVE  /\ Index(x, y) \in Cell
         /\ Index(x, 0) = x
         /\ Index(x, y) < LastRowStart <=> y < VGA_HEIGHT - 1
         /\ Index(x, y) + VGA_WIDTH = Index(x, y + 1)
         /\ \A u \in Column, v \in Row : Index(x, y) = Index(u, v) => x = u /\ y = v
<1>1. /\ VGA_WIDTH \in Nat /\ VGA_HEIGHT \in Nat /\ VGA_WIDTH > 0 /\ VGA_HEIGHT > 0
      /\ x \in Nat /\ y \in Nat /\ x < VGA_WIDTH /\ y < VGA_HEIGHT
      /\ VGA_HEIGHT - 1 \in Nat
  BY ScreenAssumption DEF Column, Row
<1>2. y * VGA_WIDTH \in Nat /\ VGA_HEIGHT * VGA_WIDTH \in Nat
      /\ (VGA_HEIGHT - 1) * VGA_WIDTH \in Nat
  BY <1>1
<1>3. VGA_WIDTH * VGA_HEIGHT = VGA_HEIGHT * VGA_WIDTH
      /\ LastRowStart = (VGA_HEIGHT - 1) * VGA_WIDTH
  BY <1>1 DEF LastRowStart
<1>4. Index(x, y) \in Cell
  <2>1. y * VGA_WIDTH + VGA_WIDTH <= VGA_HEIGHT * VGA_WIDTH
    BY <1>1, RowsInOrder
  <2>2. y * VGA_WIDTH + x \in Nat /\ y * VGA_WIDTH + x < VGA_HEIGHT * VGA_WIDTH
    BY <1>1, <1>2, <2>1
  <2>3. QED
    BY <1>2, <1>3, <2>2 DEF Index, Cell
<1>5. Index(x, 0) = x
  BY <1>1 DEF Index
<1>6. Index(x, y) < LastRowStart <=> y < VGA_HEIGHT - 1
  <2>1. CASE y < VGA_HEIGHT - 1
    <3>1. y * VGA_WIDTH + VGA_WIDTH <= (VGA_HEIGHT - 1) * VGA_WIDTH
      BY <1>1, <2>1, RowsInOrder
    <3>2. QED
      BY <1>1, <1>2, <1>3, <2>1, <3>1 DEF Index
  <2>2. CASE y = VGA_HEIGHT - 1
    BY <1>1, <1>2, <1>3, <2>2 DEF Index
  <2>3. QED
    BY <1>1, <2>1, <2>2
<1>7. Index(x, y) + VGA_WIDTH = Index(x, y + 1)
  BY <1>1 DEF Index
<1>8. ASSUME NEW u \in Column, NEW v \in Row, Index(x, y) = Index(u, v)
      PROVE  x = u /\ y = v
  <2>1. u \in Nat /\ v \in Nat /\ u < VGA_WIDTH /\ v * VGA_WIDTH \in Nat
    BY <1>1 DEF Column, Row
  <2>2. y * VGA_WIDTH + x = v * VGA_WIDTH + u
    BY <1>8 DEF Index
  <2>3. ~ (y < v)
    <3>1. y < v => y * VGA_WIDTH + VGA_WIDTH <= v * VGA_WIDTH
      BY <1>1, <2>1, RowsInOrder
    <3>2. QED
      BY <1>1, <1>2, <2>1, <2>2, <3>1
  <2>4. ~ (v < y)
    <3>1. v < y => v * VGA_WIDTH + VGA_WIDTH <= y * VGA_WIDTH
      BY <1>1, <2>1, RowsInOrder
    <3>2. QED
      BY <1>1, <1>2, <2>1, <2>2, <3>1
  <2>5. y = v
    BY <1>1, <2>1, <2>3, <2>4
  <2>6. QED
    BY <1>1, <1>2, <2>1, <2>2, <2>5
<1>9. QED
  BY <1>4, <1>5, <1>6, <1>7, <1>8

-----------------------------------------------------------------------------
LineOf(rows, row) == Len(rows) + row

PaperLines == 0 .. ((MaxScrolled + VGA_HEIGHT) - 1)

(* scroll() moves cells within the screen. *)
LEMMA ScrollType ==
  ASSUME NEW cells \in [Cell -> Entry]
  PROVE  scroll(cells) \in [Cell -> Entry] /\ TopRow(cells) \in [Column -> Entry]
<1>1. ASSUME NEW i \in Cell, i < LastRowStart PROVE i + VGA_WIDTH \in Cell
  <2>1. LastRowStart + VGA_WIDTH = VGA_WIDTH * VGA_HEIGHT
    BY ScreenAssumption DEF LastRowStart
  <2>2. LastRowStart \in Nat /\ VGA_WIDTH * VGA_HEIGHT \in Nat /\ VGA_WIDTH \in Nat
    BY ScreenAssumption DEF LastRowStart
  <2>3. QED
    BY <1>1, <2>1, <2>2 DEF Cell
<1>2. vga_entry(NUL, BLACK) \in Entry
  BY DEF vga_entry, Entry
<1>3. scroll(cells) \in [Cell -> Entry]
  BY <1>1, <1>2 DEF scroll
<1>4. ASSUME NEW x \in Column PROVE cells[Index(x, 0)] \in Entry
  <2>1. 0 \in Row
    BY ScreenAssumption DEF Row
  <2>2. QED
    BY <2>1, IndexFacts
<1>5. QED
  BY <1>3, <1>4 DEF TopRow

(* Scrolling changes nothing on the paper: the top row moves to the rows    *)
(* that have left, every other row is where it was, and the new row shows   *)
(* blanks, as the paper below the screen does.                              *)
LEMMA ScrollKeepsPaper ==
  ASSUME NEW cells \in [Cell -> Entry], NEW rows \in Seq([Column -> Entry])
  PROVE  PaperOf(Append(rows, TopRow(cells)), scroll(cells)) = PaperOf(rows, cells)
<1> DEFINE more == Append(rows, TopRow(cells))
           n == Len(rows)
<1>1. /\ n \in Nat /\ more \in Seq([Column -> Entry]) /\ Len(more) = n + 1
      /\ more[n + 1] = TopRow(cells)
      /\ \A i \in 1 .. n : more[i] = rows[i]
  BY ScrollType
<1>2. VGA_HEIGHT \in Nat /\ VGA_HEIGHT > 0 /\ MaxScrolled \in Nat
  BY ScreenAssumption
<1>3. Shown(vga_entry(NUL, BLACK)) = Blank
  BY DEF Shown, vga_entry
<1> HIDE DEF more, n
<1>4. ASSUME NEW l \in PaperLines, NEW x \in Column
      PROVE  PaperCell(more, scroll(cells), l, x) = PaperCell(rows, cells, l, x)
  <2>1. l \in Nat
    BY DEF PaperLines
  <2>2. CASE l < n
    <3>1. l + 1 \in 1 .. n /\ l < Len(more) /\ l < Len(rows)
      BY <1>1, <2>1, <2>2 DEF n
    <3>2. QED
      BY <1>1, <3>1 DEF PaperCell
  <2>3. CASE l = n
    <3>1. /\ l < Len(more) /\ ~ (l < Len(rows)) /\ l < Len(rows) + VGA_HEIGHT
          /\ l - Len(rows) = 0 /\ l + 1 = n + 1
      BY <1>1, <1>2, <2>1, <2>3 DEF n
    <3>2. more[l + 1][x] = cells[Index(x, 0)]
      BY <1>1, <2>3 DEF TopRow
    <3>3. QED
      BY <3>1, <3>2 DEF PaperCell
  <2>4. CASE n < l /\ l < n + VGA_HEIGHT
    <3> DEFINE y == l - (n + 1)
    <3>1. /\ ~ (l < Len(more)) /\ l < Len(more) + VGA_HEIGHT
          /\ ~ (l < Len(rows)) /\ l < Len(rows) + VGA_HEIGHT
          /\ y \in Row /\ y < VGA_HEIGHT - 1 /\ l - Len(more) = y /\ l - Len(rows) = y + 1
      BY <1>1, <1>2, <2>1, <2>4 DEF n, Row
    <3> HIDE DEF y
    <3>2. scroll(cells)[Index(x, y)] = cells[Index(x, y + 1)]
      BY <3>1, IndexFacts DEF scroll
    <3>3. QED
      BY <3>1, <3>2 DEF PaperCell
  <2>5. CASE l = n + VGA_HEIGHT
    <3> DEFINE y == VGA_HEIGHT - 1
    <3>1. /\ ~ (l < Len(more)) /\ l < Len(more) + VGA_HEIGHT
          /\ ~ (l < Len(rows)) /\ ~ (l < Len(rows) + VGA_HEIGHT)
          /\ y \in Row /\ ~ (y < VGA_HEIGHT - 1) /\ l - Len(more) = y
      BY <1>1, <1>2, <2>1, <2>5 DEF n, Row
    <3> HIDE DEF y
    <3>2. scroll(cells)[Index(x, y)] = vga_entry(NUL, BLACK)
      BY <3>1, IndexFacts DEF scroll
    <3>3. QED
      BY <1>3, <3>1, <3>2 DEF PaperCell
  <2>6. CASE l > n + VGA_HEIGHT
    <3>1. /\ ~ (l < Len(more)) /\ ~ (l < Len(more) + VGA_HEIGHT)
          /\ ~ (l < Len(rows)) /\ ~ (l < Len(rows) + VGA_HEIGHT)
      BY <1>1, <1>2, <2>1, <2>6 DEF n
    <3>2. QED
      BY <3>1 DEF PaperCell
  <2>7. QED
    BY <1>1, <1>2, <2>1, <2>2, <2>3, <2>4, <2>5, <2>6
<1>5. PaperOf(more, scroll(cells)) = PaperOf(rows, cells)
  BY <1>4 DEF PaperOf, PaperLines
<1>6. QED
  BY <1>5 DEF more

StoredAt(cells, x, y, entry) == [cells EXCEPT ![Index(x, y)] = entry]

Typed(roll, l, x, entry) == [roll EXCEPT ![l][x] = Shown(entry)]

(* A store at a position of the screen changes one place of the paper. *)
LEMMA StoreTypesOnPaper ==
  ASSUME NEW cells \in [Cell -> Entry], NEW rows \in Seq([Column -> Entry]),
         NEW x \in Column, NEW y \in Row, NEW e \in Entry, Len(rows) <= MaxScrolled
  PROVE  PaperOf(rows, StoredAt(cells, x, y, e)) =
           Typed(PaperOf(rows, cells), LineOf(rows, y), x, e)
<1> DEFINE new == StoredAt(cells, x, y, e)
           n == Len(rows)
<1>1. n \in Nat /\ VGA_HEIGHT \in Nat /\ MaxScrolled \in Nat /\ y \in Nat /\ y < VGA_HEIGHT
  BY ScreenAssumption DEF Row
<1>2. LineOf(rows, y) \in PaperLines /\ LineOf(rows, y) = n + y
  BY <1>1 DEF LineOf, PaperLines
<1>3. /\ new[Index(x, y)] = e
      /\ \A u \in Column, v \in Row : u # x \/ v # y => new[Index(u, v)] = cells[Index(u, v)]
  BY IndexFacts DEF StoredAt
<1> HIDE DEF new, n
<1>4. ASSUME NEW l \in PaperLines, NEW u \in Column
      PROVE  PaperCell(rows, new, l, u) =
               IF l = n + y /\ u = x THEN Shown(e) ELSE PaperCell(rows, cells, l, u)
  <2>1. l \in Nat
    BY DEF PaperLines
  <2>2. CASE l < n \/ l >= n + VGA_HEIGHT
    BY <1>1, <2>1, <2>2 DEF PaperCell, n
  <2>3. CASE l >= n /\ l < n + VGA_HEIGHT
    <3> DEFINE v == l - n
    <3>1. /\ v \in Row /\ ~ (l < Len(rows)) /\ l < Len(rows) + VGA_HEIGHT /\ l - Len(rows) = v
          /\ l = n + y <=> v = y
      BY <1>1, <2>1, <2>3 DEF n, Row
    <3> HIDE DEF v
    <3>2. QED
      BY <1>3, <3>1 DEF PaperCell
  <2>4. QED
    BY <1>1, <2>1, <2>2, <2>3
<1>5. PaperOf(rows, new) = [PaperOf(rows, cells) EXCEPT ![n + y][x] = Shown(e)]
  <2> DEFINE P == PaperOf(rows, cells)
             Q == PaperOf(rows, new)
  <2>1. P = [l \in PaperLines |-> [u \in Column |-> PaperCell(rows, cells, l, u)]]
    BY DEF PaperOf, PaperLines
  <2>2. Q = [l \in PaperLines |-> [u \in Column |-> PaperCell(rows, new, l, u)]]
    BY DEF PaperOf, PaperLines
  <2> HIDE DEF P, Q
  <2>3. \A l \in PaperLines : l # n + y => Q[l] = P[l]
    BY <1>4, <2>1, <2>2
  <2>4. Q[n + y] = [P[n + y] EXCEPT ![x] = Shown(e)]
    BY <1>2, <1>4, <2>1, <2>2
  <2>5. Q = [P EXCEPT ![n + y] = [P[n + y] EXCEPT ![x] = Shown(e)]]
    BY ONLY <1>2, <2>1, <2>2, <2>3, <2>4
  <2>6. QED
    BY <2>5 DEF P, Q
<1>6. QED
  BY <1>2, <1>5 DEF Typed, new

-----------------------------------------------------------------------------
(* Where the cursor, the screen and the history are after a character that  *)
(* left cells on the screen and moved the cursor from column to column + n, *)
(* or to a new line.                                                        *)
Moved(cells, onSameLine, column) ==
  /\ terminal_row' \in Row
  /\ terminal_column' = column
  /\ screen' \in [Cell -> Entry]
  /\ scrolled' \in Seq([Column -> Entry])
  /\ terminal_buffer = "NULL" => scrolled' = scrolled
  /\ Len(scrolled') <= Len(scrolled) + 1
  /\ terminal_buffer = "VGA" =>
       /\ PaperOf(scrolled', screen') = PaperOf(scrolled, cells)
       /\ LineOf(scrolled', terminal_row') =
            LineOf(scrolled, terminal_row) + (IF onSameLine THEN 0 ELSE 1)

(* The start of a new row, with or without scroll(). *)
LEMMA NextRowMoves ==
  ASSUME TerminalInv, NEW cells \in [Cell -> Entry], NextRow(cells)
  PROVE  Moved(cells, FALSE, 0)
<1>1. /\ terminal_row \in Nat /\ terminal_row < VGA_HEIGHT /\ VGA_HEIGHT \in Nat
      /\ screen \in [Cell -> Entry] /\ scrolled \in Seq([Column -> Entry])
      /\ terminal_buffer \in {"NULL", "VGA"} /\ Len(scrolled) \in Nat
  BY ScreenAssumption DEF TerminalInv, TypeOK, Row
<1>2. CASE terminal_row + 1 >= VGA_HEIGHT
  <2>1. /\ terminal_column' = 0 /\ terminal_row' = terminal_row
        /\ screen' = IF terminal_buffer = "VGA" THEN scroll(cells) ELSE screen
        /\ scrolled' = IF terminal_buffer = "VGA" THEN Append(scrolled, TopRow(cells)) ELSE scrolled
    BY <1>2 DEF NextRow, Store
  <2>2. scroll(cells) \in [Cell -> Entry] /\ TopRow(cells) \in [Column -> Entry]
    BY ScrollType
  <2>3. CASE terminal_buffer = "VGA"
    <3>1. /\ scrolled' \in Seq([Column -> Entry]) /\ Len(scrolled') = Len(scrolled) + 1
      BY <1>1, <2>1, <2>2, <2>3
    <3>2. PaperOf(scrolled', screen') = PaperOf(scrolled, cells)
      BY <1>1, <2>1, <2>3, ScrollKeepsPaper
    <3>3. LineOf(scrolled', terminal_row') = LineOf(scrolled, terminal_row) + 1
      BY <1>1, <2>1, <3>1 DEF LineOf
    <3>4. QED
      BY <1>1, <2>1, <2>2, <2>3, <3>1, <3>2, <3>3 DEF Moved, TerminalInv
  <2>4. CASE terminal_buffer = "NULL"
    BY <1>1, <2>1, <2>4 DEF Moved, TerminalInv
  <2>5. QED
    BY <1>1, <2>3, <2>4
<1>3. CASE ~ (terminal_row + 1 >= VGA_HEIGHT)
  <2>1. /\ terminal_column' = 0 /\ terminal_row' = terminal_row + 1 /\ scrolled' = scrolled
        /\ screen' = IF terminal_buffer = "VGA" THEN cells ELSE screen
    BY <1>1, <1>3 DEF NextRow, Store
  <2>2. terminal_row' \in Row /\ LineOf(scrolled', terminal_row') = LineOf(scrolled, terminal_row) + 1
    BY <1>1, <1>3, <2>1 DEF Row, LineOf
  <2>3. QED
    BY <1>1, <2>1, <2>2 DEF Moved
<1>4. QED
  BY <1>2, <1>3

(* n columns on, or to a new row. *)
LEMMA AdvanceMoves ==
  ASSUME TerminalInv, NEW cells \in [Cell -> Entry], NEW n \in Nat, Advance(n, cells)
  PROVE  /\ terminal_column + n < VGA_WIDTH => Moved(cells, TRUE, terminal_column + n)
         /\ ~ (terminal_column + n < VGA_WIDTH) => Moved(cells, FALSE, 0)
         /\ terminal_column' \in Column
<1>1. /\ terminal_column \in Nat /\ VGA_WIDTH \in Nat /\ VGA_WIDTH > 0
      /\ terminal_row \in Nat /\ Len(scrolled) \in Nat
      /\ terminal_row \in Row /\ scrolled \in Seq([Column -> Entry]) /\ screen \in [Cell -> Entry]
  BY ScreenAssumption DEF TerminalInv, TypeOK, Column
<1>2. CASE terminal_column + n < VGA_WIDTH
  <2>1. /\ terminal_column' = terminal_column + n
        /\ screen' = IF terminal_buffer = "VGA" THEN cells ELSE screen
        /\ UNCHANGED <<terminal_row, scrolled>>
    BY <1>1, <1>2 DEF Advance, Store
  <2>2. LineOf(scrolled', terminal_row') = LineOf(scrolled, terminal_row) + 0
    BY <1>1, <2>1 DEF LineOf
  <2>3. Moved(cells, TRUE, terminal_column + n)
    BY <1>1, <2>1, <2>2 DEF Moved
  <2>4. terminal_column' \in Column
    BY <1>1, <1>2, <2>1 DEF Column
  <2>5. QED
    BY <1>2, <2>3, <2>4
<1>3. CASE ~ (terminal_column + n < VGA_WIDTH)
  <2>1. NextRow(cells)
    BY <1>1, <1>3 DEF Advance
  <2>2. Moved(cells, FALSE, 0)
    BY <2>1, NextRowMoves
  <2>3. QED
    BY <1>1, <1>3, <2>2 DEF Moved, Column
<1>4. QED
  BY <1>2, <1>3

(* The cells after terminal_putentryat at the cursor. *)
LEMMA PrintCells ==
  ASSUME TerminalInv, NEW c \in Printable
  PROVE  /\ vga_entry(c, terminal_color) \in Entry
         /\ terminal_putentryat(c, terminal_color, terminal_column, terminal_row) \in [Cell -> Entry]
<1>1. vga_entry(c, terminal_color) \in Entry
  BY DEF TerminalInv, TypeOK, vga_entry, Entry
<1>2. Index(terminal_column, terminal_row) \in Cell
  BY IndexFacts DEF TerminalInv
<1>3. QED
  BY <1>1, <1>2 DEF TerminalInv, TypeOK, terminal_putentryat

(* terminal_putchar keeps the invariant, whatever the character. *)
LEMMA PutcharInv ==
  ASSUME TerminalInv, terminal_putchar
  PROVE  TerminalInv'
<1> DEFINE c == Head(pending)
<1>1. /\ pending \in Seq(Chars) /\ pending # <<>>
      /\ c \in Chars /\ pending' = Tail(pending)
      /\ pending' \in Seq(Chars) /\ Len(pending') = Len(pending) - 1
      /\ Len(pending) \in Nat /\ Len(scrolled) \in Nat
      /\ UNCHANGED <<terminal_color, terminal_buffer, terminal_serial_output>>
  BY DEF TerminalInv, TypeOK, terminal_putchar
<1>2. sent' \in Seq(Chars)
  <2>1. sent' \in {<<>>, <<CR, LF>>, <<c>>}
    BY DEF terminal_putchar, SerialBytes
  <2>2. CR \in Chars /\ LF \in Chars
    BY DEF Chars
  <2>3. c \in Chars
    BY <1>1
  <2> HIDE DEF c
  <2>4. <<CR, LF>> \in Seq(Chars) /\ <<c>> \in Seq(Chars) /\ <<>> \in Seq(Chars)
    BY ONLY <2>2, <2>3
  <2>5. QED
    BY ONLY <2>1, <2>4
<1>3. /\ terminal_row' \in Row /\ terminal_column' \in Column
      /\ screen' \in [Cell -> Entry] /\ scrolled' \in Seq([Column -> Entry])
      /\ terminal_buffer = "NULL" => scrolled' = scrolled
      /\ Len(scrolled') <= Len(scrolled) + 1
  <2>1. screen \in [Cell -> Entry]
    BY DEF TerminalInv, TypeOK
  <2>2. CASE c = LF /\ LineFeed
    <3>1. Moved(screen, FALSE, 0)
      BY <2>1, <2>2, NextRowMoves DEF LineFeed
    <3>2. QED
      BY <3>1, ScreenAssumption DEF Moved, Column
  <2>3. CASE c = CR /\ CarriageReturn
    BY <1>1, <2>3, ScreenAssumption DEF CarriageReturn, TerminalInv, TypeOK, Column
  <2>4. CASE c = HT /\ TabStop
    <3>1. Advance(TAB_WIDTH, screen) /\ TAB_WIDTH \in Nat
      BY <2>4, ScreenAssumption DEF TabStop
    <3>2. QED
      BY <2>1, <3>1, AdvanceMoves DEF Moved
  <2>5. CASE c \in Printable /\ PutGlyph(c)
    <3> DEFINE cells == terminal_putentryat(c, terminal_color, terminal_column, terminal_row)
    <3>1. cells \in [Cell -> Entry] /\ Advance(1, cells) /\ 1 \in Nat
      BY <2>5, PrintCells DEF PutGlyph
    <3> HIDE DEF cells
    <3>2. QED
      BY <3>1, AdvanceMoves DEF Moved
  <2>6. QED
    BY <2>2, <2>3, <2>4, <2>5 DEF terminal_putchar
<1>4. TypeOK'
  BY <1>1, <1>2, <1>3, ScreenAssumption DEF TerminalInv, TypeOK, Row, Column
<1>5. Len(scrolled') \in Nat
  BY <1>3
<1>6. QED
  BY <1>1, <1>3, <1>4, <1>5, ScreenAssumption DEF TerminalInv

-----------------------------------------------------------------------------
(* Initiation: the .bss that the boot loader cleared. *)
LEMMA InitTerminalInv == Init => TerminalInv
<1>1. Init => TypeOK
  <2>1. vga_entry(NUL, BLACK) \in Entry
    BY DEF vga_entry, Entry
  <2>2. <<>> \in Seq(Chars) /\ <<>> \in Seq([Column -> Entry]) /\ 0 \in Nat
    OBVIOUS
  <2>3. [i \in Cell |-> vga_entry(NUL, BLACK)] \in [Cell -> Entry]
    BY <2>1
  <2>4. QED
    BY <2>2, <2>3, Zenon DEF Init, TypeOK
<1>2. QED
  BY <1>1, ScreenAssumption DEF Init, TerminalInv, Row, Column

(* The invariant is inductive. *)
LEMMA StepTerminalInv == TerminalInv /\ [Next]_vars => TerminalInv'
<1> SUFFICES ASSUME TerminalInv, [Next]_vars PROVE TerminalInv'
  OBVIOUS
<1>1. CASE terminal_initialize
  <2>1. vga_entry(SPACE, LIGHT_GREY) \in Entry
    BY CharsAssumption DEF vga_entry, Entry, Printable
  <2>2. TypeOK'
    BY <1>1, <2>1, CharsAssumption DEF terminal_initialize, TerminalInv, TypeOK
  <2>3. scrolled = <<>> /\ scrolled' = <<>> /\ Len(scrolled') = 0 /\ pending' = Banner
    BY <1>1 DEF terminal_initialize, TerminalInv
  <2>4. Len(Banner) \in Nat /\ Len(Banner) <= MaxScrolled
    BY CharsAssumption
  <2>5. QED
    BY <1>1, <2>2, <2>3, <2>4, ScreenAssumption DEF terminal_initialize, TerminalInv, Row, Column
<1>2. CASE \E enable \in BOOLEAN : terminal_enable_serial(enable)
  BY <1>2 DEF terminal_enable_serial, cursor, TerminalInv, TypeOK
<1>3. CASE \E color \in Colors : terminal_setcolor(color)
  BY <1>3 DEF terminal_setcolor, cursor, TerminalInv, TypeOK
<1>4. CASE \E data \in Messages : terminal_write(data)
  <2>1. PICK data \in Messages : terminal_write(data)
    BY <1>4
  <2>2. data \in Seq(Chars)
    BY CharsAssumption
  <2>3. QED
    BY <2>1, <2>2 DEF terminal_write, cursor, TerminalInv, TypeOK
<1>5. CASE terminal_putchar
  BY <1>5, PutcharInv
<1>6. CASE UNCHANGED vars
  BY <1>6 DEF vars, TerminalInv, TypeOK
<1>7. QED
  BY <1>1, <1>2, <1>3, <1>4, <1>5, <1>6 DEF Next

(* The invariant holds after any sequence of writes. *)
THEOREM TerminalInvariant == Spec => []TerminalInv
<1>1. QED
  BY InitTerminalInv, StepTerminalInv, PTL DEF Spec

(* Type correctness of the console's state. *)
THEOREM TerminalTypeCorrect == Spec => []TypeOK
<1>1. TerminalInv => TypeOK
  BY DEF TerminalInv
<1>2. QED
  BY <1>1, TerminalInvariant, PTL

(* No string, however long and wherever it starts, takes the store of       *)
(* terminal_putentryat outside the text buffer.                             *)
THEOREM CursorStaysOnScreen == Spec => []CursorOnScreen
<1>1. TerminalInv => CursorOnScreen
  BY IndexFacts DEF TerminalInv, CursorOnScreen
<1>2. QED
  BY <1>1, TerminalInvariant, PTL

-----------------------------------------------------------------------------
(* The mapped state while the screen is in use. *)
PaperNow == PaperOf(scrolled, screen)
LineNow == LineOf(scrolled, terminal_row)

(* Until terminal_initialize no step is visible on the paper. *)
LEMMA EarlyIsInvisible ==
  ASSUME terminal_buffer = "NULL", terminal_buffer' = "NULL"
  PROVE  UNCHANGED Paper!vars
BY DEF Paper!vars, OnScreen, BlankPaper

(* A character on the screen is one keystroke of the teletype. *)
LEMMA PutcharTypes ==
  ASSUME TerminalInv, terminal_putchar, terminal_buffer = "VGA"
  PROVE  Paper!Next
<1> DEFINE c == Head(pending)
<1> USE DEF PaperNow, LineNow
<1>1. /\ terminal_buffer' = "VGA" /\ terminal_color' = terminal_color
      /\ screen \in [Cell -> Entry] /\ scrolled \in Seq([Column -> Entry])
      /\ terminal_row \in Row /\ terminal_column \in Column
      /\ Len(scrolled) <= MaxScrolled
  <2>1. Len(scrolled) \in Nat /\ Len(pending) \in Nat
    BY DEF TerminalInv, TypeOK
  <2>2. QED
    BY <2>1, ScreenAssumption DEF terminal_putchar, TerminalInv, TypeOK
<1>2. CASE c = LF /\ LineFeed
  <2>1. Moved(screen, FALSE, 0)
    BY <1>1, <1>2, NextRowMoves DEF LineFeed
  <2>2. PaperNow' = PaperNow /\ LineNow' = LineNow + 1 /\ terminal_column' = 0
    BY <2>1 DEF Moved
  <2>3. Paper!NewLine
    BY <1>1, <2>2 DEF Paper!NewLine, OnScreen, LineOf
  <2>4. QED
    BY <2>3 DEF Paper!Next
<1>3. CASE c = CR /\ CarriageReturn
  <2>1. Paper!Return
    BY <1>1, <1>3 DEF CarriageReturn, Paper!Return, OnScreen
  <2>2. QED
    BY <2>1 DEF Paper!Next
<1>4. ASSUME NEW n \in Nat, NEW cells \in [Cell -> Entry], Advance(n, cells)
      PROVE  Paper!Advance(n) /\ PaperNow' = PaperOf(scrolled, cells)
  <2>1. /\ terminal_column + n < VGA_WIDTH => Moved(cells, TRUE, terminal_column + n)
        /\ ~ (terminal_column + n < VGA_WIDTH) => Moved(cells, FALSE, 0)
    BY <1>4, AdvanceMoves
  <2>2. CASE terminal_column + n < VGA_WIDTH
    <3>1. Moved(cells, TRUE, terminal_column + n)
      BY <2>1, <2>2
    <3>2. /\ terminal_column' = terminal_column + n /\ LineNow' = LineNow + 0
          /\ PaperNow' = PaperOf(scrolled, cells)
      BY <3>1 DEF Moved
    <3>3. LineNow \in Nat
      BY <1>1 DEF LineOf, Row
    <3>4. LineNow' = LineNow
      BY <3>2, <3>3
    <3>5. QED
      BY <1>1, <2>2, <3>2, <3>4 DEF Paper!Advance, OnScreen, LineOf
  <2>3. CASE ~ (terminal_column + n < VGA_WIDTH)
    <3>1. Moved(cells, FALSE, 0)
      BY <2>1, <2>3
    <3>2. /\ terminal_column' = 0 /\ LineNow' = LineNow + 1
          /\ PaperNow' = PaperOf(scrolled, cells)
      BY <3>1 DEF Moved
    <3>3. QED
      BY <1>1, <2>3, <3>2 DEF Paper!Advance, OnScreen, LineOf
  <2>4. QED
    BY <2>2, <2>3
<1>5. CASE c = HT /\ TabStop
  <2>1. TAB_WIDTH \in Nat /\ Advance(TAB_WIDTH, screen)
    BY <1>5, ScreenAssumption DEF TabStop
  <2>2. Paper!Advance(TAB_WIDTH) /\ PaperNow' = PaperNow
    BY <1>1, <1>4, <2>1
  <2>3. Paper!Tab
    BY <1>1, <2>2 DEF Paper!Tab, OnScreen
  <2>4. QED
    BY <2>3 DEF Paper!Next
<1>6. CASE c \in Printable /\ PutGlyph(c)
  <2> DEFINE e == vga_entry(c, terminal_color)
             cells == terminal_putentryat(c, terminal_color, terminal_column, terminal_row)
  <2>1. e \in Entry /\ cells \in [Cell -> Entry]
    BY <1>6, PrintCells
  <2>2. Advance(1, cells) /\ 1 \in Nat
    BY <1>6 DEF PutGlyph
  <2>3. Paper!Advance(1) /\ PaperNow' = PaperOf(scrolled, cells)
    BY <1>4, <2>1, <2>2
  <2>4. cells = StoredAt(screen, terminal_column, terminal_row, e)
    BY DEF terminal_putentryat, StoredAt
  <2> HIDE DEF cells, e
  <2>5. PaperOf(scrolled, cells) = Typed(PaperNow, LineNow, terminal_column, e)
    BY <1>1, <2>1, <2>4, StoreTypesOnPaper
  <2>6. Shown(e) = IF c = SPACE THEN Blank ELSE <<c, terminal_color>>
    BY <1>6, CharsAssumption DEF e, Shown, vga_entry, Printable
  <2>7. Paper!Type(c)
    BY <1>1, <2>3, <2>5, <2>6 DEF Paper!Type, OnScreen, LineOf, Typed
  <2>8. c \in Glyphs \cup {SPACE}
    BY <1>6 DEF Printable
  <2>9. QED
    BY <2>7, <2>8 DEF Paper!Next
<1>7. QED
  BY <1>2, <1>3, <1>5, <1>6 DEF terminal_putchar

(* A step of the console is a keystroke, or leaves the paper alone. *)
LEMMA StepPaper ==
  ASSUME TerminalInv, [Next]_vars
  PROVE  [Paper!Next]_(Paper!vars)
<1>1. terminal_buffer \in {"NULL", "VGA"}
  BY DEF TerminalInv, TypeOK
<1>2. CASE terminal_initialize
  <2>1. /\ terminal_buffer = "NULL" /\ terminal_buffer' = "VGA"
        /\ terminal_row' = 0 /\ terminal_column' = 0 /\ terminal_color' = LIGHT_GREY
        /\ scrolled' = <<>>
        /\ screen' = [i \in Cell |-> Blank]
    BY <1>2 DEF terminal_initialize, TerminalInv, Blank
  <2>2. PaperOf(scrolled', screen') = BlankPaper
    <3>1. Shown(Blank) = Blank
      BY DEF Shown, Blank, vga_entry
    <3>2. ASSUME NEW l \in PaperLines, NEW x \in Column
          PROVE  PaperCell(scrolled', screen', l, x) = Blank
      <4>1. Len(scrolled') = 0 /\ l \in Nat /\ VGA_HEIGHT \in Nat
        BY <2>1, ScreenAssumption DEF PaperLines
      <4>2. CASE l < VGA_HEIGHT
        <5>1. l \in Row /\ l - Len(scrolled') = l /\ ~ (l < Len(scrolled')) /\ l < Len(scrolled') + VGA_HEIGHT
          BY <4>1, <4>2 DEF Row
        <5>2. screen'[Index(x, l)] = Blank
          BY <2>1, <5>1, IndexFacts
        <5>3. QED
          BY <3>1, <5>1, <5>2 DEF PaperCell
      <4>3. CASE ~ (l < VGA_HEIGHT)
        <5>1. ~ (l < Len(scrolled')) /\ ~ (l < Len(scrolled') + VGA_HEIGHT)
          BY <4>1, <4>3
        <5>2. QED
          BY <5>1 DEF PaperCell
      <4>4. QED
        BY <4>2, <4>3
    <3>3. QED
      BY <3>2 DEF PaperOf, BlankPaper, PaperLines
  <2>3. Len(scrolled') + terminal_row' = 0
    BY <2>1
  <2>4. QED
    BY <2>1, <2>2, <2>3 DEF Paper!vars, OnScreen
<1>3. CASE \E enable \in BOOLEAN : terminal_enable_serial(enable)
  BY <1>3 DEF terminal_enable_serial, cursor, Paper!vars, OnScreen
<1>4. CASE \E color \in Colors : terminal_setcolor(color)
  <2>1. PICK color \in Colors : terminal_setcolor(color)
    BY <1>4
  <2>2. CASE terminal_buffer = "NULL"
    BY <2>1, <2>2, EarlyIsInvisible DEF terminal_setcolor
  <2>3. CASE terminal_buffer = "VGA"
    <3>1. Paper!Ribbon(color)
      BY <2>1, <2>3 DEF terminal_setcolor, cursor, Paper!Ribbon, OnScreen
    <3>2. QED
      BY <3>1 DEF Paper!Next
  <2>4. QED
    BY <1>1, <2>2, <2>3
<1>5. CASE \E data \in Messages : terminal_write(data)
  BY <1>5 DEF terminal_write, cursor, Paper!vars, OnScreen
<1>6. CASE terminal_putchar
  <2>1. CASE terminal_buffer = "NULL"
    BY <1>6, <2>1, EarlyIsInvisible DEF terminal_putchar
  <2>2. CASE terminal_buffer = "VGA"
    BY <1>6, <2>2, PutcharTypes
  <2>3. QED
    BY <1>1, <2>1, <2>2
<1>7. CASE UNCHANGED vars
  BY <1>7 DEF vars, Paper!vars, OnScreen
<1>8. QED
  BY <1>2, <1>3, <1>4, <1>5, <1>6, <1>7 DEF Next

(* The screen is a window on a teletype's paper, for every size of screen:  *)
(* scrolling and wrapping lose nothing but what has left at the top.        *)
THEOREM TerminalImplementsTeletype == Spec => ImplementsTeletype
<1>1. Init => Paper!Init
  <2> SUFFICES ASSUME terminal_buffer = "NULL" PROVE Paper!Init
    BY DEF Init
  <2>1. OnScreen(PaperOf(scrolled, screen), BlankPaper) = BlankPaper
    BY DEF OnScreen
  <2>2. /\ OnScreen(Len(scrolled) + terminal_row, 0) = 0
        /\ OnScreen(terminal_column, 0) = 0
        /\ OnScreen(terminal_color, LIGHT_GREY) = LIGHT_GREY
    BY DEF OnScreen
  <2>3. BlankPaper = [l \in 0 .. ((MaxScrolled + VGA_HEIGHT) - 1) |->
                         [c \in 0 .. (VGA_WIDTH - 1) |-> Blank]]
    BY DEF BlankPaper, Column
  <2>4. QED
    BY <2>1, <2>2, <2>3 DEF Paper!Init
<1>2. QED
  BY <1>1, StepPaper, TerminalInvariant, PTL DEF Spec, ImplementsTeletype, Paper!Spec

=============================================================================
