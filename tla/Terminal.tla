------------------------------ MODULE Terminal ------------------------------
(***************************************************************************)
(* kernel/arch/i386/tty.c: the VGA text console, one character at a time,  *)
(* from boot.S's first call of printf (with terminal_buffer still NULL) to *)
(* whatever the kernel writes after terminal_initialize.                   *)
(*                                                                         *)
(* A character cell holds what vga_entry packs into 16 bits: the pair of a *)
(* character and a colour. Colours are foreground colours on black, the    *)
(* only kind the kernel uses. Strings are sequences of characters, and the *)
(* wording of messages is left out: Messages is any set of strings.        *)
(***************************************************************************)
EXTENDS Naturals, Sequences

CONSTANTS
  VGA_WIDTH, VGA_HEIGHT, \* 80 and 25
  TAB_WIDTH,             \* what '\t' adds to the column: 4
  Glyphs,                \* characters that leave ink
  LF, CR, HT,            \* '\n', '\r', '\t'
  SPACE, NUL,            \* ' ' and the zero byte of a cleared cell
  Colors,
  LIGHT_GREY,
  BLACK,                 \* colour 0
  Banner,                \* the lines that terminal_initialize writes
  Messages,              \* the strings that callers write
  MaxScrolled            \* bound: how many rows may leave the screen

Printable == Glyphs \cup {SPACE}
Chars == Printable \cup {LF, CR, HT}

ASSUME ScreenAssumption ==
  /\ VGA_WIDTH \in Nat \ {0}
  /\ VGA_HEIGHT \in Nat \ {0}
  /\ TAB_WIDTH \in Nat \ {0}
  /\ MaxScrolled \in Nat

ASSUME CharsAssumption ==
  /\ LF # CR /\ LF # HT /\ CR # HT
  /\ SPACE \notin {LF, CR, HT, NUL}
  /\ Glyphs \cap {LF, CR, HT, SPACE, NUL} = {}
  /\ LIGHT_GREY \in Colors
  /\ Banner \in Seq(Chars)
  /\ Messages \subseteq Seq(Chars)
  /\ Len(Banner) <= MaxScrolled

Cell == 0 .. (VGA_WIDTH * VGA_HEIGHT - 1)
Column == 0 .. (VGA_WIDTH - 1)
Row == 0 .. (VGA_HEIGHT - 1)

VARIABLES
  terminal_row,
  terminal_column,
  terminal_color,
  terminal_buffer,        \* "NULL" until terminal_initialize, then "VGA"
  screen,                 \* the VGA text memory, cell by cell
  terminal_serial_output,
  sent,                   \* the bytes the last step gave to the serial port
  pending,                \* what terminal_write has still to write
  scrolled                \* history: the rows that left the screen

vars == <<terminal_row, terminal_column, terminal_color, terminal_buffer, screen,
          terminal_serial_output, sent, pending, scrolled>>

cursor == <<terminal_row, terminal_column>>

vga_entry(c, color) == <<c, color>>

Entry == (Printable \cup {NUL}) \X (Colors \cup {BLACK})

Init ==
  /\ terminal_row = 0
  /\ terminal_column = 0
  /\ terminal_color = BLACK
  /\ terminal_buffer = "NULL"
  /\ screen = [i \in Cell |-> vga_entry(NUL, BLACK)]
  /\ terminal_serial_output = FALSE
  /\ sent = <<>>
  /\ pending = <<>>
  /\ scrolled = <<>>

-----------------------------------------------------------------------------
terminal_enable_serial(enable) ==
  /\ pending = <<>>
  /\ terminal_serial_output' = enable
  /\ sent' = <<>>
  /\ UNCHANGED <<cursor, terminal_color, terminal_buffer, screen, pending, scrolled>>

(* Called once, by boot.S, with paging on. *)
terminal_initialize ==
  /\ pending = <<>>
  /\ terminal_buffer = "NULL"
  /\ terminal_row' = 0
  /\ terminal_column' = 0
  /\ terminal_color' = LIGHT_GREY
  /\ terminal_buffer' = "VGA"
  /\ screen' = [i \in Cell |-> vga_entry(SPACE, LIGHT_GREY)]
  /\ pending' = Banner
  /\ sent' = <<>>
  /\ UNCHANGED <<terminal_serial_output, scrolled>>

terminal_setcolor(color) ==
  /\ pending = <<>>
  /\ terminal_color' = color
  /\ sent' = <<>>
  /\ UNCHANGED <<cursor, terminal_buffer, screen, terminal_serial_output, pending, scrolled>>

(* terminal_write and terminal_writestring start their loop over the string.*)
(* No character scrolls more than one row, so the guard keeps the bound.    *)
terminal_write(data) ==
  /\ pending = <<>>
  /\ Len(scrolled) + Len(data) <= MaxScrolled
  /\ pending' = data
  /\ sent' = <<>>
  /\ UNCHANGED <<cursor, terminal_color, terminal_buffer, screen,
                 terminal_serial_output, scrolled>>

-----------------------------------------------------------------------------
(* A store through terminal_buffer: while that is NULL it goes to the       *)
(* identity-mapped low memory, which no property looks at.                  *)
Store(cells) == screen' = IF terminal_buffer = "VGA" THEN cells ELSE screen

Index(x, y) == y * VGA_WIDTH + x

SwapsEntry(c, color, x, y) == [screen EXCEPT ![Index(x, y)] = vga_entry(color, c)]

terminal_putentryat(c, color, x, y) ==
  [screen EXCEPT ![Index(x, y)] = vga_entry(c, color)]

LastRowStart == VGA_WIDTH * (VGA_HEIGHT - 1)

KeepsLastRow(cells) ==
  [i \in Cell |-> IF i < LastRowStart THEN cells[i + VGA_WIDTH] ELSE cells[i]]

(* memmove of all rows but the first, memset of the last. *)
scroll(cells) ==
  [i \in Cell |-> IF i < LastRowStart THEN cells[i + VGA_WIDTH] ELSE vga_entry(NUL, BLACK)]

TopRow(cells) == [x \in Column |-> cells[Index(x, 0)]]

LateScroll(cells) ==
  /\ terminal_column' = 0
  /\ IF terminal_row + 1 > VGA_HEIGHT
     THEN /\ Store(scroll(cells))
          /\ terminal_row' = terminal_row
          /\ scrolled' = IF terminal_buffer = "VGA" THEN Append(scrolled, TopRow(cells))
                         ELSE scrolled
     ELSE /\ Store(cells)
          /\ terminal_row' = terminal_row + 1
          /\ UNCHANGED scrolled

(* To the start of the next row, which scroll() provides at the bottom: it  *)
(* takes terminal_row back by one.                                          *)
NextRow(cells) ==
  /\ terminal_column' = 0
  /\ IF terminal_row + 1 >= VGA_HEIGHT
     THEN /\ Store(scroll(cells))
          /\ terminal_row' = terminal_row
          /\ scrolled' = IF terminal_buffer = "VGA" THEN Append(scrolled, TopRow(cells))
                         ELSE scrolled
     ELSE /\ Store(cells)
          /\ terminal_row' = terminal_row + 1
          /\ UNCHANGED scrolled

(* n columns on, or to the next row when that leaves the line. *)
Advance(n, cells) ==
  IF terminal_column + n >= VGA_WIDTH THEN NextRow(cells)
  ELSE /\ terminal_column' = terminal_column + n
       /\ Store(cells)
       /\ UNCHANGED <<terminal_row, scrolled>>

LineFeed == NextRow(screen)

CarriageReturn ==
  /\ terminal_column' = 0
  /\ UNCHANGED <<terminal_row, screen, scrolled>>

(* A tab moves the cursor and leaves the cells it passes as they are. *)
TabStop == Advance(TAB_WIDTH, screen)

PutGlyph(c) ==
  Advance(1, terminal_putentryat(c, terminal_color, terminal_column, terminal_row))

(* The bytes that go to the serial port for c. *)
SerialBytes(c) == IF c = LF THEN <<CR, LF>> ELSE <<c>>

(* One round of terminal_write's loop: terminal_putchar of the next char. *)
terminal_putchar ==
  /\ pending # <<>>
  /\ LET c == Head(pending)
     IN  /\ \/ c = LF /\ LineFeed
            \/ c = CR /\ CarriageReturn
            \/ c = HT /\ TabStop
            \/ c \in Printable /\ PutGlyph(c)
         /\ sent' = IF terminal_serial_output THEN SerialBytes(c) ELSE <<>>
  /\ pending' = Tail(pending)
  /\ UNCHANGED <<terminal_color, terminal_buffer, terminal_serial_output>>

-----------------------------------------------------------------------------
Next ==
  \/ terminal_initialize
  \/ \E enable \in BOOLEAN : terminal_enable_serial(enable)
  \/ \E color \in Colors : terminal_setcolor(color)
  \/ \E data \in Messages : terminal_write(data)
  \/ terminal_putchar

Spec == Init /\ [][Next]_vars

-----------------------------------------------------------------------------
(* Cells hold a printable character and a colour, and what is kept of the   *)
(* string and of the serial echo consists of characters.                    *)
TypeOK ==
  /\ terminal_row \in Nat
  /\ terminal_column \in Nat
  /\ terminal_color \in Colors \cup {BLACK}
  /\ terminal_buffer \in {"NULL", "VGA"}
  /\ screen \in [Cell -> Entry]
  /\ terminal_serial_output \in BOOLEAN
  /\ sent \in Seq(Chars)
  /\ pending \in Seq(Chars)
  /\ scrolled \in Seq([Column -> Entry])

(* Between two characters the cursor is on the screen, so that the store of *)
(* terminal_putentryat stays inside the 80x25 cells, after any string.      *)
CursorOnScreen ==
  /\ terminal_row \in Row
  /\ terminal_column \in Column
  /\ Index(terminal_column, terminal_row) \in Cell

(***************************************************************************)
(* The screen is a window on a teletype's paper: scrolling loses only the  *)
(* top row, repeats none, and opens an empty row at the bottom, although   *)
(* the cells it clears hold zero and the ones terminal_initialize clears   *)
(* hold spaces.                                                            *)
(***************************************************************************)
Blank == vga_entry(SPACE, LIGHT_GREY)

Shown(entry) == IF entry[1] \in {SPACE, NUL} THEN Blank ELSE entry

(* What line l of the paper shows at column x, when the rows in rows have   *)
(* left the screen and cells is on it.                                      *)
PaperCell(rows, cells, l, x) ==
  IF l < Len(rows) THEN Shown(rows[l + 1][x])
  ELSE IF l < Len(rows) + VGA_HEIGHT THEN Shown(cells[Index(x, l - Len(rows))])
  ELSE Blank

PaperOf(rows, cells) ==
  [l \in 0 .. ((MaxScrolled + VGA_HEIGHT) - 1) |-> [x \in Column |-> PaperCell(rows, cells, l, x)]]

BlankPaper == [l \in 0 .. ((MaxScrolled + VGA_HEIGHT) - 1) |-> [x \in Column |-> Blank]]

(* Until terminal_initialize nothing reaches the screen. *)
OnScreen(value, early) == IF terminal_buffer = "NULL" THEN early ELSE value

Paper ==
  INSTANCE Teletype WITH
    Width <- VGA_WIDTH,
    TabWidth <- TAB_WIDTH,
    FirstColor <- LIGHT_GREY,
    Space <- SPACE,
    BlankCell <- Blank,
    Lines <- MaxScrolled + VGA_HEIGHT,
    paper <- OnScreen(PaperOf(scrolled, screen), BlankPaper),
    line <- OnScreen(Len(scrolled) + terminal_row, 0),
    column <- OnScreen(terminal_column, 0),
    color <- OnScreen(terminal_color, LIGHT_GREY)

ImplementsTeletype == Paper!Spec

=============================================================================
