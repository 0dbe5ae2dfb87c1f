------------------------------ MODULE Teletype ------------------------------
(***************************************************************************)
(* What the VGA console promises: a teletype with a long roll of paper.    *)
(* There is no screen and no scrolling here. What is typed stays where it  *)
(* was typed, and the console's screen is a window on the end of the roll. *)
(***************************************************************************)
EXTENDS Naturals

CONSTANTS
  Width,     \* columns of the paper
  Lines,     \* lines of the roll
  TabWidth,  \* how far a tab moves the carriage
  Glyphs,    \* what can be typed with ink
  Space,     \* and without
  Colors,    \* in which colours
  FirstColor,
  BlankCell  \* a place nobody typed on

VARIABLES
  paper,     \* line |-> column |-> <<glyph, colour>> or BlankCell
  line,      \* the carriage's line
  column,    \* and column
  color

vars == <<paper, line, column, color>>

Init ==
  /\ paper = [l \in 0 .. (Lines - 1) |-> [c \in 0 .. (Width - 1) |-> BlankCell]]
  /\ line = 0
  /\ column = 0
  /\ color = FirstColor

(* The carriage moves n columns on, or to the next line at the margin. *)
Advance(n) ==
  IF column + n < Width
  THEN column' = column + n /\ UNCHANGED line
  ELSE column' = 0 /\ line' = line + 1

(* A space types over what was there and leaves the place blank. *)
Type(g) ==
  /\ paper' = [paper EXCEPT ![line][column] = IF g = Space THEN BlankCell ELSE <<g, color>>]
  /\ Advance(1)
  /\ UNCHANGED color

Tab == Advance(TabWidth) /\ UNCHANGED <<paper, color>>

NewLine == column' = 0 /\ line' = line + 1 /\ UNCHANGED <<paper, color>>

Return == column' = 0 /\ UNCHANGED <<paper, line, color>>

Ribbon(c) == color' = c /\ UNCHANGED <<paper, line, column>>

Next ==
  \/ \E g \in Glyphs \cup {Space} : Type(g)
  \/ Tab
  \/ NewLine
  \/ Return
  \/ \E c \in Colors : Ribbon(c)

Spec == Init /\ [][Next]_vars

=============================================================================
