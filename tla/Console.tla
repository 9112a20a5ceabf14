------------------------------ MODULE Console -------------------------------
(***************************************************************************)
(* kbmputc() of c/kprintf.c, under kprintf() and the echo of the keyboard: *)
(* the display is one array of characters, crtat the offset in it of the   *)
(* next one, which is also where the cursor is shown.                      *)
(***************************************************************************)
EXTENDS Integers, Sequences

CONSTANTS
    COL, ROW,    \* the size of the display
    TabStop,     \* 8, the distance of tab stops
    Glyph        \* bound: the characters that are shown

\* Addresses are multiples of the tab stop where lines are.
ASSUME ConsoleAssumption ==
    /\ {COL, ROW, TabStop} \subseteq Nat \ {0} /\ COL % TabStop = 0
    /\ " " \in Glyph /\ Glyph \cap {"\t", "\n", "\r", "BS"} = {}

BS == "BS"    \* the backspace

VARIABLES display, crtat

conVars == <<display, crtat>>

Cell == 0 .. COL * ROW - 1

\* A mutant of scroll: the line that comes in is not cleared.
scrollNotClear(s) ==
    IF s.crtat < COL * ROW THEN s
    ELSE [display |-> [i \in Cell |-> s.display[IF i + COL \in Cell THEN i + COL ELSE i]],
          crtat |-> s.crtat - COL]

\* Text moves up a line when crtat has left the display.
scroll(s) ==
    IF s.crtat < COL * ROW THEN s
    ELSE [display |-> [i \in Cell |-> IF i + COL \in Cell THEN s.display[i + COL] ELSE " "],
          crtat |-> s.crtat - COL]

put(s, c) ==
    scroll([display |-> [s.display EXCEPT ![s.crtat] = c], crtat |-> s.crtat + 1])

\* Blanks up to the next tab stop, at least one.
putTab(s) ==
    LET tab == TabStop - (s.crtat % TabStop)
        blanks[n \in 0 .. tab] == IF n = 0 THEN s ELSE put(blanks[n - 1], " ")
    IN  blanks[tab]

\* '\n' goes on as '\r' does.
kbmputc(s, c) ==
    CASE c = "\t" -> putTab(s)
      [] c = BS -> scroll([s EXCEPT !.crtat = @ - 1])
      [] c = "\n" -> scroll([s EXCEPT !.crtat = @ + (COL - (@ % COL))])
      [] c = "\r" -> scroll([s EXCEPT !.crtat = @ - (@ % COL)])
      [] OTHER    -> put(s, c)

\* The first call clears what is behind the cursor that the loader left.  Bound: that
\* is on the display (the code also takes the cell behind it).
InitConsole ==
    /\ crtat \in Cell
    /\ display \in [Cell -> Glyph]
    /\ \A i \in Cell : i >= crtat => display[i] = " "

\* Bound: no backspace at the first cell, where the code goes on to the memory in
\* front of the display.
Putc(c) ==
    /\ c = BS => crtat > 0
    /\ LET s == kbmputc([display |-> display, crtat |-> crtat], c)
       IN  display' = s.display /\ crtat' = s.crtat

NextConsole == \E c \in Glyph \cup {"\t", "\n", "\r", BS} : Putc(c)

-----------------------------------------------------------------------------
(* Properties                                                               *)

Screen == INSTANCE Terminal WITH
    Rows <- ROW, Cols <- COL, Glyphs <- Glyph, Stop <- TabStop,
    text <- [r \in 1 .. ROW |-> [c \in 1 .. COL |-> display[(r - 1) * COL + c - 1]]],
    row <- crtat \div COL + 1, col <- (crtat % COL) + 1

\* The array and the offset are a terminal: lines wrap and scroll one at a time, also
\* from a tab or a character in the last cell, and the cursor is never off the display.
ImplementsTerminal == Screen!TermSpec
=============================================================================
